---------------------------- MODULE AfterProofs ----------------------------
(***************************************************************************)
(* Proofs about After, for any delays, times and numbers of jobs: the two  *)
(* loops keep a heap, heap and map agree, and core.after keeps its         *)
(* contract.                                                               *)
(***************************************************************************)
EXTENDS After, TLAPS, FiniteSetTheorems, WellFoundedInduction, NaturalsInduction

-----------------------------------------------------------------------------
(* Least and greatest numbers                                              *)

LEMMA Least ==
  ASSUME NEW S \in SUBSET Nat, S # {}
  PROVE  \E i \in S : \A j \in S : i <= j
<1> DEFINE R == OpToRel(<, Nat)
<1>1. IsWellFoundedOn(R, Nat)
  BY NatLessThanWellFounded
<1>2. \E i \in S : \A j \in S : <<j, i>> \notin R
  <2> HIDE DEF R
  <2> QED BY <1>1, WFMin, SMTT(10), ZenonT(20)
<1>3. \A a, b \in Nat : a < b => <<a, b>> \in R
  BY Zenon DEF OpToRel, R
<1> HIDE DEF R
<1>4. PICK i \in S : \A j \in S : <<j, i>> \notin R
  BY <1>2
<1>5. ASSUME NEW j \in S PROVE i <= j
  <2>1. ~(j < i)
    BY <1>3, <1>4
  <2> QED BY <2>1
<1> QED BY <1>5

LEMMA Greatest ==
  ASSUME NEW n \in Nat, NEW S \in SUBSET (1..n), S # {}
  PROVE  \E i \in S : \A j \in S : j <= i
<1> DEFINE T == {k \in Nat : n - k \in S}
<1>1. PICK s \in S : TRUE
  OBVIOUS
<1>2. n - s \in T
  BY <1>1
<1>3. PICK k \in T : \A l \in T : k <= l
  <2> HIDE DEF T
  <2>1. T \in SUBSET Nat
    BY DEF T
  <2> QED BY <1>2, <2>1, Least
<1>4. n - k \in S
  BY <1>3
<1>5. ASSUME NEW j \in S PROVE j <= n - k
  <2>1. n - j \in T
    OBVIOUS
  <2>2. k <= n - j
    BY <1>3, <2>1
  <2> QED BY <2>2
<1> QED BY <1>4, <1>5

-----------------------------------------------------------------------------
(* The indices a loop visits: a path from `from` to an index that stays.    *)

LEMMA VisitedClosed ==
  ASSUME NEW n, NEW from \in 1..n, NEW to \in [1..n -> 1..n]
  PROVE  /\ Visited(from, to) \subseteq 1..n
         /\ from \in Visited(from, to)
         /\ \A i \in Visited(from, to) : to[i] \in Visited(from, to)
BY DEF Visited

LEMMA VisitedWithin ==
  ASSUME NEW n, NEW from \in 1..n, NEW to \in [1..n -> 1..n],
         NEW S \in SUBSET (1..n), from \in S, \A j \in S : to[j] \in S
  PROVE  Visited(from, to) \subseteq S
BY DEF Visited

Into(to, c, i) == c # i /\ to[c] = i

LEMMA VisitedFrom ==
  ASSUME NEW n, NEW from \in 1..n, NEW to \in [1..n -> 1..n],
         NEW i \in Visited(from, to), i # from
  PROVE  \E c \in Visited(from, to) : Into(to, c, i)
<1> DEFINE V == Visited(from, to)
<1>1. SUFFICES ASSUME \A c \in V : c # i => to[c] # i PROVE FALSE
  BY DEF Into
<1>2. /\ V \subseteq 1..n /\ from \in V
      /\ \A j \in V : to[j] \in V
  BY VisitedClosed
<1>3. from \in V \ {i} /\ \A j \in V \ {i} : to[j] \in V \ {i}
  BY <1>1, <1>2
<1>4. V \ {i} \in SUBSET (1..n)
  BY <1>2
<1>5. Visited(from, to) \subseteq V \ {i}
  <2> HIDE DEF V
  <2> QED BY <1>3, <1>4, VisitedWithin
<1> QED BY <1>5

\* A path that only goes up, or only goes down, stops.
LEMMA VisitedStops ==
  ASSUME NEW n \in Nat, NEW from \in 1..n, NEW to \in [1..n -> 1..n],
         (\A i \in 1..n : to[i] <= i) \/ (\A i \in 1..n : i <= to[i])
  PROVE  \E i \in Visited(from, to) : to[i] = i
<1> DEFINE V == Visited(from, to)
<1>1. /\ V \subseteq 1..n /\ V # {}
      /\ \A j \in V : to[j] \in V
  BY VisitedClosed
<1> HIDE DEF V
<1>2. V \in SUBSET Nat /\ V \in SUBSET (1..n)
  BY <1>1
<1>3. CASE \A i \in 1..n : to[i] <= i
  <2>1. PICK i \in V : \A j \in V : i <= j
    BY <1>1, <1>2, Least
  <2>2. to[i] = i
    BY <1>1, <1>3, <2>1
  <2> QED BY <2>2 DEF V
<1>4. CASE \A i \in 1..n : i <= to[i]
  <2>1. PICK i \in V : \A j \in V : j <= i
    BY <1>1, <1>2, Greatest
  <2>2. to[i] = i
    BY <1>1, <1>4, <2>1
  <2> QED BY <2>2 DEF V
<1> QED BY <1>3, <1>4

\* As many numbers as places: each has one place.
LEMMA OneEach ==
  ASSUME NEW n \in Nat, NEW heap \in [1..n -> Int],
         IsFiniteSet(Elements(heap)), Cardinality(Elements(heap)) = n
  PROVE  Distinct(heap)
<1> DEFINE T == Elements(heap)
<1>1. heap \in Surjection(1..n, T)
  BY DEF Surjection, Elements
<1>2. IsFiniteSet(1..n) /\ Cardinality(1..n) = n
  BY FS_Interval
<1>3. Cardinality(1..n) = Cardinality(T)
  BY <1>2
<1> HIDE DEF T
<1>4. heap \in Injection(1..n, T)
  BY <1>1, <1>2, <1>3, FS_SurjSameCardinalityImpliesInj
<1> QED BY <1>4 DEF Injection, IsInjective, Distinct

LEMMA DistinctCount ==
  ASSUME NEW n \in Nat, NEW heap \in [1..n -> Int], Distinct(heap)
  PROVE  IsFiniteSet(Elements(heap)) /\ Cardinality(Elements(heap)) = n
<1> DEFINE T == Elements(heap)
<1>1. heap \in Bijection(1..n, T)
  <2>1. heap \in Injection(1..n, T)
    BY DEF Injection, IsInjective, Elements, Distinct
  <2>2. heap \in Surjection(1..n, T)
    BY DEF Surjection, Elements
  <2> QED BY <2>1, <2>2 DEF Bijection
<1>2. IsFiniteSet(1..n) /\ Cardinality(1..n) = n
  BY FS_Interval
<1>3. ExistsBijection(1..n, T)
  BY <1>1 DEF ExistsBijection
<1> QED BY <1>2, <1>3, FS_Bijection

-----------------------------------------------------------------------------
(* Pushing and popping                                                     *)

\* The loop bubbles an element up to where its parent is not greater.
LEMMA PushKeepsHeap ==
  ASSUME NEW heap \in Seq(Int), NEW e \in Int, HeapOrder(heap)
  PROVE  LET new == heap_push(heap, e)
         IN  /\ new \in Seq(Int) /\ Len(new) = Len(heap) + 1
             /\ HeapOrder(new)
             /\ Elements(new) = Elements(heap) \cup {e}
<1> DEFINE n == Len(heap) + 1
           to == Up(heap, e)
           V == Visited(n, to)
           new == heap_push(heap, e)
<1>1. n \in Nat /\ n \in 1..n /\ \A i \in 1..n : i # n => i \in 1..Len(heap)
  OBVIOUS
<1>2. /\ to \in [1..n -> 1..n]
      /\ \A i \in 1..n : to[i] <= i
      /\ \A i \in 1..n : to[i] = i => i = 1 \/ heap[i \div 2] <= e
      /\ \A i \in 1..n : to[i] # i => i > 1 /\ to[i] = i \div 2 /\ e < heap[i \div 2]
  <2>1. \A i \in 1..n : i > 1 => i \div 2 \in 1..Len(heap) /\ i \div 2 < i
    OBVIOUS
  <2>2. \A i \in 1..Len(heap) : heap[i] \in Int
    OBVIOUS
  <2> QED BY <2>1, <2>2 DEF Up
<1>3. new = Shift(heap, e, n, to)
  BY DEF heap_push
<1> HIDE DEF n, to, new
<1>4. V \subseteq 1..n /\ n \in V /\ \A i \in V : to[i] \in V
  BY <1>1, <1>2, VisitedClosed
<1>5. /\ DOMAIN new = 1..n
      /\ \A i \in 1..n : i \notin V => new[i] = heap[i]
      /\ \A i \in 1..n : i \in V /\ to[i] = i => new[i] = e
      /\ \A i \in 1..n : i \in V /\ to[i] # i => new[i] = heap[to[i]]
  BY <1>2, <1>3 DEF Shift
\* Every index the element leaves held something greater.
<1>6. \A i \in V : i # n => e < heap[i]
  <2> DEFINE S == {i \in 1..n : i # n => e < heap[i]}
  <2>1. \A i \in S : to[i] \in S
    BY <1>1, <1>2
  <2>2. n \in S /\ S \in SUBSET (1..n)
    BY <1>1
  <2>3. V \subseteq S
    <3> HIDE DEF S
    <3> QED BY <1>1, <1>2, <2>1, <2>2, VisitedWithin
  <2> QED BY <2>3
<1>7. ASSUME NEW i \in V, i # n PROVE \E c \in V : Into(to, c, i)
  <2>1. to \in [1..n -> 1..n]
    BY <1>2
  <2> HIDE DEF V
  <2>2. V = Visited(n, to) /\ n \in 1..n
    BY <1>1 DEF V
  <2> QED BY <1>7, <2>1, <2>2, VisitedFrom
<1>8. PICK stop \in V : to[stop] = stop
  BY <1>1, <1>2, VisitedStops
<1> HIDE DEF V
<1>9. \A i \in 1..Len(heap) : heap[i] \in Int
  OBVIOUS
<1>10. n = Len(heap) + 1 /\ Len(heap) \in Nat
  BY DEF n
<1>11. ASSUME NEW i \in 1..n PROVE new[i] \in Int
  <2>1. CASE i \notin V
    BY <1>1, <1>4, <1>5, <1>9, <2>1
  <2>2. CASE i \in V /\ to[i] = i
    BY <1>5, <2>2
  <2>3. CASE i \in V /\ to[i] # i
    <3>1. to[i] \in 1..Len(heap)
      BY <1>1, <1>2, <1>10, <2>3
    <3> QED BY <1>5, <1>9, <2>3, <3>1
  <2> QED BY <2>1, <2>2, <2>3
<1>12. new \in Seq(Int) /\ Len(new) = n
  <2>1. new \in [1..n -> Int]
    <3>1. new = [i \in 1..n |-> new[i]]
      BY <1>3, <1>5, <1>2 DEF Shift
    <3> QED BY <1>11, <3>1
  <2> QED BY <1>1, <2>1
<1>13. HeapOrder(new)
  <2> SUFFICES ASSUME NEW i \in 2..n PROVE new[i \div 2] <= new[i]
    BY <1>12 DEF HeapOrder
  <2> DEFINE p == i \div 2
  <2>1. p \in 1..n /\ p < i /\ p # n /\ i \in 1..n /\ p \in 1..Len(heap)
    BY <1>10
  <2>2. i # n => heap[p] <= heap[i]
    <3>1. i # n => i \in 2..Len(heap)
      BY <1>10
    <3> QED BY <3>1 DEF HeapOrder
  <2>3. p > 1 => heap[p \div 2] <= heap[p] /\ heap[p \div 2] \in Int
    BY <1>9, <2>1 DEF HeapOrder
  <2>4. p \in V => to[p] = p \/ (to[p] = p \div 2 /\ p > 1)
    BY <1>2, <2>1
  <2> HIDE DEF p
  <2>5. i \notin V => i # n
    BY <1>4
  <2>6. CASE i \notin V /\ p \notin V
    <3>1. new[i] = heap[i] /\ new[p] = heap[p] /\ i # n
      BY <1>5, <2>1, <2>5, <2>6
    <3> QED BY <2>2, <3>1 DEF p
  <2>7. CASE i \notin V /\ p \in V
    <3>1. e < heap[p] /\ heap[p] <= heap[i] /\ new[i] = heap[i] /\ i # n
      BY <1>5, <1>6, <2>1, <2>2, <2>5, <2>7
    <3>2. heap[p] \in Int /\ heap[i] \in Int
      BY <1>1, <1>9, <2>1, <3>1
    <3>3. new[p] = e \/ (p > 1 /\ new[p] = heap[p \div 2])
      BY <1>5, <2>1, <2>4, <2>7
    <3> QED BY <2>3, <3>1, <3>2, <3>3 DEF p
  <2>8. CASE i \in V /\ p \notin V
    <3>1. to[i] = i
      BY <1>2, <1>4, <2>1, <2>8 DEF p
    <3> QED BY <1>2, <1>5, <2>1, <2>8, <3>1 DEF p
  <2>9. CASE i \in V /\ p \in V
    <3>1. e < heap[p]
      BY <1>6, <2>1, <2>9
    <3>2. to[i] # i
      BY <1>2, <1>9, <2>1, <3>1 DEF p
    <3>3. new[i] = heap[p]
      BY <1>2, <1>5, <2>1, <2>9, <3>2 DEF p
    <3>4. new[p] = e \/ (p > 1 /\ new[p] = heap[p \div 2])
      BY <1>5, <2>1, <2>4, <2>9
    <3> QED BY <1>9, <2>1, <2>3, <3>1, <3>3, <3>4 DEF p
  <2> QED BY <2>6, <2>7, <2>8, <2>9 DEF p
<1>14. Elements(new) = Elements(heap) \cup {e}
  <2>1. Elements(new) \subseteq Elements(heap) \cup {e}
    <3> SUFFICES ASSUME NEW i \in 1..n PROVE new[i] \in Elements(heap) \cup {e}
      BY <1>5 DEF Elements
    <3>1. CASE i \notin V
      BY <1>1, <1>4, <1>5, <3>1 DEF Elements
    <3>2. CASE i \in V /\ to[i] = i
      BY <1>5, <3>2
    <3>3. CASE i \in V /\ to[i] # i
      <4>1. to[i] \in 1..Len(heap) /\ new[i] = heap[to[i]]
        BY <1>1, <1>2, <1>5, <1>10, <3>3
      <4> QED BY <4>1 DEF Elements
    <3> QED BY <3>1, <3>2, <3>3
  <2>2. e \in Elements(new)
    BY <1>4, <1>5, <1>8 DEF Elements
  <2>3. ASSUME NEW i \in 1..Len(heap) PROVE heap[i] \in Elements(new)
    <3>0. i \in 1..n /\ i # n
      BY <1>10
    <3>1. CASE i \notin V
      <4>1. new[i] = heap[i]
        BY <1>5, <3>0, <3>1
      <4> QED BY <1>5, <3>0, <4>1 DEF Elements
    <3>2. CASE i \in V
      <4>1. PICK c \in V : Into(to, c, i)
        BY <1>7, <3>0, <3>2
      <4>2. c \in 1..n /\ new[c] = heap[i]
        BY <1>4, <1>5, <4>1 DEF Into
      <4> QED BY <1>5, <4>2 DEF Elements
    <3> QED BY <3>1, <3>2
  <2> QED BY <2>1, <2>2, <2>3 DEF Elements
<1> QED BY <1>10, <1>12, <1>13, <1>14 DEF new

\* The loop sinks the last element down to where no child is less.
LEMMA PopKeepsHeap ==
  ASSUME NEW heap \in Seq(Int), heap # <<>>, HeapOrder(heap), Distinct(heap)
  PROVE  LET new == heap_pop(heap)
         IN  /\ new \in Seq(Int) /\ Len(new) = Len(heap) - 1
             /\ HeapOrder(new)
             /\ Elements(new) = Elements(heap) \ {heap[1]}
<1> DEFINE n == Len(heap) - 1
           e == heap[n + 1]
           to == Down(heap, e, n)
           V == Visited(1, to)
           new == heap_pop(heap)
<1>1. n \in Nat /\ Len(heap) = n + 1 /\ e \in Int /\ \A i \in 1..(n + 1) : heap[i] \in Int
  OBVIOUS
<1>2. \A i \in 2..(n + 1) : heap[i \div 2] <= heap[i]
  BY DEF HeapOrder
<1>3. \A i, j \in 1..(n + 1) : heap[i] = heap[j] => i = j
  BY DEF Distinct
<1>4. new = Shift(heap, e, 1, to) /\ DOMAIN to = 1..n
  BY DEF heap_pop, Down
<1>5. /\ to \in [1..n -> 1..n]
      /\ \A i \in 1..n : i <= to[i]
      /\ \A i \in 1..n : to[i] = i =>
           \A c \in 2..n : c \div 2 = i => e <= heap[c]
      /\ \A i \in 1..n : to[i] # i =>
           /\ to[i] \in 2..n /\ to[i] \div 2 = i /\ heap[to[i]] < e
           /\ \A c \in 2..n : c \div 2 = i => heap[to[i]] <= heap[c]
  <2>1. ASSUME NEW i \in 1..n
        PROVE  /\ to[i] \in 1..n /\ i <= to[i]
               /\ to[i] = i => \A c \in 2..n : c \div 2 = i => e <= heap[c]
               /\ to[i] # i =>
                    /\ to[i] \in 2..n /\ to[i] \div 2 = i /\ heap[to[i]] < e
                    /\ \A c \in 2..n : c \div 2 = i => heap[to[i]] <= heap[c]
    <3> DEFINE l == 2 * i
               r == 2 * i + 1
               left == l <= n /\ heap[l] < e
               right == r <= n /\ heap[r] < (IF left THEN heap[l] ELSE e)
    <3>1. to[i] = IF right THEN r ELSE IF left THEN l ELSE i
      BY DEF Down
    <3>2. /\ l \in Nat /\ r \in Nat /\ i < l /\ i < r /\ l \div 2 = i /\ r \div 2 = i
          /\ l \in 2..r /\ r = l + 1
          /\ \A c \in 2..n : c \div 2 = i => c = l \/ c = r
      <4> HIDE <1>1
      <4>1. i \in Nat /\ i >= 1
        BY <1>1
      <4> QED BY <4>1
    <3>3. /\ l <= n => heap[l] \in Int
          /\ r <= n => heap[r] \in Int
      BY <1>1, <3>2
    <3> HIDE DEF l, r, to, e, n
    <3>4. CASE right
      <4>1. to[i] = r /\ r \in 2..n /\ l \in 2..n
        BY <1>1, <3>1, <3>2, <3>4
      <4>2. heap[r] < e /\ heap[r] <= heap[l]
        <5>1. CASE left
          BY <1>1, <3>2, <3>3, <3>4, <4>1, <5>1
        <5>2. CASE ~left
          BY <1>1, <3>2, <3>3, <3>4, <4>1, <5>2
        <5> QED BY <5>1, <5>2
      <4>3. ASSUME NEW c \in 2..n, c \div 2 = i PROVE heap[r] <= heap[c]
        <5>1. heap[r] <= heap[r]
          BY <3>3, <4>1
        <5>2. c = l \/ c = r
          BY <3>2, <4>3
        <5> QED BY <4>2, <5>1, <5>2
      <4>4. to[i] \in 1..n /\ i <= to[i] /\ to[i] # i /\ to[i] \div 2 = i
        BY <1>1, <3>2, <4>1
      <4> QED BY <4>1, <4>2, <4>3, <4>4
    <3>5. CASE ~right /\ left
      <4>1. to[i] = l /\ l \in 2..n /\ heap[l] < e
        BY <1>1, <3>1, <3>2, <3>5
      <4>2. r <= n => heap[l] <= heap[r]
        BY <1>1, <3>2, <3>3, <3>5
      <4>3. \A c \in 2..n : c \div 2 = i => heap[l] <= heap[c]
        BY <1>1, <3>2, <3>3, <4>1, <4>2
      <4>4. to[i] \in 1..n /\ i <= to[i] /\ to[i] # i /\ to[i] \div 2 = i
        BY <1>1, <3>2, <4>1
      <4> QED BY <4>1, <4>3, <4>4
    <3>6. CASE ~right /\ ~left
      <4>1. to[i] = i
        BY <3>1, <3>6
      <4>2. (r <= n => e <= heap[r]) /\ (l <= n => e <= heap[l])
        BY <1>1, <3>2, <3>3, <3>6
      <4> QED BY <1>1, <3>2, <4>1, <4>2
    <3> QED BY <3>4, <3>5, <3>6
  <2>2. to \in [1..n -> 1..n]
    BY <2>1, <1>4 DEF Down
  <2> QED BY <2>1, <2>2
<1> HIDE DEF to, new
<1>6. CASE n = 0
  <2>1. new = <<>>
    BY <1>4, <1>6 DEF Shift
  <2>2. DOMAIN heap = {1}
    <3>1. DOMAIN heap = 1..Len(heap)
      OBVIOUS
    <3>2. Len(heap) = 1
      <4>1. Len(heap) \in Nat
        OBVIOUS
      <4> QED BY <1>6, <4>1
    <3> QED BY <3>1, <3>2
  <2>3. Elements(heap) = {heap[1]}
    BY <2>2 DEF Elements
  <2>4. Elements(<<>>) = {} /\ HeapOrder(<<>>)
    BY DEF Elements, HeapOrder
  <2> QED BY <1>6, <2>1, <2>3, <2>4 DEF new
<1>7. CASE n # 0
  <2>1. to \in [1..n -> 1..n] /\ 1 \in 1..n
    BY <1>1, <1>5, <1>7
  <2>2. V \subseteq 1..n /\ 1 \in V /\ \A i \in V : to[i] \in V
    BY <2>1, VisitedClosed
  <2>3. /\ DOMAIN new = 1..n
        /\ \A i \in 1..n : i \notin V => new[i] = heap[i]
        /\ \A i \in 1..n : i \in V /\ to[i] = i => new[i] = e
        /\ \A i \in 1..n : i \in V /\ to[i] # i => new[i] = heap[to[i]]
    BY <1>4, <2>1 DEF Shift
  \* Every index the element sinks to held something less.
  <2>4. \A i \in V : i # 1 => heap[i] < e
    <3> DEFINE S == {i \in 1..n : i # 1 => heap[i] < e}
    <3>1. \A i \in S : to[i] \in S
      BY <1>5, <2>1
    <3>2. 1 \in S /\ S \in SUBSET (1..n)
      BY <2>1
    <3>3. V \subseteq S
      <4> HIDE DEF S
      <4> QED BY <2>1, <3>1, <3>2, VisitedWithin
    <3> QED BY <3>3
  <2>5. ASSUME NEW i \in V, i # 1 PROVE i \div 2 \in V /\ to[i \div 2] = i
    <3> HIDE DEF V, n
    <3>1. to \in [1..n -> 1..n] /\ 1 \in 1..n /\ V = Visited(1, to)
      BY <2>1 DEF V
    <3>2. PICK c \in V : Into(to, c, i)
      BY <2>5, <3>1, VisitedFrom
    <3>3. c \in 1..n /\ c # i /\ to[c] = i
      BY <2>2, <3>2 DEF Into
    <3>4. c = i \div 2
      BY <1>5, <3>3
    <3> QED BY <3>2, <3>3, <3>4
  <2>6. PICK stop \in V : to[stop] = stop
    <3> HIDE DEF n
    <3> QED BY <1>1, <1>5, <2>1, VisitedStops
  <2> HIDE DEF V, n, e
  <2>7. \A i \in 1..n : new[i] \in Int
    <3> SUFFICES ASSUME NEW i \in 1..n PROVE new[i] \in Int
      OBVIOUS
    <3>0. i \in 1..(n + 1) /\ to[i] \in 1..(n + 1)
      <4>1. to[i] \in 1..n
        BY <2>1
      <4> QED BY <1>1, <4>1
    <3>1. CASE i \notin V
      BY <1>1, <2>3, <3>0, <3>1
    <3>2. CASE i \in V /\ to[i] = i
      BY <1>1, <2>3, <3>2
    <3>3. CASE i \in V /\ to[i] # i
      BY <1>1, <2>3, <3>0, <3>3
    <3> QED BY <3>1, <3>2, <3>3
  <2>8. new \in Seq(Int) /\ Len(new) = n
    <3>1. new = [i \in 1..n |-> new[i]]
      BY <1>4 DEF Shift
    <3>2. new \in [1..n -> Int]
      BY <2>7, <3>1
    <3> QED BY <1>1, <3>2
  <2>9. HeapOrder(new)
    <3> SUFFICES ASSUME NEW i \in 2..n PROVE new[i \div 2] <= new[i]
      BY <2>8 DEF HeapOrder
    <3> DEFINE p == i \div 2
    <3>1. p \in 1..n /\ i \in 1..n /\ i # 1 /\ i \in 2..(n + 1) /\ p \in 1..(n + 1)
      BY <1>1
    <3>2. heap[p] <= heap[i] /\ heap[p] \in Int /\ heap[i] \in Int
      BY <1>1, <1>2, <3>1
    <3>3. to[p] \in 1..n /\ to[i] \in 1..n
      BY <2>1, <3>1
    <3>4. i \in V => p \in V /\ to[p] = i
      BY <2>5, <3>1
    <3>5. to[p] = p => e <= heap[i]
      BY <1>5, <3>1
    <3>6. to[p] # p => heap[to[p]] <= heap[i]
      BY <1>5, <3>1
    <3>7. CASE i \notin V /\ p \notin V
      BY <2>3, <3>1, <3>2, <3>7 DEF p
    <3>8. CASE i \notin V /\ p \in V
      <4>1. new[i] = heap[i]
        BY <2>3, <3>1, <3>8
      <4>2. to[p] = p => new[p] = e
        BY <2>3, <3>1, <3>8
      <4>3. to[p] # p => new[p] = heap[to[p]]
        BY <2>3, <3>1, <3>8
      <4> QED BY <3>5, <3>6, <4>1, <4>2, <4>3 DEF p
    <3>9. CASE i \in V
      <4>1. new[p] = heap[i] /\ heap[i] < e
        <5>1. to[p] # p /\ to[p] = i /\ p \in V
          BY <3>1, <3>4, <3>9
        <5> QED BY <2>3, <2>4, <3>1, <3>9, <5>1
      <4>2. CASE to[i] = i
        <5>1. new[i] = e
          BY <2>3, <3>1, <3>9, <4>2
        <5> QED BY <1>1, <3>2, <4>1, <5>1 DEF p
      <4>3. CASE to[i] # i
        <5>1. new[i] = heap[to[i]]
          BY <2>3, <3>1, <3>9, <4>3
        <5>0. to[i] \in 2..n /\ to[i] \div 2 = i
          BY <1>5, <3>1, <4>3
        <5>2. to[i] \in 2..(n + 1) /\ to[i] \div 2 = i
          BY <1>1, <5>0
        <5>3. heap[i] <= heap[to[i]]
          BY <1>2, <5>2
        <5> QED BY <4>1, <5>1, <5>3 DEF p
      <4> QED BY <4>2, <4>3
    <3> QED BY <3>7, <3>8, <3>9
  <2>10. Elements(new) = Elements(heap) \ {heap[1]}
    <3>0. DOMAIN heap = 1..(n + 1) /\ 1 \in 1..(n + 1) /\ n + 1 \in 1..(n + 1) /\ n + 1 # 1
      BY <1>1, <1>7
    <3>1. ASSUME NEW i \in 1..n PROVE new[i] \in Elements(heap) /\ new[i] # heap[1]
      <4>0. i \in 1..(n + 1) /\ to[i] \in 1..(n + 1)
        <5>1. to[i] \in 1..n
          BY <2>1
        <5> QED BY <1>1, <5>1
      <4>1. CASE i \notin V
        <5>1. i # 1 /\ new[i] = heap[i]
          BY <2>2, <2>3, <4>1
        <5> QED BY <1>3, <3>0, <4>0, <5>1 DEF Elements
      <4>2. CASE i \in V /\ to[i] = i
        <5>1. new[i] = heap[n + 1]
          BY <2>3, <4>2 DEF e
        <5> QED BY <1>3, <3>0, <5>1 DEF Elements
      <4>3. CASE i \in V /\ to[i] # i
        <5>1. new[i] = heap[to[i]] /\ to[i] # 1
          BY <1>5, <2>3, <4>3
        <5> QED BY <1>3, <3>0, <4>0, <5>1 DEF Elements
      <4> QED BY <4>1, <4>2, <4>3
    <3>2. ASSUME NEW i \in 1..(n + 1), i # 1 PROVE heap[i] \in Elements(new)
      <4>1. CASE i = n + 1
        <5>1. stop \in 1..n /\ new[stop] = heap[i]
          BY <2>2, <2>3, <2>6, <4>1 DEF e
        <5> QED BY <2>3, <5>1 DEF Elements
      <4>2. CASE i # n + 1 /\ i \notin V
        <5>1. i \in 1..n /\ new[i] = heap[i]
          BY <1>1, <2>3, <4>2
        <5> QED BY <2>3, <5>1 DEF Elements
      <4>3. CASE i \in V
        <5>1. i \div 2 \in V /\ to[i \div 2] = i /\ i \div 2 # i
          BY <1>1, <2>2, <2>5, <3>2, <4>3
        <5>2. i \div 2 \in 1..n /\ new[i \div 2] = heap[i]
          BY <2>2, <2>3, <5>1
        <5> QED BY <2>3, <5>2 DEF Elements
      <4> QED BY <4>1, <4>2, <4>3
    <3>3. Elements(new) \subseteq Elements(heap) \ {heap[1]}
      BY <2>3, <3>1 DEF Elements
    <3>4. Elements(heap) \ {heap[1]} \subseteq Elements(new)
      <4> SUFFICES ASSUME NEW i \in 1..(n + 1), heap[i] # heap[1]
                   PROVE  heap[i] \in Elements(new)
        BY <3>0 DEF Elements
      <4> QED BY <3>2
    <3> QED BY <3>3, <3>4
  <2> QED BY <1>1, <2>8, <2>9, <2>10 DEF new, n
<1> QED BY <1>6, <1>7

\* The first of a heap is the least.
LEMMA RootIsLeast ==
  ASSUME NEW heap \in Seq(Int), HeapOrder(heap)
  PROVE  \A i \in 1..Len(heap) : heap[1] <= heap[i]
<1> SUFFICES ASSUME NEW i \in 1..Len(heap), heap[i] < heap[1] PROVE FALSE
  OBVIOUS
<1> DEFINE S == {k \in 1..Len(heap) : heap[k] < heap[1]}
<1>1. PICK k \in S : \A l \in S : k <= l
  <2>1. S \in SUBSET Nat /\ S # {}
    OBVIOUS
  <2> HIDE DEF S
  <2> QED BY <2>1, Least
<1>2. k \in 2..Len(heap) /\ k \div 2 \in 1..Len(heap) /\ k \div 2 < k
  <2>1. k # 1 /\ k \in 1..Len(heap)
    OBVIOUS
  <2> QED BY <2>1
<1>3. heap[k \div 2] <= heap[k]
  BY <1>2 DEF HeapOrder
<1>4. k \div 2 \in S
  BY <1>2, <1>3
<1> QED BY <1>1, <1>2, <1>4

-----------------------------------------------------------------------------
(* The inductive invariant                                                 *)

Sorted(list) == \A k, l \in DOMAIN list : k < l => Contract!Before(list[k], list[l])

\* The list of expiry t holds jobs of expiry t, in order of registration.
ListOK(list, t, c) ==
  /\ list \in Seq(Job) /\ list # <<>>
  /\ Sorted(list)
  /\ \A k \in DOMAIN list : list[k].at = t /\ list[k].n \in 1..c

ListsOK ==
  \A t \in DOMAIN job_map : t \in Int /\ t < Huge /\ ListOK(job_map[t], t, count)

ExpiredOK ==
  Sorted(expired) /\ \A k \in DOMAIN expired : expired[k].n \in 1..count

NextIsFirst == time_next = FirstExpiry(expiries)

\* While lists are collected, what is collected comes before what is left.
PhaseOK ==
  /\ time \in Nat /\ time <= MaxTime
  /\ pc = "idle" => expired = <<>>
  /\ pc = "collect" =>
       /\ expiries # <<>> /\ expiries[1] <= time
       /\ \A k \in DOMAIN expired : \A t \in DOMAIN job_map : expired[k].at < t

IInv == TypeOK /\ HeapOK /\ ListsOK /\ ExpiredOK /\ NextIsFirst /\ PhaseOK

LEMMA InitInv == Init => IInv
<1> SUFFICES ASSUME Init PROVE IInv
  OBVIOUS
<1>1. DOMAIN job_map = {} /\ job_map \in [DOMAIN job_map -> Seq(Job)]
  BY DEF Init
<1>2. HeapOK
  BY <1>1 DEF Init, HeapOK, HeapOrder, Distinct, Elements
<1>3. TypeOK
  BY <1>1, AfterAssumption DEF Init, TypeOK
<1>4. ListsOK /\ ExpiredOK /\ NextIsFirst /\ PhaseOK
  BY <1>1, AfterAssumption DEF Init, ListsOK, ExpiredOK, NextIsFirst, PhaseOK, Sorted, FirstExpiry
<1> QED BY <1>2, <1>3, <1>4 DEF IInv

\* The least expiry is what the first element says, and no other.
LEMMA LeastKey ==
  ASSUME TypeOK, HeapOK, NextIsFirst
  PROVE  /\ expiries # <<>> => /\ time_next = expiries[1] /\ expiries[1] \in DOMAIN job_map
                               /\ \A t \in DOMAIN job_map : expiries[1] <= t
         /\ expiries = <<>> => time_next = Huge /\ DOMAIN job_map = {}
<1>1. CASE expiries # <<>>
  <2>1. expiries \in Seq(Int) /\ HeapOrder(expiries) /\ Elements(expiries) = DOMAIN job_map
    BY DEF TypeOK, HeapOK
  <2>2. \A i \in 1..Len(expiries) : expiries[1] <= expiries[i]
    BY <2>1, RootIsLeast
  <2>3. DOMAIN expiries = 1..Len(expiries) /\ 1 \in DOMAIN expiries
    BY <1>1, <2>1
  <2>4. expiries[1] \in DOMAIN job_map
    BY <2>1, <2>3 DEF Elements
  <2>5. \A t \in DOMAIN job_map : expiries[1] <= t
    BY <2>1, <2>2, <2>3 DEF Elements
  <2> QED BY <1>1, <2>4, <2>5 DEF NextIsFirst, FirstExpiry
<1>2. CASE expiries = <<>>
  <2>1. DOMAIN expiries = {}
    BY <1>2
  <2>2. Elements(expiries) = {}
    BY <2>1 DEF Elements
  <2> QED BY <1>2, <2>2 DEF HeapOK, NextIsFirst, FirstExpiry
<1> QED BY <1>1, <1>2

-----------------------------------------------------------------------------
(* Registering                                                             *)

\* A list that a new job joins.
LEMMA AppendKeepsList ==
  ASSUME NEW list, NEW t \in Int, NEW c \in Nat, ListOK(list, t, c),
         NEW job, job = [n |-> c + 1, at |-> t]
  PROVE  /\ ListOK(Append(list, job), t, c + 1)
         /\ JobsIn(Append(list, job)) = JobsIn(list) \cup {job}
<1> DEFINE new == Append(list, job)
<1>1. list \in Seq(Job) /\ job \in Job
  BY DEF ListOK, Job
<1>2. /\ new \in Seq(Job) /\ Len(new) = Len(list) + 1 /\ Len(list) \in Nat
      /\ DOMAIN new = 1..(Len(list) + 1) /\ DOMAIN list = 1..Len(list)
      /\ new[Len(list) + 1] = job
      /\ \A k \in 1..Len(list) : new[k] = list[k]
  BY <1>1
<1>3. \A k \in DOMAIN list : list[k].at = t /\ list[k].n \in 1..c
  BY DEF ListOK
<1> HIDE DEF new
<1>4. \A k \in DOMAIN new : new[k].at = t /\ new[k].n \in 1..(c + 1)
  <2> SUFFICES ASSUME NEW k \in DOMAIN new PROVE new[k].at = t /\ new[k].n \in 1..(c + 1)
    OBVIOUS
  <2>1. CASE k = Len(list) + 1
    BY <1>2, <2>1
  <2>2. CASE k \in 1..Len(list)
    BY <1>2, <1>3, <2>2
  <2> QED BY <1>2, <2>1, <2>2
<1>5. Sorted(new)
  <2> SUFFICES ASSUME NEW k \in DOMAIN new, NEW l \in DOMAIN new, k < l
               PROVE  Contract!Before(new[k], new[l])
    BY DEF Sorted
  <2>1. k \in 1..Len(list) /\ new[k] = list[k]
    BY <1>2
  <2>2. CASE l = Len(list) + 1
    <3>1. new[k].at = t /\ new[k].n \in 1..c /\ new[l].at = t /\ new[l].n = c + 1
      BY <1>2, <1>3, <2>1, <2>2
    <3> QED BY <3>1 DEF Contract!Before
  <2>3. CASE l \in 1..Len(list)
    BY <1>2, <2>1, <2>3 DEF ListOK, Sorted
  <2> QED BY <1>2, <2>2, <2>3
<1>6. JobsIn(new) = JobsIn(list) \cup {job}
  BY <1>2 DEF JobsIn
<1> QED BY <1>2, <1>4, <1>5, <1>6 DEF ListOK, new

LEMMA NewList ==
  ASSUME NEW t \in Int, NEW c \in Nat, NEW job, job = [n |-> c + 1, at |-> t]
  PROVE  ListOK(<<job>>, t, c + 1) /\ JobsIn(<<job>>) = {job}
<1>1. <<job>> \in Seq(Job) /\ DOMAIN <<job>> = {1} /\ <<job>>[1] = job
  BY DEF Job
<1> QED BY <1>1 DEF ListOK, Sorted, JobsIn

LEMMA ListLater ==
  ASSUME NEW list, NEW t, NEW c \in Nat, ListOK(list, t, c)
  PROVE  ListOK(list, t, c + 1)
BY DEF ListOK

\* What add_job does to heap and map, whether the list is new or not.
Put(expiry, job) ==
  /\ expiries' \in Seq(Int)
  /\ DOMAIN job_map' = DOMAIN job_map \cup {expiry}
  /\ job_map' \in [DOMAIN job_map' -> Seq(Job)]
  /\ HeapOrder(expiries') /\ Distinct(expiries')
  /\ Elements(expiries') = DOMAIN job_map'
  /\ \A t \in DOMAIN job_map : t # expiry => job_map'[t] = job_map[t]
  /\ ListOK(job_map'[expiry], expiry, count + 1)
  /\ JobsIn(job_map'[expiry]) =
       (IF expiry \in DOMAIN job_map THEN JobsIn(job_map[expiry]) ELSE {}) \cup {job}

LEMMA AddJob ==
  ASSUME IInv, NEW expiry \in Int,
         NEW job, job = [n |-> count + 1, at |-> expiry], add_job(expiry, job)
  PROVE  Put(expiry, job)
<1>1. /\ expiries \in Seq(Int) /\ DOMAIN job_map \subseteq Int
      /\ job_map \in [DOMAIN job_map -> Seq(Job)] /\ count \in Nat
  BY DEF IInv, TypeOK
<1>2. HeapOrder(expiries) /\ Distinct(expiries) /\ Elements(expiries) = DOMAIN job_map
  BY DEF IInv, HeapOK
<1>3. \A t \in DOMAIN job_map : ListOK(job_map[t], t, count)
  BY DEF IInv, ListsOK
<1>4. CASE expiry \in DOMAIN job_map
  <2> DEFINE list == Append(job_map[expiry], job)
  <2>1. expiries' = expiries /\ job_map' = [job_map EXCEPT ![expiry] = list]
    BY <1>4 DEF add_job, list_append
  <2>2. ListOK(list, expiry, count + 1) /\ JobsIn(list) = JobsIn(job_map[expiry]) \cup {job}
    BY <1>1, <1>3, <1>4, AppendKeepsList
  <2> HIDE DEF list
  <2>3. list \in Seq(Job)
    BY <2>2 DEF ListOK
  <2>4. /\ DOMAIN job_map' = DOMAIN job_map /\ job_map'[expiry] = list
        /\ \A t \in DOMAIN job_map : t # expiry => job_map'[t] = job_map[t]
        /\ job_map' \in [DOMAIN job_map' -> Seq(Job)]
    BY <1>1, <1>4, <2>1, <2>3
  <2>5. DOMAIN job_map' = DOMAIN job_map \cup {expiry}
    BY <1>4, <2>4
  <2> QED BY <1>1, <1>2, <1>4, <2>1, <2>2, <2>4, <2>5 DEF Put
<1>5. CASE expiry \notin DOMAIN job_map
  <2> DEFINE T == DOMAIN job_map \cup {expiry}
  <2>1. /\ expiries' = heap_push(expiries, expiry)
        /\ job_map' = [t \in T |-> IF t = expiry THEN <<job>> ELSE job_map[t]]
    BY <1>5 DEF add_job
  <2>2. ListOK(<<job>>, expiry, count + 1) /\ JobsIn(<<job>>) = {job}
    BY <1>1, NewList
  <2>3. <<job>> \in Seq(Job)
    BY <2>2 DEF ListOK
  <2>4. /\ DOMAIN job_map' = T /\ job_map'[expiry] = <<job>>
        /\ \A t \in DOMAIN job_map : t # expiry => job_map'[t] = job_map[t]
        /\ job_map' \in [DOMAIN job_map' -> Seq(Job)]
    BY <1>1, <1>5, <2>1, <2>3
  <2>5. /\ expiries' \in Seq(Int) /\ Len(expiries') = Len(expiries) + 1
        /\ HeapOrder(expiries') /\ Elements(expiries') = Elements(expiries) \cup {expiry}
    BY <1>1, <1>2, <2>1, PushKeepsHeap
  <2>6. Distinct(expiries')
    <3> DEFINE n == Len(expiries)
    <3>1. n \in Nat /\ expiries \in [1..n -> Int]
      BY <1>1
    <3>2. IsFiniteSet(Elements(expiries)) /\ Cardinality(Elements(expiries)) = n
      <4> HIDE DEF n
      <4> QED BY <1>2, <3>1, DistinctCount
    <3>3. expiry \notin Elements(expiries)
      BY <1>2, <1>5
    <3>4. /\ IsFiniteSet(Elements(expiries'))
          /\ Cardinality(Elements(expiries')) = n + 1
      BY <2>5, <3>2, <3>3, FS_AddElement
    <3>5. n + 1 \in Nat /\ expiries' \in [1..(n + 1) -> Int]
      BY <2>5, <3>1
    <3> QED BY <3>4, <3>5, OneEach
  <2>7. Elements(expiries') = DOMAIN job_map'
    BY <1>2, <2>4, <2>5
  <2> QED BY <1>5, <2>2, <2>4, <2>5, <2>6, <2>7 DEF Put
<1> QED BY <1>4, <1>5

LEMMA FirstIsLeast ==
  ASSUME NEW heap \in Seq(Int), HeapOrder(heap), NEW t \in Elements(heap)
  PROVE  heap # <<>> /\ heap[1] \in Elements(heap) /\ heap[1] <= t
<1>1. PICK i \in 1..Len(heap) : t = heap[i]
  BY DEF Elements
<1>2. heap # <<>> /\ 1 \in DOMAIN heap
  BY <1>1
<1>3. heap[1] <= heap[i]
  BY <1>1, RootIsLeast
<1> QED BY <1>1, <1>2, <1>3 DEF Elements

LEMMA CoreAfterInv ==
  ASSUME IInv, NEW d \in Delays, CoreAfter(d)
  PROVE  IInv'
<1> DEFINE e == time + d
           job == [n |-> count + 1, at |-> e]
<1>1. /\ time \in Nat /\ time <= MaxTime /\ count \in Nat /\ d \in Int
      /\ e \in Int /\ e < Huge /\ Huge \in Int
  BY AfterAssumption DEF IInv, PhaseOK, TypeOK
<1>2. /\ count' = count + 1 /\ add_job(e, job) /\ time_next' = Sooner(e)
      /\ UNCHANGED <<time, expired, pc, cancelled, ran>> /\ pc \in {"idle", "call"}
  BY DEF CoreAfter, InLua
<1>3. Put(e, job)
  <2> HIDE DEF e
  <2> QED BY <1>1, <1>2, AddJob
<1> HIDE DEF e, job
<1>4. NextIsFirst'
  <2>1. e \in Elements(expiries')
    BY <1>3 DEF Put
  <2>2. expiries' \in Seq(Int) /\ HeapOrder(expiries')
    BY <1>3 DEF Put
  <2> DEFINE f == expiries'[1]
  <2>3. expiries' # <<>> /\ f \in Elements(expiries') /\ f <= e
    BY <2>1, <2>2, FirstIsLeast
  <2>4. \A t \in Elements(expiries') : f <= t
    BY <2>2, FirstIsLeast
  <2>5. Elements(expiries') = DOMAIN job_map \cup {e}
    BY <1>3 DEF Put
  <2>6. FirstExpiry(expiries') = f
    BY <2>3 DEF FirstExpiry
  <2> HIDE DEF f
  <2>7. DOMAIN job_map \subseteq Int /\ time_next \in Int
    BY DEF IInv, TypeOK
  <2>8. CASE expiries = <<>>
    <3>1. time_next = Huge /\ DOMAIN job_map = {}
      BY <2>8, LeastKey DEF IInv
    <3> QED BY <1>1, <1>2, <2>3, <2>5, <2>6, <3>1 DEF NextIsFirst, Sooner
  <2>9. CASE expiries # <<>>
    <3>1. time_next \in DOMAIN job_map /\ \A t \in DOMAIN job_map : time_next <= t
      BY <2>9, LeastKey DEF IInv
    <3>2. f <= time_next /\ (f = e \/ time_next <= f) /\ f \in Int
      BY <1>1, <2>3, <2>4, <2>5, <2>7, <3>1
    <3> QED BY <1>1, <1>2, <2>3, <2>6, <2>7, <3>2 DEF NextIsFirst, Sooner
  <2> QED BY <2>8, <2>9
<1>5. ListsOK'
  <2>1. DOMAIN job_map' = DOMAIN job_map \cup {e}
    BY <1>3 DEF Put
  <2> SUFFICES ASSUME NEW t \in DOMAIN job_map \cup {e}
               PROVE  t \in Int /\ t < Huge /\ ListOK(job_map'[t], t, count')
    BY <2>1 DEF ListsOK
  <2>2. CASE t = e
    BY <1>1, <1>2, <1>3, <2>2 DEF Put
  <2>3. CASE t # e
    <3>1. t \in DOMAIN job_map /\ job_map'[t] = job_map[t]
      BY <1>3, <2>3 DEF Put
    <3>2. t \in Int /\ t < Huge /\ ListOK(job_map[t], t, count)
      BY <3>1 DEF IInv, ListsOK
    <3> QED BY <1>1, <1>2, <3>1, <3>2, ListLater
  <2> QED BY <2>2, <2>3
<1>6. HeapOK'
  BY <1>3 DEF Put, HeapOK
<1>7. ExpiredOK'
  <2>1. expired' = expired /\ count' = count + 1
    BY <1>2
  <2>2. \A k \in DOMAIN expired : expired[k].n \in 1..(count + 1)
    BY <1>1 DEF IInv, ExpiredOK
  <2> QED BY <2>1, <2>2 DEF IInv, ExpiredOK, Sorted
<1>8. TypeOK'
  <2>1. DOMAIN job_map' \subseteq Int
    BY <1>1, <1>3 DEF Put, IInv, TypeOK
  <2>2. time_next' \in Int
    BY <1>1, <1>2 DEF Sooner, IInv, TypeOK
  <2>3. cancelled' \subseteq 1..count' /\ ran' \subseteq 1..count'
    BY <1>1, <1>2 DEF IInv, TypeOK
  <2>4. \A t \in DOMAIN job_map' : job_map'[t] # <<>>
    BY <1>5 DEF ListsOK, ListOK
  <2> QED BY <1>1, <1>2, <1>3, <2>1, <2>2, <2>3, <2>4 DEF Put, IInv, TypeOK
<1>9. PhaseOK'
  BY <1>2 DEF IInv, PhaseOK
<1> QED BY <1>4, <1>5, <1>6, <1>7, <1>8, <1>9 DEF IInv

-----------------------------------------------------------------------------
(* Collecting and running                                                  *)

LEMMA ConcatSorted ==
  ASSUME NEW a \in Seq(Job), NEW b \in Seq(Job), Sorted(a), Sorted(b),
         \A k \in DOMAIN a : \A l \in DOMAIN b : a[k].at < b[l].at
  PROVE  Sorted(a \o b)
<1> DEFINE c == a \o b
<1>1. /\ DOMAIN c = 1..(Len(a) + Len(b)) /\ Len(a) \in Nat /\ Len(b) \in Nat
      /\ DOMAIN a = 1..Len(a) /\ DOMAIN b = 1..Len(b)
      /\ \A k \in 1..Len(a) : c[k] = a[k]
      /\ \A k \in DOMAIN c : k \notin 1..Len(a) => k - Len(a) \in 1..Len(b) /\ c[k] = b[k - Len(a)]
  OBVIOUS
<1> SUFFICES ASSUME NEW k \in DOMAIN c, NEW l \in DOMAIN c, k < l
             PROVE  Contract!Before(c[k], c[l])
  BY DEF Sorted
<1> HIDE DEF c
<1>2. CASE k \in 1..Len(a) /\ l \in 1..Len(a)
  BY <1>1, <1>2 DEF Sorted
<1>3. CASE k \in 1..Len(a) /\ l \notin 1..Len(a)
  BY <1>1, <1>3 DEF Contract!Before
<1>4. CASE k \notin 1..Len(a) /\ l \notin 1..Len(a)
  <2>1. k - Len(a) < l - Len(a)
    BY <1>1
  <2> QED BY <1>1, <1>4, <2>1 DEF Sorted
<1>5. CASE k \notin 1..Len(a) /\ l \in 1..Len(a)
  BY <1>1, <1>5
<1> QED BY <1>2, <1>3, <1>4, <1>5

LEMMA TailSorted ==
  ASSUME NEW a \in Seq(Job), a # <<>>, Sorted(a)
  PROVE  /\ Tail(a) \in Seq(Job) /\ Sorted(Tail(a))
         /\ Head(a) \in Job /\ Head(a) = a[1] /\ 1 \in DOMAIN a
         /\ \A k \in DOMAIN Tail(a) : k + 1 \in DOMAIN a /\ Tail(a)[k] = a[k + 1]
         /\ \A k \in DOMAIN Tail(a) : Contract!Before(Head(a), Tail(a)[k])
         /\ JobsIn(a) = JobsIn(Tail(a)) \cup {Head(a)}
<1> DEFINE b == Tail(a)
<1>1. /\ b \in Seq(Job) /\ DOMAIN a = 1..Len(a) /\ DOMAIN b = 1..(Len(a) - 1)
      /\ Len(a) \in Nat /\ Len(a) >= 1
      /\ \A k \in DOMAIN b : k + 1 \in DOMAIN a /\ b[k] = a[k + 1]
      /\ Head(a) = a[1] /\ a[1] \in Job
  OBVIOUS
<1> HIDE DEF b
<1>2. Sorted(b)
  <2> SUFFICES ASSUME NEW k \in DOMAIN b, NEW l \in DOMAIN b, k < l
               PROVE  Contract!Before(b[k], b[l])
    BY DEF Sorted
  <2>1. k + 1 \in DOMAIN a /\ l + 1 \in DOMAIN a /\ k + 1 < l + 1
    BY <1>1
  <2> QED BY <1>1, <2>1 DEF Sorted
<1>3. \A k \in DOMAIN b : Contract!Before(a[1], b[k])
  <2> SUFFICES ASSUME NEW k \in DOMAIN b PROVE Contract!Before(a[1], b[k])
    OBVIOUS
  <2>1. 1 \in DOMAIN a /\ k + 1 \in DOMAIN a /\ 1 < k + 1
    BY <1>1
  <2> QED BY <1>1, <2>1 DEF Sorted
<1>4. JobsIn(a) = JobsIn(b) \cup {a[1]}
  <2>1. \A k \in DOMAIN a : k = 1 \/ (k - 1 \in DOMAIN b /\ b[k - 1] = a[k])
    BY <1>1
  <2> QED BY <1>1, <2>1 DEF JobsIn
<1> QED BY <1>1, <1>2, <1>3, <1>4 DEF b

\* What Collect takes, and what it leaves.
LEMMA CollectTakes ==
  ASSUME IInv, Collect
  PROVE  LET e == expiries[1]
         IN  /\ e \in DOMAIN job_map /\ e <= time
             /\ \A t \in DOMAIN job_map : e <= t
             /\ job_map[e] \in Seq(Job) /\ ListOK(job_map[e], e, count)
             /\ expired' = expired \o job_map[e]
             /\ DOMAIN job_map' = DOMAIN job_map \ {e}
             /\ \A t \in DOMAIN job_map' : job_map'[t] = job_map[t]
<1>1. /\ expiries # <<>> /\ expiries[1] <= time
      /\ expiries[1] \in DOMAIN job_map /\ \A t \in DOMAIN job_map : expiries[1] <= t
  BY LeastKey DEF IInv, PhaseOK, Collect
<1>2. ListOK(job_map[expiries[1]], expiries[1], count)
  BY <1>1 DEF IInv, ListsOK
<1> QED BY <1>1, <1>2 DEF Collect, Without, ListOK

LEMMA CollectInv ==
  ASSUME IInv, Collect
  PROVE  IInv'
<1> DEFINE e == expiries[1]
           list == job_map[e]
<1>1. /\ e \in DOMAIN job_map /\ e <= time /\ \A t \in DOMAIN job_map : e <= t
      /\ list \in Seq(Job) /\ ListOK(list, e, count)
      /\ expired' = expired \o list
      /\ DOMAIN job_map' = DOMAIN job_map \ {e}
      /\ \A t \in DOMAIN job_map' : job_map'[t] = job_map[t]
  BY CollectTakes
<1>2. /\ expiries' = heap_pop(expiries) /\ time_next' = FirstExpiry(expiries')
      /\ pc' = (IF time_next' > time THEN "run" ELSE "collect") /\ pc = "collect"
      /\ job_map' = [t \in DOMAIN job_map \ {e} |-> job_map[t]]
      /\ UNCHANGED <<time, count, cancelled, ran>>
  BY DEF Collect, Without
<1>3. /\ expiries \in Seq(Int) /\ expiries # <<>> /\ HeapOrder(expiries) /\ Distinct(expiries)
      /\ Elements(expiries) = DOMAIN job_map /\ DOMAIN job_map \subseteq Int
      /\ job_map \in [DOMAIN job_map -> Seq(Job)] /\ expired \in Seq(Job)
      /\ time \in Nat /\ time <= MaxTime /\ MaxTime < Huge /\ Huge \in Int /\ MaxTime \in Nat
  BY <1>2, AfterAssumption DEF IInv, TypeOK, HeapOK, PhaseOK
<1>4. /\ expiries' \in Seq(Int) /\ Len(expiries') = Len(expiries) - 1
      /\ HeapOrder(expiries') /\ Elements(expiries') = Elements(expiries) \ {e}
  BY <1>2, <1>3, PopKeepsHeap
<1> HIDE DEF e, list
<1>5. HeapOK'
  <2> DEFINE n == Len(expiries)
  <2>1. n \in Nat /\ n >= 1 /\ expiries \in [1..n -> Int]
    BY <1>3
  <2>2. IsFiniteSet(Elements(expiries)) /\ Cardinality(Elements(expiries)) = n
    <3> HIDE DEF n
    <3> QED BY <1>3, <2>1, DistinctCount
  <2>3. e \in Elements(expiries)
    BY <1>1, <1>3
  <2>4. IsFiniteSet(Elements(expiries')) /\ Cardinality(Elements(expiries')) = n - 1
    BY <1>4, <2>2, <2>3, FS_RemoveElement
  <2>5. n - 1 \in Nat /\ expiries' \in [1..(n - 1) -> Int]
    BY <1>4, <2>1
  <2>6. Distinct(expiries')
    BY <2>4, <2>5, OneEach
  <2> QED BY <1>1, <1>3, <1>4, <2>6 DEF HeapOK
<1>6. ListsOK'
  BY <1>1, <1>2 DEF IInv, ListsOK
<1>7. ExpiredOK'
  <2>1. \A k \in DOMAIN list : list[k].at = e /\ list[k].n \in 1..count
    BY <1>1 DEF ListOK
  <2>2. \A k \in DOMAIN expired : expired[k].at < e /\ expired[k].n \in 1..count
    BY <1>1, <1>2 DEF IInv, PhaseOK, ExpiredOK
  <2>3. Sorted(expired')
    <3>1. Sorted(expired) /\ Sorted(list)
      BY <1>1 DEF IInv, ExpiredOK, ListOK
    <3>2. \A k \in DOMAIN expired : \A l \in DOMAIN list : expired[k].at < list[l].at
      BY <2>1, <2>2
    <3>3. Sorted(expired \o list)
      BY <1>1, <1>3, <3>1, <3>2, ConcatSorted
    <3> QED BY <1>1, <3>3
  <2>4. \A k \in DOMAIN expired' : expired'[k].n \in 1..count
    <3> SUFFICES ASSUME NEW k \in DOMAIN (expired \o list)
                 PROVE  (expired \o list)[k].n \in 1..count
      BY <1>1
    <3>1. CASE k \in 1..Len(expired)
      BY <1>1, <1>3, <2>2, <3>1
    <3>2. CASE k \notin 1..Len(expired)
      <4>1. k - Len(expired) \in DOMAIN list /\ (expired \o list)[k] = list[k - Len(expired)]
        BY <1>1, <1>3, <3>2
      <4> QED BY <2>1, <4>1
    <3> QED BY <3>1, <3>2
  <2> QED BY <1>2, <2>3, <2>4 DEF ExpiredOK, Sorted
<1>8. NextIsFirst'
  BY <1>2 DEF NextIsFirst
<1>9. PhaseOK'
  <2>1. pc' # "idle"
    BY <1>2
  <2>2. ASSUME pc' = "collect" PROVE expiries' # <<>> /\ expiries'[1] <= time
    <3>1. ~(time_next' > time)
      BY <1>2, <2>2
    <3>2. expiries' # <<>>
      <4>1. expiries' = <<>> => time_next' = Huge
        BY <1>2 DEF FirstExpiry
      <4>2. Huge > time
        BY <1>3
      <4> QED BY <3>1, <4>1, <4>2
    <3>3. time_next' = expiries'[1] /\ expiries'[1] \in Int
      BY <1>2, <1>4, <3>2 DEF FirstExpiry
    <3> QED BY <1>3, <3>1, <3>2, <3>3
  <2>3. ASSUME NEW k \in DOMAIN expired', NEW t \in DOMAIN job_map'
        PROVE  expired'[k].at < t
    <3>1. t \in DOMAIN job_map /\ t # e /\ e < t
      BY <1>1, <1>3
    <3>2. k \in DOMAIN (expired \o list) /\ expired' = expired \o list
      BY <1>1
    <3>3. CASE k \in 1..Len(expired)
      <4>1. expired'[k] = expired[k] /\ k \in DOMAIN expired
        BY <1>1, <1>3, <3>2, <3>3
      <4> QED BY <1>2, <3>1, <4>1 DEF IInv, PhaseOK
    <3>4. CASE k \notin 1..Len(expired)
      <4>1. k - Len(expired) \in DOMAIN list /\ expired'[k] = list[k - Len(expired)]
        BY <1>1, <1>3, <3>2, <3>4
      <4>2. expired'[k].at = e
        BY <1>1, <4>1 DEF ListOK
      <4> QED BY <3>1, <4>2
    <3> QED BY <3>3, <3>4
  <2> QED BY <1>2, <1>3, <2>1, <2>2, <2>3 DEF PhaseOK
<1>10. TypeOK'
  <2>1. job_map' \in [DOMAIN job_map' -> Seq(Job)] /\ DOMAIN job_map' \subseteq Int
    BY <1>1, <1>2, <1>3
  <2>2. time_next' \in Int
    BY <1>2, <1>3, <1>4 DEF FirstExpiry
  <2>3. expired' \in Seq(Job)
    BY <1>1, <1>3
  <2>4. \A t \in DOMAIN job_map' : job_map'[t] # <<>>
    BY <1>6 DEF ListsOK, ListOK
  <2> QED BY <1>2, <1>4, <2>1, <2>2, <2>3, <2>4 DEF IInv, TypeOK
<1> QED BY <1>5, <1>6, <1>7, <1>8, <1>9, <1>10 DEF IInv

LEMMA GlobalStepInv ==
  ASSUME IInv, NEW d \in DTimes, GlobalStep(d)
  PROVE  IInv'
<1>1. /\ d \in Nat /\ time' = time + d /\ time' <= MaxTime /\ time \in Nat
      /\ MaxTime < Huge /\ Huge \in Int /\ MaxTime \in Nat /\ time_next \in Int
  BY AfterAssumption DEF GlobalStep, IInv, TypeOK, PhaseOK
<1>2. /\ UNCHANGED <<time_next, expiries, job_map, expired, count, cancelled, ran>>
      /\ pc' = (IF time' < time_next THEN "idle" ELSE "collect")
      /\ expired = <<>>
  BY DEF GlobalStep, IInv, PhaseOK
<1>3. PhaseOK'
  <2>1. ASSUME pc' = "collect" PROVE expiries # <<>> /\ expiries[1] <= time'
    <3>1. ~(time' < time_next)
      BY <1>2, <2>1
    <3>2. expiries # <<>>
      BY <1>1, <3>1, LeastKey DEF IInv
    <3>3. time_next = expiries[1]
      BY <3>2, LeastKey DEF IInv
    <3> QED BY <1>1, <3>1, <3>2, <3>3
  <2>2. DOMAIN expired = {}
    BY <1>2
  <2> QED BY <1>1, <1>2, <2>1, <2>2 DEF PhaseOK
<1>4. TypeOK'
  BY <1>1, <1>2 DEF IInv, TypeOK
<1>5. HeapOK' /\ ListsOK' /\ ExpiredOK' /\ NextIsFirst'
  BY <1>2 DEF IInv, HeapOK, ListsOK, ExpiredOK, NextIsFirst, Sorted
<1> QED BY <1>3, <1>4, <1>5 DEF IInv

LEMMA RunNextInv ==
  ASSUME IInv, RunNext
  PROVE  IInv'
<1>1. /\ expired \in Seq(Job) /\ expired # <<>> /\ Sorted(expired)
      /\ \A k \in DOMAIN expired : expired[k].n \in 1..count
      /\ expired' = Tail(expired)
      /\ UNCHANGED <<time, time_next, expiries, job_map, count, cancelled>>
      /\ pc' \in {"run", "call"} /\ (ran' = ran \/ ran' = ran \cup {Head(expired).n})
  BY DEF RunNext, IInv, TypeOK, ExpiredOK
<1>2. /\ expired' \in Seq(Job) /\ Sorted(expired')
      /\ Head(expired) = expired[1] /\ 1 \in DOMAIN expired
      /\ \A k \in DOMAIN expired' : k + 1 \in DOMAIN expired /\ expired'[k] = expired[k + 1]
  BY <1>1, TailSorted
<1>3. ExpiredOK'
  BY <1>1, <1>2 DEF ExpiredOK, Sorted
<1>4. TypeOK'
  BY <1>1, <1>2 DEF IInv, TypeOK
<1>5. HeapOK' /\ ListsOK' /\ NextIsFirst' /\ PhaseOK'
  BY <1>1 DEF IInv, HeapOK, ListsOK, NextIsFirst, PhaseOK
<1> QED BY <1>3, <1>4, <1>5 DEF IInv

LEMMA NextInv == IInv /\ [Next]_vars => IInv'
<1> SUFFICES ASSUME IInv, [Next]_vars PROVE IInv'
  OBVIOUS
<1>1. ASSUME NEW d \in Delays, CoreAfter(d) PROVE IInv'
  BY <1>1, CoreAfterInv
<1>2. ASSUME NEW n \in 1..count, Cancel(n) PROVE IInv'
  <2>1. cancelled' = cancelled \cup {n}
        /\ UNCHANGED <<time, time_next, expiries, job_map, expired, pc, count, ran>>
    BY <1>2 DEF Cancel
  <2> QED BY <2>1 DEF IInv, TypeOK, HeapOK, ListsOK, ExpiredOK, NextIsFirst, PhaseOK, Sorted
<1>3. ASSUME NEW d \in DTimes, GlobalStep(d) PROVE IInv'
  BY <1>3, GlobalStepInv
<1>4. CASE Collect
  BY <1>4, CollectInv
<1>5. CASE RunNext
  BY <1>5, RunNextInv
<1>6. CASE Return
  BY <1>6 DEF Return, IInv, TypeOK, HeapOK, ListsOK, ExpiredOK, NextIsFirst, PhaseOK, Sorted
<1>7. CASE UNCHANGED vars
  BY <1>7 DEF vars, IInv, TypeOK, HeapOK, ListsOK, ExpiredOK, NextIsFirst, PhaseOK, Sorted
<1> QED BY <1>1, <1>2, <1>3, <1>4, <1>5, <1>6, <1>7 DEF Next, Server

LEMMA InvLeast == IInv => NextIsLeast
<1> SUFFICES ASSUME IInv PROVE NextIsLeast
  OBVIOUS
<1>1. CASE expiries = <<>>
  BY <1>1, LeastKey DEF IInv, NextIsLeast
<1>2. CASE expiries # <<>>
  BY <1>2, LeastKey DEF IInv, NextIsLeast
<1> QED BY <1>1, <1>2

THEOREM Invariant == Spec => []IInv
BY InitInv, NextInv, PTL DEF Spec

\* TypeOK: jobs stay in lists of jobs and only registered ones are cancelled
\* and run, whatever is registered when.
THEOREM TypeCorrect == Spec => []TypeOK
<1>1. IInv => TypeOK
  BY DEF IInv
<1> QED BY <1>1, Invariant, PTL

\* HeapOK: the heap that the two loops keep, and the map beside it, hold the
\* same expiries, each once.
THEOREM HeapAndMapAgree == Spec => []HeapOK
<1>1. IInv => HeapOK
  BY DEF IInv
<1> QED BY <1>1, Invariant, PTL

\* NextIsLeast: a globalstep that goes by time_next overlooks no due job.
THEOREM NothingOverlooked == Spec => []NextIsLeast
BY InvLeast, Invariant, PTL

-----------------------------------------------------------------------------
(* The contract                                                            *)

\* What Agenda calls the agenda and the due jobs.
ToCome == Listed \ BeingCollected
ToRun  == JobsIn(expired) \cup BeingCollected

LEMMA NotCollecting ==
  ASSUME pc # "collect"
  PROVE  ToCome = Listed /\ ToRun = JobsIn(expired)
BY DEF ToCome, ToRun, BeingCollected

LEMMA InitContract == Init => Contract!Init
<1> SUFFICES ASSUME Init PROVE Contract!Init
  OBVIOUS
<1>1. DOMAIN job_map = {} /\ DOMAIN expired = {} /\ pc # "collect"
  BY DEF Init
<1>2. Listed = {} /\ JobsIn(expired) = {}
  BY <1>1 DEF Listed, JobsIn
<1>3. ToCome = {} /\ ToRun = {}
  BY <1>1, <1>2, NotCollecting
<1> QED BY <1>3 DEF Init, Contract!Init, ToCome, ToRun

LEMMA RegisterStep ==
  ASSUME IInv, NEW d \in Delays, CoreAfter(d)
  PROVE  Contract!Register(d)
<1> DEFINE e == time + d
           job == [n |-> count + 1, at |-> e]
<1>1. e \in Int
  BY AfterAssumption DEF IInv, PhaseOK
<1>2. /\ count' = count + 1 /\ add_job(e, job)
      /\ UNCHANGED <<time, expired, pc, cancelled, ran>> /\ pc # "collect" /\ pc' # "collect"
  BY DEF CoreAfter, InLua
<1>3. Put(e, job)
  <2> HIDE DEF e
  <2> QED BY <1>1, <1>2, AddJob
<1> HIDE DEF e, job
<1>4. Listed' = Listed \cup {job}
  <2>1. Listed' = UNION {JobsIn(job_map'[t]) : t \in DOMAIN job_map'}
    BY DEF Listed, JobsIn
  <2>2. DOMAIN job_map' = DOMAIN job_map \cup {e}
    BY <1>3 DEF Put
  <2>3. \A t \in DOMAIN job_map : t # e => JobsIn(job_map'[t]) = JobsIn(job_map[t])
    BY <1>3 DEF Put
  <2>4. JobsIn(job_map'[e]) =
          (IF e \in DOMAIN job_map THEN JobsIn(job_map[e]) ELSE {}) \cup {job}
    BY <1>3 DEF Put
  <2> QED BY <2>1, <2>2, <2>3, <2>4 DEF Listed
<1>5. ToCome' = ToCome \cup {job} /\ ToRun' = ToRun
  BY <1>2, <1>4 DEF ToCome, ToRun, BeingCollected, JobsIn
<1> QED BY <1>2, <1>5 DEF Contract!Register, ToCome, ToRun, job, e

\* A globalstep finds what is due; the lists are then collected without a
\* change to what is due, and to what is not.
LEMMA StepStep ==
  ASSUME IInv, NEW d \in DTimes, GlobalStep(d)
  PROVE  Contract!Step
<1>1. /\ d \in Nat /\ time' = time + d /\ time \in Nat
      /\ UNCHANGED <<expired, job_map, count, cancelled, ran>>
      /\ pc = "idle" /\ expired = <<>> /\ time_next \in Int
      /\ pc' = (IF time' < time_next THEN "idle" ELSE "collect")
  BY AfterAssumption DEF GlobalStep, IInv, PhaseOK, TypeOK
<1>2. JobsIn(expired) = {} /\ JobsIn(expired') = {} /\ Listed' = Listed
  BY <1>1 DEF JobsIn, Listed
<1>3. ToRun = {} /\ ToCome = Listed
  BY <1>1, <1>2, NotCollecting
<1>4. \A j \in Listed : j.at \in DOMAIN job_map
  BY DEF Listed, JobsIn, IInv, ListsOK, ListOK
<1>5. ToRun' = {j \in Listed : j.at <= time'}
  <2>1. CASE pc' = "collect"
    BY <1>1, <1>2, <2>1 DEF ToRun, BeingCollected
  <2>2. CASE pc' = "idle"
    <3>1. time' < time_next
      BY <1>1, <2>2
    <3>2. \A t \in DOMAIN job_map : t \in Int /\ time' < t
      <4>1. \A t \in DOMAIN job_map : t \in Int /\ time_next <= t
        BY LeastKey DEF IInv, ListsOK
      <4> QED BY <1>1, <3>1, <4>1
    <3>3. ToRun' = {}
      BY <1>2, <2>2 DEF ToRun, BeingCollected
    <3>4. \A j \in Listed : ~(j.at <= time')
      BY <1>1, <1>4, <3>2
    <3> QED BY <3>3, <3>4
  <2> QED BY <1>1, <2>1, <2>2
<1>6. ToCome' = ToCome \ ToRun'
  <2>1. ToRun' = BeingCollected'
    BY <1>2 DEF ToRun
  <2> QED BY <1>2, <1>3, <2>1 DEF ToCome
<1>7. time' \in Int /\ time <= time'
  BY <1>1
<1> QED BY <1>1, <1>3, <1>5, <1>6, <1>7 DEF Contract!Step, ToCome, ToRun

LEMMA CollectStep ==
  ASSUME IInv, Collect
  PROVE  UNCHANGED Contract!vars
<1> DEFINE e == expiries[1]
           list == job_map[e]
<1>1. /\ e \in DOMAIN job_map /\ e <= time /\ \A t \in DOMAIN job_map : e <= t
      /\ list \in Seq(Job) /\ ListOK(list, e, count)
      /\ expired' = expired \o list
      /\ DOMAIN job_map' = DOMAIN job_map \ {e}
      /\ \A t \in DOMAIN job_map' : job_map'[t] = job_map[t]
  BY CollectTakes
<1>2. /\ pc = "collect" /\ pc' = (IF time_next' > time THEN "run" ELSE "collect")
      /\ UNCHANGED <<time, count, cancelled, ran>> /\ time \in Nat
      /\ expired \in Seq(Job)
  BY DEF Collect, IInv, PhaseOK, TypeOK
<1>3. IInv'
  BY CollectInv
<1> HIDE DEF e, list
<1>4. JobsIn(expired') = JobsIn(expired) \cup JobsIn(list)
  <2> DEFINE c == expired \o list
  <2>1. /\ \A k \in DOMAIN expired : k \in DOMAIN c /\ c[k] = expired[k]
        /\ \A k \in DOMAIN list : Len(expired) + k \in DOMAIN c /\ c[Len(expired) + k] = list[k]
        /\ \A k \in DOMAIN c : \/ k \in DOMAIN expired /\ c[k] = expired[k]
                               \/ k - Len(expired) \in DOMAIN list /\ c[k] = list[k - Len(expired)]
    BY <1>1, <1>2
  <2>2. expired' = c
    BY <1>1
  <2> HIDE DEF c
  <2>3. JobsIn(c) = JobsIn(expired) \cup JobsIn(list)
    BY <2>1 DEF JobsIn
  <2> QED BY <2>2, <2>3 DEF JobsIn
<1>5. \A t \in DOMAIN job_map : \A j \in JobsIn(job_map[t]) : j.at = t
  BY DEF IInv, ListsOK, ListOK, JobsIn
<1>6. Listed' = UNION {JobsIn(job_map[t]) : t \in DOMAIN job_map \ {e}}
  BY <1>1 DEF Listed, JobsIn
<1>7. /\ Listed = Listed' \cup JobsIn(list) /\ Listed' \cap JobsIn(list) = {}
      /\ \A j \in JobsIn(list) : j.at <= time
  BY <1>1, <1>5, <1>6 DEF Listed, list
<1>8. BeingCollected' = {j \in Listed' : j.at <= time}
  <2>1. CASE pc' = "collect"
    BY <1>2, <2>1 DEF BeingCollected
  <2>2. CASE pc' # "collect"
    <3>1. time_next' > time
      BY <1>2, <2>2
    <3>2. NextIsLeast'
      BY <1>3, InvLeast, PTL
    <3>3. \A t \in DOMAIN job_map' : t \in Int /\ time < t
      <4>1. time_next' \in Int /\ \A t \in DOMAIN job_map' : t \in Int /\ time_next' <= t
        BY <1>3, <3>2 DEF NextIsLeast, IInv, TypeOK
      <4> QED BY <1>2, <3>1, <4>1
    <3>4. \A j \in Listed' : j.at \in DOMAIN job_map'
      BY <1>1, <1>5, <1>6
    <3>5. \A j \in Listed' : ~(j.at <= time)
      BY <1>2, <3>3, <3>4
    <3>6. BeingCollected' = {}
      BY <2>2 DEF BeingCollected
    <3> QED BY <3>5, <3>6
  <2> QED BY <2>1, <2>2
<1>9. BeingCollected = {j \in Listed : j.at <= time}
  BY <1>2 DEF BeingCollected
<1>10. ToCome' = ToCome /\ ToRun' = ToRun
  BY <1>4, <1>7, <1>8, <1>9 DEF ToCome, ToRun
<1> QED BY <1>2, <1>10 DEF Contract!vars, ToCome, ToRun

LEMMA RunStep ==
  ASSUME IInv, RunNext
  PROVE  \E j \in ToRun : Contract!Run(j)
<1> DEFINE j == Head(expired)
<1>1. /\ expired \in Seq(Job) /\ expired # <<>> /\ Sorted(expired)
      /\ expired' = Tail(expired) /\ pc # "collect" /\ pc' # "collect"
      /\ ran' = (IF j.n \in cancelled THEN ran ELSE ran \cup {j.n})
      /\ UNCHANGED <<time, job_map, count, cancelled>>
  BY DEF RunNext, IInv, TypeOK, ExpiredOK
<1>2. /\ expired' \in Seq(Job) /\ j \in Job
      /\ \A k \in DOMAIN expired' : Contract!Before(j, expired'[k])
      /\ JobsIn(expired) = JobsIn(expired') \cup {j}
  <2>1. /\ Tail(expired) \in Seq(Job) /\ j \in Job
        /\ \A k \in DOMAIN Tail(expired) : Contract!Before(j, Tail(expired)[k])
        /\ JobsIn(expired) = JobsIn(Tail(expired)) \cup {j}
    BY <1>1, TailSorted
  <2>2. JobsIn(expired') = JobsIn(Tail(expired))
    BY <1>1 DEF JobsIn
  <2> QED BY <1>1, <2>1, <2>2
<1> HIDE DEF j
<1>3. \A k \in JobsIn(expired') : Contract!Before(j, k)
  BY <1>2 DEF JobsIn
<1>4. j \notin JobsIn(expired')
  <2>1. ~Contract!Before(j, j)
    BY <1>2 DEF Contract!Before, Job
  <2> QED BY <1>3, <2>1
<1>5. /\ ToCome' = ToCome /\ ToRun = JobsIn(expired)
      /\ ToRun' = JobsIn(expired')
  BY <1>1 DEF ToCome, ToRun, BeingCollected, Listed, JobsIn
<1>6. j \in ToRun /\ ToRun' = ToRun \ {j} /\ \A k \in ToRun : k = j \/ Contract!Before(j, k)
  BY <1>2, <1>3, <1>4, <1>5
<1> QED BY <1>1, <1>5, <1>6 DEF Contract!Run, ToCome, ToRun

LEMMA NextContract == IInv /\ [Next]_vars => [Contract!Next]_Contract!vars
<1> SUFFICES ASSUME IInv, [Next]_vars PROVE [Contract!Next]_Contract!vars
  OBVIOUS
<1>1. ASSUME NEW d \in Delays, CoreAfter(d) PROVE Contract!Next
  BY <1>1, RegisterStep DEF Contract!Next
<1>2. ASSUME NEW n \in 1..count, Cancel(n) PROVE Contract!Next
  <2>1. Contract!Cancel(n)
    BY <1>2 DEF Cancel, Contract!Cancel, Listed, BeingCollected, JobsIn
  <2> QED BY <2>1 DEF Contract!Next
<1>3. ASSUME NEW d \in DTimes, GlobalStep(d) PROVE Contract!Next
  BY <1>3, StepStep DEF Contract!Next
<1>4. CASE Collect
  BY <1>4, CollectStep
<1>5. CASE RunNext
  BY <1>5, RunStep DEF Contract!Next, ToRun
<1>6. CASE Return
  <2>1. pc # "collect" /\ pc' # "collect"
        /\ UNCHANGED <<time, expired, job_map, count, cancelled, ran>>
    BY <1>6 DEF Return
  <2> QED BY <2>1 DEF Contract!vars, Listed, BeingCollected, JobsIn
<1>7. CASE UNCHANGED vars
  BY <1>7 DEF vars, Contract!vars, Listed, BeingCollected, JobsIn
<1> QED BY <1>1, <1>2, <1>3, <1>4, <1>5, <1>6, <1>7 DEF Next, Server

\* ImplementsAgenda: core.after keeps its promise. The jobs of a step run in
\* order of expiry, then of registration, each once, and what a callback
\* registers waits for a later step.
THEOREM KeepsContract == Spec => ImplementsAgenda
<1>1. Spec => Contract!Init /\ [][Contract!Next]_Contract!vars
  BY InitContract, Invariant, NextContract, PTL DEF Spec
<1> QED BY <1>1 DEF ImplementsAgenda, Contract!Spec
=============================================================================
