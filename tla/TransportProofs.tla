--------------------------- MODULE TransportProofs ---------------------------
(***************************************************************************)
(* Theorems about Transport, for every size of the circle of sequence      *)
(* numbers, of the windows, of the messages and of the network. The heart  *)
(* is that the comparisons the code makes on wrapped numbers order packets *)
(* as the numbers without the wrap do, as long as nothing in use is half a *)
(* circle behind; the invariant IInv says that nothing is.                 *)
(***************************************************************************)
EXTENDS Transport, Integers, FiniteSetTheorems, SequenceTheorems, WellFoundedInduction, TLAPS

\* The sizes of the circle and of its windows.
LEMMA Circle ==
  /\ SeqNums \in Nat /\ SeqNums > 0 /\ RecvWindow \in Nat /\ RecvWindow >= 4
  /\ SeqNums = 2 * RecvWindow
  /\ SeqInitial \in Nat /\ SeqInitial < SeqNums
<1>1. PICK w \in Windows : TRUE
  BY TransportAssumption DEF TransportAssumption
<1>2. w \in Nat /\ w >= 1 /\ w + 3 <= RecvWindow /\ RecvWindow \in Nat
  BY <1>1, TransportAssumption DEF TransportAssumption
<1> QED BY <1>2, TransportAssumption DEF TransportAssumption

\* The bounds of the sender.
LEMMA Sending ==
  /\ Requeue \in Nat /\ Requeue > 0
  /\ MaxOvertaking \in Nat /\ MaxOvertaking <= RecvWindow - 1
  /\ \A w \in Windows : w \in Nat /\ w >= 1 /\ w + 3 <= RecvWindow
  /\ Sizes \in Seq(Nat \ {0})
<1>4. MaxOvertaking \in Nat /\ RecvWindow \in Nat /\ MaxOvertaking < RecvWindow
  BY TransportAssumption DEF TransportAssumption
<1>1. Requeue \in Nat \ {0} /\ Windows \subseteq Nat \ {0}
  BY TransportAssumption DEF TransportAssumption
<1>2. \A w \in Windows : w + 3 <= RecvWindow
  BY TransportAssumption DEF TransportAssumption
<1>3. Sizes \in Seq(Nat \ {0})
  BY TransportAssumption DEF TransportAssumption
<1> QED BY <1>1, <1>2, <1>3, <1>4

\* Arithmetic of remainders.
LEMMA Residue ==
  ASSUME NEW M \in Nat, M > 0, NEW q \in Int, NEW r \in 0..(M - 1)
  PROVE  (M * q + r) % M = r
OBVIOUS

\* A number is its quotient and its remainder.
LEMMA Quotient ==
  ASSUME NEW M \in Nat, M > 0, NEW a \in Int
  PROVE  a % M \in 0..(M - 1) /\ a \div M \in Int /\ a = M * (a \div M) + (a % M)
OBVIOUS

\* d steps further on the circle
LEMMA Shift ==
  ASSUME NEW M \in Nat, M > 0, NEW a \in Int, NEW d \in Int
  PROVE  /\ (a % M) + d \in 0..(M - 1) => (a + d) % M = (a % M) + d
         /\ (a % M) + d \in M..(2 * M - 1) => (a + d) % M = (a % M) + d - M
         /\ (a % M) + d \in (-M)..(-1) => (a + d) % M = (a % M) + d + M
<1> DEFINE q == a \div M
           r == a % M
<1>1. r \in 0..(M - 1) /\ q \in Int /\ a = M * q + r
  BY Quotient
<1> HIDE DEF q, r
<1>2. ASSUME r + d \in 0..(M - 1) PROVE (a + d) % M = r + d
  <2>1. a + d = M * q + (r + d)
    BY <1>1
  <2> QED BY <2>1, <1>1, <1>2, Residue
<1>3. ASSUME r + d \in M..(2 * M - 1) PROVE (a + d) % M = r + d - M
  <2>1. a + d = M * (q + 1) + (r + d - M)
    <3>1. M * (q + 1) = M * q + M
      BY <1>1
    <3> QED BY <1>1, <3>1
  <2>2. r + d - M \in 0..(M - 1) /\ q + 1 \in Int
    BY <1>1, <1>3
  <2> QED BY <2>1, <2>2, Residue
<1>4. ASSUME r + d \in (-M)..(-1) PROVE (a + d) % M = r + d + M
  <2>1. a + d = M * (q - 1) + (r + d + M)
    <3>1. M * (q - 1) = M * q - M
      BY <1>1
    <3> QED BY <1>1, <3>1
  <2>2. r + d + M \in 0..(M - 1) /\ q - 1 \in Int
    BY <1>1, <1>4
  <2> QED BY <2>1, <2>2, Residue
<1> QED BY <1>2, <1>3, <1>4 DEF r

\* The wire number of n, seen from the wire number of b.
LEMMA WireShift ==
  ASSUME NEW b \in Int, NEW n \in Int, -SeqNums < n - b, n - b < SeqNums
  PROVE  /\ Wire(b) \in 0..(SeqNums - 1) /\ Wire(n) \in 0..(SeqNums - 1)
         /\ Wire(n) = CASE Wire(b) + (n - b) < 0 -> Wire(b) + (n - b) + SeqNums
                        [] Wire(b) + (n - b) >= SeqNums -> Wire(b) + (n - b) - SeqNums
                        [] OTHER -> Wire(b) + (n - b)
<1> DEFINE a == SeqInitial + b - 1
           d == n - b
<1>1. a \in Int /\ d \in Int /\ a + d = SeqInitial + n - 1 /\ SeqNums \in Nat /\ SeqNums > 0
  BY Circle
<1>2. Wire(b) = a % SeqNums /\ Wire(n) = (a + d) % SeqNums
  BY <1>1 DEF Wire
<1>3. a % SeqNums \in 0..(SeqNums - 1) /\ (a + d) % SeqNums \in 0..(SeqNums - 1)
  BY <1>1, Quotient
<1>4. d > -SeqNums /\ d < SeqNums
  OBVIOUS
<1> HIDE DEF a, d
<1>5. CASE (a % SeqNums) + d < 0
  <2>1. (a % SeqNums) + d \in (-SeqNums)..(-1)
    BY <1>1, <1>3, <1>4, <1>5
  <2>2. (a + d) % SeqNums = (a % SeqNums) + d + SeqNums
    BY <1>1, <2>1, Shift
  <2> QED BY <1>1, <1>2, <1>3, <1>5, <2>2 DEF d
<1>6. CASE (a % SeqNums) + d >= SeqNums
  <2>1. (a % SeqNums) + d \in SeqNums..(2 * SeqNums - 1)
    BY <1>1, <1>3, <1>4, <1>6
  <2>2. (a + d) % SeqNums = (a % SeqNums) + d - SeqNums
    BY <1>1, <2>1, Shift
  <2> QED BY <1>1, <1>2, <1>3, <1>6, <2>2 DEF d
<1>7. CASE (a % SeqNums) + d \in 0..(SeqNums - 1)
  <2>2. (a + d) % SeqNums = (a % SeqNums) + d
    BY <1>1, <1>7, Shift
  <2> QED BY <1>1, <1>2, <1>3, <1>7, <2>2 DEF d
<1> QED BY <1>1, <1>3, <1>5, <1>6, <1>7

-----------------------------------------------------------------------------
(* A window of RecvWindow numbers that starts at b.                        *)

\* seqnum_in_window, and the test for the number expected, seen from the
\* window's first number b.
LEMMA WindowTests ==
  ASSUME NEW b \in Int, NEW n \in Int, b - RecvWindow <= n, n < b + RecvWindow
  PROVE  /\ InWindow(Wire(n), Wire(b)) <=> n >= b
         /\ Wire(n) = Wire(b) <=> n = b
<1>1. /\ Wire(b) \in 0..(SeqNums - 1) /\ Wire(n) \in 0..(SeqNums - 1)
      /\ Wire(n) = CASE Wire(b) + (n - b) < 0 -> Wire(b) + (n - b) + SeqNums
                     [] Wire(b) + (n - b) >= SeqNums -> Wire(b) + (n - b) - SeqNums
                     [] OTHER -> Wire(b) + (n - b)
  BY WireShift, Circle
<1> DEFINE end == (Wire(b) + RecvWindow) % SeqNums
<1>2. end = IF Wire(b) + RecvWindow < SeqNums THEN Wire(b) + RecvWindow
            ELSE Wire(b) + RecvWindow - SeqNums
  <2>1. Wire(b) + RecvWindow = SeqNums * 0 + (Wire(b) + RecvWindow)
        /\ Wire(b) + RecvWindow = SeqNums * 1 + (Wire(b) + RecvWindow - SeqNums)
    BY <1>1, Circle
  <2>2. CASE Wire(b) + RecvWindow < SeqNums
    <3>1. Wire(b) + RecvWindow \in 0..(SeqNums - 1)
      BY <1>1, <2>2, Circle
    <3> QED BY <2>1, <2>2, <3>1, Circle, Residue
  <2>3. CASE ~(Wire(b) + RecvWindow < SeqNums)
    <3>1. Wire(b) + RecvWindow - SeqNums \in 0..(SeqNums - 1)
      BY <1>1, <2>3, Circle
    <3> QED BY <2>1, <2>3, <3>1, Circle, Residue
  <2> QED BY <2>2, <2>3
<1>3. InWindow(Wire(n), Wire(b)) <=>
        IF Wire(b) < end THEN Wire(b) <= Wire(n) /\ Wire(n) < end
                         ELSE Wire(n) < end \/ Wire(b) <= Wire(n)
  BY DEF InWindow
<1> HIDE DEF end
<1> QED BY <1>1, <1>2, <1>3, Circle

\* Less than a circle apart, the wire number names the packet.
LEMMA WireUnique ==
  ASSUME NEW m \in Int, NEW n \in Int, -SeqNums < n - m, n - m < SeqNums, Wire(m) = Wire(n)
  PROVE  m = n
BY WireShift, Circle

\* The loop of insert walks over the packets that are older, wrapped or not.
LEMMA WalkOverIsLess ==
  ASSUME NEW b \in Int, NEW n \in Int, NEW m \in Int,
         b < n, n < b + RecvWindow, b <= m, m < b + RecvWindow
  PROVE  WalkOver(m, Wire(n), Wire(b)) <=> m < n
<1>1. /\ Wire(b) \in 0..(SeqNums - 1) /\ Wire(n) \in 0..(SeqNums - 1)
      /\ Wire(n) = CASE Wire(b) + (n - b) < 0 -> Wire(b) + (n - b) + SeqNums
                     [] Wire(b) + (n - b) >= SeqNums -> Wire(b) + (n - b) - SeqNums
                     [] OTHER -> Wire(b) + (n - b)
  BY WireShift, Circle
<1>2. -SeqNums < m - b /\ m - b < SeqNums
  BY Circle
<1>3. /\ Wire(m) \in 0..(SeqNums - 1)
      /\ Wire(m) = CASE Wire(b) + (m - b) < 0 -> Wire(b) + (m - b) + SeqNums
                     [] Wire(b) + (m - b) >= SeqNums -> Wire(b) + (m - b) - SeqNums
                     [] OTHER -> Wire(b) + (m - b)
  BY <1>2, WireShift
<1> QED BY <1>1, <1>3, Circle DEF WalkOver

-----------------------------------------------------------------------------
(* Sequences and the two sorted lists.                                     *)

\* The library's Min, on a set of positions.
LEMMA Least ==
  ASSUME NEW S \in SUBSET Nat, S # {}
  PROVE  Min(S) \in S /\ \A y \in S : Min(S) <= y
<1> DEFINE R == OpToRel(<, Nat)
<1>1. IsWellFoundedOn(R, Nat)
  BY NatLessThanWellFounded
<1>2. \E x \in S : \A y \in S : <<y, x>> \notin R
  <2> HIDE DEF R
  <2> QED BY <1>1, WFMin, SMTT(10), ZenonT(20)
<1>3. \A a, b \in Nat : a < b => <<a, b>> \in R
  BY Zenon DEF OpToRel, R
<1> HIDE DEF R
<1>4. PICK x \in S : \A y \in S : <<y, x>> \notin R
  BY <1>2
<1>5. ASSUME NEW y \in S PROVE x <= y
  <2>1. ~(y < x)
    BY <1>3, <1>4
  <2> QED BY <2>1
<1> QED BY <1>5 DEF Min

\* What the library's operators do to a list.
IntList(l) == Len(l) \in Nat /\ \A i \in 1..Len(l) : l[i] \in Int
IsInsert(r, l, at, n) ==
  /\ Len(r) = Len(l) + 1
  /\ \A j \in 1..(Len(l) + 1) : r[j] = IF j < at THEN l[j] ELSE IF j = at THEN n ELSE l[j - 1]
IsRemove(r, l, at) ==
  /\ Len(r) = Len(l) - 1
  /\ \A j \in 1..(Len(l) - 1) : r[j] = IF j < at THEN l[j] ELSE l[j + 1]

\* The library's InsertAt and RemoveAt, position by position.
LEMMA InsertAtProperties ==
  ASSUME NEW S, NEW s \in Seq(S), NEW i \in 1..Len(s), NEW e \in S
  PROVE  InsertAt(s, i, e) \in Seq(S) /\ IsInsert(InsertAt(s, i, e), s, i, e)
<1> DEFINE before == SubSeq(s, 1, i - 1)
           after == SubSeq(s, i, Len(s))
           front == before \o <<e>>
           all == front \o after
<1>0. Len(s) \in Nat /\ i \in Nat /\ i >= 1 /\ i <= Len(s)
  OBVIOUS
<1>1. before \in Seq(S) /\ Len(before) = i - 1 /\ \A j \in 1..(i - 1) : before[j] = s[j]
  OBVIOUS
<1>2. after \in Seq(S) /\ Len(after) = Len(s) - i + 1
      /\ \A j \in 1..(Len(s) - i + 1) : after[j] = s[i + j - 1]
  OBVIOUS
<1>3. InsertAt(s, i, e) = all
  BY DEF InsertAt
<1> HIDE DEF before, after
<1>4. /\ front \in Seq(S) /\ Len(front) = i
      /\ \A j \in 1..i : front[j] = IF j < i THEN s[j] ELSE e
  BY <1>1
<1> HIDE DEF front
<1>5. /\ all \in Seq(S) /\ Len(all) = Len(front) + Len(after)
      /\ \A j \in 1..(Len(front) + Len(after)) :
           all[j] = IF j <= Len(front) THEN front[j] ELSE after[j - Len(front)]
  BY <1>2, <1>4, ConcatProperties
<1> HIDE DEF all
<1>6. Len(all) = Len(s) + 1
  BY <1>0, <1>2, <1>4, <1>5
<1>7. ASSUME NEW j \in 1..(Len(s) + 1)
      PROVE  all[j] = IF j < i THEN s[j] ELSE IF j = i THEN e ELSE s[j - 1]
  <2>1. j \in Nat /\ all[j] = IF j <= i THEN front[j] ELSE after[j - i]
    BY <1>0, <1>2, <1>4, <1>5
  <2>2. CASE j <= i
    BY <1>0, <1>4, <2>1, <2>2
  <2>3. CASE j > i
    <3>1. j - i \in 1..(Len(s) - i + 1) /\ i + (j - i) - 1 = j - 1
      BY <1>0, <2>1, <2>3
    <3>2. after[j - i] = s[j - 1]
      BY <3>1, <1>2
    <3> QED BY <1>0, <2>1, <2>3, <3>2
  <2> QED BY <1>0, <2>1, <2>2, <2>3
<1> QED BY <1>3, <1>5, <1>6, <1>7 DEF IsInsert

\* The library's RemoveAt, position by position.
LEMMA RemoveAtProperties ==
  ASSUME NEW S, NEW s \in Seq(S), NEW i \in 1..Len(s)
  PROVE  RemoveAt(s, i) \in Seq(S) /\ IsRemove(RemoveAt(s, i), s, i)
<1> DEFINE before == SubSeq(s, 1, i - 1)
           after == SubSeq(s, i + 1, Len(s))
           all == before \o after
<1>0. Len(s) \in Nat /\ i \in Nat /\ i >= 1 /\ i <= Len(s)
  OBVIOUS
<1>1. before \in Seq(S) /\ Len(before) = i - 1 /\ \A j \in 1..(i - 1) : before[j] = s[j]
  OBVIOUS
<1>2. after \in Seq(S) /\ Len(after) = Len(s) - i
      /\ \A j \in 1..(Len(s) - i) : after[j] = s[i + j]
  OBVIOUS
<1>3. RemoveAt(s, i) = all
  BY DEF RemoveAt
<1> HIDE DEF before, after
<1>4. /\ all \in Seq(S) /\ Len(all) = Len(before) + Len(after)
      /\ \A j \in 1..(Len(before) + Len(after)) :
           all[j] = IF j <= Len(before) THEN before[j] ELSE after[j - Len(before)]
  BY <1>1, <1>2, ConcatProperties
<1> HIDE DEF all
<1>5. Len(all) = Len(s) - 1
  BY <1>0, <1>1, <1>2, <1>4
<1>6. ASSUME NEW j \in 1..(Len(s) - 1)
      PROVE  all[j] = IF j < i THEN s[j] ELSE s[j + 1]
  <2>1. j \in Nat /\ j >= 1 /\ all[j] = IF j <= i - 1 THEN before[j] ELSE after[j - (i - 1)]
    BY <1>0, <1>1, <1>2, <1>4
  <2>2. CASE j < i
    BY <1>0, <1>1, <2>1, <2>2
  <2>3. CASE j >= i
    <3>1. j - (i - 1) \in 1..(Len(s) - i) /\ i + (j - (i - 1)) = j + 1
      BY <1>0, <2>1, <2>3
    <3>2. after[j - (i - 1)] = s[j + 1]
      BY <3>1, <1>2
    <3> QED BY <1>0, <2>1, <2>3, <3>2
  <2> QED BY <1>0, <2>1, <2>2, <2>3
<1> QED BY <1>3, <1>4, <1>5, <1>6 DEF IsRemove

Ascending(list) == \A i, j \in 1..Len(list) : i < j => list[i] < list[j]

\* What is in a list.
Elements(list) == {list[i] : i \in 1..Len(list)}

\* A list with a larger number at its end.
LEMMA AppendShape ==
  ASSUME NEW k \in Nat, NEW list, Len(list) = k, Ascending(list),
         \A i \in 1..k : list[i] \in Int, NEW n \in Int, \A i \in 1..k : list[i] < n,
         NEW r, Len(r) = k + 1, r[k + 1] = n, \A i \in 1..k : r[i] = list[i]
  PROVE  Ascending(r) /\ Elements(r) = Elements(list) \cup {n}
BY DEF Ascending, Elements

\* A list with a number put where it belongs.
LEMMA InsertShape ==
  ASSUME NEW list, IntList(list), Ascending(list), NEW n \in Int,
         NEW at \in 1..Len(list), n < list[at], \A i \in 1..Len(list) : i < at => list[i] < n,
         NEW r, IsInsert(r, list, at, n)
  PROVE  Ascending(r) /\ Elements(r) = Elements(list) \cup {n}
<1> DEFINE k == Len(list)
<1>0. /\ k \in Nat /\ Len(list) = k /\ \A i \in 1..k : list[i] \in Int
      /\ at \in 1..k /\ \A i \in 1..k : i < at => list[i] < n
      /\ Len(r) = k + 1
      /\ \A j \in 1..(k + 1) : r[j] = IF j < at THEN list[j] ELSE IF j = at THEN n ELSE list[j - 1]
  BY DEF IntList, IsInsert
<1> HIDE DEF k
<1> USE <1>0
<1>1. ASSUME NEW i \in 1..(k + 1), NEW j \in 1..(k + 1), i < j PROVE r[i] < r[j]
  <2>1. CASE j < at
    BY <1>1, <2>1 DEF Ascending
  <2>2. CASE i < at /\ j = at
    BY <1>1, <2>2
  <2>3. CASE i < at /\ j > at
    <3>1. j - 1 \in 1..k /\ i \in 1..k /\ i < j - 1
      BY <2>3
    <3>2. list[i] < list[j - 1] /\ r[i] = list[i] /\ r[j] = list[j - 1]
      BY <2>3, <3>1 DEF Ascending
    <3> QED BY <3>2
  <2>4. CASE i = at
    <3>1. j - 1 \in 1..k /\ at <= j - 1
      BY <1>1, <2>4
    <3>2. list[at] <= list[j - 1] /\ r[i] = n /\ r[j] = list[j - 1]
      BY <1>1, <2>4, <3>1 DEF Ascending
    <3> QED BY <3>1, <3>2
  <2>5. CASE i > at
    <3>1. i - 1 \in 1..k /\ j - 1 \in 1..k /\ i - 1 < j - 1
      BY <1>1, <2>5
    <3>2. list[i - 1] < list[j - 1] /\ r[i] = list[i - 1] /\ r[j] = list[j - 1]
      BY <1>1, <2>5, <3>1 DEF Ascending
    <3> QED BY <3>2
  <2> QED BY <1>1, <2>1, <2>2, <2>3, <2>4, <2>5
<1>2. ASSUME NEW j \in 1..(k + 1) PROVE r[j] \in Elements(list) \cup {n}
  <2>1. j < at => j \in 1..k
    OBVIOUS
  <2>2. j > at => j - 1 \in 1..k
    OBVIOUS
  <2> QED BY <2>1, <2>2 DEF Elements
<1>3. ASSUME NEW i \in 1..k PROVE list[i] \in Elements(r)
  <2>1. CASE i < at
    <3>1. i \in 1..(k + 1) /\ r[i] = list[i]
      BY <2>1
    <3> QED BY <3>1 DEF Elements
  <2>2. CASE i >= at
    <3>1. i + 1 \in 1..(k + 1) /\ r[i + 1] = list[(i + 1) - 1] /\ (i + 1) - 1 = i
      BY <2>2
    <3> QED BY <3>1 DEF Elements
  <2> QED BY <2>1, <2>2
<1>4. n \in Elements(r)
  <2>1. at \in 1..(k + 1) /\ r[at] = n
    OBVIOUS
  <2> QED BY <2>1 DEF Elements
<1> QED BY <1>1, <1>2, <1>3, <1>4 DEF Ascending, Elements

\* A list without one of its numbers.
LEMMA RemoveShape ==
  ASSUME NEW list, IntList(list), Ascending(list), NEW at \in 1..Len(list),
         NEW r, IsRemove(r, list, at)
  PROVE  Ascending(r) /\ Elements(r) = Elements(list) \ {list[at]}
<1> DEFINE k == Len(list)
<1>0. /\ k \in Nat /\ Len(list) = k /\ \A i \in 1..k : list[i] \in Int /\ at \in 1..k
      /\ Len(r) = k - 1
      /\ \A j \in 1..(k - 1) : r[j] = IF j < at THEN list[j] ELSE list[j + 1]
  BY DEF IntList, IsRemove
<1> HIDE DEF k
<1> USE <1>0
<1>1. ASSUME NEW i \in 1..(k - 1), NEW j \in 1..(k - 1), i < j PROVE r[i] < r[j]
  <2>1. i \in 1..k /\ j \in 1..k /\ i + 1 \in 1..k /\ j + 1 \in 1..k
    OBVIOUS
  <2>2. list[i] < list[j] /\ list[i + 1] < list[j + 1] /\ list[i] < list[j + 1]
    BY <1>1, <2>1 DEF Ascending
  <2>3. r[i] \in {list[i], list[i + 1]} /\ r[j] = IF j < at THEN list[j] ELSE list[j + 1]
    OBVIOUS
  <2>4. j < at => r[i] = list[i]
    BY <1>1
  <2> QED BY <1>1, <2>2, <2>3, <2>4
<1>2. ASSUME NEW j \in 1..(k - 1) PROVE r[j] \in Elements(list) /\ r[j] # list[at]
  <2>1. j \in 1..k /\ j + 1 \in 1..k
    OBVIOUS
  <2>2. CASE j < at
    <3>1. list[j] < list[at]
      BY <2>1, <2>2 DEF Ascending
    <3> QED BY <2>1, <2>2, <3>1 DEF Elements
  <2>3. CASE ~(j < at)
    <3>1. list[at] < list[j + 1]
      BY <2>1, <2>3 DEF Ascending
    <3> QED BY <2>1, <2>3, <3>1 DEF Elements
  <2> QED BY <2>2, <2>3
<1>3. ASSUME NEW i \in 1..k, list[i] # list[at] PROVE list[i] \in Elements(r)
  <2>1. CASE i < at
    <3>1. i \in 1..(k - 1) /\ r[i] = list[i]
      BY <2>1
    <3> QED BY <3>1 DEF Elements
  <2>2. CASE i > at
    <3>1. i - 1 \in 1..(k - 1) /\ r[i - 1] = list[(i - 1) + 1] /\ (i - 1) + 1 = i
      BY <2>2
    <3> QED BY <3>1 DEF Elements
  <2> QED BY <1>3, <2>1, <2>2
<1> QED BY <1>1, <1>2, <1>3 DEF Ascending, Elements

\* The library's Range, position by position.
LEMMA RangeOfList ==
  ASSUME NEW S, NEW s \in Seq(S)
  PROVE  Range(s) = Elements(s) /\ Range(s) \subseteq S
BY DEF Range, Elements

\* A packet put into a sorted list finds its place, whatever wraps.
LEMMA InsertSorts ==
  ASSUME NEW list \in Seq(Int), Ascending(list),
         NEW b \in Int, \A i \in 1..Len(list) : b <= list[i] /\ list[i] < b + RecvWindow,
         NEW n \in Int, b < n, n < b + RecvWindow
  PROVE  LET r == Insert(list, n, Wire(b))
         IN  r \in Seq(Int) /\ Ascending(r) /\ Range(r) = Range(list) \cup {n}
<1> DEFINE k == Len(list)
           I == {i \in 1..k : ~WalkOver(list[i], Wire(n), Wire(b))}
           at == IF I # {} THEN Min(I) ELSE 0
           r == Insert(list, n, Wire(b))
<1>1. InWindow(Wire(n), Wire(b)) /\ Wire(n) # Wire(b)
  <2>1. b - RecvWindow <= n
    BY Circle
  <2> QED BY <2>1, WindowTests
<1>2. r = IF at = 0 THEN Append(list, n)
          ELSE IF Wire(list[at]) = Wire(n) THEN list ELSE InsertAt(list, at, n)
  BY <1>1 DEF Insert, SelectInSeq
<1>3. \A i \in 1..k : i \in I <=> n <= list[i]
  <2>1. ASSUME NEW i \in 1..k PROVE WalkOver(list[i], Wire(n), Wire(b)) <=> list[i] < n
    BY WalkOverIsLess
  <2> QED BY <2>1
<1>4. I \in SUBSET Nat /\ k \in Nat /\ \A i \in 1..k : list[i] \in Int
  OBVIOUS
<1>5. Len(list) = k
  OBVIOUS
<1>8. IntList(list)
  BY DEF IntList
<1>6. CASE I = {}
  <2>1. \A i \in 1..k : list[i] < n
    BY <1>3, <1>4, <1>6
  <2>2. r = Append(list, n)
    BY <1>2, <1>6
  <2> HIDE DEF r
  <2>3. r \in Seq(Int)
    BY <2>2
  <2>4. Len(r) = k + 1 /\ r[k + 1] = n /\ \A i \in 1..k : r[i] = list[i]
    BY <2>2
  <2> HIDE DEF k, I
  <2>5. Ascending(r) /\ Elements(r) = Elements(list) \cup {n}
    BY <1>4, <1>5, <2>1, <2>4, AppendShape
  <2> QED BY <2>3, <2>5, RangeOfList DEF r
<1>7. CASE I # {}
  <2>1. at \in I /\ \A i \in I : at <= i
    BY <1>4, <1>7, Least
  <2> HIDE DEF at
  <2>2. /\ at \in 1..k /\ at # 0 /\ n <= list[at]
        /\ \A i \in 1..k : i < at => list[i] < n
    BY <1>3, <1>4, <2>1
  <2> HIDE DEF I
  <2>3. CASE Wire(list[at]) = Wire(n)
    <3>1. list[at] \in Int /\ -SeqNums < n - list[at] /\ n - list[at] < SeqNums
      BY <1>4, <2>2, Circle
    <3>2. list[at] = n
      BY <2>3, <3>1, WireUnique
    <3>3. n \in Range(list)
      BY <2>2, <3>2, RangeOfList DEF Elements
    <3> QED BY <1>2, <2>2, <2>3, <3>3
  <2>4. CASE Wire(list[at]) # Wire(n)
    <3>1. r = InsertAt(list, at, n)
      BY <1>2, <2>2, <2>4
    <3> HIDE DEF r
    <3>2. r \in Seq(Int) /\ IsInsert(r, list, at, n)
      BY <2>2, <3>1, InsertAtProperties
    <3>5. n < list[at]
      <4>1. n # list[at]
        BY <2>4
      <4> QED BY <1>4, <2>2, <4>1
    <3>6. Ascending(r) /\ Elements(r) = Elements(list) \cup {n}
      BY <1>8, <2>2, <3>2, <3>5, InsertShape
    <3> QED BY <3>2, <3>6, RangeOfList DEF r
  <2> QED BY <2>3, <2>4
<1> QED BY <1>6, <1>7

\* The packet with a number leaves a list, and no other.
LEMMA WithoutRemoves ==
  ASSUME NEW list \in Seq(Int), Ascending(list), NEW n \in Int,
         \A i \in 1..Len(list) : -SeqNums < n - list[i] /\ n - list[i] < SeqNums
  PROVE  LET r == Without(list, Wire(n))
         IN  r \in Seq(Int) /\ Ascending(r) /\ Range(r) = Range(list) \ {n}
<1> DEFINE k == Len(list)
           I == {i \in 1..k : Wire(list[i]) = Wire(n)}
           at == IF I # {} THEN Min(I) ELSE 0
           r == Without(list, Wire(n))
<1>1. r = IF at = 0 THEN list ELSE RemoveAt(list, at)
  BY DEF Without, SelectInSeq
<1>2. I \in SUBSET Nat /\ k \in Nat /\ \A i \in 1..k : list[i] \in Int
  OBVIOUS
<1>3. \A i \in 1..k : i \in I <=> list[i] = n
  BY <1>2, WireUnique
<1>4. Len(list) = k
  OBVIOUS
<1>5. CASE I = {}
  <2>1. n \notin Elements(list)
    BY <1>3, <1>5 DEF Elements
  <2> QED BY <1>1, <1>5, <2>1, RangeOfList
<1>6. CASE I # {}
  <2>1. at \in I
    BY <1>2, <1>6, Least
  <2> HIDE DEF at
  <2>2. at \in 1..k /\ at # 0 /\ list[at] = n
    BY <1>2, <1>3, <2>1
  <2> HIDE DEF I
  <2>3. r = RemoveAt(list, at)
    BY <1>1, <2>2
  <2> HIDE DEF r
  <2>4. r \in Seq(Int) /\ IsRemove(r, list, at)
    BY <2>2, <2>3, RemoveAtProperties
  <2>5. IntList(list)
    BY DEF IntList
  <2>7. Ascending(r) /\ Elements(r) = Elements(list) \ {n}
    BY <2>2, <2>4, <2>5, RemoveShape
  <2> QED BY <2>4, <2>7, RangeOfList DEF r
<1> QED BY <1>5, <1>6

\* The head of a sorted list is its smallest element, and leaves it alone.
LEMMA TailOfSorted ==
  ASSUME NEW list \in Seq(Int), Ascending(list), list # <<>>
  PROVE  /\ Tail(list) \in Seq(Int) /\ Ascending(Tail(list))
         /\ Head(list) \in Range(list) /\ Range(Tail(list)) = Range(list) \ {Head(list)}
         /\ \A x \in Range(list) : Head(list) <= x
<1> DEFINE k == Len(list)
           r == Tail(list)
<1>1. k \in Nat /\ 1 \in 1..k /\ Head(list) = list[1] /\ \A i \in 1..k : list[i] \in Int
  OBVIOUS
<1>2. r \in Seq(Int)
  OBVIOUS
<1>3. IsRemove(r, list, 1) /\ IntList(list)
  BY DEF IsRemove, IntList
<1>5. Len(list) = k
  OBVIOUS
<1> HIDE DEF r
<1>6. Ascending(r) /\ Elements(r) = Elements(list) \ {list[1]}
  BY <1>1, <1>3, RemoveShape
<1> HIDE DEF k
<1>7. \A i \in 1..k : list[1] <= list[i]
  BY <1>1, <1>5 DEF Ascending
<1>8. list[1] \in Elements(list) /\ \A x \in Elements(list) : list[1] <= x
  BY <1>1, <1>5, <1>7 DEF Elements
<1>9. Range(list) = Elements(list) /\ Range(r) = Elements(r)
  BY <1>2, RangeOfList
<1> QED BY <1>1, <1>2, <1>6, <1>8, <1>9 DEF r

-----------------------------------------------------------------------------
(* The inductive invariant.                                                *)

Packet == [msg : Nat, chunk : Nat, of : Nat]

\* The packet of a message with the last of the first i numbers, 0 if there is none.
IsLast(s, j, i) ==
  /\ j \in 0..i /\ (j # 0 => s[j] # Ping)
  /\ \A l \in (j + 1)..i : s[l] = Ping
\* Before the first there is, as it were, the whole of a message 0.
At(s, j) == IF j = 0 THEN Ping ELSE s[j]

\* The messages that have numbers are 1 to Numbered.
Begun(s) == At(s, CHOOSE j \in 0..Len(s) : IsLast(s, j, Len(s))).msg
Numbered == Begun(stream)

Types ==
  /\ accepted \in Nat /\ accepted <= Len(Sizes)
  /\ commands \in Seq(Nat) /\ Range(commands) \subseteq 0..accepted
  /\ waiting \in Seq(Nat) /\ Range(waiting) \subseteq 1..accepted
  /\ window \in Windows
  /\ phase \in {"timeouts", "requeue", "commands", "send", "sending"}
  /\ sender \in {"open", "pending", "gone"} /\ receiver \in {"open", "gone"}

\* The packets of one message follow each other, and the messages too; pings
\* may lie between.
Follows(p, q) ==
  IF p.chunk < p.of THEN q.msg = p.msg /\ q.chunk = p.chunk + 1
                    ELSE q.msg = p.msg + 1 /\ q.chunk = 1
Stream ==
  /\ stream \in Seq(Packet)
  /\ \A i \in 1..Len(stream) : stream[i] # Ping =>
       /\ stream[i].msg \in 1..accepted /\ stream[i].of = Sizes[stream[i].msg]
       /\ 1 <= stream[i].chunk /\ stream[i].chunk <= stream[i].of
  /\ \A i \in 1..Len(stream) : stream[i] # Ping =>
       \A j \in 0..(i - 1) : IsLast(stream, j, i - 1) => Follows(At(stream, j), stream[i])
  /\ \E j \in 0..Len(stream) :
       IsLast(stream, j, Len(stream)) /\ At(stream, j).chunk = At(stream, j).of

\* What waits for numbers comes next, in order, up to a disconnection.
Order ==
  sender = "open" =>
    /\ \A i \in 1..Len(waiting) : waiting[i] = Numbered + i
    /\ \A i \in 1..Len(commands) :
         (\A j \in 1..i : commands[j] # Disco) => commands[i] = Numbered + Len(waiting) + i
    /\ Disco \notin Range(commands) => accepted = Numbered + Len(waiting) + Len(commands)

\* The pings that have numbers, and the packets of messages in the queue.
Pings(s) == {i \in 1..Len(s) : s[i] = Ping}
InQueue(s, q) == {i \in Range(q) : s[i] # Ping}

\* What overtakes a queued packet is a ping, and those pings and the queue
\* together fit into a window.
Queue ==
  /\ queued \in Seq(Int) /\ Ascending(queued)
  /\ Cardinality(Overtaking(stream, queued)) <= MaxOvertaking
  /\ Cardinality(InQueue(stream, queued)) <= RecvWindow - 1 - MaxOvertaking
  /\ \A n \in Range(queued) : \A m \in n..Len(stream) : m \in Range(queued) \cup Pings(stream)

\* Nothing queued or on the wire is RecvWindow behind the next number.
Sender ==
  /\ Queue
  /\ sent \in Seq(Int) /\ Ascending(sent)
  /\ \A n \in Range(queued) \cup Range(sent) :
       n >= 1 /\ n <= Len(stream) /\ nextOut - n <= RecvWindow - 1

\* The same of what the receiver waits for; its buffer is one window at most.
Receiver ==
  /\ nextIn \in Nat /\ nextIn >= 1 /\ nextIn <= nextOut
  /\ incoming \in Seq(Int) /\ Ascending(incoming)
  /\ \A n \in Range(incoming) :
       nextIn <= n /\ n < nextIn + RecvWindow /\ n <= Len(stream)
  /\ receiver = "open" =>
       \A n \in 1..Len(stream) :
         n >= nextIn /\ n \notin Range(incoming) => nextOut - n <= RecvWindow - 1

Network ==
  /\ net \subseteq [type : {"data", "ack"}, n : 1..Len(stream)] \cup {DiscoPacket}
  /\ receiver = "open" =>
       \A n \in 1..Len(stream) : Ack(n) \in net => n < nextIn \/ n \in Range(incoming)

\* What the application got is what the numbers below nextIn stand for.
Delivered ==
  /\ delivered \in Seq(Nat) /\ Len(delivered) <= accepted
  /\ \A i \in 1..Len(delivered) : delivered[i] = i
  /\ chunks \subseteq Range(stream) /\ IsFiniteSet(chunks)
  /\ receiver = "open" =>
       \E j \in 0..(nextIn - 1) :
         /\ IsLast(stream, j, nextIn - 1)
         /\ LET p == At(stream, j)
            IN  IF p.chunk = p.of
                THEN Len(delivered) = p.msg /\ chunks = {}
                ELSE /\ Len(delivered) = p.msg - 1 /\ Cardinality(chunks) = p.chunk
                     /\ \A q \in chunks : q.msg = p.msg /\ q.chunk <= p.chunk

IInv == /\ Types /\ Stream /\ Order /\ Sender /\ Receiver /\ Network /\ Delivered
        /\ AckedIsHeld

-----------------------------------------------------------------------------
(* Sequences, once more.                                                   *)

\* A sequence whose elements are in B is a sequence over B.
LEMMA ListOf ==
  ASSUME NEW A, NEW B, NEW s \in Seq(A), Range(s) \subseteq B
  PROVE  s \in Seq(B)
<1>1. Len(s) \in Nat /\ s \in [1..Len(s) -> A] /\ DOMAIN s = 1..Len(s)
  BY LenProperties
<1>2. \A i \in 1..Len(s) : s[i] \in B
  BY <1>1 DEF Range
<1>3. s \in [1..Len(s) -> B]
  BY <1>1, <1>2
<1> QED BY <1>1, <1>3, SeqDef

\* Append, position by position.
LEMMA AppendRange ==
  ASSUME NEW A, NEW s \in Seq(A), NEW e \in A
  PROVE  /\ Append(s, e) \in Seq(A) /\ Len(Append(s, e)) = Len(s) + 1
         /\ Range(Append(s, e)) = Range(s) \cup {e}
         /\ \A i \in 1..Len(s) : Append(s, e)[i] = s[i]
         /\ Append(s, e)[Len(s) + 1] = e
<1> DEFINE r == Append(s, e)
<1>1. r \in Seq(A) /\ Len(r) = Len(s) + 1 /\ (\A i \in 1..Len(s) : r[i] = s[i]) /\ r[Len(s) + 1] = e
  OBVIOUS
<1>2. Len(s) \in Nat
  OBVIOUS
<1> HIDE DEF r
<1>3. Elements(r) = Elements(s) \cup {e}
  BY <1>1, <1>2 DEF Elements
<1>4. Range(r) = Elements(r) /\ Range(s) = Elements(s)
  BY <1>1, RangeOfList
<1> QED BY <1>1, <1>3, <1>4 DEF r

\* Tail, position by position.
LEMMA TailRange ==
  ASSUME NEW A, NEW s \in Seq(A), s # <<>>
  PROVE  /\ Tail(s) \in Seq(A) /\ Len(Tail(s)) = Len(s) - 1 /\ Len(s) \in Nat /\ Len(s) >= 1
         /\ Range(Tail(s)) \subseteq Range(s) /\ Head(s) \in Range(s) /\ Head(s) = s[1]
         /\ \A i \in 1..(Len(s) - 1) : Tail(s)[i] = s[i + 1]
<1> DEFINE r == Tail(s)
<1>1. r \in Seq(A) /\ Len(r) = Len(s) - 1 /\ (\A i \in 1..(Len(s) - 1) : r[i] = s[i + 1])
  OBVIOUS
<1>2. Len(s) \in Nat /\ Len(s) >= 1 /\ Head(s) = s[1]
  OBVIOUS
<1> HIDE DEF r
<1>3. Elements(r) \subseteq Elements(s) /\ s[1] \in Elements(s)
  BY <1>1, <1>2 DEF Elements
<1>4. Range(r) = Elements(r) /\ Range(s) = Elements(s)
  BY <1>1, RangeOfList
<1> QED BY <1>1, <1>2, <1>3, <1>4 DEF r

\* The empty sequence.
LEMMA EmptyList ==
  /\ \A A : <<>> \in Seq(A)
  /\ Len(<<>>) = 0 /\ Range(<<>>) = {} /\ Ascending(<<>>)
BY DEF Range, Ascending

\* r is the list q with the z numbers after k at its end.
IsRun(r, q, k, z) ==
  /\ Len(r) = Len(q) + z
  /\ \A i \in 1..(Len(q) + z) : r[i] = IF i <= Len(q) THEN q[i] ELSE k + (i - Len(q))

\* Such a list ascends when q does and holds no number after k.
LEMMA RunShape ==
  ASSUME NEW q \in Seq(Int), Ascending(q), NEW k \in Nat, NEW z \in Nat,
         \A n \in Range(q) : n <= k,
         NEW r \in Seq(Int), IsRun(r, q, k, z)
  PROVE  Ascending(r) /\ Range(r) = Range(q) \cup (k + 1)..(k + z)
<1>0. /\ Len(r) = Len(q) + z
      /\ \A i \in 1..(Len(q) + z) : r[i] = IF i <= Len(q) THEN q[i] ELSE k + (i - Len(q))
  BY DEF IsRun
<1> USE <1>0
<1> DEFINE c == Len(q)
<1>1. c \in Nat /\ c = Len(q) /\ Range(q) = Elements(q) /\ Range(r) = Elements(r)
  BY RangeOfList
<1>2. \A i \in 1..c : q[i] \in Int /\ q[i] <= k
  BY <1>1 DEF Elements
<1> HIDE DEF c
<1>3. ASSUME NEW i \in 1..(c + z), NEW j \in 1..(c + z), i < j PROVE r[i] < r[j]
  <2>1. CASE j <= c
    <3>1. i \in 1..c /\ j \in 1..c /\ r[i] = q[i] /\ r[j] = q[j]
      BY <1>1, <1>3, <2>1
    <3> QED BY <1>1, <1>3, <3>1 DEF Ascending
  <2>2. CASE i <= c /\ j > c
    <3>1. i \in 1..c /\ r[i] = q[i] /\ r[j] = k + (j - c)
      BY <1>1, <2>2
    <3> QED BY <1>1, <1>2, <2>2, <3>1
  <2>3. CASE i > c
    <3>1. r[i] = k + (i - c) /\ r[j] = k + (j - c)
      BY <1>1, <1>3, <2>3
    <3> QED BY <1>1, <1>3, <3>1
  <2> QED BY <1>1, <1>3, <2>1, <2>2, <2>3
<1>4. ASSUME NEW i \in 1..(c + z) PROVE r[i] \in Elements(q) \cup (k + 1)..(k + z)
  <2>1. CASE i <= c
    BY <1>1, <2>1 DEF Elements
  <2>2. CASE i > c
    <3>1. r[i] = k + (i - c) /\ i - c \in 1..z
      BY <1>1, <2>2
    <3> QED BY <3>1
  <2> QED BY <1>1, <2>1, <2>2
<1>5. ASSUME NEW i \in 1..c PROVE q[i] \in Elements(r)
  <2>1. i \in 1..(c + z) /\ r[i] = q[i]
    BY <1>1
  <2> QED BY <1>1, <2>1 DEF Elements
<1>6. ASSUME NEW n \in (k + 1)..(k + z) PROVE n \in Elements(r)
  <2>1. (n - k) + c \in 1..(c + z) /\ ~((n - k) + c <= c) /\ k + (((n - k) + c) - c) = n
    BY <1>1
  <2>2. r[(n - k) + c] = n
    BY <1>1, <2>1
  <2> QED BY <1>1, <2>1, <2>2 DEF Elements
<1> QED BY <1>1, <1>3, <1>4, <1>5, <1>6 DEF Ascending, Elements

\* A sequence has at most as many elements as places.
LEMMA RangeCount ==
  ASSUME NEW A, NEW s \in Seq(A)
  PROVE  IsFiniteSet(Range(s)) /\ Cardinality(Range(s)) \in Nat /\ Cardinality(Range(s)) <= Len(s)
<1>1. Len(s) \in Nat /\ DOMAIN s = 1..Len(s) /\ s \in [1..Len(s) -> A]
  BY LenProperties
<1>2. s \in Surjection(1..Len(s), Range(s))
  BY <1>1 DEF Surjection, Range
<1>3. IsFiniteSet(1..Len(s)) /\ Cardinality(1..Len(s)) = Len(s)
  BY <1>1, FS_Interval
<1> QED BY <1>2, <1>3, FS_Surjection, FS_CardinalityType

-----------------------------------------------------------------------------
(* Pings between the packets of messages.                                  *)

\* The last packet of a message depends on the numbers up to there only.
LEMMA LastPrefix ==
  ASSUME NEW s, NEW t, NEW k \in Nat, \A i \in 1..k : s[i] = t[i],
         NEW n \in Int, n <= k, NEW j
  PROVE  /\ IsLast(s, j, n) <=> IsLast(t, j, n)
         /\ IsLast(s, j, n) => j \in 0..n /\ At(s, j) = At(t, j)
BY DEF IsLast, At

\* There is one.
LEMMA LastUnique ==
  ASSUME NEW s, NEW i \in Int, NEW a, NEW b, IsLast(s, a, i), IsLast(s, b, i)
  PROVE  a = b
BY DEF IsLast

\* A ping leaves it; another packet is the last one itself.
LEMMA LastNext ==
  ASSUME NEW s, NEW i \in Nat
  PROVE  /\ \A j \in 0..i : s[i + 1] = Ping /\ IsLast(s, j, i) => IsLast(s, j, i + 1)
         /\ s[i + 1] # Ping => IsLast(s, i + 1, i + 1)
BY DEF IsLast

\* Numbered is what it is called.
LEMMA BegunIs ==
  ASSUME NEW s, Len(s) \in Nat, NEW j, IsLast(s, j, Len(s))
  PROVE  Begun(s) = At(s, j).msg
<1> DEFINE c == CHOOSE x \in 0..Len(s) : IsLast(s, x, Len(s))
<1>1. j \in 0..Len(s)
  BY DEF IsLast
<1>2. IsLast(s, c, Len(s))
  BY <1>1
<1>3. c = j
  BY <1>2, LastUnique
<1> QED BY <1>3 DEF Begun

\* What overtakes a queued packet fits into a window with the queue.
LEMMA QueueNear ==
  ASSUME NEW s, Len(s) \in Nat, DOMAIN s = 1..Len(s), NEW q \in Seq(Int),
         Cardinality(Overtaking(s, q)) <= MaxOvertaking,
         Cardinality(InQueue(s, q)) <= RecvWindow - 1 - MaxOvertaking,
         NEW n \in Range(q), n >= 1, n <= Len(s),
         \A m \in n..Len(s) : m \in Range(q) \cup Pings(s)
  PROVE  Len(s) + 1 - n <= RecvWindow - 1
<1> DEFINE k == Len(s)
           P == Overtaking(s, q)
           Q == InQueue(s, q)
<1>1. IsFiniteSet(P) /\ Cardinality(P) \in Nat
  <2>1. P \subseteq 1..k /\ IsFiniteSet(1..k)
    BY FS_Interval DEF Overtaking
  <2> QED BY <2>1, FS_Subset, FS_CardinalityType
<1>2. IsFiniteSet(Q) /\ Cardinality(Q) \in Nat
  <2>1. Q \subseteq Range(q) /\ IsFiniteSet(Range(q))
    BY RangeCount DEF InQueue
  <2> QED BY <2>1, FS_Subset, FS_CardinalityType
<1>3. n \in Int
  BY RangeOfList
<1>4. n..k \subseteq Q \cup P
  <2> SUFFICES ASSUME NEW m \in n..k PROVE m \in Q \cup P
    OBVIOUS
  <2>1. m \in 1..k /\ n <= m
    BY <1>3
  <2> QED BY <2>1 DEF Pings, InQueue, Overtaking
<1>5. /\ IsFiniteSet(Q \cup P) /\ Cardinality(Q \cap P) \in Nat
      /\ Cardinality(Q \cup P) = Cardinality(Q) + Cardinality(P) - Cardinality(Q \cap P)
  <2>1. IsFiniteSet(Q \cap P)
    <3>1. Q \cap P \subseteq Q
      OBVIOUS
    <3> QED BY <1>2, <3>1, FS_Subset
  <2> QED BY <1>1, <1>2, <2>1, FS_Union, FS_CardinalityType
<1>6. Cardinality(n..k) <= Cardinality(Q \cup P) /\ Cardinality(n..k) = k - n + 1
  <2>1. Cardinality(n..k) = k - n + 1
    <3>1. k \in Int /\ n <= k
      OBVIOUS
    <3> HIDE DEF k
    <3>2. Cardinality(n..k) = IF n > k THEN 0 ELSE k - n + 1
      BY <1>3, <3>1, FS_Interval
    <3> QED BY <1>3, <3>1, <3>2
  <2> QED BY <1>4, <1>5, <2>1, FS_Subset
<1> HIDE DEF P, Q, k
<1>7. /\ Cardinality(P) <= MaxOvertaking /\ Cardinality(Q) <= RecvWindow - 1 - MaxOvertaking
      /\ MaxOvertaking \in Nat /\ RecvWindow \in Nat /\ k \in Nat
  BY Sending, Circle DEF P, Q, k
<1>8. k + 1 - n <= RecvWindow - 1
  BY <1>1, <1>2, <1>3, <1>5, <1>6, <1>7
<1> QED BY <1>8 DEF k

-----------------------------------------------------------------------------
\* The invariant holds at the start.
LEMMA InitIInv == Init => IInv
<1> SUFFICES ASSUME Init PROVE IInv
  OBVIOUS
<1> USE EmptyList
<1>1. Types
  BY DEF Init, Types
<1>9. stream = <<>> /\ Len(stream) = 0 /\ IsLast(stream, 0, 0) /\ At(stream, 0) = Ping
  BY DEF Init, IsLast, At
<1>2. Stream
  <2>1. At(stream, 0).chunk = At(stream, 0).of
    BY <1>9 DEF Ping
  <2>2. stream \in Seq(Packet)
    BY <1>9
  <2>3. 1..0 = {} /\ 0 \in 0..0
    OBVIOUS
  <2> QED BY <1>9, <2>1, <2>2, <2>3 DEF Stream
<1>3. Order
  <2>1. Numbered = 0
    BY <1>9, BegunIs DEF Numbered, Ping
  <2> QED BY <2>1 DEF Init, Order
<1>4. Sender
  <2>1. Overtaking(stream, queued) = {} /\ InQueue(stream, queued) = {} /\ queued = <<>> /\ sent = <<>>
    BY <1>9 DEF Init, Overtaking, InQueue
  <2>2. Queue
    <3>1. Cardinality({}) = 0 /\ 0 <= MaxOvertaking /\ 0 <= RecvWindow - 1 - MaxOvertaking
      BY FS_EmptySet, Sending, Circle
    <3> QED BY <2>1, <3>1 DEF Queue
  <2> QED BY <2>1, <2>2 DEF Sender
<1>5. Receiver
  BY DEF Init, Receiver, nextOut
<1>6. Network
  BY DEF Init, Network
<1>7. Delivered
  <2>1. nextIn = 1 /\ delivered = <<>> /\ chunks = {} /\ accepted = 0
    BY DEF Init
  <2>2. LET q == At(stream, 0) IN q.chunk = q.of /\ Len(delivered) = q.msg
    BY <1>9, <2>1 DEF Ping
  <2>3. nextIn - 1 = 0 /\ 0 \in 0..0
    BY <2>1
  <2>4. delivered \in Seq(Nat) /\ Len(delivered) <= accepted
        /\ (\A i \in 1..Len(delivered) : delivered[i] = i)
        /\ chunks \subseteq Range(stream) /\ IsFiniteSet(chunks)
    BY <2>1, FS_EmptySet
  <2> QED BY <1>9, <2>1, <2>2, <2>3, <2>4 DEF Delivered
<1>8. AckedIsHeld
  BY DEF Init, AckedIsHeld
<1> QED BY <1>1, <1>2, <1>3, <1>4, <1>5, <1>6, <1>7, <1>8 DEF IInv

\* The invariant implies the types and the order of the lists.
LEMMA IInvImplies == IInv => TypeOK /\ Sorted
<1> SUFFICES ASSUME IInv PROVE TypeOK /\ Sorted
  OBVIOUS
<1>1. Len(stream) \in Nat /\ DOMAIN stream = 1..Len(stream) /\ nextOut = Len(stream) + 1
  BY DEF IInv, Stream, nextOut
<1>2. Sorted
  <2>1. \A list \in {sent, incoming} : Ascending(list)
    BY DEF IInv, Sender, Receiver
  <2> QED BY <2>1 DEF Sorted, Ascending
<1>3. accepted \in 0..Len(Sizes)
  BY DEF IInv, Types
<1>4. commands \in Seq(0..accepted) /\ waiting \in Seq(1..accepted)
  BY ListOf DEF IInv, Types
<1>5. stream \in Seq([msg : 0..accepted, chunk : Nat, of : Nat])
  <2>1. \A i \in 1..Len(stream) : stream[i] \in [msg : 0..accepted, chunk : Nat, of : Nat]
    <3> SUFFICES ASSUME NEW i \in 1..Len(stream)
                 PROVE  stream[i] \in [msg : 0..accepted, chunk : Nat, of : Nat]
      OBVIOUS
    <3>1. stream[i] \in Packet /\ (stream[i] # Ping => stream[i].msg \in 1..accepted)
      BY DEF IInv, Stream
    <3>2. accepted \in Nat
      BY DEF IInv, Types
    <3> QED BY <3>1, <3>2 DEF Packet, Ping
  <2>2. stream \in Seq(Packet) /\ Range(stream) \subseteq [msg : 0..accepted, chunk : Nat, of : Nat]
    BY <2>1, RangeOfList DEF IInv, Stream, Elements
  <2> QED BY <2>2, ListOf
<1>6. queued \in Seq(DOMAIN stream)
  <2>1. queued \in Seq(Int) /\ Range(queued) \subseteq Int
    BY RangeOfList DEF IInv, Sender, Queue
  <2>2. \A n \in Range(queued) : n \in 1..Len(stream)
    BY <1>1, <2>1 DEF IInv, Sender
  <2> QED BY <1>1, <2>1, <2>2, ListOf
<1>7. sent \in Seq(DOMAIN stream)
  <2>1. sent \in Seq(Int) /\ Range(sent) \subseteq Int
    BY RangeOfList DEF IInv, Sender
  <2>2. \A n \in Range(sent) : n \in 1..Len(stream)
    BY <1>1, <2>1 DEF IInv, Sender
  <2> QED BY <1>1, <2>1, <2>2, ListOf
<1>8. incoming \in Seq(DOMAIN stream)
  <2>1. incoming \in Seq(Int) /\ Range(incoming) \subseteq Int
    BY RangeOfList DEF IInv, Receiver
  <2>2. \A n \in Range(incoming) : n \in 1..Len(stream)
    BY <1>1, <2>1 DEF IInv, Receiver
  <2> QED BY <1>1, <2>1, <2>2, ListOf
<1>9. nextIn \in 1..nextOut
  BY <1>1 DEF IInv, Receiver
<1>10. net \subseteq [type : {"data", "ack"}, n : DOMAIN stream] \cup {DiscoPacket}
  BY <1>1 DEF IInv, Network
<1>11. /\ window \in Windows /\ phase \in {"timeouts", "requeue", "commands", "send", "sending"}
       /\ sender \in {"open", "pending", "gone"} /\ receiver \in {"open", "gone"}
       /\ chunks \subseteq Range(stream) /\ delivered \in Seq(Nat)
  BY DEF IInv, Types, Delivered
<1> QED BY <1>2, <1>3, <1>4, <1>5, <1>6, <1>7, <1>8, <1>9, <1>10, <1>11 DEF TypeOK

-----------------------------------------------------------------------------
(* Numbers are taken: a whole message gets the next ones.                  *)

\* The bounds on the number of packets of a message.
LEMMA SizeOf ==
  ASSUME NEW m \in DOMAIN Sizes
  PROVE  /\ m \in Nat /\ m >= 1 /\ m <= Len(Sizes)
         /\ Sizes[m] \in Nat /\ Sizes[m] >= 1 /\ Requeue + Sizes[m] + MaxOvertaking <= RecvWindow
         /\ \A w \in Windows : w \div 2 \in Int /\ w \div 2 + Sizes[m] + MaxOvertaking <= RecvWindow + 1
<1>1. Sizes \in Seq(Nat \ {0}) /\ DOMAIN Sizes = 1..Len(Sizes)
  BY Sending
<1>2. /\ Requeue + Sizes[m] + MaxOvertaking <= RecvWindow
      /\ \A w \in Windows : w \div 2 + Sizes[m] + MaxOvertaking <= RecvWindow + 1
  BY TransportAssumption DEF TransportAssumption
<1>3. \A w \in Windows : w \div 2 \in Int
  BY Sending
<1> QED BY <1>1, <1>2, <1>3

\* The packets of a message.
LEMMA PacketsOf ==
  ASSUME NEW m \in DOMAIN Sizes
  PROVE  /\ Packets(m) \in Seq(Packet) /\ Len(Packets(m)) = Sizes[m]
         /\ \A i \in 1..Sizes[m] : Packets(m)[i] = [msg |-> m, chunk |-> i, of |-> Sizes[m]]
<1>1. Sizes[m] \in Nat /\ m \in Nat
  BY SizeOf
<1>2. \A i \in 1..Sizes[m] : [msg |-> m, chunk |-> i, of |-> Sizes[m]] \in Packet
  BY <1>1 DEF Packet
<1> HIDE DEF Packet
<1> QED BY <1>1, <1>2 DEF Packets

\* The numbers a message gets.
LEMMA NewNumbersOf ==
  ASSUME NEW m \in DOMAIN Sizes, Len(stream) \in Nat
  PROVE  /\ NewNumbers(m) \in Seq(Int) /\ Len(NewNumbers(m)) = Sizes[m]
         /\ \A i \in 1..Sizes[m] : NewNumbers(m)[i] = Len(stream) + i
<1>1. Sizes[m] \in Nat
  BY SizeOf
<1> QED BY <1>1 DEF NewNumbers

\* The test of getOutgoingSequenceNumber keeps the oldest packet near, in spite
\* of the number it allows too many when the numbers wrap.
LEMMA MayTakeBounds ==
  ASSUME Sender, Stream, sent # <<>>, NEW t \in Nat, MayTake(t, sent), window \in Windows,
         Head(sent) <= t, t - Head(sent) <= 2 * RecvWindow - 2
  PROVE  t + 1 - Head(sent) <= window + 1
<1> DEFINE h == Head(sent)
           u == t + 1
<1>1. h \in Int
  BY DEF Sender
<1>2. IF Wire(h) < Wire(u) THEN Wire(u) - Wire(h) <= window
                               ELSE Wire(u) + (SeqNums - 1 - Wire(h)) <= window
  BY DEF MayTake
<1>3. h <= t /\ t - h <= 2 * RecvWindow - 2 /\ u = t + 1
  OBVIOUS
<1> HIDE DEF h, u
<1>4. /\ Wire(h) \in 0..(SeqNums - 1) /\ Wire(u) \in 0..(SeqNums - 1)
      /\ Wire(u) = CASE Wire(h) + (u - h) < 0 -> Wire(h) + (u - h) + SeqNums
                         [] Wire(h) + (u - h) >= SeqNums -> Wire(h) + (u - h) - SeqNums
                         [] OTHER -> Wire(h) + (u - h)
  <2>1. u \in Int /\ -SeqNums < u - h /\ u - h < SeqNums
    BY <1>1, <1>3, Circle
  <2> QED BY <1>1, <2>1, WireShift
<1>5. window \in Nat
  BY Sending
<1>6. h \in Int /\ u \in Int /\ u - h >= 1 /\ u - h < SeqNums
  BY <1>1, <1>3, Circle
<1>7. CASE Wire(h) + (u - h) < SeqNums
  <2>1. Wire(u) = Wire(h) + (u - h)
    BY <1>4, <1>6, <1>7, Circle
  <2>2. Wire(h) < Wire(u) /\ Wire(u) - Wire(h) = u - h
    BY <1>4, <1>6, <2>1, Circle
  <2> QED BY <1>2, <1>5, <1>6, <2>2 DEF h, u
<1>8. CASE ~(Wire(h) + (u - h) < SeqNums)
  <2> DEFINE wh == Wire(h)
             wu == Wire(u)
  <2>0. wh \in Nat /\ wu \in Nat /\ SeqNums \in Nat /\ SeqNums > 0
    BY <1>4, Circle
  <2>1. wu = wh + (u - h) - SeqNums
    <3>1. wh + (u - h) >= SeqNums /\ ~(wh + (u - h) < 0)
      BY <1>6, <1>8, <2>0
    <3> QED BY <1>4, <3>1
  <2> HIDE DEF wh, wu
  <2>2. ~(wh < wu) /\ wu + (SeqNums - 1 - wh) = u - h - 1
    BY <1>6, <2>0, <2>1
  <2>3. u - h - 1 <= window
    BY <1>2, <2>2 DEF wh, wu
  <2> QED BY <1>5, <1>6, <2>3 DEF h, u
<1> QED BY <1>7, <1>8

\* The number of messages that have numbers.
LEMMA NumberedType ==
  ASSUME IInv PROVE Numbered \in Nat
<1>1. stream \in Seq(Packet) /\ Len(stream) \in Nat
  BY DEF IInv, Stream
<1>2. PICK j \in 0..Len(stream) : IsLast(stream, j, Len(stream))
  BY DEF IInv, Stream
<1>3. At(stream, j) \in Packet
  <2>1. Ping \in Packet
    BY DEF Ping, Packet
  <2>2. j # 0 => j \in 1..Len(stream)
    BY <1>1
  <2> QED BY <1>1, <2>1, <2>2 DEF At
<1>4. Numbered = At(stream, j).msg
  BY <1>1, <1>2, BegunIs DEF Numbered
<1> QED BY <1>3, <1>4 DEF Packet

\* Numbers that are taken, and a packet that is sent, leave the other end as it is.
LEMMA TakenKeeps ==
  ASSUME IInv, sender # "gone", UNCHANGED <<accepted, sender, inVars>>,
         stream' \in Seq(Packet), Len(stream) <= Len(stream'),
         \A i \in 1..Len(stream) : stream'[i] = stream[i],
         NEW x \in 1..Len(stream'), net' \subseteq net \cup {Data(x)},
         Sender', AckedIsHeld'
  PROVE  Receiver' /\ Network' /\ Delivered'
<1> DEFINE k == Len(stream)
           t == Len(stream')
<1>1. k \in Nat /\ t \in Nat /\ k <= t /\ k = Len(stream) /\ t = Len(stream') /\ stream \in Seq(Packet)
  BY DEF IInv, Stream
<1>2. Stream /\ Receiver /\ Network /\ Delivered
  BY DEF IInv
<1>3. \A i \in 1..k : stream'[i] = stream[i]
  OBVIOUS
<1> HIDE DEF k, t
<1>4. Receiver'
  <2>1. /\ nextIn \in Nat /\ nextIn >= 1 /\ nextIn <= k + 1 /\ incoming \in Seq(Int)
        /\ Ascending(incoming)
        /\ \A n \in Range(incoming) : n \in Int /\ nextIn <= n /\ n < nextIn + RecvWindow /\ n <= k
    BY <1>1, <1>2, RangeOfList DEF Receiver, nextOut
  <2>2. ASSUME receiver = "open", NEW n \in 1..t, n >= nextIn, n \notin Range(incoming)
        PROVE  t + 1 - n <= RecvWindow - 1
    <3>1. n \in Range(queued') \cup Range(sent')
      <4>1. n \in DOMAIN stream'
        BY <1>1
      <4> QED BY <2>1, <2>2, <4>1 DEF AckedIsHeld, inVars
    <3> QED BY <1>1, <3>1 DEF Sender, nextOut
  <2>3. nextIn <= t + 1 /\ \A n \in Range(incoming) : n <= t
    BY <1>1, <2>1
  <2> QED BY <1>1, <2>1, <2>2, <2>3 DEF Receiver, nextOut, inVars
<1>5. Network'
  <2>1. Data(x) \in [type : {"data", "ack"}, n : 1..t] /\ 1..k \subseteq 1..t
    BY <1>1 DEF Data
  <2>2. net' \subseteq [type : {"data", "ack"}, n : 1..t] \cup {DiscoPacket}
    BY <1>1, <1>2, <2>1 DEF Network
  <2>3. ASSUME NEW n \in 1..t, Ack(n) \in net', receiver = "open"
        PROVE  n < nextIn \/ n \in Range(incoming)
    <3>1. Ack(n) # Data(x) /\ Ack(n) # DiscoPacket
      <4>1. Ack(n).type = "ack" /\ Data(x).type = "data" /\ DiscoPacket.type = "disco"
        BY DEF Ack, Data, DiscoPacket
      <4> QED BY <4>1
    <3>2. Ack(n) \in [type : {"data", "ack"}, n : 1..k]
      BY <1>1, <1>2, <2>3, <3>1 DEF Network
    <3>3. n \in 1..k /\ Ack(n) \in net
      BY <2>3, <3>1, <3>2 DEF Ack
    <3> QED BY <1>1, <1>2, <2>3, <3>3 DEF Network
  <2> QED BY <1>1, <2>2, <2>3 DEF Network, inVars
<1>6. Delivered'
  <2>1. Range(stream) \subseteq Range(stream')
    <3>1. Range(stream) = Elements(stream) /\ Range(stream') = Elements(stream')
      BY <1>1, RangeOfList
    <3>2. 1..k \subseteq 1..t
      BY <1>1
    <3> QED BY <1>1, <1>3, <3>1, <3>2 DEF Elements
  <2>2. ASSUME receiver = "open"
        PROVE  \E j \in 0..(nextIn - 1) :
                 /\ IsLast(stream', j, nextIn - 1)
                 /\ LET p == At(stream', j)
                    IN  IF p.chunk = p.of
                        THEN Len(delivered) = p.msg /\ chunks = {}
                        ELSE /\ Len(delivered) = p.msg - 1 /\ Cardinality(chunks) = p.chunk
                             /\ \A q \in chunks : q.msg = p.msg /\ q.chunk <= p.chunk
    <3>1. PICK j \in 0..(nextIn - 1) :
                 /\ IsLast(stream, j, nextIn - 1)
                 /\ LET p == At(stream, j)
                    IN  IF p.chunk = p.of
                        THEN Len(delivered) = p.msg /\ chunks = {}
                        ELSE /\ Len(delivered) = p.msg - 1 /\ Cardinality(chunks) = p.chunk
                             /\ \A q \in chunks : q.msg = p.msg /\ q.chunk <= p.chunk
      BY <1>2, <2>2 DEF Delivered
    <3>2. nextIn - 1 \in Int /\ nextIn - 1 <= k
      BY <1>1, <1>2 DEF Receiver, nextOut
    <3>3. IsLast(stream', j, nextIn - 1) /\ At(stream', j) = At(stream, j)
      <4>1. k \in Nat /\ \A i \in 1..k : stream[i] = stream'[i]
        BY <1>1, <1>3
      <4>2. ASSUME NEW n \in Int, n <= k, NEW i
            PROVE  /\ IsLast(stream, i, n) <=> IsLast(stream', i, n)
                   /\ IsLast(stream, i, n) => i \in 0..n /\ At(stream, i) = At(stream', i)
        BY <4>1, <4>2, LastPrefix
      <4> HIDE DEF k
      <4> QED BY <3>1, <3>2, <4>2
    <3> QED BY <3>1, <3>3
  <2> QED BY <1>2, <2>1, <2>2 DEF Delivered, inVars
<1> QED BY <1>4, <1>5, <1>6

\* Packets of the next message behind those in the queue, numbers included.
LEMMA ProcessKeeps ==
  ASSUME IInv, sender = "open", NEW m \in DOMAIN Sizes, m = Numbered + 1, m <= accepted,
         EnoughNumbers(m), Len(queued) + Sizes[m] <= RecvWindow - 1 - MaxOvertaking, Process(m),
         UNCHANGED <<accepted, sent, sender, net, inVars>>
  PROVE  Stream' /\ Sender' /\ Receiver' /\ Network' /\ Delivered' /\ AckedIsHeld' /\ Numbered' = m
<1> DEFINE k == Len(stream)
           z == Sizes[m]
           q == Len(queued)
<1>1. /\ k \in Nat /\ z \in Nat /\ z >= 1 /\ m \in Nat /\ m >= 1
      /\ Requeue \in Nat /\ Requeue > 0
      /\ stream \in Seq(Packet) /\ queued \in Seq(Int) /\ q \in Nat
  BY SizeOf, Sending DEF IInv, Stream, Sender, Queue
<1>2. /\ stream' \in Seq(Packet) /\ Len(stream') = k + z
      /\ \A i \in 1..k : stream'[i] = stream[i]
      /\ \A i \in (k + 1)..(k + z) :
           /\ stream'[i].msg = m /\ stream'[i].chunk = i - k /\ stream'[i].of = z
           /\ stream'[i] # Ping
  <2> DEFINE ps == Packets(m)
  <2>1. ps \in Seq(Packet) /\ Len(ps) = z /\ \A i \in 1..z : ps[i] = [msg |-> m, chunk |-> i, of |-> z]
    BY PacketsOf
  <2>2. stream' = stream \o ps
    BY DEF Process
  <2> HIDE DEF ps
  <2>3. /\ stream' \in Seq(Packet) /\ Len(stream') = k + Len(ps)
        /\ \A i \in 1..(k + Len(ps)) : stream'[i] = IF i <= k THEN stream[i] ELSE ps[i - k]
    BY <1>1, <2>1, <2>2, ConcatProperties
  <2> HIDE DEF k, z
  <2>4. ASSUME NEW i \in (k + 1)..(k + z)
        PROVE  /\ stream'[i].msg = m /\ stream'[i].chunk = i - k /\ stream'[i].of = z
               /\ stream'[i] # Ping
    <3>1. i - k \in 1..z /\ i \in 1..(k + z) /\ ~(i <= k)
      BY <1>1
    <3>2. stream'[i] = [msg |-> m, chunk |-> i - k, of |-> z]
      BY <2>1, <2>3, <3>1
    <3>3. stream'[i].msg # Ping.msg
      BY <1>1, <3>2 DEF Ping
    <3> QED BY <3>2, <3>3
  <2>5. \A i \in 1..k : i \in 1..(k + z) /\ i <= k
    BY <1>1
  <2> QED BY <2>1, <2>3, <2>4, <2>5
<1>4. Stream /\ Sender /\ Queue /\ Receiver /\ Network /\ Delivered /\ AckedIsHeld
  BY DEF IInv, Sender
<1>5. k = Len(stream) /\ z = Sizes[m] /\ q = Len(queued) /\ q + z <= RecvWindow - 1 - MaxOvertaking
  BY DEF k, z, q
<1>6. \A n \in Range(queued) \cup Range(sent) :
        n \in Int /\ n >= 1 /\ n <= k /\ k + 1 - n <= RecvWindow - 1
  <2>1. Range(queued) \subseteq Int /\ Range(sent) \subseteq Int
    BY <1>1, <1>4, RangeOfList DEF Sender
  <2> QED BY <1>4, <2>1 DEF Sender, nextOut
<1>3. /\ queued' \in Seq(Int) /\ Ascending(queued')
      /\ Range(queued') = Range(queued) \cup (k + 1)..(k + z)
  <2> DEFINE ns == NewNumbers(m)
  <2>1. ns \in Seq(Int) /\ Len(ns) = z /\ \A i \in 1..z : ns[i] = k + i
    BY <1>1, NewNumbersOf
  <2>2. queued' = queued \o ns
    BY DEF Process
  <2> HIDE DEF ns
  <2>4. /\ queued' \in Seq(Int) /\ Len(queued') = q + Len(ns)
        /\ \A i \in 1..(q + Len(ns)) : queued'[i] = IF i <= q THEN queued[i] ELSE ns[i - q]
    BY <1>1, <2>1, <2>2, ConcatProperties
  <2> HIDE DEF k, z, q
  <2>5. ASSUME NEW i \in 1..(q + z)
        PROVE  queued'[i] = IF i <= q THEN queued[i] ELSE k + (i - q)
    <3>1. i > q => i - q \in 1..z
      BY <1>1
    <3> QED BY <1>1, <2>1, <2>4, <3>1
  <2>6. Ascending(queued) /\ \A n \in Range(queued) : n <= k
    BY <1>4, <1>6 DEF Queue
  <2>7. /\ queued \in Seq(Int) /\ k \in Nat /\ z \in Nat /\ Len(queued') = Len(queued) + z
        /\ \A i \in 1..(Len(queued) + z) :
             queued'[i] = IF i <= Len(queued) THEN queued[i] ELSE k + (i - Len(queued))
    BY <1>1, <1>5, <2>1, <2>4, <2>5
  <2>8. IsRun(queued', queued, k, z)
    BY <2>7 DEF IsRun
  <2>9. \A a \in Seq(Int), r \in Seq(Int), l \in Nat, b \in Nat :
          Ascending(a) /\ (\A n \in Range(a) : n <= l) /\ IsRun(r, a, l, b)
            => Ascending(r) /\ Range(r) = Range(a) \cup (l + 1)..(l + b)
    BY RunShape
  <2> QED BY <2>4, <2>6, <2>7, <2>8, <2>9
<1> HIDE DEF k, z, q
<1>14. PICK j \in 0..k : IsLast(stream, j, k) /\ At(stream, j).chunk = At(stream, j).of
  BY <1>4, <1>5 DEF Stream
<1>15. /\ \A i : \A n \in Int : n <= k => (IsLast(stream', i, n) <=> IsLast(stream, i, n))
       /\ \A i : \A n \in Int : n <= k /\ IsLast(stream, i, n) =>
            i \in 0..n /\ At(stream', i) = At(stream, i)
  <2> SUFFICES ASSUME NEW n \in Int, n <= k, NEW i
               PROVE  /\ IsLast(stream', i, n) <=> IsLast(stream, i, n)
                      /\ IsLast(stream, i, n) => i \in 0..n /\ At(stream', i) = At(stream, i)
    OBVIOUS
  <2>1. \A l \in 1..k : stream[l] = stream'[l]
    BY <1>2
  <2> QED BY <1>1, <2>1, LastPrefix
<1>16. \A i \in (k + 1)..(k + z) : IsLast(stream', i, i) /\ At(stream', i) = stream'[i]
  <2> SUFFICES ASSUME NEW i \in (k + 1)..(k + z)
               PROVE  IsLast(stream', i, i) /\ At(stream', i) = stream'[i]
    OBVIOUS
  <2>1. stream'[i] # Ping /\ i \in Nat /\ i # 0
    BY <1>1, <1>2
  <2> QED BY <2>1 DEF IsLast, At
<1>7. Numbered' = m
  <2>1. k + z \in (k + 1)..(k + z) /\ Len(stream') \in Nat
    BY <1>1, <1>2
  <2>2. IsLast(stream', k + z, Len(stream')) /\ At(stream', k + z).msg = m
    BY <1>2, <1>16, <2>1
  <2>3. Begun(stream') = m
    BY <2>1, <2>2, BegunIs
  <2> QED BY <2>3 DEF Numbered
<1>17. At(stream, j).msg = m - 1
  <2>1. Numbered = At(stream, j).msg
    BY <1>1, <1>5, <1>14, BegunIs DEF Numbered
  <2> QED BY <2>1, NumberedType
<1>8. Stream'
  <2>1. ASSUME NEW i \in 1..(k + z), stream'[i] # Ping
        PROVE  /\ stream'[i].msg \in 1..accepted /\ stream'[i].of = Sizes[stream'[i].msg]
               /\ 1 <= stream'[i].chunk /\ stream'[i].chunk <= stream'[i].of
    <3>1. CASE i <= k
      <4>1. i \in 1..k
        BY <1>1, <3>1
      <4> QED BY <1>2, <1>4, <1>5, <2>1, <4>1 DEF Stream
    <3>2. CASE ~(i <= k)
      <4>1. i \in (k + 1)..(k + z) /\ i - k \in Nat /\ 1 <= i - k /\ i - k <= z
        BY <1>1, <3>2
      <4>2. m \in 1..accepted
        BY <1>1 DEF IInv, Types
      <4> QED BY <1>2, <1>5, <4>1, <4>2
    <3> QED BY <3>1, <3>2
  <2>2. ASSUME NEW i \in 1..(k + z), stream'[i] # Ping, NEW l \in 0..(i - 1), IsLast(stream', l, i - 1)
        PROVE  Follows(At(stream', l), stream'[i])
    <3>1. CASE i <= k
      <4>1. i \in 1..k /\ i - 1 \in Int /\ i - 1 <= k
        BY <1>1, <3>1
      <4>2. IsLast(stream, l, i - 1) /\ At(stream', l) = At(stream, l) /\ stream'[i] = stream[i]
        BY <1>2, <1>15, <2>2, <4>1
      <4> QED BY <1>4, <1>5, <2>2, <4>1, <4>2 DEF Stream
    <3>2. CASE i = k + 1
      <4>1. i - 1 = k /\ k \in Int /\ i \in (k + 1)..(k + z) /\ i - k = 1
        BY <1>1, <3>2
      <4>2. IsLast(stream, l, k) /\ At(stream', l) = At(stream, l)
        BY <1>15, <2>2, <4>1
      <4>3. l = j
        BY <1>14, <4>1, <4>2, LastUnique
      <4>4. At(stream, j).chunk = At(stream, j).of /\ At(stream, j).msg + 1 = m
        BY <1>1, <1>14, <1>17
      <4>5. At(stream, j).of \in Nat
        <5>1. j # 0 => j \in 1..k
          BY <1>1
        <5>2. Ping.of \in Nat
          BY DEF Ping
        <5>3. j # 0 => stream[j] \in Packet
          BY <1>1, <1>5, <5>1
        <5> QED BY <5>2, <5>3 DEF At, Packet
      <4>6. ~(At(stream, j).chunk < At(stream, j).of)
        BY <4>4, <4>5
      <4> QED BY <1>2, <4>1, <4>2, <4>3, <4>4, <4>6 DEF Follows
    <3>3. CASE i > k + 1
      <4>1. /\ i \in (k + 1)..(k + z) /\ i - 1 \in (k + 1)..(k + z) /\ i - 1 \in Int
            /\ i - k = ((i - 1) - k) + 1 /\ (i - 1) - k < z
        BY <1>1, <3>3
      <4>2. l = i - 1
        BY <1>16, <2>2, <4>1, LastUnique
      <4> QED BY <1>2, <1>16, <4>1, <4>2 DEF Follows
    <3> QED BY <1>1, <3>1, <3>2, <3>3
  <2>3. /\ k + z \in 0..(k + z) /\ IsLast(stream', k + z, k + z)
        /\ At(stream', k + z).chunk = At(stream', k + z).of
    <3>1. k + z \in (k + 1)..(k + z) /\ (k + z) - k = z
      BY <1>1
    <3> QED BY <1>2, <1>16, <3>1
  <2> QED BY <1>2, <2>1, <2>2, <2>3 DEF Stream
<1>18. Queue'
  <2>1. Pings(stream') = Pings(stream)
    <3>1. \A i \in 1..(k + z) : stream'[i] = Ping => i \in 1..k
      BY <1>1, <1>2
    <3>2. 1..k \subseteq 1..(k + z)
      BY <1>1
    <3> QED BY <1>2, <1>5, <3>1, <3>2 DEF Pings
  <2>2. Cardinality(InQueue(stream', queued')) <= RecvWindow - 1 - MaxOvertaking
    <3> DEFINE R == Range(queued)
               N == (k + 1)..(k + z)
    <3>1. IsFiniteSet(R) /\ Cardinality(R) \in Nat /\ Cardinality(R) <= q
      BY <1>1, <1>5, RangeCount
    <3>2. IsFiniteSet(N) /\ Cardinality(N) = z
      <4>1. k + 1 \in Int /\ k + z \in Int /\ ~(k + 1 > k + z) /\ (k + z) - (k + 1) + 1 = z
        BY <1>1
      <4> QED BY <4>1, FS_Interval
    <3>3. InQueue(stream', queued') \subseteq R \cup N
      BY <1>3 DEF InQueue
    <3> HIDE DEF R, N
    <3>4. /\ IsFiniteSet(R \cup N) /\ Cardinality(R \cap N) \in Nat
          /\ Cardinality(R \cup N) = Cardinality(R) + Cardinality(N) - Cardinality(R \cap N)
      <4>1. IsFiniteSet(R \cap N)
        <5>1. R \cap N \subseteq R
          OBVIOUS
        <5> QED BY <3>1, <5>1, FS_Subset
      <4> QED BY <3>1, <3>2, <4>1, FS_Union, FS_CardinalityType
    <3>5. /\ Cardinality(InQueue(stream', queued')) \in Nat
          /\ Cardinality(InQueue(stream', queued')) <= Cardinality(R \cup N)
      BY <3>3, <3>4, FS_Subset, FS_CardinalityType
    <3> QED BY <1>1, <1>5, <3>1, <3>2, <3>4, <3>5, Sending, Circle
  <2>3. ASSUME NEW n \in Range(queued'), NEW l \in n..(k + z)
        PROVE  l \in Range(queued') \cup Pings(stream')
    <3>1. n \in Int
      BY <1>3, RangeOfList
    <3>2. CASE l > k
      <4>1. l \in (k + 1)..(k + z)
        BY <1>1, <3>1, <3>2
      <4> QED BY <1>3, <4>1
    <3>3. CASE ~(l > k)
      <4>1. n \notin (k + 1)..(k + z) /\ l \in n..k
        BY <1>1, <3>1, <3>3
      <4>2. l \in Range(queued) \cup Pings(stream)
        BY <1>3, <1>4, <1>5, <4>1 DEF Queue
      <4> QED BY <1>3, <2>1, <4>2
    <3> QED BY <3>2, <3>3
  <2>4. Cardinality(Overtaking(stream', queued')) <= MaxOvertaking
    <3>1. Range(queued') \subseteq Int /\ DOMAIN stream = 1..k /\ DOMAIN stream' = 1..(k + z)
      BY <1>1, <1>2, <1>3, <1>5, RangeOfList
    <3>2. ASSUME NEW i
          PROVE  i \in Overtaking(stream', queued') <=> i \in Overtaking(stream, queued)
      <4>1. (i \in 1..(k + z) /\ stream'[i] = Ping) <=> (i \in 1..k /\ stream[i] = Ping)
        BY <1>2, <1>5, <2>1 DEF Pings
      <4>2. ASSUME i \in 1..k, NEW n \in Range(queued'), n <= i PROVE n \in Range(queued)
        BY <1>1, <1>3, <3>1, <4>2
      <4> QED BY <1>3, <3>1, <4>1, <4>2 DEF Overtaking
    <3>3. Overtaking(stream', queued') = Overtaking(stream, queued)
      BY <3>2
    <3> QED BY <1>4, <3>3 DEF Queue
  <2> QED BY <1>2, <1>3, <2>2, <2>3, <2>4 DEF Queue
<1>9. Sender'
  <2>2. ASSUME NEW n \in Range(sent) PROVE k + z + 1 - n <= RecvWindow - 1
    <3>1. sent # <<>> /\ sent \in Seq(Int) /\ Ascending(sent)
      BY <1>4, EmptyList DEF Sender
    <3>2. Head(sent) \in Range(sent) /\ Head(sent) <= n /\ Head(sent) \in Int
      BY <1>6, <3>1, TailOfSorted
    <3>3. MayTake(k + z - 1, sent)
      <4>1. z \in 1..Sizes[m]
        BY <1>1, <1>5
      <4> QED BY <1>5, <4>1 DEF EnoughNumbers
    <3>4. /\ k + z - 1 \in Nat /\ Head(sent) <= k + z - 1
          /\ (k + z - 1) - Head(sent) <= 2 * RecvWindow - 2
      <4> DEFINE h == Head(sent)
      <4>0. h \in Int /\ h <= k /\ k + 1 - h <= RecvWindow - 1
        BY <1>6, <3>2
      <4>1. z <= RecvWindow - 1 /\ MaxOvertaking \in Nat
        BY <1>1, <1>5, Sending, Circle
      <4> HIDE DEF h
      <4>2. h <= k + z - 1 /\ (k + z - 1) - h <= 2 * RecvWindow - 2
        BY <1>1, <4>0, <4>1, Circle
      <4> QED BY <1>1, <4>2 DEF h
    <3>5. window \in Windows
      BY DEF IInv, Types
    <3>6. (k + z - 1) + 1 - Head(sent) <= window + 1 /\ window + 3 <= RecvWindow /\ window \in Nat
      BY <1>4, <3>1, <3>3, <3>4, <3>5, MayTakeBounds, Sending
    <3> QED BY <1>1, <1>6, <3>2, <3>6, Circle
  <2>3. ASSUME NEW n \in Range(queued') PROVE n >= 1 /\ n <= k + z /\ k + z + 1 - n <= RecvWindow - 1
    <3>1. n \in Int /\ n >= 1 /\ n <= k + z
      <4>1. CASE n \in Range(queued)
        BY <1>1, <1>6, <4>1
      <4>2. CASE n \in (k + 1)..(k + z)
        BY <1>1, <4>2
      <4> QED BY <1>3, <4>1, <4>2
    <3>2. k + z \in Nat /\ Len(stream') = k + z
      BY <1>1, <1>2
    <3>3. Len(stream') + 1 - n <= RecvWindow - 1
      BY <1>3, <1>18, <3>1, <3>2, QueueNear DEF Queue
    <3> QED BY <3>1, <3>2, <3>3
  <2>4. ASSUME NEW n \in Range(sent) PROVE n >= 1 /\ n <= k + z
    BY <1>1, <1>6
  <2>5. sent' = sent /\ sent \in Seq(Int) /\ Ascending(sent)
    BY <1>4 DEF Sender
  <2>6. Len(stream') = k + z /\ nextOut' = k + z + 1
    BY <1>2 DEF nextOut
  <2>7. ASSUME NEW n \in Range(queued') \cup Range(sent')
        PROVE  n >= 1 /\ n <= Len(stream') /\ nextOut' - n <= RecvWindow - 1
    <3>1. CASE n \in Range(queued')
      <4>1. n \in Int /\ n >= 1 /\ n <= k + z /\ k + z + 1 - n <= RecvWindow - 1
        <5>1. n \in Int
          BY <1>1, <1>3, <1>6, <3>1
        <5> QED BY <2>3, <3>1, <5>1
      <4> QED BY <1>1, <2>6, <4>1
    <3>2. CASE n \in Range(sent)
      <4>1. n \in Int /\ n >= 1 /\ n <= k + z /\ k + z + 1 - n <= RecvWindow - 1
        BY <1>6, <2>2, <2>4, <3>2
      <4> QED BY <1>1, <2>6, <4>1
    <3> QED BY <2>5, <3>1, <3>2
  <2> QED BY <1>18, <2>5, <2>7 DEF Sender
<1>10. AckedIsHeld'
  <2>1. ASSUME NEW n \in DOMAIN stream', receiver = "open"
        PROVE  n \in Range(queued') \cup Range(sent) \/ n < nextIn \/ n \in Range(incoming)
    <3>1. n \in 1..(k + z)
      BY <1>2
    <3>2. CASE n \in 1..k
      <4>1. n \in Range(queued) \cup Range(sent) \/ n < nextIn \/ n \in Range(incoming)
        BY <1>4, <1>5, <2>1, <3>2 DEF AckedIsHeld, Stream
      <4> QED BY <1>3, <4>1
    <3>3. CASE n \notin 1..k
      <4>1. n \in (k + 1)..(k + z)
        BY <1>1, <3>1, <3>3
      <4> QED BY <1>3, <4>1
    <3> QED BY <3>2, <3>3
  <2> QED BY <2>1 DEF AckedIsHeld, inVars
<1>11. Receiver' /\ Network' /\ Delivered'
  <2>1. k <= k + z /\ k + z \in 1..Len(stream') /\ net' \subseteq net \cup {Data(k + z)}
    BY <1>1, <1>2
  <2> QED BY <1>2, <1>5, <1>9, <1>10, <2>1, TakenKeeps
<1> QED BY <1>7, <1>8, <1>9, <1>10, <1>11

-----------------------------------------------------------------------------
(* What leaves parts of the state alone leaves parts of the invariant alone. *)

\* The numbers taken.
LEMMA SameStream ==
  ASSUME IInv, accepted' \in Nat, accepted <= accepted', stream' = stream
  PROVE  Stream' /\ Numbered' = Numbered
<1>1. accepted \in Nat
  BY DEF IInv, Types
<1>2. 1..accepted \subseteq 1..accepted'
  BY <1>1
<1>3. Stream'
  BY <1>2 DEF IInv, Stream
<1> QED BY <1>3 DEF Numbered

\* The sender's lists.
LEMMA SameSender ==
  ASSUME IInv, UNCHANGED <<stream, queued, sent>>
  PROVE  Sender'
BY DEF IInv, Sender, Queue, nextOut

\* The receiver's list and window.
LEMMA SameReceiver ==
  ASSUME IInv, UNCHANGED <<stream, inVars>>
  PROVE  Receiver'
BY DEF IInv, Receiver, nextOut, inVars

\* What the application got.
LEMMA SameDelivered ==
  ASSUME IInv, accepted' \in Nat, accepted <= accepted', UNCHANGED <<stream, inVars>>
  PROVE  Delivered'
<1>1. delivered \in Seq(Nat) /\ Len(delivered) <= accepted /\ accepted \in Nat
  BY DEF IInv, Delivered, Types
<1>2. Len(delivered) <= accepted'
  BY <1>1
<1> QED BY <1>2 DEF IInv, Delivered, inVars

\* One packet more on the network.
LEMMA MoreData ==
  ASSUME IInv, UNCHANGED <<stream, inVars>>, NEW n \in 1..Len(stream),
         net' \subseteq net \cup {Data(n), DiscoPacket}
  PROVE  Network'
<1>1. Data(n) \in [type : {"data", "ack"}, n : 1..Len(stream)]
  BY DEF Data
<1>2. \A m : Ack(m) # Data(n) /\ Ack(m) # DiscoPacket
  <2> SUFFICES ASSUME NEW m PROVE Ack(m) # Data(n) /\ Ack(m) # DiscoPacket
    OBVIOUS
  <2>1. Ack(m).type = "ack" /\ Data(n).type = "data" /\ DiscoPacket.type = "disco"
    BY DEF Ack, Data, DiscoPacket
  <2> QED BY <2>1
<1> QED BY <1>1, <1>2 DEF IInv, Network, inVars

\* Nothing new on the network but a DISCO.
LEMMA LessNet ==
  ASSUME IInv, UNCHANGED <<stream, inVars>>, net' \subseteq net \cup {DiscoPacket}
  PROVE  Network'
<1>1. \A m : Ack(m) # DiscoPacket
  <2> SUFFICES ASSUME NEW m PROVE Ack(m) # DiscoPacket
    OBVIOUS
  <2>1. Ack(m).type = "ack" /\ DiscoPacket.type = "disco"
    BY DEF Ack, DiscoPacket
  <2> QED BY <2>1
<1> QED BY <1>1 DEF IInv, Network, inVars

\* A packet that enters may push another one out; one that is taken may stay.
LEMMA Puts ==
  /\ \A base, p : \A b \in Put(base, p) : b \subseteq base \cup {p}
  /\ \A p : \A b \in Taken(p) : b \subseteq net
BY DEF Put, Taken

-----------------------------------------------------------------------------
(* The actions.                                                            *)

\* Connection::Send keeps the invariant.
LEMMA SendKeeps ==
  ASSUME IInv, Send PROVE IInv'
<1> DEFINE c == Len(commands)
           w == Len(waiting)
<1>1. /\ accepted \in Nat /\ commands \in Seq(Nat) /\ Range(commands) \subseteq 0..accepted
      /\ Range(waiting) \subseteq 1..accepted /\ waiting \in Seq(Nat)
  BY DEF IInv, Types
<1>2. accepted' = accepted + 1 /\ accepted + 1 <= Len(Sizes)
  BY <1>1, SizeOf DEF Send, Messages
<1>3. /\ commands' \in Seq(Nat) /\ Range(commands') = Range(commands) \cup {accepted + 1}
      /\ Len(commands') = c + 1 /\ \A i \in 1..c : commands'[i] = commands[i]
      /\ commands'[c + 1] = accepted + 1
  BY <1>1, AppendRange DEF Send
<1>4. c \in Nat /\ w \in Nat
  BY <1>1
<1> HIDE DEF c, w
<1>5. UNCHANGED <<waiting, stream, queued, sent, window, phase, sender, net, inVars>>
  BY DEF Send
<1>6. Types'
  <2>1. 0..accepted \subseteq 0..(accepted + 1) /\ 1..accepted \subseteq 1..(accepted + 1)
        /\ accepted + 1 \in 0..(accepted + 1)
    BY <1>1
  <2>2. Range(commands') \subseteq 0..(accepted + 1) /\ Range(waiting) \subseteq 1..(accepted + 1)
    BY <1>1, <1>3, <2>1
  <2> QED BY <1>1, <1>2, <1>3, <1>5, <2>2 DEF IInv, Types, inVars
<1>7. Stream' /\ Delivered' /\ Numbered' = Numbered
  BY <1>1, <1>2, <1>5, SameStream, SameDelivered
<1>8. Sender' /\ Receiver'
  BY <1>5, SameSender, SameReceiver
<1>9. Network'
  BY <1>5, LessNet
<1>10. AckedIsHeld'
  BY <1>5 DEF IInv, AckedIsHeld, inVars
<1>11. Order'
  <2> SUFFICES ASSUME sender = "open" PROVE Order'
    BY <1>5 DEF Order
  <2> DEFINE N == Numbered
  <2>1. /\ \A i \in 1..w : waiting[i] = N + i
        /\ \A i \in 1..c : (\A j \in 1..i : commands[j] # Disco) => commands[i] = N + w + i
        /\ Disco \notin Range(commands) => accepted = N + w + c
    BY DEF IInv, Order, c, w
  <2>2. accepted + 1 # Disco /\ N \in Nat
    BY <1>1, NumberedType DEF Disco
  <2> HIDE DEF N
  <2>3. Disco \notin Range(commands') => accepted + 1 = N + w + (c + 1)
    BY <1>1, <1>3, <1>4, <2>1, <2>2
  <2>4. ASSUME NEW i \in 1..(c + 1), \A j \in 1..i : commands'[j] # Disco
        PROVE  commands'[i] = N + w + i
    <3>1. CASE i \in 1..c
      <4>1. \A j \in 1..i : j \in 1..c
        BY <1>4, <3>1
      <4> QED BY <1>3, <2>1, <2>4, <3>1, <4>1
    <3>2. CASE i = c + 1
      <4>1. \A j \in 1..c : j \in 1..(c + 1)
        BY <1>4
      <4>2. \A j \in 1..c : commands[j] # Disco
        BY <1>3, <2>4, <3>2, <4>1
      <4>3. Disco \notin Range(commands)
        BY <1>1, <4>2, RangeOfList DEF Elements, c
      <4> QED BY <1>1, <1>3, <1>4, <2>1, <2>2, <3>2, <4>3
    <3> QED BY <1>4, <3>1, <3>2
  <2> QED BY <1>2, <1>3, <1>5, <1>7, <2>1, <2>3, <2>4 DEF Order, N, w
<1> QED BY <1>6, <1>7, <1>8, <1>9, <1>10, <1>11 DEF IInv

\* Connection::DisconnectPeer keeps the invariant.
LEMMA DisconnectPeerKeeps ==
  ASSUME IInv, DisconnectPeer PROVE IInv'
<1> DEFINE c == Len(commands)
           w == Len(waiting)
<1>1. /\ accepted \in Nat /\ commands \in Seq(Nat) /\ Range(commands) \subseteq 0..accepted
  BY DEF IInv, Types
<1>2. Disco \in Nat /\ Disco \in 0..accepted
  BY <1>1 DEF Disco
<1>3. /\ commands' \in Seq(Nat) /\ Range(commands') = Range(commands) \cup {Disco}
      /\ Len(commands') = c + 1 /\ \A i \in 1..c : commands'[i] = commands[i]
      /\ commands'[c + 1] = Disco
  BY <1>1, <1>2, AppendRange DEF DisconnectPeer
<1>4. c \in Nat
  BY <1>1
<1> HIDE DEF c, w
<1>5. UNCHANGED <<accepted, waiting, stream, queued, sent, window, phase, sender, net, inVars>>
  BY DEF DisconnectPeer
<1>6. Types'
  BY <1>1, <1>2, <1>3, <1>5 DEF IInv, Types, inVars
<1>7. Stream' /\ Delivered' /\ Numbered' = Numbered
  BY <1>1, <1>5, SameStream, SameDelivered
<1>8. Sender' /\ Receiver'
  BY <1>5, SameSender, SameReceiver
<1>9. Network'
  BY <1>5, LessNet
<1>10. AckedIsHeld'
  BY <1>5 DEF IInv, AckedIsHeld, inVars
<1>11. Order'
  <2> SUFFICES ASSUME sender = "open" PROVE Order'
    BY <1>5 DEF Order
  <2> DEFINE N == Numbered
  <2>1. /\ \A i \in 1..w : waiting[i] = N + i
        /\ \A i \in 1..c : (\A j \in 1..i : commands[j] # Disco) => commands[i] = N + w + i
    BY DEF IInv, Order, c, w
  <2> HIDE DEF N
  <2>2. ASSUME NEW i \in 1..(c + 1), \A j \in 1..i : commands'[j] # Disco
        PROVE  commands'[i] = N + w + i
    <3>1. i \in 1..c /\ \A j \in 1..i : j \in 1..c
      <4>1. i \in 1..i
        OBVIOUS
      <4>2. i # c + 1
        BY <1>3, <2>2, <4>1
      <4> QED BY <1>4, <4>2
    <3> QED BY <1>3, <2>1, <2>2, <3>1
  <2> QED BY <1>3, <1>5, <1>7, <2>1, <2>2 DEF Order, N, w
<1> QED BY <1>6, <1>7, <1>8, <1>9, <1>10, <1>11 DEF IInv

\* A packet sent again keeps the invariant.
LEMMA ResendKeeps ==
  ASSUME IInv, NEW n \in DOMAIN stream, Resend(n) PROVE IInv'
<1>1. UNCHANGED <<accepted, outVars, inVars>> /\ net' \subseteq net \cup {Data(n)}
  BY Puts DEF Resend
<1>2. UNCHANGED <<accepted, commands, waiting, stream, queued, sent, window, phase, sender, inVars>>
  BY <1>1 DEF outVars
<1>3. n \in 1..Len(stream) /\ accepted \in Nat
  BY DEF IInv, Stream, Types
<1>4. Stream' /\ Delivered' /\ Numbered' = Numbered /\ Sender' /\ Receiver'
  BY <1>2, <1>3, SameStream, SameDelivered, SameSender, SameReceiver
<1>5. Network'
  BY <1>1, <1>2, <1>3, MoreData
<1>6. Types'
  BY <1>2 DEF IInv, Types, inVars
<1>7. Order'
  BY <1>2, <1>4 DEF IInv, Order
<1>8. AckedIsHeld'
  BY <1>2 DEF IInv, AckedIsHeld, inVars
<1> QED BY <1>4, <1>5, <1>6, <1>7, <1>8 DEF IInv

\* What deletePeer clears.
LEMMA DeleteKeeps ==
  ASSUME IInv, DeletePeer, UNCHANGED <<accepted, stream>>
  PROVE  Order' /\ Sender' /\ AckedIsHeld' /\ waiting' \in Seq(Nat) /\ Range(waiting') = {}
<1>1. sender' = "gone" /\ waiting' = <<>> /\ queued' = <<>> /\ sent' = <<>>
  BY DEF DeletePeer
<1>2. Order' /\ AckedIsHeld' /\ waiting' \in Seq(Nat) /\ Range(waiting') = {}
  BY <1>1, EmptyList DEF Order, AckedIsHeld
<1>3. Len(stream) \in Nat
  BY DEF IInv, Stream
<1>4. /\ queued' \in Seq(Int) /\ Len(queued') = 0 /\ sent' \in Seq(Int) /\ Ascending(sent')
      /\ Range(sent') = {} /\ stream' = stream
  BY <1>1, EmptyList
<1>5. /\ InQueue(stream, queued') = {} /\ Overtaking(stream, queued') = {}
      /\ Cardinality({}) = 0 /\ 0 <= RecvWindow - 1 - MaxOvertaking /\ 0 <= MaxOvertaking
      /\ Range(queued') = {} /\ Ascending(queued')
  BY <1>1, EmptyList, FS_EmptySet, Sending, Circle DEF InQueue, Overtaking
<1>6. Queue'
  BY <1>4, <1>5 DEF IInv, Sender, Queue
<1>7. Sender'
  BY <1>4, <1>5, <1>6 DEF Sender
<1> QED BY <1>2, <1>7

\* A peer that is given up keeps the invariant.
LEMMA TimeOutKeeps ==
  ASSUME IInv, PeerLost PROVE IInv'
<1>1. DeletePeer /\ UNCHANGED <<accepted, commands, stream, window, phase, net, inVars>>
  BY DEF PeerLost
<1>2. accepted \in Nat /\ sender' = "gone"
  BY <1>1 DEF IInv, Types, DeletePeer
<1>3. Stream' /\ Delivered' /\ Receiver' /\ Network'
  BY <1>1, <1>2, SameStream, SameDelivered, SameReceiver, LessNet
<1>4. Order' /\ Sender' /\ AckedIsHeld' /\ waiting' \in Seq(Nat) /\ Range(waiting') = {}
  BY <1>1, DeleteKeeps
<1>5. Types'
  BY <1>1, <1>2, <1>4 DEF IInv, Types, inVars
<1> QED BY <1>3, <1>4, <1>5 DEF IInv

\* The end of the sender's loop keeps the invariant.
LEMMA LoopDoneKeeps ==
  ASSUME IInv, LoopDone PROVE IInv'
<1>1. /\ UNCHANGED <<accepted, commands, stream, inVars>> /\ phase' = "timeouts"
      /\ window' \in IF sender = "gone" THEN {window} ELSE Windows
  BY DEF LoopDone
<1>2. accepted \in Nat /\ window' \in Windows
  BY <1>1 DEF IInv, Types
<1>3. Stream' /\ Delivered' /\ Receiver' /\ Numbered' = Numbered
  BY <1>1, <1>2, SameStream, SameDelivered, SameReceiver
<1>4. CASE sender = "pending" /\ DeletePeer /\ net' \in Put(net, DiscoPacket)
  <2>1. net' \subseteq net \cup {DiscoPacket} /\ sender' = "gone"
    BY <1>4, Puts DEF DeletePeer
  <2>2. Network'
    BY <1>1, <2>1, LessNet
  <2>3. Order' /\ Sender' /\ AckedIsHeld' /\ waiting' \in Seq(Nat) /\ Range(waiting') = {}
    BY <1>1, <1>4, DeleteKeeps
  <2>4. Types'
    BY <1>1, <1>2, <2>1, <2>3 DEF IInv, Types, inVars
  <2> QED BY <1>3, <2>2, <2>3, <2>4 DEF IInv
<1>5. CASE UNCHANGED <<sender, waiting, queued, sent, net>>
  <2>1. Sender' /\ Network'
    BY <1>1, <1>5, SameSender, LessNet
  <2>2. Order' /\ AckedIsHeld'
    BY <1>1, <1>3, <1>5 DEF IInv, Order, AckedIsHeld, inVars
  <2>3. Types'
    BY <1>1, <1>2, <1>5 DEF IInv, Types, inVars
  <2> QED BY <1>3, <2>1, <2>2, <2>3 DEF IInv
<1> QED BY <1>4, <1>5 DEF LoopDone

\* The end of the commands keeps the invariant.
LEMMA CommandsDoneKeeps ==
  ASSUME IInv, CommandsDone PROVE IInv'
<1>1. /\ phase' = "send"
      /\ UNCHANGED <<accepted, commands, waiting, stream, queued, sent, window, sender, net, inVars>>
  BY DEF CommandsDone
<1>2. accepted \in Nat
  BY DEF IInv, Types
<1>3. Stream' /\ Delivered' /\ Numbered' = Numbered /\ Sender' /\ Receiver' /\ Network'
  BY <1>1, <1>2, SameStream, SameDelivered, SameSender, SameReceiver, LessNet
<1>4. Types' /\ Order' /\ AckedIsHeld'
  BY <1>1, <1>3 DEF IInv, Types, Order, AckedIsHeld, inVars
<1> QED BY <1>3, <1>4 DEF IInv

\* disconnect_peer keeps the invariant.
LEMMA HandleDisconnectKeeps ==
  ASSUME IInv, HandleDisconnect PROVE IInv'
<1>1. /\ commands' = Tail(commands) /\ commands # <<>>
      /\ sender' = IF sender = "open" THEN "pending" ELSE sender
      /\ UNCHANGED <<accepted, waiting, stream, queued, sent, window, phase, net, inVars>>
  BY DEF HandleDisconnect
<1>2. accepted \in Nat /\ commands \in Seq(Nat) /\ Range(commands) \subseteq 0..accepted
  BY DEF IInv, Types
<1>3. Stream' /\ Delivered' /\ Sender' /\ Receiver' /\ Network'
  BY <1>1, <1>2, SameStream, SameDelivered, SameSender, SameReceiver, LessNet
<1>4. commands' \in Seq(Nat) /\ Range(commands') \subseteq 0..accepted
  BY <1>1, <1>2, TailRange
<1>5. sender' # "open" /\ sender' \in {"open", "pending", "gone"} /\ (sender' # "gone" => sender # "gone")
  BY <1>1 DEF IInv, Types
<1>6. Types'
  BY <1>1, <1>2, <1>4, <1>5 DEF IInv, Types, inVars
<1>7. Order' /\ AckedIsHeld'
  BY <1>1, <1>5 DEF IInv, Order, AckedIsHeld, inVars
<1> QED BY <1>3, <1>6, <1>7 DEF IInv

\* A lost packet keeps the invariant.
LEMMA LoseKeeps ==
  ASSUME IInv, NEW p \in net, Lose(p) PROVE IInv'
<1>1. /\ net' \subseteq net
      /\ UNCHANGED <<accepted, commands, waiting, stream, queued, sent, window, phase, sender, inVars>>
  BY DEF Lose, outVars
<1>2. accepted \in Nat
  BY DEF IInv, Types
<1>3. Stream' /\ Delivered' /\ Numbered' = Numbered /\ Sender' /\ Receiver' /\ Network'
  BY <1>1, <1>2, SameStream, SameDelivered, SameSender, SameReceiver, LessNet
<1>4. Types' /\ Order' /\ AckedIsHeld'
  BY <1>1, <1>3 DEF IInv, Types, Order, AckedIsHeld, inVars
<1> QED BY <1>3, <1>4 DEF IInv

\* A receiver that goes keeps the invariant.
LEMMA ForgetPeerKeeps ==
  ASSUME IInv, ForgetPeer, UNCHANGED <<accepted, outVars, nextIn, delivered>>, net' \subseteq net
  PROVE  IInv'
<1>1. /\ receiver' = "gone" /\ incoming' = <<>> /\ chunks' = {}
      /\ UNCHANGED <<accepted, commands, waiting, stream, queued, sent, window, phase, sender, nextIn, delivered>>
  BY DEF ForgetPeer, outVars
<1>2. accepted \in Nat
  BY DEF IInv, Types
<1>3. Stream' /\ Numbered' = Numbered /\ Sender'
  BY <1>1, <1>2, SameStream, SameSender
<1>4. Types' /\ Order' /\ AckedIsHeld'
  BY <1>1, <1>3 DEF IInv, Types, Order, AckedIsHeld
<1>5. incoming' \in Seq(Int) /\ Ascending(incoming') /\ Range(incoming') = {}
  BY <1>1, EmptyList
<1>6. Receiver'
  BY <1>1, <1>5 DEF IInv, Receiver, nextOut
<1>7. Network'
  BY <1>1 DEF IInv, Network
<1>8. Delivered'
  BY <1>1, FS_EmptySet DEF IInv, Delivered
<1> QED BY <1>3, <1>4, <1>6, <1>7, <1>8 DEF IInv

\* An ACK keeps the invariant: the packet it removes is held by the receiver.
LEMMA ReceiveAckKeeps ==
  ASSUME IInv, NEW n \in DOMAIN stream, ReceiveAck(n) PROVE IInv'
<1> DEFINE k == Len(stream)
<1>1. /\ Ack(n) \in net /\ sender # "gone" /\ nextOut - n <= RecvWindow
      /\ sent' = Without(sent, Wire(n)) /\ net' \subseteq net
      /\ UNCHANGED <<accepted, commands, waiting, stream, queued, window, phase, sender, inVars>>
  BY Puts DEF ReceiveAck, Fresh
<1>2. /\ accepted \in Nat /\ k \in Nat /\ n \in 1..k /\ nextOut = k + 1
      /\ sent \in Seq(Int) /\ Ascending(sent)
  BY DEF IInv, Types, Stream, Sender, nextOut
<1> HIDE DEF k
<1>3. ASSUME NEW i \in 1..Len(sent) PROVE -SeqNums < n - sent[i] /\ n - sent[i] < SeqNums
  <2>1. sent[i] \in Range(sent) /\ sent[i] \in Int
    BY <1>2, RangeOfList DEF Elements
  <2>2. sent[i] <= k /\ k + 1 - sent[i] <= RecvWindow - 1
    BY <1>2, <2>1 DEF IInv, Sender, k
  <2> QED BY <1>1, <1>2, <2>1, <2>2, Circle
<1>4. sent' \in Seq(Int) /\ Ascending(sent') /\ Range(sent') = Range(sent) \ {n}
  <2>1. n \in Int
    BY <1>2
  <2> QED BY <1>1, <1>2, <1>3, <2>1, WithoutRemoves
<1>5. Stream' /\ Delivered' /\ Numbered' = Numbered /\ Receiver' /\ Network'
  BY <1>1, <1>2, SameStream, SameDelivered, SameReceiver, LessNet
<1>6. Types' /\ Order'
  BY <1>1, <1>5 DEF IInv, Types, Order, inVars
<1>7. Sender'
  BY <1>1, <1>4 DEF IInv, Sender, Queue, nextOut
<1>8. AckedIsHeld'
  <2>1. receiver = "open" => n < nextIn \/ n \in Range(incoming)
    BY <1>1, <1>2 DEF IInv, Network, k
  <2> QED BY <1>1, <1>4, <2>1 DEF IInv, AckedIsHeld, inVars
<1> QED BY <1>5, <1>6, <1>7, <1>8 DEF IInv

-----------------------------------------------------------------------------
(* The queues of messages.                                                 *)

\* The head and the tail are all of a sequence.
LEMMA TailCovers ==
  ASSUME NEW A, NEW s \in Seq(A), s # <<>>
  PROVE  Range(s) = Range(Tail(s)) \cup {Head(s)}
<1> DEFINE r == Tail(s)
           c == Len(s)
<1>1. /\ r \in Seq(A) /\ Len(r) = c - 1 /\ c \in Nat /\ c >= 1
      /\ Range(r) \subseteq Range(s) /\ Head(s) \in Range(s) /\ Head(s) = s[1]
      /\ \A i \in 1..(c - 1) : r[i] = s[i + 1]
  BY TailRange
<1>2. Range(s) = Elements(s) /\ Range(r) = Elements(r)
  BY <1>1, RangeOfList
<1>3. c = Len(s)
  OBVIOUS
<1> HIDE DEF r, c
<1>4. ASSUME NEW x \in Elements(s) PROVE x \in Elements(r) \cup {s[1]}
  <2>1. PICK i \in 1..c : x = s[i]
    BY <1>3, <1>4 DEF Elements
  <2>2. CASE i = 1
    BY <2>1, <2>2
  <2>3. CASE i # 1
    <3>1. i - 1 \in 1..(c - 1) /\ (i - 1) + 1 = i
      BY <1>1, <2>1, <2>3
    <3>2. r[i - 1] = x /\ i - 1 \in 1..Len(r)
      BY <1>1, <2>1, <3>1
    <3> QED BY <3>2 DEF Elements
  <2> QED BY <2>2, <2>3
<1> QED BY <1>1, <1>2, <1>4 DEF r

\* The first message to get numbers is the one after those that have them.
LEMMA FirstWaiting ==
  ASSUME IInv, sender = "open", waiting # <<>>
  PROVE  /\ Head(waiting) = Numbered + 1 /\ Head(waiting) \in DOMAIN Sizes
         /\ Head(waiting) <= accepted
<1>1. /\ waiting \in Seq(Nat) /\ Range(waiting) \subseteq 1..accepted
      /\ accepted \in Nat /\ accepted <= Len(Sizes)
  BY DEF IInv, Types
<1>2. Head(waiting) \in Range(waiting) /\ Head(waiting) = waiting[1] /\ 1 \in 1..Len(waiting)
  BY <1>1, TailRange
<1>3. Head(waiting) = Numbered + 1
  BY <1>2 DEF IInv, Order
<1>4. DOMAIN Sizes = 1..Len(Sizes) /\ Len(Sizes) \in Nat
  BY Sending
<1> QED BY <1>1, <1>2, <1>3, <1>4

\* A message in the command queue comes after those that wait.
LEMMA FirstCommand ==
  ASSUME IInv, commands # <<>>, Head(commands) # Disco
  PROVE  /\ Head(commands) \in DOMAIN Sizes /\ Head(commands) \in 1..accepted
         /\ sender = "open" => Head(commands) = Numbered + Len(waiting) + 1
<1>1. /\ commands \in Seq(Nat) /\ Range(commands) \subseteq 0..accepted
      /\ accepted \in Nat /\ accepted <= Len(Sizes)
  BY DEF IInv, Types
<1>2. Head(commands) \in Range(commands) /\ Head(commands) = commands[1] /\ 1 \in 1..Len(commands)
  BY <1>1, TailRange
<1>3. \A j \in 1..1 : commands[j] # Disco
  BY <1>2
<1>4. sender = "open" => Head(commands) = Numbered + Len(waiting) + 1
  BY <1>2, <1>3 DEF IInv, Order
<1>5. DOMAIN Sizes = 1..Len(Sizes) /\ Len(Sizes) \in Nat
  BY Sending
<1> QED BY <1>1, <1>2, <1>4, <1>5 DEF Disco

\* The order of the messages after the first command was taken.
LEMMA CommandTaken ==
  ASSUME IInv, commands # <<>>, Head(commands) # Disco, sender = "open",
         commands' = Tail(commands), sender' = "open", accepted' = accepted,
         Numbered' + Len(waiting') = Numbered + Len(waiting) + 1,
         Numbered' + Len(waiting') \in Nat,
         \A i \in 1..Len(waiting') : waiting'[i] = Numbered' + i
  PROVE  Order'
<1> DEFINE c == Len(commands)
           t == Numbered + Len(waiting)
           u == Numbered' + Len(waiting')
           r == Tail(commands)
<1>1. /\ commands \in Seq(Nat) /\ r \in Seq(Nat) /\ Len(r) = c - 1
      /\ c \in Nat /\ c >= 1 /\ Head(commands) = commands[1]
      /\ Range(commands) = Range(r) \cup {Head(commands)}
      /\ \A i \in 1..(c - 1) : r[i] = commands[i + 1]
  <2>1. commands \in Seq(Nat)
    BY DEF IInv, Types
  <2> QED BY <2>1, TailRange, TailCovers
<1>2. t \in Nat /\ u = t + 1
  <2>1. Len(waiting) \in Nat
    BY DEF IInv, Types
  <2> QED BY <2>1, NumberedType
<1>3. /\ \A i \in 1..c : (\A j \in 1..i : commands[j] # Disco) => commands[i] = t + i
      /\ Disco \notin Range(commands) => accepted = t + c
  BY DEF IInv, Order
<1> HIDE DEF c, t, u, r
<1>4. Disco \notin Range(r) => accepted = u + (c - 1)
  BY <1>1, <1>2, <1>3
<1>5. ASSUME NEW i \in 1..(c - 1), \A j \in 1..i : r[j] # Disco PROVE r[i] = u + i
  <2>1. ASSUME NEW j \in 1..(i + 1) PROVE commands[j] # Disco
    <3>1. CASE j = 1
      BY <1>1, <3>1
    <3>2. CASE j # 1
      <4>1. j - 1 \in 1..i /\ j - 1 \in 1..(c - 1) /\ (j - 1) + 1 = j
        BY <1>1, <3>2
      <4> QED BY <1>1, <1>5, <4>1
    <3> QED BY <3>1, <3>2
  <2>2. i + 1 \in 1..c
    BY <1>1
  <2>3. commands[i + 1] = t + (i + 1) /\ r[i] = commands[i + 1]
    BY <1>1, <1>3, <2>1, <2>2
  <2> QED BY <1>2, <2>3
<1> QED BY <1>1, <1>4, <1>5 DEF Order, u, r

\* PutReliableSendCommand keeps the invariant.
LEMMA HandleSendKeeps ==
  ASSUME IInv, HandleSend PROVE IInv'
<1> DEFINE m == Head(commands)
<1>1. /\ commands # <<>> /\ m # Disco /\ commands' = Tail(commands)
      /\ UNCHANGED <<accepted, sent, window, phase, sender, net, inVars>>
  BY DEF HandleSend
<1>2. m \in DOMAIN Sizes /\ m \in 1..accepted /\ (sender = "open" => m = Numbered + Len(waiting) + 1)
  BY <1>1, FirstCommand
<1>3. /\ accepted \in Nat /\ commands \in Seq(Nat) /\ Range(commands) \subseteq 0..accepted
      /\ waiting \in Seq(Nat) /\ Range(waiting) \subseteq 1..accepted /\ Len(waiting) \in Nat
      /\ Numbered \in Nat
  BY NumberedType DEF IInv, Types
<1>4. commands' \in Seq(Nat) /\ Range(commands') \subseteq 0..accepted
  BY <1>1, <1>3, TailRange
<1>5. ASSUME UNCHANGED <<stream, queued>>
      PROVE  Stream' /\ Numbered' = Numbered /\ Sender' /\ Receiver' /\ Network' /\ Delivered'
             /\ AckedIsHeld'
  <2>1. Stream' /\ Delivered' /\ Numbered' = Numbered /\ Sender' /\ Receiver' /\ Network'
    BY <1>1, <1>3, <1>5, SameStream, SameDelivered, SameSender, SameReceiver, LessNet
  <2>2. AckedIsHeld'
    BY <1>1, <1>5 DEF IInv, AckedIsHeld, inVars
  <2> QED BY <2>1, <2>2
<1>6. ASSUME waiting' \in Seq(Nat), Range(waiting') \subseteq 1..accepted PROVE Types'
  BY <1>1, <1>3, <1>4, <1>6 DEF IInv, Types, inVars
<1> HIDE DEF m
<1>7. CASE sender # "open"
  <2>1. UNCHANGED <<stream, queued, waiting>>
    BY <1>7 DEF HandleSend
  <2>2. Order'
    BY <1>1, <1>7 DEF Order
  <2> QED BY <1>3, <1>5, <1>6, <2>1, <2>2 DEF IInv
<1>8. CASE sender = "open" /\ waiting = <<>> /\ Len(queued) + 1 < window \div 2 /\ EnoughNumbers(m)
  <2>1. Process(m) /\ waiting' = waiting
    BY <1>8 DEF HandleSend, m
  <2>2. Len(queued) + Sizes[m] <= RecvWindow - 1 - MaxOvertaking
    <3>1. Len(queued) \in Nat /\ window \in Windows /\ MaxOvertaking \in Nat
      BY Sending DEF IInv, Types, Sender, Queue
    <3>2. /\ window \div 2 \in Int /\ window \div 2 + Sizes[m] + MaxOvertaking <= RecvWindow + 1
          /\ Sizes[m] \in Nat
      BY <1>2, <3>1, SizeOf
    <3> QED BY <1>8, <3>1, <3>2, Circle
  <2>3. m = Numbered + 1 /\ m <= accepted /\ Len(waiting) = 0
    BY <1>2, <1>3, <1>8
  <2>4. UNCHANGED <<accepted, sent, sender, net, inVars>>
    BY <1>1
  <2>5. Stream' /\ Sender' /\ Receiver' /\ Network' /\ Delivered' /\ AckedIsHeld' /\ Numbered' = m
    BY <1>2, <1>8, <2>1, <2>2, <2>3, <2>4, ProcessKeeps
  <2>6. Order'
    <3>1. \A i \in 1..Len(waiting') : waiting'[i] = Numbered' + i
      BY <2>1, <2>3
    <3>2. Numbered' + Len(waiting') = Numbered + Len(waiting) + 1 /\ Numbered' + Len(waiting') \in Nat
      BY <1>3, <2>1, <2>3, <2>5
    <3> QED BY <1>1, <1>8, <3>1, <3>2, CommandTaken DEF m
  <2> QED BY <1>3, <1>6, <2>1, <2>5, <2>6 DEF IInv
<1>9. CASE /\ sender = "open"
           /\ ~(waiting = <<>> /\ Len(queued) + 1 < window \div 2 /\ EnoughNumbers(m))
  <2>1. waiting' = Append(waiting, m) /\ UNCHANGED <<stream, queued>>
    BY <1>9 DEF HandleSend, m
  <2>2. m \in Nat
    BY <1>2
  <2>3. /\ waiting' \in Seq(Nat) /\ Range(waiting') = Range(waiting) \cup {m}
        /\ Len(waiting') = Len(waiting) + 1 /\ waiting'[Len(waiting) + 1] = m
        /\ \A i \in 1..Len(waiting) : waiting'[i] = waiting[i]
    BY <1>3, <2>1, <2>2, AppendRange
  <2>4. Order'
    <3> DEFINE w == Len(waiting)
    <3>1. \A i \in 1..w : waiting[i] = Numbered + i
      BY <1>9 DEF IInv, Order
    <3>2. Numbered' = Numbered
      BY <1>5, <2>1
    <3> HIDE DEF w
    <3>3. \A i \in 1..(w + 1) : waiting'[i] = Numbered' + i
      <4>1. w \in Nat /\ w = Len(waiting) /\ m = Numbered + w + 1
        BY <1>2, <1>3, <1>9 DEF w
      <4> SUFFICES ASSUME NEW i \in 1..(w + 1) PROVE waiting'[i] = Numbered + i
        BY <3>2
      <4>2. CASE i = w + 1
        BY <1>3, <2>3, <4>1, <4>2
      <4>3. CASE i # w + 1
        <5>1. i \in 1..w
          BY <4>1, <4>3
        <5> QED BY <2>3, <3>1, <4>1, <5>1
      <4> QED BY <4>2, <4>3
    <3>4. Numbered' + Len(waiting') = Numbered + Len(waiting) + 1 /\ Numbered' + Len(waiting') \in Nat
      BY <1>3, <2>3, <3>2
    <3> QED BY <1>1, <1>9, <2>3, <3>3, <3>4, CommandTaken DEF m, w
  <2> QED BY <1>2, <1>3, <1>5, <1>6, <2>1, <2>3, <2>4 DEF IInv
<1> QED BY <1>7, <1>8, <1>9

\* RunCommandQueues keeps the invariant.
LEMMA RunCommandQueueKeeps ==
  ASSUME IInv, RunCommandQueue PROVE IInv'
<1> DEFINE m == Head(waiting)
           due == waiting # <<>> /\ Len(queued) < Requeue
<1>1. /\ phase' = "commands"
      /\ UNCHANGED <<accepted, commands, sent, window, sender, net, inVars>>
  BY DEF RunCommandQueue
<1>2. /\ accepted \in Nat /\ waiting \in Seq(Nat) /\ Range(waiting) \subseteq 1..accepted
      /\ Numbered \in Nat
  BY NumberedType DEF IInv, Types
<1>3. ASSUME UNCHANGED <<stream, queued>>
      PROVE  Stream' /\ Numbered' = Numbered /\ Sender' /\ Receiver' /\ Network' /\ Delivered'
             /\ AckedIsHeld'
  <2>1. Stream' /\ Delivered' /\ Numbered' = Numbered /\ Sender' /\ Receiver' /\ Network'
    BY <1>1, <1>2, <1>3, SameStream, SameDelivered, SameSender, SameReceiver, LessNet
  <2>2. AckedIsHeld'
    BY <1>1, <1>3 DEF IInv, AckedIsHeld, inVars
  <2> QED BY <2>1, <2>2
<1>4. ASSUME waiting' \in Seq(Nat), Range(waiting') \subseteq 1..accepted PROVE Types'
  BY <1>1, <1>2, <1>4 DEF IInv, Types, inVars
<1>5. CASE due /\ sender = "open" /\ EnoughNumbers(m)
  <2>1. Process(m) /\ waiting' = Tail(waiting)
    BY <1>5 DEF RunCommandQueue
  <2>2. m = Numbered + 1 /\ m \in DOMAIN Sizes /\ m <= accepted
    BY <1>5, FirstWaiting
  <2>3. Len(queued) + Sizes[m] <= RecvWindow - 1 - MaxOvertaking
    <3>1. Len(queued) \in Nat /\ Len(queued) < Requeue
      BY <1>5 DEF IInv, Sender, Queue
    <3>2. Requeue + Sizes[m] + MaxOvertaking <= RecvWindow /\ Sizes[m] \in Nat
      BY <2>2, SizeOf
    <3> QED BY <3>1, <3>2, Circle, Sending
  <2>4. UNCHANGED <<accepted, sent, sender, net, inVars>>
    BY <1>1
  <2>5. Stream' /\ Sender' /\ Receiver' /\ Network' /\ Delivered' /\ AckedIsHeld' /\ Numbered' = m
    BY <1>5, <2>1, <2>2, <2>3, <2>4, ProcessKeeps
  <2>6. /\ waiting' \in Seq(Nat) /\ Range(waiting') \subseteq Range(waiting)
        /\ Len(waiting') = Len(waiting) - 1 /\ Len(waiting) \in Nat
        /\ \A i \in 1..(Len(waiting) - 1) : waiting'[i] = waiting[i + 1]
    BY <1>2, <1>5, <2>1, TailRange
  <2>7. Types'
    BY <1>2, <1>4, <2>6
  <2>8. Order'
    <3> DEFINE w == Len(waiting)
               N == Numbered
               c == Len(commands)
    <3>1. /\ \A i \in 1..w : waiting[i] = N + i
          /\ \A i \in 1..c : (\A j \in 1..i : commands[j] # Disco) => commands[i] = N + w + i
          /\ Disco \notin Range(commands) => accepted = N + w + c
      BY <1>5 DEF IInv, Order
    <3>2. /\ w \in Nat /\ N \in Nat /\ Numbered' = N + 1 /\ Len(waiting') = w - 1
          /\ \A i \in 1..(w - 1) : waiting'[i] = waiting[i + 1]
          /\ c \in Nat /\ Len(commands') = c /\ commands' = commands /\ sender' = "open"
          /\ accepted' = accepted
      <4>1. commands \in Seq(Nat)
        BY DEF IInv, Types
      <4> QED BY <1>1, <1>2, <1>5, <2>2, <2>5, <2>6, <4>1
    <3> HIDE DEF w, N, c, m
    <3>3. ASSUME NEW i \in 1..(w - 1) PROVE waiting'[i] = (N + 1) + i
      <4>1. i + 1 \in 1..w
        BY <3>2
      <4> QED BY <3>1, <3>2, <4>1
    <3>4. ASSUME NEW i \in 1..c PROVE N + w + i = (N + 1) + (w - 1) + i
      BY <3>2
    <3>5. Disco \notin Range(commands) => accepted = (N + 1) + (w - 1) + c
      BY <3>1, <3>2
    <3> QED BY <3>1, <3>2, <3>3, <3>4, <3>5 DEF Order
  <2> QED BY <2>5, <2>7, <2>8 DEF IInv
<1>6. CASE due /\ sender = "pending"
  <2>1. waiting' = Tail(waiting) /\ UNCHANGED <<stream, queued>>
    BY <1>6 DEF RunCommandQueue
  <2>2. waiting' \in Seq(Nat) /\ Range(waiting') \subseteq Range(waiting)
    BY <1>2, <1>6, <2>1, TailRange
  <2>3. Order'
    BY <1>1, <1>6 DEF Order
  <2> QED BY <1>2, <1>3, <1>4, <2>1, <2>2, <2>3 DEF IInv
<1>7. CASE ~(due /\ sender = "open" /\ EnoughNumbers(m)) /\ ~(due /\ sender = "pending")
  <2>1. UNCHANGED <<stream, queued, waiting>>
    BY <1>7 DEF RunCommandQueue
  <2>2. Order'
    BY <1>1, <1>3, <2>1 DEF IInv, Order
  <2> QED BY <1>2, <1>3, <1>4, <2>1, <2>2 DEF IInv
<1> QED BY <1>5, <1>6, <1>7

-----------------------------------------------------------------------------
(* The wire.                                                               *)

\* insert is called with the number RecvWindow ahead, which on the circle is
\* the one RecvWindow behind.
LEMMA WirePeriod ==
  ASSUME NEW b \in Int PROVE Wire(b + RecvWindow) = Wire(b - RecvWindow)
<1> DEFINE a == SeqInitial + (b - RecvWindow) - 1
           q == a \div SeqNums
           r == a % SeqNums
<1>1. a \in Int /\ SeqInitial + (b + RecvWindow) - 1 = a + SeqNums
  BY Circle
<1>2. r \in 0..(SeqNums - 1) /\ q \in Int /\ a = SeqNums * q + r
  BY <1>1, Circle, Quotient
<1>3. Wire(b - RecvWindow) = r /\ Wire(b + RecvWindow) = (a + SeqNums) % SeqNums
  BY <1>1 DEF Wire
<1> HIDE DEF a, q, r
<1>4. SeqNums * (q + 1) = SeqNums * q + SeqNums
  BY <1>2, Circle
<1>5. a + SeqNums = SeqNums * (q + 1) + r /\ q + 1 \in Int
  BY <1>2, <1>4, Circle
<1>6. (a + SeqNums) % SeqNums = r
  BY <1>2, <1>5, Circle, Residue
<1> QED BY <1>3, <1>6

\* A round of sendPackets keeps the invariant.
LEMMA SendQueuedKeeps ==
  ASSUME IInv, SendQueued PROVE IInv'
<1> DEFINE k == Len(stream)
           h == Head(queued)
           b == k + 1 - RecvWindow
<1>1. /\ sender # "gone" /\ queued # <<>> /\ queued' = Tail(queued) /\ phase' = "sending"
      /\ sent' = Insert(sent, h, Wire(nextOut + RecvWindow)) /\ net' \subseteq net \cup {Data(h)}
      /\ UNCHANGED <<accepted, commands, waiting, stream, window, sender, inVars>>
  BY Puts DEF SendQueued, SendNow
<1>2. /\ accepted \in Nat /\ k \in Nat /\ nextOut = k + 1 /\ Queue
      /\ queued \in Seq(Int) /\ Ascending(queued)
      /\ sent \in Seq(Int) /\ Ascending(sent)
  BY DEF IInv, Types, Stream, nextOut, Sender, Queue
<1>13. \A n \in Range(queued) \cup Range(sent) :
         n \in Int /\ n >= 1 /\ n <= k /\ k + 1 - n <= RecvWindow - 1
  <2>1. Range(queued) \subseteq Int /\ Range(sent) \subseteq Int
    BY <1>2, RangeOfList
  <2> QED BY <2>1 DEF IInv, Sender, nextOut
<1>3. /\ queued' \in Seq(Int) /\ Ascending(queued') /\ h \in Range(queued)
      /\ Range(queued') = Range(queued) \ {h} /\ \A n \in Range(queued) : h <= n
  BY <1>1, <1>2, TailOfSorted
<1> HIDE DEF k, h
<1>4. h \in Int /\ h \in 1..k /\ b < h /\ h < b + RecvWindow /\ b \in Int
  BY <1>2, <1>3, <1>13, Circle
<1>5. \A i \in 1..Len(sent) : b <= sent[i] /\ sent[i] < b + RecvWindow
  <2> SUFFICES ASSUME NEW i \in 1..Len(sent) PROVE b <= sent[i] /\ sent[i] < b + RecvWindow
    OBVIOUS
  <2>1. sent[i] \in Range(sent)
    BY <1>2, RangeOfList DEF Elements
  <2> QED BY <1>2, <1>13, <2>1, Circle
<1>6. sent' = Insert(sent, h, Wire(b))
  <2> DEFINE o == nextOut
  <2>1. o \in Int /\ b = o - RecvWindow
    BY <1>2, Circle
  <2>2. Wire(o + RecvWindow) = Wire(o - RecvWindow)
    BY <2>1, WirePeriod
  <2>3. sent' = Insert(sent, h, Wire(o + RecvWindow))
    BY <1>1
  <2> HIDE DEF b, o
  <2> QED BY <2>1, <2>2, <2>3
<1> HIDE DEF b
<1>7. sent' \in Seq(Int) /\ Ascending(sent') /\ Range(sent') = Range(sent) \cup {h}
  BY <1>2, <1>4, <1>5, <1>6, InsertSorts
<1>8. Stream' /\ Delivered' /\ Numbered' = Numbered /\ Receiver'
  BY <1>1, <1>2, SameStream, SameDelivered, SameReceiver
<1>9. Network'
  <2>1. net' \subseteq net \cup {Data(h), DiscoPacket} /\ UNCHANGED <<stream, inVars>>
    BY <1>1
  <2> QED BY <1>4, <2>1, MoreData DEF k
<1>10. Types' /\ Order'
  BY <1>1, <1>8 DEF IInv, Types, Order, inVars
<1>11. Queue'
  <2>1. /\ Cardinality(InQueue(stream, queued')) \in Nat
        /\ Cardinality(InQueue(stream, queued')) <= Cardinality(InQueue(stream, queued))
        /\ Cardinality(InQueue(stream, queued)) \in Nat
    <3>1. IsFiniteSet(Range(queued)) /\ InQueue(stream, queued) \subseteq Range(queued)
      BY <1>2, RangeCount DEF InQueue
    <3>2. IsFiniteSet(InQueue(stream, queued))
      BY <3>1, FS_Subset
    <3>3. InQueue(stream, queued') \subseteq InQueue(stream, queued)
      BY <1>3 DEF InQueue
    <3> QED BY <3>2, <3>3, FS_Subset, FS_CardinalityType
  <2>2. Cardinality(InQueue(stream, queued')) <= RecvWindow - 1 - MaxOvertaking
    BY <1>2, <2>1, Sending, Circle DEF Queue
  <2>3. ASSUME NEW n \in Range(queued'), NEW m \in n..k
        PROVE  m \in Range(queued') \cup Pings(stream)
    <3>1. n \in Range(queued) /\ n \in Int /\ h <= n /\ h # n
      BY <1>3, <1>13
    <3>2. m \in Range(queued) \cup Pings(stream)
      BY <1>2, <2>3, <3>1 DEF Queue, k
    <3>3. m # h
      BY <1>4, <2>3, <3>1
    <3> QED BY <1>3, <3>2, <3>3
  <2>4. stream' = stream /\ Len(stream') = k
    BY <1>1, <1>2 DEF k
  <2>5. Cardinality(Overtaking(stream, queued')) <= MaxOvertaking
    <3>1. Overtaking(stream, queued') \subseteq Overtaking(stream, queued)
      BY <1>3 DEF Overtaking
    <3>2. Overtaking(stream, queued) \subseteq 1..k /\ IsFiniteSet(1..k)
      <4>1. stream \in Seq(Packet)
        BY DEF IInv, Stream
      <4>2. DOMAIN stream = 1..k /\ k \in Nat
        BY <4>1 DEF k
      <4> QED BY <4>2, FS_Interval DEF Overtaking
    <3>3. /\ Cardinality(Overtaking(stream, queued')) \in Nat
          /\ Cardinality(Overtaking(stream, queued)) \in Nat
          /\ Cardinality(Overtaking(stream, queued')) <= Cardinality(Overtaking(stream, queued))
      BY <3>1, <3>2, FS_Subset, FS_CardinalityType
    <3> QED BY <1>2, <3>3, Sending DEF Queue
  <2> QED BY <1>3, <2>2, <2>3, <2>4, <2>5 DEF Queue
<1>14. Sender'
  <2>1. \A n \in Range(queued') \cup Range(sent') : n \in Range(queued) \cup Range(sent)
    BY <1>3, <1>7
  <2>2. Len(stream') = k /\ nextOut' = k + 1
    BY <1>1 DEF k, nextOut
  <2>3. \A n \in Range(queued') \cup Range(sent') :
          n >= 1 /\ n <= Len(stream') /\ nextOut' - n <= RecvWindow - 1
    BY <1>13, <2>1, <2>2
  <2> QED BY <1>7, <1>11, <2>3 DEF Sender
<1>12. AckedIsHeld'
  BY <1>1, <1>3, <1>7 DEF IInv, AckedIsHeld, inVars
<1> QED BY <1>8, <1>9, <1>10, <1>12, <1>14 DEF IInv

\* A ping keeps the invariant, whether it is sent before the packets that are
\* queued or queued behind them.
LEMMA SendPingKeeps ==
  ASSUME IInv, SendPing PROVE IInv'
<1> DEFINE k == Len(stream)
           b == k + 2 - RecvWindow
<1>1. /\ sender # "gone" /\ Cardinality(Overtaking(stream, queued)) < MaxOvertaking
      /\ MayTake(k, sent) /\ stream' = Append(stream, Ping) /\ phase' = "requeue"
      /\ UNCHANGED <<accepted, commands, waiting, window, sender, inVars>>
      /\ \/ /\ sent' = Insert(sent, nextOut, Wire((nextOut + 1) + RecvWindow))
            /\ net' \subseteq net \cup {Data(nextOut)} /\ queued' = queued
         \/ queued' = Append(queued, nextOut) /\ UNCHANGED <<sent, net>>
  BY Puts DEF SendPing, SendNow
<1>2. /\ accepted \in Nat /\ k \in Nat /\ nextOut = k + 1 /\ stream \in Seq(Packet)
      /\ Stream /\ Queue /\ Sender /\ AckedIsHeld
      /\ queued \in Seq(Int) /\ Ascending(queued)
      /\ sent \in Seq(Int) /\ Ascending(sent)
  BY DEF IInv, Types, Stream, nextOut, Sender, Queue
<1>3. \A n \in Range(queued) \cup Range(sent) :
         n \in Int /\ n >= 1 /\ n <= k /\ k + 1 - n <= RecvWindow - 1
  <2>1. Range(queued) \subseteq Int /\ Range(sent) \subseteq Int
    BY <1>2, RangeOfList
  <2> QED BY <2>1 DEF IInv, Sender, nextOut
<1>4. /\ stream' \in Seq(Packet) /\ Len(stream') = k + 1 /\ stream'[k + 1] = Ping
      /\ \A i \in 1..k : stream'[i] = stream[i]
  <2>1. Ping \in Packet
    BY DEF Ping, Packet
  <2> QED BY <1>1, <1>2, <2>1, AppendRange
<1>5. k = Len(stream)
  OBVIOUS
<1> HIDE DEF k
<1>6. \A n \in Range(sent) : k + 2 - n <= RecvWindow - 1
  <2> SUFFICES ASSUME NEW n \in Range(sent) PROVE k + 2 - n <= RecvWindow - 1
    OBVIOUS
  <2>1. sent # <<>>
    BY EmptyList
  <2>2. Head(sent) \in Range(sent) /\ Head(sent) <= n /\ Head(sent) \in Int
    BY <1>2, <1>3, <2>1, TailOfSorted
  <2>3. Head(sent) <= k /\ k - Head(sent) <= 2 * RecvWindow - 2
    BY <1>2, <1>3, <2>2, Circle
  <2>4. window \in Windows
    BY DEF IInv, Types
  <2>5. k + 1 - Head(sent) <= window + 1 /\ window + 3 <= RecvWindow /\ window \in Nat
    BY <1>1, <1>2, <2>1, <2>3, <2>4, MayTakeBounds, Sending
  <2> QED BY <1>2, <1>3, <2>2, <2>5, Circle
<1>7. /\ queued' \in Seq(Int) /\ Ascending(queued') /\ sent' \in Seq(Int) /\ Ascending(sent')
      /\ \/ queued' = queued /\ Range(sent') = Range(sent) \cup {k + 1}
         \/ Range(queued') = Range(queued) \cup {k + 1} /\ sent' = sent
  <2>1. CASE /\ sent' = Insert(sent, nextOut, Wire((nextOut + 1) + RecvWindow))
             /\ queued' = queued
    <3>1. b \in Int /\ k + 1 \in Int /\ b < k + 1 /\ k + 1 < b + RecvWindow
      BY <1>2, Circle
    <3>2. \A i \in 1..Len(sent) : b <= sent[i] /\ sent[i] < b + RecvWindow
      <4> SUFFICES ASSUME NEW i \in 1..Len(sent) PROVE b <= sent[i] /\ sent[i] < b + RecvWindow
        OBVIOUS
      <4>1. sent[i] \in Range(sent)
        BY <1>2, RangeOfList DEF Elements
      <4> QED BY <1>2, <1>3, <1>6, <4>1, Circle
    <3>3. sent' = Insert(sent, k + 1, Wire(b))
      <4> DEFINE o == (k + 1) + 1
      <4>1. o \in Int /\ b = o - RecvWindow
        BY <1>2, Circle
      <4>2. Wire(o + RecvWindow) = Wire(o - RecvWindow)
        BY <4>1, WirePeriod
      <4>3. sent' = Insert(sent, k + 1, Wire(o + RecvWindow))
        BY <1>2, <2>1
      <4> HIDE DEF b, o
      <4> QED BY <4>1, <4>2, <4>3
    <3> HIDE DEF b
    <3>4. sent' \in Seq(Int) /\ Ascending(sent') /\ Range(sent') = Range(sent) \cup {k + 1}
      BY <1>2, <3>1, <3>2, <3>3, InsertSorts
    <3> QED BY <1>2, <2>1, <3>4
  <2>2. CASE queued' = Append(queued, nextOut) /\ UNCHANGED <<sent, net>>
    <3> DEFINE c == Len(queued)
    <3>1. /\ queued' \in Seq(Int) /\ Len(queued') = c + 1
          /\ Range(queued') = Range(queued) \cup {k + 1}
          /\ (\A i \in 1..c : queued'[i] = queued[i]) /\ queued'[c + 1] = k + 1
      BY <1>2, <2>2, AppendRange
    <3>2. c \in Nat /\ c = Len(queued) /\ \A i \in 1..c : queued[i] \in Int /\ queued[i] < k + 1
      BY <1>2, <1>3, RangeOfList DEF Elements
    <3>3. k + 1 \in Int
      BY <1>2
    <3> HIDE DEF c
    <3>4. Ascending(queued')
      BY <1>2, <3>1, <3>2, <3>3, AppendShape
    <3> QED BY <1>2, <2>2, <3>1, <3>4
  <2> QED BY <1>1, <2>1, <2>2
<1>8. Stream' /\ Numbered' = Numbered
  <2>1. /\ \A i : \A n \in Int : n <= k => (IsLast(stream', i, n) <=> IsLast(stream, i, n))
        /\ \A i : \A n \in Int : n <= k /\ IsLast(stream, i, n) =>
             i \in 0..n /\ At(stream', i) = At(stream, i)
    <3> SUFFICES ASSUME NEW n \in Int, n <= k, NEW i
                 PROVE  /\ IsLast(stream', i, n) <=> IsLast(stream, i, n)
                        /\ IsLast(stream, i, n) => i \in 0..n /\ At(stream', i) = At(stream, i)
      OBVIOUS
    <3>1. k \in Nat /\ \A l \in 1..k : stream[l] = stream'[l]
      BY <1>2, <1>4
    <3> QED BY <3>1, LastPrefix
  <2>2. PICK j \in 0..k : IsLast(stream, j, k) /\ At(stream, j).chunk = At(stream, j).of
    BY <1>2, <1>5 DEF Stream
  <2>3. /\ j \in 0..(k + 1) /\ IsLast(stream', j, k + 1) /\ At(stream', j) = At(stream, j)
    <3>1. IsLast(stream', j, k) /\ At(stream', j) = At(stream, j)
      BY <1>2, <2>1, <2>2
    <3> QED BY <1>2, <1>4, <3>1, LastNext
  <2>4. Numbered' = Numbered
    <3>1. Begun(stream') = At(stream, j).msg
      BY <1>2, <1>4, <2>3, BegunIs
    <3>2. Begun(stream) = At(stream, j).msg
      BY <1>2, <1>5, <2>2, BegunIs
    <3> QED BY <3>1, <3>2 DEF Numbered
  <2>5. ASSUME NEW i \in 1..(k + 1), stream'[i] # Ping
        PROVE  /\ stream'[i].msg \in 1..accepted /\ stream'[i].of = Sizes[stream'[i].msg]
               /\ 1 <= stream'[i].chunk /\ stream'[i].chunk <= stream'[i].of
               /\ \A l \in 0..(i - 1) : IsLast(stream', l, i - 1) => Follows(At(stream', l), stream'[i])
    <3>1. i \in 1..k /\ stream'[i] = stream[i] /\ i - 1 \in Int /\ i - 1 <= k
      <4>1. i # k + 1
        BY <1>4, <2>5
      <4>2. i \in 1..k
        BY <1>2, <4>1
      <4> QED BY <1>2, <1>4, <4>2
    <3>2. ASSUME NEW l \in 0..(i - 1), IsLast(stream', l, i - 1)
          PROVE  Follows(At(stream', l), stream'[i])
      <4>1. IsLast(stream, l, i - 1) /\ At(stream', l) = At(stream, l)
        BY <2>1, <3>1, <3>2
      <4> QED BY <1>2, <1>5, <2>5, <3>1, <3>2, <4>1 DEF Stream
    <3> QED BY <1>2, <1>5, <2>5, <3>1, <3>2 DEF Stream
  <2>6. accepted' = accepted
    BY <1>1
  <2> QED BY <1>2, <1>4, <2>2, <2>3, <2>4, <2>5, <2>6 DEF Stream
<1>9. Queue'
  <2>1. Pings(stream') = Pings(stream) \cup {k + 1}
    <3>1. \A i : i \in 1..(k + 1) <=> i \in 1..k \/ i = k + 1
      BY <1>2
    <3> QED BY <1>4, <1>5, <3>1 DEF Pings
  <2>2. Cardinality(Overtaking(stream', queued')) <= MaxOvertaking
    <3> DEFINE P == Overtaking(stream, queued)
    <3>1. Overtaking(stream', queued') \subseteq P \cup {k + 1}
      <4>1. DOMAIN stream' = 1..(k + 1) /\ DOMAIN stream = 1..k
        <5>1. Len(stream) = k
          BY DEF k
        <5> QED BY <1>2, <1>4, <5>1
      <4>2. ASSUME NEW i \in Overtaking(stream', queued'), i # k + 1 PROVE i \in P
        <5>1. i \in 1..k /\ stream[i] = Ping
          BY <1>2, <1>4, <4>1, <4>2 DEF Overtaking
        <5>2. PICK n \in Range(queued') : n <= i
          BY DEF Overtaking
        <5>3. n # k + 1
          BY <1>2, <5>1, <5>2
        <5> QED BY <1>7, <4>1, <5>1, <5>2, <5>3 DEF Overtaking
      <4> QED BY <4>2
    <3>2. IsFiniteSet(P) /\ Cardinality(P) \in Nat
      <4>1. P \subseteq 1..k /\ IsFiniteSet(1..k)
        BY <1>2, <1>5, FS_Interval DEF Overtaking
      <4> QED BY <4>1, FS_Subset, FS_CardinalityType
    <3>3. Cardinality(P) < MaxOvertaking
      BY <1>1
    <3> HIDE DEF P
    <3>4. /\ IsFiniteSet(P \cup {k + 1}) /\ Cardinality(P \cup {k + 1}) \in Nat
          /\ Cardinality(P \cup {k + 1}) \in {Cardinality(P), Cardinality(P) + 1}
      BY <3>2, FS_AddElement, FS_CardinalityType
    <3>5. /\ Cardinality(Overtaking(stream', queued')) \in Nat
          /\ Cardinality(Overtaking(stream', queued')) <= Cardinality(P \cup {k + 1})
      BY <3>1, <3>4, FS_Subset, FS_CardinalityType
    <3> QED BY <3>2, <3>3, <3>4, <3>5, Sending
  <2>3. InQueue(stream', queued') = InQueue(stream, queued)
    <3>1. \A n \in Range(queued) : n \in 1..k
      BY <1>2, <1>3
    <3> QED BY <1>4, <1>7, <3>1 DEF InQueue
  <2>4. ASSUME NEW n \in Range(queued'), NEW m \in n..(k + 1)
        PROVE  m \in Range(queued') \cup Pings(stream')
    <3>1. CASE m = k + 1
      BY <2>1, <3>1
    <3>2. CASE m # k + 1
      <4>1. n \in Range(queued) /\ m \in n..k
        <5>1. n = k + 1 \/ (n \in Range(queued) /\ n \in Int)
          BY <1>3, <1>7
        <5> QED BY <1>2, <2>4, <3>2, <5>1
      <4>2. m \in Range(queued) \cup Pings(stream)
        BY <1>2, <1>5, <4>1 DEF Queue
      <4> QED BY <1>7, <2>1, <4>2
    <3> QED BY <3>1, <3>2
  <2> QED BY <1>2, <1>4, <1>7, <2>2, <2>3, <2>4 DEF Queue
<1>10. Sender'
  <2>1. \A n \in Range(queued') \cup Range(sent') :
          n \in Int /\ n >= 1 /\ n <= k + 1 /\ (n \in Range(queued) \cup Range(sent) \/ n = k + 1)
    BY <1>2, <1>3, <1>7
  <2>2. ASSUME NEW n \in Range(queued') \cup Range(sent') PROVE k + 2 - n <= RecvWindow - 1
    <3>1. CASE n = k + 1
      BY <1>2, <3>1, Circle
    <3>2. CASE n \in Range(sent)
      BY <1>6, <3>2
    <3>3. CASE n \in Range(queued)
      <4>1. n \in Range(queued') /\ Len(stream') \in Nat /\ n >= 1 /\ n <= Len(stream')
        BY <1>2, <1>4, <1>7, <2>1, <3>3
      <4>2. Len(stream') + 1 - n <= RecvWindow - 1
        BY <1>9, <4>1, QueueNear DEF Queue
      <4> QED BY <1>2, <1>4, <2>1, <4>2
    <3> QED BY <2>1, <3>1, <3>2, <3>3
  <2>3. Len(stream') = k + 1 /\ nextOut' = k + 2
    BY <1>2, <1>4 DEF nextOut
  <2>4. ASSUME NEW n \in Range(queued') \cup Range(sent')
        PROVE  n >= 1 /\ n <= Len(stream') /\ nextOut' - n <= RecvWindow - 1
    <3>1. n \in Int /\ n >= 1 /\ n <= k + 1
      BY <2>1
    <3>2. k + 2 - n <= RecvWindow - 1
      BY <2>2
    <3> QED BY <1>2, <2>3, <3>1, <3>2
  <2> QED BY <1>7, <1>9, <2>4 DEF Sender
<1>11. AckedIsHeld'
  <2>1. DOMAIN stream' = 1..(k + 1) /\ DOMAIN stream = 1..k
    BY <1>2, <1>4, <1>5
  <2>2. ASSUME NEW n \in 1..(k + 1), receiver = "open"
        PROVE  n \in Range(queued') \cup Range(sent') \/ n < nextIn \/ n \in Range(incoming)
    <3>1. n = k + 1 \/ n \in 1..k
      BY <1>2
    <3> QED BY <1>1, <1>2, <1>7, <2>1, <2>2, <3>1 DEF AckedIsHeld
  <2> QED BY <1>1, <2>1, <2>2 DEF AckedIsHeld, inVars
<1>12. Receiver' /\ Network' /\ Delivered'
  <2>1. k <= k + 1 /\ k + 1 \in 1..Len(stream') /\ net' \subseteq net \cup {Data(k + 1)}
    BY <1>1, <1>2, <1>4
  <2> QED BY <1>1, <1>4, <1>5, <1>10, <1>11, <2>1, TakenKeeps
<1>13. Types' /\ Order'
  BY <1>1, <1>8 DEF IInv, Types, Order, inVars
<1> QED BY <1>8, <1>10, <1>11, <1>12, <1>13 DEF IInv

-----------------------------------------------------------------------------
(* The receiver.                                                           *)

\* The packet nextIn goes on with the message whose packets came last, or
\* starts the next one.
LEMMA NextPacket ==
  ASSUME IInv, receiver = "open", nextIn <= Len(stream), stream[nextIn] # Ping
  PROVE  /\ stream[nextIn] \in Packet /\ stream[nextIn].msg \in 1..accepted
         /\ 1 <= stream[nextIn].chunk /\ stream[nextIn].chunk <= stream[nextIn].of
         /\ Len(delivered) = stream[nextIn].msg - 1
         /\ Cardinality(chunks) = stream[nextIn].chunk - 1
         /\ \A c \in chunks : c.msg = stream[nextIn].msg /\ c.chunk < stream[nextIn].chunk
<1> DEFINE k == Len(stream)
           p == stream[nextIn]
<1>1. nextIn \in 1..k /\ stream \in Seq(Packet) /\ nextIn \in Nat
  BY DEF IInv, Stream, Receiver
<1>2. p \in Packet /\ p.msg \in 1..accepted /\ 1 <= p.chunk /\ p.chunk <= p.of
  BY <1>1 DEF IInv, Stream
<1>3. p.msg \in Nat /\ p.chunk \in Nat /\ p.of \in Nat
  BY <1>2 DEF Packet
<1>4. PICK j \in 0..(nextIn - 1) :
        /\ IsLast(stream, j, nextIn - 1)
        /\ LET o == At(stream, j)
           IN  IF o.chunk = o.of
               THEN Len(delivered) = o.msg /\ chunks = {}
               ELSE /\ Len(delivered) = o.msg - 1 /\ Cardinality(chunks) = o.chunk
                    /\ \A c \in chunks : c.msg = o.msg /\ c.chunk <= o.chunk
  BY DEF IInv, Delivered
<1> DEFINE o == At(stream, j)
<1>5. Follows(o, p)
  BY <1>1, <1>4 DEF IInv, Stream
<1>6. o \in Packet /\ o.chunk <= o.of
  <2>1. CASE j = 0
    BY <2>1 DEF At, Ping, Packet
  <2>2. CASE j # 0
    <3>1. j \in 1..k /\ stream[j] # Ping
      BY <1>1, <1>4, <2>2 DEF IsLast
    <3>2. stream[j] \in Packet /\ stream[j].chunk <= stream[j].of
      BY <1>1, <3>1 DEF IInv, Stream
    <3> QED BY <2>2, <3>2 DEF At
  <2> QED BY <2>1, <2>2
<1>7. o.msg \in Nat /\ o.chunk \in Nat /\ o.of \in Nat
  BY <1>6 DEF Packet
<1>8. \A c \in chunks : c.chunk \in Nat
  <2>1. chunks \subseteq Range(stream)
    BY DEF IInv, Delivered
  <2>2. chunks \subseteq Packet
    BY <1>1, <2>1, RangeOfList
  <2> QED BY <2>2 DEF Packet
<1>9. IF o.chunk = o.of
      THEN Len(delivered) = o.msg /\ chunks = {}
      ELSE /\ Len(delivered) = o.msg - 1 /\ Cardinality(chunks) = o.chunk
           /\ \A c \in chunks : c.msg = o.msg /\ c.chunk <= o.chunk
  BY <1>4
<1> HIDE DEF o, p, k
<1>10. CASE o.chunk = o.of
  <2>1. p.msg = o.msg + 1 /\ p.chunk = 1
    BY <1>5, <1>7, <1>10 DEF Follows
  <2>2. Cardinality(chunks) = 0
    BY <1>9, <1>10, FS_EmptySet
  <2>3. Len(delivered) = p.msg - 1 /\ Cardinality(chunks) = p.chunk - 1 /\ chunks = {}
    BY <1>7, <1>9, <1>10, <2>1, <2>2
  <2> QED BY <1>2, <2>3 DEF p
<1>11. CASE o.chunk # o.of
  <2>1. p.msg = o.msg /\ p.chunk = o.chunk + 1
    BY <1>5, <1>6, <1>7, <1>11 DEF Follows
  <2>2. Len(delivered) = p.msg - 1 /\ Cardinality(chunks) = p.chunk - 1
    BY <1>7, <1>9, <1>11, <2>1
  <2>3. \A c \in chunks : c.msg = p.msg /\ c.chunk < p.chunk
    BY <1>7, <1>8, <1>9, <1>11, <2>1
  <2> QED BY <1>2, <2>2, <2>3 DEF p
<1> QED BY <1>10, <1>11

\* Its message is delivered with its last packet, and it is the next message.
LEMMA DeliverPacketKeeps ==
  ASSUME IInv, receiver = "open", nextIn <= Len(stream), stream[nextIn] # Ping, Deliver(nextIn),
         nextIn' = nextIn + 1, UNCHANGED <<accepted, stream, receiver>>
  PROVE  /\ Delivered'
         /\ \/ delivered' = delivered
            \/ /\ Len(delivered) < accepted
               /\ delivered' = Append(delivered, Len(delivered) + 1)
<1> DEFINE p == stream[nextIn]
           d == Len(delivered)
           have == {q \in chunks : q.msg = p.msg} \cup {p}
<1>1. /\ p \in Packet /\ p.msg \in 1..accepted /\ 1 <= p.chunk /\ p.chunk <= p.of
      /\ d = p.msg - 1 /\ Cardinality(chunks) = p.chunk - 1
      /\ \A c \in chunks : c.msg = p.msg /\ c.chunk < p.chunk
  BY NextPacket
<1>2. /\ p.msg \in Nat /\ p.chunk \in Nat /\ p.of \in Nat /\ accepted \in Nat /\ d \in Nat
      /\ nextIn \in Nat /\ nextIn >= 1
      /\ delivered \in Seq(Nat) /\ \A i \in 1..d : delivered[i] = i
      /\ chunks \subseteq Range(stream) /\ IsFiniteSet(chunks)
  BY <1>1 DEF Packet, IInv, Types, Receiver, Delivered
<1>3. p # Ping
  OBVIOUS
<1>4. have = chunks \cup {p} /\ p \notin chunks
  BY <1>1, <1>2
<1>5. IsFiniteSet(have) /\ Cardinality(have) = p.chunk
  <2>1. IsFiniteSet(chunks \cup {p}) /\ Cardinality(chunks \cup {p}) = Cardinality(chunks) + 1
    BY <1>2, <1>4, FS_AddElement
  <2>2. Cardinality(chunks) = p.chunk - 1 /\ p.chunk \in Nat
    BY <1>1, <1>2
  <2> HIDE DEF p, have
  <2>3. Cardinality(chunks) + 1 = p.chunk
    BY <2>2
  <2> QED BY <1>4, <2>1, <2>3
<1>6. p \in Range(stream)
  <2>1. nextIn \in 1..Len(stream) /\ stream \in Seq(Packet)
    BY DEF IInv, Stream, Receiver
  <2> QED BY <2>1, RangeOfList DEF Elements
<1>9. /\ p # Ping /\ Cardinality(have) < p.of => chunks' = chunks \cup {p} /\ UNCHANGED delivered
      /\ p # Ping /\ Cardinality(have) >= p.of /\ ~(Cardinality(have) < p.of) =>
           chunks' = chunks \ have /\ delivered' = Append(delivered, p.msg)
  <2> HIDE DEF p, have
  <2>1. Cardinality(have) \in Nat /\ p.of \in Nat
    BY <1>2, <1>5
  <2>2. \/ p = Ping /\ UNCHANGED <<chunks, delivered>>
        \/ /\ p # Ping /\ Cardinality(have) < p.of
           /\ chunks' = chunks \cup {p} /\ UNCHANGED delivered
        \/ /\ p # Ping /\ Cardinality(have) >= p.of
           /\ chunks' = chunks \ have /\ delivered' = Append(delivered, p.msg)
    BY DEF Deliver, p, have
  <2> QED BY <2>1, <2>2
<1>10. nextIn \in 0..nextIn /\ IsLast(stream', nextIn, nextIn) /\ At(stream', nextIn) = p
  BY <1>2, <1>3 DEF IsLast, At
<1>7. CASE p.chunk < p.of
  <2>1. chunks' = have /\ delivered' = delivered
    <3> HIDE DEF p, have
    <3> QED BY <1>3, <1>4, <1>5, <1>7, <1>9
  <2>2. \A c \in have : c.msg = p.msg /\ c.chunk <= p.chunk
    <3>1. \A c \in chunks : c.chunk \in Nat
      <4>1. stream \in Seq(Packet)
        BY DEF IInv, Stream
      <4>2. chunks \subseteq Packet
        BY <1>2, <4>1, RangeOfList
      <4> QED BY <4>2 DEF Packet
    <3> QED BY <1>1, <1>2, <1>4, <3>1
  <2>3. nextIn' - 1 = nextIn /\ p.chunk # p.of
    BY <1>2, <1>7
  <2>4. have \subseteq Range(stream)
    BY <1>2, <1>4, <1>6
  <2>5. Len(delivered) = p.msg - 1 /\ Len(delivered) <= accepted
    BY <1>1, <1>2
  <2> HIDE DEF p, d, have
  <2>6. Delivered'
    BY <1>2, <1>5, <1>10, <2>1, <2>2, <2>3, <2>4, <2>5 DEF Delivered, d
  <2> QED BY <2>1, <2>6
<1>8. CASE ~(p.chunk < p.of)
  <2>1. chunks' = {} /\ delivered' = Append(delivered, d + 1) /\ p.chunk = p.of
    <3>1. chunks' = chunks \ have /\ delivered' = Append(delivered, p.msg)
      <4>1. Cardinality(have) >= p.of /\ ~(Cardinality(have) < p.of)
        <5> HIDE DEF p, have
        <5> QED BY <1>2, <1>5, <1>8
      <4> HIDE DEF p, have
      <4> QED BY <1>3, <1>9, <4>1
    <3>2. p.msg = d + 1 /\ chunks \ have = {} /\ p.chunk = p.of
      BY <1>1, <1>2, <1>4, <1>8
    <3> QED BY <3>1, <3>2
  <2>2. nextIn' - 1 = nextIn
    BY <1>2
  <2>3. /\ delivered' \in Seq(Nat) /\ Len(delivered') = d + 1
        /\ \A i \in 1..(d + 1) : delivered'[i] = i
    <3>1. /\ delivered' \in Seq(Nat) /\ Len(delivered') = d + 1 /\ delivered'[d + 1] = d + 1
          /\ \A i \in 1..d : delivered'[i] = delivered[i]
      BY <1>2, <2>1, AppendRange
    <3> HIDE DEF d
    <3>2. ASSUME NEW i \in 1..(d + 1) PROVE delivered'[i] = i
      <4>1. CASE i = d + 1
        BY <3>1, <4>1
      <4>2. CASE i # d + 1
        <5>1. i \in 1..d
          BY <1>2, <4>2
        <5> QED BY <1>2, <3>1, <5>1
      <4> QED BY <4>1, <4>2
    <3> QED BY <3>1, <3>2
  <2>4. d + 1 = p.msg /\ d + 1 <= accepted /\ d < accepted
    BY <1>1, <1>2
  <2> HIDE DEF p, d, have
  <2>5. Delivered'
    BY <1>2, <1>10, <2>1, <2>2, <2>3, <2>4, FS_EmptySet DEF Delivered
  <2> QED BY <2>1, <2>4, <2>5 DEF d
<1> QED BY <1>7, <1>8

\* A ping is delivered to nobody.
LEMMA DeliverPingKeeps ==
  ASSUME IInv, nextIn <= Len(stream), stream[nextIn] = Ping, Deliver(nextIn),
         nextIn' = nextIn + 1, UNCHANGED <<accepted, stream, receiver>>
  PROVE  Delivered' /\ delivered' = delivered
<1>1. UNCHANGED <<chunks, delivered>>
  BY DEF Deliver
<1>2. nextIn \in Nat /\ nextIn >= 1
  BY DEF IInv, Receiver
<1>3. ASSUME NEW j \in 0..(nextIn - 1), IsLast(stream, j, nextIn - 1)
      PROVE  j \in 0..(nextIn' - 1) /\ IsLast(stream, j, nextIn' - 1)
  <2>1. nextIn - 1 \in Nat /\ (nextIn - 1) + 1 = nextIn /\ nextIn' - 1 = nextIn
    BY <1>2
  <2>2. IsLast(stream, j, nextIn)
    BY <1>3, <2>1, LastNext
  <2> QED BY <2>1, <2>2
<1> QED BY <1>1, <1>3 DEF IInv, Delivered

\* What the number awaited brings is in order.
LEMMA DeliverKeeps ==
  ASSUME IInv, receiver = "open", nextIn <= Len(stream), Deliver(nextIn),
         nextIn' = nextIn + 1, UNCHANGED <<accepted, stream, receiver>>
  PROVE  /\ Delivered'
         /\ \/ delivered' = delivered
            \/ /\ Len(delivered) < accepted
               /\ delivered' = Append(delivered, Len(delivered) + 1)
BY DeliverPacketKeeps, DeliverPingKeeps

\* The window moves by one number.
LEMMA AdvanceKeeps ==
  ASSUME IInv, receiver = "open", nextIn <= Len(stream), Deliver(nextIn), nextIn' = nextIn + 1,
         incoming' \in Seq(Int), Ascending(incoming'),
         Range(incoming') = Range(incoming) \ {nextIn},
         net' \subseteq net \cup {Ack(nextIn)}, UNCHANGED <<accepted, outVars, receiver>>
  PROVE  IInv'
<1> DEFINE k == Len(stream)
<1>1. /\ UNCHANGED <<accepted, commands, waiting, stream, queued, sent, window, phase, sender, receiver>>
      /\ k \in Nat /\ nextIn \in 1..k /\ nextIn \in Nat /\ accepted \in Nat /\ nextOut = k + 1
  BY DEF outVars, IInv, Types, Stream, Receiver, nextOut
<1>2. Delivered'
  BY <1>1, DeliverKeeps
<1>3. Stream' /\ Numbered' = Numbered /\ Sender'
  BY <1>1, SameStream, SameSender
<1>4. Types' /\ Order'
  BY <1>1, <1>3 DEF IInv, Types, Order
<1>5. \A n \in Range(incoming) : n \in Int /\ nextIn <= n /\ n < nextIn + RecvWindow /\ n <= k
  BY RangeOfList DEF IInv, Receiver
<1>6. \A n \in 1..k : n >= nextIn /\ n \notin Range(incoming) => k + 1 - n <= RecvWindow - 1
  BY <1>1 DEF IInv, Receiver
<1>7. stream' = stream /\ Len(stream) = k
  BY <1>1
<1> HIDE DEF k
<1>8. Receiver'
  <2>1. ASSUME NEW n \in Range(incoming')
        PROVE  nextIn + 1 <= n /\ n < (nextIn + 1) + RecvWindow /\ n <= k
    <3>1. n \in Range(incoming) /\ n # nextIn
      OBVIOUS
    <3> QED BY <1>1, <1>5, <3>1, Circle
  <2>2. ASSUME NEW n \in 1..k, n >= nextIn + 1, n \notin Range(incoming')
        PROVE  k + 1 - n <= RecvWindow - 1
    <3>1. n >= nextIn /\ n # nextIn
      BY <1>1, <2>2
    <3> QED BY <1>6, <2>2, <3>1
  <2>3. nextIn + 1 \in Nat /\ nextIn + 1 >= 1 /\ nextIn + 1 <= k + 1
    BY <1>1
  <2> QED BY <1>1, <1>7, <2>1, <2>2, <2>3 DEF Receiver, nextOut
<1>9. ASSUME NEW n \in 1..k, n < nextIn \/ n \in Range(incoming) \/ n = nextIn
      PROVE  n < nextIn' \/ n \in Range(incoming')
  BY <1>1, <1>9
<1>10. Network'
  <2>1. Ack(nextIn) \in [type : {"data", "ack"}, n : 1..k]
    BY <1>1 DEF Ack
  <2>2. net' \subseteq [type : {"data", "ack"}, n : 1..k] \cup {DiscoPacket}
    BY <1>7, <2>1 DEF IInv, Network
  <2>3. ASSUME NEW n \in 1..k, Ack(n) \in net' PROVE n < nextIn' \/ n \in Range(incoming')
    <3>1. Ack(n) \in net \/ n = nextIn
      <4>1. Ack(n) = Ack(nextIn) => n = nextIn
        <5>1. Ack(n).n = n /\ Ack(nextIn).n = nextIn
          BY DEF Ack
        <5> QED BY <5>1
      <4> QED BY <2>3, <4>1
    <3>2. Ack(n) \in net => n < nextIn \/ n \in Range(incoming)
      BY <1>7 DEF IInv, Network
    <3> QED BY <1>9, <3>1, <3>2
  <2> QED BY <1>1, <1>7, <2>2, <2>3 DEF Network
<1>11. AckedIsHeld'
  <2>1. DOMAIN stream = 1..k
    BY <1>7 DEF IInv, Stream
  <2>2. ASSUME sender # "gone", NEW n \in 1..k
        PROVE  n \in Range(queued) \cup Range(sent) \/ n < nextIn' \/ n \in Range(incoming')
    <3>1. n \in Range(queued) \cup Range(sent) \/ n < nextIn \/ n \in Range(incoming)
      BY <2>1, <2>2 DEF IInv, AckedIsHeld
    <3> QED BY <1>9, <3>1
  <2> QED BY <1>1, <2>1, <2>2 DEF AckedIsHeld
<1> QED BY <1>2, <1>3, <1>4, <1>8, <1>10, <1>11 DEF IInv

\* The head of the receiver's buffer.
LEMMA IncomingHead ==
  ASSUME IInv, incoming # <<>>
  PROVE  /\ Tail(incoming) \in Seq(Int) /\ Ascending(Tail(incoming))
         /\ Range(Tail(incoming)) = Range(incoming) \ {Head(incoming)}
         /\ Head(incoming) \in Range(incoming) /\ Head(incoming) \in Int
         /\ \A n \in Range(incoming) : Head(incoming) <= n
         /\ Head(incoming) <= Len(stream)
         /\ NextBuffered <=> Head(incoming) = nextIn
<1> DEFINE h == Head(incoming)
<1>1. incoming \in Seq(Int) /\ Ascending(incoming) /\ nextIn \in Nat /\ Range(incoming) \subseteq Int
  BY RangeOfList DEF IInv, Receiver
<1>2. /\ Tail(incoming) \in Seq(Int) /\ Ascending(Tail(incoming))
      /\ h \in Range(incoming) /\ Range(Tail(incoming)) = Range(incoming) \ {h}
      /\ \A n \in Range(incoming) : h <= n
  BY <1>1, TailOfSorted
<1> HIDE DEF h
<1>3. nextIn <= h /\ h < nextIn + RecvWindow /\ h <= Len(stream)
  BY <1>2 DEF IInv, Receiver
<1>4. h \in Int /\ -SeqNums < h - nextIn /\ h - nextIn < SeqNums
  BY <1>1, <1>2, <1>3, Circle
<1>5. Wire(nextIn) = Wire(h) => nextIn = h
  BY <1>1, <1>4, WireUnique
<1>6. NextBuffered <=> h = nextIn
  BY <1>5 DEF NextBuffered, h
<1> QED BY <1>1, <1>2, <1>3, <1>4, <1>6 DEF h

\* A packet out of the receiver's buffer keeps the invariant.
LEMMA UnbufferKeeps ==
  ASSUME IInv, Unbuffer PROVE IInv'
<1>1. /\ receiver = "open" /\ NextBuffered /\ incoming # <<>> /\ incoming' = Tail(incoming)
      /\ nextIn' = nextIn + 1 /\ Deliver(Head(incoming)) /\ UNCHANGED <<accepted, outVars, net, receiver>>
  BY DEF Unbuffer, NextBuffered
<1>2. /\ Head(incoming) = nextIn /\ nextIn <= Len(stream)
      /\ incoming' \in Seq(Int) /\ Ascending(incoming') /\ Range(incoming') = Range(incoming) \ {nextIn}
  BY <1>1, IncomingHead
<1> QED BY <1>1, <1>2, AdvanceKeeps

\* A packet that arrives is at most a window from the one the receiver waits for.
LEMMA ArrivesInReach ==
  ASSUME IInv, receiver = "open", NEW n \in DOMAIN stream, Fresh(n), ~NextBuffered
  PROVE  /\ n \in 1..Len(stream) /\ n \in Int /\ nextIn \in Nat /\ nextIn \notin Range(incoming)
         /\ nextIn - RecvWindow <= n /\ n < nextIn + RecvWindow
<1> DEFINE k == Len(stream)
<1>1. n \in 1..k /\ k \in Nat /\ nextIn \in Nat /\ nextIn >= 1 /\ nextIn <= k + 1 /\ k + 1 - n <= RecvWindow
  BY DEF IInv, Stream, Receiver, Fresh, nextOut
<1>2. nextIn \notin Range(incoming)
  <2>1. ASSUME nextIn \in Range(incoming) PROVE FALSE
    <3>1. incoming # <<>>
      BY <2>1, EmptyList
    <3>2. /\ Head(incoming) <= nextIn /\ Head(incoming) \in Range(incoming) /\ Head(incoming) \in Int
          /\ NextBuffered <=> Head(incoming) = nextIn
      BY <2>1, <3>1, IncomingHead
    <3>3. nextIn <= Head(incoming)
      BY <3>2 DEF IInv, Receiver
    <3> QED BY <1>1, <3>2, <3>3
  <2> QED BY <2>1
<1>3. nextIn <= k => k + 1 - nextIn <= RecvWindow - 1
  <2>1. nextIn <= k => nextIn \in 1..k
    BY <1>1
  <2> QED BY <1>1, <1>2, <2>1 DEF IInv, Receiver, nextOut
<1> HIDE DEF k
<1>4. nextIn - RecvWindow <= n /\ n < nextIn + RecvWindow
  BY <1>1, <1>3, Circle
<1> QED BY <1>1, <1>2, <1>4 DEF k

\* A packet off the network keeps the invariant.
LEMMA ReceiveKeeps ==
  ASSUME IInv, NEW n \in DOMAIN stream, Receive(n) PROVE IInv'
<1> DEFINE s == Wire(n)
           next == Wire(nextIn)
<1>1. /\ receiver = "open" /\ Fresh(n) /\ ~NextBuffered
      /\ UNCHANGED <<accepted, outVars, receiver>>
      /\ \E base \in Taken(Data(n)) :
           IF InWindow(s, next) \/ Old(s, next) THEN net' \in Put(base, Ack(n)) ELSE net' = base
  BY DEF Receive
<1>8. /\ ~InWindow(s, next) => UNCHANGED <<nextIn, incoming, chunks, delivered>>
      /\ InWindow(s, next) /\ s # next =>
           incoming' = Insert(incoming, n, next) /\ UNCHANGED <<nextIn, chunks, delivered>>
      /\ InWindow(s, next) /\ s = next =>
           /\ incoming' = IF incoming # <<>> /\ Wire(Head(incoming)) = s
                          THEN Tail(incoming) ELSE incoming
           /\ nextIn' = nextIn + 1
           /\ Deliver(n)
  BY DEF Receive
<1>2. net' \subseteq net \cup {Ack(n)}
  BY <1>1, Puts
<1>3. /\ n \in 1..Len(stream) /\ n \in Int /\ nextIn \in Nat /\ nextIn \notin Range(incoming)
      /\ nextIn - RecvWindow <= n /\ n < nextIn + RecvWindow
  BY <1>1, ArrivesInReach
<1>4. (InWindow(s, next) <=> n >= nextIn) /\ (s = next <=> n = nextIn)
  BY <1>3, WindowTests
<1> HIDE DEF s, next
<1>5. UNCHANGED <<accepted, commands, waiting, stream, queued, sent, window, phase, sender, receiver>>
  BY <1>1 DEF outVars
<1>6. CASE n = nextIn
  <2>1. InWindow(s, next) /\ s = next
    BY <1>3, <1>4, <1>6
  <2>2. nextIn' = nextIn + 1 /\ Deliver(nextIn) /\ incoming' = incoming
    <3>1. ~(incoming # <<>> /\ Wire(Head(incoming)) = s)
      BY <1>1, <2>1 DEF NextBuffered, next
    <3> QED BY <1>6, <1>8, <2>1, <3>1
  <2>3. incoming \in Seq(Int) /\ Ascending(incoming) /\ Range(incoming) = Range(incoming) \ {nextIn}
    BY <1>3 DEF IInv, Receiver
  <2>4. nextIn <= Len(stream) /\ Ack(n) = Ack(nextIn)
    BY <1>3, <1>6
  <2> QED BY <1>1, <1>2, <2>2, <2>3, <2>4, AdvanceKeeps
<1>7. CASE n # nextIn
  <2> DEFINE k == Len(stream)
  <2>1. UNCHANGED <<nextIn, chunks, delivered>> /\ s # next
    BY <1>4, <1>7, <1>8
  <2>2. /\ incoming' \in Seq(Int) /\ Ascending(incoming')
        /\ Range(incoming) \subseteq Range(incoming') /\ Range(incoming') \subseteq Range(incoming) \cup {n}
        /\ n < nextIn \/ n \in Range(incoming')
        /\ n \in Range(incoming') \ Range(incoming) => n > nextIn
    <3>1. incoming \in Seq(Int) /\ Ascending(incoming)
      BY DEF IInv, Receiver
    <3>2. CASE n < nextIn
      <4>1. incoming' = incoming
        <5>1. ~InWindow(s, next)
          BY <1>3, <1>4, <3>2
        <5> QED BY <1>8, <5>1
      <4> QED BY <3>1, <3>2, <4>1
    <3>3. CASE n > nextIn
      <4>1. incoming' = Insert(incoming, n, Wire(nextIn))
        <5>1. InWindow(s, next)
          BY <1>3, <1>4, <3>3
        <5> QED BY <1>8, <2>1, <5>1 DEF next
      <4>2. \A i \in 1..Len(incoming) : nextIn <= incoming[i] /\ incoming[i] < nextIn + RecvWindow
        BY <3>1, RangeOfList DEF IInv, Receiver, Elements
      <4>3. incoming' \in Seq(Int) /\ Ascending(incoming') /\ Range(incoming') = Range(incoming) \cup {n}
        BY <1>3, <3>1, <3>3, <4>1, <4>2, InsertSorts
      <4> QED BY <3>3, <4>3
    <3> QED BY <1>3, <1>7, <3>2, <3>3
  <2>3. accepted \in Nat
    BY DEF IInv, Types
  <2>4. Stream' /\ Numbered' = Numbered /\ Sender'
    BY <1>5, <2>3, SameStream, SameSender
  <2>5. Types' /\ Order'
    BY <1>5, <2>4 DEF IInv, Types, Order
  <2>6. Delivered'
    BY <1>5, <2>1 DEF IInv, Delivered
  <2>7. Receiver'
    <3>1. ASSUME NEW m \in Range(incoming')
          PROVE  nextIn <= m /\ m < nextIn + RecvWindow /\ m <= k
      <4>1. CASE m \in Range(incoming)
        BY <4>1 DEF IInv, Receiver
      <4>2. CASE m \notin Range(incoming)
        <5>1. m = n /\ n > nextIn
          BY <2>2, <4>2
        <5> QED BY <1>3, <5>1
      <4> QED BY <4>1, <4>2
    <3>2. \A m \in 1..k : m >= nextIn /\ m \notin Range(incoming') => nextOut - m <= RecvWindow - 1
      BY <1>1, <2>2 DEF IInv, Receiver
    <3>3. nextIn <= nextOut
      BY DEF IInv, Receiver
    <3> QED BY <1>3, <1>5, <2>1, <2>2, <3>1, <3>2, <3>3 DEF IInv, Receiver, nextOut
  <2>8. Network'
    <3>1. Ack(n) \in [type : {"data", "ack"}, n : 1..k]
      BY <1>3 DEF Ack
    <3>2. net' \subseteq [type : {"data", "ack"}, n : 1..k] \cup {DiscoPacket}
      BY <1>2, <3>1 DEF IInv, Network
    <3>3. ASSUME NEW m \in 1..k, Ack(m) \in net' PROVE m < nextIn \/ m \in Range(incoming')
      <4>1. Ack(m) \in net \/ m = n
        <5>1. Ack(m).n = m /\ Ack(n).n = n
          BY DEF Ack
        <5> QED BY <1>2, <3>3, <5>1
      <4>2. Ack(m) \in net => m < nextIn \/ m \in Range(incoming)
        BY <1>1 DEF IInv, Network
      <4> QED BY <2>2, <4>1, <4>2
    <3> QED BY <1>5, <2>1, <3>2, <3>3 DEF Network
  <2>9. AckedIsHeld'
    BY <1>5, <2>1, <2>2 DEF IInv, AckedIsHeld
  <2> QED BY <2>4, <2>5, <2>6, <2>7, <2>8, <2>9 DEF IInv
<1> QED BY <1>6, <1>7

-----------------------------------------------------------------------------
(* The theorems.                                                           *)

\* Every step keeps the invariant.
LEMMA NextKeeps ==
  ASSUME IInv, [Next]_vars PROVE IInv'
<1>1. CASE Send
  BY <1>1, SendKeeps
<1>2. CASE DisconnectPeer
  BY <1>2, DisconnectPeerKeeps
<1>3. CASE SenderLoop
  BY <1>3, RunCommandQueueKeeps, HandleSendKeeps, HandleDisconnectKeeps, CommandsDoneKeeps,
     SendQueuedKeeps, LoopDoneKeeps DEF SenderLoop
<1>4. CASE SendPing
  BY <1>4, SendPingKeeps
<1>5. CASE PeerLost
  BY <1>5, TimeOutKeeps
<1>6. ASSUME NEW n \in DOMAIN stream, Resend(n) \/ ReceiveAck(n) \/ Receive(n) PROVE IInv'
  BY <1>6, ResendKeeps, ReceiveAckKeeps, ReceiveKeeps
<1>7. CASE Unbuffer
  BY <1>7, UnbufferKeeps
<1>8. CASE ReceiverTimeOut
  <2>1. ForgetPeer /\ UNCHANGED <<accepted, outVars, nextIn, delivered>> /\ net' \subseteq net
    BY <1>8 DEF ReceiverTimeOut
  <2> QED BY <2>1, ForgetPeerKeeps
<1>9. CASE ReceiveDisco
  <2>1. ForgetPeer /\ UNCHANGED <<accepted, outVars, nextIn, delivered>> /\ net' \subseteq net
    BY <1>9, Puts DEF ReceiveDisco
  <2> QED BY <2>1, ForgetPeerKeeps
<1>10. ASSUME NEW p \in net, Lose(p) PROVE IInv'
  BY <1>10, LoseKeeps
<1>11. CASE UNCHANGED vars
  <2>1. UNCHANGED <<accepted, commands, waiting, stream, queued, sent, window, phase, sender, net, inVars>>
    BY <1>11 DEF vars, outVars
  <2>2. accepted \in Nat
    BY DEF IInv, Types
  <2>3. Stream' /\ Delivered' /\ Numbered' = Numbered /\ Sender' /\ Receiver' /\ Network'
    BY <2>1, <2>2, SameStream, SameDelivered, SameSender, SameReceiver, LessNet
  <2>4. Types' /\ Order' /\ AckedIsHeld'
    BY <2>1, <2>3 DEF IInv, Types, Order, AckedIsHeld, inVars
  <2> QED BY <2>3, <2>4 DEF IInv
<1> QED BY <1>1, <1>2, <1>3, <1>4, <1>5, <1>6, <1>7, <1>8, <1>9, <1>10, <1>11 DEF Next

\* The invariant holds of every behaviour.
LEMMA Inductive ==
  Spec => []IInv
<1>1. Init => IInv
  BY InitIInv
<1>2. IInv /\ [Next]_vars => IInv'
  BY NextKeeps
<1> QED BY <1>1, <1>2, PTL DEF Spec

\* The variables of both ends keep their types, and no number or list leaves
\* its range, for any size of the circle and the windows.
THEOREM TypeCorrect ==
  Spec => []TypeOK
<1>1. IInv => TypeOK
  BY IInvImplies
<1> QED BY <1>1, Inductive, PTL

\* The buffer of packets to be sent again and the one of packets that came too
\* early stay sorted across the wrap of the numbers.
THEOREM ListsSorted ==
  Spec => []Sorted
<1>1. IInv => Sorted
  BY IInvImplies
<1> QED BY <1>1, Inductive, PTL

\* A packet leaves the sender only when the receiver has it.
THEOREM AckedKept ==
  Spec => []AckedIsHeld
<1>1. IInv => AckedIsHeld
  BY DEF IInv
<1> QED BY <1>1, Inductive, PTL

-----------------------------------------------------------------------------
(* The refinement.                                                         *)

\* A step that delivers nothing stutters or ends the connection.
LEMMA Quiet ==
  ASSUME UNCHANGED <<accepted, delivered>>,
         sender' = sender \/ sender' # "open", receiver' = receiver \/ receiver' # "open"
  PROVE  [Channel!Next]_(Channel!vars)
<1> DEFINE e == sender # "open" \/ receiver # "open"
<1>1. e' = e \/ (e = FALSE /\ e' = TRUE)
  OBVIOUS
<1> QED BY <1>1 DEF Channel!Next, Channel!vars, Channel!End

\* A step of the receiver stutters or delivers the next message.
LEMMA Handover ==
  ASSUME UNCHANGED <<accepted, sender, receiver>>,
         \/ delivered' = delivered
         \/ /\ Len(delivered) < accepted
            /\ delivered' = Append(delivered, Len(delivered) + 1)
  PROVE  [Channel!Next]_(Channel!vars)
BY DEF Channel!Next, Channel!vars, Channel!Deliver

\* Every step is a step of the abstract channel or stutters.
LEMMA StepImplements ==
  ASSUME IInv, [Next]_vars PROVE [Channel!Next]_(Channel!vars)
<1>1. CASE Send
  <2>1. accepted' = accepted + 1 /\ UNCHANGED <<sender, receiver, delivered>>
    BY <1>1 DEF Send, inVars
  <2> QED BY <2>1 DEF Channel!Next, Channel!Accept
<1>2. CASE DisconnectPeer
  BY <1>2, Quiet DEF DisconnectPeer, inVars
<1>3. CASE SenderLoop
  <2>1. CASE RunCommandQueue
    BY <2>1, Quiet DEF RunCommandQueue, inVars
  <2>2. CASE HandleSend
    BY <2>2, Quiet DEF HandleSend, inVars
  <2>3. CASE HandleDisconnect
    BY <2>3, Quiet DEF HandleDisconnect, inVars
  <2>4. CASE CommandsDone
    BY <2>4, Quiet DEF CommandsDone, inVars
  <2>5. CASE SendQueued
    BY <2>5, Quiet DEF SendQueued, inVars
  <2>6. CASE LoopDone
    BY <2>6, Quiet DEF LoopDone, DeletePeer, inVars
  <2> QED BY <1>3, <2>1, <2>2, <2>3, <2>4, <2>5, <2>6 DEF SenderLoop
<1>4. CASE SendPing
  BY <1>4, Quiet DEF SendPing, inVars
<1>5. CASE PeerLost
  BY <1>5, Quiet DEF PeerLost, DeletePeer, inVars
<1>6. ASSUME NEW n \in DOMAIN stream, Resend(n) PROVE [Channel!Next]_(Channel!vars)
  BY <1>6, Quiet DEF Resend, inVars, outVars
<1>7. ASSUME NEW n \in DOMAIN stream, ReceiveAck(n) PROVE [Channel!Next]_(Channel!vars)
  BY <1>7, Quiet DEF ReceiveAck, inVars
<1>8. ASSUME NEW n \in DOMAIN stream, Receive(n) PROVE [Channel!Next]_(Channel!vars)
  <2>1. /\ receiver = "open" /\ Fresh(n) /\ ~NextBuffered
        /\ UNCHANGED <<accepted, stream, sender, receiver>>
    BY <1>8 DEF Receive, outVars
  <2>2. /\ n \in 1..Len(stream) /\ n \in Int /\ nextIn \in Nat
        /\ nextIn - RecvWindow <= n /\ n < nextIn + RecvWindow
    BY <2>1, ArrivesInReach
  <2>3. Wire(n) = Wire(nextIn) => n = nextIn
    BY <2>2, WindowTests
  <2>4. CASE delivered' = delivered
    BY <2>1, <2>4, Handover
  <2>5. CASE delivered' # delivered
    <3>1. Wire(n) = Wire(nextIn) /\ nextIn' = nextIn + 1 /\ Deliver(n)
      BY <1>8, <2>5 DEF Receive
    <3>2. n = nextIn /\ nextIn <= Len(stream)
      BY <2>2, <2>3, <3>1
    <3>3. \/ delivered' = delivered
          \/ /\ Len(delivered) < accepted
             /\ delivered' = Append(delivered, Len(delivered) + 1)
      BY <2>1, <3>1, <3>2, DeliverKeeps
    <3> QED BY <2>1, <3>3, Handover
  <2> QED BY <2>4, <2>5
<1>9. CASE Unbuffer
  <2>1. /\ receiver = "open" /\ NextBuffered /\ incoming # <<>>
        /\ nextIn' = nextIn + 1 /\ Deliver(Head(incoming))
        /\ UNCHANGED <<accepted, stream, sender, receiver>>
    BY <1>9 DEF Unbuffer, NextBuffered, outVars
  <2>2. Head(incoming) = nextIn /\ nextIn <= Len(stream)
    BY <2>1, IncomingHead
  <2>3. \/ delivered' = delivered
        \/ /\ Len(delivered) < accepted
           /\ delivered' = Append(delivered, Len(delivered) + 1)
    BY <2>1, <2>2, DeliverKeeps
  <2> QED BY <2>1, <2>3, Handover
<1>10. CASE ReceiverTimeOut
  BY <1>10, Quiet DEF ReceiverTimeOut, ForgetPeer, outVars
<1>11. CASE ReceiveDisco
  BY <1>11, Quiet DEF ReceiveDisco, ForgetPeer, outVars
<1>12. ASSUME NEW p \in net, Lose(p) PROVE [Channel!Next]_(Channel!vars)
  BY <1>12, Quiet DEF Lose, inVars, outVars
<1>13. CASE UNCHANGED vars
  BY <1>13, Quiet DEF vars, inVars, outVars
<1> QED
  BY <1>1, <1>2, <1>3, <1>4, <1>5, <1>6, <1>7, <1>8, <1>9, <1>10, <1>11, <1>12, <1>13 DEF Next

\* The safety part of the refinement: messages come out once each, whole and
\* in the order they went in, whatever the network loses, doubles or reorders
\* and whenever an end gives up.
THEOREM Implements ==
  Spec => Channel!Spec
<1>1. Init => Channel!Init
  BY DEF Init, Channel!Init
<1>2. IInv /\ [Next]_vars => [Channel!Next]_(Channel!vars)
  BY StepImplements
<1> QED BY <1>1, <1>2, Inductive, PTL DEF Spec, Channel!Spec
=============================================================================
