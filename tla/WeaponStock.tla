---------------------------- MODULE WeaponStock ----------------------------
(***************************************************************************)
(* Proofs about Weapon, for any inventory, weapons and accessories: what   *)
(* the player owns.  No accessory is lost or doubled, and no XP is made    *)
(* without a kill.                                                         *)
(***************************************************************************)
EXTENDS WeaponProofs, FiniteSetTheorems, WellFoundedInduction, NaturalsInduction

-----------------------------------------------------------------------------
(* The first and the last cell of a set.                                   *)

LEMMA First ==
  ASSUME NEW S \in SUBSET Nat, S # {}
  PROVE  FirstIn(S) \in S /\ \A j \in S : FirstIn(S) <= j
<1> DEFINE R == OpToRel(<, Nat)
<1>1. IsWellFoundedOn(R, Nat)
  BY NatLessThanWellFounded
<1>2. \E i \in S : \A j \in S : <<j, i>> \notin R
  <2> HIDE DEF R
  <2> QED BY <1>1, WFMin, SMTT(10), ZenonT(20)
<1>3. \A a, b \in Nat : a < b => <<a, b>> \in R
  BY Zenon DEF OpToRel, R
<1> HIDE DEF R
<1>4. PICK i \in S : \A j \in S : <<j, i>> \notin R
  BY <1>2
<1>5. ASSUME NEW j \in S PROVE i <= j
  <2>1. ~(j < i)
    BY <1>3, <1>4
  <2> QED BY <2>1
<1> QED BY <1>5 DEF FirstIn

LEMMA FirstCellOf ==
  ASSUME NEW S \in SUBSET Cells, S # {}
  PROVE  FirstIn(S) \in S
<1>1. Cells \subseteq Nat
  BY Constants DEF Cells
<1> QED BY <1>1, First

\* The last cell is the first one counted from the end.
LEMMA LastCellOf ==
  ASSUME NEW S \in SUBSET Cells, S # {}
  PROVE  LastIn(S) \in S
<1> DEFINE T == {Size - i : i \in S}
<1>1. /\ Size \in Nat
      /\ \A i \in S : i \in Nat /\ i <= Size
  BY Constants DEF Cells
<1>2. T \in SUBSET Nat /\ T # {}
  BY <1>1
<1>3. FirstIn(T) \in T /\ \A n \in T : FirstIn(T) <= n
  BY <1>2, First
<1>4. PICK i \in S : FirstIn(T) = Size - i
  BY <1>3
<1>5. ASSUME NEW j \in S PROVE j <= i
  <2>1. Size - j \in T
    OBVIOUS
  <2>2. Size - i <= Size - j
    BY <1>3, <1>4, <2>1
  <2> QED BY <1>1, <2>2
<1> QED BY <1>5 DEF LastIn

-----------------------------------------------------------------------------
(* What a stack holds.                                                     *)

\* Only weapons carry accessories, each in its own slot.
Clean(st) ==
  /\ IsGun(st) \/ \A k \in AccSlots : st.acc[k] = None
  /\ \A k \in AccSlots : st.acc[k] # None => st.acc[k] \in Accs /\ SlotOf[st.acc[k]] = k

\* The same thing with the same accessories, and with the same XP.
Alike(s, t) == s.item = t.item /\ s.acc = t.acc
Same(s, t)  == Alike(s, t) /\ s.xp = t.xp

\* The stack is accessory a or carries it.
Has(st, a)      == st.item = a \/ st.acc[SlotOf[a]] = a
One(st, a)      == IF Has(st, a) THEN 1 ELSE 0
Where(f, a)     == {i \in Cells : Has(f[i], a)}

\* Two lists that differ at most in cell c.
SameBut(f, g, c) == \A i \in Cells : i # c => g[i] = f[i]

LEMMA AlikeHas ==
  ASSUME NEW s, NEW t, Alike(s, t)
  PROVE  /\ Clean(t) => Clean(s)
         /\ \A a \in Accs : Has(s, a) <=> Has(t, a)
BY DEF Alike, Clean, Has, IsGun

LEMMA FreshClean ==
  ASSUME NEW x \in Items
  PROVE  /\ Clean(Fresh(x)) /\ Fresh(x).xp = 0 /\ Fresh(x).item = x
         /\ \A a \in Accs : Has(Fresh(x), a) <=> x = a
<1>1. \A k \in AccSlots : Fresh(x).acc[k] = None
  BY DEF Fresh
<1>2. \A a \in Accs : SlotOf[a] \in AccSlots /\ a # None
  BY Constants, WeaponAssumption
<1>3. Fresh(x).item = x /\ Fresh(x).xp = 0
  BY DEF Fresh
<1> QED BY <1>1, <1>2, <1>3 DEF Clean, Has

\* An empty cell and a loose accessory carry nothing.
LEMMA NoGunHas ==
  ASSUME NEW st \in Stack, Clean(st), st.item \notin Guns
  PROVE  \A a \in Accs : Has(st, a) <=> st.item = a
<1>1. \A k \in AccSlots : st.acc[k] = None
  BY DEF Clean, IsGun
<1>2. \A a \in Accs : SlotOf[a] \in AccSlots /\ a # None
  BY Constants, WeaponAssumption
<1> QED BY <1>1, <1>2 DEF Has

LEMMA GunHas ==
  ASSUME NEW st, st.item \in Guns
  PROVE  \A a \in Accs : Has(st, a) <=> st.acc[SlotOf[a]] = a
BY Constants DEF Has

LEMMA RefreshedSame ==
  ASSUME NEW st \in Stack
  PROVE  Same(Refreshed(st), st)
BY DEF Refreshed, Same, Alike, Stack

LEMMA RoundsSame ==
  ASSUME NEW st, NEW n, NEW r
  PROVE  Same(Rounds(st, n, r), st)
BY DEF Rounds, Same, Alike

LEMMA LoadedSame ==
  ASSUME NEW st \in Stack
  PROVE  Same(Loaded(st), st)
BY RefreshedSame, RoundsSame DEF Loaded

LEMMA TickedSame ==
  ASSUME NEW st \in Stack
  PROVE  Same(Ticked(st), st)
<1>1. Same(st, st)
  BY DEF Same, Alike
<1> QED BY <1>1, RefreshedSame, RoundsSame DEF Ticked

LEMMA PulledSame ==
  ASSUME NEW st \in Stack
  PROVE  Same(Pulled(Loaded(st)), st)
<1> DEFINE s == Loaded(st)
<1>1. Same(s, st)
  BY LoadedSame
<1>2. s \in Stack
  <2>1. Rounds(st, Magazine(st), -1) \in Stack
    BY MagazineSize, RefillGood DEF Good
  <2>2. Magazine(st) \in Nat
    BY MagazineSize
  <2>3. Refreshed(st) \in Stack
    BY <2>2 DEF Refreshed, Stack
  <2> QED BY <2>1, <2>3 DEF Loaded
<1> HIDE DEF s
<1>3. Same(Pulled(s), s)
  <2>1. Same([s EXCEPT !.reload = ReloadTime], s)
    BY <1>2 DEF Same, Alike, Stack
  <2> QED BY <2>1, RoundsSame DEF Pulled
<1>4. Same(Pulled(s), st)
  BY <1>1, <1>3 DEF Same, Alike
<1> QED BY <1>4 DEF s

-----------------------------------------------------------------------------
(* Counting.                                                               *)

LEMMA WhereFinite ==
  ASSUME NEW f, NEW a
  PROVE  IsFiniteSet(Where(f, a)) /\ Cardinality(Where(f, a)) \in Nat
<1>1. Size \in Int /\ IsFiniteSet(1..Size)
  BY Constants, FS_Interval
<1>2. IsFiniteSet(Cells) /\ Where(f, a) \in SUBSET Cells
  BY <1>1 DEF Cells, Where
<1>3. IsFiniteSet(Where(f, a))
  BY <1>2, FS_Subset
<1> QED BY <1>3, FS_CardinalityType

\* One cell written: the count loses what was there and gains what is there now.
LEMMA PutCount ==
  ASSUME NEW f, NEW g, NEW c \in Cells, NEW a, SameBut(f, g, c)
  PROVE  Cardinality(Where(g, a)) = Cardinality(Where(f, a)) - One(f[c], a) + One(g[c], a)
<1> DEFINE W == Where(f, a)
           X == Where(g, a)
<1>1. /\ IsFiniteSet(W) /\ Cardinality(W) \in Nat
      /\ IsFiniteSet(X) /\ Cardinality(X) \in Nat
  BY WhereFinite
<1>3. /\ c \in W <=> Has(f[c], a)
      /\ c \in X <=> Has(g[c], a)
      /\ W \ {c} = X \ {c}
  BY DEF Where, SameBut
<1> HIDE DEF W, X
<1>4. /\ Cardinality(W \ {c}) = IF c \in W THEN Cardinality(W) - 1 ELSE Cardinality(W)
      /\ Cardinality(X \ {c}) = IF c \in X THEN Cardinality(X) - 1 ELSE Cardinality(X)
  BY <1>1, FS_RemoveElement
<1>5. Cardinality(W \ {c}) = Cardinality(X \ {c})
  BY <1>3
<1> QED BY <1>1, <1>3, <1>4, <1>5 DEF One, W, X

\* Two cells written, and three.
SameButTwo(f, g, c, d)      == \A i \in Cells : i # c /\ i # d => g[i] = f[i]
SameButThree(f, g, c, d, e) == \A i \in Cells : i # c /\ i # d /\ i # e => g[i] = f[i]

\* What they add to the count of accessory a.
Gain(f, g, c, a)       == One(g[c], a) - One(f[c], a)
GainTwo(f, g, c, d, a) ==
  Cardinality(Where(g, a)) = Cardinality(Where(f, a)) + Gain(f, g, c, a) + Gain(f, g, d, a)
GainThree(f, g, c, d, e, a) ==
  Cardinality(Where(g, a)) = Cardinality(Where(f, a)) + Gain(f, g, c, a) + Gain(f, g, d, a)
                                                      + Gain(f, g, e, a)

LEMMA OneType ==
  ASSUME NEW st, NEW a
  PROVE  One(st, a) \in Nat
BY DEF One

LEMMA PutTwo ==
  ASSUME NEW f, NEW g, NEW c \in Cells, NEW d \in Cells, c # d, NEW a, SameButTwo(f, g, c, d)
  PROVE  GainTwo(f, g, c, d, a)
<1> DEFINE h == [i \in Cells |-> IF i = c THEN g[c] ELSE f[i]]
<1>1. h[c] = g[c] /\ h[d] = f[d] /\ SameBut(f, h, c) /\ SameBut(h, g, d)
  BY DEF SameBut, SameButTwo
<1> HIDE DEF h
<1>2. Cardinality(Where(h, a)) = Cardinality(Where(f, a)) - One(f[c], a) + One(h[c], a)
  BY <1>1, PutCount
<1>3. Cardinality(Where(g, a)) = Cardinality(Where(h, a)) - One(h[d], a) + One(g[d], a)
  BY <1>1, PutCount
<1>4. Cardinality(Where(f, a)) \in Nat
  BY WhereFinite
<1>5. /\ One(f[c], a) \in Nat /\ One(g[c], a) \in Nat
      /\ One(f[d], a) \in Nat /\ One(g[d], a) \in Nat
  BY OneType
<1> QED BY <1>1, <1>2, <1>3, <1>4, <1>5 DEF GainTwo, Gain

LEMMA PutThree ==
  ASSUME NEW f, NEW g, NEW c \in Cells, NEW d \in Cells, NEW e \in Cells,
         c # d, c # e, d # e, NEW a, SameButThree(f, g, c, d, e)
  PROVE  GainThree(f, g, c, d, e, a)
<1> DEFINE h == [i \in Cells |-> IF i = c \/ i = d THEN g[i] ELSE f[i]]
<1>1. /\ h[c] = g[c] /\ h[d] = g[d] /\ h[e] = f[e]
      /\ SameButTwo(f, h, c, d) /\ SameBut(h, g, e)
  BY DEF SameBut, SameButTwo, SameButThree
<1> HIDE DEF h
<1>2. Cardinality(Where(h, a)) = Cardinality(Where(f, a)) - One(f[c], a) + One(h[c], a)
                                                          - One(f[d], a) + One(h[d], a)
  <2>1. GainTwo(f, h, c, d, a)
    BY <1>1, PutTwo
  <2>2. /\ One(f[c], a) \in Nat /\ One(h[c], a) \in Nat /\ Cardinality(Where(f, a)) \in Nat
        /\ One(f[d], a) \in Nat /\ One(h[d], a) \in Nat
    BY OneType, WhereFinite
  <2> QED BY <2>1, <2>2 DEF GainTwo, Gain
<1>3. Cardinality(Where(g, a)) = Cardinality(Where(h, a)) - One(h[e], a) + One(g[e], a)
  BY <1>1, PutCount
<1>4. Cardinality(Where(f, a)) \in Nat
  BY WhereFinite
<1>5. /\ One(f[c], a) \in Nat /\ One(g[c], a) \in Nat
      /\ One(f[d], a) \in Nat /\ One(g[d], a) \in Nat
      /\ One(f[e], a) \in Nat /\ One(g[e], a) \in Nat
  BY OneType
<1> QED BY <1>1, <1>2, <1>3, <1>4, <1>5 DEF GainThree, Gain

\* Every stack alike: the same cells.
LEMMA AlikeCount ==
  ASSUME NEW f, NEW g, NEW a \in Accs, \A i \in Cells : Alike(g[i], f[i])
  PROVE  Where(g, a) = Where(f, a)
BY AlikeHas DEF Where

-----------------------------------------------------------------------------
(* Accessories.                                                            *)

Own == /\ \A i \in Cells : Clean(inv[i])
       /\ session = NoSession \/ session.gun \in Guns

Count(a)  == Cardinality(Where(inv, a)) + ground[a]
KeepsCount == \A a \in Accs : Cardinality(Where(inv', a)) + ground'[a] = Count(a)

OwnCount == /\ Own
            /\ \A a \in Accs : Count(a) = Cardinality({i \in Cells : Contents[i] = a})

LEMMA OwnInit == Init => OwnCount
<1> SUFFICES ASSUME Init PROVE OwnCount
  OBVIOUS
<1>1. \A i \in Cells : Contents[i] \in Items /\ inv[i] = Fresh(Contents[i])
  BY Constants DEF Init
<1>2. Own
  BY <1>1, FreshClean DEF Init, Own
<1>3. ASSUME NEW a \in Accs PROVE Count(a) = Cardinality({i \in Cells : Contents[i] = a})
  <2>1. Where(inv, a) = {i \in Cells : Contents[i] = a}
    BY <1>1, FreshClean DEF Where
  <2>2. ground[a] = 0 /\ Cardinality(Where(inv, a)) \in Nat
    BY WhereFinite DEF Init
  <2> QED BY <2>1, <2>2 DEF Count
<1> QED BY <1>2, <1>3 DEF OwnCount

\* What nothing but the XP, the rounds and the reload of the stacks changed.
LEMMA AlikeStep ==
  ASSUME Own, \A i \in Cells : Alike(inv'[i], inv[i]), UNCHANGED ground,
         UNCHANGED session \/ session' = NoSession \/ session'.gun \in Guns
  PROVE  Own' /\ KeepsCount
<1>1. \A i \in Cells : Clean(inv'[i])
  BY AlikeHas DEF Own
<1>2. \A a \in Accs : Where(inv', a) = Where(inv, a)
  BY AlikeCount
<1>3. Own'
  BY <1>1 DEF Own
<1> QED BY <1>2, <1>3 DEF KeepsCount, Count

\* The list after a shot.
LEMMA ShotList ==
  ASSUME IInv, NEW f \in [Cells -> Stack], NEW g,
         f = [inv EXCEPT ![wield] = Pulled(Loaded(inv[wield]))]
  PROVE  \A i \in Cells : Same(f[i], inv[i])
<1>1. wield \in Cells /\ inv \in [Cells -> Stack]
  BY DEF IInv, RestOK, Good
<1>2. Same(Pulled(Loaded(inv[wield])), inv[wield])
  BY <1>1, PulledSame
<1>3. \A i \in Cells : Same(inv[i], inv[i])
  BY DEF Same, Alike
<1>4. \A i \in Cells : f[i] = IF i = wield THEN Pulled(Loaded(inv[wield])) ELSE inv[i]
  BY <1>1
<1> QED BY <1>2, <1>3, <1>4

\* add_xp changes the XP of one stack, of that weapon, by one.
LEMMA AddXpList ==
  ASSUME NEW f \in [Cells -> Stack], NEW g, NEW w \in Cells, f[w].item = g
  PROVE  /\ AddXp(g, f) \in [Cells -> Stack]
         /\ \E c \in Cells :
              /\ f[c].item = g /\ Alike(AddXp(g, f)[c], f[c])
              /\ AddXp(g, f)[c].xp = f[c].xp + 1
              /\ \A i \in Cells : i # c => AddXp(g, f)[i] = f[i]
<1> DEFINE c == FirstIn({i \in Cells : f[i].item = g})
           r == Refreshed(f[c])
           v == [r EXCEPT !.xp = r.xp + 1]
<1>1. AddXp(g, f) = [f EXCEPT ![c] = v]
  BY DEF AddXp
<1>2. c \in Cells /\ f[c].item = g
  BY FirstCellOf
<1>3. r \in Stack /\ Same(r, f[c])
  <2>1. f[c] \in Stack
    BY <1>2
  <2>2. Refreshed(f[c]) \in Stack
    BY <2>1, MagazineSize DEF Refreshed, Stack
  <2> QED BY <2>1, <2>2, RefreshedSame
<1> HIDE DEF c, r
<1>4. v \in Stack /\ Alike(v, r) /\ v.xp = r.xp + 1
  BY <1>3 DEF Stack, Alike
<1> HIDE DEF v
<1>5. Alike(v, f[c]) /\ v.xp = f[c].xp + 1
  BY <1>3, <1>4 DEF Same, Alike
<1>6. /\ [f EXCEPT ![c] = v] \in [Cells -> Stack] /\ [f EXCEPT ![c] = v][c] = v
      /\ \A i \in Cells : i # c => [f EXCEPT ![c] = v][i] = f[i]
  BY <1>2, <1>4
<1> QED BY <1>1, <1>2, <1>5, <1>6

\* After a kill with weapon g: at most a point more, on the stack of cell c.
OneKill(f, g, c) ==
  /\ inv[c].item = g /\ Alike(f[c], inv[c])
  /\ f[c].xp = inv[c].xp \/ f[c].xp = inv[c].xp + 1
  /\ \A i \in Cells : i # c => Same(f[i], inv[i])

LEMMA KillList ==
  ASSUME IInv, NEW g, g = inv[wield].item, NEW f,
         f = [AddXp(g, inv) EXCEPT ![wield] = Pulled(Loaded(inv[wield]))]
  PROVE  \E c \in Cells : OneKill(f, g, c)
<1>1. wield \in Cells /\ inv \in [Cells -> Stack]
  BY DEF IInv, RestOK, Good
<1> DEFINE p == Pulled(Loaded(inv[wield]))
           h == AddXp(g, inv)
<1>2. Same(p, inv[wield])
  BY <1>1, PulledSame
<1>3. PICK c \in Cells : /\ inv[c].item = g /\ Alike(h[c], inv[c])
                         /\ h[c].xp = inv[c].xp + 1
                         /\ \A i \in Cells : i # c => h[i] = inv[i]
  BY <1>1, AddXpList
<1>4. h \in [Cells -> Stack]
  BY <1>1, AddXpList
<1> HIDE DEF p, h
<1>5. \A i \in Cells : f[i] = IF i = wield THEN p ELSE h[i]
  BY <1>1, <1>4 DEF p, h
<1>6. \A i \in Cells : Same(inv[i], inv[i])
  BY DEF Same, Alike
<1>7. \A i \in Cells : i # c => Same(f[i], inv[i])
  BY <1>2, <1>3, <1>5, <1>6
<1>8. Alike(f[c], inv[c]) /\ (f[c].xp = inv[c].xp \/ f[c].xp = inv[c].xp + 1)
  BY <1>2, <1>3, <1>5 DEF Same
<1> QED BY <1>3, <1>7, <1>8 DEF OneKill

LEMMA TimeSame ==
  ASSUME IInv, TickInit \/ Pass
  PROVE  \A i \in Cells : Same(inv'[i], inv[i])
<1> SUFFICES ASSUME NEW i \in Cells PROVE Same(inv'[i], inv[i])
  OBVIOUS
<1>1. inv[i] \in Stack
  BY DEF IInv, Good
<1>2. CASE TickInit
  BY <1>1, <1>2, TickedSame DEF TickInit
<1>3. CASE Pass
  <2>1. inv'[i] = IF inv[i].reload > 0 THEN [inv[i] EXCEPT !.reload = inv[i].reload - 1]
                                       ELSE inv[i]
    BY <1>3 DEF Pass
  <2> QED BY <1>1, <2>1 DEF Same, Alike, Stack
<1> QED BY <1>2, <1>3

LEMMA ShootKeeps ==
  ASSUME IInv, Own, Shoot
  PROVE  Own' /\ KeepsCount
<1>1. UNCHANGED <<session, ground>>
  BY DEF Shoot
<1>2. \A i \in Cells : Alike(inv'[i], inv[i])
  <2>1. CASE inv' = [inv EXCEPT ![wield] = Pulled(Loaded(inv[wield]))]
    <3>1. inv' \in [Cells -> Stack]
      BY ShootStep DEF IInv, Good
    <3> QED BY <2>1, <3>1, ShotList DEF Same
  <2>2. CASE inv' = [AddXp(inv[wield].item, inv) EXCEPT ![wield] = Pulled(Loaded(inv[wield]))]
    BY <2>2, KillList DEF Same, OneKill
  <2> QED BY <2>1, <2>2 DEF Shoot
<1> QED BY <1>1, <1>2, AlikeStep

LEMMA TimeKeeps ==
  ASSUME IInv, Own, TickInit \/ Pass
  PROVE  Own' /\ KeepsCount
<1>1. UNCHANGED <<session, ground>>
  BY DEF TickInit, Pass
<1> QED BY <1>1, TimeSame, AlikeStep DEF Same

LEMMA FormKeeps ==
  ASSUME IInv, Own, OpenTable \/ CloseTable \/ FormExpires \/ \E i \in Cells : Select(i)
  PROVE  Own' /\ KeepsCount
<1>1. inv' = inv /\ ground' = ground
  BY DEF OpenTable, CloseTable, FormExpires, Select
<1>2. session' = session \/ session' = NoSession \/ session'.gun \in Guns
  BY DEF OpenTable, CloseTable, FormExpires, Select, WieldsWeapon, IsGun
<1>3. \A i \in Cells : Alike(inv'[i], inv[i])
  BY <1>1 DEF Alike
<1> QED BY <1>1, <1>2, <1>3, AlikeStep

\* A stack put into an empty cell.
Fills(x) == /\ EmptyCells # {} /\ inv' = [inv EXCEPT ![FirstIn(EmptyCells)] = Fresh(x)]
            /\ UNCHANGED session

LEMMA FillKeeps ==
  ASSUME IInv, Own, NEW x \in Items \ {None}, Fills(x)
  PROVE  /\ Own'
         /\ \A a \in Accs : Cardinality(Where(inv', a)) = Cardinality(Where(inv, a))
                                                          + (IF a = x THEN 1 ELSE 0)
<1>1. PICK e \in Cells : e = FirstIn(EmptyCells) /\ inv[e].item = None
  BY FirstCellOf DEF EmptyCells, Fills
<1>2. inv \in [Cells -> Stack] /\ inv' = [inv EXCEPT ![e] = Fresh(x)]
  BY <1>1 DEF IInv, Good, Fills
<1>3. \A i \in Cells : inv'[i] = IF i = e THEN Fresh(x) ELSE inv[i]
  BY <1>1, <1>2
<1>4. Own'
  BY <1>3, FreshClean DEF Own, Fills
<1>5. ASSUME NEW a \in Accs
      PROVE  Cardinality(Where(inv', a)) = Cardinality(Where(inv, a)) + (IF a = x THEN 1 ELSE 0)
  <2>1. One(Fresh(x), a) = IF a = x THEN 1 ELSE 0
    BY FreshClean DEF One
  <2>2. One(inv[e], a) = 0
    <3>1. a # None
      BY WeaponAssumption
    <3>2. inv[e] \in Stack /\ Clean(inv[e]) /\ inv[e].item \notin Guns
      BY <1>1, <1>2, Constants, WeaponAssumption DEF Own
    <3> QED BY <1>1, <3>1, <3>2, NoGunHas DEF One
  <2>3. Cardinality(Where(inv', a)) = Cardinality(Where(inv, a)) - One(inv[e], a) + One(Fresh(x), a)
    <3>1. SameBut(inv, inv', e)
      BY <1>1, <1>3 DEF SameBut
    <3>2. Cardinality(Where(inv', a)) = Cardinality(Where(inv, a)) - One(inv[e], a) + One(inv'[e], a)
      BY <3>1, PutCount
    <3>3. inv'[e] = Fresh(x)
      BY <1>3
    <3> QED BY <3>2, <3>3
  <2>4. Cardinality(Where(inv, a)) \in Nat
    BY WhereFinite
  <2> QED BY <2>1, <2>2, <2>3, <2>4
<1> QED BY <1>4, <1>5

LEMMA ReceiveKeeps ==
  ASSUME IInv, Own, NEW g \in Guns, Receive(g)
  PROVE  Own' /\ KeepsCount
<1>1. g \in Items \ {None} /\ g \notin Accs
  BY WeaponAssumption DEF Items
<1>2. Fills(g) /\ UNCHANGED ground
  BY DEF Receive, Fills
<1>3. /\ Own'
      /\ \A a \in Accs : Cardinality(Where(inv', a)) = Cardinality(Where(inv, a))
                                                       + (IF a = g THEN 1 ELSE 0)
  BY <1>1, <1>2, FillKeeps
<1>4. \A a \in Accs : Cardinality(Where(inv, a)) \in Nat
  BY WhereFinite
<1>5. \A a \in Accs : Cardinality(Where(inv', a)) = Cardinality(Where(inv, a))
  BY <1>1, <1>3, <1>4
<1> QED BY <1>2, <1>3, <1>5 DEF KeepsCount, Count

LEMMA PickUpKeeps ==
  ASSUME IInv, Own, NEW x \in Accs, PickUp(x)
  PROVE  Own' /\ KeepsCount
<1>1. x \in Items \ {None}
  BY WeaponAssumption DEF Items
<1>2. Fills(x) /\ ground' = [ground EXCEPT ![x] = ground[x] - 1]
  BY DEF PickUp, Fills
<1>3. /\ Own'
      /\ \A a \in Accs : Cardinality(Where(inv', a)) = Cardinality(Where(inv, a))
                                                       + (IF a = x THEN 1 ELSE 0)
  BY <1>1, <1>2, FillKeeps
<1>4. \A a \in Accs : /\ Cardinality(Where(inv, a)) \in Nat /\ ground[a] \in Nat
                      /\ ground'[a] = ground[a] - (IF a = x THEN 1 ELSE 0)
  BY <1>2, WhereFinite DEF IInv, RestOK
<1> QED BY <1>3, <1>4 DEF KeepsCount, Count

\* A weapon on which accessory x, or nothing, takes the place of what was in its slot.
Bit(p)       == IF p THEN 1 ELSE 0
Worn(st, k, x) == Refreshed([st EXCEPT !.acc[k] = x])

LEMMA WornIs ==
  ASSUME NEW st \in Stack, NEW k \in AccSlots, NEW x \in Accs \cup {None}
  PROVE  /\ Worn(st, k, x).item = st.item /\ Worn(st, k, x).xp = st.xp
         /\ Worn(st, k, x).acc = [st.acc EXCEPT ![k] = x]
<1> DEFINE y == [st.acc EXCEPT ![k] = x]
           t == [st EXCEPT !.acc = y]
<1>1. st.acc \in [AccSlots -> Accs \cup {None}]
  BY DEF Stack
<1>2. y \in [AccSlots -> Accs \cup {None}]
  BY <1>1
<1>3. t = [st EXCEPT !.acc[k] = x]
  BY DEF Stack
<1> HIDE DEF y
<1>4. t \in Stack /\ t.item = st.item /\ t.xp = st.xp /\ t.acc = y
  BY <1>2 DEF Stack
<1> HIDE DEF t
<1>5. Same(Refreshed(t), t)
  BY <1>4, RefreshedSame
<1>6. Worn(st, k, x) = Refreshed(t)
  BY <1>3 DEF Worn
<1> QED BY <1>4, <1>5, <1>6 DEF Same, Alike, y

LEMMA WornHas ==
  ASSUME NEW st \in Stack, NEW k \in AccSlots, NEW x \in Accs \cup {None},
         Clean(st), st.item \in Guns, x # None => SlotOf[x] = k
  PROVE  /\ Clean(Worn(st, k, x))
         /\ \A a \in Accs : One(Worn(st, k, x), a)
                            = One(st, a) - Bit(a = st.acc[k]) + Bit(a = x)
<1> DEFINE t == Worn(st, k, x)
<1>1. t.item = st.item /\ t.acc = [st.acc EXCEPT ![k] = x] /\ st.acc \in [AccSlots -> Accs \cup {None}]
  BY WornIs DEF Stack
<1> HIDE DEF t
<1>2. \A j \in AccSlots : t.acc[j] = IF j = k THEN x ELSE st.acc[j]
  BY <1>1
<1>3. Clean(t)
  BY <1>1, <1>2 DEF Clean, IsGun
<1>4. ASSUME NEW a \in Accs PROVE One(t, a) = One(st, a) - Bit(a = st.acc[k]) + Bit(a = x)
  <2>1. SlotOf[a] \in AccSlots /\ a # None
    BY Constants, WeaponAssumption
  <2>2. /\ Has(t, a) <=> t.acc[SlotOf[a]] = a
        /\ Has(st, a) <=> st.acc[SlotOf[a]] = a
    BY <1>1, GunHas
  <2>3. CASE SlotOf[a] = k
    <3>1. t.acc[SlotOf[a]] = x
      BY <1>2, <2>1, <2>3
    <3> QED BY <2>2, <2>3, <3>1 DEF One, Bit
  <2>4. CASE SlotOf[a] # k
    <3>1. t.acc[SlotOf[a]] = st.acc[SlotOf[a]]
      BY <1>2, <2>1, <2>4
    <3>2. a # x /\ a # st.acc[k]
      BY <2>1, <2>4 DEF Clean
    <3> QED BY <2>2, <3>1, <3>2 DEF One, Bit
  <2> QED BY <2>3, <2>4
<1> QED BY <1>3, <1>4 DEF t

LEMMA FreshOne ==
  ASSUME NEW x \in Items, NEW a \in Accs
  PROVE  One(Fresh(x), a) = Bit(a = x)
BY FreshClean DEF One, Bit

\* What lies in a cell without a weapon.
LEMMA LooseOne ==
  ASSUME NEW st \in Stack, Clean(st), st.item \notin Guns, NEW a \in Accs
  PROVE  One(st, a) = Bit(a = st.item)
BY NoGunHas DEF One, Bit

\* The stack in the weapon's cell, and what the form knows of it.
LEMMA TableWeapon ==
  ASSUME IInv, Own, SameWeapon
  PROVE  /\ session.cell \in Cells /\ inv[session.cell] \in Stack
         /\ inv[session.cell].item \in Guns /\ Clean(inv[session.cell])
<1>1. session.cell \in Cells /\ inv \in [Cells -> Stack]
  BY DEF IInv, RestOK, Good
<1> QED BY <1>1 DEF Own, SameWeapon

LEMMA SwapKeeps ==
  ASSUME IInv, Own, NEW i \in Cells, NEW j \in Cells, Swap(i, j)
  PROVE  Own' /\ KeepsCount
<1>1. i # j /\ SameButTwo(inv, inv', i, j)
  BY DEF Swap, IInv, SameButTwo, Cells
<1>2. /\ inv'[i] = inv[j] /\ inv'[j] = inv[i]
      /\ UNCHANGED <<session, ground>>
  BY DEF Swap, IInv, Cells
<1>3. Own'
  BY <1>1, <1>2 DEF Own, SameButTwo
<1>4. ASSUME NEW a \in Accs PROVE Cardinality(Where(inv', a)) = Cardinality(Where(inv, a))
  <2>1. GainTwo(inv, inv', i, j, a)
    BY <1>1, PutTwo
  <2>2. Cardinality(Where(inv, a)) \in Nat
    BY WhereFinite
  <2>3. One(inv[i], a) \in Nat /\ One(inv[j], a) \in Nat
    BY OneType
  <2> QED BY <1>2, <2>1, <2>2, <2>3 DEF GainTwo, Gain
<1> QED BY <1>2, <1>3, <1>4 DEF KeepsCount, Count

LEMMA UnequipKeeps ==
  ASSUME IInv, Own, NEW k \in AccSlots, Unequip(k)
  PROVE  Own' /\ KeepsCount
<1>1. PICK c \in Cells : c = session.cell
  BY DEF IInv, RestOK
<1>2. SameWeapon /\ inv[c].acc[k] # None /\ UNCHANGED session
  BY <1>1 DEF Unequip
<1>3. inv[c] \in Stack /\ inv[c].item \in Guns /\ Clean(inv[c])
  BY <1>1, <1>2, TableWeapon
<1>4. PICK x \in Accs : x = inv[c].acc[k]
  BY <1>2, <1>3 DEF Clean
<1> DEFINE bare == Worn(inv[c], k, None)
<1>5. bare = Refreshed([inv[c] EXCEPT !.acc[k] = None])
  BY DEF Worn
<1>6. /\ Clean(bare)
      /\ \A a \in Accs : One(bare, a) = One(inv[c], a) - Bit(a = x) + Bit(a = None)
  BY <1>3, <1>4, WornHas
<1>7. \A a \in Accs : One(bare, a) = One(inv[c], a) - Bit(a = x)
  <2>1. \A a \in Accs : a # None /\ One(inv[c], a) \in Nat
    BY OneType, WeaponAssumption
  <2> QED BY <1>6, <2>1 DEF Bit
<1> HIDE DEF bare
<1>8. inv \in [Cells -> Stack] /\ \A a \in Accs : ground[a] \in Nat
  BY DEF IInv, RestOK, Good
<1>9. CASE EmptyCells # {} /\ ground' = ground
           /\ inv' = [inv EXCEPT ![FirstIn(EmptyCells)] = Fresh(x), ![c] = bare]
  <2>1. PICK e \in Cells : e = FirstIn(EmptyCells) /\ inv[e].item = None
    BY <1>9, FirstCellOf DEF EmptyCells
  <2>2. e # c /\ inv[e] \in Stack /\ Clean(inv[e]) /\ inv[e].item \notin Guns
    BY <1>3, <1>8, <2>1, WeaponAssumption DEF Own
  <2>3. /\ inv'[e] = Fresh(x) /\ inv'[c] = bare
        /\ SameButTwo(inv, inv', e, c)
    BY <1>8, <1>9, <2>1, <2>2 DEF SameButTwo
  <2>4. Own'
    <3>1. Clean(Fresh(x))
      BY FreshClean DEF Items
    <3> QED BY <1>2, <1>6, <2>3, <3>1 DEF Own, SameButTwo
  <2>5. ASSUME NEW a \in Accs PROVE Cardinality(Where(inv', a)) = Cardinality(Where(inv, a))
    <3>1. GainTwo(inv, inv', e, c, a)
      BY <2>2, <2>3, PutTwo
    <3>2. One(inv[e], a) = 0
      <4>1. a # None
        BY WeaponAssumption
      <4> QED BY <2>1, <2>2, <4>1, LooseOne DEF Bit
    <3>3. One(inv'[e], a) = Bit(a = x)
      BY <2>3, FreshOne DEF Items
    <3>4. One(inv'[c], a) = One(inv[c], a) - Bit(a = x)
      BY <1>7, <2>3
    <3>5. One(inv[c], a) \in Nat /\ Cardinality(Where(inv, a)) \in Nat
      BY OneType, WhereFinite
    <3> QED BY <3>1, <3>2, <3>3, <3>4, <3>5 DEF GainTwo, Gain, Bit
  <2> QED BY <1>9, <2>4, <2>5 DEF KeepsCount, Count
<1>10. CASE ground' = [ground EXCEPT ![x] = ground[x] + 1] /\ inv' = [inv EXCEPT ![c] = bare]
  <2>1. inv'[c] = bare /\ SameBut(inv, inv', c)
    BY <1>8, <1>10 DEF SameBut
  <2>2. Own'
    BY <1>2, <1>6, <2>1 DEF Own, SameBut
  <2>3. ASSUME NEW a \in Accs PROVE Cardinality(Where(inv', a)) + ground'[a] = Count(a)
    <3>1. Cardinality(Where(inv', a)) = Cardinality(Where(inv, a)) - One(inv[c], a) + One(inv'[c], a)
      BY <2>1, PutCount
    <3>2. One(inv'[c], a) = One(inv[c], a) - Bit(a = x)
      BY <1>7, <2>1
    <3>3. One(inv[c], a) \in Nat /\ Cardinality(Where(inv, a)) \in Nat
      BY OneType, WhereFinite
    <3>4. ground'[a] = ground[a] + Bit(a = x) /\ ground[a] \in Nat
      BY <1>8, <1>10 DEF IInv, RestOK, Bit
    <3> QED BY <3>1, <3>2, <3>3, <3>4 DEF Count, Bit
  <2> QED BY <2>2, <2>3 DEF KeepsCount
<1>11. \/ EmptyCells # {} /\ ground' = ground
           /\ inv' = [inv EXCEPT ![FirstIn(EmptyCells)] = Fresh(x), ![c] = bare]
       \/ ground' = [ground EXCEPT ![x] = ground[x] + 1] /\ inv' = [inv EXCEPT ![c] = bare]
  BY <1>1, <1>4, <1>5 DEF Unequip
<1> QED BY <1>9, <1>10, <1>11

\* Accessory x comes out of cell d and goes on the weapon of cell c.
Takes(c, d, x) ==
  /\ c \in Cells /\ d \in Cells /\ c # d
  /\ inv'[d] = Nothing /\ inv'[c] = Worn(inv[c], SlotOf[x], x)

LEMMA FitHas ==
  ASSUME IInv, Own, SameWeapon, NEW x \in Accs, NEW c \in Cells, c = session.cell
  PROVE  /\ Clean(Worn(inv[c], SlotOf[x], x))
         /\ \A a \in Accs : One(Worn(inv[c], SlotOf[x], x), a)
                            = One(inv[c], a) - Bit(a = inv[c].acc[SlotOf[x]]) + Bit(a = x)
<1>1. inv[c] \in Stack /\ inv[c].item \in Guns /\ Clean(inv[c])
  BY TableWeapon
<1>2. SlotOf[x] \in AccSlots
  BY Constants
<1> QED BY <1>1, <1>2, WornHas

LEMMA NothingHas ==
  /\ Clean(Nothing) /\ \A a \in Accs : One(Nothing, a) = 0
<1>1. None \in Items /\ \A a \in Accs : a # None
  BY Constants, WeaponAssumption
<1> QED BY <1>1, FreshClean, FreshOne DEF Nothing, Bit

\* The cell that holds the accessory, and the weapon's.
LEMMA HoldingCell ==
  ASSUME IInv, Own, SameWeapon, NEW x \in Accs, NEW d \in Holding(x)
  PROVE  /\ d \in Cells /\ inv[d].item = x /\ d # session.cell
         /\ \A a \in Accs : One(inv[d], a) = Bit(a = x)
<1>1. d \in Cells /\ inv[d].item = x /\ x \notin Guns
  BY Constants DEF Holding
<1>2. inv[d] \in Stack /\ Clean(inv[d])
  BY <1>1 DEF IInv, Good, Own
<1> QED BY <1>1, <1>2, TableWeapon, LooseOne

LEMMA TakeKeeps ==
  ASSUME IInv, Own, SameWeapon, UNCHANGED session, NEW x \in Accs, NEW d \in Holding(x),
         NEW c \in Cells, c = session.cell, Takes(c, d, x), SameButTwo(inv, inv', d, c)
  PROVE  /\ Own'
         /\ \A a \in Accs : Cardinality(Where(inv', a))
                            = Cardinality(Where(inv, a)) - Bit(a = inv[c].acc[SlotOf[x]])
<1>1. /\ d \in Cells /\ d # c /\ \A a \in Accs : One(inv[d], a) = Bit(a = x)
  BY HoldingCell
<1>2. /\ Clean(inv'[c]) /\ Clean(inv'[d])
      /\ \A a \in Accs : One(inv'[d], a) = 0
  BY FitHas, NothingHas DEF Takes
<1>3. \A a \in Accs : One(inv'[c], a)
                      = One(inv[c], a) - Bit(a = inv[c].acc[SlotOf[x]]) + Bit(a = x)
  BY FitHas DEF Takes
<1>4. Own'
  BY <1>2 DEF Own, SameButTwo
<1>5. ASSUME NEW a \in Accs
      PROVE  Cardinality(Where(inv', a))
             = Cardinality(Where(inv, a)) - Bit(a = inv[c].acc[SlotOf[x]])
  <2>1. GainTwo(inv, inv', d, c, a)
    BY <1>1, PutTwo
  <2>2. /\ One(inv[c], a) \in Nat /\ Cardinality(Where(inv, a)) \in Nat
        /\ Bit(a = x) \in Nat /\ Bit(a = inv[c].acc[SlotOf[x]]) \in Nat
    BY OneType, WhereFinite DEF Bit
  <2>3. One(inv[d], a) = Bit(a = x) /\ One(inv'[d], a) = 0
    BY <1>1, <1>2
  <2> QED BY <1>3, <2>1, <2>2, <2>3 DEF GainTwo, Gain
<1> QED BY <1>4, <1>5

\* The same, with an accessory y put in the empty cell e before.
LEMMA TradeKeeps ==
  ASSUME IInv, Own, SameWeapon, UNCHANGED session, NEW x \in Accs, NEW y \in Accs,
         NEW c \in Cells, c = session.cell, y = inv[c].acc[SlotOf[x]],
         NEW d \in Cells, NEW e \in Cells, inv[e].item = None, Takes(c, d, x),
         d # e => d \in Holding(x) /\ inv'[e] = Fresh(y), d = e => x = y,
         SameButThree(inv, inv', d, e, c)
  PROVE  /\ Own'
         /\ \A a \in Accs : Cardinality(Where(inv', a)) = Cardinality(Where(inv, a))
<1>1. inv[c].item \in Guns /\ e # c /\ c # d
  BY TableWeapon, WeaponAssumption DEF Takes
<1>2. \A a \in Accs : One(inv[e], a) = 0
  <2>1. inv[e] \in Stack /\ Clean(inv[e]) /\ inv[e].item \notin Guns
    BY WeaponAssumption DEF IInv, Good, Own
  <2>2. \A a \in Accs : a # None
    BY WeaponAssumption
  <2> QED BY <2>1, <2>2, LooseOne DEF Bit
<1>3. \A a \in Accs : One(inv'[c], a) = One(inv[c], a) - Bit(a = y) + Bit(a = x)
  BY FitHas DEF Takes
<1>4. /\ Clean(inv'[c]) /\ Clean(inv'[d])
      /\ \A a \in Accs : One(inv'[d], a) = 0
  BY FitHas, NothingHas DEF Takes
<1>5. \A a \in Accs : /\ One(inv[c], a) \in Nat /\ Cardinality(Where(inv, a)) \in Nat
                      /\ Bit(a = x) \in Nat /\ Bit(a = y) \in Nat
  BY OneType, WhereFinite DEF Bit
<1>6. CASE d = e
  <2>1. SameButTwo(inv, inv', e, c)
    BY <1>6 DEF SameButTwo, SameButThree
  <2>2. Own'
    BY <1>4, <1>6, <2>1 DEF Own, SameButTwo
  <2>3. ASSUME NEW a \in Accs PROVE Cardinality(Where(inv', a)) = Cardinality(Where(inv, a))
    <3>1. GainTwo(inv, inv', e, c, a)
      BY <1>1, <2>1, PutTwo
    <3>2. One(inv[e], a) = 0 /\ One(inv'[e], a) = 0
      BY <1>2, <1>4, <1>6
    <3>3. One(inv'[c], a) = One(inv[c], a) - Bit(a = y) + Bit(a = y)
      BY <1>3, <1>6
    <3> QED BY <1>5, <3>1, <3>2, <3>3 DEF GainTwo, Gain
  <2> QED BY <2>2, <2>3
<1>7. CASE d # e
  <2>1. \A a \in Accs : One(inv[d], a) = Bit(a = x)
    BY <1>7, HoldingCell
  <2>2. Clean(inv'[e]) /\ \A a \in Accs : One(inv'[e], a) = Bit(a = y)
    BY <1>7, FreshClean, FreshOne DEF Items
  <2>3. Own'
    BY <1>4, <2>2 DEF Own, SameButThree
  <2>4. ASSUME NEW a \in Accs PROVE Cardinality(Where(inv', a)) = Cardinality(Where(inv, a))
    <3>1. GainThree(inv, inv', d, e, c, a)
      BY <1>1, <1>7, PutThree
    <3>2. /\ One(inv[d], a) = Bit(a = x) /\ One(inv'[d], a) = 0
          /\ One(inv[e], a) = 0 /\ One(inv'[e], a) = Bit(a = y)
      BY <1>2, <1>4, <2>1, <2>2
    <3> QED BY <1>3, <1>5, <3>1, <3>2 DEF GainThree, Gain
  <2> QED BY <2>3, <2>4
<1> QED BY <1>6, <1>7

LEMMA EquipKeeps ==
  ASSUME IInv, Own, NEW x \in Accs, Equip(x)
  PROVE  Own' /\ KeepsCount
<1>1. SameWeapon /\ Holding(x) # {} /\ Fit(x) /\ UNCHANGED session
  BY DEF Equip
<1>2. PICK c \in Cells : c = session.cell
  BY DEF IInv, RestOK
<1>3. inv[c] \in Stack /\ inv[c].item \in Guns /\ Clean(inv[c])
  BY <1>1, <1>2, TableWeapon
<1>4. inv \in [Cells -> Stack] /\ \A a \in Accs : ground[a] \in Nat
  BY DEF IInv, RestOK, Good
<1> DEFINE fit == Worn(inv[c], SlotOf[x], x)
           old == inv[c].acc[SlotOf[x]]
           out == LastIn(Holding(x) \cup (IF old = x /\ EmptyCells # {}
                                          THEN {FirstIn(EmptyCells)} ELSE {}))
<1>5. fit = Refreshed([inv[c] EXCEPT !.acc[SlotOf[x]] = x])
  BY DEF Worn
<1>6. old \in Accs \cup {None}
  <2>1. SlotOf[x] \in AccSlots
    BY Constants
  <2> QED BY <1>3, <2>1 DEF Clean
<1>7. \/ /\ old = None \/ EmptyCells = {}
         /\ inv' = [inv EXCEPT ![LastIn(Holding(x))] = Nothing, ![c] = fit]
         /\ IF old = None THEN ground' = ground ELSE ground' = [ground EXCEPT ![old] = ground[old] + 1]
      \/ /\ old # None /\ EmptyCells # {} /\ ground' = ground
         /\ inv' = [inv EXCEPT ![FirstIn(EmptyCells)] = Fresh(old), ![out] = Nothing, ![c] = fit]
  BY <1>1, <1>2, <1>5 DEF Fit
<1>8. Holding(x) \in SUBSET Cells
  BY DEF Holding
<1>9. PICK d \in Holding(x) : d = LastIn(Holding(x))
  BY <1>1, <1>8, LastCellOf
<1>10. d \in Cells /\ d # c
  BY <1>1, <1>2, HoldingCell
<1> HIDE DEF fit, old, out
<1>11. CASE /\ old = None \/ EmptyCells = {}
            /\ inv' = [inv EXCEPT ![LastIn(Holding(x))] = Nothing, ![c] = fit]
            /\ IF old = None THEN ground' = ground ELSE ground' = [ground EXCEPT ![old] = ground[old] + 1]
  <2>1. inv'[d] = Nothing /\ inv'[c] = fit /\ SameButTwo(inv, inv', d, c)
    BY <1>4, <1>9, <1>10, <1>11 DEF SameButTwo
  <2>2. Takes(c, d, x)
    BY <1>10, <2>1 DEF Takes, fit
  <2>3. /\ Own'
        /\ \A a \in Accs : Cardinality(Where(inv', a)) = Cardinality(Where(inv, a)) - Bit(a = old)
    BY <1>1, <1>2, <2>1, <2>2, TakeKeeps DEF old
  <2>4. ASSUME NEW a \in Accs PROVE ground'[a] = ground[a] + Bit(a = old) /\ ground[a] \in Nat
    <3>1. ground \in [Accs -> Nat] /\ a # None
      BY WeaponAssumption DEF IInv, RestOK
    <3>2. CASE old = None
      BY <1>11, <3>1, <3>2 DEF Bit
    <3>3. CASE old # None
      BY <1>6, <1>11, <3>1, <3>3 DEF Bit
    <3> QED BY <3>2, <3>3
  <2>5. \A a \in Accs : Cardinality(Where(inv, a)) \in Nat /\ Bit(a = old) \in Nat
    BY WhereFinite DEF Bit
  <2>6. KeepsCount
    BY <2>3, <2>4, <2>5 DEF KeepsCount, Count
  <2> QED BY <2>3, <2>6
<1>12. CASE /\ old # None /\ EmptyCells # {} /\ ground' = ground
            /\ inv' = [inv EXCEPT ![FirstIn(EmptyCells)] = Fresh(old), ![out] = Nothing, ![c] = fit]
  <2>1. PICK e \in Cells : e = FirstIn(EmptyCells) /\ inv[e].item = None
    BY <1>12, FirstCellOf DEF EmptyCells
  <2>2. PICK y \in Accs : y = old
    BY <1>6, <1>12
  <2>3. out \in Cells /\ (out \in Holding(x) \/ (old = x /\ out = e))
    <3> DEFINE S == Holding(x) \cup (IF old = x /\ EmptyCells # {}
                                     THEN {FirstIn(EmptyCells)} ELSE {})
    <3>1. S \in SUBSET Cells /\ S # {} /\ \A i \in S : i \in Holding(x) \/ (old = x /\ i = e)
      BY <1>1, <1>8, <2>1
    <3>2. out = LastIn(S)
      BY DEF out
    <3> HIDE DEF S
    <3> QED BY <3>1, <3>2, LastCellOf
  <2>4. PICK o \in Cells : o = out
    BY <2>3
  <2>5. o # c /\ e # c
    <3>1. x # inv[c].item /\ None # inv[c].item
      BY <1>3, Constants, WeaponAssumption
    <3>2. inv[o].item = x \/ inv[o].item = None
      BY <2>1, <2>3, <2>4 DEF Holding
    <3> QED BY <2>1, <3>1, <3>2
  <2>6. /\ inv'[o] = Nothing /\ inv'[c] = fit
        /\ o # e => inv'[e] = Fresh(y)
        /\ SameButThree(inv, inv', o, e, c)
    BY <1>4, <1>12, <2>1, <2>2, <2>4, <2>5 DEF SameButThree
  <2>7. Takes(c, o, x)
    BY <2>5, <2>6 DEF Takes, fit
  <2>8. y = inv[c].acc[SlotOf[x]]
    BY <2>2 DEF old
  <2>9. (o # e => o \in Holding(x)) /\ (o = e => x = y)
    <3>1. inv[o].item = x => o # e
      BY <2>1, WeaponAssumption
    <3> QED BY <2>1, <2>2, <2>3, <2>4, <3>1 DEF Holding
  <2>10. /\ Own'
         /\ \A a \in Accs : Cardinality(Where(inv', a)) = Cardinality(Where(inv, a))
    BY <1>1, <1>2, <2>1, <2>6, <2>7, <2>8, <2>9, TradeKeeps
  <2> QED BY <1>12, <2>10 DEF KeepsCount, Count
<1> QED BY <1>7, <1>11, <1>12

\* The accessories of every kind are as many as at the start.
LEMMA OwnSteps == Spec => []OwnCount
<1>1. ASSUME IInv, OwnCount, Next PROVE OwnCount'
  <2>1. Own
    BY <1>1 DEF OwnCount
  <2>2. Own' /\ KeepsCount
    BY <1>1, <2>1, ShootKeeps, TimeKeeps, FormKeeps, ReceiveKeeps, PickUpKeeps, SwapKeeps,
       UnequipKeeps, EquipKeeps DEF Next, Player, Table
  <2> QED BY <1>1, <2>2 DEF OwnCount, KeepsCount, Count
<1>2. ASSUME OwnCount, UNCHANGED vars PROVE OwnCount'
  BY <1>2 DEF OwnCount, Own, Count, Where, vars
<1>3. IInv /\ OwnCount /\ [Next]_vars => OwnCount'
  BY <1>1, <1>2
<1> QED BY <1>3, OwnInit, Invariance, PTL DEF Spec

\* No accessory is lost or doubled: what lies in the cells, on the weapons and
\* on the ground is what the inventory held at first, whatever is fitted, put
\* back, swapped or picked up, with room or without (tgw_combat 941-1004).
THEOREM NoAccessoryLost == Spec => []AccessoriesConserved
<1>1. ASSUME IInv, OwnCount PROVE AccessoriesConserved
  <2> SUFFICES ASSUME NEW a \in Accs
               PROVE  Total(a) = Cardinality({i \in Cells : Contents[i] = a})
    BY DEF AccessoriesConserved
  <2> DEFINE L == Holding(a)
             W == {i \in Cells : inv[i].acc[SlotOf[a]] = a}
  <2>1. \A i \in L : i \notin W
    <3> SUFFICES ASSUME NEW i \in Cells, inv[i].item = a PROVE inv[i].acc[SlotOf[a]] # a
      BY DEF Holding
    <3>1. ~IsGun(inv[i]) /\ a # None /\ SlotOf[a] \in AccSlots
      BY Constants, WeaponAssumption DEF IsGun
    <3>2. Clean(inv[i])
      BY <1>1 DEF OwnCount, Own
    <3> QED BY <3>1, <3>2 DEF Clean
  <2>2. L \cup W = Where(inv, a) /\ L \cap W = {}
    BY <2>1 DEF Holding, Where, Has
  <2>3. IsFiniteSet(Where(inv, a))
    BY WhereFinite
  <2> HIDE DEF L, W
  <2>4. IsFiniteSet(L) /\ IsFiniteSet(W)
    <3>1. L \in SUBSET Where(inv, a) /\ W \in SUBSET Where(inv, a)
      BY <2>2
    <3> QED BY <2>3, <3>1, FS_Subset
  <2>5. Cardinality(L \cup W) = Cardinality(L) + Cardinality(W) - Cardinality(L \cap W)
    BY <2>4, FS_Union
  <2>6. /\ Cardinality(L \cap W) = 0 /\ Cardinality(L) \in Nat /\ Cardinality(W) \in Nat
    BY <2>2, <2>4, FS_EmptySet, FS_CardinalityType
  <2>7. Cardinality(Where(inv, a)) = Cardinality(L) + Cardinality(W)
    <3> DEFINE V == Where(inv, a)
    <3>1. L \cup W = V
      BY <2>2
    <3> HIDE DEF V
    <3>2. Cardinality(V) = Cardinality(L) + Cardinality(W) - Cardinality(L \cap W)
      BY <2>5, <3>1
    <3>3. Cardinality(V) = Cardinality(L) + Cardinality(W)
      BY <2>6, <3>2
    <3> QED BY <3>3 DEF V
  <2>8. Count(a) = Cardinality({i \in Cells : Contents[i] = a}) /\ ground[a] \in Nat
    BY <1>1 DEF OwnCount, IInv, RestOK
  <2>9. Total(a) = Cardinality(L) + ground[a] + Cardinality(W)
    BY DEF Total, L, W
  <2> QED BY <2>6, <2>7, <2>8, <2>9 DEF Count
<1> QED BY <1>1, Invariance, OwnSteps, PTL

-----------------------------------------------------------------------------
(* XP.                                                                     *)

\* The XP of the weapons g of a list, one pair for each point.
Points(f, g) == {p \in Cells \X Nat : f[p[1]].item = g /\ p[2] \in 1..f[p[1]].xp}

XpOK(f, g, n) == IsFiniteSet(Points(f, g)) /\ Cardinality(Points(f, g)) <= n
XpInv         == \A g \in Guns : XpOK(inv, g, kills[g])

LEMMA XpIsPoints ==
  ASSUME IInv, NEW g \in Guns
  PROVE  XpOf(g) = Points(inv, g)
<1>1. ASSUME NEW p \in Points(inv, g) PROVE p \in XpOf(g)
  <2>1. p \in Cells \X Nat /\ inv[p[1]].item = g /\ p[2] \in 1..inv[p[1]].xp
    BY DEF Points
  <2>2. p[1] \in Holding(g) /\ p \in {p[1]} \X (1..inv[p[1]].xp)
    BY <2>1 DEF Holding
  <2> QED BY <2>2 DEF XpOf
<1>2. ASSUME NEW p \in XpOf(g) PROVE p \in Points(inv, g)
  <2>1. PICK i \in Holding(g) : p \in {i} \X (1..inv[i].xp)
    BY DEF XpOf
  <2>2. i \in Cells /\ inv[i].item = g /\ inv[i].xp \in Nat
    BY DEF Holding, IInv, Good, Stack
  <2>3. p[1] = i /\ p[2] \in 1..inv[i].xp /\ p \in Cells \X Nat
    BY <2>1, <2>2
  <2> QED BY <2>2, <2>3 DEF Points
<1> QED BY <1>1, <1>2

\* Writing stacks without XP, or with the XP they had, makes none.
LEMMA LessXp ==
  ASSUME NEW f, NEW h, NEW g, NEW n,
         \A i \in Cells : h[i].xp = 0 \/ (h[i].item = f[i].item /\ h[i].xp = f[i].xp),
         XpOK(f, g, n), n \in Nat
  PROVE  XpOK(h, g, n)
<1>1. Points(h, g) \in SUBSET Points(f, g)
  BY DEF Points
<1>2. IsFiniteSet(Points(h, g)) /\ Cardinality(Points(h, g)) <= Cardinality(Points(f, g))
  BY <1>1, FS_Subset DEF XpOK
<1>3. Cardinality(Points(h, g)) \in Nat /\ Cardinality(Points(f, g)) \in Nat
  BY <1>2, FS_CardinalityType DEF XpOK
<1> QED BY <1>2, <1>3 DEF XpOK

\* A point more on one stack.
LEMMA MoreXp ==
  ASSUME NEW f, NEW h, NEW g, NEW n \in Nat, NEW c \in Cells, f[c].xp \in Nat,
         h[c].xp = f[c].xp + 1, h[c].item = f[c].item,
         \A i \in Cells : i # c => h[i].item = f[i].item /\ h[i].xp = f[i].xp,
         XpOK(f, g, n)
  PROVE  XpOK(h, g, n + 1)
<1> DEFINE P == Points(f, g)
           Q == P \cup {<<c, f[c].xp + 1>>}
<1>1. Points(h, g) \in SUBSET Q
  BY DEF Points
<1>2. IsFiniteSet(P) /\ Cardinality(P) <= n /\ Cardinality(P) \in Nat
  BY FS_CardinalityType DEF XpOK
<1> HIDE DEF P
<1>3. IsFiniteSet(Q) /\ Cardinality(Q) <= n + 1 /\ Cardinality(Q) \in Nat
  <2>1. IsFiniteSet(Q) /\ (Cardinality(Q) = Cardinality(P) \/ Cardinality(Q) = Cardinality(P) + 1)
    BY <1>2, FS_AddElement
  <2> HIDE DEF Q
  <2> QED BY <1>2, <2>1
<1> HIDE DEF Q
<1>4. IsFiniteSet(Points(h, g)) /\ Cardinality(Points(h, g)) <= Cardinality(Q)
  BY <1>1, <1>3, FS_Subset
<1>5. Cardinality(Points(h, g)) \in Nat
  BY <1>4, FS_CardinalityType
<1> QED BY <1>3, <1>4, <1>5 DEF XpOK

\* Two stacks that change places keep their points.
LEMMA MovedXp ==
  ASSUME NEW f, NEW h, NEW g, NEW n \in Nat, NEW i \in Cells, NEW j \in Cells, i # j,
         h[i] = f[j], h[j] = f[i], SameButTwo(f, h, i, j), XpOK(f, g, n)
  PROVE  XpOK(h, g, n)
<1> DEFINE To(c) == IF c = i THEN j ELSE IF c = j THEN i ELSE c
           P == Points(f, g)
           Q == Points(h, g)
           F == [p \in P |-> <<To(p[1]), p[2]>>]
<1>1. \A c \in Cells : To(c) \in Cells /\ To(To(c)) = c /\ h[To(c)] = f[c]
  BY DEF SameButTwo
<1> HIDE DEF To
<1>2. \A p \in P : F[p] \in Q
  BY <1>1 DEF Points
<1>3. ASSUME NEW q \in Q PROVE \E p \in P : F[p] = q
  <2>1. /\ q \in Cells \X Nat /\ q = <<q[1], q[2]>>
        /\ h[q[1]].item = g /\ q[2] \in 1..h[q[1]].xp
    BY DEF Points
  <2> DEFINE p == <<To(q[1]), q[2]>>
  <2>2. p \in Cells \X Nat /\ p[1] = To(q[1]) /\ p[2] = q[2] /\ To(p[1]) = q[1]
    BY <1>1, <2>1
  <2>3. h[To(p[1])] = f[p[1]]
    BY <1>1, <2>2
  <2>4. p \in P
    BY <2>1, <2>2, <2>3 DEF Points
  <2> QED BY <2>1, <2>2, <2>4
<1>4. F \in Surjection(P, Q)
  BY <1>2, <1>3 DEF Surjection
<1>5. IsFiniteSet(P) /\ Cardinality(P) <= n
  BY DEF XpOK
<1> HIDE DEF P, Q, F
<1>6. IsFiniteSet(Q) /\ Cardinality(Q) <= Cardinality(P)
  BY <1>4, <1>5, FS_Surjection
<1>7. Cardinality(P) \in Nat /\ Cardinality(Q) \in Nat
  BY <1>5, <1>6, FS_CardinalityType
<1>8. Cardinality(Q) <= n
  BY <1>5, <1>6, <1>7
<1> QED BY <1>6, <1>8 DEF XpOK, Q

LEMMA XpInit == Init => XpInv
<1> SUFFICES ASSUME Init, NEW g \in Guns PROVE XpOK(inv, g, kills[g])
  BY DEF XpInv
<1>1. \A i \in Cells : inv[i].xp = 0
  BY DEF Init, Fresh
<1>2. \A n : n \notin 1..0
  OBVIOUS
<1>3. Points(inv, g) = {}
  BY <1>1, <1>2 DEF Points
<1>4. kills[g] = 0
  BY DEF Init
<1> QED BY <1>3, <1>4, FS_EmptySet DEF XpOK

\* No stack got XP.
NoMoreXp == \A i \in Cells : inv'[i].xp = 0 \/ (inv'[i].item = inv[i].item /\ inv'[i].xp = inv[i].xp)

LEMMA SameNoMore ==
  ASSUME \A i \in Cells : Same(inv'[i], inv[i])
  PROVE  NoMoreXp
BY DEF Same, Alike, NoMoreXp

LEMMA NoMoreStep ==
  ASSUME IInv, XpInv, NoMoreXp, UNCHANGED kills
  PROVE  XpInv'
<1> SUFFICES ASSUME NEW g \in Guns PROVE XpOK(inv', g, kills'[g])
  BY DEF XpInv
<1>1. kills[g] \in Nat /\ kills'[g] = kills[g] /\ XpOK(inv, g, kills[g])
  BY DEF IInv, RestOK, XpInv
<1> QED BY <1>1, LessXp DEF NoMoreXp

LEMMA ShootXp ==
  ASSUME IInv, XpInv, Shoot
  PROVE  XpInv'
<1>1. CASE kills' = kills /\ inv' = [inv EXCEPT ![wield] = Pulled(Loaded(inv[wield]))]
  <2>1. inv' \in [Cells -> Stack]
    BY ShootStep DEF IInv, Good
  <2>2. \A i \in Cells : Same(inv'[i], inv[i])
    BY <1>1, <2>1, ShotList
  <2> QED BY <1>1, <2>2, SameNoMore, NoMoreStep
<1>2. CASE /\ kills' = [kills EXCEPT ![inv[wield].item] = kills[inv[wield].item] + 1]
           /\ inv' = [AddXp(inv[wield].item, inv) EXCEPT ![wield] = Pulled(Loaded(inv[wield]))]
  <2>1. PICK w \in Guns : w = inv[wield].item
    BY DEF Shoot, IsGun
  <2>2. PICK c \in Cells : OneKill(inv', w, c)
    BY <1>2, <2>1, KillList
  <2>3. ASSUME NEW g \in Guns PROVE XpOK(inv', g, kills'[g])
    <3>1. /\ XpOK(inv, g, kills[g]) /\ kills[g] \in Nat
          /\ kills'[g] = IF g = w THEN kills[g] + 1 ELSE kills[g]
      BY <1>2, <2>1 DEF XpInv, IInv, RestOK
    <3>2. \A i \in Cells : i # c => inv'[i].item = inv[i].item /\ inv'[i].xp = inv[i].xp
      BY <2>2 DEF OneKill, Same, Alike
    <3>3. inv'[c].item = inv[c].item /\ inv[c].xp \in Nat
      BY <2>2 DEF OneKill, Alike, IInv, Good, Stack
    <3>4. CASE inv'[c].xp = inv[c].xp
      <4>1. \A i \in Cells : inv'[i].item = inv[i].item /\ inv'[i].xp = inv[i].xp
        BY <3>2, <3>3, <3>4
      <4>2. XpOK(inv', g, kills[g])
        BY <3>1, <4>1, LessXp
      <4>3. kills[g] <= kills'[g] /\ kills'[g] \in Nat
        BY <3>1
      <4> QED BY <3>1, <4>2, <4>3, FS_CardinalityType DEF XpOK
    <3>5. CASE inv'[c].xp = inv[c].xp + 1
      <4>1. CASE g = w
        <5>1. XpOK(inv', g, kills[g] + 1)
          BY <3>1, <3>2, <3>3, <3>5, MoreXp
        <5> QED BY <3>1, <4>1, <5>1
      <4>2. CASE g # w
        <5>1. Points(inv', g) = Points(inv, g)
          BY <2>2, <3>2, <3>3, <4>2 DEF Points, OneKill
        <5> QED BY <3>1, <4>2, <5>1 DEF XpOK
      <4> QED BY <4>1, <4>2
    <3> QED BY <2>2, <3>4, <3>5 DEF OneKill
  <2> QED BY <2>3 DEF XpInv
<1> QED BY <1>1, <1>2 DEF Shoot

LEMMA CarryXp ==
  ASSUME IInv, XpInv, \/ \E g \in Guns : Receive(g)
                      \/ \E a \in Accs : PickUp(a)
                      \/ \E i \in Cells : Select(i)
                      \/ OpenTable \/ CloseTable \/ FormExpires
  PROVE  XpInv'
<1>1. UNCHANGED kills
  BY DEF Receive, PickUp, Select, OpenTable, CloseTable, FormExpires
<1>2. NoMoreXp
  <2>1. ASSUME NEW x, inv' = [inv EXCEPT ![FirstIn(EmptyCells)] = Fresh(x)] PROVE NoMoreXp
    <3>1. Fresh(x).xp = 0 /\ inv \in [Cells -> Stack]
      BY DEF Fresh, IInv, Good
    <3> QED BY <2>1, <3>1 DEF NoMoreXp
  <2>2. ASSUME inv' = inv PROVE NoMoreXp
    BY <2>2 DEF NoMoreXp
  <2>3. \/ \E x : inv' = [inv EXCEPT ![FirstIn(EmptyCells)] = Fresh(x)]
        \/ inv' = inv
    BY DEF Receive, PickUp, Select, OpenTable, CloseTable, FormExpires
  <2> QED BY <2>1, <2>2, <2>3
<1> QED BY <1>1, <1>2, NoMoreStep

LEMMA SwapXp ==
  ASSUME IInv, XpInv, NEW i \in Cells, NEW j \in Cells, Swap(i, j)
  PROVE  XpInv'
<1>1. i # j /\ SameButTwo(inv, inv', i, j)
  BY DEF Swap, IInv, SameButTwo, Cells
<1>2. inv'[i] = inv[j] /\ inv'[j] = inv[i] /\ kills' = kills
  BY DEF Swap, IInv, Cells
<1>3. ASSUME NEW g \in Guns PROVE XpOK(inv', g, kills'[g])
  <2>1. XpOK(inv, g, kills[g]) /\ kills[g] \in Nat /\ kills'[g] = kills[g]
    BY <1>2 DEF XpInv, IInv, RestOK
  <2> QED BY <1>1, <1>2, <2>1, MovedXp
<1> QED BY <1>3 DEF XpInv

LEMMA UpgradeXp ==
  ASSUME IInv, XpInv, (\E k \in AccSlots : Unequip(k)) \/ \E a \in Accs : Equip(a)
  PROVE  XpInv'
<1>1. inv \in [Cells -> Stack] /\ session.cell \in Cells /\ UNCHANGED kills
  BY DEF Unequip, Equip, IInv, RestOK, Good
<1>2. PICK c \in Cells : c = session.cell
  BY <1>1
<1>3. /\ \A x : Fresh(x).xp = 0
      /\ Nothing.xp = 0
  BY DEF Fresh, Nothing
<1>4. CASE \E k \in AccSlots : Unequip(k)
  <2>1. PICK k \in AccSlots : Unequip(k)
    BY <1>4
  <2> DEFINE v == Worn(inv[c], k, None)
  <2>2. v.item = inv[c].item /\ v.xp = inv[c].xp
    <3>1. inv[c] \in Stack /\ None \in Accs \cup {None}
      BY <1>1
    <3> QED BY <3>1, WornIs
  <2>3. v = Refreshed([inv[c] EXCEPT !.acc[k] = None])
    BY DEF Worn
  <2>4. \/ inv' = [inv EXCEPT ![FirstIn(EmptyCells)] = Fresh(inv[c].acc[k]), ![c] = v]
        \/ inv' = [inv EXCEPT ![c] = v]
    BY <1>2, <2>1, <2>3 DEF Unequip
  <2> HIDE DEF v
  <2>5. NoMoreXp
    BY <1>1, <1>3, <2>2, <2>4 DEF NoMoreXp
  <2> QED BY <1>1, <2>5, NoMoreStep
<1>5. CASE \E a \in Accs : Equip(a)
  <2>1. PICK x \in Accs : Equip(x)
    BY <1>5
  <2> DEFINE v == Worn(inv[c], SlotOf[x], x)
             old == inv[c].acc[SlotOf[x]]
             out == LastIn(Holding(x) \cup (IF old = x /\ EmptyCells # {}
                                            THEN {FirstIn(EmptyCells)} ELSE {}))
  <2>2. v.item = inv[c].item /\ v.xp = inv[c].xp
    <3>1. inv[c] \in Stack /\ SlotOf[x] \in AccSlots /\ x \in Accs \cup {None}
      BY <1>1, Constants
    <3> QED BY <3>1, WornIs
  <2>3. v = Refreshed([inv[c] EXCEPT !.acc[SlotOf[x]] = x])
    BY DEF Worn
  <2>4. \/ inv' = [inv EXCEPT ![LastIn(Holding(x))] = Nothing, ![c] = v]
        \/ inv' = [inv EXCEPT ![FirstIn(EmptyCells)] = Fresh(old), ![out] = Nothing, ![c] = v]
    BY <1>2, <2>1, <2>3 DEF Equip, Fit
  <2> HIDE DEF v, old, out
  <2>5. NoMoreXp
    BY <1>1, <1>3, <2>2, <2>4 DEF NoMoreXp
  <2> QED BY <1>1, <2>5, NoMoreStep
<1> QED BY <1>4, <1>5

\* XP is not invented: the weapons of a kind hold together at most a point for
\* each kill, whoever writes the stacks back and however often they change
\* cells (tgw_combat 186-223, 686-696).
THEOREM NoXpInvented == Spec => []XpFromKills
<1>1. ASSUME IInv, XpInv, Next PROVE XpInv'
  <2>1. CASE TickInit \/ Pass
    <3>1. UNCHANGED kills
      BY <2>1 DEF TickInit, Pass
    <3> QED BY <1>1, <2>1, <3>1, TimeSame, SameNoMore, NoMoreStep
  <2> QED BY <1>1, <2>1, ShootXp, CarryXp, SwapXp, UpgradeXp DEF Next, Player, Table
<1>2. ASSUME XpInv, UNCHANGED vars PROVE XpInv'
  BY <1>2 DEF XpInv, vars
<1>3. IInv /\ XpInv /\ [Next]_vars => XpInv'
  BY <1>1, <1>2
<1>4. IInv /\ XpInv => XpFromKills
  BY XpIsPoints DEF XpInv, XpOK, XpFromKills
<1> QED BY <1>3, <1>4, XpInit, Invariance, PTL DEF Spec
=============================================================================
