---------------------------- MODULE WeaponProofs ----------------------------
(***************************************************************************)
(* Proofs about Weapon, for any inventory, weapons and accessories: the    *)
(* types, and that an empty firearm is always being reloaded.              *)
(***************************************************************************)
EXTENDS Weapon, TLAPS

\* The invariant stack by stack: every writer puts a good stack back.
Good == {st \in Stack : IsGun(st) /\ st.ammo = 0 => st.reload >= 0}

RestOK ==
  /\ wield \in Cells /\ session \in [gun : Guns \cup {None}, cell : Cells]
  /\ ground \in [Accs -> Nat] /\ kills \in [Guns -> Nat]

IInv == inv \in [Cells -> Good] /\ RestOK

\* Facts about the constants in the form the steps need them.
LEMMA Constants ==
  /\ Size \in Nat /\ Size >= 1 /\ MagSize \in Nat /\ MagSize >= 1
  /\ \A a \in Accs : MagWith[a] \in Nat /\ MagWith[a] >= 1 /\ SlotOf[a] \in AccSlots
  /\ ReloadTime \in Nat /\ ReloadTime >= 1
  /\ \A i \in Cells : Contents[i] \in Items
  /\ Accs \subseteq Items /\ None \in Items
  /\ \A a \in Accs \cup {None} : a \notin Guns
BY WeaponAssumption DEF Items

LEMMA FirstCell == 1 \in Cells
<1>1. Size \in Nat /\ Size >= 1
  BY Constants
<1> QED BY <1>1 DEF Cells

\* The magazine of a weapon holds a round at least.
LEMMA MagazineSize ==
  ASSUME NEW st
  PROVE  Magazine(st) \in Nat /\ Magazine(st) >= 1
<1>1. CASE Fitted(st) = {}
  BY <1>1, Constants DEF Magazine
<1>2. CASE Fitted(st) # {}
  <2>1. (CHOOSE a \in Fitted(st) : TRUE) \in Fitted(st)
    BY <1>2
  <2>2. (CHOOSE a \in Fitted(st) : TRUE) \in Accs
    BY <2>1 DEF Fitted
  <2> QED BY <1>2, <2>2, Constants DEF Magazine
<1> QED BY <1>1, <1>2

LEMMA FreshGood ==
  ASSUME NEW x \in Items
  PROVE  Fresh(x) \in Good
<1>1. -1 \in Nat \cup {-1} /\ -1 \in -1..ReloadTime /\ 0 \in Nat /\ -1 # 0
  BY Constants
<1>2. [k \in AccSlots |-> None] \in [AccSlots -> Accs \cup {None}]
  OBVIOUS
<1> QED BY <1>1, <1>2 DEF Fresh, Good, Stack

\* Setting a magazine and a reload together gives a good stack when one of them
\* is not empty.
LEMMA SetGood ==
  ASSUME NEW st \in Stack, NEW n \in Nat, NEW r \in -1..ReloadTime, n > 0 \/ r >= 0
  PROVE  Rounds(st, n, r) \in Good
<1>1. /\ st.item \in Items /\ st.xp \in Nat /\ st.acc \in [AccSlots -> Accs \cup {None}]
  BY DEF Stack
<1>2. Rounds(st, n, r) \in Stack
  BY <1>1 DEF Rounds, Stack
<1>3. Rounds(st, n, r).ammo = n /\ Rounds(st, n, r).reload = r
  BY DEF Rounds
<1>4. Rounds(st, n, r).ammo = 0 => Rounds(st, n, r).reload >= 0
  BY <1>3
<1> QED BY <1>2, <1>4 DEF Good

LEMMA RefreshedGood ==
  ASSUME NEW st \in Stack, IsGun(st) /\ st.ammo = 0 => st.reload >= 0
  PROVE  Refreshed(st) \in Good
<1>1. CASE st.ammo = -1
  <2>1. Magazine(st) \in Nat /\ Magazine(st) > 0
    BY MagazineSize
  <2>2. Refreshed(st) = [st EXCEPT !.ammo = Magazine(st)]
    BY <1>1 DEF Refreshed
  <2> QED BY <2>1, <2>2 DEF Good, Stack
<1>2. CASE st.ammo # -1
  BY <1>2 DEF Refreshed, Good
<1> QED BY <1>1, <1>2

\* A refilled stack, by the shot's check or by the tick.
LEMMA RefillGood ==
  ASSUME NEW st \in Stack, NEW m \in Nat, m >= 1
  PROVE  Rounds(st, m, -1) \in Good
<1>1. -1 \in -1..ReloadTime /\ m > 0
  BY Constants
<1> QED BY <1>1, SetGood

LEMMA LoadedGood ==
  ASSUME NEW st \in Good
  PROVE  Loaded(st) \in Good
<1>1. CASE st.reload = 0
  <2>1. Magazine(st) \in Nat /\ Magazine(st) >= 1 /\ st \in Stack
    BY MagazineSize DEF Good
  <2> QED BY <1>1, <2>1, RefillGood DEF Loaded
<1>2. CASE st.reload # 0
  BY <1>2, RefreshedGood DEF Loaded, Good
<1> QED BY <1>1, <1>2

LEMMA TickedGood ==
  ASSUME NEW st \in Good
  PROVE  Ticked(st) \in Good
<1>1. st \in Stack /\ MagSize \in Nat /\ MagSize >= 1
  BY Constants DEF Good
<1>2. CASE st.reload = 0
  BY <1>1, <1>2, RefillGood DEF Ticked
<1>3. CASE st.reload # 0
  BY <1>3, RefreshedGood DEF Ticked, Good
<1> QED BY <1>2, <1>3

\* A trigger pulled on a stack whose magazine is set.
LEMMA PullGood ==
  ASSUME NEW st \in Good, st.ammo \in Nat
  PROVE  Pulled(st) \in Good
<1>1. /\ st \in Stack /\ st.reload \in -1..ReloadTime
      /\ ReloadTime \in -1..ReloadTime /\ ReloadTime >= 0
  BY Constants DEF Good, Stack
<1>2. CASE st.ammo <= 0
  <2>1. Pulled(st) = [st EXCEPT !.reload = ReloadTime]
    BY <1>2 DEF Pulled
  <2> QED BY <1>1, <2>1 DEF Good, Stack
<1>3. CASE st.ammo = 1
  <2>1. Pulled(st) = Rounds(st, 0, ReloadTime)
    BY <1>3 DEF Pulled
  <2> QED BY <1>1, <2>1, SetGood
<1>4. CASE st.ammo > 1
  <2>1. st.ammo - 1 \in Nat /\ st.ammo - 1 > 0
    BY <1>4
  <2>2. Pulled(st) = Rounds(st, st.ammo - 1, st.reload)
    BY <1>4 DEF Pulled
  <2> QED BY <1>1, <2>1, <2>2, SetGood
<1> QED BY <1>2, <1>3, <1>4

\* The copy on_use returns.
LEMMA PulledGood ==
  ASSUME NEW g \in Good
  PROVE  Pulled(Loaded(g)) \in Good
<1>1. Magazine(g) \in Nat
  BY MagazineSize
<1>2. CASE g.reload = 0
  <2>1. Loaded(g).ammo = Magazine(g)
    BY <1>2 DEF Loaded, Rounds
  <2> QED BY <1>1, <2>1, LoadedGood, PullGood
<1>3. CASE g.reload # 0
  <2>1. Loaded(g) = Refreshed(g)
    BY <1>3 DEF Loaded
  <2>2. Refreshed(g).ammo \in Nat
    BY <1>1 DEF Refreshed, Good, Stack
  <2> QED BY <2>1, <2>2, LoadedGood, PullGood
<1> QED BY <1>2, <1>3

\* One cell written with a good stack; EXCEPT at no cell changes nothing.
LEMMA PutGood ==
  ASSUME NEW f \in [Cells -> Good], NEW i, NEW v \in Good
  PROVE  [f EXCEPT ![i] = v] \in [Cells -> Good]
OBVIOUS

LEMMA AddXpGood ==
  ASSUME NEW f \in [Cells -> Good], NEW g
  PROVE  AddXp(g, f) \in [Cells -> Good]
<1> DEFINE first == FirstIn({i \in Cells : f[i].item = g})
           v == [Refreshed(f[first]) EXCEPT !.xp = @ + 1]
<1>1. AddXp(g, f) = [f EXCEPT ![first] = v]
  BY DEF AddXp
<1>2. CASE first \in Cells
  <2>1. f[first] \in Good
    BY <1>2
  <2>2. Refreshed(f[first]) \in Good
    BY <2>1, RefreshedGood DEF Good
  <2>3. v \in Good
    <3> DEFINE s == Refreshed(f[first])
               n == s.xp + 1
    <3>1. s \in Stack /\ n \in Nat /\ v = [s EXCEPT !.xp = n]
      BY <2>2 DEF Good, Stack
    <3>2. IsGun(s) /\ s.ammo = 0 => s.reload >= 0
      BY <2>2 DEF Good
    <3> HIDE DEF s, n, v
    <3>3. v \in Stack /\ v.item = s.item /\ v.ammo = s.ammo /\ v.reload = s.reload
      BY <3>1 DEF Stack
    <3> QED BY <3>2, <3>3 DEF Good, IsGun
  <2> QED BY <1>1, <2>3, PutGood
<1>3. CASE first \notin Cells
  <2>1. [f EXCEPT ![first] = v] = f
    BY <1>3
  <2> QED BY <1>1, <2>1
<1> QED BY <1>2, <1>3

\* Fitting or removing an accessory leaves magazine and reload alone.
LEMMA FittedGood ==
  ASSUME NEW st \in Good, NEW k \in AccSlots, NEW a \in Accs \cup {None}
  PROVE  Refreshed([st EXCEPT !.acc[k] = a]) \in Good
<1> DEFINE t == [st EXCEPT !.acc = [st.acc EXCEPT ![k] = a]]
<1>1. t = [st EXCEPT !.acc[k] = a]
  BY DEF Good, Stack
<1>2. t \in Stack /\ t.item = st.item /\ t.ammo = st.ammo /\ t.reload = st.reload
  BY DEF Good, Stack
<1>3. IsGun(t) /\ t.ammo = 0 => t.reload >= 0
  BY <1>2 DEF Good, IsGun
<1>4. Refreshed(t) \in Good
  BY <1>2, <1>3, RefreshedGood
<1> QED BY <1>1, <1>4

LEMMA InitInv == Init => IInv
<1> SUFFICES ASSUME Init PROVE IInv
  OBVIOUS
<1>1. inv \in [Cells -> Good]
  BY Constants, FreshGood DEF Init
<1>2. RestOK
  BY FirstCell DEF Init, RestOK, NoSession
<1> QED BY <1>1, <1>2 DEF IInv

LEMMA ShootStep ==
  ASSUME IInv, Shoot
  PROVE  IInv'
<1>1. wield \in Cells /\ inv[wield] \in Good
  BY DEF IInv, RestOK
<1>2. Pulled(Loaded(inv[wield])) \in Good
  BY <1>1, PulledGood
<1>3. AddXp(inv[wield].item, inv) \in [Cells -> Good]
  BY AddXpGood DEF IInv
<1>4. inv' \in [Cells -> Good]
  <2>1. \/ inv' = [inv EXCEPT ![wield] = Pulled(Loaded(inv[wield]))]
        \/ inv' = [AddXp(inv[wield].item, inv) EXCEPT ![wield] = Pulled(Loaded(inv[wield]))]
    BY DEF Shoot
  <2> QED BY <1>2, <1>3, <2>1, PutGood DEF IInv
<1>5. RestOK'
  BY DEF Shoot, RestOK, IInv
<1> QED BY <1>4, <1>5 DEF IInv

LEMMA TimeStep ==
  ASSUME IInv, TickInit \/ Pass
  PROVE  IInv'
<1>1. RestOK'
  BY DEF TickInit, Pass, RestOK, IInv
<1>2. CASE TickInit
  <2>1. \A i \in Cells : Ticked(inv[i]) \in Good
    BY TickedGood DEF IInv
  <2> QED BY <1>1, <1>2, <2>1 DEF TickInit, IInv
<1>3. CASE Pass
  <2>1. \A i \in Cells : inv[i].reload > 0 => [inv[i] EXCEPT !.reload = inv[i].reload - 1] \in Good
    <3> SUFFICES ASSUME NEW i \in Cells, inv[i].reload > 0
                 PROVE  [inv[i] EXCEPT !.reload = inv[i].reload - 1] \in Good
      OBVIOUS
    <3>1. inv[i] \in Stack /\ inv[i].reload \in -1..ReloadTime
      BY DEF IInv, Good, Stack
    <3>2. inv[i].reload - 1 \in -1..ReloadTime /\ inv[i].reload - 1 >= 0
      BY <3>1, Constants
    <3> QED BY <3>1, <3>2 DEF Good, Stack
  <2>2. inv' = [i \in Cells |-> IF inv[i].reload > 0 THEN [inv[i] EXCEPT !.reload = inv[i].reload - 1]
                                                     ELSE inv[i]]
    BY <1>3 DEF Pass
  <2>3. inv' \in [Cells -> Good]
    BY <2>1, <2>2 DEF IInv
  <2> QED BY <1>1, <2>3 DEF IInv
<1> QED BY <1>2, <1>3

LEMMA TableStep ==
  ASSUME IInv, Table
  PROVE  IInv'
<1>1. inv \in [Cells -> Good] /\ RestOK
  BY DEF IInv
<1>2. session.cell \in Cells /\ inv[session.cell] \in Good
  BY <1>1 DEF RestOK
<1>3. CASE OpenTable \/ CloseTable \/ FormExpires
  <2>1. inv' = inv
    BY <1>3 DEF OpenTable, CloseTable, FormExpires
  <2>2. RestOK'
    BY <1>1, <1>3, FirstCell
    DEF OpenTable, CloseTable, FormExpires, RestOK, NoSession, WieldsWeapon, IsGun
  <2> QED BY <1>1, <2>1, <2>2 DEF IInv
<1>4. ASSUME NEW k \in AccSlots, Unequip(k) PROVE IInv'
  <2> DEFINE a == inv[session.cell].acc[k]
             bare == Refreshed([inv[session.cell] EXCEPT !.acc[k] = None])
  <2>1. a \in Accs
    BY <1>2, <1>4 DEF Unequip, Good, Stack
  <2>2. bare \in Good /\ Fresh(a) \in Good
    BY <1>2, <2>1, FittedGood, FreshGood, Constants
  <2>3. \/ inv' = [inv EXCEPT ![FirstIn(EmptyCells)] = Fresh(a), ![session.cell] = bare]
        \/ inv' = [inv EXCEPT ![session.cell] = bare]
    BY <1>4 DEF Unequip
  <2>4. inv' \in [Cells -> Good]
    <3> HIDE DEF a, bare
    <3> QED BY <1>1, <2>2, <2>3
  <2>5. RestOK'
    <3>1. ground' = ground \/ ground' = [ground EXCEPT ![a] = ground[a] + 1]
      BY <1>4 DEF Unequip
    <3>2. UNCHANGED <<wield, session, kills>>
      BY <1>4 DEF Unequip
    <3> HIDE DEF a
    <3> QED BY <1>1, <2>1, <3>1, <3>2 DEF RestOK
  <2> QED BY <2>4, <2>5 DEF IInv
<1>5. ASSUME NEW a \in Accs, Equip(a) PROVE IInv'
  <2> DEFINE c   == session.cell
             old == inv[c].acc[SlotOf[a]]
             fit == Refreshed([inv[c] EXCEPT !.acc[SlotOf[a]] = a])
             out == LastIn(Holding(a) \cup (IF old = a /\ EmptyCells # {}
                                            THEN {FirstIn(EmptyCells)} ELSE {}))
  <2>1. SlotOf[a] \in AccSlots
    BY Constants
  <2>2. old \in Accs \cup {None}
    BY <1>2, <2>1 DEF Good, Stack
  <2>3. fit \in Good /\ Fresh(old) \in Good /\ Nothing \in Good
    BY <1>2, <2>1, <2>2, FittedGood, FreshGood, Constants DEF Nothing
  <2>4. \/ inv' = [inv EXCEPT ![LastIn(Holding(a))] = Nothing, ![c] = fit]
        \/ inv' = [inv EXCEPT ![FirstIn(EmptyCells)] = Fresh(old), ![out] = Nothing, ![c] = fit]
    BY <1>5 DEF Equip, Fit
  <2>5. inv' \in [Cells -> Good]
    <3> HIDE DEF c, old, fit, out
    <3> QED BY <1>1, <2>3, <2>4
  <2>6. RestOK'
    <3>1. ground' = ground \/ (old # None /\ ground' = [ground EXCEPT ![old] = ground[old] + 1])
      BY <1>5 DEF Equip, Fit
    <3>2. UNCHANGED <<wield, session, kills>>
      BY <1>5 DEF Equip
    <3> HIDE DEF old
    <3> QED BY <1>1, <2>2, <3>1, <3>2 DEF RestOK
  <2> QED BY <2>5, <2>6 DEF IInv
<1> QED BY <1>3, <1>4, <1>5 DEF Table

LEMMA CarryStep ==
  ASSUME IInv, \/ \E i \in Cells : Select(i) \/ \E j \in Cells : Swap(i, j)
               \/ \E g \in Guns : Receive(g)
               \/ \E a \in Accs : PickUp(a)
  PROVE  IInv'
<1>1. inv \in [Cells -> Good] /\ RestOK
  BY DEF IInv
<1>2. ASSUME NEW i \in Cells, Select(i) PROVE IInv'
  BY <1>1, <1>2 DEF Select, IInv, RestOK
<1>3. ASSUME NEW i \in Cells, NEW j \in Cells, Swap(i, j) PROVE IInv'
  BY <1>1, <1>3 DEF Swap, IInv, RestOK
<1>4. ASSUME NEW a \in Accs, PickUp(a) PROVE IInv'
  <2>1. Fresh(a) \in Good
    BY FreshGood, Constants
  <2>2. inv' = [inv EXCEPT ![FirstIn(EmptyCells)] = Fresh(a)]
    BY <1>4 DEF PickUp
  <2>3. inv' \in [Cells -> Good]
    BY <1>1, <2>1, <2>2, PutGood
  <2>4. RestOK'
    BY <1>1, <1>4 DEF PickUp, RestOK
  <2> QED BY <2>3, <2>4 DEF IInv
<1>5. ASSUME NEW g \in Guns, Receive(g) PROVE IInv'
  <2>1. Fresh(g) \in Good
    BY FreshGood DEF Items
  <2>2. inv' \in [Cells -> Good]
    BY <1>1, <1>5, <2>1, PutGood DEF Receive
  <2>3. RestOK'
    BY <1>1, <1>5 DEF Receive, RestOK
  <2> QED BY <2>2, <2>3 DEF IInv
<1> QED BY <1>2, <1>3, <1>4, <1>5

\* IInv holds in every state.
THEOREM Invariance == Spec => []IInv
<1>1. ASSUME IInv, Next PROVE IInv'
  BY <1>1, ShootStep, TimeStep, TableStep, CarryStep DEF Next, Player
<1>2. ASSUME IInv, UNCHANGED vars PROVE IInv'
  BY <1>2 DEF IInv, RestOK, vars
<1>3. IInv /\ [Next]_vars => IInv'
  BY <1>1, <1>2
<1> QED BY <1>3, InitInv, PTL DEF Spec

\* The type invariant, for any inventory.
THEOREM TypeCorrect == Spec => []TypeOK
<1>1. IInv => TypeOK
  BY DEF IInv, RestOK, TypeOK, Good
<1> QED BY <1>1, Invariance, PTL

\* A firearm whose magazine is empty is being reloaded, whichever of the shot,
\* the tick, the upgrade table and the player wrote its stack last
\* (tgw_combat 318-340, 699-725, 941-1004).
THEOREM NoDeadWeapon == Spec => []EmptyMeansReloading
<1>1. IInv => EmptyMeansReloading
  BY DEF IInv, EmptyMeansReloading, Good, Reloading
<1> QED BY <1>1, Invariance, PTL
=============================================================================
