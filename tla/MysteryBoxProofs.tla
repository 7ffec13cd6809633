-------------------------- MODULE MysteryBoxProofs --------------------------
(***************************************************************************)
(* Proofs about MysteryBox, for any number of boxes, players and spinners: *)
(* the types, one spinner to a box, prizes paid for, the house's box.      *)
(***************************************************************************)
EXTENDS MysteryBox, FiniteSetTheorems, TLAPS

\* Why one spinner per box: the node does not say whether a box is in use (the
\* LBM and the placing callbacks close it under a spinner), crate_busy does.
BusyWhileSpinning == \A s \in Slots : Turning(s) => spin[s].box \in busy

IInv == TypeOK /\ BusyWhileSpinning /\ OneSpinPerBox

LEMMA Shapes ==
  /\ NoSpin \in Spinner /\ NoSpin.phase = "none"
  /\ House \in Boxes
  /\ NoBoxes \in [Boxes -> {"closed", "open", "gone"}]
<1>1. PICK p \in Players : (CHOOSE q \in Players : TRUE) = p
  BY BoxAssumption, Zenon
<1>2. House \in Boxes
  BY DEF Boxes
<1> QED BY <1>1, <1>2 DEF NoSpin, Spinner, NoBoxes

\* What a spinner that ends leaves behind, with its box freed or not.
LEMMA FewerSpinners ==
  ASSUME IInv, NEW S \in SUBSET Slots, spin' = Without(S),
         \A s \in Slots : Turning(s) /\ s \notin S => spin[s].box \in busy'
  PROVE  spin' \in [Slots -> Spinner] /\ BusyWhileSpinning' /\ OneSpinPerBox'
<1>1. spin' \in [Slots -> Spinner]
  BY Shapes DEF IInv, TypeOK, Without
<1>2. \A s \in Slots : Turning(s)' => s \notin S /\ Turning(s) /\ spin'[s] = spin[s]
  BY Shapes DEF Without, Turning
<1>3. BusyWhileSpinning'
  BY <1>2 DEF BusyWhileSpinning
<1>4. OneSpinPerBox'
  BY <1>2 DEF OneSpinPerBox, IInv
<1> QED BY <1>1, <1>3, <1>4

\* No spinner turns: a reset or a new process.
LEMMA NoSpinners ==
  ASSUME spin' = [s \in Slots |-> NoSpin]
  PROVE  spin' \in [Slots -> Spinner] /\ BusyWhileSpinning' /\ OneSpinPerBox'
<1>1. \A s \in Slots : ~Turning(s)'
  BY Shapes DEF Turning
<1> QED BY <1>1, Shapes DEF BusyWhileSpinning, OneSpinPerBox

\* Steps that touch neither spinners nor crate_busy.
LEMMA SameSpinners ==
  ASSUME IInv, spin' = spin, busy' = busy
  PROVE  spin' \in [Slots -> Spinner] /\ BusyWhileSpinning' /\ OneSpinPerBox'
BY DEF IInv, TypeOK, BusyWhileSpinning, OneSpinPerBox, Turning

\* Freeing a box as its spinner ends frees no other spinner's box.
LEMMA CleanupStep ==
  ASSUME IInv, NEW s \in Slots, Turning(s), Cleanup(spin[s].box), spin' = Without({s})
  PROVE  /\ spin' \in [Slots -> Spinner] /\ BusyWhileSpinning' /\ OneSpinPerBox'
         /\ busy' \subseteq Boxes /\ node' \in [Boxes -> {"closed", "open", "gone"}]
<1>1. \A t \in Slots : Turning(t) /\ t \notin {s} => spin[t].box \in busy'
  BY DEF IInv, BusyWhileSpinning, OneSpinPerBox, Cleanup
<1>2. spin' \in [Slots -> Spinner] /\ BusyWhileSpinning' /\ OneSpinPerBox'
  BY <1>1, FewerSpinners, {s} \in SUBSET Slots
<1>3. busy' \subseteq Boxes /\ node' \in [Boxes -> {"closed", "open", "gone"}]
  BY DEF IInv, TypeOK, Cleanup
<1> QED BY <1>2, <1>3

\* The part of the type invariant that says nothing of spinners.
RestOK ==
  /\ perils \in Worlds
  /\ proc \in {"up", "down"} /\ online \subseteq Players
  /\ node \in [Boxes -> {"closed", "open", "gone"}]
  /\ block \in [Boxes -> {"active", "loaded", "out"}]
  /\ busy \subseteq Boxes
  /\ flags \subseteq {"built", "house", "towers"}
  /\ timers \in [Callback -> Nat] /\ match \in {"lobby", "run", "reset"}
  /\ paid \in [Players -> Nat] /\ taken \in [Players -> Nat]

LEMMA TypeParts == TypeOK <=> RestOK /\ spin \in [Slots -> Spinner]
BY DEF TypeOK, RestOK

LEMMA InitInv == Init => IInv
<1> SUFFICES ASSUME Init PROVE IInv
  OBVIOUS
<1>1. \A s \in Slots : ~Turning(s)
  BY Shapes DEF Init, Turning
<1>2. RestOK
  BY Shapes DEF Init, RestOK
<1>3. spin \in [Slots -> Spinner]
  BY Shapes DEF Init
<1> QED BY <1>1, <1>2, <1>3, TypeParts DEF IInv, BusyWhileSpinning, OneSpinPerBox

LEMMA SpinnerSteps ==
  ASSUME IInv, NEW s \in Slots, Reveal(s) \/ TimeOut(s)
  PROVE  IInv'
<1>1. RestOK /\ spin \in [Slots -> Spinner]
  BY TypeParts DEF IInv
<1>2. CASE Reveal(s)
  <2>1. Turning(s) /\ spin' = [spin EXCEPT ![s].phase = "reveal"] /\ busy' = busy
    BY <1>2 DEF Reveal, Turning
  <2>2. spin' \in [Slots -> Spinner]
    BY <1>1, <2>1 DEF Spinner
  <2>3. \A t \in Slots : (Turning(t)' <=> Turning(t)) /\ spin'[t].box = spin[t].box
    BY <1>1, <2>1 DEF Turning, Spinner
  <2>4. RestOK'
    BY <1>1, <1>2 DEF Reveal, RestOK, mapVars, flagVars, tally
  <2>5. BusyWhileSpinning' /\ OneSpinPerBox'
    BY <2>1, <2>3 DEF IInv, BusyWhileSpinning, OneSpinPerBox
  <2> QED BY <2>2, <2>4, <2>5 DEF IInv, TypeOK, RestOK
<1>3. CASE TimeOut(s)
  <2>1. Turning(s) /\ Cleanup(spin[s].box) /\ spin' = Without({s})
    BY <1>3 DEF TimeOut, Turning
  <2>2. /\ spin' \in [Slots -> Spinner] /\ BusyWhileSpinning' /\ OneSpinPerBox'
        /\ busy' \subseteq Boxes /\ node' \in [Boxes -> {"closed", "open", "gone"}]
    BY <2>1, CleanupStep
  <2>3. RestOK'
    BY <1>1, <1>3, <2>2 DEF TimeOut, RestOK, flagVars, tally
  <2> QED BY <2>2, <2>3 DEF IInv, TypeOK, RestOK
<1> QED BY <1>2, <1>3

LEMMA CustomerSteps ==
  ASSUME IInv, Customers
  PROVE  IInv'
<1>1. RestOK /\ spin \in [Slots -> Spinner]
  BY TypeParts DEF IInv
<1>2. ASSUME NEW p \in Players, Join(p) PROVE IInv'
  <2>0. timers' \in [Callback -> Nat]
    BY <1>1, <1>2 DEF Join, RestOK, Callback
  <2>1. RestOK'
    BY <1>1, <1>2, <2>0 DEF Join, RestOK, mapVars, tally
  <2>2. spin' = spin /\ busy' = busy
    BY <1>2 DEF Join
  <2> QED BY <2>1, <2>2, SameSpinners DEF IInv, TypeOK, RestOK
<1>3. ASSUME NEW p \in Players, Leave(p) PROVE IInv'
  <2>1. RestOK'
    BY <1>1, <1>3 DEF Leave, RestOK, mapVars, flagVars, tally
  <2>2. spin' = spin /\ busy' = busy
    BY <1>3 DEF Leave
  <2> QED BY <2>1, <2>2, SameSpinners DEF IInv, TypeOK, RestOK
<1>4. ASSUME NEW p \in Players, NEW b \in Boxes, Roll(p, b) PROVE IInv'
  <2>1. RestOK'
    BY <1>1, <1>4 DEF Roll, RestOK, flagVars
  <2>2. PICK s \in Slots :
          /\ ~Turning(s)
          /\ spin' = [spin EXCEPT ![s] = [phase |-> "spin", box |-> b, owner |-> p]]
    BY <1>4 DEF Roll
  <2>3. spin' \in [Slots -> Spinner]
    BY <1>1, <2>2 DEF Spinner
  <2>4. spin'[s].box = b /\ \A t \in Slots : t # s => spin'[t] = spin[t]
    BY <1>1, <2>2
  <2>5. busy' = busy \cup {b} /\ b \notin busy
    BY <1>4 DEF Roll, NotBusy
  <2>6. \A t \in Slots : t # s /\ Turning(t)' => Turning(t) /\ spin'[t].box \in busy
    BY <2>4 DEF IInv, BusyWhileSpinning, Turning
  <2>7. BusyWhileSpinning'
    BY <2>4, <2>5, <2>6 DEF BusyWhileSpinning
  <2>8. OneSpinPerBox'
    BY <2>4, <2>5, <2>6 DEF OneSpinPerBox, IInv
  <2> QED BY <2>1, <2>3, <2>7, <2>8 DEF IInv, TypeOK, RestOK
<1>5. ASSUME NEW p \in Players, NEW s \in Slots, Take(p, s) PROVE IInv'
  <2>1. Turning(s) /\ Cleanup(spin[s].box) /\ spin' = Without({s})
    BY <1>5 DEF Take, Turning
  <2>2. /\ spin' \in [Slots -> Spinner] /\ BusyWhileSpinning' /\ OneSpinPerBox'
        /\ busy' \subseteq Boxes /\ node' \in [Boxes -> {"closed", "open", "gone"}]
    BY <2>1, CleanupStep
  <2>3. RestOK'
    BY <1>1, <1>5, <2>2 DEF Take, RestOK, flagVars
  <2> QED BY <2>2, <2>3 DEF IInv, TypeOK, RestOK
<1>6. ASSUME NEW s \in Slots, Blow(s) PROVE IInv'
  <2>1. spin' = Without({s}) /\ busy' = busy
    BY <1>6 DEF Blow
  <2>2. \A t \in Slots : Turning(t) /\ t \notin {s} => spin[t].box \in busy'
    BY <2>1 DEF IInv, BusyWhileSpinning
  <2>3. spin' \in [Slots -> Spinner] /\ BusyWhileSpinning' /\ OneSpinPerBox'
    BY <2>1, <2>2, FewerSpinners, {s} \in SUBSET Slots
  <2>4. RestOK'
    BY <1>1, <1>6 DEF Blow, RestOK, mapVars, flagVars, tally
  <2> QED BY <2>3, <2>4 DEF IInv, TypeOK, RestOK
<1> QED BY <1>2, <1>3, <1>4, <1>5, <1>6 DEF Customers

LEMMA EngineSteps ==
  ASSUME IInv, Engine
  PROVE  IInv'
<1>1. RestOK /\ spin \in [Slots -> Spinner]
  BY TypeParts DEF IInv
<1>2. ASSUME NEW b \in Boxes, Deactivate(b) \/ Activate(b) PROVE IInv'
  <2>1. RestOK'
    BY <1>1, <1>2 DEF Deactivate, Activate, RestOK, flagVars, tally
  <2>2. spin' = spin /\ busy' = busy
    BY <1>2 DEF Deactivate, Activate
  <2> QED BY <2>1, <2>2, SameSpinners DEF IInv, TypeOK, RestOK
<1>3. ASSUME NEW b \in Boxes, Unload(b) PROVE IInv'
  <2>1. spin' = Without(Over(b)) /\ busy' = busy
    BY <1>3 DEF Unload
  <2>2. \A t \in Slots : Turning(t) /\ t \notin Over(b) => spin[t].box \in busy'
    BY <2>1 DEF IInv, BusyWhileSpinning
  <2>3. spin' \in [Slots -> Spinner] /\ BusyWhileSpinning' /\ OneSpinPerBox'
    <3>1. Over(b) \in SUBSET Slots
      BY DEF Over
    <3> QED BY <2>1, <2>2, <3>1, FewerSpinners
  <2>4. RestOK'
    BY <1>1, <1>3 DEF Unload, RestOK, flagVars, tally
  <2> QED BY <2>3, <2>4 DEF IInv, TypeOK, RestOK
<1>4. CASE Die
  <2>1. RestOK'
    BY <1>1, <1>4 DEF Die, RestOK, mapVars, flagVars, tally
  <2>2. spin' = spin /\ busy' = busy
    BY <1>4 DEF Die
  <2> QED BY <2>1, <2>2, SameSpinners DEF IInv, TypeOK, RestOK
<1>5. CASE Restart
  <2>1. RestOK'
    BY <1>1, <1>5 DEF Restart, RestOK, tally
  <2>2. spin' \in [Slots -> Spinner] /\ BusyWhileSpinning' /\ OneSpinPerBox'
    BY <1>5, NoSpinners DEF Restart
  <2> QED BY <2>1, <2>2 DEF IInv, TypeOK, RestOK
<1> QED BY <1>2, <1>3, <1>4, <1>5 DEF Engine

LEMMA PlacedShapes ==
  ASSUME RestOK
  PROVE  /\ Emerged \in [Boxes -> {"active", "loaded", "out"}]
         /\ \A B : PlaceAt(B) \in [Boxes -> {"closed", "open", "gone"}]
         /\ HouseBoxBack \in [Boxes -> {"closed", "open", "gone"}]
BY Shapes DEF RestOK, Emerged, PlaceAt, HouseBoxBack

LEMMA CallbackSteps ==
  ASSUME IInv, Callbacks
  PROVE  IInv'
<1>1. RestOK /\ spin \in [Slots -> Spinner]
  BY TypeParts DEF IInv
<1>2. CASE BuildWall
  <2>0. timers' \in [Callback -> Nat]
    BY <1>1, <1>2 DEF BuildWall, RestOK, Callback
  <2>1. RestOK'
    BY <1>1, <1>2, <2>0, PlacedShapes, Shapes DEF BuildWall, RestOK, mapVars, tally
  <2>2. spin' = spin /\ busy' = busy
    BY <1>2 DEF BuildWall
  <2> QED BY <2>1, <2>2, SameSpinners DEF IInv, TypeOK, RestOK
<1>3. CASE PlaceHouse
  <2>0. timers' \in [Callback -> Nat]
    BY <1>1, <1>3 DEF PlaceHouse, RestOK, Callback
  <2>1. RestOK'
    BY <1>1, <1>3, <2>0, PlacedShapes DEF PlaceHouse, RestOK, tally
  <2>2. spin' = spin /\ busy' = busy
    BY <1>3 DEF PlaceHouse
  <2> QED BY <2>1, <2>2, SameSpinners DEF IInv, TypeOK, RestOK
<1>4. CASE PlaceTowers
  <2>0. timers' \in [Callback -> Nat]
    BY <1>1, <1>4 DEF PlaceTowers, RestOK, Callback
  <2>1. RestOK'
    BY <1>1, <1>4, <2>0, PlacedShapes DEF PlaceTowers, RestOK, tally
  <2>2. spin' = spin /\ busy' = busy
    BY <1>4 DEF PlaceTowers
  <2> QED BY <2>1, <2>2, SameSpinners DEF IInv, TypeOK, RestOK
<1>5. CASE PlayRun \/ ResetFlags
  <2>1. RestOK'
    BY <1>1, <1>5 DEF PlayRun, ResetFlags, RestOK, mapVars, tally
  <2>2. spin' = spin /\ busy' = busy
    BY <1>5 DEF PlayRun, ResetFlags
  <2> QED BY <2>1, <2>2, SameSpinners DEF IInv, TypeOK, RestOK
<1>6. CASE ResetClear
  <2>1. RestOK'
    BY <1>1, <1>6, PlacedShapes DEF ResetClear, RestOK, tally
  <2>2. spin' \in [Slots -> Spinner] /\ BusyWhileSpinning' /\ OneSpinPerBox'
    BY <1>6, NoSpinners DEF ResetClear
  <2> QED BY <2>1, <2>2 DEF IInv, TypeOK, RestOK
<1> QED BY <1>2, <1>3, <1>4, <1>5, <1>6 DEF Callbacks

LEMMA Stutter ==
  ASSUME IInv, UNCHANGED vars
  PROVE  IInv'
<1>1. RestOK /\ spin \in [Slots -> Spinner]
  BY TypeParts DEF IInv
<1>2. RestOK'
  BY <1>1 DEF vars, RestOK, mapVars, flagVars, tally
<1>3. spin' = spin /\ busy' = busy
  BY DEF vars
<1> QED BY <1>2, <1>3, SameSpinners DEF IInv, TypeOK, RestOK

\* IInv holds in every state: each step keeps it.
THEOREM Invariance == Spec => []IInv
<1>1. IInv /\ [Next]_vars => IInv'
  BY SpinnerSteps, CustomerSteps, EngineSteps, CallbackSteps, Stutter DEF Next, Spinners
<1> QED BY <1>1, InitInv, PTL DEF Spec

\* The type invariant, for any number of boxes, players and spinners.
THEOREM TypeCorrect == Spec => []TypeOK
<1>1. IInv => TypeOK
  BY DEF IInv
<1> QED BY <1>1, Invariance, PTL

\* Two spinners never turn over one box, whatever unloads, resets, restarts and
\* placings close it under the first (tgw_shop 515-517, 537-541, 595-605).
THEOREM BoxesTurnOneSpinner == Spec => []OneSpinPerBox
<1>1. IInv => OneSpinPerBox
  BY DEF IInv
<1> QED BY <1>1, Invariance, PTL

LEMMA ForIsFinite ==
  ASSUME NEW p \in Players
  PROVE  IsFiniteSet(For(p)) /\ Cardinality(For(p)) \in Nat
<1>1. For(p) \subseteq Slots
  BY DEF For
<1> QED BY <1>1, BoxAssumption, FS_Subset, FS_CardinalityType

\* Spinners that end and counters that stay leave the accounts right.
LEMMA FewerOwed ==
  ASSUME TypeOK, PrizesPaidFor, UNCHANGED tally,
         \A s \in Slots : Turning(s)' => Turning(s) /\ spin'[s].owner = spin[s].owner
  PROVE  PrizesPaidFor'
<1> SUFFICES ASSUME NEW p \in Players
             PROVE  (taken[p] + Cardinality(For(p)) <= paid[p])'
  BY DEF PrizesPaidFor
<1>1. For(p)' \subseteq For(p)
  BY DEF For
<1>2. /\ Cardinality(For(p)') \in Nat /\ Cardinality(For(p)) \in Nat
      /\ Cardinality(For(p)') <= Cardinality(For(p))
  BY <1>1, ForIsFinite, FS_Subset, FS_CardinalityType
<1>3. taken'[p] = taken[p] /\ paid'[p] = paid[p] /\ taken[p] \in Nat /\ paid[p] \in Nat
  BY DEF tally, TypeOK
<1>4. taken[p] + Cardinality(For(p)) <= paid[p]
  BY DEF PrizesPaidFor
<1> QED BY <1>2, <1>3, <1>4

LEMMA RollOwed ==
  ASSUME TypeOK, PrizesPaidFor, NEW p \in Players, NEW b \in Boxes, Roll(p, b)
  PROVE  PrizesPaidFor'
<1> SUFFICES ASSUME NEW q \in Players
             PROVE  (taken[q] + Cardinality(For(q)) <= paid[q])'
  BY DEF PrizesPaidFor
<1>1. PICK s \in Slots :
        /\ ~Turning(s)
        /\ spin' = [spin EXCEPT ![s] = [phase |-> "spin", box |-> b, owner |-> p]]
  BY DEF Roll
<1>2. /\ spin'[s] = [phase |-> "spin", box |-> b, owner |-> p]
      /\ \A t \in Slots : t # s => spin'[t] = spin[t]
  BY <1>1 DEF TypeOK
<1>3. s \notin For(q) /\ For(q)' = IF q = p THEN For(q) \cup {s} ELSE For(q)
  BY <1>1, <1>2 DEF For, Turning
<1>4. /\ IsFiniteSet(For(q)) /\ Cardinality(For(q)) \in Nat
      /\ Cardinality(For(q)') = Cardinality(For(q)) + (IF q = p THEN 1 ELSE 0)
  <2>1. IsFiniteSet(For(q)) /\ Cardinality(For(q)) \in Nat
    BY ForIsFinite
  <2>2. Cardinality(For(q) \cup {s}) = Cardinality(For(q)) + 1
    BY <2>1, <1>3, FS_AddElement
  <2>3. CASE q = p
    <3>1. For(q)' = For(q) \cup {s}
      BY <1>3, <2>3
    <3> QED BY <2>1, <2>2, <2>3, <3>1
  <2>4. CASE q # p
    <3>1. For(q)' = For(q)
      BY <1>3, <2>4
    <3> QED BY <2>1, <2>4, <3>1
  <2> QED BY <2>3, <2>4
<1>5. /\ taken'[q] = taken[q] /\ taken[q] \in Nat /\ paid[q] \in Nat
      /\ paid'[q] = paid[q] + (IF q = p THEN 1 ELSE 0)
  BY DEF Roll, TypeOK
<1>6. taken[q] + Cardinality(For(q)) <= paid[q]
  BY DEF PrizesPaidFor
<1> QED BY <1>4, <1>5, <1>6

LEMMA TakeOwed ==
  ASSUME TypeOK, PrizesPaidFor, NEW p \in Players, NEW s \in Slots, Take(p, s)
  PROVE  PrizesPaidFor'
<1> SUFFICES ASSUME NEW q \in Players
             PROVE  (taken[q] + Cardinality(For(q)) <= paid[q])'
  BY DEF PrizesPaidFor
<1>1. Turning(s) /\ spin[s].owner = p /\ spin' = Without({s})
  BY DEF Take, Turning, OwnerOf
<1>2. For(q)' = For(q) \ {s} /\ (s \in For(q) <=> q = p)
  BY <1>1, Shapes DEF For, Turning, Without
<1>3. /\ IsFiniteSet(For(q)) /\ Cardinality(For(q)) \in Nat
      /\ Cardinality(For(q)') = Cardinality(For(q)) - (IF q = p THEN 1 ELSE 0)
  <2>1. IsFiniteSet(For(q)) /\ Cardinality(For(q)) \in Nat
    BY ForIsFinite
  <2>2. Cardinality(For(q) \ {s}) = IF s \in For(q) THEN Cardinality(For(q)) - 1
                                                   ELSE Cardinality(For(q))
    BY <2>1, FS_RemoveElement
  <2>3. CASE q = p
    BY <1>2, <2>1, <2>2, <2>3
  <2>4. CASE q # p
    BY <1>2, <2>1, <2>2, <2>4
  <2> QED BY <2>3, <2>4
<1>4. /\ taken'[q] \in Nat /\ taken[q] \in Nat /\ paid[q] \in Nat /\ paid'[q] = paid[q]
      /\ taken'[q] <= taken[q] + (IF q = p THEN 1 ELSE 0)
  BY DEF Take, TypeOK
<1>5. taken[q] + Cardinality(For(q)) <= paid[q]
  BY DEF PrizesPaidFor
<1> QED BY <1>3, <1>4, <1>5

LEMMA InitOwed == Init => PrizesPaidFor
<1> SUFFICES ASSUME Init, NEW p \in Players
             PROVE  taken[p] + Cardinality(For(p)) <= paid[p]
  BY DEF PrizesPaidFor
<1>1. For(p) = {}
  BY Shapes DEF Init, For, Turning
<1>2. taken[p] = 0 /\ paid[p] = 0
  BY DEF Init
<1> QED BY <1>1, <1>2, FS_EmptySet

LEMMA OwedStep ==
  ASSUME TypeOK, PrizesPaidFor, [Next]_vars
  PROVE  PrizesPaidFor'
<1>1. ASSUME NEW p \in Players, NEW b \in Boxes, Roll(p, b) PROVE PrizesPaidFor'
  BY <1>1, RollOwed
<1>2. ASSUME NEW p \in Players, NEW s \in Slots, Take(p, s) PROVE PrizesPaidFor'
  BY <1>2, TakeOwed
<1>3. ASSUME NEW s \in Slots, Reveal(s) PROVE PrizesPaidFor'
  <2>1. \A t \in Slots : Turning(t)' => Turning(t) /\ spin'[t].owner = spin[t].owner
    BY <1>3 DEF Reveal, Turning, TypeOK, Spinner
  <2>2. UNCHANGED tally
    BY <1>3 DEF Reveal
  <2> QED BY <2>1, <2>2, FewerOwed
<1>4. ASSUME UNCHANGED tally, spin' = spin PROVE PrizesPaidFor'
  <2>1. \A t \in Slots : Turning(t)' => Turning(t) /\ spin'[t].owner = spin[t].owner
    BY <1>4 DEF Turning
  <2> QED BY <1>4, <2>1, FewerOwed
<1>5. ASSUME UNCHANGED tally, NEW S \in SUBSET Slots, spin' = Without(S) PROVE PrizesPaidFor'
  <2>1. \A t \in Slots : Turning(t)' => Turning(t) /\ spin'[t].owner = spin[t].owner
    BY <1>5, Shapes DEF Turning, Without
  <2> QED BY <1>5, <2>1, FewerOwed
<1>6. ASSUME NEW s \in Slots, TimeOut(s) \/ Blow(s) PROVE PrizesPaidFor'
  BY <1>5, <1>6, {s} \in SUBSET Slots DEF TimeOut, Blow
<1>7. ASSUME NEW b \in Boxes, Unload(b) PROVE PrizesPaidFor'
  <2>1. Over(b) \in SUBSET Slots
    BY DEF Over
  <2> QED BY <1>5, <1>7, <2>1 DEF Unload
<1>8. CASE ResetClear \/ Restart
  <2>1. spin' = Without(Slots) /\ UNCHANGED tally
    BY <1>8 DEF ResetClear, Restart, Without, tally
  <2> QED BY <2>1, <1>5
<1>9. CASE \/ UNCHANGED vars \/ Die \/ BuildWall \/ PlaceHouse \/ PlaceTowers
           \/ PlayRun \/ ResetFlags
           \/ \E p \in Players : Join(p) \/ Leave(p)
           \/ \E b \in Boxes : Deactivate(b) \/ Activate(b)
  <2>1. UNCHANGED tally /\ spin' = spin
    BY <1>9 DEF vars, Die, BuildWall, PlaceHouse, PlaceTowers, PlayRun, ResetFlags,
                Join, Leave, Deactivate, Activate
  <2> QED BY <2>1, <1>4
<1> QED
  BY <1>1, <1>2, <1>3, <1>6, <1>7, <1>8, <1>9
  DEF Next, Spinners, Customers, Engine, Callbacks

\* No player is given a prize he did not pay for: what he took and what still
\* turns for him never exceed his rolls (tgw_shop 488-496, 546-556).
THEOREM NothingForFree == Spec => []PrizesPaidFor
<1>1. TypeOK /\ PrizesPaidFor /\ [Next]_vars => PrizesPaidFor'
  BY OwedStep
<1> QED BY <1>1, InitOwed, TypeCorrect, PTL DEF Spec

\* Between two resets and without a death of the process: who placed the box of
\* the house had built the wall, and a wall without it has a callback under way
\* that finds the block in memory.
Placing ==
  /\ "house" \in flags => "built" \in flags /\ node[House] # "gone"
  /\ timers["house"] > 0 => "built" \in flags
  /\ "built" \in flags /\ "house" \notin flags => timers["house"] > 0 /\ block[House] # "out"

HouseInv == "stop" \notin perils => proc = "up" /\ (match # "reset" => Placing)

LEMMA HouseInit == Init => HouseInv
BY DEF Init, HouseInv, Placing, Callback

LEMMA HousePlace ==
  ASSUME TypeOK, HouseInv, PlaceHouse \/ PlaceTowers
  PROVE  HouseInv'
<1> SUFFICES ASSUME "stop" \notin perils PROVE proc' = "up" /\ (match' # "reset" => Placing')
  BY DEF HouseInv, PlaceHouse, PlaceTowers
<1>1. /\ node \in [Boxes -> {"closed", "open", "gone"}] /\ timers \in [Callback -> Nat]
      /\ House \in Boxes /\ House \notin Towers /\ "house" \in Callback /\ "towers" \in Callback
  BY Shapes, BoxAssumption DEF TypeOK, Callback
<1>2. CASE PlaceHouse
  <2>1. proc' = "up" /\ match' = match /\ block' = block /\ timers["house"] > 0
    BY <1>2 DEF PlaceHouse
  <2>2. flags' = flags \cup {"house"}
    BY <1>2 DEF PlaceHouse
  <2>3. CASE match # "reset"
    <3>1. Placing
      BY <2>3 DEF HouseInv
    <3>2. "built" \in flags
      BY <2>1, <3>1 DEF Placing
    <3>3. CASE "house" \in flags
      <4>1. node' = node
        BY <1>2, <3>3 DEF PlaceHouse
      <4> QED BY <2>1, <2>2, <3>1, <3>2, <3>3, <4>1 DEF Placing
    <3>4. CASE "house" \notin flags
      <4>1. block[House] # "out"
        BY <3>1, <3>2, <3>4 DEF Placing
      <4>2. node' = PlaceAt({House})
        BY <1>2, <3>4 DEF PlaceHouse
      <4>3. node'[House] = "closed"
        BY <1>1, <4>1, <4>2 DEF PlaceAt, InMemory
      <4> QED BY <2>1, <2>2, <3>2, <4>3 DEF Placing
    <3> QED BY <3>3, <3>4
  <2> QED BY <2>1, <2>3
<1>3. CASE PlaceTowers
  <2>1. /\ proc' = "up" /\ match' = match /\ block' = block
        /\ flags' = flags \cup {"towers"}
    BY <1>3 DEF PlaceTowers
  <2>2. timers'["house"] = timers["house"]
    BY <1>1, <1>3 DEF PlaceTowers
  <2>3. node'[House] = node[House]
    BY <1>1, <1>3 DEF PlaceTowers, PlaceAt
  <2>4. \A x \in {"built", "house"} : x \in flags' <=> x \in flags
    BY <2>1
  <2> QED BY <2>1, <2>2, <2>3, <2>4 DEF HouseInv, Placing
<1> QED BY <1>2, <1>3

LEMMA HouseBuild ==
  ASSUME TypeOK, HouseInv, BuildWall
  PROVE  HouseInv'
<1> SUFFICES ASSUME "stop" \notin perils PROVE proc' = "up" /\ (match' # "reset" => Placing')
  BY DEF HouseInv, BuildWall
<1>1. timers \in [Callback -> Nat] /\ House \in Boxes
  BY Shapes DEF TypeOK
<1>2. /\ proc' = "up" /\ match' = match /\ match # "reset"
      /\ flags' = flags \cup {"built"}
  BY DEF BuildWall
<1>3. timers'["house"] = timers["house"] + 1 /\ timers["house"] \in Nat
  BY <1>1 DEF BuildWall, Callback
<1>4. Placing
  BY <1>2 DEF HouseInv
<1>5. CASE "built" \in flags
  <2>1. node' = node /\ block' = block
    BY <1>5 DEF BuildWall, mapVars
  <2> QED BY <1>2, <1>3, <1>4, <1>5, <2>1 DEF Placing
<1>6. CASE "built" \notin flags
  <2>1. "house" \notin flags
    BY <1>4, <1>6 DEF Placing
  <2>2. block' = Emerged
    BY <1>6 DEF BuildWall
  <2>3. block'[House] # "out"
    BY <1>1, <2>2 DEF Emerged
  <2> QED BY <1>2, <1>3, <2>1, <2>3 DEF Placing
<1> QED BY <1>5, <1>6

LEMMA HouseJoin ==
  ASSUME TypeOK, HouseInv, NEW p \in Players, Join(p)
  PROVE  HouseInv'
<1>1. timers \in [Callback -> Nat]
  BY DEF TypeOK
<1>2. UNCHANGED <<perils, proc, match, flags, node, block>>
  BY DEF Join, mapVars
<1>3. /\ timers["house"] \in Nat
      /\ timers'["house"] = IF "built" \in flags THEN timers["house"] + 1 ELSE timers["house"]
  BY <1>1 DEF Join, Callback
<1> QED BY <1>2, <1>3 DEF HouseInv, Placing

LEMMA HouseReset ==
  ASSUME HouseInv, PlayRun \/ ResetFlags \/ ResetClear \/ Restart
  PROVE  HouseInv'
<1>1. CASE PlayRun
  <2>1. match # "reset" /\ UNCHANGED <<perils, proc, flags, node, block, timers>>
    BY <1>1 DEF PlayRun, mapVars
  <2> QED BY <2>1 DEF HouseInv, Placing
<1>2. CASE ResetFlags
  BY <1>2 DEF ResetFlags, HouseInv
<1>3. CASE ResetClear
  <2>1. /\ perils' = perils /\ proc' = "up" /\ "built" \in flags' /\ "house" \in flags'
        /\ node' = HouseBoxBack
    BY <1>3 DEF ResetClear
  <2>2. node'[House] = "closed"
    BY <2>1, Shapes DEF HouseBoxBack, NoBoxes
  <2> QED BY <2>1, <2>2 DEF HouseInv, Placing
<1>4. CASE Restart
  BY <1>4 DEF Restart, HouseInv
<1> QED BY <1>1, <1>2, <1>3, <1>4

\* The box of the house is used, unloaded and loaded where it stands.
LEMMA HouseStays ==
  ASSUME HouseInv, UNCHANGED <<perils, proc, match, flags, timers>>,
         node'[House] = node[House] \/ node'[House] # "gone",
         block'[House] = block[House] \/ block'[House] # "out" \/ timers["house"] = 0
  PROVE  HouseInv'
BY DEF HouseInv, Placing

LEMMA HouseUsed ==
  ASSUME TypeOK, HouseInv,
         \/ Spinners \/ UNCHANGED vars \/ Die
         \/ \E p \in Players : Leave(p) \/ \E b \in Boxes : Roll(p, b)
         \/ \E p \in Players, s \in Slots : Take(p, s)
         \/ \E s \in Slots : Blow(s)
         \/ \E b \in Boxes : Deactivate(b) \/ Unload(b) \/ Activate(b)
  PROVE  HouseInv'
<1>1. /\ node \in [Boxes -> {"closed", "open", "gone"}]
      /\ block \in [Boxes -> {"active", "loaded", "out"}] /\ House \in Boxes
  BY Shapes DEF TypeOK
<1>2. CASE Die
  BY <1>2 DEF Die, HouseInv
<1>3. CASE \/ UNCHANGED vars
           \/ \E s \in Slots : Reveal(s) \/ Blow(s)
           \/ \E p \in Players : Leave(p)
  <2>1. UNCHANGED <<perils, proc, match, flags, timers, node, block>>
    BY <1>3 DEF vars, Reveal, Blow, Leave, mapVars, flagVars
  <2> QED BY <2>1, HouseStays
<1>4. ASSUME NEW b \in Boxes, Cleanup(b), UNCHANGED <<perils, proc, block, flagVars>>
      PROVE  HouseInv'
  <2>1. node'[House] = node[House] \/ node'[House] # "gone"
    BY <1>1, <1>4 DEF Cleanup
  <2>2. UNCHANGED <<perils, proc, match, flags, timers>> /\ block' = block
    BY <1>4 DEF flagVars
  <2> QED BY <2>1, <2>2, HouseStays
<1>5. ASSUME NEW s \in Slots, TimeOut(s) \/ \E p \in Players : Take(p, s) PROVE HouseInv'
  <2>1. spin[s].box \in Boxes
    BY DEF TypeOK, Spinner
  <2> QED BY <1>4, <1>5, <2>1 DEF TimeOut, Take
<1>6. ASSUME NEW p \in Players, NEW b \in Boxes, Roll(p, b) PROVE HouseInv'
  <2>1. node'[House] = node[House] \/ node'[House] # "gone"
    BY <1>1, <1>6 DEF Roll
  <2>2. UNCHANGED <<perils, proc, match, flags, timers>> /\ block' = block
    BY <1>6 DEF Roll, flagVars
  <2> QED BY <2>1, <2>2, HouseStays
<1>7. ASSUME NEW b \in Boxes, Deactivate(b) \/ Unload(b) \/ Activate(b) PROVE HouseInv'
  <2>1. UNCHANGED <<perils, proc, match, flags, timers>>
    BY <1>7 DEF Deactivate, Unload, Activate, flagVars
  <2>2. node'[House] = node[House] \/ node'[House] # "gone"
    BY <1>1, <1>7 DEF Deactivate, Unload, Activate
  <2>3. block'[House] = block[House] \/ block'[House] # "out" \/ timers["house"] = 0
    BY <1>1, <1>7 DEF Deactivate, Unload, Activate
  <2> QED BY <2>1, <2>2, <2>3, HouseStays
<1> QED BY <1>2, <1>3, <1>5, <1>6, <1>7 DEF Spinners

\* In a world whose process does not end the house has its box whenever the
\* flag says so, however joins, wall, boxes and resets interleave (tgw_shop
\* 626-633, 666-670, tgw_reset 47-62).
THEOREM HouseKeepsBox == Spec => []HouseHasBox
<1>1. TypeOK /\ HouseInv /\ [Next]_vars => HouseInv'
  BY HousePlace, HouseBuild, HouseJoin, HouseReset, HouseUsed
  DEF Next, Customers, Engine, Callbacks
<1>2. HouseInv => HouseHasBox
  BY DEF HouseInv, HouseHasBox, Placing
<1> QED BY <1>1, <1>2, HouseInit, TypeCorrect, PTL DEF Spec

-----------------------------------------------------------------------------
(* The boxes are vending machines *)

LEMMA GamesSame ==
  ASSUME UNCHANGED tally, \A s \in Slots : spin'[s] = spin[s] \/ (~Turning(s) /\ ~Turning(s)')
  PROVE  UNCHANGED Sale!vars
<1>1. \A s \in Slots : (Turning(s)' <=> Turning(s)) /\ (Turning(s) => GameOf(s)' = GameOf(s))
  BY DEF Turning, GameOf
<1>2. Games' = Games
  BY <1>1 DEF Games
<1> QED BY <1>2 DEF Sale!vars, tally

\* One spinner to a box, so that a game ends with its spinner and no other does.
LEMMA GamesWithout ==
  ASSUME IInv, NEW S \in SUBSET Slots, spin' = Without(S)
  PROVE  Games' = Games \ {GameOf(s) : s \in {t \in S : Turning(t)}}
<1>1. \A s \in Slots : s \in S => ~Turning(s)'
  BY Shapes DEF Without, Turning
<1>2. \A s \in Slots : s \notin S => (Turning(s)' <=> Turning(s)) /\ GameOf(s)' = GameOf(s)
  BY DEF Without, Turning, GameOf
<1>3. \A s, t \in Slots : Turning(s) /\ Turning(t) /\ GameOf(s) = GameOf(t) => s = t
  BY DEF IInv, OneSpinPerBox, GameOf
<1>4. Games' = {GameOf(s) : s \in {t \in Slots : Turning(t) /\ t \notin S}}
  BY <1>1, <1>2 DEF Games
<1> QED BY <1>3, <1>4 DEF Games

\* A prize is taken or a spinner lost.
LEMMA LostIsVending ==
  ASSUME IInv, NEW S \in SUBSET Slots, spin' = Without(S), UNCHANGED tally
  PROVE  [Sale!Next]_(Sale!vars)
<1> DEFINE G == {GameOf(s) : s \in {t \in S : Turning(t)}}
<1>1. Games' = Games \ G
  BY GamesWithout
<1>2. G \subseteq Games
  BY DEF Games
<1>3. Sale!Lose(G)
  BY <1>1 DEF Sale!Lose, tally
<1> QED BY <1>2, <1>3 DEF Sale!Next

LEMMA RollIsVending ==
  ASSUME IInv, NEW p \in Players, NEW b \in Boxes, Roll(p, b)
  PROVE  Sale!Next
<1>1. PICK s \in Slots :
        /\ ~Turning(s)
        /\ spin' = [spin EXCEPT ![s] = [phase |-> "spin", box |-> b, owner |-> p]]
  BY DEF Roll
<1>2. /\ spin'[s] = [phase |-> "spin", box |-> b, owner |-> p]
      /\ \A t \in Slots : t # s => spin'[t] = spin[t]
  BY <1>1 DEF IInv, TypeOK
<1>3. Turning(s)' /\ GameOf(s)' = [box |-> b, player |-> p, shown |-> FALSE]
  <2>1. spin'[s].box = b /\ spin'[s].owner = p /\ spin'[s].phase = "spin"
    BY <1>2
  <2>2. (spin'[s].phase = "reveal") = FALSE
    BY <2>1
  <2> QED BY <2>1, <2>2 DEF Turning, GameOf
<1>4. \A t \in Slots : t # s => (Turning(t)' <=> Turning(t)) /\ GameOf(t)' = GameOf(t)
  BY <1>2 DEF Turning, GameOf
<1>5. Games' = Games \cup {[box |-> b, player |-> p, shown |-> FALSE]}
  BY <1>1, <1>3, <1>4 DEF Games
<1>6. b \notin busy
  BY DEF Roll, NotBusy
<1>7. \A g \in Games : g.box # b
  BY <1>6 DEF Games, GameOf, IInv, BusyWhileSpinning
<1>8. Sale!Pay(p, b)
  BY <1>5, <1>7 DEF Roll, Sale!Pay, Sale!Game
<1> QED BY <1>8 DEF Sale!Next

LEMMA RevealIsVending ==
  ASSUME IInv, NEW s \in Slots, Reveal(s)
  PROVE  Sale!Next
<1>1. spin[s] \in Spinner /\ Turning(s) /\ spin \in [Slots -> Spinner] /\ UNCHANGED tally
  BY DEF Reveal, Turning, IInv, TypeOK
<1>2. /\ spin'[s] = [spin[s] EXCEPT !.phase = "reveal"]
      /\ \A t \in Slots : t # s => spin'[t] = spin[t]
  BY <1>1 DEF Reveal
<1>3. /\ Turning(s)' /\ ~GameOf(s).shown
      /\ GameOf(s)' = [box |-> GameOf(s).box, player |-> GameOf(s).player, shown |-> TRUE]
  BY <1>1, <1>2 DEF Reveal, Turning, GameOf, Spinner
<1>4. \A t \in Slots : t # s => (Turning(t)' <=> Turning(t)) /\ GameOf(t)' = GameOf(t)
  BY <1>2 DEF Turning, GameOf
<1>5. \A t \in Slots : Turning(t) /\ GameOf(t) = GameOf(s) => t = s
  BY <1>1 DEF IInv, OneSpinPerBox, GameOf
<1>6. Games' = (Games \ {GameOf(s)}) \cup {GameOf(s)'}
  BY <1>1, <1>3, <1>4, <1>5 DEF Games
<1>7. Sale!Show(GameOf(s)) /\ GameOf(s) \in Games
  BY <1>1, <1>3, <1>6 DEF Sale!Show, Sale!Game, Games, tally
<1> QED BY <1>7 DEF Sale!Next

LEMMA TakeIsVending ==
  ASSUME IInv, NEW p \in Players, NEW s \in Slots, Take(p, s)
  PROVE  [Sale!Next]_(Sale!vars)
<1>1. /\ spin[s].phase = "reveal" /\ p = spin[s].owner /\ spin' = Without({s}) /\ paid' = paid
      /\ taken' = [taken EXCEPT ![p] = @ + 1] \/ taken' = taken
  BY DEF Take, OwnerOf
<1>2. {s} \in SUBSET Slots
  OBVIOUS
<1>3. CASE taken' = taken
  BY <1>1, <1>2, <1>3, LostIsVending DEF tally
<1>4. CASE taken' = [taken EXCEPT ![p] = @ + 1]
  <2>1. Turning(s)
    BY <1>1 DEF Turning
  <2>2. GameOf(s) \in Games /\ GameOf(s).shown /\ GameOf(s).player = p
    BY <1>1, <2>1 DEF Games, GameOf
  <2>3. Games' = Games \ {GameOf(t) : t \in {u \in {s} : Turning(u)}}
    BY <1>1, <1>2, GamesWithout
  <2>4. Games' = Games \ {GameOf(s)}
    BY <2>1, <2>3
  <2>5. Sale!Take(GameOf(s))
    BY <1>1, <1>4, <2>2, <2>4 DEF Sale!Take
  <2> QED BY <2>2, <2>5 DEF Sale!Next
<1> QED BY <1>1, <1>3, <1>4

LEMMA StepIsVending == IInv /\ [Next]_vars => [Sale!Next]_(Sale!vars)
<1> SUFFICES ASSUME IInv, [Next]_vars PROVE [Sale!Next]_(Sale!vars)
  OBVIOUS
<1>1. ASSUME NEW p \in Players, NEW b \in Boxes, Roll(p, b) PROVE Sale!Next
  BY <1>1, RollIsVending
<1>2. ASSUME NEW p \in Players, NEW s \in Slots, Take(p, s) PROVE [Sale!Next]_(Sale!vars)
  BY <1>2, TakeIsVending
<1>3. ASSUME NEW s \in Slots, Reveal(s) PROVE Sale!Next
  BY <1>3, RevealIsVending
<1>4. ASSUME NEW s \in Slots, TimeOut(s) \/ Blow(s) PROVE [Sale!Next]_(Sale!vars)
  BY <1>4, LostIsVending, {s} \in SUBSET Slots DEF TimeOut, Blow, tally
<1>5. ASSUME NEW b \in Boxes, Unload(b) PROVE [Sale!Next]_(Sale!vars)
  <2>1. Over(b) \in SUBSET Slots
    BY DEF Over
  <2> QED BY <1>5, <2>1, LostIsVending DEF Unload
\* Every game is lost at once.
<1>6. CASE ResetClear \/ Restart
  <2>1. spin' = Without(Slots) /\ UNCHANGED tally
    BY <1>6 DEF ResetClear, Restart, Without, tally
  <2> QED BY <2>1, LostIsVending
<1>7. CASE \/ UNCHANGED vars \/ Die \/ BuildWall \/ PlaceHouse \/ PlaceTowers
           \/ PlayRun \/ ResetFlags
           \/ \E p \in Players : Join(p) \/ Leave(p)
           \/ \E b \in Boxes : Deactivate(b) \/ Activate(b)
  <2>1. UNCHANGED tally /\ spin' = spin
    BY <1>7 DEF vars, Die, BuildWall, PlaceHouse, PlaceTowers, PlayRun, ResetFlags,
                Join, Leave, Deactivate, Activate
  <2> QED BY <2>1, GamesSame
<1> QED
  BY <1>1, <1>2, <1>3, <1>4, <1>5, <1>6, <1>7
  DEF Next, Spinners, Customers, Engine, Callbacks

\* For any boxes, players and spinners and whatever happens to them: a game
\* belongs to who paid and gives that player one prize at most (tgw_shop 478-590).
THEOREM IsVending == Spec => ImplementsVending
<1>1. Init => Sale!Init
  <2> SUFFICES ASSUME Init PROVE Sale!Init
    OBVIOUS
  <2>1. Games = {}
    BY Shapes DEF Init, Games, Turning
  <2> QED BY <2>1 DEF Init, Sale!Init
<1>2. IInv /\ [Next]_vars => [Sale!Next]_(Sale!vars)
  BY StepIsVending
<1> QED BY <1>1, <1>2, Invariance, PTL DEF Spec, ImplementsVending, Sale!Spec
=============================================================================
