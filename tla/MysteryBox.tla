----------------------------- MODULE MysteryBox -----------------------------
(***************************************************************************)
(* The weapons mystery boxes of tgw_shop: the box in the house and the     *)
(* boxes at the foot of the towers.  A player pays, the box opens, a       *)
(* spinner entity turns above it, then shows the prize, which its buyer    *)
(* takes with a punch or loses after a while.  Three records must agree on *)
(* whether a box is in use: the node on the map, the table crate_busy in   *)
(* memory, and the spinner, an entity that is never saved.  What can part  *)
(* them: the engine unloading the map block, a blow that kills the         *)
(* spinner, the world reset, the death of the process, and the callbacks   *)
(* that a joining player schedules to place the boxes.                     *)
(***************************************************************************)
EXTENDS Integers, FiniteSets

CONSTANTS
  House, Towers,   \* the box of the house, the boxes of the towers
  Players,
  Slots,           \* pool of spinner entities
  MaxPaid,         \* bound: rolls one player can pay for
  MaxTimers,       \* bound: pending callbacks of each sort
  Worlds           \* the sets of events below that an instance lets happen

Boxes == {House} \cup Towers
AllPerils == {"blow",     \* somebody hits a spinner, with a hand, a bat, a shot
              "unload",   \* no player is near a box
              "reset",    \* a run ends in victory
              "stop"}     \* the server process ends

ASSUME BoxAssumption ==
  /\ House \notin Towers /\ Players # {} /\ IsFiniteSet(Slots)
  /\ MaxPaid \in Nat /\ MaxTimers \in Nat
  /\ Worlds \subseteq SUBSET AllPerils

VARIABLES
  perils,   \* what can happen in this world; never changes
  proc,     \* the server process is running
  online,
  node,     \* node[b]: what stands at b: the box closed, open, or no box
  block,    \* block[b]: the map block of b: active, only in memory, or out of it
  busy,     \* crate_busy
  spin,     \* the spinners
  flags,    \* the flags set in mod storage: tgw_wall's built, tgw_shop's placed
            \* ("house") and placed_towers ("towers")
  timers,   \* callbacks scheduled by joins and not run yet
  match,    \* "reset": world_reset was emitted, the world is not cleared yet
  paid,     \* paid[p]: rolls p paid for
  taken     \* taken[p]: prizes p was given

mapVars  == <<node, block>>
flagVars == <<flags, timers, match>>
tally    == <<paid, taken>>
vars == <<perils, proc, online, mapVars, busy, spin, flagVars, tally>>

----------------------------------------------------------------------------
NoSpin     == [phase |-> "none", box |-> House, owner |-> CHOOSE p \in Players : TRUE]
Spinner    == [phase : {"none", "spin", "reveal"}, box : Boxes, owner : Players]
Turning(s) == spin[s].phase # "none"
Over(b)    == {s \in Slots : Turning(s) /\ spin[s].box = b}
For(p)     == {s \in Slots : Turning(s) /\ spin[s].owner = p}
Without(S) == [s \in Slots |-> IF s \in S THEN NoSpin ELSE spin[s]]

Callback == {"wall", "house", "towers"}

\* Blocks that set_node can reach; elsewhere it fails and returns false.
InMemory(b) == block[b] # "out"

\* _cleanup_crate: the box is free again, and closed if it is there and open.
CleanupToEmpty(b) ==
  /\ busy' = busy \ {b}
  /\ node' = IF InMemory(b) /\ node[b] = "open" THEN [node EXCEPT ![b] = "empty"] ELSE node
CleanupNodeOnly(b) ==
  /\ busy' = busy
  /\ node' = IF InMemory(b) /\ node[b] = "open" THEN [node EXCEPT ![b] = "closed"] ELSE node
Cleanup(b) ==
  /\ busy' = busy \ {b}
  /\ node' = IF InMemory(b) /\ node[b] = "open" THEN [node EXCEPT ![b] = "closed"] ELSE node

----------------------------------------------------------------------------
(* Players at a box *)

\* on_rightclick of a closed box.
IgnoreBusy(b)  == TRUE
NotBusy(b)     == b \notin busy
Roll(p, b) ==
  /\ proc = "up" /\ p \in online /\ block[b] = "active"
  /\ node[b] = "closed" /\ NotBusy(b)
  /\ paid[p] < MaxPaid                               \* pay_personal succeeds
  /\ paid' = [paid EXCEPT ![p] = @ + 1]
  /\ busy' = busy \cup {b}
  /\ node' = [node EXCEPT ![b] = "open"]
  /\ \E s \in Slots :
       /\ ~Turning(s)
       /\ spin' = [spin EXCEPT ![s] = [phase |-> "spin", box |-> b, owner |-> p]]
  /\ UNCHANGED <<perils, proc, online, block, flagVars, taken>>

\* on_punch (on_rightclick calls it too).  Before the reveal it does nothing,
\* and another player is told to wait; what the engine does with the blow after
\* on_punch returned is Blow.  add_item gives back what the inventory
\* cannot hold, and the code drops it.
Anyone(s, p)  == TRUE
OwnerOf(s, p) == p = spin[s].owner
Take(p, s) ==
  /\ proc = "up" /\ p \in online
  /\ spin[s].phase = "reveal" /\ OwnerOf(s, p)
  /\ \/ taken' = [taken EXCEPT ![p] = @ + 1]
     \/ UNCHANGED taken
  /\ Cleanup(spin[s].box)
  /\ spin' = Without({s})
  /\ UNCHANGED <<perils, proc, online, block, flagVars, paid>>

\* A blow of one point or more at a moment when on_punch does not take the
\* prize.  The spinner sets neither hp_max, which is then 1, nor the immortal
\* group: the engine kills it, and there is no on_death to clean up.
Blow(s) ==
  /\ "blow" \in perils
  /\ proc = "up" /\ Turning(s)
  /\ spin' = Without({s})
  /\ UNCHANGED <<perils, proc, online, mapVars, busy, flagVars, tally>>

----------------------------------------------------------------------------
(* on_step of a spinner *)

Reveal(s) ==
  /\ proc = "up" /\ spin[s].phase = "spin"
  /\ spin' = [spin EXCEPT ![s].phase = "reveal"]
  /\ UNCHANGED <<perils, proc, online, mapVars, busy, flagVars, tally>>

TimeOut(s) ==
  /\ proc = "up" /\ spin[s].phase = "reveal"
  /\ Cleanup(spin[s].box)
  /\ spin' = Without({s})
  /\ UNCHANGED <<perils, proc, online, block, flagVars, tally>>

----------------------------------------------------------------------------
(* Map blocks *)

\* No player is near any more.  The block stays in memory, and its objects keep
\* being stepped, for as long as nothing unloads it.
Deactivate(b) ==
  /\ "unload" \in perils
  /\ proc = "up" /\ block[b] = "active"
  /\ block' = [block EXCEPT ![b] = "loaded"]
  /\ UNCHANGED <<perils, proc, online, node, busy, spin, flagVars, tally>>

\* The block leaves memory, 29 s after its last use; static_save = false, so its
\* spinners are gone.  A block that BuildWall brought in stays for the 1.5 s in
\* which the other callbacks of that join run, hence the guard on them.
Unload(b) ==
  /\ "unload" \in perils
  /\ proc = "up" /\ block[b] = "loaded"
  /\ timers["house"] = 0 /\ timers["towers"] = 0
  /\ block' = [block EXCEPT ![b] = "out"]
  /\ spin' = Without(Over(b))
  /\ UNCHANGED <<perils, proc, online, node, busy, flagVars, tally>>

\* A player comes near.  The LBM reset_stuck_open runs at every activation,
\* also when the block was in memory and a spinner still turns in it.
Activate(b) ==
  /\ proc = "up" /\ online # {} /\ block[b] # "active"
  /\ block' = [block EXCEPT ![b] = "active"]
  /\ node' = IF node[b] = "open" THEN [node EXCEPT ![b] = "closed"] ELSE node
  /\ UNCHANGED <<perils, proc, online, busy, spin, flagVars, tally>>

----------------------------------------------------------------------------
(* Placing the boxes *)

\* tgw_wall.build clears the enclosure, house and towers included, down to the
\* ground; the blocks it writes are brought into memory.
NoBoxes  == [b \in Boxes |-> "gone"]
Emerged  == [b \in Boxes |-> IF block[b] = "out" THEN "loaded" ELSE block[b]]
PlaceAt(B) == [b \in Boxes |-> IF b \in B /\ InMemory(b) THEN "closed" ELSE node[b]]

\* A join schedules the wall, if it is not built, after 1.0 s, the box of the
\* house after 2.0 s, those of the towers after 2.5 s.
Join(p) ==
  /\ proc = "up" /\ p \notin online
  /\ \A k \in Callback : timers[k] < MaxTimers
  /\ online' = online \cup {p}
  /\ timers' = IF "built" \in flags THEN [timers EXCEPT !["house"] = @ + 1]
                                    ELSE [timers EXCEPT !["wall"] = @ + 1]
  /\ UNCHANGED <<perils, proc, mapVars, busy, spin, flags, match, tally>>

Leave(p) ==
  /\ proc = "up" /\ p \in online
  /\ online' = online \ {p}
  /\ UNCHANGED <<perils, proc, mapVars, busy, spin, flagVars, tally>>

\* It never runs between the two callbacks of a reset: they are 0.5 s apart,
\* and the join that found no wall is 1.0 s back.
BuildWall ==
  /\ proc = "up" /\ timers["wall"] > 0 /\ match # "reset"
  /\ timers' = [timers EXCEPT !["wall"] = @ - 1, !["house"] = @ + 1]
  /\ flags' = flags \cup {"built"}
  /\ \/ "built" \in flags /\ UNCHANGED mapVars
     \/ "built" \notin flags /\ node' = NoBoxes /\ block' = Emerged
  /\ UNCHANGED <<perils, proc, online, busy, spin, match, tally>>

\* place_counter: only when the flag is not set.
PlaceHouse ==
  /\ proc = "up" /\ timers["house"] > 0
  /\ timers' = [timers EXCEPT !["house"] = @ - 1, !["towers"] = @ + 1]
  /\ flags' = flags \cup {"house"}
  /\ node' = IF "house" \notin flags THEN PlaceAt({House}) ELSE node
  /\ UNCHANGED <<perils, proc, online, block, busy, spin, match, tally>>

PlaceTowers ==
  /\ proc = "up" /\ timers["towers"] > 0
  /\ timers' = [timers EXCEPT !["towers"] = @ - 1]
  /\ flags' = flags \cup {"towers"}
  /\ node' = IF "towers" \notin flags THEN PlaceAt(Towers) ELSE node
  /\ UNCHANGED <<perils, proc, online, block, busy, spin, match, tally>>

----------------------------------------------------------------------------
(* Reset of the world, death of the process *)

\* A run that will be won, and so followed by a reset: it starts and lasts far
\* longer than the 2.5 s of the joins before it.
PlayRun ==
  /\ "reset" \in perils
  /\ proc = "up" /\ match = "lobby" /\ online # {}
  /\ \A k \in Callback : timers[k] = 0
  /\ match' = "run"
  /\ UNCHANGED <<perils, proc, online, mapVars, busy, spin, flags, timers, tally>>

\* world_reset: tgw_wall and tgw_shop forget that they built and placed.
ResetFlags ==
  /\ proc = "up" /\ match = "run"
  /\ match' = "reset"
  /\ flags' = {}
  /\ UNCHANGED <<perils, proc, online, mapVars, busy, spin, timers, tally>>

\* 0.5 s later: remove the objects, build the wall, the house and its box.
HouseBoxUnforced ==
  [NoBoxes EXCEPT ![House] = IF "house" \in flags THEN "gone" ELSE "closed"]
HouseBoxBack == [NoBoxes EXCEPT ![House] = "closed"]
ResetClear ==
  /\ proc = "up" /\ match = "reset"
  /\ match' = "lobby"
  /\ spin' = [s \in Slots |-> NoSpin]
  /\ flags' = flags \cup {"built", "house"}
  /\ node' = HouseBoxBack
  /\ block' = Emerged
  /\ UNCHANGED <<perils, proc, online, busy, timers, tally>>

Die ==
  /\ "stop" \in perils
  /\ proc = "up"
  /\ proc' = "down"
  /\ UNCHANGED <<perils, online, mapVars, busy, spin, flagVars, tally>>

\* Map and mod storage are on disk; tables, callbacks and spinners are not.
Restart ==
  /\ proc = "down"
  /\ proc' = "up"
  /\ online' = {} /\ busy' = {} /\ match' = "lobby"
  /\ block' = [b \in Boxes |-> "out"]
  /\ spin' = [s \in Slots |-> NoSpin]
  /\ timers' = [k \in Callback |-> 0]
  /\ UNCHANGED <<perils, node, flags, tally>>

----------------------------------------------------------------------------
\* A new world.
Init ==
  /\ perils \in Worlds
  /\ proc = "up" /\ online = {}
  /\ node = NoBoxes /\ block = [b \in Boxes |-> "out"]
  /\ busy = {} /\ spin = [s \in Slots |-> NoSpin]
  /\ flags = {}
  /\ timers = [k \in Callback |-> 0] /\ match = "lobby"
  /\ paid = [p \in Players |-> 0] /\ taken = [p \in Players |-> 0]

Spinners  == \E s \in Slots : Reveal(s) \/ TimeOut(s)
Customers == \/ \E p \in Players : \/ Join(p) \/ Leave(p)
                                   \/ \E b \in Boxes : Roll(p, b)
                                   \/ \E s \in Slots : Take(p, s)
             \/ \E s \in Slots : Blow(s)
Engine    == \/ \E b \in Boxes : Deactivate(b) \/ Unload(b) \/ Activate(b)
             \/ Die \/ Restart
Callbacks == BuildWall \/ PlaceHouse \/ PlaceTowers \/ PlayRun \/ ResetFlags \/ ResetClear

Next == Spinners \/ Customers \/ Engine \/ Callbacks

\* The engine steps every spinner for as long as it exists, and the container
\* restarts the process when it ends.  Nobody has to buy or to take a prize.
Spec     == Init /\ [][Next]_vars
FairSpec == Spec /\ WF_vars(Restart) /\ \A s \in Slots : WF_vars(Reveal(s) \/ TimeOut(s))
----------------------------------------------------------------------------
(* Properties *)

\* Every variable has its type.
TypeOK ==
  /\ perils \in Worlds
  /\ proc \in {"up", "down"} /\ online \subseteq Players
  /\ node \in [Boxes -> {"closed", "open", "gone"}]
  /\ block \in [Boxes -> {"active", "loaded", "out"}]
  /\ busy \subseteq Boxes /\ spin \in [Slots -> Spinner]
  /\ flags \subseteq {"built", "house", "towers"}
  /\ timers \in [Callback -> Nat] /\ match \in {"lobby", "run", "reset"}
  /\ paid \in [Players -> Nat] /\ taken \in [Players -> Nat]

\* Two spinners never turn over one box, though the LBM and the placing
\* callbacks can close a box under a spinner that still turns: the first one's
\* end would free and close the box under the second (tgw_shop 511-518, 550-553).
OneSpinPerBox ==
  \A s, t \in Slots : Turning(s) /\ Turning(t) /\ spin[s].box = spin[t].box => s = t

\* No player is given more than he paid for: the prizes he took and those that
\* still turn for him are rolls of his (tgw_shop 490-505, 547-565).
PrizesPaidFor == \A p \in Players : taken[p] + Cardinality(For(p)) <= paid[p]

\* Whatever joins, resets and restarts interleave, the house has its box when
\* the flag says so and no reset is rebuilding it (tgw_shop 626-633, 666-670,
\* tgw_reset 47-62).  A process that ends between the wall and the house's box
\* breaks it (set_node fails outside memory), and so does nothing else.
HouseHasBox ==
  "stop" \notin perils =>
    ("house" \in flags /\ match # "reset" => node[House] # "gone")

\* A box in use is free again in the end, its prize taken or timed out, though
\* the process ends at any moment: the spinner is not saved, crate_busy neither
\* (tgw_shop 511-518, 568-590).
BoxFreed == \A b \in Boxes : perils \subseteq {"stop"} /\ b \in busy ~> b \notin busy

\* A spinner is a game.
GameOf(s) == [box |-> spin[s].box, player |-> spin[s].owner, shown |-> spin[s].phase = "reveal"]
Games == {GameOf(s) : s \in {t \in Slots : Turning(t)}}

Sale == INSTANCE Vending WITH games <- Games

\* Whatever closes, unloads, resets or kills, the boxes are vending machines: a
\* game at a box belongs to who paid, nobody plays there before it has ended,
\* and it gives one prize at most, shown first, to that player (tgw_shop
\* 478-519, 529-590).
ImplementsVending == Sale!Spec

\* A box found open is closed again so that it can be used ("Recovery : si une
\* caisse est restee ouverte (crash mid-spin, entite perdue), la repasse a
\* closed quand le chunk se recharge", tgw_shop 595-596): nothing is busy at a
\* closed box over which nothing turns.
ClosedBoxUsable ==
  proc = "up" /\ match # "reset" =>
    \A b \in Boxes : node[b] = "closed" /\ Over(b) = {} => b \notin busy
=============================================================================
