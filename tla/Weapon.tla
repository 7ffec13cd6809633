------------------------------- MODULE Weapon -------------------------------
(***************************************************************************)
(* The firearms one player carries (tgw_combat): magazine, reload, XP and  *)
(* accessories, all kept in the metadata of an inventory stack.  A stack   *)
(* is a value: whoever changes one works on a copy and puts it back.  Five *)
(* parties do: on_use, whose copy the engine writes back after the shot;   *)
(* add_xp, called while the shot's victim dies; the tick that every second *)
(* refreshes every stack; the form of the upgrade table; and the player    *)
(* who moves stacks between these.                                         *)
(***************************************************************************)
EXTENDS Integers, FiniteSets

CONSTANTS
  Size,        \* cells of the list "main"
  Guns,        \* weapons with a magazine
  Accs,        \* accessories
  AccSlots,    \* ACC_SLOTS
  SlotOf,      \* SlotOf[a]: the slot accessory a goes to
  MagSize,     \* mag_size of the guns
  MagWith,     \* MagWith[a]: mag_size with accessory a fitted
  ReloadTime,  \* how long a reload takes
  Contents,    \* Contents[i]: what cell i holds at first
  MaxGuns,     \* bound: firearms carried when another one is received
  MaxKills     \* bound: kills counted

None  == "none"
Cells == 1..Size
Items == Guns \cup Accs \cup {None}

ASSUME WeaponAssumption ==
  /\ Size \in Nat \ {0}
  /\ Guns \cap Accs = {} /\ None \notin Guns \cup Accs
  /\ SlotOf \in [Accs -> AccSlots]
  /\ MagSize \in Nat \ {0} /\ MagWith \in [Accs -> Nat \ {0}]
  /\ ReloadTime \in Nat \ {0} /\ MaxGuns \in Nat /\ MaxKills \in Nat
  /\ Contents \in [Cells -> Items]

VARIABLES
  inv,      \* the list "main"
  wield,    \* the cell in hand
  session,  \* loadout_session: the weapon the open form shows, and its cell
  ground,   \* ground[a]: accessories a that lie on the ground
  kills     \* kills[g]: invaders killed with g in hand

vars == <<inv, wield, session, ground, kills>>

----------------------------------------------------------------------------
(* Stacks *)

\* ammo = -1: not set yet.  reload = -1: reload_until is "", otherwise the time
\* left until it.
Stack      == [item : Items, ammo : Nat \cup {-1}, reload : -1..ReloadTime, xp : Nat,
               acc : [AccSlots -> Accs \cup {None}]]
Fresh(x)   == [item |-> x, ammo |-> -1, reload |-> -1, xp |-> 0,
               acc |-> [k \in AccSlots |-> None]]
Nothing    == Fresh(None)
IsGun(st)  == st.item \in Guns
NoSession  == [gun |-> None, cell |-> 1]

\* effective(def, stack).mag_size
Fitted(st)    == {a \in Accs : st.acc[SlotOf[a]] = a /\ MagWith[a] # MagSize}
Magazine(st)  == IF Fitted(st) = {} THEN MagSize ELSE MagWith[CHOOSE a \in Fitted(st) : TRUE]

\* A stack with other rounds and reload.
Rounds(st, n, r) ==
  [item |-> st.item, ammo |-> n, reload |-> r, xp |-> st.xp, acc |-> st.acc]

\* refresh_stack: fills a magazine that was never set.
Refreshed(st) == IF st.ammo = -1 THEN [st EXCEPT !.ammo = Magazine(st)] ELSE st

\* add_item and remove_item: the first empty cell, the last one that matches.
EmptyCells   == {i \in Cells : inv[i].item = None}
FirstIn(S)   == CHOOSE i \in S : \A j \in S : i <= j
LastIn(S)    == CHOOSE i \in S : \A j \in S : j <= i
Holding(x)   == {i \in Cells : inv[i].item = x}

----------------------------------------------------------------------------
(* Shooting *)

\* check_reload: a reload that has ended, or a first use, fills the magazine.
Loaded(st) ==
  IF st.reload = 0 THEN Rounds(st, Magazine(st), -1)
                   ELSE Refreshed(st)

\* consume_ammo_or_block on a weapon that is not reloading: an empty magazine
\* only starts a reload; a shot takes a round, and the last one starts a reload.
PulledNoReload(st) ==
  IF st.ammo <= 0 THEN [st EXCEPT !.reload = ReloadTime]
                  ELSE [st EXCEPT !.ammo = st.ammo - 1]
Pulled(st) ==
  IF st.ammo <= 0 THEN [st EXCEPT !.reload = ReloadTime]
  ELSE Rounds(st, st.ammo - 1, IF st.ammo = 1 THEN ReloadTime ELSE st.reload)

\* add_xp: the first stack of this weapon, and only that one.
XpForAll(g, list) == [i \in Cells |-> IF list[i].item = g
                                      THEN [Refreshed(list[i]) EXCEPT !.xp = @ + 1]
                                      ELSE list[i]]
AddXp(g, list) ==
  LET first == FirstIn({i \in Cells : list[i].item = g})
  IN  [list EXCEPT ![first] = [Refreshed(list[first]) EXCEPT !.xp = @ + 1]]

\* on_use.  A weapon still reloading stays as it is.  The cell in hand receives
\* the copy on_use worked on, whatever the inventory became during the shot.
Shoot ==
  LET gun == inv[wield]
      st  == Loaded(gun)
  IN  /\ IsGun(gun) /\ gun.reload <= 0
      /\ \/ /\ inv' = [inv EXCEPT ![wield] = Pulled(st)]                   \* no kill
            /\ UNCHANGED kills
         \/ /\ st.ammo > 0 /\ kills[gun.item] < MaxKills
            /\ kills' = [kills EXCEPT ![gun.item] = @ + 1]
            /\ inv' = [AddXp(gun.item, inv) EXCEPT ![wield] = Pulled(st)]
      /\ UNCHANGED <<wield, session, ground>>

----------------------------------------------------------------------------
(* Time *)

Reloading(i) == inv[i].reload >= 0

\* init_stack_display on one stack: new ones and those with a reload pending.
\* A reload that has ended gives def.mag_size rounds.
TickedOnlyNew(st)  == IF IsGun(st) THEN Refreshed(st) ELSE st
Ticked(st) ==
  IF ~IsGun(st) THEN st
  ELSE IF st.reload = 0 THEN Rounds(st, MagSize, -1)
  ELSE Refreshed(st)

\* tick_init, once a second.
TickInit ==
  /\ inv' = [i \in Cells |-> Ticked(inv[i])]
  /\ UNCHANGED <<wield, session, ground, kills>>

Pass ==
  /\ \E i \in Cells : inv[i].reload > 0
  /\ inv' = [i \in Cells |-> IF inv[i].reload > 0 THEN [inv[i] EXCEPT !.reload = @ - 1]
                                                   ELSE inv[i]]
  /\ UNCHANGED <<wield, session, ground, kills>>

----------------------------------------------------------------------------
(* The upgrade table *)

\* show_loadout, for the weapon in hand (find_wielded_weapon).
WieldsAnything == inv[wield].item # None
WieldsWeapon   == IsGun(inv[wield])
OpenTable ==
  /\ WieldsWeapon
  /\ session' = [gun |-> inv[wield].item, cell |-> wield]
  /\ UNCHANGED <<inv, wield, ground, kills>>

CloseTable ==
  /\ session # NoSession
  /\ session' = NoSession
  /\ UNCHANGED <<inv, wield, ground, kills>>

\* The receive_fields handler checks that the cell still holds that weapon; a
\* form whose weapon went away is forgotten.
SameWeapon == session # NoSession /\ inv[session.cell].item = session.gun
FormExpires ==
  /\ session # NoSession /\ ~SameWeapon
  /\ session' = NoSession
  /\ UNCHANGED <<inv, wield, ground, kills>>

\* An accessory goes to the first empty cell, or to the ground.
Unequip(k) ==
  LET c == session.cell
      a == inv[c].acc[k]
      bare == Refreshed([inv[c] EXCEPT !.acc[k] = None])
  IN  /\ SameWeapon /\ a # None
      /\ \/ EmptyCells # {} /\ inv' = [inv EXCEPT ![FirstIn(EmptyCells)] = Fresh(a), ![c] = bare]
            /\ UNCHANGED ground
         \/ EmptyCells = {} /\ inv' = [inv EXCEPT ![c] = bare]
            /\ ground' = [ground EXCEPT ![a] = @ + 1]
      /\ UNCHANGED <<wield, session, kills>>

\* The accessory fitted before is put back first, and only then the new one is
\* taken out of its cell.
FitNoSwap(a) ==
  LET c == session.cell
      fit == Refreshed([inv[c] EXCEPT !.acc[SlotOf[a]] = a])
  IN  /\ inv' = [inv EXCEPT ![LastIn(Holding(a))] = Nothing, ![c] = fit]
      /\ UNCHANGED ground
Fit(a) ==
  LET c   == session.cell
      old == inv[c].acc[SlotOf[a]]
      fit == Refreshed([inv[c] EXCEPT !.acc[SlotOf[a]] = a])
      out == LastIn(Holding(a) \cup (IF old = a /\ EmptyCells # {}
                                     THEN {FirstIn(EmptyCells)} ELSE {}))
  IN  \/ /\ old = None
         /\ inv' = [inv EXCEPT ![LastIn(Holding(a))] = Nothing, ![c] = fit]
         /\ UNCHANGED ground
      \/ /\ old # None /\ EmptyCells # {}
         /\ inv' = [inv EXCEPT ![FirstIn(EmptyCells)] = Fresh(old), ![out] = Nothing, ![c] = fit]
         /\ UNCHANGED ground
      \/ /\ old # None /\ EmptyCells = {}
         /\ inv' = [inv EXCEPT ![LastIn(Holding(a))] = Nothing, ![c] = fit]
         /\ ground' = [ground EXCEPT ![old] = @ + 1]

Equip(a) ==
  /\ SameWeapon /\ Holding(a) # {}
  /\ Fit(a)
  /\ UNCHANGED <<wield, session, kills>>

----------------------------------------------------------------------------
(* The player's inventory, handled by the engine *)

Swap(i, j) ==
  /\ i < j /\ inv[i] # inv[j]
  /\ inv' = [inv EXCEPT ![i] = inv[j], ![j] = inv[i]]
  /\ UNCHANGED <<wield, session, ground, kills>>

Select(i) ==
  /\ wield' = i
  /\ UNCHANGED <<inv, session, ground, kills>>

\* A weapon from a mystery box, new.
Receive(g) ==
  /\ EmptyCells # {} /\ Cardinality({i \in Cells : IsGun(inv[i])}) < MaxGuns
  /\ inv' = [inv EXCEPT ![FirstIn(EmptyCells)] = Fresh(g)]
  /\ UNCHANGED <<wield, session, ground, kills>>

PickUp(a) ==
  /\ ground[a] > 0 /\ EmptyCells # {}
  /\ ground' = [ground EXCEPT ![a] = @ - 1]
  /\ inv' = [inv EXCEPT ![FirstIn(EmptyCells)] = Fresh(a)]
  /\ UNCHANGED <<wield, session, kills>>

----------------------------------------------------------------------------
Init ==
  /\ inv = [i \in Cells |-> Fresh(Contents[i])]
  /\ wield = 1 /\ session = NoSession
  /\ ground = [a \in Accs |-> 0] /\ kills = [g \in Guns |-> 0]

Table  == \/ OpenTable \/ CloseTable \/ FormExpires
          \/ \E k \in AccSlots : Unequip(k)
          \/ \E a \in Accs : Equip(a)
Player == \/ Shoot
          \/ \E i \in Cells : Select(i) \/ \E j \in Cells : Swap(i, j)
          \/ \E g \in Guns : Receive(g)
          \/ \E a \in Accs : PickUp(a)

Next == Player \/ Table \/ TickInit \/ Pass

\* Time passes and tick_init reschedules itself for ever.
Spec     == Init /\ [][Next]_vars
FairSpec == Spec /\ WF_vars(Pass) /\ WF_vars(TickInit)
----------------------------------------------------------------------------
(* Properties *)

\* Every variable has its type.
TypeOK ==
  /\ inv \in [Cells -> Stack] /\ wield \in Cells
  /\ session \in [gun : Guns \cup {None}, cell : Cells]
  /\ ground \in [Accs -> Nat] /\ kills \in [Guns -> Nat]

\* A firearm whose magazine is empty is being reloaded, whoever wrote the stack
\* back last, so that it always fires again (tgw_combat 318-340, 699-725).
EmptyMeansReloading ==
  \A i \in Cells : IsGun(inv[i]) /\ inv[i].ammo = 0 => Reloading(i)

\* Accessories are never lost nor doubled by fitting, swapping and removing
\* them, with room in the inventory or without (tgw_combat 941-1004).
Total(a) == Cardinality(Holding(a)) + ground[a]
            + Cardinality({i \in Cells : inv[i].acc[SlotOf[a]] = a})
AccessoriesConserved ==
  \A a \in Accs : Total(a) = Cardinality({i \in Cells : Contents[i] = a})

\* XP is not invented: the weapons of a kind hold together at most what was
\* earned with that kind (tgw_combat 186-223, 686-696).
XpOf(g) == UNION {{i} \X (1..inv[i].xp) : i \in Holding(g)}
XpFromKills == \A g \in Guns : Cardinality(XpOf(g)) <= kills[g]

\* A player all of whose firearms are being reloaded gets one that can shoot,
\* or is left with none, whatever he does with them meanwhile: the tick brings
\* every reload to its end (tgw_combat 702-733).
AllReloading == (\E i \in Cells : IsGun(inv[i])) /\ \A i \in Cells : IsGun(inv[i]) => Reloading(i)
ReloadEnds == AllReloading ~> ~AllReloading

\* Every kill gives its XP ("Ajoute XP a la premiere stack matching dans
\* l'inventaire main du joueur", tgw_combat 186).
KillsGiveXp == \A g \in Guns : Cardinality(XpOf(g)) = kills[g]
=============================================================================
