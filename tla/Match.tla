------------------------------- MODULE Match -------------------------------
(***************************************************************************)
(* One match of The Great Wall: the match state of tgw_core, the wave      *)
(* counter of tgw_waves, the invaders and what removes them (tgw_invader,  *)
(* tgw_combat's punches, tgw_shop's traps, tgw_capture, tgw_pipeline), the *)
(* house door (tgw_house), the soft reset (tgw_reset), the line a finished *)
(* run leaves in the Hall of Fame (tgw_hof), and the death and restart of  *)
(* the server process.                                                     *)
(*                                                                         *)
(* Mods talk over a synchronous event bus, so one action is one engine     *)
(* callback with every listener it runs.  core.after is modelled by        *)
(* countdowns that Tick advances together; a callback whose countdown is   *)
(* at zero runs before time moves again.                                   *)
(***************************************************************************)
EXTENDS Integers, Sequences, FiniteSets

CONSTANTS
  Ids,            \* pool of entity slots: bounds the invaders alive at once
  Room,           \* bound: slots free when START is pressed
  Waves,          \* waves_total
  WaveSize,       \* WaveSize[w]: regular invaders of wave w (#mix)
  BossOf,         \* BossOf[w]: the boss of wave w, or "none"
  Hp,             \* Hp[k]: hit points of an invader of kind k
  Punches,        \* damage a player's hit can do
  Traps,          \* damage a trap can do
  Strikes,        \* damage an invader's blow does to the door
  DoorHp,         \* DOOR_HP
  SummonCount,    \* minions a summoner calls at once
  SpawnGap, PipeDelay, WaveGap, ResetDelay, ClearDelay, LoadoutDelay,
                  \* the delays given to core.after
  Perils          \* which of the events below the instance lets happen

Bosses  == {"titan", "summoner"}
Kinds   == {"runner"} \cup Bosses
AllPerils == {"net",         \* players own capture nets
              "unload",      \* an invader is out of every player's range
              "ungenerated", \* ... over a map block that cannot be saved
              "strike",      \* invaders reach the door
              "stop"}        \* the server is stopped by its operator

ASSUME MatchAssumption ==
  /\ IsFiniteSet(Ids)
  /\ Waves \in Nat \ {0} /\ Room \in Nat
  /\ WaveSize \in [1..Waves -> Nat \ {0}]
  /\ BossOf \in [1..Waves -> Bosses \cup {"none"}]
  /\ Hp \in [Kinds -> Nat \ {0}]
  /\ Punches \subseteq Nat \ {0} /\ Traps \subseteq Nat \ {0}
  /\ Strikes \subseteq Nat \ {0}
  /\ DoorHp \in Nat \ {0} /\ SummonCount \in Nat \ {0}
  /\ \A d \in {SpawnGap, PipeDelay, WaveGap, ResetDelay, ClearDelay, LoadoutDelay} :
       d \in Nat \ {0}
  /\ Perils \subseteq AllPerils

VARIABLES
  proc,      \* the server process is running
  state,     \* current_state
  wave,      \* current_wave
  alive,     \* alive_count
  active,    \* wave_active
  chains,    \* next_spawn callbacks pending: which wave, how many left, when
  gaps,      \* gaps[d]: between-wave callbacks that run in d
  clears,    \* wave_cleared events (so wave rewards paid) since run_started
  inv,       \* the invaders: in the world, on their way out, or stored on disk
  pipe,      \* pipe[i]: the pipeline callback that holds a reference to i
  doorHp, doorInit,  \* mod storage of tgw_house
  phase, resetDue,   \* the reset's current callback; pending = phase # "idle"
  hof        \* wave_reached of the Hall of Fame lines written for this run

waveVars  == <<wave, alive, active, clears>>
timerVars == <<chains, gaps, pipe>>
doorVars  == <<doorHp, doorInit>>
endVars   == <<phase, resetDue, hof>>
vars == <<proc, state, waveVars, timerVars, inv, doorVars, endVars>>

----------------------------------------------------------------------------
(* Invaders *)

Entity     == [st : {"none", "live", "captured", "stored"}, kind : Kinds, hp : Nat]
Absent     == [st |-> "none", kind |-> "runner", hp |-> 0]
Fresh(k)   == [st |-> "live", kind |-> k, hp |-> Hp[k]]
Hurt(e, d) == IF e.hp > d THEN [e EXCEPT !.hp = @ - d] ELSE Absent
NoJob      == [due |-> -1, kind |-> "runner"]
Chain      == [wave : 1..Waves, left : Nat, due : 0..SpawnGap]
Job        == [due : -1..PipeDelay, kind : Kinds]

\* An active object: a Lua entity the engine steps and players can hit.
InWorld(i) == inv[i].st \in {"live", "captured"}

\* A slot no entity uses and no pending callback refers to.
Free == {i \in Ids : inv[i].st = "none" /\ pipe[i] = NoJob}

\* What removing every luaentity whose name starts with "tgw_invader:" leaves:
\* entities unloaded to disk are not in core.luaentities.
OnlyStored == [i \in Ids |-> IF inv[i].st = "stored" THEN inv[i] ELSE Absent]

NoGap == [d \in 0..WaveGap |-> 0]

----------------------------------------------------------------------------
(* Event listeners, each the effect of one emit *)

\* tgw_reset.run: a second call while a reset is pending does nothing.
StartResetOnlyIfPending ==
  IF phase # "idle"
  THEN phase' = "wait" /\ resetDue' = ResetDelay
  ELSE UNCHANGED <<phase, resetDue>>
StartReset ==
  IF phase = "idle"
  THEN phase' = "wait" /\ resetDue' = ResetDelay
  ELSE UNCHANGED <<phase, resetDue>>

\* What tgw_waves does on the change to DEFEAT or LOBBY: the wave is over, every
\* invader in the world is removed.
StopWavesKeepNumber == active' = "off" /\ inv' = OnlyStored /\ UNCHANGED wave
StopWaves           == active' = "off" /\ inv' = OnlyStored /\ wave' = 0

\* After the last wave set_state(VICTORY) and run_won, to the Hall of Fame and
\* to the reset; after another, core.after(8.0, ...).
EndOfWaveLastTooEarly ==
  IF wave >= Waves - 1
  THEN state' = "VICTORY" /\ hof' = Append(hof, Waves) /\ StartReset /\ UNCHANGED gaps
  ELSE gaps' = [gaps EXCEPT ![WaveGap] = @ + 1] /\ UNCHANGED <<state, endVars>>
EndOfWaveNoTimer ==
  IF wave >= Waves
  THEN state' = "VICTORY" /\ hof' = Append(hof, Waves) /\ StartReset /\ UNCHANGED gaps
  ELSE UNCHANGED <<state, gaps, endVars>>
EndOfWave ==
  IF wave >= Waves
  THEN state' = "VICTORY" /\ hof' = Append(hof, Waves) /\ StartReset /\ UNCHANGED gaps
  ELSE gaps' = [gaps EXCEPT ![WaveGap] = @ + 1] /\ UNCHANGED <<state, endVars>>

\* on_invader_gone.  The event does not say which invader went, nor of which
\* wave: a wave that is not active ignores it, an active one counts it off.
InvaderGone ==
  \/ /\ active = "off"
     /\ UNCHANGED <<state, waveVars, gaps, endVars>>
  \/ /\ active = "on" /\ alive > 1
     /\ alive' = alive - 1
     /\ UNCHANGED <<state, wave, active, clears, gaps, endVars>>
  \/ /\ active = "on" /\ alive <= 1
     /\ alive' = alive - 1
     /\ active' = "off"
     /\ clears' = clears + 1
     /\ UNCHANGED wave
     /\ EndOfWave

\* invader_returned, n times.
ReturnedUncounted(n) == alive' = alive
ReturnedSubtracted(n) == alive' = IF active = "on" THEN alive - n ELSE alive
InvadersReturned(n) == alive' = IF active = "on" THEN alive + n ELSE alive

\* spawn_wave(w): count the wave, spawn its first invader, schedule the rest.
SpawnWave(w) ==
  /\ alive' = WaveSize[w] + (IF BossOf[w] = "none" THEN 0 ELSE 1)
  /\ active' = "on"
  /\ chains' = chains \cup {[wave |-> w, left |-> WaveSize[w] - 1, due |-> SpawnGap]}
  /\ \E i \in Free : inv' = [inv EXCEPT ![i] = Fresh("runner")]

----------------------------------------------------------------------------
(* What players do *)

\* START button: only in LOBBY; set_state(RUN), then run_started.
StartInAnyState     == TRUE
StartUnlessRunning  == state # "RUN"
StartAllowed        == state = "LOBBY"
PressStart ==
  /\ proc = "up" /\ StartAllowed /\ Cardinality(Free) >= Room
  /\ state' = "RUN"
  /\ wave' = 1
  /\ clears' = 0
  /\ hof' = << >>
  /\ SpawnWave(1)
  /\ UNCHANGED <<proc, gaps, pipe, doorVars, phase, resetDue>>

\* obj:punch: the engine calls on_punch, which kills the invader or stores
\* hp - d; on_punch returns nil, so the engine then takes d off again, and an
\* invader it brings to 0 is removed without any event.
Punch(i, d) ==
  /\ proc = "up" /\ InWorld(i)
  /\ \/ /\ inv[i].hp <= d
        /\ InvaderGone
        /\ inv' = [inv EXCEPT ![i] = Absent]
     \/ /\ inv[i].hp > d
        /\ inv' = [inv EXCEPT ![i] = Hurt(@, 2 * d)]
        /\ UNCHANGED <<state, waveVars, gaps, endVars>>
  /\ UNCHANGED <<proc, chains, pipe, doorVars>>

\* damage_invader: a trap's ABM or a mine.  No engine punch, so d counts once.
TrapHit(i, d) ==
  /\ proc = "up" /\ InWorld(i)
  /\ \/ /\ inv[i].hp <= d
        /\ InvaderGone
        /\ inv' = [inv EXCEPT ![i] = Absent]
     \/ /\ inv[i].hp > d
        /\ inv' = [inv EXCEPT ![i] = Hurt(@, d)]
        /\ UNCHANGED <<state, waveVars, gaps, endVars>>
  /\ UNCHANGED <<proc, chains, pipe, doorVars>>

\* The net: capture marks the entity and emits invader_captured; send moves it
\* to the far end of the map and schedules the pipeline's callback.
Capture(i) ==
  /\ "net" \in Perils
  /\ proc = "up" /\ inv[i].st = "live"
  /\ InvaderGone
  /\ inv' = [inv EXCEPT ![i].st = "captured"]
  /\ pipe' = [pipe EXCEPT ![i] = [due |-> PipeDelay, kind |-> inv[i].kind]]
  /\ UNCHANGED <<proc, chains, doorVars>>

\* The shop's door repair (repair_door_full), in any state of the match.
RepairDoor ==
  /\ proc = "up"
  /\ doorHp' = DoorHp /\ doorInit' = "1"
  /\ UNCHANGED <<proc, state, waveVars, timerVars, inv, endVars>>

\* The HUD's tick reads the door: door_get_hp fills it in when it is unset.
ReadDoor ==
  /\ proc = "up" /\ doorHp <= 0 /\ doorInit = ""
  /\ doorHp' = DoorHp /\ doorInit' = "1"
  /\ UNCHANGED <<proc, state, waveVars, timerVars, inv, endVars>>

----------------------------------------------------------------------------
(* What invaders do *)

\* on_step of a summoner: spawn the minions, one invader_returned for each.
Summon(i) ==
  /\ proc = "up" /\ InWorld(i) /\ inv[i].kind = "summoner"
  /\ \E S \in SUBSET Free :
       /\ Cardinality(S) = SummonCount
       /\ inv' = [j \in Ids |-> IF j \in S THEN Fresh("runner") ELSE inv[j]]
  /\ InvadersReturned(SummonCount)
  /\ UNCHANGED <<proc, state, wave, active, clears, timerVars, doorVars, endVars>>

\* The door's hit points as damage_door sees them (door_get_hp).
DoorSeen == IF doorHp <= 0 /\ doorInit = "" THEN DoorHp ELSE doorHp

\* A blow the door survives.
HitDoor(i, d) ==
  /\ "strike" \in Perils
  /\ proc = "up" /\ inv[i].st = "live" /\ DoorSeen > d
  /\ doorHp' = DoorSeen - d
  /\ doorInit' = "1"
  /\ UNCHANGED <<proc, state, waveVars, timerVars, inv, endVars>>

\* damage_door ends the run only if one is on.
AlwaysEndsRun == TRUE
EndsRun       == state = "RUN"

\* A blow that leaves no door outside a run: damage_door does nothing more.
BreakDoorOutsideRun(i, d) ==
  /\ "strike" \in Perils
  /\ proc = "up" /\ inv[i].st = "live" /\ DoorSeen <= d /\ ~EndsRun
  /\ doorHp' = 0
  /\ doorInit' = "1"
  /\ UNCHANGED <<proc, state, waveVars, timerVars, inv, endVars>>

\* A blow that leaves no door during a run.  set_state(DEFEAT) makes tgw_waves
\* stop the wave and remove every invader, the one striking included; run_lost
\* carries wave_reached = -1 to the Hall of Fame and starts the reset.  on_step
\* then indexes the velocity of the invader just removed, which is nil: the Lua
\* error reaches the engine and ends the process.
BreakDoor(i, d) ==
  /\ "strike" \in Perils
  /\ proc = "up" /\ inv[i].st = "live" /\ DoorSeen <= d /\ EndsRun
  /\ doorHp' = 0
  /\ doorInit' = "1"
  /\ state' = "DEFEAT"
  /\ StopWaves
  /\ hof' = Append(hof, -1)
  /\ StartReset
  /\ proc' = "down"
  /\ UNCHANGED <<alive, clears, timerVars>>

----------------------------------------------------------------------------
(* What the engine does *)

\* deactivateFarObjects: an entity no player is near goes to its map block's
\* static storage, or is lost when the block cannot be emerged.
Unload(i) ==
  /\ proc = "up" /\ InWorld(i)
  /\ \/ "unload" \in Perils /\ inv' = [inv EXCEPT ![i].st = "stored"]
     \/ "ungenerated" \in Perils /\ inv' = [inv EXCEPT ![i] = Absent]
  /\ UNCHANGED <<proc, state, waveVars, timerVars, doorVars, endVars>>

\* The block becomes active again: a new Lua entity, so a new slot, with the
\* hit points its staticdata recorded and no memory of having been captured.
Reload(i) ==
  /\ proc = "up" /\ inv[i].st = "stored"
  /\ \E j \in Free \cup (IF pipe[i] = NoJob THEN {i} ELSE {}) :
       inv' = [inv EXCEPT ![i] = Absent,
                          ![j] = [st |-> "live", kind |-> inv[i].kind, hp |-> inv[i].hp]]
  /\ UNCHANGED <<proc, state, waveVars, timerVars, doorVars, endVars>>

\* Shutdown by the operator.
Stop ==
  /\ "stop" \in Perils
  /\ proc = "up"
  /\ proc' = "down"
  /\ UNCHANGED <<state, waveVars, timerVars, inv, doorVars, endVars>>

\* The container restarts the process.  Entities in the world were written to
\* disk on the way down; the mods' variables and callbacks start afresh.
Restart ==
  /\ proc = "down"
  /\ proc' = "up"
  /\ state' = "LOBBY"
  /\ wave' = 0 /\ alive' = 0 /\ active' = "off"
  /\ chains' = {} /\ gaps' = NoGap /\ pipe' = [i \in Ids |-> NoJob]
  /\ inv' = [i \in Ids |-> IF InWorld(i) THEN [inv[i] EXCEPT !.st = "stored"] ELSE inv[i]]
  /\ phase' = "idle" /\ resetDue' = 0
  /\ UNCHANGED <<clears, doorVars, hof>>

----------------------------------------------------------------------------
(* core.after *)

\* next_spawn: one more invader, or after the last the boss, if there is one.
\* Nothing cancels it when the run ends.
SpawnNext(c) ==
  /\ proc = "up" /\ c.due = 0
  /\ \/ /\ c.left > 0
        /\ \E i \in Free : inv' = [inv EXCEPT ![i] = Fresh("runner")]
        /\ chains' = (chains \ {c}) \cup
                       {[wave |-> c.wave, left |-> c.left - 1, due |-> SpawnGap]}
     \/ /\ c.left = 0 /\ BossOf[c.wave] # "none"
        /\ \E i \in Free : inv' = [inv EXCEPT ![i] = Fresh(BossOf[c.wave])]
        /\ chains' = chains \ {c}
     \/ /\ c.left = 0 /\ BossOf[c.wave] = "none"
        /\ chains' = chains \ {c}
        /\ UNCHANGED inv
  /\ UNCHANGED <<proc, state, waveVars, gaps, pipe, doorVars, endVars>>

\* The callback between two waves: the next wave, if the run is still on.
NextWave ==
  /\ proc = "up" /\ gaps[0] > 0
  /\ gaps' = [gaps EXCEPT ![0] = @ - 1]
  /\ \/ /\ state # "RUN"
        /\ UNCHANGED <<wave, alive, active, chains, inv>>
     \/ /\ state = "RUN"
        /\ wave' = wave + 1
        /\ SpawnWave(wave + 1)
  /\ UNCHANGED <<proc, state, clears, pipe, doorVars, endVars>>

\* The pipeline's callback: remove the captured entity (a reference to one that
\* is dead or unloaded removes nothing), then perhaps send one back.
Deport(i) ==
  /\ proc = "up" /\ pipe[i].due = 0
  /\ pipe' = [pipe EXCEPT ![i] = NoJob]
  /\ LET left == IF InWorld(i) THEN [inv EXCEPT ![i] = Absent] ELSE inv
     IN  \/ inv' = left /\ UNCHANGED alive
         \/ /\ \E j \in Free \cup {k \in {i} : left[k].st = "none"} :
                 inv' = [left EXCEPT ![j] = Fresh(pipe[i].kind)]
            /\ InvadersReturned(1)
  /\ UNCHANGED <<proc, state, wave, active, clears, chains, gaps, doorVars, endVars>>

\* First callback of the reset: world_reset forgets the door.
ResetWorld ==
  /\ proc = "up" /\ phase = "wait" /\ resetDue = 0
  /\ doorHp' = 0 /\ doorInit' = ""
  /\ phase' = "clear" /\ resetDue' = ClearDelay
  /\ UNCHANGED <<proc, state, waveVars, timerVars, inv, hof>>

\* Second callback: remove every active object, rebuild the house.
ClearWorld ==
  /\ proc = "up" /\ phase = "clear" /\ resetDue = 0
  /\ inv' = OnlyStored
  /\ doorHp' = DoorHp /\ doorInit' = "1"
  /\ phase' = "loadout" /\ resetDue' = LoadoutDelay
  /\ UNCHANGED <<proc, state, waveVars, timerVars, hof>>

\* Third callback: set_state(LOBBY), on which tgw_waves stops the wave and
\* removes every invader; the reset is over.
BackToLobby ==
  /\ proc = "up" /\ phase = "loadout" /\ resetDue = 0
  /\ state' = "LOBBY"
  /\ StopWaves
  /\ phase' = "idle"
  /\ UNCHANGED <<proc, alive, clears, timerVars, doorVars, resetDue, hof>>

\* Time passes while a callback is pending and none is due.
Tick ==
  /\ proc = "up"
  /\ chains # {} \/ gaps # NoGap \/ phase # "idle" \/ \E i \in Ids : pipe[i] # NoJob
  /\ \A c \in chains : c.due > 0
  /\ gaps[0] = 0
  /\ \A i \in Ids : pipe[i].due # 0
  /\ phase # "idle" => resetDue > 0
  /\ chains' = {[c EXCEPT !.due = @ - 1] : c \in chains}
  /\ gaps' = [d \in 0..WaveGap |-> IF d < WaveGap THEN gaps[d + 1] ELSE 0]
  /\ pipe' = [i \in Ids |-> IF pipe[i].due > 0 THEN [pipe[i] EXCEPT !.due = @ - 1]
                                               ELSE pipe[i]]
  /\ resetDue' = IF phase = "idle" THEN resetDue ELSE resetDue - 1
  /\ UNCHANGED <<proc, state, waveVars, inv, doorVars, phase, hof>>

----------------------------------------------------------------------------

Init ==
  /\ proc = "up" /\ state = "LOBBY"
  /\ wave = 0 /\ alive = 0 /\ active = "off" /\ clears = 0
  /\ chains = {} /\ gaps = NoGap /\ pipe = [i \in Ids |-> NoJob]
  /\ inv = [i \in Ids |-> Absent]
  /\ doorHp = DoorHp /\ doorInit = "1"      \* tgw_house.build ran
  /\ phase = "idle" /\ resetDue = 0
  /\ hof = << >>

Players ==
  \/ PressStart
  \/ \E i \in Ids : \/ \E d \in Punches : Punch(i, d)
                    \/ Capture(i)
  \/ RepairDoor
  \/ ReadDoor

Invaders ==
  \E i \in Ids :
    \/ Summon(i)
    \/ \E d \in Strikes : HitDoor(i, d) \/ BreakDoorOutsideRun(i, d) \/ BreakDoor(i, d)
    \/ \E d \in Traps : TrapHit(i, d)

Engine == (\E i \in Ids : Unload(i) \/ Reload(i)) \/ Stop

Callbacks ==
  \/ \E c \in chains : SpawnNext(c)
  \/ NextWave
  \/ \E i \in Ids : Deport(i)
  \/ ResetWorld \/ ClearWorld \/ BackToLobby

Next == Players \/ Invaders \/ Engine \/ Callbacks \/ Tick \/ Restart

\* The server steps for ever and runs what is due; the container is restarted
\* when the process ends.  Nothing obliges players or invaders to act.
Fairness == WF_vars(Callbacks \/ Tick) /\ WF_vars(Restart)

Spec     == Init /\ [][Next]_vars
FairSpec == Spec /\ Fairness
----------------------------------------------------------------------------
(* Properties *)

\* Every variable has its type: the counters and flags, and the objects.
CountersOK ==
  /\ proc \in {"up", "down"} /\ state \in {"LOBBY", "RUN", "DEFEAT", "VICTORY"}
  /\ wave \in 0..Waves /\ alive \in Nat /\ active \in {"on", "off"} /\ clears \in Nat
  /\ gaps \in [0..WaveGap -> Nat]
  /\ phase \in {"idle", "wait", "clear", "loadout"} /\ resetDue \in Nat
  /\ hof \in Seq(Int)
ObjectsOK ==
  /\ chains \in SUBSET Chain
  /\ pipe \in [Ids -> Job]
  /\ inv \in [Ids -> Entity]
  /\ doorHp \in 0..DoorHp /\ doorInit \in {"", "1"}
TypeOK == CountersOK /\ ObjectsOK

OneGap(d) == [x \in 0..WaveGap |-> IF x = d THEN 1 ELSE 0]

\* A run always moves on: while its wave is being fought the counter still
\* waits for somebody and no between-wave callback is pending; otherwise
\* exactly one such callback is pending.  Outside a run none is, so a callback
\* of one run never starts a wave of the next (tgw_waves, 221-266).
OneWaveAtATime ==
  proc = "up" =>
    /\ active = "on" => state = "RUN" /\ alive > 0
    /\ gaps = NoGap <=> (active = "on" \/ state # "RUN")
    /\ gaps # NoGap => \E d \in 0..WaveGap : gaps = OneGap(d)

\* The waves are cleared, and their rewards paid, once each and in order: the
\* number of wave_cleared events since START is the number of waves finished,
\* all of them at VICTORY (tgw_waves 221-237, tgw_economy 104-106).
EachWaveClearedOnce ==
  /\ state = "RUN" /\ active = "on"  => wave >= 1 /\ clears = wave - 1
  /\ proc = "up" /\ state = "RUN" /\ active = "off" => wave \in 1..(Waves - 1) /\ clears = wave
  /\ state = "VICTORY" => clears = Waves

\* A run leaves one line in the Hall of Fame, when it ends and not before,
\* whatever counts, strikes and callbacks cross at its end (tgw_hof 85-93).
OneHallOfFameLine ==
  /\ state = "RUN" => hof = << >>
  /\ state \in {"VICTORY", "DEFEAT"} => Len(hof) = 1

\* In a living process a reset is pending exactly while the match is won: it
\* never rebuilds the world under a run and START never interrupts it
\* (tgw_reset 35-79, tgw_house 201-216).
ResetOnlyAfterVictory == proc = "up" => (phase # "idle" <=> state = "VICTORY")

\* The wave number goes up by one, after the wave before it was cleared, or
\* back to 0; a restarted or reset match never resumes an old number.
WavesInOrder ==
  [][wave' # wave => \/ wave' = wave + 1 /\ active = "off" /\ active' = "on" /\ state' = "RUN"
                     \/ wave' = 0 /\ state' # "RUN"]_vars

\* The invaders of a wave that are still to be dealt with: on the field (seen or
\* unloaded), and the tickets of those that pending callbacks are to spawn.
FieldOf(f)   == {i \in Ids : f[i].st \in {"live", "stored"}}
ToCome(c)    == c.left + (IF BossOf[c.wave] = "none" THEN 0 ELSE 1)
TicketsOf(C) == UNION {{<<c, n>> : n \in 1..ToCome(c)} : c \in C}
Owed(f, C)   == Cardinality(FieldOf(f)) + Cardinality(TicketsOf(C))
Counted      == IF active = "on" THEN alive ELSE 0

\* alive_count is the number of invaders still to be dealt with: a wave is
\* cleared when, and only when, its invaders are gone ("Détecte fin via décompte
\* ennemis", tgw_waves 3). It takes a match without nets, without invaders lost
\* or left from an earlier run, and blows that are not taken off twice.
CountIsExact == proc = "up" /\ state = "RUN" => Owed(inv, chains) = Counted

\* What is left of a match for those who do not look at invaders and callbacks.
Stage == IF proc = "down" THEN IF state = "DEFEAT" THEN "lost" ELSE "dead"
         ELSE CASE state = "LOBBY"   -> "lobby"
                [] state = "RUN"     -> IF active = "on" THEN "fight" ELSE "pause"
                [] state = "VICTORY" -> "won"
                [] state = "DEFEAT"  -> "lost"

Run == INSTANCE Campaign WITH stage <- Stage, round <- wave, paid <- clears, lines <- hof

\* A match is a campaign, whatever happens to its invaders: waves one after the
\* other and rewarded once, one end with one line, and back to the lobby
\* (tgw_core 7-12, tgw_waves 1-3).
ImplementsCampaign == Run!Spec

\* The bound on invaders: a spawn that is due has no slot, and time stops.
OutOfIds == Free = {}

\* A won match returns to LOBBY: the three callbacks of the reset all run,
\* whatever is spawned, killed, sent back or unloaded in between.
VictoryResets ==
  (proc = "up" /\ state = "VICTORY") ~> (proc = "down" \/ state = "LOBBY" \/ OutOfIds)

\* Between two waves the next one starts, or the run ends.
NextWaveComes ==
  (proc = "up" /\ state = "RUN" /\ active = "off")
    ~> (active = "on" \/ state # "RUN" \/ proc = "down" \/ OutOfIds)

\* A lost match is reset like a won one: house and door are rebuilt and the
\* match is back in LOBBY ("soft-reset auto sur DEFEAT/VICTORY", tgw_reset 1-3).
DefeatResets == state = "DEFEAT" ~> (state = "LOBBY" /\ doorHp = DoorHp)
=============================================================================
