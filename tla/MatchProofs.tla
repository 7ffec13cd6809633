---------------------------- MODULE MatchProofs ----------------------------
(***************************************************************************)
(* Proofs about Match, for every number of waves, every size of wave and   *)
(* every delay: the types, and the invariants that say a run moves on one  *)
(* wave at a time, pays each wave once and ends in exactly one reset.      *)
(***************************************************************************)
EXTENDS Match, TLAPS

\* Facts about the constants in the form the steps need them.
LEMMA Constants ==
  /\ Waves \in Nat /\ Waves >= 1
  /\ \A w \in 1..Waves : WaveSize[w] \in Nat /\ WaveSize[w] >= 1
                         /\ BossOf[w] \in Bosses \cup {"none"}
  /\ \A k \in Kinds : Hp[k] \in Nat /\ Hp[k] >= 1
  /\ DoorHp \in Nat /\ DoorHp >= 1
  /\ SpawnGap \in Nat /\ SpawnGap >= 1 /\ PipeDelay \in Nat /\ PipeDelay >= 1
  /\ WaveGap \in Nat /\ WaveGap >= 1
  /\ ResetDelay \in Nat /\ ResetDelay >= 1 /\ ClearDelay \in Nat /\ ClearDelay >= 1
  /\ LoadoutDelay \in Nat /\ LoadoutDelay >= 1
  BY MatchAssumption

\* The inductive strengthening.  A lost match is a dead process, whose timers
\* no longer matter; in every other state the flags, the pending callbacks and
\* the counts determine each other.
Live ==
  /\ active = "on" => state = "RUN" /\ alive > 0
  /\ state = "RUN" => wave \in 1..Waves
  /\ state = "LOBBY" => wave = 0
  /\ active = "on" \/ state \in {"LOBBY", "VICTORY"} => gaps = NoGap
  /\ state = "RUN" /\ active = "off" => wave < Waves /\ \E d \in 0..WaveGap : gaps = OneGap(d)
  /\ state = "RUN" /\ active = "on" => clears = wave - 1
  /\ state = "RUN" /\ active = "off" => clears = wave
  /\ state = "VICTORY" => clears = Waves
  /\ state = "DEFEAT" => proc = "down"
  /\ state # "DEFEAT" => (phase # "idle" <=> state = "VICTORY")
  /\ state = "RUN" => hof = << >>
  /\ state \in {"VICTORY", "DEFEAT"} => Len(hof) = 1

LEMMA GapFacts ==
  /\ \A d \in 0..WaveGap : NoGap[d] = 0
  /\ \A d, x \in 0..WaveGap : OneGap(d)[x] = IF x = d THEN 1 ELSE 0
  /\ \A d \in 0..WaveGap : OneGap(d) # NoGap
  /\ [NoGap EXCEPT ![WaveGap] = @ + 1] = OneGap(WaveGap)
  /\ [OneGap(0) EXCEPT ![0] = @ - 1] = NoGap
<1>1. WaveGap \in 0..WaveGap /\ 0 \in 0..WaveGap
  BY Constants
<1>2. \A d \in 0..WaveGap : NoGap[d] = 0
  BY DEF NoGap
<1>3. \A d, x \in 0..WaveGap : OneGap(d)[x] = IF x = d THEN 1 ELSE 0
  BY DEF OneGap
<1>4. \A d \in 0..WaveGap : OneGap(d) # NoGap
  <2> TAKE d \in 0..WaveGap
  <2>1. OneGap(d)[d] = 1 /\ NoGap[d] = 0
    BY <1>2, <1>3
  <2> QED BY <2>1
<1>5. [NoGap EXCEPT ![WaveGap] = @ + 1] = OneGap(WaveGap)
  <2>1. \A x \in 0..WaveGap :
          [NoGap EXCEPT ![WaveGap] = @ + 1][x] = IF x = WaveGap THEN 1 ELSE 0
    BY <1>1 DEF NoGap
  <2> QED BY <2>1, <1>1 DEF NoGap, OneGap
<1>6. [OneGap(0) EXCEPT ![0] = @ - 1] = NoGap
  <2>1. \A x \in 0..WaveGap : [OneGap(0) EXCEPT ![0] = @ - 1][x] = 0
    BY <1>1 DEF OneGap
  <2> QED BY <2>1, <1>1 DEF NoGap, OneGap
<1> QED BY <1>2, <1>3, <1>4, <1>5, <1>6

LEMMA EntityFacts ==
  /\ Absent \in Entity
  /\ \A k \in Kinds : Fresh(k) \in Entity
  /\ ObjectsOK => OnlyStored \in [Ids -> Entity]
  /\ "runner" \in Kinds /\ Bosses \subseteq Kinds /\ NoJob \in Job
<1>1. "runner" \in Kinds /\ Bosses \subseteq Kinds
  BY DEF Kinds
<1>2. Absent \in Entity
  BY <1>1 DEF Absent, Entity
<1>3. \A k \in Kinds : Fresh(k) \in Entity
  BY Constants DEF Fresh, Entity
<1>4. ObjectsOK => OnlyStored \in [Ids -> Entity]
  BY <1>2 DEF ObjectsOK, OnlyStored
<1>5. NoJob \in Job
  BY <1>1, Constants DEF NoJob, Job
<1> QED BY <1>1, <1>2, <1>3, <1>4, <1>5

\* Counting an invader off keeps the types of everything it touches.
LEMMA GoneType ==
  ASSUME CountersOK, Live, proc' = proc, InvaderGone
  PROVE  CountersOK'
<1>1. CASE active = "off"
  BY <1>1 DEF InvaderGone, CountersOK, waveVars, endVars
<1>2. CASE active = "on" /\ alive > 1
  BY <1>2 DEF InvaderGone, CountersOK, waveVars, endVars
<1>3. CASE active = "on" /\ alive <= 1
  <2>1. alive' = alive - 1 /\ active' = "off" /\ clears' = clears + 1 /\ wave' = wave /\ EndOfWave
    BY <1>3 DEF InvaderGone, CountersOK
  <2>2. alive > 0
    BY <1>3 DEF Live
  <2>3. CASE wave >= Waves
    <3>1. state' = "VICTORY" /\ hof' = Append(hof, Waves) /\ gaps' = gaps /\ StartReset
      BY <2>1, <2>3 DEF EndOfWave
    <3>2. hof' \in Seq(Int)
      <4>1. hof \in Seq(Int) /\ Waves \in Int
        BY Constants DEF CountersOK
      <4> QED BY <4>1, <3>1
    <3>3. phase' \in {"idle", "wait", "clear", "loadout"} /\ resetDue' \in Nat
      BY <3>1, Constants DEF StartReset, CountersOK
    <3>4. alive' \in Nat /\ clears' \in Nat
      BY <2>1, <2>2 DEF CountersOK
    <3> QED BY <3>1, <3>2, <3>3, <3>4, <2>1 DEF CountersOK
  <2>4. CASE ~(wave >= Waves)
    <3>1. gaps' = [gaps EXCEPT ![WaveGap] = @ + 1] /\ UNCHANGED <<state, endVars>>
      BY <2>1, <2>4 DEF EndOfWave
    <3>2. gaps' \in [0..WaveGap -> Nat]
      BY <3>1, Constants DEF CountersOK
    <3>3. alive' \in Nat /\ clears' \in Nat
      BY <2>1, <2>2 DEF CountersOK
    <3> QED BY <3>1, <3>2, <3>3, <2>1 DEF CountersOK, endVars
  <2> QED BY <2>3, <2>4
<1> QED BY <1>1, <1>2, <1>3 DEF CountersOK

\* Counting an invader off keeps the counts and the pending callbacks in step.
LEMMA GoneLive ==
  ASSUME CountersOK, Live, proc = "up", proc' = proc, InvaderGone
  PROVE  Live'
<1>1. CASE active = "off"
  BY <1>1 DEF InvaderGone, Live, waveVars, endVars, OneGap, NoGap
<1>2. CASE active = "on" /\ alive > 1
  BY <1>2 DEF InvaderGone, Live, CountersOK, endVars, OneGap, NoGap
<1>3. CASE active = "on" /\ alive <= 1
  <2>1. active' = "off" /\ clears' = clears + 1 /\ wave' = wave /\ EndOfWave
    BY <1>3 DEF InvaderGone, CountersOK
  <2>2. state = "RUN" /\ wave \in 1..Waves /\ gaps = NoGap /\ clears = wave - 1 /\ hof = << >>
        /\ phase = "idle"
    BY <1>3 DEF Live
  <2>3. CASE wave >= Waves
    <3>1. state' = "VICTORY" /\ hof' = Append(hof, Waves) /\ gaps' = gaps /\ phase' = "wait"
      BY <2>1, <2>2, <2>3 DEF EndOfWave, StartReset
    <3>2. wave = Waves /\ clears' = Waves
      BY <2>1, <2>2, <2>3, Constants DEF CountersOK
    <3>3. Len(hof') = 1
      BY <3>1, <2>2, Constants
    <3> QED BY <3>1, <3>2, <3>3, <2>1, <2>2 DEF Live, NoGap
  <2>4. CASE ~(wave >= Waves)
    <3>1. gaps' = [NoGap EXCEPT ![WaveGap] = @ + 1] /\ state' = state /\ phase' = phase /\ hof' = hof
      BY <2>1, <2>2, <2>4 DEF EndOfWave, endVars
    <3>2. gaps' = OneGap(WaveGap) /\ WaveGap \in 0..WaveGap
      BY <3>1, GapFacts, Constants
    <3>3. wave < Waves /\ clears' = wave
      BY <2>1, <2>2, <2>4, Constants DEF CountersOK
    <3> QED BY <3>1, <3>2, <3>3, <2>1, <2>2 DEF Live, OneGap
  <2> QED BY <2>3, <2>4
<1> QED BY <1>1, <1>2, <1>3 DEF CountersOK

\* An action that leaves the counters and flags alone keeps what Live says.
LEMMA CountersFrame ==
  ASSUME CountersOK, Live,
         UNCHANGED <<proc, state, wave, alive, active, clears, gaps, phase, resetDue, hof>>
  PROVE  CountersOK' /\ Live'
<1>1. CountersOK'
  BY DEF CountersOK
<1>2. Live'
  BY DEF Live, OneGap, NoGap
<1> QED BY <1>1, <1>2

\* Both forms of "one invader fewer": the event runs, or nothing but inv changes.
LEMMA GoneOrHurt ==
  ASSUME CountersOK, Live, proc = "up", proc' = proc,
         InvaderGone \/ UNCHANGED <<state, waveVars, gaps, endVars>>
  PROVE  CountersOK' /\ Live'
<1>1. CASE InvaderGone
  BY <1>1, GoneType, GoneLive
<1>2. CASE UNCHANGED <<state, waveVars, gaps, endVars>>
  BY <1>2, CountersFrame DEF waveVars, endVars
<1> QED BY <1>1, <1>2

\* Removing or changing one entity keeps the type of all of them.
LEMMA SlotType ==
  ASSUME ObjectsOK, NEW i \in Ids, NEW e \in Entity
  PROVE  [inv EXCEPT ![i] = e] \in [Ids -> Entity]
  BY DEF ObjectsOK

\* An action that starts no callback keeps the types of the objects it leaves alone.
LEMMA ObjectsFrame ==
  ASSUME ObjectsOK, chains' = chains, pipe' = pipe, inv' \in [Ids -> Entity],
         doorHp' \in 0..DoorHp, doorInit' \in {"", "1"}
  PROVE  ObjectsOK'
  BY DEF ObjectsOK

\* A hit leaves a weaker invader or none.
LEMMA HurtType ==
  ASSUME NEW e \in Entity, NEW d \in Nat
  PROVE  Hurt(e, d) \in Entity
<1>1. CASE e.hp > d
  <2>1. e.hp - d \in Nat
    BY <1>1 DEF Entity
  <2> QED BY <1>1, <2>1 DEF Hurt, Entity
<1>2. CASE ~(e.hp > d)
  BY <1>2, EntityFacts DEF Hurt
<1> QED BY <1>1, <1>2

\* Starting a wave counts its invaders and spawns the first.
LEMMA SpawnWaveFacts ==
  ASSUME ObjectsOK, NEW w \in 1..Waves, SpawnWave(w)
  PROVE  /\ alive' \in Nat /\ alive' > 0 /\ active' = "on"
         /\ chains' \in SUBSET Chain
         /\ inv' \in [Ids -> Entity]
<1>1. WaveSize[w] \in Nat /\ WaveSize[w] >= 1
  BY Constants
<1>2. alive' \in Nat /\ alive' > 0 /\ active' = "on"
  BY <1>1 DEF SpawnWave
<1>3. [wave |-> w, left |-> WaveSize[w] - 1, due |-> SpawnGap] \in Chain
  BY <1>1, Constants DEF Chain
<1>4. chains' \in SUBSET Chain
  BY <1>3 DEF SpawnWave, ObjectsOK
<1>5. inv' \in [Ids -> Entity]
  <2>1. PICK i \in Free : inv' = [inv EXCEPT ![i] = Fresh("runner")]
    BY DEF SpawnWave
  <2>2. i \in Ids /\ Fresh("runner") \in Entity
    BY EntityFacts DEF Free
  <2> QED BY <2>1, <2>2, SlotType
<1> QED BY <1>2, <1>4, <1>5

----------------------------------------------------------------------------
(* The step: what each group of actions keeps *)

\* What players do keeps the invariant.
LEMMA PlayersKeep ==
  ASSUME CountersOK, ObjectsOK, Live, Players
  PROVE  CountersOK' /\ ObjectsOK' /\ Live'
<1>1. CASE PressStart
  <2>1. state = "LOBBY" /\ SpawnWave(1) /\ 1 \in 1..Waves
    BY <1>1, Constants DEF PressStart, StartAllowed
  <2>2. phase = "idle" /\ gaps = NoGap
    BY <2>1 DEF Live, OneGap, NoGap
  <2>3. CountersOK'
    BY <1>1, <2>1, SpawnWaveFacts, Constants DEF PressStart, CountersOK
  <2>4. ObjectsOK'
    BY <1>1, <2>1, SpawnWaveFacts DEF PressStart, ObjectsOK, doorVars
  <2>5. /\ state' = "RUN" /\ wave' = 1 /\ clears' = 0 /\ hof' = << >> /\ gaps' = NoGap
        /\ phase' = "idle" /\ active' = "on" /\ alive' > 0
    BY <1>1, <2>1, <2>2, SpawnWaveFacts DEF PressStart
  <2>6. Live'
    BY <2>5, <2>1 DEF Live, NoGap
  <2> QED BY <2>3, <2>4, <2>6
<1>2. ASSUME NEW i \in Ids, NEW d \in Punches, Punch(i, d)
      PROVE  CountersOK' /\ ObjectsOK' /\ Live'
  <2>1. CountersOK' /\ Live'
    BY <1>2, GoneOrHurt DEF Punch
  <2>2. d \in Nat /\ inv[i] \in Entity /\ Absent \in Entity
    BY <1>2, EntityFacts, MatchAssumption DEF ObjectsOK
  <2>3. Hurt(inv[i], 2 * d) \in Entity
    BY <2>2, HurtType
  <2>4. inv' \in [Ids -> Entity]
    <3>1. inv' = [inv EXCEPT ![i] = Absent] \/ inv' = [inv EXCEPT ![i] = Hurt(inv[i], 2 * d)]
      BY <1>2 DEF Punch
    <3> QED BY <3>1, <2>2, <2>3, SlotType
  <2>5. ObjectsOK'
    BY <1>2, <2>4 DEF Punch, ObjectsOK, doorVars
  <2> QED BY <2>1, <2>5
<1>3. ASSUME NEW i \in Ids, Capture(i)
      PROVE  CountersOK' /\ ObjectsOK' /\ Live'
  <2>1. CountersOK' /\ Live'
    BY <1>3, GoneOrHurt DEF Capture
  <2>2. inv[i] \in Entity
    BY DEF ObjectsOK
  <2>3. [inv[i] EXCEPT !.st = "captured"] \in Entity /\ inv[i].kind \in Kinds
    BY <2>2 DEF Entity
  <2>4. [due |-> PipeDelay, kind |-> inv[i].kind] \in Job
    BY <2>3, Constants DEF Job
  <2>5. inv' \in [Ids -> Entity] /\ pipe' \in [Ids -> Job]
    BY <1>3, <2>3, <2>4 DEF Capture, ObjectsOK
  <2>6. ObjectsOK'
    BY <1>3, <2>5 DEF Capture, ObjectsOK, doorVars
  <2> QED BY <2>1, <2>6
<1>4. CASE RepairDoor \/ ReadDoor
  <2>1. CountersOK' /\ Live'
    BY <1>4, CountersFrame DEF RepairDoor, ReadDoor, waveVars, timerVars, endVars
  <2>2. chains' = chains /\ pipe' = pipe /\ inv' = inv /\ doorHp' = DoorHp /\ doorInit' = "1"
    BY <1>4 DEF RepairDoor, ReadDoor, timerVars
  <2>3. doorHp' \in 0..DoorHp /\ doorInit' \in {"", "1"}
    BY <2>2, Constants
  <2>4. inv' \in [Ids -> Entity]
    BY <2>2 DEF ObjectsOK
  <2>5. ObjectsOK'
    BY <2>2, <2>3, <2>4, ObjectsFrame
  <2> QED BY <2>1, <2>5
<1> QED BY <1>1, <1>2, <1>3, <1>4 DEF Players

\* The types of what StopWaves leaves, when the reset or a defeat calls it.
LEMMA StopWavesFacts ==
  ASSUME ObjectsOK, StopWaves
  PROVE  active' = "off" /\ wave' = 0 /\ inv' \in [Ids -> Entity]
  BY EntityFacts DEF StopWaves

\* What invaders do, and what traps do to them, keeps the invariant.
LEMMA InvadersKeep ==
  ASSUME CountersOK, ObjectsOK, Live, Invaders
  PROVE  CountersOK' /\ ObjectsOK' /\ Live'
<1>1. ASSUME NEW i \in Ids, Summon(i)
      PROVE  CountersOK' /\ ObjectsOK' /\ Live'
  <2>1. PICK S \in SUBSET Free :
          inv' = [j \in Ids |-> IF j \in S THEN Fresh("runner") ELSE inv[j]]
    BY <1>1 DEF Summon
  <2>2. inv' \in [Ids -> Entity]
    BY <2>1, EntityFacts DEF ObjectsOK
  <2>3. ObjectsOK'
    BY <1>1, <2>2, ObjectsFrame DEF Summon, timerVars, doorVars, ObjectsOK
  <2>4. alive' \in Nat /\ (active = "on" => alive' > 0)
    BY <1>1, MatchAssumption DEF Summon, InvadersReturned, CountersOK, Live
  <2>5. UNCHANGED <<proc, state, wave, active, clears, gaps, phase, resetDue, hof>>
    BY <1>1 DEF Summon, timerVars, endVars
  <2>6. CountersOK'
    BY <2>4, <2>5 DEF CountersOK
  <2>7. Live'
    BY <2>4, <2>5 DEF Live, OneGap, NoGap
  <2> QED BY <2>3, <2>6, <2>7
<1>2. ASSUME NEW i \in Ids, NEW d \in Strikes, HitDoor(i, d) \/ BreakDoorOutsideRun(i, d)
      PROVE  CountersOK' /\ ObjectsOK' /\ Live'
  <2>1. CountersOK' /\ Live'
    BY <1>2, CountersFrame DEF HitDoor, BreakDoorOutsideRun, waveVars, timerVars, endVars
  <2>2. d \in Nat /\ d >= 1 /\ DoorSeen \in 0..DoorHp
    <3>1. d \in Nat /\ d >= 1
      BY MatchAssumption
    <3>2. doorHp \in 0..DoorHp
      BY DEF ObjectsOK
    <3>3. DoorHp \in Nat
      BY Constants
    <3>4. DoorSeen = DoorHp \/ DoorSeen = doorHp
      BY DEF DoorSeen
    <3> QED BY <3>1, <3>2, <3>3, <3>4
  <2>3. doorHp' \in 0..DoorHp /\ doorInit' = "1"
    BY <1>2, <2>2, Constants DEF HitDoor, BreakDoorOutsideRun
  <2>4. chains' = chains /\ pipe' = pipe /\ inv' = inv
    BY <1>2 DEF HitDoor, BreakDoorOutsideRun, timerVars
  <2>5. ObjectsOK'
    BY <2>3, <2>4, ObjectsFrame DEF ObjectsOK
  <2> QED BY <2>1, <2>5
<1>3. ASSUME NEW i \in Ids, NEW d \in Strikes, BreakDoor(i, d)
      PROVE  CountersOK' /\ ObjectsOK' /\ Live'
  <2>1. /\ state = "RUN" /\ state' = "DEFEAT" /\ proc' = "down" /\ hof' = Append(hof, -1)
        /\ StopWaves /\ StartReset /\ alive' = alive /\ clears' = clears
        /\ chains' = chains /\ gaps' = gaps /\ pipe' = pipe
        /\ doorHp' = 0 /\ doorInit' = "1"
    BY <1>3 DEF BreakDoor, EndsRun, timerVars
  <2>2. active' = "off" /\ wave' = 0 /\ inv' \in [Ids -> Entity]
    BY <2>1, StopWavesFacts
  <2>3. ObjectsOK'
    <3>1. doorHp' \in 0..DoorHp
      BY <2>1, Constants
    <3>2. doorInit' \in {"", "1"} /\ chains' = chains /\ pipe' = pipe
      BY <2>1
    <3> QED BY <2>2, <3>1, <3>2, ObjectsFrame
  <2>4. hof = << >>
    BY <2>1 DEF Live
  <2>5. hof' \in Seq(Int) /\ Len(hof') = 1
    BY <2>1, <2>4
  <2>6. phase' \in {"idle", "wait", "clear", "loadout"} /\ resetDue' \in Nat
    BY <2>1, Constants DEF StartReset, CountersOK
  <2>7. CountersOK'
    BY <2>1, <2>2, <2>5, <2>6, Constants DEF CountersOK
  <2>8. Live'
    BY <2>1, <2>2, <2>5 DEF Live
  <2> QED BY <2>3, <2>7, <2>8
<1>4. ASSUME NEW i \in Ids, NEW d \in Traps, TrapHit(i, d)
      PROVE  CountersOK' /\ ObjectsOK' /\ Live'
  <2>1. CountersOK' /\ Live'
    BY <1>4, GoneOrHurt DEF TrapHit
  <2>2. d \in Nat /\ inv[i] \in Entity /\ Absent \in Entity
    BY EntityFacts, MatchAssumption DEF ObjectsOK
  <2>3. Hurt(inv[i], d) \in Entity
    BY <2>2, HurtType
  <2>4. inv' = [inv EXCEPT ![i] = Absent] \/ inv' = [inv EXCEPT ![i] = Hurt(inv[i], d)]
    BY <1>4 DEF TrapHit
  <2>5. inv' \in [Ids -> Entity]
    BY <2>2, <2>3, <2>4, SlotType
  <2>6. ObjectsOK'
    BY <1>4, <2>5, ObjectsFrame DEF TrapHit, doorVars, ObjectsOK
  <2> QED BY <2>1, <2>6
<1> QED BY <1>1, <1>2, <1>3, <1>4 DEF Invaders

\* What the engine does keeps the invariant.
LEMMA EngineKeeps ==
  ASSUME CountersOK, ObjectsOK, Live, Engine
  PROVE  CountersOK' /\ ObjectsOK' /\ Live'
<1>1. ASSUME NEW i \in Ids, Unload(i)
      PROVE  CountersOK' /\ ObjectsOK' /\ Live'
  <2>1. CountersOK' /\ Live'
    BY <1>1, CountersFrame DEF Unload, waveVars, timerVars, endVars
  <2>2. inv[i] \in Entity /\ Absent \in Entity
    BY EntityFacts DEF ObjectsOK
  <2>3. [inv[i] EXCEPT !.st = "stored"] \in Entity
    BY <2>2 DEF Entity
  <2>4. inv' = [inv EXCEPT ![i] = [inv[i] EXCEPT !.st = "stored"]] \/ inv' = [inv EXCEPT ![i] = Absent]
    BY <1>1 DEF Unload
  <2>5. inv' \in [Ids -> Entity]
    BY <2>2, <2>3, <2>4, SlotType
  <2>6. ObjectsOK'
    BY <1>1, <2>5, ObjectsFrame DEF Unload, timerVars, doorVars, ObjectsOK
  <2> QED BY <2>1, <2>6
<1>2. ASSUME NEW i \in Ids, Reload(i)
      PROVE  CountersOK' /\ ObjectsOK' /\ Live'
  <2>1. CountersOK' /\ Live'
    BY <1>2, CountersFrame DEF Reload, waveVars, timerVars, endVars
  <2>2. inv[i] \in Entity /\ Absent \in Entity
    BY EntityFacts DEF ObjectsOK
  <2>3. [st |-> "live", kind |-> inv[i].kind, hp |-> inv[i].hp] \in Entity
    BY <2>2 DEF Entity
  <2>4. PICK j \in Ids :
          inv' = [inv EXCEPT ![i] = Absent,
                             ![j] = [st |-> "live", kind |-> inv[i].kind, hp |-> inv[i].hp]]
    BY <1>2 DEF Reload, Free
  <2>5. inv' \in [Ids -> Entity]
    BY <2>2, <2>3, <2>4 DEF ObjectsOK
  <2>6. ObjectsOK'
    BY <1>2, <2>5, ObjectsFrame DEF Reload, timerVars, doorVars, ObjectsOK
  <2> QED BY <2>1, <2>6
<1>3. CASE Stop
  <2>1. proc' = "down"
        /\ UNCHANGED <<state, wave, alive, active, clears, gaps, phase, resetDue, hof>>
    BY <1>3 DEF Stop, waveVars, timerVars, endVars
  <2>2. CountersOK'
    BY <2>1 DEF CountersOK
  <2>3. Live'
    BY <2>1 DEF Live, OneGap, NoGap
  <2>4. ObjectsOK'
    BY <1>3, ObjectsFrame DEF Stop, timerVars, doorVars, ObjectsOK
  <2> QED BY <2>2, <2>3, <2>4
<1> QED BY <1>1, <1>2, <1>3 DEF Engine

\* The gap callback runs only in a run whose wave is over, and is the only one.
LEMMA GapDue ==
  ASSUME CountersOK, Live, proc = "up", gaps[0] > 0
  PROVE  /\ state = "RUN" /\ active = "off" /\ wave \in 1..Waves /\ wave < Waves
         /\ gaps = OneGap(0)
<1>1. 0 \in 0..WaveGap
  BY Constants
<1>2. gaps # NoGap
  <2>1. NoGap[0] = 0
    BY <1>1 DEF NoGap
  <2> QED BY <2>1
<1>3. state = "RUN" /\ active = "off" /\ wave \in 1..Waves /\ wave < Waves
  BY <1>2 DEF Live, CountersOK
<1>4. PICK d \in 0..WaveGap : gaps = OneGap(d)
  BY <1>3 DEF Live
<1>5. d = 0
  <2>1. OneGap(d)[0] = IF 0 = d THEN 1 ELSE 0
    BY <1>1, GapFacts
  <2> QED BY <2>1, <1>4
<1> QED BY <1>3, <1>4, <1>5

\* What core.after runs keeps the invariant.
LEMMA CallbacksKeep ==
  ASSUME CountersOK, ObjectsOK, Live, Callbacks
  PROVE  CountersOK' /\ ObjectsOK' /\ Live'
<1>1. ASSUME NEW c \in chains, SpawnNext(c)
      PROVE  CountersOK' /\ ObjectsOK' /\ Live'
  <2>1. CountersOK' /\ Live'
    BY <1>1, CountersFrame DEF SpawnNext, waveVars, endVars
  <2>2. c \in Chain
    BY DEF ObjectsOK
  <2>3. c.wave \in 1..Waves /\ c.left \in Nat
    BY <2>2 DEF Chain
  <2>4. c.left > 0 => [wave |-> c.wave, left |-> c.left - 1, due |-> SpawnGap] \in Chain
    BY <2>3, Constants DEF Chain
  <2>5. chains' \in SUBSET Chain
    BY <1>1, <2>4 DEF SpawnNext, ObjectsOK
  <2>6. BossOf[c.wave] # "none" => BossOf[c.wave] \in Kinds
    BY <2>3, Constants, EntityFacts
  <2>7. inv' = inv \/ \E i \in Ids, k \in Kinds : inv' = [inv EXCEPT ![i] = Fresh(k)]
    BY <1>1, <2>6, EntityFacts DEF SpawnNext, Free
  <2>8. inv' \in [Ids -> Entity]
    <3>1. CASE inv' = inv
      BY <3>1 DEF ObjectsOK
    <3>2. ASSUME NEW i \in Ids, NEW k \in Kinds, inv' = [inv EXCEPT ![i] = Fresh(k)]
          PROVE  inv' \in [Ids -> Entity]
      BY <3>2, EntityFacts, SlotType
    <3> QED BY <2>7, <3>1, <3>2
  <2>9. ObjectsOK'
    BY <1>1, <2>5, <2>8 DEF SpawnNext, ObjectsOK, doorVars
  <2> QED BY <2>1, <2>9
<1>2. CASE NextWave
  <2>1. proc = "up" /\ gaps[0] > 0 /\ gaps' = [gaps EXCEPT ![0] = @ - 1]
        /\ UNCHANGED <<proc, state, clears, pipe, doorHp, doorInit, phase, resetDue, hof>>
    BY <1>2 DEF NextWave, doorVars, endVars
  <2>2. /\ state = "RUN" /\ active = "off" /\ wave \in 1..Waves /\ wave < Waves
        /\ gaps = OneGap(0)
    BY <2>1, GapDue
  <2>3. wave' = wave + 1 /\ wave + 1 \in 1..Waves /\ SpawnWave(wave + 1)
    BY <1>2, <2>2, Constants DEF NextWave
  <2>4. /\ alive' \in Nat /\ alive' > 0 /\ active' = "on"
        /\ chains' \in SUBSET Chain
        /\ inv' \in [Ids -> Entity]
    BY <2>3, SpawnWaveFacts
  <2>5. gaps' = NoGap
    BY <2>1, <2>2, GapFacts
  <2>6. NoGap \in [0..WaveGap -> Nat]
    BY DEF NoGap
  <2>7. wave' \in 0..Waves
    BY <2>3
  <2>8. CountersOK'
    BY <2>1, <2>4, <2>5, <2>6, <2>7 DEF CountersOK
  <2>9. ObjectsOK'
    BY <2>1, <2>4 DEF ObjectsOK
  <2>10. clears' = wave' - 1 /\ wave' \in 1..Waves
    BY <2>1, <2>2, <2>3 DEF Live, CountersOK
  <2>11. hof' = << >> /\ phase' = "idle" /\ state' = "RUN"
    BY <2>1, <2>2 DEF Live
  <2>12. Live'
    BY <2>4, <2>5, <2>10, <2>11 DEF Live, NoGap
  <2> QED BY <2>8, <2>9, <2>12
<1>3. ASSUME NEW i \in Ids, Deport(i)
      PROVE  CountersOK' /\ ObjectsOK' /\ Live'
  <2> DEFINE left == IF InWorld(i) THEN [inv EXCEPT ![i] = Absent] ELSE inv
  <2>1. left \in [Ids -> Entity]
    BY EntityFacts, SlotType DEF ObjectsOK
  <2>2. pipe[i] \in Job /\ NoJob \in Job
    BY EntityFacts DEF ObjectsOK
  <2>3. Fresh(pipe[i].kind) \in Entity
    BY <2>2, EntityFacts DEF Job
  <2>4. pipe' = [pipe EXCEPT ![i] = NoJob] /\ chains' = chains /\ doorHp' = doorHp
        /\ doorInit' = doorInit
        /\ UNCHANGED <<proc, state, wave, active, clears, gaps, phase, resetDue, hof>>
    BY <1>3 DEF Deport, doorVars, endVars
  <2>5. \/ inv' = left /\ alive' = alive
        \/ (\E j \in Ids : inv' = [left EXCEPT ![j] = Fresh(pipe[i].kind)]) /\ InvadersReturned(1)
    BY <1>3 DEF Deport, Free
  <2> HIDE DEF left
  <2>6. inv' \in [Ids -> Entity]
    BY <2>1, <2>3, <2>5
  <2>7. ObjectsOK'
    BY <2>2, <2>4, <2>6 DEF ObjectsOK
  <2>8. alive' \in Nat /\ (active = "on" => alive' > 0)
    BY <2>5 DEF InvadersReturned, CountersOK, Live
  <2>9. CountersOK'
    BY <2>4, <2>8 DEF CountersOK
  <2>10. Live'
    BY <2>4, <2>8 DEF Live, OneGap, NoGap
  <2> QED BY <2>7, <2>9, <2>10
<1>4. CASE ResetWorld \/ ClearWorld
  <2>1. /\ proc = "up" /\ phase # "idle" /\ phase' \in {"clear", "loadout"}
        /\ resetDue' \in Nat /\ inv' \in {inv, OnlyStored} /\ doorHp' \in {0, DoorHp}
        /\ doorInit' \in {"", "1"}
        /\ UNCHANGED <<proc, state, wave, alive, active, clears, chains, gaps, pipe, hof>>
    BY <1>4, Constants DEF ResetWorld, ClearWorld, waveVars, timerVars
  <2>2. CountersOK'
    BY <2>1 DEF CountersOK
  <2>3. Live'
    BY <2>1 DEF Live, OneGap, NoGap
  <2>4. inv' \in [Ids -> Entity]
    BY <2>1, EntityFacts DEF ObjectsOK
  <2>5. doorHp' \in 0..DoorHp
    <3>1. DoorHp \in Nat
      BY Constants
    <3>2. doorHp' = 0 \/ doorHp' = DoorHp
      BY <2>1
    <3> QED BY <3>1, <3>2
  <2>6. ObjectsOK'
    BY <2>1, <2>4, <2>5, ObjectsFrame
  <2> QED BY <2>2, <2>3, <2>6
<1>5. CASE BackToLobby
  <2>1. /\ proc = "up" /\ phase # "idle" /\ state' = "LOBBY" /\ phase' = "idle" /\ StopWaves
        /\ UNCHANGED <<proc, alive, clears, chains, gaps, pipe, doorHp, doorInit, resetDue, hof>>
    BY <1>5 DEF BackToLobby, timerVars, doorVars
  <2>2. active' = "off" /\ wave' = 0 /\ inv' \in [Ids -> Entity]
    BY <2>1, StopWavesFacts
  <2>3. gaps = NoGap
    BY <2>1 DEF Live
  <2>4. CountersOK'
    BY <2>1, <2>2, Constants DEF CountersOK
  <2>5. Live'
    BY <2>1, <2>2, <2>3 DEF Live, NoGap
  <2>6. ObjectsOK'
    BY <2>1, <2>2, ObjectsFrame DEF ObjectsOK
  <2> QED BY <2>4, <2>5, <2>6
<1> QED BY <1>1, <1>2, <1>3, <1>4, <1>5 DEF Callbacks

\* Time moves every countdown down by one and keeps the invariant.
LEMMA TickKeeps ==
  ASSUME CountersOK, ObjectsOK, Live, Tick
  PROVE  CountersOK' /\ ObjectsOK' /\ Live'
<1>1. /\ proc = "up" /\ gaps[0] = 0
      /\ gaps' = [d \in 0..WaveGap |-> IF d < WaveGap THEN gaps[d + 1] ELSE 0]
      /\ chains' = {[c EXCEPT !.due = @ - 1] : c \in chains}
      /\ pipe' = [i \in Ids |-> IF pipe[i].due > 0 THEN [pipe[i] EXCEPT !.due = @ - 1] ELSE pipe[i]]
      /\ UNCHANGED <<proc, state, wave, alive, active, clears, inv, doorHp, doorInit, phase, hof>>
  BY DEF Tick, waveVars, doorVars
<1>2. gaps' \in [0..WaveGap -> Nat]
  <2>1. ASSUME NEW d \in 0..WaveGap
        PROVE  (IF d < WaveGap THEN gaps[d + 1] ELSE 0) \in Nat
    <3>1. CASE d < WaveGap
      <4>1. d + 1 \in 0..WaveGap
        BY <3>1, Constants
      <4> QED BY <3>1, <4>1 DEF CountersOK
    <3>2. CASE ~(d < WaveGap)
      BY <3>2
    <3> QED BY <3>1, <3>2
  <2> QED BY <1>1, <2>1
<1>3. resetDue' \in Nat
  BY DEF Tick, CountersOK
<1>4. CountersOK'
  BY <1>1, <1>2, <1>3 DEF CountersOK
<1>5. gaps = NoGap => gaps' = NoGap
  <2>1. ASSUME gaps = NoGap, NEW d \in 0..WaveGap
        PROVE  (IF d < WaveGap THEN gaps[d + 1] ELSE 0) = 0
    <3>1. CASE d < WaveGap
      <4>1. d + 1 \in 0..WaveGap
        BY <3>1, Constants
      <4> QED BY <3>1, <4>1, <2>1, GapFacts
    <3>2. CASE ~(d < WaveGap)
      BY <3>2
    <3> QED BY <3>1, <3>2
  <2> QED BY <1>1, <2>1 DEF NoGap
<1>6. \A d \in 0..WaveGap : gaps = OneGap(d) => \E e \in 0..WaveGap : gaps' = OneGap(e)
  <2> SUFFICES ASSUME NEW d \in 0..WaveGap, gaps = OneGap(d)
               PROVE  \E e \in 0..WaveGap : gaps' = OneGap(e)
    OBVIOUS
  <2>1. 0 \in 0..WaveGap /\ WaveGap \in Nat
    BY Constants
  <2>2. d # 0
    <3>1. OneGap(d)[0] = IF 0 = d THEN 1 ELSE 0
      BY <2>1, GapFacts
    <3> QED BY <3>1, <1>1
  <2>3. d - 1 \in 0..WaveGap
    BY <2>1, <2>2
  <2>4. ASSUME NEW x \in 0..WaveGap
        PROVE  (IF x < WaveGap THEN gaps[x + 1] ELSE 0) = IF x = d - 1 THEN 1 ELSE 0
    <3>1. CASE x < WaveGap
      <4>1. x + 1 \in 0..WaveGap
        BY <3>1, <2>1
      <4>2. gaps[x + 1] = IF x + 1 = d THEN 1 ELSE 0
        BY <4>1, GapFacts
      <4> QED BY <3>1, <4>2, <2>1
    <3>2. CASE ~(x < WaveGap)
      <4>1. x # d - 1
        BY <3>2, <2>1
      <4> QED BY <3>2, <4>1
    <3> QED BY <3>1, <3>2
  <2>5. gaps' = OneGap(d - 1)
    BY <1>1, <2>4 DEF OneGap
  <2> QED BY <2>3, <2>5
<1>7. Live'
  <2>1. active' = "on" \/ state' \in {"LOBBY", "VICTORY"} => gaps' = NoGap
    BY <1>1, <1>5 DEF Live
  <2>2. state' = "RUN" /\ active' = "off" =>
          wave' < Waves /\ \E e \in 0..WaveGap : gaps' = OneGap(e)
    BY <1>1, <1>6 DEF Live
  <2>3. \A e \in 0..WaveGap : OneGap(e)' = OneGap(e)
    BY DEF OneGap
  <2> QED BY <1>1, <2>1, <2>2, <2>3 DEF Live, NoGap, OneGap
<1>8. chains' \in SUBSET Chain
  <2>1. ASSUME NEW c \in chains
        PROVE  [c EXCEPT !.due = @ - 1] \in Chain
    <3>1. c \in Chain /\ c.due > 0
      BY DEF Tick, ObjectsOK
    <3>2. c.due - 1 \in 0..SpawnGap
      BY <3>1, Constants DEF Chain
    <3> QED BY <3>1, <3>2 DEF Chain
  <2> QED BY <1>1, <2>1
<1>9. pipe' \in [Ids -> Job]
  <2>1. ASSUME NEW i \in Ids, pipe[i].due > 0
        PROVE  [pipe[i] EXCEPT !.due = @ - 1] \in Job
    <3>1. pipe[i] \in Job
      BY DEF ObjectsOK
    <3>2. pipe[i].due - 1 \in -1..PipeDelay
      BY <3>1, <2>1, Constants DEF Job
    <3> QED BY <3>1, <3>2 DEF Job
  <2> QED BY <1>1, <2>1 DEF ObjectsOK
<1>10. ObjectsOK'
  BY <1>1, <1>8, <1>9 DEF ObjectsOK
<1> QED BY <1>4, <1>7, <1>10

\* A restarted process starts from a lobby, whatever the run was doing.
LEMMA RestartKeeps ==
  ASSUME CountersOK, ObjectsOK, Live, Restart
  PROVE  CountersOK' /\ ObjectsOK' /\ Live'
<1>1. /\ proc' = "up" /\ state' = "LOBBY" /\ wave' = 0 /\ alive' = 0 /\ active' = "off"
      /\ chains' = {} /\ gaps' = NoGap /\ pipe' = [i \in Ids |-> NoJob]
      /\ inv' = [i \in Ids |-> IF InWorld(i) THEN [inv[i] EXCEPT !.st = "stored"] ELSE inv[i]]
      /\ phase' = "idle" /\ resetDue' = 0
      /\ UNCHANGED <<clears, doorHp, doorInit, hof>>
  BY DEF Restart, doorVars
<1>2. NoGap \in [0..WaveGap -> Nat]
  BY DEF NoGap
<1>3. CountersOK'
  BY <1>1, <1>2, Constants DEF CountersOK
<1>4. Live'
  BY <1>1 DEF Live, NoGap
<1>5. \A i \in Ids : [inv[i] EXCEPT !.st = "stored"] \in Entity
  <2> TAKE i \in Ids
  <2>1. inv[i] \in Entity
    BY DEF ObjectsOK
  <2> QED BY <2>1 DEF Entity
<1>6. inv' \in [Ids -> Entity]
  BY <1>1, <1>5 DEF ObjectsOK
<1>7. pipe' \in [Ids -> Job]
  BY <1>1, EntityFacts
<1>8. ObjectsOK'
  BY <1>1, <1>6, <1>7 DEF ObjectsOK
<1> QED BY <1>3, <1>4, <1>8

----------------------------------------------------------------------------
(* The theorems *)

\* The inductive invariant.
IInv == CountersOK /\ ObjectsOK /\ Live

LEMMA InitOK == Init => IInv
<1> SUFFICES ASSUME Init PROVE IInv
  OBVIOUS
<1>1. /\ proc = "up" /\ state = "LOBBY" /\ wave = 0 /\ alive = 0 /\ active = "off" /\ clears = 0
      /\ chains = {} /\ gaps = NoGap /\ pipe = [i \in Ids |-> NoJob] /\ inv = [i \in Ids |-> Absent]
      /\ doorHp = DoorHp /\ doorInit = "1" /\ phase = "idle" /\ resetDue = 0 /\ hof = << >>
  BY DEF Init
<1>2. NoGap \in [0..WaveGap -> Nat]
  BY DEF NoGap
<1>3. CountersOK
  BY <1>1, <1>2, Constants DEF CountersOK
<1>4. doorHp \in 0..DoorHp
  <2>1. DoorHp \in Nat
    BY Constants
  <2> QED BY <1>1, <2>1
<1>5. ObjectsOK
  BY <1>1, <1>4, EntityFacts DEF ObjectsOK
<1>6. Live
  BY <1>1 DEF Live
<1> QED BY <1>3, <1>5, <1>6 DEF IInv

LEMMA StepOK == IInv /\ [Next]_vars => IInv'
<1> SUFFICES ASSUME CountersOK, ObjectsOK, Live, [Next]_vars
             PROVE  CountersOK' /\ ObjectsOK' /\ Live'
  BY DEF IInv
<1>1. CASE Players
  BY <1>1, PlayersKeep
<1>2. CASE Invaders
  BY <1>2, InvadersKeep
<1>3. CASE Engine
  BY <1>3, EngineKeeps
<1>4. CASE Callbacks
  BY <1>4, CallbacksKeep
<1>5. CASE Tick
  BY <1>5, TickKeeps
<1>6. CASE Restart
  BY <1>6, RestartKeeps
<1>7. CASE UNCHANGED vars
  <2>1. CountersOK' /\ Live'
    BY <1>7, CountersFrame DEF vars, waveVars, timerVars, endVars
  <2>2. ObjectsOK'
    BY <1>7 DEF vars, timerVars, doorVars, ObjectsOK
  <2> QED BY <2>1, <2>2
<1> QED BY <1>1, <1>2, <1>3, <1>4, <1>5, <1>6, <1>7 DEF Next

\* In every state a match reaches, the invariant holds.
THEOREM Invariance == Spec => []IInv
  BY InitOK, StepOK, PTL DEF Spec

\* Counters, callbacks, entities and door stay in their types: the counter of
\* living invaders never goes below zero (tgw_waves on_invader_gone).
THEOREM TypeCorrect == Spec => []TypeOK
<1>1. IInv => TypeOK
  BY DEF IInv, TypeOK
<1> QED BY <1>1, Invariance, PTL

\* A run never stalls between waves by itself, and never has two callbacks that
\* start a wave (tgw_waves on_invader_gone, spawn_wave).
THEOREM WavesOneAtATime == Spec => []OneWaveAtATime
<1>1. IInv => OneWaveAtATime
  BY GapFacts DEF IInv, Live, CountersOK, OneWaveAtATime
<1> QED BY <1>1, Invariance, PTL

\* Each wave is cleared, and pays its reward, exactly once (tgw_waves wave_cleared).
THEOREM WavesPaidOnce == Spec => []EachWaveClearedOnce
<1>1. IInv => EachWaveClearedOnce
  BY Constants DEF IInv, Live, CountersOK, EachWaveClearedOnce
<1> QED BY <1>1, Invariance, PTL

\* A finished run leaves one line in the Hall of Fame (tgw_hof run_won, run_lost).
THEOREM OneLinePerRun == Spec => []OneHallOfFameLine
<1>1. IInv => OneHallOfFameLine
  BY DEF IInv, Live, OneHallOfFameLine
<1> QED BY <1>1, Invariance, PTL

\* The reset runs after a victory and only then (tgw_reset run, tgw_house START).
THEOREM ResetsAfterVictory == Spec => []ResetOnlyAfterVictory
<1>1. IInv => ResetOnlyAfterVictory
  BY DEF IInv, Live, ResetOnlyAfterVictory
<1> QED BY <1>1, Invariance, PTL

\* The wave number only ever goes up by one, on a wave whose predecessor is
\* over, or back to zero (tgw_waves spawn_wave, run_started, state_changed).
THEOREM WavesGoUpByOne == Spec => WavesInOrder
<1> DEFINE Order == \/ wave' = wave
                    \/ wave' = wave + 1 /\ active = "off" /\ active' = "on" /\ state' = "RUN"
                    \/ wave' = 0 /\ state' # "RUN"
<1>1. IInv /\ [Next]_vars => Order
  <2> SUFFICES ASSUME CountersOK, ObjectsOK, Live, [Next]_vars
               PROVE  Order
    BY DEF IInv
  <2>1. CASE PressStart
    <3>1. state = "LOBBY" /\ wave' = 1 /\ state' = "RUN" /\ active' = "on"
      BY <2>1 DEF PressStart, StartAllowed, SpawnWave
    <3>2. wave = 0 /\ active = "off"
      BY <3>1 DEF Live, CountersOK
    <3> QED BY <3>1, <3>2
  <2>2. CASE NextWave
    <3>1. proc = "up" /\ gaps[0] > 0
      BY <2>2 DEF NextWave
    <3>2. state = "RUN" /\ active = "off"
      BY <3>1, GapDue
    <3> QED BY <2>2, <3>2 DEF NextWave, SpawnWave
  <2>3. CASE BackToLobby
    BY <2>3 DEF BackToLobby, StopWaves
  <2>4. ASSUME NEW i \in Ids, NEW d \in Strikes, BreakDoor(i, d)
        PROVE  Order
    BY <2>4 DEF BreakDoor, StopWaves
  <2>5. CASE Restart
    BY <2>5 DEF Restart
  <2>6. InvaderGone => wave' = wave
    BY DEF InvaderGone, waveVars
  <2>7. ASSUME NEW i \in Ids, \E d \in Punches : Punch(i, d) PROVE wave' = wave
    BY <2>6, <2>7 DEF Punch, waveVars
  <2>8. ASSUME NEW i \in Ids, \E d \in Traps : TrapHit(i, d) PROVE wave' = wave
    BY <2>6, <2>8 DEF TrapHit, waveVars
  <2>9. ASSUME NEW i \in Ids, Capture(i) PROVE wave' = wave
    BY <2>6, <2>9 DEF Capture
  <2>10. CASE RepairDoor \/ ReadDoor
    BY <2>10 DEF RepairDoor, ReadDoor, waveVars
  <2>11. ASSUME NEW i \in Ids, Summon(i) PROVE wave' = wave
    BY <2>11 DEF Summon
  <2>12. ASSUME NEW i \in Ids, NEW d \in Strikes, HitDoor(i, d) \/ BreakDoorOutsideRun(i, d)
         PROVE  wave' = wave
    BY <2>12 DEF HitDoor, BreakDoorOutsideRun, waveVars
  <2>13. CASE Engine
    BY <2>13 DEF Engine, Unload, Reload, Stop, waveVars
  <2>14. ASSUME NEW c \in chains, SpawnNext(c) PROVE wave' = wave
    BY <2>14 DEF SpawnNext, waveVars
  <2>15. ASSUME NEW i \in Ids, Deport(i) PROVE wave' = wave
    BY <2>15 DEF Deport
  <2>16. CASE ResetWorld \/ ClearWorld \/ Tick
    BY <2>16 DEF ResetWorld, ClearWorld, Tick, waveVars
  <2>17. CASE UNCHANGED vars
    BY <2>17 DEF vars, waveVars
  <2>18. Players => Order
    BY <2>1, <2>7, <2>9, <2>10 DEF Players
  <2>19. Invaders => Order
    BY <2>4, <2>8, <2>11, <2>12 DEF Invaders
  <2>20. Callbacks => Order
    BY <2>2, <2>3, <2>14, <2>15, <2>16 DEF Callbacks
  <2> QED BY <2>5, <2>13, <2>16, <2>17, <2>18, <2>19, <2>20 DEF Next
<1>2. IInv /\ [Next]_vars =>
        [wave' # wave => \/ wave' = wave + 1 /\ active = "off" /\ active' = "on" /\ state' = "RUN"
                         \/ wave' = 0 /\ state' # "RUN"]_vars
  BY <1>1
<1> QED BY <1>2, Invariance, PTL DEF Spec, WavesInOrder

----------------------------------------------------------------------------
(* A match is a campaign *)

\* Nothing that a campaign shows.
Unnoticed == UNCHANGED <<proc, state, wave, active, clears, hof>>

LEMMA UnnoticedStutters ==
  ASSUME Unnoticed PROVE UNCHANGED Run!vars
  BY DEF Unnoticed, Stage, Run!vars

\* An invader counted off clears the wave, wins the match or goes unnoticed.
LEMMA GoneIsCampaign ==
  ASSUME CountersOK, Live, proc = "up", proc' = proc,
         InvaderGone \/ UNCHANGED <<state, waveVars, gaps, endVars>>
  PROVE  [Run!Next]_(Run!vars)
<1>1. CASE UNCHANGED <<state, waveVars, gaps, endVars>> \/ active = "off" \/ alive > 1
  <2>1. Unnoticed
    BY <1>1 DEF Unnoticed, InvaderGone, waveVars, endVars, CountersOK
  <2> QED BY <2>1, UnnoticedStutters
<1>2. CASE InvaderGone /\ active = "on" /\ alive <= 1
  <2>1. active' = "off" /\ clears' = clears + 1 /\ wave' = wave /\ EndOfWave
    BY <1>2 DEF InvaderGone, CountersOK
  <2>2. state = "RUN" /\ wave \in 1..Waves /\ clears = wave - 1 /\ hof = << >>
    BY <1>2 DEF Live
  <2>3. Stage = "fight" /\ clears' = wave
    BY <1>2, <2>1, <2>2 DEF Stage
  <2>4. CASE wave >= Waves
    <3>1. state' = "VICTORY" /\ hof' = Append(hof, Waves)
      BY <2>1, <2>4 DEF EndOfWave
    <3>2. wave = Waves /\ hof' = <<Waves>>
      BY <2>2, <2>4, <3>1, Constants
    <3>3. Stage' = "won"
      BY <3>1 DEF Stage
    <3>4. Run!Win
      BY <2>1, <2>3, <3>2, <3>3 DEF Run!Win
    <3> QED BY <3>4 DEF Run!Next
  <2>5. CASE ~(wave >= Waves)
    <3>1. wave < Waves
      BY <2>2, <2>5, Constants
    <3>2. state' = "RUN" /\ hof' = hof
      BY <2>1, <2>2, <2>5 DEF EndOfWave, endVars
    <3>3. Stage' = "pause"
      BY <2>1, <3>2 DEF Stage
    <3>4. Run!Clear
      BY <2>1, <2>3, <3>1, <3>2, <3>3 DEF Run!Clear
    <3> QED BY <3>4 DEF Run!Next
  <2> QED BY <2>4, <2>5
<1>3. alive <= 1 \/ alive > 1
  BY DEF CountersOK
<1> QED BY <1>1, <1>2, <1>3 DEF CountersOK

\* Every step of a match is a step of a campaign or goes unnoticed.
LEMMA StepIsCampaign == IInv /\ [Next]_vars => [Run!Next]_(Run!vars)
<1> SUFFICES ASSUME CountersOK, ObjectsOK, Live, [Next]_vars
             PROVE  [Run!Next]_(Run!vars)
  BY DEF IInv
<1>1. CASE PressStart
  <2>1. /\ proc = "up" /\ state = "LOBBY"
        /\ proc' = "up" /\ state' = "RUN" /\ active' = "on"
        /\ wave' = 1 /\ clears' = 0 /\ hof' = << >>
    BY <1>1 DEF PressStart, StartAllowed, SpawnWave
  <2>2. Run!Start
    BY <2>1 DEF Stage, Run!Start
  <2> QED BY <2>2 DEF Run!Next
<1>2. ASSUME NEW i \in Ids,
             Capture(i) \/ (\E d \in Punches : Punch(i, d)) \/ (\E d \in Traps : TrapHit(i, d))
      PROVE  [Run!Next]_(Run!vars)
  BY <1>2, GoneIsCampaign DEF Capture, Punch, TrapHit
<1>3. ASSUME NEW i \in Ids, NEW d \in Strikes, BreakDoor(i, d)
      PROVE  [Run!Next]_(Run!vars)
  <2>1. /\ proc = "up" /\ state = "RUN" /\ proc' = "down" /\ state' = "DEFEAT"
        /\ wave' = 0 /\ clears' = clears /\ hof' = Append(hof, -1)
    BY <1>3 DEF BreakDoor, EndsRun, StopWaves
  <2>2. hof' = <<-1>>
    BY <2>1 DEF Live
  <2>3. Stage \in {"fight", "pause"} /\ Stage' = "lost"
    BY <2>1 DEF Stage
  <2>4. Run!Lose
    BY <2>1, <2>2, <2>3 DEF Run!Lose
  <2> QED BY <2>4 DEF Run!Next
<1>4. CASE Stop
  <2>1. proc = "up" /\ proc' = "down" /\ UNCHANGED <<state, wave, clears, hof>>
    BY <1>4 DEF Stop, waveVars, endVars
  <2>2. state \in {"LOBBY", "RUN", "VICTORY"}
    BY <2>1 DEF Live, CountersOK
  <2>3. Stage \in {"lobby", "fight", "pause", "won"} /\ Stage' = "dead"
    BY <2>1, <2>2 DEF Stage
  <2>4. Run!Die
    BY <2>1, <2>3 DEF Run!Die
  <2> QED BY <2>4 DEF Run!Next
<1>5. CASE Restart
  <2>1. /\ proc = "down" /\ proc' = "up" /\ state' = "LOBBY"
        /\ wave' = 0 /\ clears' = clears /\ hof' = hof
    BY <1>5 DEF Restart
  <2>2. Stage \in {"lost", "dead"} /\ Stage' = "lobby"
    BY <2>1 DEF Stage
  <2>3. Run!Return
    BY <2>1, <2>2 DEF Run!Return
  <2> QED BY <2>3 DEF Run!Next
<1>6. CASE NextWave
  <2>1. /\ proc = "up" /\ gaps[0] > 0
        /\ UNCHANGED <<proc, state, clears, hof>>
    BY <1>6 DEF NextWave, endVars
  <2>2. state = "RUN" /\ active = "off"
    BY <2>1, GapDue
  <2>3. wave' = wave + 1 /\ active' = "on"
    BY <1>6, <2>2 DEF NextWave, SpawnWave
  <2>4. Run!Advance
    BY <2>1, <2>2, <2>3 DEF Stage, Run!Advance
  <2> QED BY <2>4 DEF Run!Next
<1>7. CASE BackToLobby
  <2>1. /\ proc = "up" /\ phase # "idle" /\ UNCHANGED <<proc, clears, hof>>
        /\ state' = "LOBBY" /\ wave' = 0
    BY <1>7 DEF BackToLobby, StopWaves
  <2>2. state = "VICTORY"
    BY <2>1 DEF Live
  <2>3. Run!Return
    BY <2>1, <2>2 DEF Stage, Run!Return
  <2> QED BY <2>3 DEF Run!Next
<1>8. ASSUME Unnoticed PROVE [Run!Next]_(Run!vars)
  BY <1>8, UnnoticedStutters
<1>9. CASE RepairDoor \/ ReadDoor
  BY <1>8, <1>9 DEF RepairDoor, ReadDoor, Unnoticed, waveVars, endVars
<1>10. ASSUME NEW i \in Ids, Summon(i) \/ Unload(i) \/ Reload(i) \/ Deport(i)
       PROVE  [Run!Next]_(Run!vars)
  BY <1>8, <1>10 DEF Summon, Unload, Reload, Deport, Unnoticed, waveVars, endVars
<1>11. ASSUME NEW i \in Ids, NEW d \in Strikes, HitDoor(i, d) \/ BreakDoorOutsideRun(i, d)
       PROVE  [Run!Next]_(Run!vars)
  BY <1>8, <1>11 DEF HitDoor, BreakDoorOutsideRun, Unnoticed, waveVars, endVars
<1>12. ASSUME NEW c \in chains, SpawnNext(c)
       PROVE  [Run!Next]_(Run!vars)
  BY <1>8, <1>12 DEF SpawnNext, Unnoticed, waveVars, endVars
<1>13. CASE ResetWorld \/ ClearWorld \/ Tick \/ UNCHANGED vars
  BY <1>8, <1>13 DEF ResetWorld, ClearWorld, Tick, vars, Unnoticed, waveVars, endVars
<1>14. Players => [Run!Next]_(Run!vars)
  BY <1>1, <1>2, <1>9 DEF Players
<1>15. Invaders => [Run!Next]_(Run!vars)
  BY <1>2, <1>3, <1>10, <1>11 DEF Invaders
<1>16. Engine => [Run!Next]_(Run!vars)
  BY <1>4, <1>10 DEF Engine
<1>17. Callbacks => [Run!Next]_(Run!vars)
  BY <1>6, <1>7, <1>10, <1>12, <1>13 DEF Callbacks
<1> QED BY <1>5, <1>13, <1>14, <1>15, <1>16, <1>17 DEF Next

\* Every match is a campaign: waves in order and rewarded once each, won after
\* the last or lost before, one line in the Hall of Fame for either end, and
\* back to the lobby (tgw_core STATE, tgw_waves, tgw_hof, tgw_reset).
THEOREM IsCampaign == Spec => ImplementsCampaign
<1>1. Init => Run!Init
  BY DEF Init, Run!Init, Stage
<1>2. IInv /\ [Next]_vars => [Run!Next]_(Run!vars)
  BY StepIsCampaign
<1> QED BY <1>1, <1>2, Invariance, PTL DEF Spec, ImplementsCampaign, Run!Spec
=============================================================================
