----------------------------- MODULE MatchTally -----------------------------
(***************************************************************************)
(* Proofs about Match: what alive_count counts.  While nobody owns a net,  *)
(* no wave ends before its invaders are gone; when moreover no invader is  *)
(* lost and no blow removes one by being taken off twice, the count is     *)
(* exact.                                                                  *)
(***************************************************************************)
EXTENDS MatchProofs, FiniteSetTheorems

----------------------------------------------------------------------------
(* Invaders on the field, as a finite set *)

\* What a field holds is finite, and counting it gives a number.
LEMMA FieldFinite ==
  ASSUME NEW f
  PROVE  FieldOf(f) \subseteq Ids /\ IsFiniteSet(FieldOf(f)) /\ Cardinality(FieldOf(f)) \in Nat
<1>1. FieldOf(f) \in SUBSET Ids
  BY DEF FieldOf
<1>2. IsFiniteSet(FieldOf(f))
  BY <1>1, FS_Subset, MatchAssumption
<1> QED BY <1>1, <1>2, FS_CardinalityType

\* One entity comes to a slot that held none.
LEMMA FieldAdd ==
  ASSUME NEW f \in [Ids -> Entity], NEW i \in Ids \ FieldOf(f), NEW e \in Entity,
         e.st = "live"
  PROVE  Cardinality(FieldOf([f EXCEPT ![i] = e])) = Cardinality(FieldOf(f)) + 1
<1>1. FieldOf([f EXCEPT ![i] = e]) = FieldOf(f) \cup {i}
  BY DEF FieldOf
<1> QED BY <1>1, FieldFinite, FS_AddElement

\* One entity goes.
LEMMA FieldDrop ==
  ASSUME NEW f \in [Ids -> Entity], NEW i \in FieldOf(f)
  PROVE  Cardinality(FieldOf([f EXCEPT ![i] = Absent])) = Cardinality(FieldOf(f)) - 1
<1>1. FieldOf([f EXCEPT ![i] = Absent]) = FieldOf(f) \ {i}
  BY DEF FieldOf, Absent
<1> QED BY <1>1, FieldFinite, FS_RemoveElement

\* One entity changes and stays.
LEMMA FieldSame ==
  ASSUME NEW f \in [Ids -> Entity], NEW i \in FieldOf(f), NEW e \in Entity,
         e.st \in {"live", "stored"}
  PROVE  FieldOf([f EXCEPT ![i] = e]) = FieldOf(f)
  BY DEF FieldOf

\* Entities come to several slots at once.
LEMMA FieldAddAll ==
  ASSUME NEW f \in [Ids -> Entity], NEW S \in SUBSET (Ids \ FieldOf(f)), NEW e \in Entity,
         e.st = "live"
  PROVE  Cardinality(FieldOf([j \in Ids |-> IF j \in S THEN e ELSE f[j]]))
           = Cardinality(FieldOf(f)) + Cardinality(S)
<1>1. FieldOf([j \in Ids |-> IF j \in S THEN e ELSE f[j]]) = FieldOf(f) \cup S
  BY DEF FieldOf
<1>2. IsFiniteSet(S)
  BY FS_Subset, MatchAssumption
<1>3. FieldOf(f) \cap S = {} /\ Cardinality({}) = 0
  BY FS_EmptySet
<1>4. Cardinality(S) \in Nat
  BY <1>2, FS_CardinalityType
<1>5. IsFiniteSet(FieldOf(f)) /\ Cardinality(FieldOf(f)) \in Nat
  BY FieldFinite
<1>6. Cardinality(FieldOf(f) \cup S) = Cardinality(FieldOf(f)) + Cardinality(S) - Cardinality(FieldOf(f) \cap S)
  BY <1>2, <1>5, FS_Union, Zenon
<1>7. Cardinality(FieldOf(f) \cap S) = 0
  BY <1>3
<1>8. Cardinality(FieldOf(f) \cup S) = Cardinality(FieldOf(f)) + Cardinality(S)
  BY <1>4, <1>5, <1>6, <1>7
<1> QED BY <1>1, <1>8, Zenon

\* A reloaded entity may take another slot.
LEMMA FieldMove ==
  ASSUME NEW f \in [Ids -> Entity], NEW i \in FieldOf(f), NEW e \in Entity, e.st = "live",
         NEW j \in Ids, j = i \/ j \notin FieldOf(f)
  PROVE  Cardinality(FieldOf([f EXCEPT ![i] = Absent, ![j] = e])) = Cardinality(FieldOf(f))
<1> DEFINE g == [f EXCEPT ![i] = Absent]
<1>1. g \in [Ids -> Entity] /\ FieldOf(g) = FieldOf(f) \ {i} /\ i \in Ids
  BY EntityFacts DEF FieldOf, Absent
<1>2. Cardinality(FieldOf(g)) = Cardinality(FieldOf(f)) - 1
  BY FieldDrop
<1>3. [f EXCEPT ![i] = Absent, ![j] = e] = [g EXCEPT ![j] = e]
  OBVIOUS
<1>4. j \in Ids \ FieldOf(g)
  BY <1>1
<1> HIDE DEF g
<1>5. Cardinality(FieldOf([g EXCEPT ![j] = e])) = Cardinality(FieldOf(g)) + 1
  BY <1>1, <1>4, FieldAdd
<1> QED BY <1>2, <1>3, <1>5, FieldFinite

\* Nobody is on the field exactly when the count of the field is 0.
LEMMA FieldEmpty ==
  ASSUME NEW f
  PROVE  Cardinality(FieldOf(f)) = 0 <=> FieldOf(f) = {}
  BY FieldFinite, FS_EmptySet

----------------------------------------------------------------------------
(* Invaders that callbacks are still to spawn *)

\* Of the pending spawn callbacks only one has somebody to spawn.
OneSpawnerIn(C) == \A c, d \in C : ToCome(c) > 0 /\ ToCome(d) > 0 => c = d

LEMMA ToComeType ==
  ASSUME NEW c \in Chain
  PROVE  ToCome(c) \in Nat
  BY DEF ToCome, Chain

\* Who is to come is counted by the one callback that has somebody to spawn.
LEMMA TicketsOfOne ==
  ASSUME NEW C \in SUBSET Chain, OneSpawnerIn(C), NEW c \in C, ToCome(c) > 0
  PROVE  IsFiniteSet(TicketsOf(C)) /\ Cardinality(TicketsOf(C)) = ToCome(c)
<1> DEFINE T == {<<c, n>> : n \in 1..ToCome(c)}
           g == [n \in 1..ToCome(c) |-> <<c, n>>]
<1>1. \A d \in C : ToCome(d) \in Nat
  BY ToComeType
<1>2. \A d \in C : d # c => {<<d, n>> : n \in 1..ToCome(d)} = {}
  <2> TAKE d \in C
  <2> HAVE d # c
  <2>1. ToCome(d) = 0
    BY <1>1 DEF OneSpawnerIn
  <2>2. 1..ToCome(d) = {}
    BY <2>1
  <2> QED BY <2>2
<1>3. TicketsOf(C) = T
  BY <1>2 DEF TicketsOf
<1>4. IsFiniteSet(1..ToCome(c)) /\ Cardinality(1..ToCome(c)) = ToCome(c)
  BY <1>1, FS_Interval
<1>5. g \in Bijection(1..ToCome(c), T)
  <2>1. g \in [1..ToCome(c) -> T]
    OBVIOUS
  <2>2. \A a, b \in 1..ToCome(c) : g[a] = g[b] => a = b
    OBVIOUS
  <2>3. \A t \in T : \E a \in 1..ToCome(c) : g[a] = t
    OBVIOUS
  <2> HIDE DEF g, T
  <2> QED BY <2>1, <2>2, <2>3 DEF Bijection, Injection, Surjection, IsInjective
<1>6. ExistsBijection(1..ToCome(c), T)
  BY <1>5 DEF ExistsBijection
<1> QED BY <1>3, <1>4, <1>6, FS_Bijection

\* Nobody is to come when no callback has somebody to spawn.
LEMMA TicketsOfNone ==
  ASSUME NEW C \in SUBSET Chain, \A c \in C : ToCome(c) = 0
  PROVE  TicketsOf(C) = {} /\ Cardinality(TicketsOf(C)) = 0 /\ OneSpawnerIn(C)
<1>1. \A c \in C : {<<c, n>> : n \in 1..ToCome(c)} = {}
  <2> TAKE c \in C
  <2>1. 1..ToCome(c) = {}
    OBVIOUS
  <2> QED BY <2>1
<1>2. TicketsOf(C) = {}
  BY <1>1 DEF TicketsOf
<1> QED BY <1>2, FS_EmptySet DEF OneSpawnerIn

\* In either case the count of the tickets is a number, and 0 only when nobody
\* is to come.
LEMMA TicketsType ==
  ASSUME NEW C \in SUBSET Chain, OneSpawnerIn(C)
  PROVE  /\ Cardinality(TicketsOf(C)) \in Nat
         /\ Cardinality(TicketsOf(C)) = 0 => \A c \in C : ToCome(c) = 0
<1>1. \A c \in C : ToCome(c) \in Nat
  BY ToComeType
<1>2. CASE \E c \in C : ToCome(c) > 0
  <2>1. PICK c \in C : ToCome(c) > 0
    BY <1>2
  <2> QED BY <2>1, <1>1, TicketsOfOne
<1>3. CASE ~\E c \in C : ToCome(c) > 0
  <2>1. \A c \in C : ToCome(c) = 0
    BY <1>1, <1>3
  <2> QED BY <2>1, TicketsOfNone
<1> QED BY <1>2, <1>3

----------------------------------------------------------------------------
(* The invariant *)

\* Without nets nobody is captured, and the pipeline has nothing to do.  While a
\* run is on, at least as many are counted as are still to be dealt with; a
\* callback has somebody to spawn only then.  NoStrays: START is pressed when no
\* invader of an earlier run is left, because one waits for that or because no
\* process ever dies in the middle of a run.
NoDeaths == {"stop", "strike"} \cap Perils = {}
NoStrays == Room = Cardinality(Ids) \/ NoDeaths

NoNets   == \A i \in Ids : inv[i].st \in {"none", "live", "stored"} /\ pipe[i] = NoJob
Enough   == proc = "up" /\ state = "RUN" => Owed(inv, chains) <= Counted
Spawning == proc = "up" => /\ OneSpawnerIn(chains)
                           /\ state # "RUN" => \A c \in chains : ToCome(c) = 0
Deserted == NoDeaths => proc = "up" /\ (state # "RUN" => FieldOf(inv) = {})
Tally    == NoNets /\ Enough /\ Spawning /\ Deserted

\* The same with nobody forgotten.  Points are the hit points that invaders can
\* have: every kind starts with some of them and every blow that is not the last
\* leaves some of them, a punch being taken off twice (tgw_invader on_punch).
WholeBlows(Points) ==
  /\ \A k \in Kinds : Hp[k] \in Points
  /\ \A h \in Points, d \in Traps : h > d => h - d \in Points
  /\ \A h \in Points, d \in Punches : h > d => h - 2 * d \in Points

\* The numbers the invariant is about are numbers.
LEMMA OwedType ==
  ASSUME NEW f, NEW C \in SUBSET Chain, OneSpawnerIn(C)
  PROVE  Owed(f, C) \in Nat /\ Cardinality(FieldOf(f)) \in Nat /\ Cardinality(TicketsOf(C)) \in Nat
         /\ Owed(f, C) = Cardinality(FieldOf(f)) + Cardinality(TicketsOf(C))
  BY FieldFinite, TicketsType DEF Owed

\* When nobody is counted, nobody is on the field and nobody is to come.
LEMMA NobodyLeft ==
  ASSUME NEW f, NEW C \in SUBSET Chain, OneSpawnerIn(C), Owed(f, C) <= 0
  PROVE  /\ Owed(f, C) = 0 /\ FieldOf(f) = {} /\ \A c \in C : ToCome(c) = 0
<1>1. Cardinality(FieldOf(f)) = 0 /\ Cardinality(TicketsOf(C)) = 0 /\ Owed(f, C) = 0
  BY OwedType
<1> QED BY <1>1, FieldEmpty, TicketsType

----------------------------------------------------------------------------
(* The step, action by action *)

\* What the earlier invariant says about the variables counted here.
LEMMA Known ==
  ASSUME IInv
  PROVE  /\ chains \in SUBSET Chain /\ inv \in [Ids -> Entity] /\ pipe \in [Ids -> Job]
         /\ alive \in Nat /\ active \in {"on", "off"} /\ Counted \in Nat
         /\ active = "on" => state = "RUN" /\ alive > 0
         /\ state = "DEFEAT" => proc = "down"
         /\ proc = "up" => (phase # "idle" <=> state = "VICTORY")
  BY DEF IInv, CountersOK, ObjectsOK, Live, Counted

LEMMA KnownNext ==
  ASSUME IInv'
  PROVE  /\ chains' \in SUBSET Chain /\ alive' \in Nat
         /\ active' = "on" => state' = "RUN"
         /\ active' \in {"on", "off"}
  BY DEF IInv, CountersOK, ObjectsOK, Live

\* An action that neither counts nor spawns, and changes the number of invaders
\* on the field not at all.
LEMMA StillBalanced ==
  ASSUME IInv, IInv', Tally, NoNets',
         UNCHANGED <<proc, state, alive, active, chains>>,
         Cardinality(FieldOf(inv')) = Cardinality(FieldOf(inv))
  PROVE  Tally' /\ (CountIsExact => CountIsExact')
<1>1. Owed(inv', chains') = Owed(inv, chains) /\ Counted' = Counted
  BY DEF Owed, Counted
<1>2. Enough' /\ (CountIsExact => CountIsExact')
  BY <1>1 DEF Tally, Enough, CountIsExact
<1>3. Spawning'
  BY DEF Tally, Spawning
<1>4. FieldOf(inv) = {} => FieldOf(inv') = {}
  BY FieldEmpty
<1>5. Deserted'
  BY <1>4 DEF Tally, Deserted
<1> QED BY <1>2, <1>3, <1>5 DEF Tally

\* An action that is not part of a run, and after which no run is on, adds nobody
\* to a deserted field.
LEMMA OutsideRun ==
  ASSUME IInv, IInv', Tally, NoNets', state # "RUN", state' # "RUN", proc' = proc,
         chains' = chains, FieldOf(inv) = {} => FieldOf(inv') = {}
  PROVE  Tally' /\ (CountIsExact => CountIsExact')
<1>1. Enough' /\ CountIsExact'
  BY DEF Enough, CountIsExact
<1>2. Spawning'
  BY DEF Tally, Spawning
<1>3. Deserted'
  BY DEF Tally, Deserted
<1> QED BY <1>1, <1>2, <1>3 DEF Tally

\* invader_killed and the like for an invader that is there: it is counted off.
LEMMA GoneBalanced ==
  ASSUME IInv, IInv', Tally, proc = "up", proc' = proc, NEW i \in FieldOf(inv), InvaderGone,
         inv' = [inv EXCEPT ![i] = Absent], UNCHANGED <<chains, pipe>>
  PROVE  Tally' /\ (CountIsExact => CountIsExact')
<1>1. Cardinality(FieldOf(inv')) = Cardinality(FieldOf(inv)) - 1 /\ FieldOf(inv) # {}
  BY Known, FieldDrop
<1>2. NoNets'
  BY Known DEF Tally, NoNets, Absent
<1>3. CASE state # "RUN"
  <2>1. active = "off"
    BY <1>3, Known
  <2>2. state' = state
    BY <2>1 DEF InvaderGone
  <2>3. ~NoDeaths
    BY <1>1, <1>3 DEF Tally, Deserted
  <2>4. Enough' /\ CountIsExact'
    BY <1>3, <2>2 DEF Enough, CountIsExact
  <2>5. Spawning'
    BY <1>3, <2>2 DEF Tally, Spawning
  <2> QED BY <1>2, <2>3, <2>4, <2>5 DEF Tally, Deserted
<1>4. CASE state = "RUN"
  <2>1. OneSpawnerIn(chains) /\ OneSpawnerIn(chains')
    BY DEF Tally, Spawning
  <2>2. Owed(inv', chains') = Owed(inv, chains) - 1 /\ Owed(inv, chains) \in Nat
        /\ Owed(inv', chains') \in Nat
    BY <1>1, <2>1, OwedType, Known
  <2>3. Owed(inv, chains) <= Counted
    BY <1>4 DEF Tally, Enough
  <2>4. active = "on" /\ alive \in Nat /\ alive >= 1
    BY <2>2, <2>3, Known DEF Counted
  <2>5. Counted' = Counted - 1
    BY <2>4 DEF InvaderGone, Counted
  <2>6. Owed(inv', chains') <= Counted'
    BY <2>2, <2>3, <2>5, <2>4 DEF Counted
  <2>7. CountIsExact => CountIsExact'
    BY <1>4, <2>2, <2>5 DEF CountIsExact
  <2>8. state' # "RUN" => active' = "off"
    BY KnownNext
  <2>9. state' # "RUN" => FieldOf(inv') = {} /\ \A c \in chains' : ToCome(c) = 0
    BY <2>1, <2>6, <2>8, NobodyLeft, Known DEF Counted
  <2>10. Enough' /\ Spawning' /\ Deserted'
    BY <2>1, <2>6, <2>9 DEF Tally, Enough, Spawning, Deserted
  <2> QED BY <1>2, <2>7, <2>10 DEF Tally
<1> QED BY <1>3, <1>4

\* An invader that goes uncounted leaves the count too high, never too low.
LEMMA LostBalanced ==
  ASSUME IInv, IInv', Tally, proc = "up", NEW i \in FieldOf(inv),
         inv' = [inv EXCEPT ![i] = Absent], UNCHANGED <<proc, state, alive, active, chains, pipe>>
  PROVE  Tally'
<1>1. Cardinality(FieldOf(inv')) = Cardinality(FieldOf(inv)) - 1
  BY Known, FieldDrop
<1>2. NoNets'
  BY Known DEF Tally, NoNets, Absent
<1>3. OneSpawnerIn(chains)
  BY DEF Tally, Spawning
<1>4. Owed(inv', chains') = Owed(inv, chains) - 1 /\ Owed(inv, chains) \in Nat /\ Counted' = Counted
  BY <1>1, <1>3, OwedType, Known DEF Counted
<1>5. Enough'
  BY <1>4, Known DEF Tally, Enough
<1>6. Spawning'
  BY DEF Tally, Spawning
<1>7. FieldOf(inv) # {}
  OBVIOUS
<1>8. Deserted'
  BY <1>7 DEF Tally, Deserted
<1> QED BY <1>2, <1>5, <1>6, <1>8 DEF Tally

\* START or the next wave, on a deserted field: everybody is to come but the one
\* who is there.
LEMMA SpawnBalanced ==
  ASSUME IInv, IInv', NEW w \in 1..Waves, SpawnWave(w), NoNets, pipe' = pipe,
         FieldOf(inv) = {}, \A c \in chains : ToCome(c) = 0
  PROVE  NoNets' /\ OneSpawnerIn(chains') /\ Owed(inv', chains') = Counted' /\ Counted' \in Nat
<1> DEFINE c == [wave |-> w, left |-> WaveSize[w] - 1, due |-> SpawnGap]
           boss == IF BossOf[w] = "none" THEN 0 ELSE 1
<1>1. WaveSize[w] \in Nat /\ WaveSize[w] >= 1 /\ boss \in 0..1
  BY Constants
<1>2. c \in Chain /\ ToCome(c) = WaveSize[w] - 1 + boss /\ chains' = chains \cup {c}
  BY <1>1, Constants DEF SpawnWave, Chain, ToCome
<1>3. PICK i \in Free : inv' = [inv EXCEPT ![i] = Fresh("runner")]
  BY DEF SpawnWave
<1>4. i \in Ids \ FieldOf(inv) /\ Fresh("runner") \in Entity /\ Fresh("runner").st = "live"
  BY <1>3, EntityFacts DEF Free, FieldOf, Fresh
<1>5. Cardinality(FieldOf(inv')) = 1
  <2>1. Cardinality(FieldOf(inv')) = Cardinality(FieldOf(inv)) + 1
    BY <1>3, <1>4, Known, FieldAdd
  <2> QED BY <2>1, FieldEmpty
<1>6. NoNets'
  BY <1>3, <1>4, Known DEF NoNets
<1> HIDE DEF c, boss
<1>7. OneSpawnerIn(chains')
  BY <1>2 DEF OneSpawnerIn
<1>8. Cardinality(TicketsOf(chains')) = ToCome(c)
  <2>1. CASE ToCome(c) > 0
    BY <2>1, <1>2, <1>7, KnownNext, TicketsOfOne
  <2>2. CASE ~(ToCome(c) > 0)
    <3>1. ToCome(c) = 0
      BY <2>2, <1>2, ToComeType
    <3> QED BY <3>1, <1>2, KnownNext, TicketsOfNone
  <2> QED BY <2>1, <2>2
<1>9. Counted' = WaveSize[w] + boss
  BY DEF SpawnWave, Counted, boss
<1> QED BY <1>1, <1>2, <1>5, <1>6, <1>7, <1>8, <1>9 DEF Owed

\* START.
LEMMA StartBalanced ==
  ASSUME IInv, IInv', Tally, NoStrays, PressStart
  PROVE  Tally' /\ CountIsExact'
<1>1. /\ proc = "up" /\ proc' = "up" /\ state = "LOBBY" /\ state' = "RUN"
      /\ SpawnWave(1) /\ pipe' = pipe /\ Cardinality(Free) >= Room
  BY DEF PressStart, StartAllowed
<1>2. FieldOf(inv) = {}
  <2>1. CASE NoDeaths
    BY <1>1, <2>1 DEF Tally, Deserted
  <2>2. CASE Room = Cardinality(Ids)
    <3>1. Free \in SUBSET Ids
      BY DEF Free
    <3>2. Cardinality(Free) = Cardinality(Ids)
      <4>1. Cardinality(Free) <= Cardinality(Ids) /\ IsFiniteSet(Free)
        BY <3>1, FS_Subset, MatchAssumption
      <4>2. Cardinality(Free) \in Nat /\ Cardinality(Ids) \in Nat
        BY <4>1, FS_CardinalityType, MatchAssumption
      <4> QED BY <4>1, <4>2, <1>1, <2>2
    <3>3. Free = Ids
      BY <3>1, <3>2, FS_Subset, MatchAssumption
    <3> QED BY <3>3 DEF Free, FieldOf
  <2> QED BY <2>1, <2>2 DEF NoStrays
<1>3. \A c \in chains : ToCome(c) = 0
  BY <1>1 DEF Tally, Spawning
<1>4. 1 \in 1..Waves
  BY Constants
<1>5. NoNets' /\ OneSpawnerIn(chains') /\ Owed(inv', chains') = Counted' /\ Counted' \in Nat
  BY <1>1, <1>2, <1>3, <1>4, SpawnBalanced DEF Tally
<1> QED BY <1>1, <1>5 DEF Tally, Enough, Spawning, Deserted, CountIsExact

\* The callback between two waves finds the field deserted.
LEMMA NextWaveBalanced ==
  ASSUME IInv, IInv', Tally, NextWave
  PROVE  Tally' /\ CountIsExact'
<1>1. proc = "up" /\ proc' = "up" /\ gaps[0] > 0 /\ state' = state /\ pipe' = pipe
  BY DEF NextWave
<1>2. state = "RUN" /\ active = "off" /\ wave \in 1..Waves /\ wave < Waves
  BY <1>1, GapDue DEF IInv
<1>3. SpawnWave(wave + 1) /\ wave + 1 \in 1..Waves
  BY <1>2, Constants DEF NextWave
<1>4. OneSpawnerIn(chains) /\ Owed(inv, chains) <= 0
  BY <1>1, <1>2 DEF Tally, Enough, Spawning, Counted
<1>5. FieldOf(inv) = {} /\ \A c \in chains : ToCome(c) = 0
  BY <1>4, NobodyLeft, Known
<1>6. NoNets' /\ OneSpawnerIn(chains') /\ Owed(inv', chains') = Counted' /\ Counted' \in Nat
  BY <1>1, <1>3, <1>5, SpawnBalanced DEF Tally
<1> QED BY <1>1, <1>2, <1>6 DEF Tally, Enough, Spawning, Deserted, CountIsExact

\* A summoner's minions are counted as they come.
LEMMA SummonBalanced ==
  ASSUME IInv, IInv', Tally, NEW i \in Ids, Summon(i)
  PROVE  Tally' /\ (CountIsExact => CountIsExact')
<1>1. /\ proc = "up" /\ i \in FieldOf(inv) /\ InvadersReturned(SummonCount)
      /\ UNCHANGED <<proc, state, active, chains, pipe>>
  BY DEF Summon, InWorld, FieldOf, Tally, NoNets, timerVars
<1>2. PICK S \in SUBSET Free :
        /\ Cardinality(S) = SummonCount
        /\ inv' = [j \in Ids |-> IF j \in S THEN Fresh("runner") ELSE inv[j]]
  BY DEF Summon
<1>3. S \in SUBSET (Ids \ FieldOf(inv)) /\ Fresh("runner") \in Entity /\ Fresh("runner").st = "live"
  BY <1>2, EntityFacts DEF Free, FieldOf, Fresh
<1>4. Cardinality(FieldOf(inv')) = Cardinality(FieldOf(inv)) + SummonCount
  BY <1>2, <1>3, Known, FieldAddAll
<1>5. NoNets'
  BY <1>1, <1>2, <1>3, Known DEF Tally, NoNets
<1>6. OneSpawnerIn(chains) /\ SummonCount \in Nat
  BY <1>1, MatchAssumption DEF Tally, Spawning
<1>7. Owed(inv', chains') = Owed(inv, chains) + SummonCount /\ Owed(inv, chains) \in Nat
      /\ Owed(inv, chains) >= 1
  <2>1. Cardinality(FieldOf(inv)) # 0
    BY <1>1, FieldEmpty
  <2> QED BY <2>1, <1>1, <1>4, <1>6, OwedType, Known
<1>8. state = "RUN" => Counted' = Counted + SummonCount /\ Counted \in Nat
  <2> HAVE state = "RUN"
  <2>1. Owed(inv, chains) <= Counted /\ Counted \in Nat
    BY <1>1, Known DEF Tally, Enough
  <2>2. active = "on"
    BY <2>1, <1>7, Known DEF Counted
  <2> QED BY <2>1, <2>2, <1>1 DEF InvadersReturned, Counted
<1>9. Enough' /\ (CountIsExact => CountIsExact')
  BY <1>1, <1>6, <1>7, <1>8 DEF Tally, Enough, CountIsExact
<1>10. Spawning'
  BY <1>1 DEF Tally, Spawning
<1>11. Deserted'
  BY <1>1 DEF Tally, Deserted
<1> QED BY <1>5, <1>9, <1>10, <1>11 DEF Tally

\* The blows after which no invader is removed without being counted off.
NoLoss ==
  /\ "ungenerated" \notin Perils
  /\ \A i \in FieldOf(inv), d \in Punches : inv[i].hp > d => inv[i].hp > 2 * d

\* A blow on an invader that stays is no event.
LEMMA HurtBalanced ==
  ASSUME IInv, IInv', Tally, proc = "up", NEW i \in FieldOf(inv), NEW d \in Nat,
         inv' = [inv EXCEPT ![i] = Hurt(inv[i], d)],
         UNCHANGED <<proc, state, alive, active, chains, pipe>>
  PROVE  /\ Tally'
         /\ inv[i].hp > d => (CountIsExact => CountIsExact')
<1>1. i \in Ids /\ inv[i] \in Entity
  BY Known DEF FieldOf
<1>2. CASE inv[i].hp > d
  <2>1. Hurt(inv[i], d) = [inv[i] EXCEPT !.hp = @ - d]
    BY <1>2 DEF Hurt
  <2>2. Hurt(inv[i], d) \in Entity /\ Hurt(inv[i], d).st = inv[i].st
    BY <1>1, <2>1, HurtType DEF Entity
  <2>3. FieldOf(inv') = FieldOf(inv)
    BY <1>1, <2>2, Known, FieldSame DEF FieldOf
  <2>4. NoNets'
    BY <1>1, <2>2, Known DEF Tally, NoNets
  <2> QED BY <2>3, <2>4, StillBalanced
<1>3. CASE ~(inv[i].hp > d)
  BY <1>3, LostBalanced DEF Hurt
<1> QED BY <1>2, <1>3

\* A blow by a player.
LEMMA PunchBalanced ==
  ASSUME IInv, IInv', Tally, NEW i \in Ids, NEW d \in Punches, Punch(i, d)
  PROVE  Tally' /\ (NoLoss => (CountIsExact => CountIsExact'))
<1>1. proc = "up" /\ i \in FieldOf(inv) /\ UNCHANGED <<proc, chains, pipe>>
  BY DEF Punch, InWorld, FieldOf, Tally, NoNets
<1>2. d \in Nat /\ 2 * d \in Nat
  BY MatchAssumption
<1>3. CASE inv[i].hp <= d /\ InvaderGone /\ inv' = [inv EXCEPT ![i] = Absent]
  BY <1>1, <1>3, GoneBalanced
<1>4. CASE /\ inv[i].hp > d /\ inv' = [inv EXCEPT ![i] = Hurt(@, 2 * d)]
           /\ UNCHANGED <<state, waveVars>>
  BY <1>1, <1>2, <1>4, HurtBalanced DEF waveVars, NoLoss
<1> QED BY <1>3, <1>4 DEF Punch

\* A trap.
LEMMA TrapBalanced ==
  ASSUME IInv, IInv', Tally, NEW i \in Ids, NEW d \in Traps, TrapHit(i, d)
  PROVE  Tally' /\ (CountIsExact => CountIsExact')
<1>1. proc = "up" /\ i \in FieldOf(inv) /\ UNCHANGED <<proc, chains, pipe>> /\ d \in Nat
  BY MatchAssumption DEF TrapHit, InWorld, FieldOf, Tally, NoNets
<1>2. CASE inv[i].hp <= d /\ InvaderGone /\ inv' = [inv EXCEPT ![i] = Absent]
  BY <1>1, <1>2, GoneBalanced
<1>3. CASE /\ inv[i].hp > d /\ inv' = [inv EXCEPT ![i] = Hurt(@, d)]
           /\ UNCHANGED <<state, waveVars>>
  BY <1>1, <1>3, HurtBalanced DEF waveVars
<1> QED BY <1>2, <1>3 DEF TrapHit

\* Unloading an invader; without a block to be stored in, it is lost.
LEMMA UnloadBalanced ==
  ASSUME IInv, IInv', Tally, NEW i \in Ids, Unload(i)
  PROVE  Tally' /\ (NoLoss => (CountIsExact => CountIsExact'))
<1>1. /\ proc = "up" /\ i \in FieldOf(inv)
      /\ UNCHANGED <<proc, state, alive, active, chains, pipe>>
  BY DEF Unload, InWorld, FieldOf, Tally, NoNets, waveVars, timerVars
<1>2. CASE inv' = [inv EXCEPT ![i].st = "stored"]
  <2> DEFINE e == [inv[i] EXCEPT !.st = "stored"]
  <2>1. e \in Entity /\ e.st = "stored" /\ inv' = [inv EXCEPT ![i] = e]
    BY <1>2, Known DEF Entity
  <2> HIDE DEF e
  <2>2. FieldOf(inv') = FieldOf(inv)
    BY <1>1, <2>1, Known, FieldSame
  <2>3. NoNets'
    BY <1>1, <2>1, Known DEF Tally, NoNets
  <2> QED BY <1>1, <2>2, <2>3, StillBalanced
<1>3. CASE "ungenerated" \in Perils /\ inv' = [inv EXCEPT ![i] = Absent]
  BY <1>1, <1>3, LostBalanced DEF NoLoss
<1> QED BY <1>2, <1>3 DEF Unload

\* Loading one again.
LEMMA ReloadBalanced ==
  ASSUME IInv, IInv', Tally, NEW i \in Ids, Reload(i)
  PROVE  Tally' /\ (CountIsExact => CountIsExact')
<1> DEFINE e == [st |-> "live", kind |-> inv[i].kind, hp |-> inv[i].hp]
<1>1. /\ i \in FieldOf(inv) /\ UNCHANGED <<proc, state, alive, active, chains, pipe>>
      /\ inv[i] \in Entity
  BY Known DEF Reload, FieldOf, waveVars, timerVars
<1>2. PICK j \in Ids : /\ j = i \/ j \notin FieldOf(inv)
                       /\ inv' = [inv EXCEPT ![i] = Absent, ![j] = e]
  BY DEF Reload, Free, FieldOf
<1>3. e \in Entity /\ e.st = "live"
  BY <1>1 DEF Entity
<1> HIDE DEF e
<1>4. Cardinality(FieldOf(inv')) = Cardinality(FieldOf(inv))
  BY <1>1, <1>2, <1>3, Known, FieldMove
<1>5. NoNets'
  BY <1>1, <1>2, <1>3, Known DEF Tally, NoNets, Absent
<1> QED BY <1>1, <1>4, <1>5, StillBalanced

\* Actions that move no invader.
LEMMA NobodyMoves ==
  ASSUME IInv, IInv', Tally, UNCHANGED <<proc, state, alive, active, chains, pipe, inv>>
  PROVE  Tally' /\ (CountIsExact => CountIsExact')
<1>1. NoNets'
  BY DEF Tally, NoNets
<1> QED BY <1>1, StillBalanced

\* One ticket fewer, and one invader more on the field when it was a real one.
LEMMA SpawnNextBalanced ==
  ASSUME IInv, IInv', Tally, NEW c \in chains, SpawnNext(c)
  PROVE  Tally' /\ (CountIsExact => CountIsExact')
<1>1. proc = "up" /\ UNCHANGED <<proc, state, alive, active, pipe>> /\ OneSpawnerIn(chains)
  BY DEF SpawnNext, waveVars, Tally, Spawning
<1>2. c \in Chain /\ ToCome(c) \in Nat /\ c.left \in Nat
  BY Known, ToComeType DEF Chain
<1>3. ASSUME NEW i \in Free, NEW k \in Kinds, inv' = [inv EXCEPT ![i] = Fresh(k)]
      PROVE  Cardinality(FieldOf(inv')) = Cardinality(FieldOf(inv)) + 1 /\ NoNets'
  <2>1. i \in Ids \ FieldOf(inv) /\ Fresh(k) \in Entity /\ Fresh(k).st = "live"
    BY <1>3, EntityFacts DEF Free, FieldOf, Fresh
  <2>2. Cardinality(FieldOf(inv')) = Cardinality(FieldOf(inv)) + 1
    BY <1>3, <2>1, Known, FieldAdd
  <2>3. NoNets'
    BY <1>1, <1>3, <2>1, Known DEF Tally, NoNets
  <2> QED BY <2>2, <2>3
<1>4. ASSUME /\ ToCome(c) > 0 /\ OneSpawnerIn(chains')
             /\ Cardinality(TicketsOf(chains')) = ToCome(c) - 1
             /\ Cardinality(FieldOf(inv')) = Cardinality(FieldOf(inv)) + 1
             /\ NoNets'
      PROVE  Tally' /\ (CountIsExact => CountIsExact')
  <2>1. state = "RUN"
    BY <1>1, <1>4 DEF Tally, Spawning
  <2>2. Cardinality(TicketsOf(chains)) = ToCome(c)
    BY <1>1, <1>4, Known, TicketsOfOne
  <2>3. Owed(inv', chains') = Owed(inv, chains) /\ Counted' = Counted
    <3>1. Cardinality(FieldOf(inv)) \in Nat
      BY FieldFinite
    <3> QED BY <3>1, <1>1, <1>2, <1>4, <2>2 DEF Owed, Counted
  <2>4. Enough' /\ (CountIsExact => CountIsExact')
    BY <1>1, <2>1, <2>3 DEF Tally, Enough, CountIsExact
  <2>5. Spawning' /\ Deserted'
    BY <1>1, <1>4, <2>1 DEF Tally, Spawning, Deserted
  <2> QED BY <1>4, <2>4, <2>5 DEF Tally
<1>5. CASE /\ c.left > 0
           /\ \E i \in Free : inv' = [inv EXCEPT ![i] = Fresh("runner")]
           /\ chains' = (chains \ {c}) \cup {[wave |-> c.wave, left |-> c.left - 1, due |-> SpawnGap]}
  <2> DEFINE d == [wave |-> c.wave, left |-> c.left - 1, due |-> SpawnGap]
  <2>1. d \in Chain /\ ToCome(d) = ToCome(c) - 1 /\ ToCome(c) > 0
    BY <1>2, <1>5, Constants DEF Chain, ToCome
  <2>2. chains' = (chains \ {c}) \cup {d} /\ d \in chains'
    BY <1>5
  <2> HIDE DEF d
  <2>3. \A x \in chains' : x = d \/ ToCome(x) = 0
    <3> SUFFICES ASSUME NEW x \in chains \ {c} PROVE ToCome(x) = 0
      BY <2>2
    <3>1. ~(ToCome(x) > 0)
      BY <1>1, <2>1 DEF OneSpawnerIn
    <3>2. ToCome(x) \in Nat
      BY Known, ToComeType
    <3> QED BY <3>1, <3>2
  <2>4. OneSpawnerIn(chains')
    BY <2>3 DEF OneSpawnerIn
  <2>5. Cardinality(TicketsOf(chains')) = ToCome(d)
    <3>1. CASE ToCome(d) > 0
      BY <3>1, <2>2, <2>4, KnownNext, TicketsOfOne
    <3>2. CASE ~(ToCome(d) > 0)
      <4>1. ToCome(d) = 0
        BY <3>2, <1>2, <2>1
      <4>2. \A x \in chains' : ToCome(x) = 0
        BY <4>1, <2>3
      <4> QED BY <4>1, <4>2, KnownNext, TicketsOfNone
    <3> QED BY <3>1, <3>2
  <2> QED BY <1>3, <1>4, <1>5, <2>1, <2>4, <2>5, EntityFacts
<1>6. CASE /\ c.left = 0 /\ BossOf[c.wave] # "none" /\ chains' = chains \ {c}
           /\ \E i \in Free : inv' = [inv EXCEPT ![i] = Fresh(BossOf[c.wave])]
  <2>1. ToCome(c) = 1 /\ BossOf[c.wave] \in Kinds
    BY <1>2, <1>6, Constants, EntityFacts DEF ToCome, Chain
  <2>2. \A x \in chains' : ToCome(x) = 0
    <3> TAKE x \in chains'
    <3>1. x \in chains /\ x # c
      BY <1>6
    <3>2. ~(ToCome(x) > 0)
      BY <1>1, <2>1, <3>1 DEF OneSpawnerIn
    <3>3. ToCome(x) \in Nat
      BY <3>1, Known, ToComeType
    <3> QED BY <3>2, <3>3
  <2>3. OneSpawnerIn(chains') /\ Cardinality(TicketsOf(chains')) = 0
    BY <2>2, KnownNext, TicketsOfNone
  <2>4. Cardinality(TicketsOf(chains')) = ToCome(c) - 1 /\ ToCome(c) > 0
    BY <2>1, <2>3
  <2>5. Cardinality(FieldOf(inv')) = Cardinality(FieldOf(inv)) + 1 /\ NoNets'
    BY <1>3, <1>6, <2>1
  <2> QED BY <1>4, <2>3, <2>4, <2>5
<1>7. CASE c.left = 0 /\ BossOf[c.wave] = "none" /\ chains' = chains \ {c} /\ UNCHANGED inv
  <2>1. ToCome(c) = 0
    BY <1>7 DEF ToCome
  <2>2. TicketsOf(chains') = TicketsOf(chains)
    <3>1. {<<c, n>> : n \in 1..ToCome(c)} = {}
      <4>1. 1..ToCome(c) = {}
        BY <2>1
      <4> QED BY <4>1
    <3> QED BY <3>1, <1>7 DEF TicketsOf
  <2>3. Owed(inv', chains') = Owed(inv, chains) /\ Counted' = Counted
    BY <1>1, <1>7, <2>2 DEF Owed, Counted
  <2>4. NoNets' /\ Spawning' /\ Deserted'
    BY <1>1, <1>7 DEF Tally, NoNets, Spawning, OneSpawnerIn, Deserted
  <2>5. Enough' /\ (CountIsExact => CountIsExact')
    BY <1>1, <2>3 DEF Tally, Enough, CountIsExact
  <2> QED BY <2>4, <2>5 DEF Tally
<1> QED BY <1>5, <1>6, <1>7 DEF SpawnNext

\* Time passes: the same callbacks, nearer.
LEMMA TickBalanced ==
  ASSUME IInv, IInv', Tally, Tick
  PROVE  Tally' /\ (CountIsExact => CountIsExact')
<1>1. /\ proc = "up" /\ UNCHANGED <<proc, state, alive, active, inv>>
      /\ chains' = {[c EXCEPT !.due = @ - 1] : c \in chains}
      /\ pipe' = [i \in Ids |-> IF pipe[i].due > 0 THEN [pipe[i] EXCEPT !.due = @ - 1] ELSE pipe[i]]
      /\ OneSpawnerIn(chains)
  BY DEF Tick, waveVars, Tally, Spawning
<1>2. \A c \in chains : ToCome([c EXCEPT !.due = @ - 1]) = ToCome(c)
  BY Known DEF ToCome, Chain
<1>3. NoNets'
  <2>1. ASSUME NEW i \in Ids PROVE pipe'[i] = NoJob
    <3>1. pipe[i] = NoJob /\ ~(NoJob.due > 0)
      BY DEF Tally, NoNets, NoJob
    <3> QED BY <1>1, <3>1
  <2> QED BY <1>1, <2>1 DEF Tally, NoNets, NoJob
<1>4. OneSpawnerIn(chains')
  BY <1>1, <1>2 DEF OneSpawnerIn
<1>5. Cardinality(TicketsOf(chains')) = Cardinality(TicketsOf(chains))
  <2>1. CASE \E c \in chains : ToCome(c) > 0
    <3>1. PICK c \in chains : ToCome(c) > 0
      BY <2>1
    <3>2. [c EXCEPT !.due = @ - 1] \in chains'
      BY <1>1
    <3>3. Cardinality(TicketsOf(chains')) = ToCome(c)
      BY <3>1, <3>2, <1>2, <1>4, KnownNext, TicketsOfOne
    <3> QED BY <3>1, <3>3, <1>1, Known, TicketsOfOne
  <2>2. CASE ~\E c \in chains : ToCome(c) > 0
    <3>1. \A c \in chains : ToCome(c) = 0
      BY <2>2, Known, ToComeType
    <3>2. \A c \in chains' : ToCome(c) = 0
      BY <3>1, <1>1, <1>2
    <3> QED BY <3>1, <3>2, Known, KnownNext, TicketsOfNone
  <2> QED BY <2>1, <2>2
<1>6. Owed(inv', chains') = Owed(inv, chains) /\ Counted' = Counted
  BY <1>1, <1>5 DEF Owed, Counted
<1>7. Enough' /\ (CountIsExact => CountIsExact')
  BY <1>1, <1>6 DEF Tally, Enough, CountIsExact
<1>8. Spawning' /\ Deserted'
  BY <1>1, <1>2, <1>4 DEF Tally, Spawning, Deserted
<1> QED BY <1>3, <1>7, <1>8 DEF Tally

\* The reset, and what removes every invader in the world.
LEMMA ResetBalanced ==
  ASSUME IInv, IInv', Tally, ResetWorld \/ ClearWorld \/ BackToLobby
  PROVE  Tally' /\ (CountIsExact => CountIsExact')
<1>1. /\ proc = "up" /\ phase # "idle" /\ state' \in {state, "LOBBY"} /\ inv' \in {inv, OnlyStored}
      /\ UNCHANGED <<proc, chains, pipe>>
  BY DEF ResetWorld, ClearWorld, BackToLobby, StopWaves, timerVars, waveVars
<1>2. state = "VICTORY" /\ state # "RUN" /\ state' # "RUN"
  BY <1>1, Known
<1>3. NoNets'
  BY <1>1 DEF Tally, NoNets, OnlyStored, Absent
<1>4. FieldOf(inv) = {} => FieldOf(inv') = {}
  BY <1>1 DEF FieldOf, OnlyStored, Absent
<1> QED BY <1>1, <1>2, <1>3, <1>4, OutsideRun

\* The blow that ends the process, the operator's stop, and the restart.
LEMMA DownAndUp ==
  ASSUME IInv, IInv', Tally,
         Stop \/ Restart \/ \E i \in Ids, d \in Strikes : BreakDoor(i, d)
  PROVE  Tally' /\ CountIsExact'
<1>1. CASE Stop \/ \E i \in Ids, d \in Strikes : BreakDoor(i, d)
  <2>1. ~NoDeaths /\ proc' = "down" /\ inv' \in {inv, OnlyStored} /\ pipe' = pipe
    BY <1>1 DEF Stop, BreakDoor, StopWaves, NoDeaths, timerVars
  <2>2. NoNets'
    BY <2>1 DEF Tally, NoNets, OnlyStored, Absent
  <2> QED BY <2>1, <2>2 DEF Tally, Enough, Spawning, Deserted, CountIsExact
<1>2. CASE Restart
  <2>1. /\ proc = "down" /\ state' = "LOBBY" /\ chains' = {} /\ pipe' = [i \in Ids |-> NoJob]
        /\ inv' = [i \in Ids |-> IF InWorld(i) THEN [inv[i] EXCEPT !.st = "stored"] ELSE inv[i]]
    BY <1>2 DEF Restart
  <2>2. NoNets'
    <3>1. \A i \in Ids : [inv[i] EXCEPT !.st = "stored"].st = "stored"
      BY Known DEF Entity
    <3> QED BY <2>1, <3>1 DEF Tally, NoNets
  <2>3. ~NoDeaths
    BY <2>1 DEF Tally, Deserted
  <2> QED BY <2>1, <2>2, <2>3 DEF Tally, Enough, Spawning, Deserted, CountIsExact, OneSpawnerIn
<1> QED BY <1>1, <1>2

----------------------------------------------------------------------------
(* The theorems *)

\* Every step keeps the tally, and the exact count when nobody can be lost.
LEMMA TallyStep ==
  ASSUME "net" \notin Perils, NoStrays, IInv, IInv', Tally, [Next]_vars
  PROVE  Tally' /\ (NoLoss => (CountIsExact => CountIsExact'))
<1>1. CASE Players
  <2>1. ASSUME NEW i \in Ids, Capture(i) PROVE FALSE
    BY <2>1 DEF Capture
  <2>2. CASE RepairDoor \/ ReadDoor
    BY <2>2, NobodyMoves DEF RepairDoor, ReadDoor, waveVars, timerVars
  <2> QED BY <1>1, <2>1, <2>2, StartBalanced, PunchBalanced DEF Players
<1>2. CASE Invaders
  <2>1. ASSUME NEW i \in Ids, NEW d \in Strikes, HitDoor(i, d) \/ BreakDoorOutsideRun(i, d)
        PROVE  Tally' /\ (CountIsExact => CountIsExact')
    BY <2>1, NobodyMoves DEF HitDoor, BreakDoorOutsideRun, waveVars, timerVars
  <2> QED BY <1>2, <2>1, SummonBalanced, TrapBalanced, DownAndUp DEF Invaders
<1>3. CASE Engine
  BY <1>3, UnloadBalanced, ReloadBalanced, DownAndUp DEF Engine
<1>4. CASE Callbacks
  <2>1. ASSUME NEW i \in Ids, Deport(i) PROVE FALSE
    BY <2>1 DEF Deport, Tally, NoNets, NoJob
  <2> QED BY <1>4, <2>1, SpawnNextBalanced, NextWaveBalanced, ResetBalanced DEF Callbacks
<1>5. CASE Tick
  BY <1>5, TickBalanced
<1>6. CASE Restart
  BY <1>6, DownAndUp
<1>7. CASE UNCHANGED vars
  BY <1>7, NobodyMoves DEF vars, waveVars, timerVars
<1> QED BY <1>1, <1>2, <1>3, <1>4, <1>5, <1>6, <1>7 DEF Next

\* A step leaves only hit points that blows can leave.
LEMMA PointsStep ==
  ASSUME NEW Points \in SUBSET (Nat \ {0}), WholeBlows(Points), "net" \notin Perils,
         IInv, Tally, [Next]_vars, \A i \in FieldOf(inv) : inv[i].hp \in Points
  PROVE  \A i \in FieldOf(inv') : inv'[i].hp \in Points
<1> DEFINE Marked(f) == \A i \in FieldOf(f) : f[i].hp \in Points
<1> SUFFICES Marked(inv')
  OBVIOUS
<1>1. Marked(inv) /\ inv \in [Ids -> Entity]
  BY Known
<1>2. ASSUME NEW i \in Ids, NEW e \in Entity, e.hp \in Points \/ e.st \notin {"live", "stored"},
             inv' = [inv EXCEPT ![i] = e]
      PROVE  Marked(inv')
  BY <1>1, <1>2 DEF FieldOf
<1>3. \A k \in Kinds : Fresh(k) \in Entity /\ Fresh(k).hp \in Points
  BY EntityFacts DEF Fresh, WholeBlows
<1>4. Absent \in Entity /\ Absent.st = "none"
  BY EntityFacts DEF Absent
<1>5. inv' = inv => Marked(inv')
  BY <1>1
<1>6. inv' = OnlyStored => Marked(inv')
  BY <1>1, <1>4 DEF OnlyStored, FieldOf
<1>7. \A w : SpawnWave(w) => Marked(inv')
  BY <1>2, <1>3, EntityFacts DEF SpawnWave, Free
<1>8. \A i \in Ids : InWorld(i) => i \in FieldOf(inv)
  BY DEF InWorld, FieldOf, Tally, NoNets
<1> HIDE DEF Marked
<1>9. ASSUME NEW i \in FieldOf(inv), NEW d \in Nat, NEW n \in Nat, inv[i].hp > d,
             inv[i].hp > d => inv[i].hp - n \in Points,
             inv' = [inv EXCEPT ![i] = Hurt(inv[i], n)]
      PROVE  Marked(inv')
  <2>1. i \in Ids /\ inv[i] \in Entity /\ inv[i].hp \in Nat /\ inv[i].hp - n \in Points
    BY <1>1, <1>9 DEF FieldOf, Entity
  <2>2. inv[i].hp > n
    BY <2>1
  <2>3. Hurt(inv[i], n) \in Entity /\ Hurt(inv[i], n).hp = inv[i].hp - n
    BY <2>1, <2>2, HurtType DEF Hurt, Entity
  <2> QED BY <1>2, <1>9, <2>1, <2>3
<1>10. ASSUME NEW i \in Ids, NEW d \in Punches, Punch(i, d) PROVE Marked(inv')
  <2>1. d \in Nat /\ 2 * d \in Nat /\ i \in FieldOf(inv) /\ inv[i].hp \in Points
    BY <1>1, <1>8, <1>10, MatchAssumption DEF Punch, Marked
  <2>2. inv[i].hp > d => inv[i].hp - 2 * d \in Points
    BY <2>1 DEF WholeBlows
  <2>3. \/ inv' = [inv EXCEPT ![i] = Absent]
        \/ inv[i].hp > d /\ inv' = [inv EXCEPT ![i] = Hurt(inv[i], 2 * d)]
    BY <1>10 DEF Punch
  <2> QED BY <1>2, <1>4, <1>9, <2>1, <2>2, <2>3
<1>11. ASSUME NEW i \in Ids, NEW d \in Traps, TrapHit(i, d) PROVE Marked(inv')
  <2>1. d \in Nat /\ i \in FieldOf(inv) /\ inv[i].hp \in Points
    BY <1>1, <1>8, <1>11, MatchAssumption DEF TrapHit, Marked
  <2>2. inv[i].hp > d => inv[i].hp - d \in Points
    BY <2>1 DEF WholeBlows
  <2>3. \/ inv' = [inv EXCEPT ![i] = Absent]
        \/ inv[i].hp > d /\ inv' = [inv EXCEPT ![i] = Hurt(inv[i], d)]
    BY <1>11 DEF TrapHit
  <2> QED BY <1>2, <1>4, <1>9, <2>1, <2>2, <2>3
<1>12. ASSUME NEW i \in Ids, Summon(i) PROVE Marked(inv')
  <2>1. PICK S \in SUBSET Free :
          inv' = [j \in Ids |-> IF j \in S THEN Fresh("runner") ELSE inv[j]]
    BY <1>12 DEF Summon
  <2> QED BY <1>1, <1>3, <2>1, EntityFacts DEF FieldOf, Marked
<1>13. ASSUME NEW i \in Ids, Unload(i) PROVE Marked(inv')
  <2> DEFINE e == [inv[i] EXCEPT !.st = "stored"]
  <2>1. i \in FieldOf(inv) /\ inv[i].hp \in Points /\ inv[i] \in Entity
    BY <1>1, <1>8, <1>13 DEF Unload, Marked
  <2>2. e \in Entity /\ e.hp \in Points
    BY <2>1 DEF Entity
  <2>3. inv' = [inv EXCEPT ![i] = e] \/ inv' = [inv EXCEPT ![i] = Absent]
    BY <1>13 DEF Unload
  <2> HIDE DEF e
  <2> QED BY <1>2, <1>4, <2>2, <2>3
<1>14. ASSUME NEW i \in Ids, Reload(i) PROVE Marked(inv')
  <2>1. inv[i].hp \in Points
    BY <1>1, <1>14 DEF Reload, FieldOf, Marked
  <2>2. PICK j \in Ids :
          inv' = [inv EXCEPT ![i] = Absent,
                             ![j] = [st |-> "live", kind |-> inv[i].kind, hp |-> inv[i].hp]]
    BY <1>14 DEF Reload, Free
  <2> QED BY <1>1, <2>1, <2>2 DEF FieldOf, Absent, Marked
<1>15. CASE Restart
  <2>1. inv' = [i \in Ids |-> IF InWorld(i) THEN [inv[i] EXCEPT !.st = "stored"] ELSE inv[i]]
    BY <1>15 DEF Restart
  <2>2. \A i \in Ids : inv'[i].hp = inv[i].hp /\ (inv'[i].st \in {"live", "stored"} => i \in FieldOf(inv))
    BY <1>1, <1>8, <2>1 DEF FieldOf, Entity
  <2> QED BY <1>1, <2>2 DEF FieldOf, Marked
<1>16. ASSUME NEW c \in chains, SpawnNext(c) PROVE Marked(inv')
  <2>1. inv' = inv \/ \E i \in Ids, k \in Kinds : inv' = [inv EXCEPT ![i] = Fresh(k)]
    <3>1. c.wave \in 1..Waves
      BY Known DEF Chain
    <3> QED BY <3>1, <1>16, Constants, EntityFacts DEF SpawnNext, Free
  <2> QED BY <1>2, <1>3, <1>5, <2>1
<1>17. CASE Players
  <2>1. ASSUME NEW i \in Ids, Capture(i) PROVE FALSE
    BY <2>1 DEF Capture
  <2> QED BY <1>17, <2>1, <1>5, <1>7, <1>10 DEF Players, PressStart, RepairDoor, ReadDoor
<1>18. CASE Invaders
  <2>1. ASSUME NEW i \in Ids, NEW d \in Strikes,
               HitDoor(i, d) \/ BreakDoorOutsideRun(i, d) \/ BreakDoor(i, d)
        PROVE  inv' \in {inv, OnlyStored}
    BY <2>1 DEF HitDoor, BreakDoorOutsideRun, BreakDoor, StopWaves
  <2> QED BY <1>18, <2>1, <1>5, <1>6, <1>11, <1>12 DEF Invaders
<1>19. CASE Engine
  BY <1>19, <1>5, <1>13, <1>14 DEF Engine, Stop
<1>20. CASE Callbacks
  <2>1. ASSUME NEW i \in Ids, Deport(i) PROVE FALSE
    BY <2>1 DEF Deport, Tally, NoNets, NoJob
  <2>2. CASE NextWave
    BY <2>2, <1>5, <1>7 DEF NextWave
  <2>3. CASE ResetWorld \/ ClearWorld \/ BackToLobby
    BY <2>3, <1>5, <1>6 DEF ResetWorld, ClearWorld, BackToLobby, StopWaves
  <2> QED BY <1>20, <2>1, <2>2, <2>3, <1>16 DEF Callbacks
<1>21. CASE Tick \/ UNCHANGED vars
  BY <1>21, <1>5 DEF Tick, vars
<1> QED BY <1>15, <1>17, <1>18, <1>19, <1>20, <1>21 DEF Next

LEMMA TallyInit == ASSUME Init PROVE Tally /\ CountIsExact /\ FieldOf(inv) = {}
<1>1. /\ proc = "up" /\ state = "LOBBY" /\ chains = {} /\ pipe = [i \in Ids |-> NoJob]
      /\ inv = [i \in Ids |-> Absent]
  BY DEF Init
<1>2. NoNets /\ FieldOf(inv) = {}
  BY <1>1 DEF NoNets, FieldOf, Absent
<1> QED BY <1>1, <1>2 DEF Tally, Enough, Spawning, OneSpawnerIn, Deserted, CountIsExact

\* Without nets a wave is never cleared while one of its invaders is on the field,
\* unloaded or still to come, whatever blows, traps, summoners, unloading and lost
\* map blocks do: alive_count may be too high, never too low (tgw_waves
\* on_invader_gone, 221-266).  It takes that no invader of an earlier run is left
\* when START is pressed.
THEOREM NobodyForgotten ==
  ASSUME "net" \notin Perils, NoStrays
  PROVE  Spec => []Enough
<1>1. Init => Tally
  BY TallyInit
<1>2. IInv /\ IInv' /\ Tally /\ [Next]_vars => Tally'
  BY TallyStep
<1>3. Tally => Enough
  BY DEF Tally
<1> QED BY <1>1, <1>2, <1>3, Invariance, PTL DEF Spec

\* CountIsExact: when moreover no invader is lost with its map block and no blow
\* leaves an invader at most the blow's own damage, alive_count is exactly the
\* number of invaders still to be dealt with, so that every wave can be cleared,
\* and only by dealing with all of them.
THEOREM CountsExactly ==
  ASSUME "net" \notin Perils, "ungenerated" \notin Perils, NoStrays,
         NEW Points \in SUBSET (Nat \ {0}), WholeBlows(Points)
  PROVE  Spec => []CountIsExact
<1> DEFINE Marked == \A i \in FieldOf(inv) : inv[i].hp \in Points
           Sum == Tally /\ CountIsExact /\ Marked
<1>1. Init => Sum
  BY TallyInit
<1>2. IInv /\ IInv' /\ Sum /\ [Next]_vars => Sum'
  <2> SUFFICES ASSUME IInv, IInv', Tally, CountIsExact, Marked, [Next]_vars
               PROVE  Sum'
    OBVIOUS
  <2>1. NoLoss
    <3>1. ASSUME NEW i \in FieldOf(inv), NEW d \in Punches, inv[i].hp > d
          PROVE  inv[i].hp > 2 * d
      <4>1. inv[i].hp \in Points /\ inv[i].hp - 2 * d \in Points
        BY <3>1 DEF WholeBlows
      <4>2. d \in Nat
        BY MatchAssumption
      <4>3. \A p \in Points : p \in Nat /\ p > 0
        OBVIOUS
      <4>4. inv[i].hp \in Nat /\ inv[i].hp - 2 * d > 0
        BY <4>1, <4>3
      <4> QED BY <4>2, <4>4
    <3> QED BY <3>1 DEF NoLoss
  <2>2. Tally' /\ CountIsExact'
    BY <2>1, TallyStep
  <2>3. Marked'
    BY PointsStep
  <2> QED BY <2>2, <2>3
<1>3. Sum => CountIsExact
  OBVIOUS
<1> HIDE DEF Sum
<1> QED BY <1>1, <1>2, <1>3, Invariance, PTL DEF Spec
=============================================================================
