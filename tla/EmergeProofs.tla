----------------------------- MODULE EmergeProofs -----------------------------
(***************************************************************************)
(* Theorems about Emerge, for any number of threads, blocks, peers and      *)
(* requests and any sets of perils. The queue is one invariant, IQueue; what *)
(* the threads make, whom they answer and what stays in memory each have one *)
(* of their own.                                                             *)
(***************************************************************************)
EXTENDS Emerge, FiniteSetTheorems, TLAPS

EntryType == [peer : Peers \cup {None}, gen : BOOLEAN, calls : SUBSET Requests]
JobType == [pos : Blocks, gen : BOOLEAN]
Where == {"start", "top", "asleep", "look", "read", "decide", "make", "call",
          "shutdown", "cancel", "ended"}

(* The parts of TypeOK. *)
QueueTypes ==
  /\ entry \in [Blocks -> EntryType]
  /\ count \in [Peers -> Nat]
  /\ queue \in [Threads -> Seq(Blocks)]
ThreadTypes ==
  /\ signalled \subseteq Threads
  /\ mutex \in Threads \cup {Free} /\ env \in Threads \cup {Free, Server}
  /\ at \in [Threads -> Where] /\ job \in [Threads -> JobType]
  /\ held \in [Threads -> SUBSET Requests] /\ blob \in [Threads -> Copy]
MapTypes ==
  /\ mem \in [Blocks -> Copy] /\ disk \in [Blocks -> Copy] /\ dirty \subseteq Blocks
  /\ refs \in [Blocks -> Int]
  /\ making \subseteq {ChunkOf[b] : b \in Blocks}
RunTypes ==
  /\ perils \in Worlds
  /\ asked \in 0..MaxAreas /\ asks \in 0..MaxAsks[perils] /\ called \in [Requests -> Nat]
  /\ fatal \in BOOLEAN /\ open \in BOOLEAN /\ stopped \subseteq Threads

LEMMA TypeParts == TypeOK <=> QueueTypes /\ ThreadTypes /\ MapTypes /\ RunTypes
BY DEF TypeOK, QueueTypes, ThreadTypes, MapTypes, RunTypes, EntryType, JobType, Where

LEMMA Copies == NoCopy \in Copy /\ Blank \in Copy /\ Generated \in Copy
BY DEF Copy

LEMMA IdleType == Idle \in JobType
<1>1. \E b \in Blocks : TRUE
  BY EmergeAssumption DEF EmergeAssumption
<1>2. (CHOOSE b \in Blocks : TRUE) \in Blocks
  BY <1>1
<1> QED BY <1>2 DEF Idle, JobType

LEMMA NoEntryType == NoEntry \in EntryType /\ NoEntry.peer = None /\ NoEntry.calls = {}
BY DEF NoEntry, EntryType

-----------------------------------------------------------------------------
(* The queue *)

\* Where there is no entry nobody waits for its callbacks.
EntryShape == \A b \in Blocks : entry[b].peer = None => entry[b].calls = {}

IQueue == QueueTypes /\ EntryShape /\ QueuedOnce /\ PeerCountExact

AskedBy(p) == {b \in Blocks : entry[b].peer = p}

LEMMA FiniteAsked ==
  ASSUME NEW p PROVE IsFiniteSet(AskedBy(p)) /\ Cardinality(AskedBy(p)) \in Nat
<1>1. AskedBy(p) \subseteq Blocks /\ IsFiniteSet(Blocks)
  BY EmergeAssumption DEF AskedBy, EmergeAssumption
<1>2. IsFiniteSet(AskedBy(p))
  BY <1>1, FS_Subset
<1> QED BY <1>2, FS_CardinalityType

\* A position that has an entry gets no other, nor a place in a queue.
LEMMA EnqueueKeeps ==
  ASSUME IQueue, NEW b \in Blocks, NEW p \in Peers, NEW gen \in BOOLEAN,
         NEW calls \in SUBSET Requests, Enqueue(b, p, gen, calls)
  PROVE  IQueue'
<1>0. p # None /\ \A q \in Peers : q # None
  BY EmergeAssumption DEF EmergeAssumption
<1> DEFINE e == [peer |-> IF b \in Queued THEN entry[b].peer ELSE p,
                gen |-> entry[b].gen \/ gen,
                calls |-> entry[b].calls \cup calls]
<1>1. /\ entry \in [Blocks -> EntryType] /\ count \in [Peers -> Nat]
      /\ queue \in [Threads -> Seq(Blocks)]
  BY DEF IQueue, QueueTypes
<1>2. entry' = [entry EXCEPT ![b] = e] /\ count' = Counted(b, p)
  BY DEF Enqueue
<1>3. entry[b] \in EntryType
  BY <1>1
<1>4. e \in EntryType /\ e.peer # None
  BY <1>0, <1>3 DEF EntryType, Queued
<1>5. /\ entry' \in [Blocks -> EntryType] /\ entry'[b] = e
      /\ \A c \in Blocks : c # b => entry'[c] = entry[c]
  BY <1>1, <1>2, <1>4
<1>6. Queued' = Queued \cup {b}
  BY <1>4, <1>5 DEF Queued
<1>7. EntryShape'
  <2>1. \A c \in Blocks : entry[c].peer = None => entry[c].calls = {}
    BY DEF IQueue, EntryShape
  <2> HIDE DEF e
  <2>2. \A c \in Blocks : entry'[c].peer = None => c # b
    BY <1>4, <1>5
  <2> QED BY <1>5, <2>1, <2>2 DEF EntryShape
<1>8. CASE b \in Queued
  <2>1. queue' = queue /\ count' = count /\ Queued' = Queued
    BY <1>2, <1>6, <1>8 DEF Enqueue, Pushed, Counted
  <2>2. e.peer = entry[b].peer
    BY <1>3, <1>8 DEF EntryType
  <2>3. \A c \in Blocks : entry'[c].peer = entry[c].peer
    BY <1>5, <2>2
  <2>4. QueuedOnce'
    BY <2>1 DEF IQueue, QueuedOnce
  <2>5. PeerCountExact'
    <3>1. \A q \in Peers : AskedBy(q)' = AskedBy(q)
      BY <2>3 DEF AskedBy
    <3> QED BY <2>1, <3>1 DEF IQueue, PeerCountExact, AskedBy
  <2> QED BY <1>1, <1>5, <1>7, <2>1, <2>4, <2>5 DEF IQueue, QueueTypes
<1>9. CASE b \notin Queued
  <2>1. PICK t \in Threads : queue' = [queue EXCEPT ![t] = Append(@, b)]
    BY <1>9 DEF Enqueue, Pushed
  <2> DEFINE n == Len(queue[t])
  <2>2. queue[t] \in Seq(Blocks) /\ n \in Nat
    BY <1>1
  <2>3. /\ queue' \in [Threads -> Seq(Blocks)] /\ queue'[t] = Append(queue[t], b)
        /\ \A u \in Threads : u # t => queue'[u] = queue[u]
    BY <1>1, <2>1, <2>2
  <2>4. /\ DOMAIN queue[t] = 1..n /\ DOMAIN queue'[t] = 1..(n + 1) /\ queue'[t][n + 1] = b
        /\ \A i \in 1..n : queue'[t][i] = queue[t][i]
    BY <2>2, <2>3
  <2>5. /\ \A u \in Threads : \A i \in DOMAIN queue[u] : queue[u][i] \in Queued
        /\ \A c \in Queued : \E u \in Threads : \E i \in DOMAIN queue[u] : queue[u][i] = c
        /\ \A u, v \in Threads : \A i \in DOMAIN queue[u], j \in DOMAIN queue[v] :
             queue[u][i] = queue[v][j] => u = v /\ i = j
    BY DEF IQueue, QueuedOnce
  <2> HIDE DEF n
  \* Each place is an old one or the new one.
  <2>6. ASSUME NEW u \in Threads, NEW i \in DOMAIN queue'[u]
        PROVE  \/ i \in DOMAIN queue[u] /\ queue'[u][i] = queue[u][i]
               \/ u = t /\ i = n + 1 /\ queue'[u][i] = b
    BY <2>2, <2>3, <2>4
  <2>7. ASSUME NEW u \in Threads, NEW i \in DOMAIN queue[u]
        PROVE  i \in DOMAIN queue'[u] /\ queue'[u][i] = queue[u][i]
    BY <2>2, <2>3, <2>4
  <2>8. \A u \in Threads : \A i \in DOMAIN queue'[u] : queue'[u][i] \in Queued'
    BY <1>6, <2>5, <2>6
  <2>9. \A c \in Queued' : \E u \in Threads : \E i \in DOMAIN queue'[u] : queue'[u][i] = c
    <3> SUFFICES ASSUME NEW c \in Queued'
                 PROVE  \E u \in Threads : \E i \in DOMAIN queue'[u] : queue'[u][i] = c
      OBVIOUS
    <3>1. CASE c = b
      <4>1. n + 1 \in DOMAIN queue'[t]
        BY <2>2, <2>4
      <4> QED BY <3>1, <4>1, <2>4
    <3>2. CASE c \in Queued
      BY <3>2, <2>5, <2>7
    <3> QED BY <3>1, <3>2, <1>6
  <2>10. \A u, v \in Threads : \A i \in DOMAIN queue'[u], j \in DOMAIN queue'[v] :
           queue'[u][i] = queue'[v][j] => u = v /\ i = j
    BY <1>9, <2>5, <2>6
  <2>11. QueuedOnce'
    BY <2>8, <2>9, <2>10 DEF QueuedOnce
  <2>12. count' = [count EXCEPT ![p] = @ + 1]
    BY <1>2, <1>9 DEF Counted
  <2>13. entry[b].peer = None /\ e.peer = p
    BY <1>9 DEF Queued
  <2>14. PeerCountExact'
    <3> SUFFICES ASSUME NEW q \in Peers PROVE count'[q] = Cardinality(AskedBy(q)')
      BY DEF PeerCountExact, AskedBy
    <3>1. count[q] = Cardinality(AskedBy(q)) /\ b \notin AskedBy(q)
      BY <1>0, <2>13 DEF IQueue, PeerCountExact, AskedBy
    <3>2. CASE q = p
      <4>1. AskedBy(q)' = AskedBy(q) \cup {b}
        BY <3>2, <1>5, <2>13 DEF AskedBy
      <4>2. Cardinality(AskedBy(q) \cup {b}) = Cardinality(AskedBy(q)) + 1
        BY <3>1, FiniteAsked, FS_AddElement
      <4> QED BY <1>1, <2>12, <3>1, <3>2, <4>1, <4>2
    <3>3. CASE q # p
      <4>1. AskedBy(q)' = AskedBy(q)
        BY <3>3, <1>0, <1>5, <2>13 DEF AskedBy
      <4> QED BY <1>1, <2>12, <3>1, <3>3, <4>1
    <3> QED BY <3>2, <3>3
  <2>15. count' \in [Peers -> Nat]
    BY <1>1, <2>12
  <2> QED BY <1>5, <1>7, <2>3, <2>11, <2>14, <2>15 DEF IQueue, QueueTypes
<1> QED BY <1>8, <1>9

\* The position popped has an entry, and goes from both structures.
LEMMA PopKeeps ==
  ASSUME IQueue, NEW t \in Threads, queue[t] # <<>>, PopFirst(t)
  PROVE  IQueue' /\ Head(queue[t]) \in Queued
<1> DEFINE b == Head(queue[t])
           n == Len(queue[t])
           p == entry[b].peer
<1>1. /\ entry \in [Blocks -> EntryType] /\ count \in [Peers -> Nat]
      /\ queue \in [Threads -> Seq(Blocks)]
  BY DEF IQueue, QueueTypes
<1>2. queue[t] \in Seq(Blocks) /\ n \in Nat /\ n > 0 /\ b \in Blocks /\ b = queue[t][1]
  BY <1>1
<1>3. /\ queue' = [queue EXCEPT ![t] = Tail(@)]
      /\ entry' = [entry EXCEPT ![b] = NoEntry]
      /\ count' = [count EXCEPT ![p] = @ - 1]
  BY DEF PopFirst
<1>4. /\ Tail(queue[t]) \in Seq(Blocks) /\ DOMAIN Tail(queue[t]) = 1..(n - 1)
      /\ DOMAIN queue[t] = 1..n /\ 1 \in DOMAIN queue[t]
      /\ \A i \in 1..(n - 1) : Tail(queue[t])[i] = queue[t][i + 1]
  BY <1>2
<1>5. /\ queue' \in [Threads -> Seq(Blocks)] /\ queue'[t] = Tail(queue[t])
      /\ \A u \in Threads : u # t => queue'[u] = queue[u]
  BY <1>1, <1>3, <1>4
<1>6. /\ \A u \in Threads : \A i \in DOMAIN queue[u] : queue[u][i] \in Queued
      /\ \A c \in Queued : \E u \in Threads : \E i \in DOMAIN queue[u] : queue[u][i] = c
      /\ \A u, v \in Threads : \A i \in DOMAIN queue[u], j \in DOMAIN queue[v] :
           queue[u][i] = queue[v][j] => u = v /\ i = j
  BY DEF IQueue, QueuedOnce
<1> HIDE DEF b, n, p
<1>7. b \in Queued
  BY <1>2, <1>4, <1>6
<1>8. p \in Peers
  BY <1>1, <1>2, <1>7 DEF p, Queued, EntryType
<1>9. /\ entry' \in [Blocks -> EntryType] /\ entry'[b] = NoEntry
      /\ \A c \in Blocks : c # b => entry'[c] = entry[c]
  BY <1>1, <1>2, <1>3, NoEntryType
<1>10. Queued' = Queued \ {b}
  BY <1>9, NoEntryType DEF Queued
<1>11. EntryShape'
  <2>1. \A c \in Blocks : entry[c].peer = None => entry[c].calls = {}
    BY DEF IQueue, EntryShape
  <2> QED BY <1>9, <2>1, NoEntryType DEF EntryShape
\* Each place left is one of before, the next one in the thread's own queue.
<1>12. ASSUME NEW u \in Threads, NEW i \in DOMAIN queue'[u]
       PROVE  IF u = t THEN i \in Nat /\ i + 1 \in DOMAIN queue[t] /\ i + 1 # 1
                            /\ queue'[u][i] = queue[t][i + 1]
                       ELSE i \in DOMAIN queue[u] /\ queue'[u][i] = queue[u][i]
  <2>1. CASE u = t
    <3>1. i \in 1..(n - 1)
      BY <2>1, <1>4, <1>5
    <3>2. i \in Nat /\ i + 1 \in 1..n /\ i + 1 # 1
      BY <3>1, <1>2
    <3>3. queue'[u][i] = queue[t][i + 1]
      BY <3>1, <2>1, <1>4, <1>5
    <3> QED BY <2>1, <3>2, <3>3, <1>4
  <2>2. CASE u # t
    BY <2>2, <1>5
  <2> QED BY <2>1, <2>2
<1>13. ASSUME NEW u \in Threads, NEW i \in DOMAIN queue'[u]
       PROVE  queue'[u][i] \in Queued /\ queue'[u][i] # b
  <2>1. CASE u = t
    BY <2>1, <1>2, <1>4, <1>6, <1>12
  <2>2. CASE u # t
    BY <2>2, <1>2, <1>4, <1>6, <1>12
  <2> QED BY <2>1, <2>2
<1>14. ASSUME NEW c \in Queued'
       PROVE  \E u \in Threads : \E i \in DOMAIN queue'[u] : queue'[u][i] = c
  <2>1. c \in Queued /\ c # b
    BY <1>10
  <2>2. PICK u \in Threads : \E i \in DOMAIN queue[u] : queue[u][i] = c
    BY <2>1, <1>6
  <2>3. PICK i \in DOMAIN queue[u] : queue[u][i] = c
    BY <2>2
  <2>4. CASE u # t
    BY <2>4, <2>3, <1>5
  <2>5. CASE u = t
    <3>1. i \in 1..n /\ i # 1
      BY <2>1, <2>3, <2>5, <1>2, <1>4
    <3>2. i - 1 \in 1..(n - 1) /\ (i - 1) + 1 = i
      BY <3>1, <1>2
    <3>3. queue'[t][i - 1] = c /\ i - 1 \in DOMAIN queue'[t]
      BY <3>2, <2>3, <2>5, <1>4, <1>5
    <3> QED BY <3>3
  <2> QED BY <2>4, <2>5
<1>15. ASSUME NEW u \in Threads, NEW v \in Threads,
              NEW i \in DOMAIN queue'[u], NEW j \in DOMAIN queue'[v],
              queue'[u][i] = queue'[v][j]
       PROVE  u = v /\ i = j
  <2>1. CASE u = t /\ v = t
    <3>1. /\ i \in Nat /\ i + 1 \in DOMAIN queue[t] /\ queue'[u][i] = queue[t][i + 1]
          /\ j \in Nat /\ j + 1 \in DOMAIN queue[t] /\ queue'[v][j] = queue[t][j + 1]
      BY <2>1, <1>12
    <3>2. \A x, y \in DOMAIN queue[t] : queue[t][x] = queue[t][y] => x = y
      BY <1>6
    <3>3. queue[t][i + 1] = queue[t][j + 1]
      BY <3>1, <1>15
    <3>4. i + 1 = j + 1
      BY <3>1, <3>2, <3>3
    <3> QED BY <2>1, <3>1, <3>4
  <2>2. CASE u = t /\ v # t
    BY <2>2, <1>6, <1>12, <1>15
  <2>3. CASE u # t /\ v = t
    BY <2>3, <1>6, <1>12, <1>15
  <2>4. CASE u # t /\ v # t
    BY <2>4, <1>6, <1>12, <1>15
  <2> QED BY <2>1, <2>2, <2>3, <2>4
<1>16. QueuedOnce'
  <2>1. \A u \in Threads : \A i \in DOMAIN queue'[u] : queue'[u][i] \in Queued'
    BY <1>10, <1>13
  <2> QED BY <2>1, <1>14, <1>15 DEF QueuedOnce
<1>17. ASSUME NEW q \in Peers PROVE count'[q] = Cardinality(AskedBy(q)')
  <2>1. count[q] = Cardinality(AskedBy(q)) /\ None # q
    BY EmergeAssumption DEF IQueue, PeerCountExact, AskedBy, EmergeAssumption
  <2>2. CASE q = p
    <3>1. AskedBy(q)' = AskedBy(q) \ {b} /\ b \in AskedBy(q)
      BY <1>2, <1>9, <2>1, <2>2, NoEntryType DEF AskedBy, p
    <3>2. Cardinality(AskedBy(q) \ {b}) = Cardinality(AskedBy(q)) - 1
      BY <3>1, FiniteAsked, FS_RemoveElement
    <3> QED BY <1>1, <1>3, <2>1, <2>2, <3>1, <3>2
  <2>3. CASE q # p
    <3>1. AskedBy(q)' = AskedBy(q)
      BY <1>2, <1>9, <2>1, <2>3, NoEntryType DEF AskedBy, p
    <3> QED BY <1>1, <1>3, <2>1, <2>3, <3>1
  <2> QED BY <2>2, <2>3
<1>18. PeerCountExact'
  BY <1>17 DEF PeerCountExact, AskedBy
<1>19. count' \in [Peers -> Nat]
  <2>1. ASSUME NEW q \in Peers PROVE Cardinality(AskedBy(q)') \in Nat
    <3>1. AskedBy(q)' \subseteq Blocks /\ IsFiniteSet(Blocks)
      BY EmergeAssumption DEF AskedBy, EmergeAssumption
    <3>2. IsFiniteSet(AskedBy(q)')
      BY <3>1, FS_Subset
    <3> QED BY <3>2, FS_CardinalityType
  <2>2. \A q \in Peers : count'[q] \in Nat
    BY <1>17, <2>1
  <2>3. count' = [q \in Peers |-> count'[q]]
    BY <1>1, <1>3, <1>8
  <2> QED BY <2>2, <2>3
<1> QED BY <1>5, <1>7, <1>9, <1>11, <1>16, <1>18, <1>19 DEF IQueue, QueueTypes, b

-----------------------------------------------------------------------------
(* The steps *)

LEMMA StepCases ==
  ASSUME Next
  PROVE  \/ \E b \in Blocks, p \in Peers, gen \in BOOLEAN : Ask(b, p, gen)
         \/ AskArea \/ AskBlocked \/ AskRefused \/ Close \/ Save
         \/ \E b \in Blocks : Load(b) \/ Unload(b)
         \/ \E t \in Threads : StopThread(t) \/ Start(t) \/ Top(t) \/ Wake(t) \/ Look(t)
         \/ \E t \in Threads : Read(t) \/ Decide(t) \/ LoadFails(t) \/ MakeFails(t)
         \/ \E t \in Threads : FinishGen(t) \/ CancelMake(t)
         \/ \E t \in Threads : \E r \in held[t] : Call(t, r) \/ CallAndAsk(t, r)
         \/ \E t \in Threads : CallBlocked(t) \/ Shutdown(t) \/ Cancel(t)
BY DEF Next, Step

\* What a step does to the queue: one position more, one less, or nothing.
LEMMA QueueSteps ==
  ASSUME TypeOK, Next
  PROVE  \/ \E b \in Blocks, p \in Peers, gen \in BOOLEAN, calls \in SUBSET Requests :
              Enqueue(b, p, gen, calls)
         \/ \E t \in Threads : queue[t] # <<>> /\ PopFirst(t)
         \/ UNCHANGED <<entry, count, queue>>
<1>0. asked \in 0..MaxAreas /\ MaxAreas \in Nat /\ Nobody \in Peers
  BY EmergeAssumption DEF TypeOK, EmergeAssumption
<1>1. ASSUME EmergeArea
      PROVE  \E b \in Blocks, p \in Peers, gen \in BOOLEAN, calls \in SUBSET Requests :
               Enqueue(b, p, gen, calls)
  <2>1. asked' \in Requests
    BY <1>0, <1>1 DEF EmergeArea, Requests
  <2>2. {asked'} \in SUBSET Requests /\ TRUE \in BOOLEAN
    BY <2>1
  <2>3. PICK b \in Blocks : Enqueue(b, Nobody, TRUE, {asked'})
    BY <1>1 DEF EmergeArea
  <2> QED BY <1>0, <2>2, <2>3
<1>2. ASSUME NEW b \in Blocks, NEW p \in Peers, NEW gen \in BOOLEAN, Ask(b, p, gen)
      PROVE  \E calls \in SUBSET Requests : Enqueue(b, p, gen, calls)
  <2>1. Enqueue(b, p, gen, {}) /\ {} \in SUBSET Requests
    BY <1>2 DEF Ask
  <2> QED BY <2>1
<1>3. AskArea => EmergeArea
  BY DEF AskArea
<1>4. ASSUME NEW t \in Threads, NEW r \in held[t], CallAndAsk(t, r) PROVE EmergeArea
  BY <1>4 DEF CallAndAsk
<1>5. ASSUME AskBlocked \/ AskRefused \/ Close \/ Save PROVE UNCHANGED <<entry, count, queue>>
  BY <1>5 DEF AskBlocked, AskRefused, Close, Save, Touch, queueVars
<1>6. ASSUME NEW b \in Blocks, Load(b) \/ Unload(b) PROVE UNCHANGED <<entry, count, queue>>
  BY <1>6 DEF Load, Unload, Touch, queueVars
<1>7. ASSUME NEW t \in Threads, Top(t) \/ Cancel(t)
      PROVE  (queue[t] # <<>> /\ PopFirst(t)) \/ UNCHANGED <<entry, count, queue>>
  BY <1>7 DEF Top, Cancel
<1>8. ASSUME NEW t \in Threads,
             \/ StopThread(t) \/ Start(t) \/ Wake(t) \/ Look(t) \/ Read(t) \/ Decide(t)
             \/ LoadFails(t) \/ MakeFails(t) \/ FinishGen(t) \/ CancelMake(t)
             \/ CallBlocked(t) \/ Shutdown(t)
      PROVE  UNCHANGED <<entry, count, queue>>
  BY <1>8 DEF StopThread, Start, Wake, Look, Read, Decide, LoadFails, MakeFails, Fails,
       FinishGen, CancelMake, CallBlocked, Shutdown, queueVars
<1>9. ASSUME NEW t \in Threads, NEW r \in held[t], Call(t, r)
      PROVE  UNCHANGED <<entry, count, queue>>
  BY <1>9 DEF Call, queueVars
<1> QED BY StepCases, <1>1, <1>2, <1>3, <1>4, <1>5, <1>6, <1>7, <1>8, <1>9

LEMMA QueueKept == ASSUME TypeOK, IQueue, [Next]_vars PROVE IQueue'
<1>1. CASE UNCHANGED <<entry, count, queue>>
  BY <1>1 DEF IQueue, QueueTypes, EntryShape, QueuedOnce, PeerCountExact, Queued
<1>2. CASE \E b \in Blocks, p \in Peers, gen \in BOOLEAN, calls \in SUBSET Requests :
             Enqueue(b, p, gen, calls)
  BY <1>2, EnqueueKeeps
<1>3. CASE \E t \in Threads : queue[t] # <<>> /\ PopFirst(t)
  BY <1>3, PopKeeps
<1>4. CASE UNCHANGED vars
  BY <1>1, <1>4 DEF vars, queueVars
<1> QED BY <1>1, <1>2, <1>3, <1>4, QueueSteps

\* One step of a thread changes its own place, position, callbacks and data.
LEMMA ThreadTypesKept == ASSUME TypeOK, IQueue, Next PROVE ThreadTypes'
<1>0. /\ ThreadTypes /\ MapTypes /\ QueueTypes
      /\ at \in [Threads -> Where] /\ job \in [Threads -> JobType]
      /\ held \in [Threads -> SUBSET Requests] /\ blob \in [Threads -> Copy]
  BY TypeParts DEF ThreadTypes
<1>1. \A t \in Threads : queue[t] # <<>> => Head(queue[t]) \in Blocks
  BY <1>0 DEF QueueTypes
<1>2. ASSUME NEW t \in Threads, NEW left \in SUBSET Requests, Answer(t, left)
      PROVE  at' \in [Threads -> Where] /\ job' \in [Threads -> JobType]
  <2>1. at' \in [Threads -> Where]
    BY <1>0, <1>2 DEF Answer, Go, Where
  <2>2. job' \in [Threads -> JobType]
    BY <1>0, <1>2, IdleType DEF Answer
  <2> QED BY <2>1, <2>2
<1>3. ASSUME NEW t \in Threads, NEW step \in Where, Go(t, step) PROVE at' \in [Threads -> Where]
  BY <1>0, <1>3 DEF Go
<1>4. ASSUME NEW b, NEW p, NEW gen, NEW calls, Enqueue(b, p, gen, calls)
      PROVE  signalled' \subseteq Threads
  BY <1>0, <1>4 DEF Enqueue, Signalled, ThreadTypes
<1>5. ASSUME NEW b \in Blocks, NEW p \in Peers, NEW gen \in BOOLEAN, Ask(b, p, gen)
      PROVE  ThreadTypes'
  BY <1>0, <1>4, <1>5 DEF Ask, ThreadTypes, threadVars
<1>6. ASSUME AskArea \/ AskBlocked \/ AskRefused \/ Close PROVE ThreadTypes'
  BY <1>0, <1>4, <1>6 DEF AskArea, EmergeArea, AskBlocked, AskRefused, Close, ThreadTypes, threadVars, queueVars
<1>7. ASSUME Save \/ \E b \in Blocks : Load(b) \/ Unload(b) PROVE ThreadTypes'
  BY <1>0, <1>7 DEF Save, Load, Unload, Touch, ThreadTypes, threadVars, queueVars
<1>8. ASSUME NEW t \in Threads, StopThread(t) PROVE ThreadTypes'
  BY <1>0, <1>8 DEF StopThread, StopSignal, ThreadTypes, threadVars
<1>9. ASSUME NEW t \in Threads, Start(t) \/ Wake(t) \/ Shutdown(t) PROVE ThreadTypes'
  <2>1. at' \in [Threads -> Where]
    BY <1>3, <1>9 DEF Start, Wake, Shutdown, Where
  <2> QED BY <1>0, <1>9, <2>1 DEF Start, Wake, Shutdown, ThreadTypes, queueVars
<1>10. ASSUME NEW t \in Threads, Top(t) PROVE ThreadTypes'
  <2>1. at' \in [Threads -> Where]
    BY <1>0, <1>3, <1>10 DEF Top, Where
  <2>2. job' \in [Threads -> JobType]
    <3>1. CASE job' = job
      BY <1>0, <3>1
    <3>2. CASE /\ queue[t] # <<>>
               /\ job' = [job EXCEPT ![t] = [pos |-> Head(queue[t]), gen |-> entry[Head(queue[t])].gen]]
      <4>1. Head(queue[t]) \in Blocks /\ entry[Head(queue[t])].gen \in BOOLEAN
        BY <3>2, <1>0, <1>1 DEF QueueTypes, EntryType
      <4>2. [pos |-> Head(queue[t]), gen |-> entry[Head(queue[t])].gen] \in JobType
        BY <4>1 DEF JobType
      <4> QED BY <1>0, <3>2, <4>2
    <3> QED BY <1>10, <3>1, <3>2 DEF Top
  <2>3. held' \in [Threads -> SUBSET Requests]
    BY <1>0, <1>1, <1>10 DEF Top, QueueTypes, EntryType
  <2> QED BY <1>0, <1>10, <2>1, <2>2, <2>3 DEF Top, ThreadTypes
\* StartGen: on to the generator, or the request is answered.
<1>11. ASSUME NEW t \in Threads, NEW m, StartGen(t, m)
       PROVE  at' \in [Threads -> Where] /\ job' \in [Threads -> JobType]
  <2>1. CASE Go(t, "make") /\ job' = job
    BY <1>0, <1>3, <2>1 DEF Where
  <2>2. CASE Answer(t, held[t])
    BY <1>0, <1>2, <2>2
  <2> QED BY <1>11, <2>1, <2>2 DEF StartGen
<1>12. ASSUME NEW t \in Threads, Look(t) PROVE ThreadTypes'
  <2>1. CASE Answer(t, held[t])
    BY <1>0, <1>2, <1>12, <2>1 DEF Look, ThreadTypes, queueVars
  <2>2. CASE Go(t, "read") /\ job' = job
    BY <1>0, <1>3, <1>12, <2>2 DEF Look, ThreadTypes, queueVars, Where
  <2>3. CASE StartGen(t, mem)
    BY <1>0, <1>11, <1>12, <2>3 DEF Look, ThreadTypes, queueVars
  <2> QED BY <1>12, <2>1, <2>2, <2>3 DEF Look
<1>13. ASSUME NEW t \in Threads, Read(t) PROVE ThreadTypes'
  <2>1. at' \in [Threads -> Where]
    BY <1>3, <1>13 DEF Read, Where
  <2>2. blob' \in [Threads -> Copy]
    BY <1>0, <1>13 DEF Read, MapTypes, JobType
  <2> QED BY <1>0, <1>13, <2>1, <2>2 DEF Read, ThreadTypes, queueVars
<1>14. ASSUME NEW t \in Threads, Decide(t) PROVE ThreadTypes'
  <2>1. blob' \in [Threads -> Copy]
    BY <1>0, <1>14, Copies DEF Decide
  <2>2. CASE Answer(t, held[t])
    BY <1>0, <1>2, <1>14, <2>1, <2>2 DEF Decide, ThreadTypes, queueVars
  <2>3. CASE StartGen(t, Fetched(t))
    BY <1>0, <1>11, <1>14, <2>1, <2>3 DEF Decide, ThreadTypes, queueVars
  <2> QED BY <1>14, <2>2, <2>3 DEF Decide
<1>15. ASSUME NEW t \in Threads, LoadFails(t) \/ MakeFails(t) PROVE ThreadTypes'
  <2>1. Fails(t)
    BY <1>15 DEF LoadFails, MakeFails
  <2>2. at' \in [Threads -> Where]
    BY <1>3, <2>1 DEF Fails, Where
  <2>3. job' \in [Threads -> JobType]
    BY <1>0, <2>1, IdleType DEF Fails
  <2>4. held' \in [Threads -> SUBSET Requests]
    BY <1>0, <2>1 DEF Fails
  <2>5. blob' \in [Threads -> Copy]
    BY <1>0, <2>1, Copies DEF Fails
  <2> QED BY <1>0, <2>1, <2>2, <2>3, <2>4, <2>5 DEF Fails, ThreadTypes, queueVars
<1>16. ASSUME NEW t \in Threads, FinishGen(t) \/ CancelMake(t) PROVE ThreadTypes'
  <2>1. Answer(t, held[t])
    BY <1>16 DEF FinishGen, CancelMake
  <2> QED BY <1>0, <1>2, <1>16, <2>1 DEF FinishGen, CancelMake, ThreadTypes, queueVars
<1>17. ASSUME NEW t \in Threads, NEW r \in held[t], Called(t, r)
       PROVE  /\ at' \in [Threads -> Where] /\ job' \in [Threads -> JobType]
              /\ held' \in [Threads -> SUBSET Requests]
  <2>1. held' \in [Threads -> SUBSET Requests] /\ held'[t] \in SUBSET Requests
    BY <1>0, <1>17 DEF Called, Uncalled
  <2> QED BY <1>0, <1>2, <1>17, <2>1 DEF Called
<1>18. ASSUME NEW t \in Threads, NEW r \in held[t], Call(t, r) PROVE ThreadTypes'
  BY <1>0, <1>17, <1>18 DEF Call, ThreadTypes, queueVars
<1>19. ASSUME NEW t \in Threads, NEW r \in held[t], CallAndAsk(t, r) PROVE ThreadTypes'
  BY <1>0, <1>4, <1>17, <1>19 DEF CallAndAsk, EmergeArea, ThreadTypes
<1>20. ASSUME NEW t \in Threads, CallBlocked(t) PROVE ThreadTypes'
  BY <1>0, <1>20 DEF CallBlocked, ThreadTypes, threadVars, queueVars
<1>21. ASSUME NEW t \in Threads, Cancel(t) PROVE ThreadTypes'
  <2>1. at' \in [Threads -> Where]
    BY <1>0, <1>3, <1>21 DEF Cancel, Where
  <2>2. held' \in [Threads -> SUBSET Requests]
    BY <1>0, <1>1, <1>21 DEF Cancel, QueueTypes, EntryType
  <2> QED BY <1>0, <1>21, <2>1, <2>2 DEF Cancel, ThreadTypes
<1> QED BY StepCases, <1>5, <1>6, <1>7, <1>8, <1>9, <1>10, <1>12, <1>13, <1>14, <1>15,
             <1>16, <1>18, <1>19, <1>20, <1>21

LEMMA MapTypesKept == ASSUME TypeOK, Next PROVE MapTypes'
<1>0. /\ MapTypes /\ ThreadTypes
      /\ mem \in [Blocks -> Copy] /\ disk \in [Blocks -> Copy] /\ dirty \subseteq Blocks
      /\ refs \in [Blocks -> Int] /\ making \subseteq {ChunkOf[b] : b \in Blocks}
      /\ job \in [Threads -> JobType] /\ blob \in [Threads -> Copy]
  BY TypeParts DEF MapTypes, ThreadTypes
<1>1. \A t \in Threads : job[t].pos \in Blocks
  BY <1>0 DEF JobType
<1>2. \A b \in Blocks : Around[b] \subseteq Blocks
  BY EmergeAssumption DEF EmergeAssumption
<1>3. ASSUME NEW m \in [Blocks -> Copy], NEW B PROVE Loaded(m, B) \in [Blocks -> Copy]
  BY <1>0, <1>3, Copies DEF Loaded
<1>4. ASSUME NEW t \in Threads PROVE Fetched(t) \in [Blocks -> Copy]
  BY <1>0, <1>1 DEF Fetched
<1>5. ASSUME NEW t \in Threads, NEW m \in [Blocks -> Copy], StartGen(t, m)
      PROVE  mem' \in [Blocks -> Copy] /\ refs' \in [Blocks -> Int] /\ dirty' \subseteq Blocks
             /\ making' \subseteq {ChunkOf[b] : b \in Blocks}
  <2>1. mem' \in [Blocks -> Copy] /\ dirty' \subseteq Blocks
    BY <1>0, <1>1, <1>2, <1>3, <1>5 DEF StartGen, Created
  <2>2. refs' \in [Blocks -> Int]
    BY <1>0, <1>5 DEF StartGen
  <2>3. making' \subseteq {ChunkOf[b] : b \in Blocks}
    BY <1>0, <1>1, <1>5 DEF StartGen
  <2> QED BY <2>1, <2>2, <2>3
<1>6. ASSUME UNCHANGED mapVars PROVE MapTypes'
  BY <1>0, <1>6 DEF mapVars, MapTypes
<1>7. ASSUME NEW b \in Blocks, Load(b) \/ Unload(b) PROVE MapTypes'
  <2>1. mem' \in [Blocks -> Copy]
    BY <1>0, <1>7, Copies DEF Load, Loaded, Unload
  <2>2. disk' \in [Blocks -> Copy]
    BY <1>0, <1>7 DEF Load, Unload
  <2> QED BY <1>0, <1>7, <2>1, <2>2 DEF Load, Unload, Touch, MapTypes
<1>8. ASSUME NEW t \in Threads, Look(t) PROVE MapTypes'
  <2>1. CASE UNCHANGED <<mem, dirty, refs, making>>
    BY <1>0, <1>8, <2>1 DEF Look, MapTypes
  <2>2. CASE StartGen(t, mem)
    BY <1>0, <1>5, <1>8, <2>2 DEF Look, MapTypes
  <2> QED BY <1>8, <2>1, <2>2 DEF Look
<1>9. ASSUME NEW t \in Threads, Decide(t) PROVE MapTypes'
  <2>1. CASE mem' = Fetched(t) /\ UNCHANGED <<dirty, refs, making>>
    BY <1>0, <1>4, <1>9, <2>1 DEF Decide, MapTypes
  <2>2. CASE StartGen(t, Fetched(t))
    BY <1>0, <1>4, <1>5, <1>9, <2>2 DEF Decide, MapTypes
  <2> QED BY <1>9, <2>1, <2>2 DEF Decide
<1>10. ASSUME NEW t \in Threads, LoadFails(t) PROVE MapTypes'
  BY <1>0, <1>10 DEF LoadFails, Fails, MapTypes
<1>11. ASSUME NEW t \in Threads, MakeFails(t) PROVE MapTypes'
  <2>1. mem' \in [Blocks -> Copy] /\ dirty' \subseteq Blocks
    <3>1. PICK grabbed \in SUBSET Around[job[t].pos] :
            /\ mem' = Loaded(Fetched(t), grabbed)
            /\ dirty' = dirty \cup Created(Fetched(t), grabbed)
      BY <1>11 DEF MakeFails
    <3> QED BY <1>0, <1>1, <1>2, <1>3, <1>4, <3>1 DEF Created
  <2>2. refs' \in [Blocks -> Int]
    BY <1>0, <1>11 DEF MakeFails
  <2>3. making' \subseteq {ChunkOf[b] : b \in Blocks}
    BY <1>0, <1>1, <1>11 DEF MakeFails
  <2> QED BY <1>0, <1>11, <2>1, <2>2, <2>3 DEF MakeFails, Fails, MapTypes
<1>12. ASSUME NEW t \in Threads, FinishGen(t) PROVE MapTypes'
  <2>1. mem' \in [Blocks -> Copy]
    BY <1>0, <1>12, Copies DEF FinishGen
  <2>2. refs' \in [Blocks -> Int]
    BY <1>0, <1>12 DEF FinishGen
  <2>3. dirty' \subseteq Blocks /\ disk' \in [Blocks -> Copy]
        /\ making' \subseteq {ChunkOf[b] : b \in Blocks}
    BY <1>0, <1>1, <1>2, <1>12 DEF FinishGen
  <2> QED BY <2>1, <2>2, <2>3 DEF MapTypes
<1>13. ASSUME NEW t \in Threads, CancelMake(t) PROVE MapTypes'
  <2>1. refs' \in [Blocks -> Int]
    <3> DEFINE kept == {c \in Around[job[t].pos] : mem[c].there}
    <3>1. PICK drop \in [kept -> 0..2] :
            refs' = [c \in Blocks |-> IF c \in kept THEN refs[c] - drop[c] ELSE refs[c]]
      BY <1>13 DEF CancelMake
    <3>2. \A c \in kept : drop[c] \in Int
      BY <3>1
    <3> HIDE DEF kept
    <3>3. \A c \in Blocks : (IF c \in kept THEN refs[c] - drop[c] ELSE refs[c]) \in Int
      BY <1>0, <3>2
    <3> QED BY <3>1, <3>3
  <2> QED BY <1>0, <1>13, <2>1 DEF CancelMake, MapTypes
<1>18. ASSUME Save PROVE MapTypes'
  <2>1. disk' = [b \in Blocks |-> IF b \in dirty THEN mem[b] ELSE disk[b]]
        /\ dirty' = {} /\ UNCHANGED <<mem, refs, making>>
    BY <1>18 DEF Save, Touch
  <2>2. disk' \in [Blocks -> Copy]
    BY <1>0, <2>1
  <2> QED BY <1>0, <2>1, <2>2 DEF MapTypes
<1>14. ASSUME NEW b \in Blocks, NEW p \in Peers, NEW gen \in BOOLEAN, Ask(b, p, gen)
       PROVE  UNCHANGED mapVars
  BY <1>14 DEF Ask
<1>15. ASSUME AskArea \/ AskBlocked \/ AskRefused \/ Close PROVE UNCHANGED mapVars
  BY <1>15 DEF AskArea, AskBlocked, AskRefused, Close
<1>16. ASSUME NEW t \in Threads,
              \/ StopThread(t) \/ Start(t) \/ Top(t) \/ Wake(t) \/ Read(t) \/ CallBlocked(t)
              \/ Shutdown(t) \/ Cancel(t)
       PROVE  UNCHANGED mapVars
  BY <1>16 DEF StopThread, Start, Top, Wake, Read, CallBlocked, Shutdown, Cancel
<1>17. ASSUME NEW t \in Threads, NEW r \in held[t], Call(t, r) \/ CallAndAsk(t, r)
       PROVE  UNCHANGED mapVars
  BY <1>17 DEF Call, CallAndAsk
<1> QED BY StepCases, <1>6, <1>7, <1>8, <1>9, <1>10, <1>11, <1>12, <1>13, <1>14, <1>15,
             <1>16, <1>17, <1>18

LEMMA RunTypesKept == ASSUME TypeOK, Next PROVE RunTypes'
<1>0. /\ RunTypes /\ ThreadTypes
      /\ perils \in Worlds /\ called \in [Requests -> Nat] /\ held \in [Threads -> SUBSET Requests]
      /\ asked \in 0..MaxAreas /\ asks \in 0..MaxAsks[perils] /\ MaxAreas \in Nat
      /\ MaxAsks[perils] \in Nat
  BY TypeParts, EmergeAssumption DEF RunTypes, ThreadTypes, EmergeAssumption
<1>1. ASSUME NEW b, NEW p, NEW gen, NEW calls, Enqueue(b, p, gen, calls)
      PROVE  asks' \in 0..MaxAsks[perils]
  BY <1>0, <1>1 DEF Enqueue
<1>2. ASSUME EmergeArea PROVE asks' \in 0..MaxAsks[perils] /\ asked' \in 0..MaxAreas
  <2>1. PICK b \in Blocks : Enqueue(b, Nobody, TRUE, {asked'})
    BY <1>2 DEF EmergeArea
  <2>2. asked' \in 0..MaxAreas
    BY <1>0, <1>2 DEF EmergeArea
  <2> QED BY <1>1, <2>1, <2>2
<1>3. ASSUME NEW b \in Blocks, NEW p \in Peers, NEW gen \in BOOLEAN, Ask(b, p, gen)
      PROVE  RunTypes'
  BY <1>0, <1>1, <1>3 DEF Ask, RunTypes, runVars
<1>4. ASSUME AskArea \/ AskBlocked \/ AskRefused \/ Close PROVE RunTypes'
  BY <1>0, <1>2, <1>4 DEF AskArea, AskBlocked, AskRefused, Close, RunTypes, runVars
<1>5. ASSUME Save \/ \E b \in Blocks : Load(b) \/ Unload(b) PROVE RunTypes'
  BY <1>0, <1>5 DEF Save, Load, Unload, Touch, RunTypes, runVars
<1>6. ASSUME NEW t \in Threads,
             StopThread(t) \/ Start(t) \/ Top(t) \/ Wake(t) \/ Look(t) \/ Read(t) \/ Decide(t)
      PROVE  RunTypes'
  BY <1>0, <1>6 DEF StopThread, Start, Top, Wake, Look, Read, Decide, RunTypes, runVars
<1>7. ASSUME NEW t \in Threads,
             LoadFails(t) \/ MakeFails(t) \/ FinishGen(t) \/ CancelMake(t) \/ CallBlocked(t)
             \/ Shutdown(t) \/ Cancel(t)
      PROVE  RunTypes'
  BY <1>0, <1>7 DEF LoadFails, MakeFails, Fails, FinishGen, CancelMake, CallBlocked, Shutdown,
       Cancel, RunTypes, runVars
<1>8. ASSUME NEW t \in Threads, NEW r \in held[t], Called(t, r)
      PROVE  called' \in [Requests -> Nat]
  BY <1>0, <1>8 DEF Called
<1>9. ASSUME NEW t \in Threads, NEW r \in held[t], Call(t, r) \/ CallAndAsk(t, r)
      PROVE  RunTypes'
  BY <1>0, <1>2, <1>8, <1>9 DEF Call, CallAndAsk, RunTypes, runVars
<1> QED BY StepCases, <1>3, <1>4, <1>5, <1>6, <1>7, <1>9

LEMMA StepTyped == ASSUME TypeOK, IQueue, [Next]_vars PROVE TypeOK' /\ IQueue'
<1>1. IQueue'
  BY QueueKept
<1>2. CASE Next
  <2>1. QueueTypes' /\ ThreadTypes' /\ MapTypes' /\ RunTypes'
    BY <1>1, <1>2, ThreadTypesKept, MapTypesKept, RunTypesKept DEF IQueue
  <2> QED BY <1>1, <2>1 DEF TypeOK, QueueTypes, ThreadTypes, MapTypes, RunTypes, EntryType, JobType,
            Where
<1>3. CASE UNCHANGED vars
  BY <1>1, <1>3 DEF TypeOK, vars, queueVars, threadVars, mapVars, runVars
<1> QED BY <1>1, <1>2, <1>3

LEMMA InitTyped == Init => TypeOK /\ IQueue
<1> SUFFICES ASSUME Init PROVE TypeOK /\ IQueue
  OBVIOUS
<1>1. QueueTypes
  BY NoEntryType DEF Init, QueueTypes
<1>2. ThreadTypes
  BY Copies, IdleType DEF Init, ThreadTypes, Where
<1>3. MapTypes
  BY Copies DEF Init, MapTypes
<1>4. RunTypes
  <2>1. perils \in Worlds /\ MaxAreas \in Nat
    BY EmergeAssumption DEF Init, EmergeAssumption
  <2>2. MaxAsks[perils] \in Nat
    BY <2>1, EmergeAssumption DEF EmergeAssumption
  <2>3. asked \in 0..MaxAreas
    BY <2>1 DEF Init
  <2>4. asks \in 0..MaxAsks[perils]
    BY <2>2 DEF Init
  <2>5. called \in [Requests -> Nat]
    BY DEF Init
  <2> QED BY <2>1, <2>3, <2>4, <2>5 DEF Init, RunTypes
<1>5. Queued = {} /\ \A t \in Threads : DOMAIN queue[t] = {}
  BY NoEntryType DEF Init, Queued
<1>6. EntryShape /\ QueuedOnce
  BY <1>5, NoEntryType DEF Init, EntryShape, QueuedOnce
<1>7. PeerCountExact
  <2>1. \A p \in Peers : AskedBy(p) = {} /\ count[p] = 0
    BY NoEntryType, EmergeAssumption DEF Init, AskedBy, EmergeAssumption
  <2>2. Cardinality({}) = 0
    BY FS_EmptySet
  <2> QED BY <2>1, <2>2 DEF PeerCountExact, AskedBy
<1> QED BY <1>1, <1>2, <1>3, <1>4, <1>6, <1>7, TypeParts DEF IQueue

LEMMA QueueInvariant == Spec => [](TypeOK /\ IQueue)
<1>1. TypeOK /\ IQueue /\ [Next]_vars => (TypeOK /\ IQueue)'
  BY StepTyped
<1> QED BY <1>1, InitTyped, PTL DEF Spec

\* Every variable keeps its type: no counter of queued positions underflows.
THEOREM TypeCorrect == Spec => []TypeOK
BY QueueInvariant, PTL

\* The map of the positions asked for and the threads' queues never disagree.
THEOREM QueuesAgree == Spec => []QueuedOnce
<1>1. IQueue => QueuedOnce
  BY DEF IQueue
<1> QED BY <1>1, QueueInvariant, PTL

\* A peer's counter is the number of positions queued in its name.
THEOREM CountsAreExact == Spec => []PeerCountExact
<1>1. IQueue => PeerCountExact
  BY DEF IQueue
<1> QED BY <1>1, QueueInvariant, PTL

-----------------------------------------------------------------------------
(* Who generates what *)

\* The chunk a thread generates is in m_chunks_in_progress, from the step that
\* puts it there to the thread's own finishGen.
MakerHolds == \A t \in Threads : Making(t) => ChunkOf[job[t].pos] \in making

IMake == TypeOK /\ MakerHolds /\ OneMaker

\* A step of a thread that does not begin to generate and does not take its chunk
\* out of the set disturbs nobody.
LEMMA MakersKept ==
  ASSUME IMake, making \subseteq making',
         \A t \in Threads : Making(t)' => Making(t) /\ job'[t] = job[t]
  PROVE  MakerHolds' /\ OneMaker'
BY DEF IMake, MakerHolds, OneMaker

\* The only way to begin: the chunk was not in progress.
LEMMA StartGenKeeps ==
  ASSUME IMake, NEW t \in Threads, NEW m, StartGen(t, m), ~Making(t)
  PROVE  MakerHolds' /\ OneMaker'
<1>1. at \in [Threads -> Where] /\ job \in [Threads -> JobType]
  BY TypeParts DEF IMake, ThreadTypes
<1>2. CASE Answer(t, held[t]) /\ making \subseteq making'
  <2>1. \A u \in Threads : Making(u)' => Making(u) /\ job'[u] = job[u]
    BY <1>1, <1>2 DEF Answer, Go, Making
  <2> QED BY <1>2, <2>1, MakersKept
<1>3. CASE /\ Go(t, "make") /\ job' = job /\ NotInProgress(job[t].pos)
           /\ making' = making \cup {ChunkOf[job[t].pos]}
  <2>1. \A u \in Threads : u # t => (Making(u)' <=> Making(u))
    BY <1>1, <1>3 DEF Go, Making
  <2>2. \A u \in Threads : Making(u) => ChunkOf[job[u].pos] # ChunkOf[job[t].pos]
    BY <1>3 DEF IMake, MakerHolds, NotInProgress
  <2>3. MakerHolds'
    BY <1>3, <2>1 DEF IMake, MakerHolds
  <2>4. OneMaker'
    BY <1>3, <2>1, <2>2 DEF IMake, OneMaker
  <2> QED BY <2>3, <2>4
<1> QED BY <1>2, <1>3 DEF StartGen

LEMMA OneMakerStep == ASSUME IMake, TypeOK', [Next]_vars PROVE IMake'
<1>0. at \in [Threads -> Where] /\ job \in [Threads -> JobType]
  BY TypeParts DEF IMake, ThreadTypes
<1>1. ASSUME UNCHANGED <<at, job, making>> PROVE MakerHolds' /\ OneMaker'
  BY <1>1 DEF IMake, MakerHolds, OneMaker, Making
<1>2. ASSUME NEW b \in Blocks, NEW p \in Peers, NEW gen \in BOOLEAN, Ask(b, p, gen)
      PROVE  UNCHANGED <<at, job, making>>
  BY <1>2 DEF Ask, threadVars, mapVars
<1>3. ASSUME AskArea \/ AskBlocked \/ AskRefused \/ Close PROVE UNCHANGED <<at, job, making>>
  BY <1>3 DEF AskArea, AskBlocked, AskRefused, Close, threadVars, mapVars
<1>4. ASSUME Save \/ \E b \in Blocks : Load(b) \/ Unload(b) PROVE UNCHANGED <<at, job, making>>
  BY <1>4 DEF Save, Load, Unload, Touch, threadVars
<1>5. ASSUME NEW t \in Threads, StopThread(t) \/ CallBlocked(t)
      PROVE  UNCHANGED <<at, job, making>>
  BY <1>5 DEF StopThread, CallBlocked, threadVars, mapVars
\* Elsewhere than in StartGen a thread goes to another place than the generator.
<1>6. ASSUME NEW t \in Threads, NEW step \in Where, step # "make", Go(t, step),
             making \subseteq making', \A u \in Threads : u # t => job'[u] = job[u]
      PROVE  MakerHolds' /\ OneMaker'
  <2>1. \A u \in Threads : Making(u)' => Making(u) /\ job'[u] = job[u]
    BY <1>0, <1>6 DEF Go, Making
  <2> QED BY <1>6, <2>1, MakersKept
<1>7. ASSUME NEW t \in Threads, Start(t) \/ Wake(t) \/ Read(t) \/ Shutdown(t)
      PROVE  MakerHolds' /\ OneMaker'
  BY <1>6, <1>7 DEF Start, Wake, Read, Shutdown, mapVars, Where
<1>8. ASSUME NEW t \in Threads, Top(t) PROVE MakerHolds' /\ OneMaker'
  <2>1. making' = making /\ \A u \in Threads : u # t => job'[u] = job[u]
    BY <1>0, <1>8 DEF Top, mapVars
  <2>2. CASE at' = at
    <3>1. job' = job \/ Go(t, "look")
      BY <1>8 DEF Top, Go
    <3>2. CASE job' = job
      BY <1>1, <2>1, <2>2, <3>2
    <3>3. CASE Go(t, "look")
      BY <1>6, <2>1, <3>3 DEF Where
    <3> QED BY <3>1, <3>2, <3>3
  <2>3. CASE Go(t, "shutdown") \/ Go(t, "asleep") \/ Go(t, "look")
    BY <1>6, <2>1, <2>3 DEF Where
  <2> QED BY <1>8, <2>2, <2>3 DEF Top
<1>9. ASSUME NEW t \in Threads, NEW left, Answer(t, left), making \subseteq making'
      PROVE  MakerHolds' /\ OneMaker'
  <2>1. \A u \in Threads : u # t => job'[u] = job[u]
    BY <1>0, <1>9 DEF Answer
  <2>2. Go(t, "top") \/ Go(t, "call")
    BY <1>9 DEF Answer, Go
  <2> QED BY <1>6, <1>9, <2>1, <2>2 DEF Where
<1>10. ASSUME NEW t \in Threads, Look(t) PROVE MakerHolds' /\ OneMaker'
  <2>0. ~Making(t)
    BY <1>10 DEF Look, Making
  <2>1. CASE Answer(t, held[t]) /\ making' = making
    BY <1>9, <2>1
  <2>2. CASE Go(t, "read") /\ job' = job /\ making' = making
    BY <1>6, <2>2 DEF Where
  <2>3. CASE StartGen(t, mem)
    BY <2>0, <2>3, StartGenKeeps
  <2> QED BY <1>10, <2>1, <2>2, <2>3 DEF Look
<1>11. ASSUME NEW t \in Threads, Decide(t) PROVE MakerHolds' /\ OneMaker'
  <2>0. ~Making(t)
    BY <1>11 DEF Decide, Making
  <2>1. CASE Answer(t, held[t]) /\ making' = making
    BY <1>9, <2>1
  <2>2. CASE StartGen(t, Fetched(t))
    BY <2>0, <2>2, StartGenKeeps
  <2> QED BY <1>11, <2>1, <2>2 DEF Decide
<1>12. ASSUME NEW t \in Threads, LoadFails(t) \/ MakeFails(t) PROVE MakerHolds' /\ OneMaker'
  <2>1. Fails(t) /\ making \subseteq making'
    BY <1>12 DEF LoadFails, MakeFails
  <2>2. \A u \in Threads : u # t => job'[u] = job[u]
    BY <1>0, <2>1 DEF Fails
  <2> QED BY <1>6, <2>1, <2>2 DEF Fails, Where
\* The chunk that goes out of the set is nobody else's.
<1>13. ASSUME NEW t \in Threads, FinishGen(t) PROVE MakerHolds' /\ OneMaker'
  <2>1. at[t] = "make" /\ Answer(t, held[t]) /\ making' = making \ {ChunkOf[job[t].pos]}
    BY <1>13 DEF FinishGen
  <2>2. at' = [at EXCEPT ![t] = IF held[t] = {} THEN "top" ELSE "call"]
    BY <2>1 DEF Answer, Go
  <2>3. \A u \in Threads : Making(u)' => u # t /\ Making(u)
    BY <1>0, <2>2 DEF Making
  <2>4. \A u \in Threads : u # t => job'[u] = job[u]
    BY <1>0, <2>1 DEF Answer
  <2>5. \A u \in Threads : u # t /\ Making(u) => ChunkOf[job[u].pos] # ChunkOf[job[t].pos]
    BY <2>1 DEF IMake, OneMaker, Making
  <2>6. MakerHolds'
    BY <2>1, <2>3, <2>4, <2>5 DEF IMake, MakerHolds
  <2>7. OneMaker'
    BY <2>3, <2>4 DEF IMake, OneMaker
  <2> QED BY <2>6, <2>7
<1>14. ASSUME NEW t \in Threads, CancelMake(t) PROVE MakerHolds' /\ OneMaker'
  BY <1>9, <1>14 DEF CancelMake
<1>15. ASSUME NEW t \in Threads, NEW r \in held[t], Call(t, r) \/ CallAndAsk(t, r)
       PROVE  MakerHolds' /\ OneMaker'
  <2>1. Called(t, r) /\ making' = making
    BY <1>15 DEF Call, CallAndAsk, mapVars
  <2> QED BY <1>1, <1>9, <2>1 DEF Called
<1>16. ASSUME NEW t \in Threads, Cancel(t) PROVE MakerHolds' /\ OneMaker'
  <2>1. making' = making /\ job' = job /\ (at' = at \/ Go(t, "ended"))
    BY <1>16 DEF Cancel, mapVars
  <2> QED BY <1>1, <1>6, <2>1 DEF Where
<1>17. CASE UNCHANGED vars
  BY <1>1, <1>17 DEF vars, threadVars, mapVars, IMake
<1>18. CASE Next
  BY <1>18, StepCases, <1>1, <1>2, <1>3, <1>4, <1>5, <1>7, <1>8, <1>10, <1>11, <1>12,
     <1>13, <1>14, <1>15, <1>16 DEF IMake
<1> QED BY <1>17, <1>18

\* No chunk is generated by two threads at once.
THEOREM OneMakerOnly == Spec => []OneMaker
<1>1. Init => IMake
  <2>1. Init => \A t \in Threads : ~Making(t)
    BY DEF Init, Making
  <2> QED BY <2>1, InitTyped DEF IMake, MakerHolds, OneMaker
<1>2. IMake /\ TypeOK' /\ [Next]_vars => IMake'
  BY OneMakerStep
<1>3. IMake => OneMaker
  BY DEF IMake
<1> QED BY <1>1, <1>2, <1>3, TypeCorrect, PTL DEF Spec

-----------------------------------------------------------------------------
(* Who is answered *)

\* Requests are numbered as they are accepted: a later one is nowhere yet.
AskedFirst == \A r \in Requests : r > asked => called[r] = 0 /\ ~Pending(r)

IAnswer == TypeOK /\ IQueue /\ AnsweredOnce /\ AskedFirst

\* Callbacks leave the places where they are, a new one comes to one entry, and
\* the one that is run has left the place where it was.
LEMMA AnswersKept ==
  ASSUME IAnswer, NEW b,
         \A c \in Blocks : \/ entry'[c].calls \subseteq entry[c].calls
                           \/ /\ c = b /\ asked' = asked + 1
                              /\ entry'[c].calls \subseteq entry[c].calls \cup {asked + 1},
         \A u \in Threads : held'[u] \subseteq held[u],
         \A r \in Requests :
           \/ called'[r] = called[r]
           \/ \E u \in Threads : r \in held[u] /\ r \notin held'[u] /\ called'[r] = called[r] + 1,
         asked' = asked \/ asked' = asked + 1
  PROVE  AnsweredOnce' /\ AskedFirst'
<1>1. asked \in Nat /\ Requests \subseteq Nat /\ \A r \in Requests : called[r] \in Nat
  BY TypeParts, EmergeAssumption DEF IAnswer, RunTypes, EmergeAssumption, Requests
<1>2. ASSUME NEW r \in Requests
      PROVE  /\ called[r] <= IF Pending(r) THEN 0 ELSE 1
             /\ \A c, d \in Blocks : r \in entry[c].calls /\ r \in entry[d].calls => c = d
             /\ \A t, u \in Threads : r \in held[t] /\ r \in held[u] => t = u
             /\ \A c \in Blocks, t \in Threads : ~(r \in entry[c].calls /\ r \in held[t])
             /\ r > asked => called[r] = 0 /\ ~Pending(r)
  BY DEF IAnswer, AnsweredOnce, AskedFirst
<1>3. SUFFICES ASSUME NEW r \in Requests
               PROVE  /\ called'[r] <= IF Pending(r)' THEN 0 ELSE 1
                      /\ \A c, d \in Blocks : r \in entry'[c].calls /\ r \in entry'[d].calls => c = d
                      /\ \A t, u \in Threads : r \in held'[t] /\ r \in held'[u] => t = u
                      /\ \A c \in Blocks, t \in Threads : ~(r \in entry'[c].calls /\ r \in held'[t])
                      /\ r > asked' => called'[r] = 0 /\ ~Pending(r)'
  BY DEF AnsweredOnce, AskedFirst
<1>4. CASE r = asked + 1 /\ asked' = asked + 1
  <2>1. called[r] = 0 /\ ~Pending(r)
    BY <1>1, <1>2, <1>4
  <2>2. (\A u \in Threads : r \notin held[u]) /\ (\A c \in Blocks : r \notin entry[c].calls)
    BY <2>1 DEF Pending
  <2>3. called'[r] = 0 /\ \A u \in Threads : r \notin held'[u]
    BY <2>1, <2>2
  <2>4. \A c \in Blocks : r \in entry'[c].calls => c = b
    BY <2>2
  <2> QED BY <1>1, <1>4, <2>3, <2>4
<1>5. CASE ~(r = asked + 1 /\ asked' = asked + 1)
  <2>1. \A c \in Blocks : r \in entry'[c].calls => r \in entry[c].calls
    BY <1>5
  <2>2. \A u \in Threads : r \in held'[u] => r \in held[u]
    OBVIOUS
  <2>3. Pending(r)' => Pending(r)
    BY <2>1, <2>2 DEF Pending
  <2>4. /\ \A c, d \in Blocks : r \in entry'[c].calls /\ r \in entry'[d].calls => c = d
        /\ \A t, u \in Threads : r \in held'[t] /\ r \in held'[u] => t = u
        /\ \A c \in Blocks, t \in Threads : ~(r \in entry'[c].calls /\ r \in held'[t])
    BY <1>2, <2>1, <2>2
  <2>5. CASE called'[r] = called[r]
    <3>1. called'[r] <= IF Pending(r)' THEN 0 ELSE 1
      BY <1>1, <1>2, <2>3, <2>5
    <3>2. r > asked' => r > asked
      BY <1>1
    <3> QED BY <1>2, <2>3, <2>4, <2>5, <3>1, <3>2
  <2>6. CASE \E u \in Threads : r \in held[u] /\ r \notin held'[u] /\ called'[r] = called[r] + 1
    <3>1. PICK u \in Threads : r \in held[u] /\ r \notin held'[u] /\ called'[r] = called[r] + 1
      BY <2>6
    <3>2. Pending(r) /\ called[r] = 0 /\ ~(r > asked)
      BY <1>1, <1>2, <3>1 DEF Pending
    <3>3. ~Pending(r)'
      BY <1>2, <2>1, <2>2, <3>1 DEF Pending
    <3>4. ~(r > asked')
      BY <1>1, <3>2
    <3> QED BY <2>4, <3>1, <3>2, <3>3, <3>4
  <2> QED BY <2>5, <2>6
<1> QED BY <1>4, <1>5

\* The thread that pops a position gets its callbacks.
LEMMA PopAnswers ==
  ASSUME IAnswer, NEW t \in Threads, queue[t] # <<>>, PopFirst(t),
         held' = [held EXCEPT ![t] = entry[Head(queue[t])].calls],
         UNCHANGED <<called, asked>>
  PROVE  AnsweredOnce' /\ AskedFirst'
<1> DEFINE b == Head(queue[t])
<1>0. RunTypes /\ QueueTypes /\ ThreadTypes
  BY TypeParts DEF IAnswer
<1>1. /\ \A r \in Requests : called[r] \in Nat
      /\ entry \in [Blocks -> EntryType] /\ held \in [Threads -> SUBSET Requests]
  BY <1>0 DEF RunTypes, QueueTypes, ThreadTypes
<1>2. b \in Blocks
  BY PopKeeps DEF IAnswer, Queued
<1>3. entry' = [entry EXCEPT ![b] = NoEntry]
  BY DEF PopFirst
<1> HIDE DEF b
<1>4. /\ entry'[b].calls = {} /\ \A c \in Blocks : c # b => entry'[c] = entry[c]
      /\ held'[t] = entry[b].calls /\ \A u \in Threads : u # t => held'[u] = held[u]
  BY <1>1, <1>2, <1>3, NoEntryType DEF b
<1>5. ASSUME NEW r \in Requests
      PROVE  /\ called[r] <= IF Pending(r) THEN 0 ELSE 1
             /\ \A c, d \in Blocks : r \in entry[c].calls /\ r \in entry[d].calls => c = d
             /\ \A u, v \in Threads : r \in held[u] /\ r \in held[v] => u = v
             /\ \A c \in Blocks, u \in Threads : ~(r \in entry[c].calls /\ r \in held[u])
             /\ r > asked => called[r] = 0 /\ ~Pending(r)
  BY DEF IAnswer, AnsweredOnce, AskedFirst
<1>6. SUFFICES ASSUME NEW r \in Requests
               PROVE  /\ called'[r] <= IF Pending(r)' THEN 0 ELSE 1
                      /\ \A c, d \in Blocks : r \in entry'[c].calls /\ r \in entry'[d].calls => c = d
                      /\ \A u, v \in Threads : r \in held'[u] /\ r \in held'[v] => u = v
                      /\ \A c \in Blocks, u \in Threads : ~(r \in entry'[c].calls /\ r \in held'[u])
                      /\ r > asked' => called'[r] = 0 /\ ~Pending(r)'
  BY DEF AnsweredOnce, AskedFirst
<1>7. \A c \in Blocks : r \in entry'[c].calls => c # b /\ r \in entry[c].calls
  BY <1>4
<1>8. \A u \in Threads : r \in held'[u] => IF u = t THEN r \in entry[b].calls ELSE r \in held[u]
  BY <1>4
<1>9. Pending(r)' => Pending(r)
  BY <1>2, <1>7, <1>8 DEF Pending
<1>10. called'[r] <= IF Pending(r)' THEN 0 ELSE 1
  BY <1>1, <1>5, <1>9
<1>11. \A c \in Blocks, u \in Threads : ~(r \in entry'[c].calls /\ r \in held'[u])
  BY <1>2, <1>5, <1>7, <1>8
<1>12. \A u, v \in Threads : r \in held'[u] /\ r \in held'[v] => u = v
  BY <1>2, <1>5, <1>8
<1> QED BY <1>5, <1>7, <1>9, <1>10, <1>11, <1>12

LEMMA AnswerStep == ASSUME IAnswer, [Next]_vars PROVE IAnswer'
<1>0. /\ entry \in [Blocks -> EntryType] /\ held \in [Threads -> SUBSET Requests]
      /\ called \in [Requests -> Nat] /\ asked \in Nat
      /\ queue \in [Threads -> Seq(Blocks)]
  BY TypeParts, EmergeAssumption DEF IAnswer, QueueTypes, ThreadTypes, RunTypes, EmergeAssumption
<1> DEFINE Same == entry' = entry /\ called' = called /\ asked' = asked
<1>1. ASSUME Same, \A u \in Threads : held'[u] \subseteq held[u]
      PROVE  AnsweredOnce' /\ AskedFirst'
  BY <1>1, AnswersKept
<1>2. ASSUME Same, held' = held PROVE AnsweredOnce' /\ AskedFirst'
  BY <1>1, <1>2
<1>3. ASSUME NEW b \in Blocks, NEW p, NEW gen, NEW calls, Enqueue(b, p, gen, calls)
      PROVE  /\ entry'[b].calls = entry[b].calls \cup calls
             /\ \A c \in Blocks : c # b => entry'[c] = entry[c]
  BY <1>0, <1>3 DEF Enqueue
<1>4. ASSUME NEW b \in Blocks, NEW p \in Peers, NEW gen \in BOOLEAN, Ask(b, p, gen)
      PROVE  AnsweredOnce' /\ AskedFirst'
  <2>1. Enqueue(b, p, gen, {}) /\ held' = held /\ called' = called /\ asked' = asked
    BY <1>4 DEF Ask, threadVars
  <2>2. \A c \in Blocks : entry'[c].calls \subseteq entry[c].calls
    BY <1>3, <2>1
  <2> QED BY <2>1, <2>2, AnswersKept
<1>5. ASSUME EmergeArea
      PROVE  asked' = asked + 1 /\ \E b \in Blocks : \A c \in Blocks :
               IF c = b THEN entry'[c].calls \subseteq entry[c].calls \cup {asked + 1}
                        ELSE entry'[c].calls \subseteq entry[c].calls
  <2>1. asked' = asked + 1
    BY <1>5 DEF EmergeArea
  <2>2. PICK b \in Blocks : Enqueue(b, Nobody, TRUE, {asked'})
    BY <1>5 DEF EmergeArea
  <2>3. \A c \in Blocks : IF c = b THEN entry'[c].calls \subseteq entry[c].calls \cup {asked + 1}
                                   ELSE entry'[c].calls \subseteq entry[c].calls
    <3>1. /\ entry'[b].calls = entry[b].calls \cup {asked'}
          /\ \A c \in Blocks : c # b => entry'[c] = entry[c]
      BY <1>3, <2>2
    <3> QED BY <2>1, <3>1
  <2> QED BY <2>1, <2>3
<1>6. ASSUME AskArea PROVE AnsweredOnce' /\ AskedFirst'
  <2>1. EmergeArea /\ held' = held /\ called' = called
    BY <1>6 DEF AskArea, threadVars
  <2> QED BY <1>5, <2>1, AnswersKept
<1>7. ASSUME AskBlocked \/ AskRefused \/ Close PROVE AnsweredOnce' /\ AskedFirst'
  BY <1>2, <1>7 DEF AskBlocked, AskRefused, Close, queueVars, threadVars
<1>8. ASSUME Save \/ \E b \in Blocks : Load(b) \/ Unload(b) PROVE AnsweredOnce' /\ AskedFirst'
  BY <1>2, <1>8 DEF Save, Load, Unload, Touch, queueVars, threadVars
<1>9. ASSUME NEW t \in Threads,
             \/ StopThread(t) \/ Start(t) \/ Wake(t) \/ Look(t) \/ Read(t) \/ Decide(t)
             \/ FinishGen(t) \/ CancelMake(t) \/ CallBlocked(t) \/ Shutdown(t)
      PROVE  AnsweredOnce' /\ AskedFirst'
  BY <1>2, <1>9 DEF StopThread, Start, Wake, Look, Read, Decide, FinishGen, CancelMake, CallBlocked,
       Shutdown, queueVars, threadVars
<1>10. ASSUME NEW t \in Threads, LoadFails(t) \/ MakeFails(t) PROVE AnsweredOnce' /\ AskedFirst'
  <2>1. Fails(t)
    BY <1>10 DEF LoadFails, MakeFails
  <2> QED BY <1>0, <1>1, <2>1 DEF Fails, queueVars
<1>11. ASSUME NEW t \in Threads, Top(t) \/ Cancel(t) PROVE AnsweredOnce' /\ AskedFirst'
  <2>1. called' = called /\ asked' = asked
    BY <1>11 DEF Top, Cancel
  <2>2. CASE UNCHANGED <<entry, held>>
    BY <1>2, <2>1, <2>2
  <2>3. CASE queue[t] # <<>> /\ PopFirst(t) /\ held' = held
    <3>1. Head(queue[t]) \in Blocks
      BY <1>0, <2>3
    <3>2. \A c \in Blocks : entry'[c].calls \subseteq entry[c].calls
      BY <1>0, <2>3, <3>1, NoEntryType DEF PopFirst
    <3> QED BY <2>1, <2>3, <3>2, AnswersKept
  <2>4. CASE /\ queue[t] # <<>> /\ PopFirst(t)
             /\ held' = [held EXCEPT ![t] = entry[Head(queue[t])].calls]
    BY <2>1, <2>4, PopAnswers
  <2> QED BY <1>11, <2>2, <2>3, <2>4 DEF Top, Cancel
<1>12. ASSUME NEW t \in Threads, NEW r \in held[t], Called(t, r)
       PROVE  /\ \A u \in Threads : held'[u] \subseteq held[u]
              /\ \A q \in Requests :
                   \/ called'[q] = called[q]
                   \/ \E u \in Threads : q \in held[u] /\ q \notin held'[u]
                                         /\ called'[q] = called[q] + 1
  <2>1. /\ called' = [called EXCEPT ![r] = @ + 1]
        /\ held' = [held EXCEPT ![t] = @ \ {r}]
    BY <1>12 DEF Called, Uncalled
  <2> QED BY <1>0, <2>1
<1>13. ASSUME NEW t \in Threads, NEW r \in held[t], Call(t, r) PROVE AnsweredOnce' /\ AskedFirst'
  <2>1. entry' = entry /\ asked' = asked /\ Called(t, r)
    BY <1>13 DEF Call, queueVars
  <2> QED BY <1>12, <2>1, AnswersKept
<1>14. ASSUME NEW t \in Threads, NEW r \in held[t], CallAndAsk(t, r)
       PROVE  AnsweredOnce' /\ AskedFirst'
  <2>1. EmergeArea /\ Called(t, r)
    BY <1>14 DEF CallAndAsk
  <2> QED BY <1>5, <1>12, <2>1, AnswersKept
<1>15. TypeOK' /\ IQueue'
  BY StepTyped DEF IAnswer
<1>16. CASE UNCHANGED vars
  <2>1. Same /\ held' = held
    BY <1>16 DEF vars, queueVars, threadVars
  <2>2. AnsweredOnce' /\ AskedFirst'
    BY <1>2, <2>1
  <2> QED BY <1>15, <2>2 DEF IAnswer
<1>17. CASE Next
  BY <1>17, StepCases, <1>4, <1>6, <1>7, <1>8, <1>9, <1>10, <1>11, <1>13, <1>14, <1>15 DEF IAnswer
<1> QED BY <1>16, <1>17

\* No callback runs twice or waits in two places.
THEOREM AnsweredAtMostOnce == Spec => []AnsweredOnce
<1>1. Init => IAnswer
  <2> SUFFICES ASSUME Init PROVE IAnswer
    OBVIOUS
  <2>1. \A r \in Requests : called[r] = 0 /\ ~Pending(r)
    BY NoEntryType DEF Init, Pending
  <2>2. /\ \A b \in Blocks : entry[b].calls = {}
        /\ \A t \in Threads : held[t] = {}
    BY NoEntryType DEF Init
  <2>3. AnsweredOnce /\ AskedFirst
    BY <2>1, <2>2 DEF AnsweredOnce, AskedFirst
  <2> QED BY <2>3, InitTyped DEF IAnswer
<1>2. IAnswer /\ [Next]_vars => IAnswer'
  BY AnswerStep
<1>3. IAnswer => AnsweredOnce
  BY DEF IAnswer
<1> QED BY <1>1, <1>2, <1>3, PTL DEF Spec

-----------------------------------------------------------------------------
(* What stays in memory *)

Makers(c) == {t \in Threads : Making(t) /\ c \in Around[job[t].pos]}

\* While nothing failed the count of a block is the number of threads that
\* generate with it, and a block somebody generates with is in memory.
RefsCount == \A c \in Blocks : refs[c] = Cardinality(Makers(c))
Kept == \A c \in Blocks : Makers(c) # {} => mem[c].there

IKept == TypeOK /\ (~fatal => RefsCount /\ Kept)

LEMMA FiniteMakers ==
  ASSUME NEW c PROVE IsFiniteSet(Makers(c)) /\ Cardinality(Makers(c)) \in Nat
<1>1. Makers(c) \subseteq Threads /\ IsFiniteSet(Threads)
  BY EmergeAssumption DEF Makers, EmergeAssumption
<1>2. IsFiniteSet(Makers(c))
  BY <1>1, FS_Subset
<1> QED BY <1>2, FS_CardinalityType

\* Nobody begins or ends to generate, and what is in memory stays there.
LEMMA KeptKept ==
  ASSUME RefsCount, Kept, refs' = refs, \A c \in Blocks : mem[c].there => mem'[c].there,
         \A t \in Threads : (Making(t)' <=> Making(t)) /\ (Making(t) => job'[t] = job[t])
  PROVE  RefsCount' /\ Kept'
<1>1. ASSUME NEW c \in Blocks PROVE Makers(c)' = Makers(c)
  BY DEF Makers
<1> QED BY <1>1 DEF RefsCount, Kept

LEMMA StartGenCounts ==
  ASSUME TypeOK, RefsCount, Kept, NEW t \in Threads, NEW m, StartGen(t, m), ~Making(t),
         \A c \in Blocks : mem[c].there => m[c].there
  PROVE  RefsCount' /\ Kept'
<1>1. /\ at \in [Threads -> Where] /\ job \in [Threads -> JobType] /\ refs \in [Blocks -> Int]
  BY TypeParts DEF ThreadTypes, MapTypes
<1>2. CASE Answer(t, held[t]) /\ mem' = m /\ refs' = refs
  <2>1. \A u \in Threads : (Making(u)' <=> Making(u)) /\ (Making(u) => job'[u] = job[u])
    BY <1>1, <1>2 DEF Answer, Go, Making
  <2> QED BY <1>2, <2>1, KeptKept
<1>3. CASE /\ Go(t, "make") /\ job' = job /\ mem' = Loaded(m, Around[job[t].pos])
           /\ refs' = [c \in Blocks |-> IF c \in Around[job[t].pos] THEN refs[c] + 1 ELSE refs[c]]
  <2>1. Making(t)' /\ \A u \in Threads : u # t => (Making(u)' <=> Making(u))
    BY <1>1, <1>3 DEF Go, Making
  <2>2. ASSUME NEW c \in Blocks
        PROVE  refs'[c] = Cardinality(Makers(c)') /\ (Makers(c)' # {} => mem'[c].there)
    <3>1. refs[c] = Cardinality(Makers(c)) /\ (Makers(c) # {} => mem[c].there)
      BY DEF RefsCount, Kept
    <3>2. mem[c].there => mem'[c].there
      BY <1>3 DEF Loaded
    <3>3. CASE c \in Around[job[t].pos]
      <4>1. Makers(c)' = Makers(c) \cup {t} /\ t \notin Makers(c)
        BY <1>3, <2>1, <3>3 DEF Makers
      <4>2. Cardinality(Makers(c) \cup {t}) = Cardinality(Makers(c)) + 1
        BY <4>1, FiniteMakers, FS_AddElement
      <4>3. mem'[c].there
        BY <1>3, <3>3, Copies DEF Loaded, Blank
      <4> QED BY <1>3, <3>1, <3>3, <4>1, <4>2, <4>3
    <3>4. CASE c \notin Around[job[t].pos]
      <4>1. Makers(c)' = Makers(c)
        BY <1>3, <2>1, <3>4 DEF Makers
      <4> QED BY <1>3, <3>1, <3>2, <3>4, <4>1
    <3> QED BY <3>3, <3>4
  <2> QED BY <2>2 DEF RefsCount, Kept
<1> QED BY <1>2, <1>3 DEF StartGen

LEMMA KeptStep == ASSUME IKept, TypeOK', [Next]_vars PROVE IKept'
<1>0. /\ at \in [Threads -> Where] /\ job \in [Threads -> JobType] /\ refs \in [Blocks -> Int]
      /\ mem \in [Blocks -> Copy]
  BY TypeParts DEF IKept, ThreadTypes, MapTypes
<1>1. SUFFICES ASSUME ~fatal' PROVE RefsCount' /\ Kept'
  BY DEF IKept
<1>2. ASSUME fatal' = fatal PROVE RefsCount /\ Kept
  BY <1>1, <1>2 DEF IKept
<1>3. ASSUME UNCHANGED <<at, job, mem, refs, fatal>> PROVE RefsCount' /\ Kept'
  BY <1>2, <1>3, KeptKept DEF Making
<1>4. ASSUME NEW b \in Blocks, NEW p \in Peers, NEW gen \in BOOLEAN, Ask(b, p, gen)
      PROVE  RefsCount' /\ Kept'
  BY <1>3, <1>4 DEF Ask, threadVars, mapVars, runVars
<1>5. ASSUME AskArea \/ AskBlocked \/ AskRefused \/ Close PROVE RefsCount' /\ Kept'
  BY <1>3, <1>5 DEF AskArea, AskBlocked, AskRefused, Close, threadVars, mapVars, runVars
<1>6. ASSUME NEW b \in Blocks, Load(b) PROVE RefsCount' /\ Kept'
  <2>1. /\ UNCHANGED <<at, job, refs, fatal>>
        /\ mem' = Loaded(mem, {b})
    BY <1>6 DEF Load, Touch, threadVars, runVars
  <2>2. \A c \in Blocks : mem[c].there => mem'[c].there
    BY <1>0, <2>1 DEF Loaded
  <2> QED BY <1>2, <2>1, <2>2, KeptKept DEF Making
\* A block with a count of zero is nobody's.
<1>7. ASSUME NEW b \in Blocks, Unload(b) PROVE RefsCount' /\ Kept'
  <2>1. /\ UNCHANGED <<at, job, refs, fatal>>
        /\ refs[b] = 0 /\ mem' = [mem EXCEPT ![b] = NoCopy]
    BY <1>7 DEF Unload, Unreferenced, Touch, threadVars, runVars
  <2>2. RefsCount /\ Kept
    BY <1>2, <2>1
  <2>3. \A c \in Blocks : Makers(c)' = Makers(c)
    BY <2>1 DEF Makers, Making
  <2>4. Makers(b) = {}
    <3>1. Cardinality(Makers(b)) = 0
      BY <2>1, <2>2 DEF RefsCount
    <3> QED BY <3>1, FiniteMakers, FS_EmptySet
  <2>5. \A c \in Blocks : c # b => mem'[c] = mem[c]
    BY <1>0, <2>1
  <2> QED BY <2>1, <2>2, <2>3, <2>4, <2>5 DEF RefsCount, Kept
<1>21. ASSUME Save PROVE RefsCount' /\ Kept'
  BY <1>3, <1>21 DEF Save, Touch, threadVars, runVars
<1>8. ASSUME NEW t \in Threads, StopThread(t) \/ CallBlocked(t) PROVE RefsCount' /\ Kept'
  BY <1>3, <1>8 DEF StopThread, CallBlocked, threadVars, mapVars, runVars
\* A thread that does not generate goes to another place than the generator.
<1>9. ASSUME NEW t \in Threads, NEW step \in Where, step # "make", Go(t, step), ~Making(t),
             \A u \in Threads : u # t => job'[u] = job[u],
             refs' = refs, fatal' = fatal, \A c \in Blocks : mem[c].there => mem'[c].there
      PROVE  RefsCount' /\ Kept'
  <2>1. \A u \in Threads : (Making(u)' <=> Making(u)) /\ (Making(u) => job'[u] = job[u])
    BY <1>0, <1>9 DEF Go, Making
  <2> QED BY <1>2, <1>9, <2>1, KeptKept
<1>10. ASSUME NEW t \in Threads, Start(t) \/ Wake(t) \/ Read(t) \/ Shutdown(t)
       PROVE  RefsCount' /\ Kept'
  BY <1>1, <1>9, <1>10 DEF Start, Wake, Read, Shutdown, Making, mapVars, runVars, Where
<1>11. ASSUME NEW t \in Threads, Top(t) PROVE RefsCount' /\ Kept'
  <2>1. /\ mem' = mem /\ refs' = refs /\ fatal' = fatal /\ ~Making(t)
        /\ \A u \in Threads : u # t => job'[u] = job[u]
    BY <1>0, <1>11 DEF Top, Making, mapVars, runVars
  <2>2. CASE at' = at /\ job' = job
    BY <1>3, <2>1, <2>2
  <2>3. CASE Go(t, "shutdown") \/ Go(t, "asleep") \/ Go(t, "look")
    BY <1>9, <2>1, <2>3 DEF Where
  <2> QED BY <1>11, <2>2, <2>3 DEF Top
<1>12. ASSUME NEW t \in Threads, NEW left, Answer(t, left), ~Making(t),
              refs' = refs, fatal' = fatal, \A c \in Blocks : mem[c].there => mem'[c].there
       PROVE  RefsCount' /\ Kept'
  <2>1. \A u \in Threads : u # t => job'[u] = job[u]
    BY <1>0, <1>12 DEF Answer
  <2>2. Go(t, "top") \/ Go(t, "call")
    BY <1>12 DEF Answer, Go
  <2> QED BY <1>9, <1>12, <2>1, <2>2 DEF Where
<1>13. ASSUME NEW t \in Threads, Look(t) PROVE RefsCount' /\ Kept'
  <2>0. ~Making(t) /\ fatal' = fatal
    BY <1>13 DEF Look, Making, runVars
  <2>1. CASE Answer(t, held[t]) /\ mem' = mem /\ refs' = refs
    BY <1>12, <2>0, <2>1
  <2>2. CASE Go(t, "read") /\ job' = job /\ mem' = mem /\ refs' = refs
    BY <1>9, <2>0, <2>2 DEF Where
  <2>3. CASE StartGen(t, mem)
    BY <1>2, <2>0, <2>3, StartGenCounts DEF IKept
  <2> QED BY <1>13, <2>1, <2>2, <2>3 DEF Look
<1>14. ASSUME NEW t \in Threads, Decide(t) PROVE RefsCount' /\ Kept'
  <2>0. ~Making(t) /\ fatal' = fatal
    BY <1>14 DEF Decide, Making, runVars
  <2>1. \A c \in Blocks : mem[c].there => Fetched(t)[c].there
    BY <1>0 DEF Fetched
  <2>2. CASE Answer(t, held[t]) /\ mem' = Fetched(t) /\ refs' = refs
    BY <1>12, <2>0, <2>1, <2>2
  <2>3. CASE StartGen(t, Fetched(t))
    BY <1>2, <2>0, <2>1, <2>3, StartGenCounts DEF IKept
  <2> QED BY <1>14, <2>2, <2>3 DEF Decide
<1>15. ASSUME NEW t \in Threads, LoadFails(t) \/ MakeFails(t) \/ CancelMake(t) PROVE fatal'
  BY <1>15 DEF LoadFails, MakeFails, Fails, CancelMake
\* All of the chunk and its border is there, and loses one.
<1>16. ASSUME NEW t \in Threads, FinishGen(t) PROVE RefsCount' /\ Kept'
  <2>1. RefsCount /\ Kept
    BY <1>2, <1>16 DEF FinishGen, runVars
  <2> DEFINE A == Around[job[t].pos]
             K == {c \in A : mem[c].there}
  <2>2. Making(t) /\ A \subseteq Blocks
    BY <1>0, <1>16, EmergeAssumption DEF FinishGen, Making, JobType, EmergeAssumption
  <2>3. \A c \in A : mem[c].there
    BY <2>1, <2>2 DEF Kept, Makers
  <2>4. K = A
    BY <2>3
  <2>5. /\ refs' = [c \in Blocks |-> IF c \in K THEN refs[c] - 1 ELSE refs[c]]
        /\ mem' = [c \in Blocks |-> IF c \in K \cap ChunkOf[job[t].pos] THEN Generated ELSE mem[c]]
        /\ Answer(t, held[t])
    BY <1>16 DEF FinishGen
  <2>6. at' = [at EXCEPT ![t] = IF held[t] = {} THEN "top" ELSE "call"]
    BY <2>5 DEF Answer, Go
  <2>7. ~Making(t)' /\ \A u \in Threads : u # t => (Making(u)' <=> Making(u)) /\ job'[u] = job[u]
    BY <1>0, <2>5, <2>6 DEF Making, Answer
  <2> HIDE DEF A, K
  <2>8. ASSUME NEW c \in Blocks
        PROVE  refs'[c] = Cardinality(Makers(c)') /\ (Makers(c)' # {} => mem'[c].there)
    <3>1. refs[c] = Cardinality(Makers(c)) /\ (Makers(c) # {} => mem[c].there)
      BY <2>1 DEF RefsCount, Kept
    <3>2. mem[c].there => mem'[c].there
      BY <2>5 DEF Generated
    <3>3. Makers(c)' = Makers(c) \ {t}
      BY <2>7 DEF Makers
    <3>4. CASE c \in A
      <4>1. t \in Makers(c)
        BY <2>2, <3>4 DEF Makers, A
      <4>2. Cardinality(Makers(c) \ {t}) = Cardinality(Makers(c)) - 1
        BY <4>1, FiniteMakers, FS_RemoveElement
      <4>3. refs'[c] = refs[c] - 1
        BY <2>4, <2>5, <3>4
      <4> QED BY <3>1, <3>2, <3>3, <4>1, <4>2, <4>3
    <3>5. CASE c \notin A
      <4>1. t \notin Makers(c)
        BY <3>5 DEF Makers, A
      <4>2. Makers(c) \ {t} = Makers(c)
        BY <4>1
      <4>3. refs'[c] = refs[c]
        BY <2>4, <2>5, <3>5
      <4> QED BY <3>1, <3>2, <3>3, <4>2, <4>3
    <3> QED BY <3>4, <3>5
  <2> QED BY <2>8 DEF RefsCount, Kept
<1>17. ASSUME NEW t \in Threads, NEW r \in held[t], Call(t, r) \/ CallAndAsk(t, r)
       PROVE  RefsCount' /\ Kept'
  <2>1. Called(t, r) /\ mem' = mem /\ refs' = refs /\ fatal' = fatal /\ ~Making(t)
    BY <1>17 DEF Call, CallAndAsk, Called, Making, mapVars, runVars
  <2> QED BY <1>3, <1>12, <2>1 DEF Called
<1>18. ASSUME NEW t \in Threads, Cancel(t) PROVE RefsCount' /\ Kept'
  <2>1. /\ mem' = mem /\ refs' = refs /\ fatal' = fatal /\ job' = job /\ ~Making(t)
        /\ (at' = at \/ Go(t, "ended"))
    BY <1>18 DEF Cancel, Making, mapVars, runVars
  <2> QED BY <1>3, <1>9, <2>1 DEF Where
<1>19. CASE UNCHANGED vars
  BY <1>3, <1>19 DEF vars, threadVars, mapVars, runVars
<1>20. CASE Next
  BY <1>1, <1>20, StepCases, <1>4, <1>5, <1>6, <1>7, <1>8, <1>10, <1>11, <1>13, <1>14, <1>15,
     <1>16, <1>17, <1>18, <1>21
<1> QED BY <1>19, <1>20

\* Until something failed, the blocks that a thread generates with are in memory.
THEOREM BlocksStay == Spec => []BlocksKept
<1>1. Init => IKept
  <2> SUFFICES ASSUME Init PROVE IKept
    OBVIOUS
  <2>1. \A c \in Blocks : Makers(c) = {} /\ refs[c] = 0
    BY DEF Init, Makers, Making
  <2>2. Cardinality({}) = 0
    BY FS_EmptySet
  <2> QED BY <2>1, <2>2, InitTyped DEF IKept, RefsCount, Kept
<1>2. IKept /\ TypeOK' /\ [Next]_vars => IKept'
  BY KeptStep
<1>3. IKept => BlocksKept
  <2> SUFFICES ASSUME IKept, ~fatal, NEW t \in Threads, Making(t), NEW b \in Around[job[t].pos]
               PROVE  mem[b].there
    BY DEF BlocksKept
  <2>1. job[t].pos \in Blocks
    BY TypeParts DEF IKept, ThreadTypes, JobType
  <2>2. b \in Blocks /\ t \in Makers(b)
    BY <2>1, EmergeAssumption DEF EmergeAssumption, Makers
  <2> QED BY <2>2 DEF IKept, Kept
<1> QED BY <1>1, <1>2, <1>3, TypeCorrect, PTL DEF Spec

-----------------------------------------------------------------------------
(* What is never lost *)

LEMMA CopyShape ==
  /\ ~NoCopy.there /\ ~NoCopy.gen /\ Blank.there /\ ~Blank.gen /\ Generated.there /\ Generated.gen
  /\ \A c \in Copy : c.gen => c.there
BY DEF Copy, NoCopy, Blank, Generated

\* Only a block in memory is modified; one that is not has been saved as it is;
\* and what a thread read is what the database holds, as long as the block did
\* not come into memory meanwhile.
DirtyThere == \A b \in dirty : mem[b].there
Saved == \A b \in Blocks \ dirty : mem[b].gen => disk[b].gen
ReadIsCurrent ==
  \A t \in Threads : at[t] = "decide" /\ ~mem[job[t].pos].there => blob[t] = disk[job[t].pos]

IDisk == TypeOK /\ DirtyThere /\ ("slow" \notin perils => Saved /\ ReadIsCurrent)

\* Where the copy of a block in memory comes from
Comes(c) ==
  \/ mem'[c] = mem[c]
  \/ mem'[c] = Generated /\ c \in dirty'
  \/ /\ ~mem[c].there
     /\ \/ mem'[c] = disk[c]
        \/ mem'[c] = Blank /\ ~disk[c].there
        \/ \E t \in Threads : at[t] = "decide" /\ job[t].pos = c /\ mem'[c] = blob[t]

ReadsOn ==
  \A t \in Threads : at'[t] = "decide" =>
    \/ at[t] = "decide" /\ blob'[t] = blob[t] /\ job'[t] = job[t]
    \/ blob'[t] = disk[job'[t].pos]

\* All steps but the server thread's own that write to the database
Fills ==
  /\ UNCHANGED <<perils, disk>>
  /\ \A c \in Blocks : Comes(c)
  /\ dirty \subseteq dirty' /\ \A c \in dirty' : c \in dirty \/ mem'[c].there
  /\ ReadsOn

\* What the last part of getBlockOrStartGen leaves: m, or m and what was missing
LEMMA StartGenFills ==
  ASSUME TypeOK, NEW t \in Threads, NEW m, StartGen(t, m), UNCHANGED <<perils, disk>>,
         \A c \in Blocks : m[c] = mem[c] \/ (~mem[c].there /\ m[c] = blob[t] /\ m[c].there
                                             /\ at[t] = "decide" /\ job[t].pos = c),
         m = [c \in Blocks |-> m[c]], \A u \in Threads : u # t => blob'[u] = blob[u]
  PROVE  Fills
<1>0. /\ at \in [Threads -> Where] /\ job \in [Threads -> JobType] /\ mem \in [Blocks -> Copy]
      /\ disk \in [Blocks -> Copy]
  BY TypeParts DEF ThreadTypes, MapTypes
<1>1. /\ \A u \in Threads : u # t => at'[u] = at[u] /\ job'[u] = job[u]
      /\ at'[t] # "decide"
  BY <1>0 DEF StartGen, Answer, Go
<1>2. ReadsOn
  BY <1>1 DEF ReadsOn
<1>3. CASE mem' = m /\ dirty' = dirty
  BY <1>2, <1>3 DEF Fills, Comes
<1>4. CASE /\ mem' = Loaded(m, Around[job[t].pos])
           /\ dirty' = dirty \cup Created(m, Around[job[t].pos])
  <2> DEFINE B == Around[job[t].pos]
  <2>1. B \subseteq Blocks
    BY <1>0, EmergeAssumption DEF JobType, EmergeAssumption
  <2>2. \A c \in Blocks : mem'[c] = IF c \notin B \/ m[c].there THEN m[c]
                                    ELSE IF disk[c].there THEN disk[c] ELSE Blank
    BY <1>4 DEF Loaded
  <2> HIDE DEF B
  <2>3. \A c \in Blocks : Comes(c)
    BY <2>2 DEF Comes
  <2>4. \A c \in dirty' : c \in dirty \/ mem'[c].there
    BY <1>4, <2>1, <2>2, CopyShape DEF Created, B
  <2> QED BY <1>2, <1>4, <2>3, <2>4 DEF Fills
<1> QED BY <1>3, <1>4 DEF StartGen

LEMMA MapSteps ==
  ASSUME TypeOK, [Next]_vars PROVE Fills \/ Save \/ \E b \in Blocks : Unload(b)
<1>0. /\ at \in [Threads -> Where] /\ job \in [Threads -> JobType] /\ mem \in [Blocks -> Copy]
      /\ disk \in [Blocks -> Copy] /\ blob \in [Threads -> Copy]
  BY TypeParts DEF ThreadTypes, MapTypes
<1>1. ASSUME UNCHANGED <<perils, mem, disk, dirty>>, ReadsOn PROVE Fills
  BY <1>1 DEF Fills, Comes
\* A thread goes on, and has nothing read before the next step.
<1>2. ASSUME NEW t \in Threads, NEW step, step # "decide", Go(t, step),
             \A u \in Threads : u # t => blob'[u] = blob[u] /\ job'[u] = job[u]
      PROVE  ReadsOn
  BY <1>0, <1>2 DEF Go, ReadsOn
<1>3. ASSUME NEW t \in Threads, NEW left, Answer(t, left),
             \A u \in Threads : u # t => blob'[u] = blob[u]
      PROVE  ReadsOn
  <2>1. \A u \in Threads : u # t => job'[u] = job[u]
    BY <1>0, <1>3 DEF Answer
  <2>2. Go(t, "top") \/ Go(t, "call")
    BY <1>3 DEF Answer, Go
  <2> QED BY <1>2, <1>3, <2>1, <2>2
<1>4. ASSUME UNCHANGED <<at, job, blob>> PROVE ReadsOn
  BY <1>4 DEF ReadsOn
<1>5. ASSUME NEW b \in Blocks, NEW p \in Peers, NEW gen \in BOOLEAN, Ask(b, p, gen) PROVE Fills
  BY <1>1, <1>4, <1>5 DEF Ask, threadVars, mapVars
<1>6. ASSUME AskArea \/ AskBlocked \/ AskRefused \/ Close PROVE Fills
  BY <1>1, <1>4, <1>6 DEF AskArea, AskBlocked, AskRefused, Close, threadVars, mapVars
<1>7. ASSUME NEW b \in Blocks, Load(b) PROVE Fills
  <2>1. /\ UNCHANGED <<perils, disk, dirty, at, job, blob>>
        /\ mem' = Loaded(mem, {b})
    BY <1>7 DEF Load, Touch, threadVars
  <2>2. \A c \in Blocks : Comes(c)
    BY <1>0, <2>1 DEF Comes, Loaded
  <2> QED BY <1>4, <2>1, <2>2 DEF Fills
<1>8. ASSUME NEW t \in Threads, StopThread(t) \/ CallBlocked(t) PROVE Fills
  BY <1>1, <1>4, <1>8 DEF StopThread, CallBlocked, threadVars, mapVars
<1>9. ASSUME NEW t \in Threads, Start(t) \/ Wake(t) \/ Shutdown(t) PROVE Fills
  BY <1>1, <1>2, <1>9 DEF Start, Wake, Shutdown, mapVars
<1>10. ASSUME NEW t \in Threads, Top(t) PROVE Fills
  <2>1. /\ UNCHANGED <<perils, mem, disk, dirty, blob>>
        /\ \A u \in Threads : u # t => job'[u] = job[u]
    BY <1>0, <1>10 DEF Top, mapVars
  <2>2. UNCHANGED <<at, job>> \/ Go(t, "shutdown") \/ Go(t, "asleep") \/ Go(t, "look")
    BY <1>10 DEF Top
  <2> QED BY <1>1, <1>2, <1>4, <2>1, <2>2
<1>11. ASSUME NEW t \in Threads, Read(t) PROVE Fills
  <2>1. /\ UNCHANGED <<perils, mem, disk, dirty, job>> /\ Go(t, "decide")
        /\ blob' = [blob EXCEPT ![t] = disk[job[t].pos]]
    BY <1>11 DEF Read, mapVars
  <2>2. ReadsOn
    BY <1>0, <2>1 DEF ReadsOn, Go
  <2> QED BY <1>1, <2>1, <2>2
<1>12. ASSUME NEW t \in Threads, Look(t) PROVE Fills
  <2>1. UNCHANGED <<perils, disk, blob>>
    BY <1>12 DEF Look
  <2>2. CASE Answer(t, held[t]) /\ UNCHANGED <<mem, dirty>>
    BY <1>1, <1>3, <2>1, <2>2
  <2>3. CASE Go(t, "read") /\ UNCHANGED <<job, mem, dirty>>
    BY <1>1, <1>2, <2>1, <2>3
  <2>4. CASE StartGen(t, mem)
    BY <1>0, <2>1, <2>4, StartGenFills
  <2> QED BY <1>12, <2>2, <2>3, <2>4 DEF Look
\* The block that the data were read for is not in memory, or stays as it is.
<1>13. ASSUME NEW t \in Threads
       PROVE  /\ Fetched(t) = [c \in Blocks |-> Fetched(t)[c]]
              /\ \A c \in Blocks :
                   \/ Fetched(t)[c] = mem[c]
                   \/ /\ ~mem[c].there /\ Fetched(t)[c] = blob[t] /\ Fetched(t)[c].there
                      /\ job[t].pos = c
  BY <1>0 DEF Fetched
<1>14. ASSUME NEW t \in Threads, Decide(t) PROVE Fills
  <2>1. /\ UNCHANGED <<perils, disk>> /\ at[t] = "decide"
        /\ \A u \in Threads : u # t => blob'[u] = blob[u]
    BY <1>0, <1>14 DEF Decide
  <2>2. CASE Answer(t, held[t]) /\ mem' = Fetched(t) /\ dirty' = dirty
    <3>1. ReadsOn
      BY <1>3, <2>1, <2>2
    <3> QED BY <1>13, <2>1, <2>2, <3>1 DEF Fills, Comes
  <2>3. CASE StartGen(t, Fetched(t))
    BY <1>13, <2>1, <2>3, StartGenFills
  <2> QED BY <1>14, <2>2, <2>3 DEF Decide
<1>15. ASSUME NEW t \in Threads, Fails(t) PROVE UNCHANGED <<perils, disk>> /\ ReadsOn
  <2>1. /\ Go(t, "shutdown") /\ UNCHANGED <<perils, disk>>
        /\ \A u \in Threads : u # t => blob'[u] = blob[u] /\ job'[u] = job[u]
    BY <1>0, <1>15 DEF Fails
  <2> QED BY <1>2, <2>1
<1>16. ASSUME NEW t \in Threads, LoadFails(t) PROVE Fills
  BY <1>1, <1>15, <1>16 DEF LoadFails
<1>17. ASSUME NEW t \in Threads, MakeFails(t) PROVE Fills
  <2>1. PICK grabbed \in SUBSET Around[job[t].pos] :
          /\ mem' = Loaded(Fetched(t), grabbed)
          /\ dirty' = dirty \cup Created(Fetched(t), grabbed)
    BY <1>17 DEF MakeFails
  <2>2. grabbed \subseteq Blocks
    BY <1>0, EmergeAssumption DEF JobType, EmergeAssumption
  <2> DEFINE m == Fetched(t)
  <2>3. \A c \in Blocks : mem'[c] = IF c \notin grabbed \/ m[c].there THEN m[c]
                                    ELSE IF disk[c].there THEN disk[c] ELSE Blank
    BY <2>1 DEF Loaded
  <2>4. \A c \in Blocks : m[c] = mem[c] \/ at[t] = "decide"
    <3>1. at[t] = "look" \/ at[t] = "decide"
      BY <1>17 DEF MakeFails
    <3>2. at[t] = "look" => mem[job[t].pos].there
      BY <1>13, <1>17 DEF MakeFails
    <3>3. \A c \in Blocks : m[c] = mem[c] \/ (~mem[c].there /\ job[t].pos = c)
      BY <1>13
    <3> HIDE DEF m
    <3> QED BY <3>1, <3>2, <3>3
  <2>5. \A c \in Blocks : m[c] = mem[c] \/ (~mem[c].there /\ m[c] = blob[t] /\ m[c].there
                                            /\ at[t] = "decide" /\ job[t].pos = c)
    BY <1>13, <2>4
  <2>6. \A c \in dirty' : c \in dirty \/ mem'[c].there
    BY <2>1, <2>2, <2>3, CopyShape DEF Created
  <2> HIDE DEF m
  <2>7. \A c \in Blocks : Comes(c)
    BY <2>3, <2>5 DEF Comes
  <2>8. Fails(t)
    BY <1>17 DEF MakeFails
  <2> QED BY <1>15, <2>1, <2>6, <2>7, <2>8 DEF Fills
<1>18. ASSUME NEW t \in Threads, FinishGen(t) PROVE Fills
  <2> DEFINE kept == {c \in Around[job[t].pos] : mem[c].there}
  <2>1. /\ UNCHANGED <<perils, disk, blob>> /\ Answer(t, held[t])
        /\ mem' = [c \in Blocks |-> IF c \in kept \cap ChunkOf[job[t].pos] THEN Generated ELSE mem[c]]
        /\ dirty' = dirty \cup kept
    BY <1>18 DEF FinishGen
  <2>2. kept \subseteq Blocks /\ \A c \in kept : mem[c].there
    BY <1>0, EmergeAssumption DEF JobType, EmergeAssumption
  <2> HIDE DEF kept
  <2>3. \A c \in Blocks : Comes(c)
    BY <2>1 DEF Comes
  <2>4. \A c \in dirty' : c \in dirty \/ mem'[c].there
    BY <2>1, <2>2, CopyShape
  <2> QED BY <1>3, <2>1, <2>3, <2>4 DEF Fills
<1>19. ASSUME NEW t \in Threads, CancelMake(t) PROVE Fills
  BY <1>1, <1>3, <1>19 DEF CancelMake
<1>20. ASSUME NEW t \in Threads, NEW r \in held[t], Call(t, r) \/ CallAndAsk(t, r) PROVE Fills
  <2>1. UNCHANGED <<perils, mem, disk, dirty, blob>> /\ Called(t, r)
    BY <1>20 DEF Call, CallAndAsk, mapVars
  <2>2. ReadsOn
    BY <1>3, <1>4, <2>1 DEF Called
  <2> QED BY <1>1, <2>1, <2>2
<1>21. ASSUME NEW t \in Threads, Cancel(t) PROVE Fills
  <2>1. UNCHANGED <<perils, mem, disk, dirty, blob, job>> /\ (at' = at \/ Go(t, "ended"))
    BY <1>21 DEF Cancel, mapVars
  <2> QED BY <1>1, <1>2, <1>4, <2>1
<1>22. CASE UNCHANGED vars
  BY <1>1, <1>4, <1>22 DEF vars, threadVars, mapVars
<1>23. CASE Next
  BY <1>23, StepCases, <1>5, <1>6, <1>7, <1>8, <1>9, <1>10, <1>11, <1>12, <1>14, <1>16, <1>17,
     <1>18, <1>19, <1>20, <1>21
<1> QED BY <1>22, <1>23

\* A generated block stays generated in the newest copy there is of it.
Prompt == "slow" \notin perils
NewestStays == \A b \in Blocks : Prompt /\ Newest(b).gen => Newest(b)'.gen

LEMMA FillsKeeps == ASSUME IDisk, TypeOK', Fills PROVE IDisk' /\ NewestStays
<1>0. /\ mem \in [Blocks -> Copy] /\ disk \in [Blocks -> Copy] /\ dirty \subseteq Blocks
      /\ mem' \in [Blocks -> Copy] /\ job \in [Threads -> JobType] /\ dirty' \subseteq Blocks
  BY TypeParts DEF IDisk, TypeOK, MapTypes, ThreadTypes
<1>1. \A c \in Blocks : mem[c].there => mem'[c].there
  BY CopyShape DEF Fills, Comes
<1>2. DirtyThere'
  BY <1>0, <1>1 DEF Fills, IDisk, DirtyThere
<1>3. Prompt' <=> Prompt
  BY DEF Fills, Prompt
<1>4. ASSUME Prompt PROVE Saved' /\ ReadIsCurrent' /\ NewestStays
  <2>1. /\ \A b \in Blocks \ dirty : mem[b].gen => disk[b].gen
        /\ \A t \in Threads : at[t] = "decide" /\ ~mem[job[t].pos].there => blob[t] = disk[job[t].pos]
    BY <1>4 DEF IDisk, Prompt, Saved, ReadIsCurrent
  <2>2. ASSUME NEW c \in Blocks
        PROVE  \/ mem'[c] = mem[c]
               \/ mem'[c] = Generated /\ c \in dirty'
               \/ ~mem[c].there /\ mem'[c] = disk[c]
               \/ ~mem[c].there /\ ~disk[c].there /\ mem'[c] = Blank
    <3>1. Comes(c)
      BY DEF Fills
    <3>2. ASSUME NEW t \in Threads, at[t] = "decide", job[t].pos = c, ~mem[c].there
          PROVE  blob[t] = disk[c]
      BY <2>1, <3>2
    <3> QED BY <3>1, <3>2 DEF Comes
  <2>3. Saved'
    <3> SUFFICES ASSUME NEW c \in Blocks, c \notin dirty', mem'[c].gen PROVE disk[c].gen
      BY DEF Saved, Fills
    <3> QED BY <2>1, <2>2, CopyShape DEF Fills
  <2>4. ReadIsCurrent'
    <3> SUFFICES ASSUME NEW t \in Threads, at'[t] = "decide", ~mem'[job'[t].pos].there
                 PROVE  blob'[t] = disk[job'[t].pos]
      BY DEF ReadIsCurrent, Fills
    <3>1. CASE at[t] = "decide" /\ blob'[t] = blob[t] /\ job'[t] = job[t]
      <4>1. job[t].pos \in Blocks
        BY <1>0 DEF JobType
      <4> QED BY <1>1, <2>1, <3>1, <4>1
    <3> QED BY <3>1 DEF Fills, ReadsOn
  <2>5. NewestStays
    <3> SUFFICES ASSUME NEW c \in Blocks, Newest(c).gen PROVE Newest(c)'.gen
      BY DEF NewestStays
    <3>1. disk[c].gen => disk[c].there
      BY <1>0, CopyShape
    <3>2. Newest(c)' = IF mem'[c].there THEN mem'[c] ELSE disk[c]
      BY DEF Fills, Newest
    <3>3. CASE mem[c].there
      BY <1>1, <2>2, <3>2, <3>3, CopyShape DEF Newest
    <3>4. CASE ~mem[c].there
      <4>1. disk[c].gen
        BY <3>4 DEF Newest
      <4>2. mem'[c] \in {mem[c], Generated, disk[c]}
        BY <2>2, <3>1, <4>1
      <4> QED BY <3>1, <3>2, <3>4, <4>1, <4>2, CopyShape
    <3> QED BY <3>3, <3>4
  <2> QED BY <2>3, <2>4, <2>5
<1>5. NewestStays
  BY <1>4 DEF NewestStays
<1> QED BY <1>2, <1>3, <1>4, <1>5 DEF IDisk, Prompt

\* Save writes what is in memory; a block written back is nobody's to deserialize.
LEMMA WritesKeep ==
  ASSUME IDisk, TypeOK', Save \/ \E b \in Blocks : Unload(b) PROVE IDisk' /\ NewestStays
<1>0. /\ mem \in [Blocks -> Copy] /\ disk \in [Blocks -> Copy] /\ dirty \subseteq Blocks
      /\ job \in [Threads -> JobType]
  BY TypeParts DEF IDisk, MapTypes, ThreadTypes
<1>1. UNCHANGED <<perils, at, job, blob>>
  BY DEF Save, Unload, Touch, threadVars
<1>2. DirtyThere /\ (Prompt => Saved /\ ReadIsCurrent)
  BY DEF IDisk, Prompt
<1>3. \A t \in Threads : job[t].pos \in Blocks
  BY <1>0 DEF JobType
<1>4. CASE Save
  <2>1. /\ disk' = [b \in Blocks |-> IF b \in dirty THEN mem[b] ELSE disk[b]]
        /\ dirty' = {} /\ mem' = mem
    BY <1>4 DEF Save
  <2>2. DirtyThere'
    BY <2>1 DEF DirtyThere
  <2>3. Prompt => Saved'
    BY <1>2, <2>1 DEF Saved
  <2>4. Prompt => ReadIsCurrent'
    BY <1>1, <1>2, <1>3, <2>1 DEF ReadIsCurrent, DirtyThere
  <2>5. NewestStays
    BY <1>0, <1>2, <2>1 DEF NewestStays, Newest, DirtyThere
  <2> QED BY <1>1, <2>2, <2>3, <2>4, <2>5 DEF IDisk, Prompt
<1>5. CASE \E b \in Blocks : Unload(b)
  <2>1. PICK b \in Blocks : Unload(b)
    BY <1>5
  <2>2. /\ mem[b].there /\ (Prompt => \A t \in Threads : at[t] = "decide" => job[t].pos # b)
        /\ disk' = IF b \in dirty THEN [disk EXCEPT ![b] = mem[b]] ELSE disk
        /\ mem' = [mem EXCEPT ![b] = NoCopy] /\ dirty' = dirty \ {b}
    BY <2>1 DEF Unload, Unused, Prompt
  <2>3. \A c \in Blocks : c # b => mem'[c] = mem[c] /\ disk'[c] = disk[c]
    BY <1>0, <2>2
  <2>4. mem'[b] = NoCopy /\ disk'[b] = IF b \in dirty THEN mem[b] ELSE disk[b]
    BY <1>0, <2>2
  <2>5. DirtyThere'
    BY <1>0, <1>2, <2>2, <2>3 DEF DirtyThere
  <2>6. Prompt => Saved'
    BY <1>2, <2>2, <2>3, <2>4, CopyShape DEF Saved
  <2>7. Prompt => ReadIsCurrent'
    BY <1>1, <1>2, <1>3, <2>2, <2>3 DEF ReadIsCurrent
  <2>8. NewestStays
    <3> SUFFICES ASSUME NEW c \in Blocks, Prompt, Newest(c).gen PROVE Newest(c)'.gen
      BY DEF NewestStays
    <3>1. CASE c = b
      BY <1>2, <2>2, <2>4, <3>1, CopyShape DEF Newest, Saved
    <3>2. CASE c # b
      BY <2>3, <3>2 DEF Newest
    <3> QED BY <3>1, <3>2
  <2> QED BY <1>1, <2>5, <2>6, <2>7, <2>8 DEF IDisk, Prompt
<1> QED BY <1>4, <1>5

\* No ungenerated copy of a block takes the place of its generated one, as long as a
\* block does not go from memory while a thread waits to deserialize it.
THEOREM NothingGeneratedIsLost == Spec => GeneratedStays
<1>1. Init => IDisk
  <2> SUFFICES ASSUME Init PROVE IDisk
    OBVIOUS
  <2>1. TypeOK /\ \A t \in Threads : at[t] # "decide"
    BY InitTyped DEF Init
  <2>2. DirtyThere /\ Saved
    BY CopyShape DEF Init, DirtyThere, Saved
  <2> QED BY <2>1, <2>2 DEF IDisk, ReadIsCurrent
<1>2. IDisk /\ TypeOK' /\ [Next]_vars => IDisk' /\ NewestStays
  BY MapSteps, FillsKeeps, WritesKeep DEF IDisk
<1>3. NewestStays => [\A b \in Blocks : "slow" \notin perils /\ Newest(b).gen => Newest(b)'.gen]_vars
  BY DEF NewestStays, Prompt
<1> QED BY <1>1, <1>2, <1>3, TypeCorrect, PTL DEF Spec, GeneratedStays
=============================================================================
