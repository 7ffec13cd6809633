-------------------------------- MODULE Emerge --------------------------------
(***************************************************************************)
(* The engine's emerge threads (engine/src/emerge.cpp): requests for map    *)
(* blocks from clients, the server and Lua are queued, and a pool of        *)
(* threads fetches each block from memory, from the database or from the    *)
(* map generator and then runs the callbacks of those who asked. The queue  *)
(* is under m_queue_mutex, the map under the environment's mutex; the       *)
(* database is read and chunks are generated under neither. What one holds  *)
(* of the two mutexes atomically is one action.                             *)
(***************************************************************************)
EXTENDS Integers, FiniteSets, Sequences

CONSTANTS
  Threads,      \* a set of numbers: the lowest wins ties
  Blocks,       \* block positions
  ChunkOf,      \* the blocks of the chunk that contains a block
  Around,       \* the blocks of that chunk and its border
  OverLimit,    \* positions beyond the limit of the map
  Outside,      \* positions whose chunk is not fully inside the mapgen limits
  OnDisk,       \* blocks generated and saved before the server starts, in each world
  Peers, Nobody,  \* who asks; PEER_ID_INEXISTENT is one of them
  MaxAreas,     \* bound: requests with a callback (core.emerge_area)
  MaxAsks,      \* bound: requests accepted in each world
  QTotal, QGenerate, QDiskonly,  \* m_qlimit_total, m_qlimit_generate, m_qlimit_diskonly
  Worlds,       \* the sets of perils an instance looks at
  None, Free, Server  \* no peer, no holder, the server thread

AllPerils == {"blank",    \* somebody of the server loads blocks that do not exist
              "invalid",  \* the database holds a block that cannot be read
              "script",   \* a mod's mapgen script fails
              "slow",     \* a thread reads for longer than unused blocks stay in memory
              "chained"}  \* a callback of core.emerge_area calls it again

ASSUME EmergeAssumption ==
  /\ Threads \subseteq Nat /\ IsFiniteSet(Threads) /\ IsFiniteSet(Blocks)
  /\ ChunkOf \in [Blocks -> SUBSET Blocks] /\ Around \in [Blocks -> SUBSET Blocks]
  /\ \A b \in Blocks : b \in ChunkOf[b] /\ ChunkOf[b] \subseteq Around[b]
  /\ \A b, c \in Blocks : c \in ChunkOf[b] => ChunkOf[c] = ChunkOf[b] /\ Around[c] = Around[b]
  /\ OverLimit \subseteq Blocks /\ Outside \subseteq Blocks
  /\ Blocks # {} /\ Nobody \in Peers /\ None \notin Peers
  /\ Free \notin Threads /\ Server \notin Threads /\ Free # Server
  /\ {MaxAreas, QTotal, QGenerate, QDiskonly} \subseteq Nat
  /\ Worlds \subseteq SUBSET AllPerils /\ \A w \in Worlds : MaxAsks[w] \in Nat /\ OnDisk[w] \subseteq Blocks

VARIABLES
  perils,       \* what can go wrong in this world; never changes
  entry,        \* m_blocks_enqueued; who asked is None where there is no entry
  count,        \* m_peer_queue_count
  queue,        \* m_block_queue of each thread
  signalled,    \* threads whose m_queue_event is set
  mutex,        \* who holds m_queue_mutex longer than an action: a thread that cancels
  env,          \* who holds the environment's mutex while it waits for m_queue_mutex
  at,           \* where each thread is
  job,          \* the position a thread works on, and whether it may be generated
  held,         \* the callbacks a thread has still to run
  blob,         \* databuf: what a thread read from the database
  mem, disk,    \* the copy of each block in memory, in the database
  dirty,        \* blocks modified since they were loaded or saved
  refs,         \* the reference count of each block in memory
  making,       \* m_chunks_in_progress
  asked,        \* how many requests with a callback were accepted: 1, 2...
  asks,         \* how many requests of any sort were
  called,       \* how often each request's callback was run
  fatal,        \* setAsyncFatalError was called
  open,         \* the server thread runs
  stopped       \* threads told to stop

queueVars == <<entry, count, queue, signalled>>
threadVars == <<at, job, held, blob>>
mapVars == <<mem, disk, dirty, refs, making>>
runVars == <<fatal, open, stopped>>
vars == <<perils, queueVars, mutex, env, threadVars, mapVars, asked, asks, called, runVars>>

Requests == 1..MaxAreas

NoEntry == [peer |-> None, gen |-> FALSE, calls |-> {}]
Idle == [pos |-> CHOOSE b \in Blocks : TRUE, gen |-> FALSE]
NoCopy == [there |-> FALSE, gen |-> FALSE]
Blank == [there |-> TRUE, gen |-> FALSE]
Generated == [there |-> TRUE, gen |-> TRUE]
Copy == {NoCopy, Blank, Generated}

Queued == {b \in Blocks : entry[b].peer # None}

-----------------------------------------------------------------------------
(* EmergeManager: pushing, under m_queue_mutex. *)

\* pushBlockEmergeData's limits. FORCE_QUEUE goes with the requests of Lua.
Allowed(p, gen, force) ==
  \/ force
  \/ /\ Cardinality(Queued) < QTotal
     /\ IF p = Nobody THEN 2 * count[p] < QTotal
                      ELSE count[p] < IF gen THEN QGenerate ELSE QDiskonly

\* getOptimalThread
Optimal(t) ==
  \A u \in Threads :
    \/ Len(queue[t]) < Len(queue[u])
    \/ Len(queue[t]) = Len(queue[u]) /\ t <= u

\* The first to ask for a position is the peer it counts for.
CountedNever(b, p) == count
CountedAlways(b, p) == [count EXCEPT ![p] = @ + 1]
Counted(b, p) == IF b \in Queued THEN count ELSE [count EXCEPT ![p] = @ + 1]
PushedAlways(b, t) == [queue EXCEPT ![t] = Append(@, b)]
SignalledNever(b, t) == signalled
Signalled(b, t) == IF b \in Queued THEN signalled ELSE signalled \cup {t}
Pushed(b, t) == IF b \in Queued THEN queue ELSE [queue EXCEPT ![t] = Append(@, b)]

\* enqueueBlockEmergeEx; calls is empty or one request.
Enqueue(b, p, gen, calls) ==
  /\ Allowed(p, gen, calls # {})
  /\ entry' = [entry EXCEPT ![b] =
       [peer |-> IF b \in Queued THEN entry[b].peer ELSE p,
        gen |-> entry[b].gen \/ gen,
        calls |-> entry[b].calls \cup calls]]
  /\ count' = Counted(b, p)
  /\ \E t \in Threads :
       /\ Optimal(t)
       /\ queue' = Pushed(b, t)
       /\ signalled' = Signalled(b, t)
  /\ asks < MaxAsks[perils] /\ asks' = asks + 1

\* core.emerge_area, for one block
EmergeArea ==
  /\ asked < MaxAreas /\ asked' = asked + 1
  /\ \E b \in Blocks : Enqueue(b, Nobody, TRUE, {asked'})

\* popBlockEmergeData: the first position of the thread's queue
PopFirst(t) ==
  LET b == Head(queue[t])
  IN  /\ queue' = [queue EXCEPT ![t] = Tail(@)]
      /\ entry' = [entry EXCEPT ![b] = NoEntry]
      /\ count' = [count EXCEPT ![entry[b].peer] = @ - 1]

-----------------------------------------------------------------------------
(* The server thread, which holds the environment's mutex. *)

\* A client's request, or the server's for an active block: never beyond the
\* limit of the map.
Ask(b, p, gen) ==
  /\ b \notin OverLimit /\ (p = Nobody => gen)
  /\ open /\ env \in {Free, Server} /\ mutex = Free
  /\ Enqueue(b, p, gen, {})
  /\ env' = Free
  /\ UNCHANGED <<perils, mutex, threadVars, mapVars, asked, called, runVars>>

AskArea ==
  /\ open /\ env \in {Free, Server} /\ mutex = Free
  /\ EmergeArea
  /\ env' = Free
  /\ UNCHANGED <<perils, mutex, threadVars, mapVars, called, runVars>>

\* The same, while a thread that cancels holds m_queue_mutex.
AskBlocked ==
  /\ open /\ env = Free /\ mutex # Free
  /\ env' = Server
  /\ UNCHANGED <<perils, queueVars, mutex, threadVars, mapVars, asked, asks, called, runVars>>

\* It gets the queue; the request is refused.
AskRefused ==
  /\ env = Server /\ mutex = Free
  /\ env' = Free
  /\ UNCHANGED <<perils, queueVars, mutex, threadVars, mapVars, asked, asks, called, runVars>>

Touch == open /\ env = Free /\ UNCHANGED <<perils, queueVars, mutex, env, threadVars, refs, making, asked, asks, called, runVars>>

\* Blocks B fetched from the database or created, beside those in memory, m
Loaded(m, B) ==
  [c \in Blocks |-> IF c \notin B \/ m[c].there THEN m[c]
                    ELSE IF disk[c].there THEN disk[c] ELSE Blank]

\* emergeBlock under the environment's mutex, for Lua, VoxelManips, clearObjects,
\* a search for a place to spawn. With create_blank a block that is not in the
\* database is created, unmodified, unless it is beyond the limit.
Load(b) ==
  /\ Touch
  /\ ~mem[b].there
  /\ \/ disk[b].there
     \/ "blank" \in perils /\ b \notin OverLimit
  /\ mem' = Loaded(mem, {b})
  /\ UNCHANGED <<disk, dirty>>

\* Server::save, every few seconds
Save ==
  /\ Touch
  /\ dirty # {}
  /\ disk' = [b \in Blocks |-> IF b \in dirty THEN mem[b] ELSE disk[b]]
  /\ dirty' = {}
  /\ UNCHANGED mem

\* timerUpdate. A block that came into memory after a thread missed it there is
\* not unloaded before that thread looks again: 29 s unused are needed.
UnloadReferenced(b) == TRUE
Unreferenced(b) == refs[b] = 0
Unused(b) ==
  \/ "slow" \in perils
  \/ \A t \in Threads : at[t] \in {"read", "decide"} => job[t].pos # b
Unload(b) ==
  /\ Touch
  /\ mem[b].there /\ Unreferenced(b) /\ Unused(b)
  /\ disk' = IF b \in dirty THEN [disk EXCEPT ![b] = mem[b]] ELSE disk
  /\ mem' = [mem EXCEPT ![b] = NoCopy]
  /\ dirty' = dirty \ {b}

\* ~Server: the server thread has ended its step; then stopThreads.
Close ==
  /\ open /\ env # Server
  /\ open' = FALSE
  /\ UNCHANGED <<perils, queueVars, mutex, env, threadVars, mapVars, asked, asks, called, fatal, stopped>>

StoppedSilently(t) == signalled
StopSignal(t) == signalled \cup {t}
StopThread(t) ==
  /\ ~open /\ t \notin stopped /\ \A u \in Threads : u < t => u \in stopped
  /\ stopped' = stopped \cup {t}
  /\ signalled' = StopSignal(t)
  /\ UNCHANGED <<perils, entry, count, queue, mutex, env, threadVars, mapVars, asked, asks, called, fatal, open>>

-----------------------------------------------------------------------------
(* EmergeThread *)

Go(t, step) == at' = [at EXCEPT ![t] = step]

\* initScripting. Where it cannot fail the threads begin with their loop.
Start(t) ==
  /\ at[t] = "start"
  /\ \/ Go(t, "top") /\ UNCHANGED fatal
     \/ Go(t, "shutdown") /\ fatal' = TRUE
  /\ UNCHANGED <<perils, queueVars, mutex, env, job, held, blob, mapVars, asked, asks, called, open, stopped>>

\* One round of the loop in run(), up to where the block is looked for. The
\* callbacks of a position over the limit are dropped.
Top(t) ==
  /\ at[t] = "top"
  /\ \/ /\ t \in stopped
        /\ Go(t, "shutdown") /\ UNCHANGED <<entry, count, queue, job, held>>
     \/ /\ t \notin stopped /\ mutex = Free /\ queue[t] = <<>>
        /\ Go(t, "asleep") /\ UNCHANGED <<entry, count, queue, job, held>>
     \/ /\ t \notin stopped /\ mutex = Free /\ queue[t] # <<>>
        /\ PopFirst(t)
        /\ LET b == Head(queue[t])
           IN  IF b \in OverLimit THEN UNCHANGED <<at, job, held>>
               ELSE /\ Go(t, "look")
                    /\ job' = [job EXCEPT ![t] = [pos |-> b, gen |-> entry[b].gen]]
                    /\ held' = [held EXCEPT ![t] = entry[b].calls]
  /\ UNCHANGED <<perils, signalled, mutex, env, blob, mapVars, asked, asks, called, runVars>>

\* m_queue_event.wait()
Wake(t) ==
  /\ at[t] = "asleep" /\ t \in signalled
  /\ signalled' = signalled \ {t}
  /\ Go(t, "top")
  /\ UNCHANGED <<perils, entry, count, queue, mutex, env, job, held, blob, mapVars, asked, asks, called, runVars>>

\* The block was found or the request is cancelled: the callbacks follow, then
\* the next round, left being the callbacks still to run.
Answer(t, left) ==
  /\ Go(t, IF left = {} THEN "top" ELSE "call")
  /\ job' = IF left = {} THEN [job EXCEPT ![t] = Idle] ELSE job

\* Is the chunk of b free to be made? (initBlockMake)
MakeAnyway(b) == TRUE
NotInProgress(b) == ChunkOf[b] \notin making

\* Those of them that had to be created; setIsUnderground marks them modified.
Created(m, B) == {c \in B : ~m[c].there /\ ~disk[c].there}

\* The last part of getBlockOrStartGen, m being the blocks in memory:
\* initBlockMake loads or creates the chunk and its border and keeps them. A
\* chunk beyond the mapgen limits stays in m_chunks_in_progress.
StartGen(t, m) ==
  LET b == job[t].pos
      start == job[t].gen /\ NotInProgress(b)
  IN  /\ making' = IF start THEN making \cup {ChunkOf[b]} ELSE making
      /\ IF start /\ b \notin Outside
         THEN /\ mem' = Loaded(m, Around[b])
              /\ dirty' = dirty \cup Created(m, Around[b])
              /\ refs' = [c \in Blocks |-> IF c \in Around[b] THEN refs[c] + 1 ELSE refs[c]]
              /\ Go(t, "make") /\ UNCHANGED job
         ELSE mem' = m /\ UNCHANGED <<dirty, refs>> /\ Answer(t, held[t])

\* getBlockOrStartGen, without data
Look(t) ==
  LET b == job[t].pos
  IN  /\ at[t] = "look" /\ env = Free
      /\ \/ mem[b].gen /\ Answer(t, held[t]) /\ UNCHANGED <<mem, dirty, refs, making>>
         \/ ~mem[b].there /\ Go(t, "read") /\ UNCHANGED <<job, mem, dirty, refs, making>>
         \/ mem[b].there /\ ~mem[b].gen /\ StartGen(t, mem)
      /\ UNCHANGED <<perils, queueVars, mutex, env, held, blob, disk, asked, asks, called, runVars>>

\* m_db.loadBlock: no lock but the database's own
Read(t) ==
  /\ at[t] = "read"
  /\ blob' = [blob EXCEPT ![t] = disk[job[t].pos]]
  /\ Go(t, "decide")
  /\ UNCHANGED <<perils, queueVars, mutex, env, job, held, mapVars, asked, asks, called, runVars>>

\* The blocks in memory once the data read are deserialized, where the block is
\* not there already.
FetchedOver(t) == IF blob[t].there THEN [mem EXCEPT ![job[t].pos] = blob[t]] ELSE mem
Fetched(t) ==
  LET b == job[t].pos
  IN  IF ~mem[b].there /\ blob[t].there THEN [mem EXCEPT ![b] = blob[t]] ELSE mem

\* getBlockOrStartGen, with the data
Decide(t) ==
  LET b == job[t].pos
      m == Fetched(t)
  IN  /\ at[t] = "decide" /\ env = Free
      /\ \/ m[b].gen /\ mem' = m /\ Answer(t, held[t]) /\ UNCHANGED <<dirty, refs, making>>
         \/ ~m[b].gen /\ StartGen(t, m)
      /\ blob' = [blob EXCEPT ![t] = NoCopy]
      /\ UNCHANGED <<perils, queueVars, mutex, env, held, disk, asked, asks, called, runVars>>

\* Invalid data: the exception ends the loop, and the callbacks are gone.
Fails(t) ==
  /\ "invalid" \in perils
  /\ Go(t, "shutdown") /\ fatal' = TRUE
  /\ blob' = [blob EXCEPT ![t] = NoCopy]
  /\ held' = [held EXCEPT ![t] = {}]
  /\ job' = [job EXCEPT ![t] = Idle]
  /\ UNCHANGED <<perils, queueVars, mutex, env, disk, asked, asks, called, open, stopped>>

LoadFails(t) ==
  /\ at[t] = "decide" /\ env = Free
  /\ ~mem[job[t].pos].there /\ blob[t].there
  /\ UNCHANGED <<mem, dirty, refs, making>>
  /\ Fails(t)

\* The same while initBlockMake loads the chunk: what it grabbed stays grabbed,
\* and the chunk stays in m_chunks_in_progress.
MakeFails(t) ==
  LET b == job[t].pos
      m == Fetched(t)
  IN  /\ at[t] \in {"look", "decide"} /\ env = Free
      /\ (at[t] = "look" => mem[b].there) /\ ~m[b].gen
      /\ job[t].gen /\ NotInProgress(b) /\ b \notin Outside
      /\ making' = making \cup {ChunkOf[b]}
      /\ \E c \in Around[b], grabbed \in SUBSET Around[b] :
           /\ ~m[c].there /\ disk[c].there /\ c \notin grabbed
           /\ mem' = Loaded(m, grabbed)
           /\ dirty' = dirty \cup Created(m, grabbed)
           /\ refs' = [d \in Blocks |-> IF d \in grabbed THEN refs[d] + 1 ELSE refs[d]]
      /\ Fails(t)

\* finishGen
FinishGen(t) ==
  LET b == job[t].pos
      kept == {c \in Around[b] : mem[c].there}
  IN  /\ at[t] = "make" /\ env = Free
      /\ mem' = [c \in Blocks |-> IF c \in kept \cap ChunkOf[b] THEN Generated ELSE mem[c]]
      /\ dirty' = dirty \cup kept
      /\ refs' = [c \in Blocks |-> IF c \in kept THEN refs[c] - 1 ELSE refs[c]]
      /\ making' = making \ {ChunkOf[b]}
      /\ Answer(t, held[t])
      /\ UNCHANGED <<perils, queueVars, mutex, env, held, blob, disk, asked, asks, called, runVars>>

\* A mapgen script fails: cancelBlockMake. It holds no mutex, so a count may
\* lose this update, or another thread's that it races with.
CancelMake(t) ==
  LET kept == {c \in Around[job[t].pos] : mem[c].there}
  IN  /\ "script" \in perils
      /\ at[t] = "make"
      /\ fatal' = TRUE
      /\ \E drop \in [kept -> 0..2] :
           refs' = [c \in Blocks |-> IF c \in kept THEN refs[c] - drop[c] ELSE refs[c]]
      /\ Answer(t, held[t])
      /\ UNCHANGED <<perils, queueVars, mutex, env, held, blob, mem, disk, dirty, making, asked, asks, called, open, stopped>>

\* runCompletionCallbacks, one of them: it takes the environment's mutex.
CallTwice(t, r) == held
Uncalled(t, r) == [held EXCEPT ![t] = @ \ {r}]
Called(t, r) ==
  /\ at[t] \in {"call", "cancel"} /\ r \in held[t]
  /\ called' = [called EXCEPT ![r] = @ + 1]
  /\ held' = Uncalled(t, r)
  /\ IF at[t] = "call" THEN Answer(t, held'[t]) ELSE UNCHANGED <<at, job>>

Call(t, r) ==
  /\ env = Free \/ (env = t /\ mutex = Free)
  /\ Called(t, r)
  /\ env' = Free
  /\ UNCHANGED <<perils, queueVars, mutex, blob, mapVars, asked, asks, runVars>>

\* A callback that asks for another block and may have waited for the queue.
CallAndAsk(t, r) ==
  /\ "chained" \in perils
  /\ env \in {Free, t} /\ mutex = Free
  /\ Called(t, r)
  /\ EmergeArea
  /\ env' = Free
  /\ UNCHANGED <<perils, mutex, blob, mapVars, runVars>>

\* The same, while somebody cancels, maybe this very thread.
CallBlocked(t) ==
  /\ "chained" \in perils
  /\ at[t] \in {"call", "cancel"} /\ held[t] # {} /\ asked < MaxAreas
  /\ env = Free /\ mutex # Free
  /\ env' = t
  /\ UNCHANGED <<perils, queueVars, mutex, threadVars, mapVars, asked, asks, called, runVars>>

\* cancelPendingItems: m_queue_mutex is held to the end of it.
Shutdown(t) ==
  /\ at[t] = "shutdown" /\ mutex = Free
  /\ mutex' = t
  /\ Go(t, "cancel")
  /\ UNCHANGED <<perils, queueVars, env, job, held, blob, mapVars, asked, asks, called, runVars>>

Cancel(t) ==
  /\ at[t] = "cancel" /\ held[t] = {} /\ env # t
  /\ \/ /\ queue[t] # <<>>
        /\ PopFirst(t)
        /\ held' = [held EXCEPT ![t] = entry[Head(queue[t])].calls]
        /\ UNCHANGED <<mutex, at>>
     \/ /\ queue[t] = <<>>
        /\ mutex' = Free /\ Go(t, "ended")
        /\ UNCHANGED <<entry, count, queue, held>>
  /\ UNCHANGED <<perils, signalled, env, job, blob, mapVars, asked, asks, called, runVars>>

-----------------------------------------------------------------------------
Init ==
  /\ perils \in Worlds
  /\ entry = [b \in Blocks |-> NoEntry] /\ count = [p \in Peers |-> 0]
  /\ queue = [t \in Threads |-> <<>>] /\ signalled = {}
  /\ mutex = Free /\ env = Free
  /\ at = [t \in Threads |-> IF "script" \in perils THEN "start" ELSE "top"]
  /\ job = [t \in Threads |-> Idle]
  /\ held = [t \in Threads |-> {}] /\ blob = [t \in Threads |-> NoCopy]
  /\ mem = [b \in Blocks |-> NoCopy]
  /\ disk = [b \in Blocks |-> IF b \in OnDisk[perils] THEN Generated ELSE NoCopy]
  /\ dirty = {} /\ refs = [b \in Blocks |-> 0] /\ making = {}
  /\ asked = 0 /\ asks = 0 /\ called = [r \in Requests |-> 0]
  /\ fatal = FALSE /\ open = TRUE /\ stopped = {}

Step(t) ==
  \/ Start(t) \/ Top(t) \/ Wake(t)
  \/ Look(t) \/ Read(t) \/ Decide(t) \/ LoadFails(t) \/ MakeFails(t)
  \/ FinishGen(t) \/ CancelMake(t)
  \/ \E r \in held[t] : Call(t, r) \/ CallAndAsk(t, r)
  \/ CallBlocked(t)
  \/ Shutdown(t) \/ Cancel(t)

Next ==
  \/ \E b \in Blocks, p \in Peers, gen \in BOOLEAN : Ask(b, p, gen)
  \/ AskArea
  \/ AskBlocked \/ AskRefused
  \/ \E b \in Blocks : Load(b) \/ Unload(b)
  \/ Save
  \/ Close
  \/ \E t \in Threads : StopThread(t) \/ Step(t)

\* The operating system runs every thread, makeChunk ends, and the server ends
\* after a fatal error.
Spec == Init /\ [][Next]_vars
FairSpec ==
  /\ Spec
  /\ \A t \in Threads : WF_vars(Step(t)) /\ WF_vars(StopThread(t))
  /\ WF_vars(fatal /\ Close)
-----------------------------------------------------------------------------
TypeOK ==
  /\ perils \in Worlds
  /\ entry \in [Blocks -> [peer : Peers \cup {None}, gen : BOOLEAN, calls : SUBSET Requests]]
  /\ count \in [Peers -> Nat]
  /\ queue \in [Threads -> Seq(Blocks)] /\ signalled \subseteq Threads
  /\ mutex \in Threads \cup {Free} /\ env \in Threads \cup {Free, Server}
  /\ at \in [Threads -> {"start", "top", "asleep", "look", "read", "decide", "make", "call",
                         "shutdown", "cancel", "ended"}]
  /\ job \in [Threads -> [pos : Blocks, gen : BOOLEAN]]
  /\ held \in [Threads -> SUBSET Requests] /\ blob \in [Threads -> Copy]
  /\ mem \in [Blocks -> Copy] /\ disk \in [Blocks -> Copy] /\ dirty \subseteq Blocks
  /\ refs \in [Blocks -> Int]
  /\ making \subseteq {ChunkOf[b] : b \in Blocks}
  /\ asked \in 0..MaxAreas /\ asks \in 0..MaxAsks[perils] /\ called \in [Requests -> Nat]
  /\ fatal \in BOOLEAN /\ open \in BOOLEAN /\ stopped \subseteq Threads

\* m_peer_queue_count is the number of queued positions of each peer: the
\* decrement cannot underflow, and a peer is not shut out for ever
\* (pushBlockEmergeData, popBlockEmergeData).
PeerCountExact ==
  \A p \in Peers : count[p] = Cardinality({b \in Blocks : entry[b].peer = p})

\* A position with an entry is in exactly one place of one thread's queue, and
\* nothing else is in the queues: each of the two structures can be popped by
\* what the other says (enqueueBlockEmergeEx, popBlockEmerge).
QueuedOnce ==
  /\ \A t \in Threads : \A i \in DOMAIN queue[t] : queue[t][i] \in Queued
  /\ \A b \in Queued : \E t \in Threads : \E i \in DOMAIN queue[t] : queue[t][i] = b
  /\ \A t, u \in Threads : \A i \in DOMAIN queue[t], j \in DOMAIN queue[u] :
       queue[t][i] = queue[u][j] => t = u /\ i = j

\* No two threads generate the same chunk, though positions of it are asked for
\* while it is in progress and found ungenerated in memory (initBlockMake).
Making(t) == at[t] = "make"
OneMaker ==
  \A t, u \in Threads : t # u /\ Making(t) /\ Making(u) => ChunkOf[job[t].pos] # ChunkOf[job[u].pos]

\* The blocks of a chunk and its border stay in memory while it is generated,
\* though the neighbours' threads drop their references to the same blocks
\* (initBlockMake, finishBlockMake, timerUpdate).
BlocksKept ==
  ~fatal => \A t \in Threads : Making(t) => \A b \in Around[job[t].pos] : mem[b].there

\* A generated block is never replaced by a copy that is not, though a thread
\* that read one from the database under no lock may find that another thread
\* generated the block meanwhile ("someone else was faster. don't touch it to
\* prevent data loss", getBlockOrStartGen; timerUpdate, Server::save).
Newest(b) == IF mem[b].there THEN mem[b] ELSE disk[b]
GeneratedStays ==
  [][\A b \in Blocks : "slow" \notin perils /\ Newest(b).gen => Newest(b)'.gen]_vars

\* No callback runs twice or waits in two places, although an entry collects the
\* callbacks of several requests and is asked for again while a thread works on
\* the same position (pushBlockEmergeData, runCompletionCallbacks).
Pending(r) == (\E b \in Blocks : r \in entry[b].calls) \/ (\E t \in Threads : r \in held[t])
AnsweredOnce ==
  \A r \in Requests :
    /\ called[r] <= IF Pending(r) THEN 0 ELSE 1
    /\ \A b, c \in Blocks : r \in entry[b].calls \cap entry[c].calls => b = c
    /\ \A t, u \in Threads : r \in held[t] \cap held[u] => t = u
    /\ \A b \in Blocks, t \in Threads : r \notin entry[b].calls \cap held[t]

\* Every callback is run, though the server may stop at any time, unless the
\* position is over the limit of the map.
Waiting(r) ==
  \/ \E b \in Blocks \ OverLimit : r \in entry[b].calls
  \/ \E t \in Threads : r \in held[t]
Answered == \A r \in Requests : perils = {} /\ Waiting(r) ~> called[r] > 0

\* stopThreads returns: every thread ends ("Stop all emerge activity and finish
\* off mapgen callbacks", ~Server).
Ended == \A t \in Threads : at[t] = "ended"
StopEnds == perils = {} /\ ~open ~> Ended
StopFinishes == ~open ~> Ended
=============================================================================
