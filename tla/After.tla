------------------------------- MODULE After -------------------------------
(***************************************************************************)
(* core.after (engine/builtin/common/after.lua): jobs wait in lists, one   *)
(* for each expiry, and the expiries in a binary heap. The globalstep      *)
(* collects the lists that are due and then runs their callbacks, which    *)
(* may register and cancel jobs themselves. Times are integers.            *)
(***************************************************************************)
EXTENDS Integers, Sequences

CONSTANTS
  Delays,    \* what callers ask for; a negative delay is legal
  DTimes,    \* the dtime of a globalstep
  Kept,      \* the jobs whose registrar kept what core.after returned
  Huge,      \* math.huge
  MaxTime, MaxJobs  \* bounds

ASSUME AfterAssumption ==
  /\ Delays \subseteq Int /\ DTimes \subseteq Nat
  /\ MaxTime \in Nat /\ MaxJobs \in Nat
  /\ Huge \in Int /\ MaxTime < Huge /\ \A d \in Delays : MaxTime + d < Huge

VARIABLES
  time, time_next,
  expiries,   \* the heap
  job_map,    \* the list of each expiry in the heap, in order of registration
  expired,    \* the list the globalstep has still to run
  pc,         \* in the globalstep: collecting, running, in a callback; or out of it
  count,      \* jobs registered; the rank of a job is its n
  cancelled,  \* jobs whose func is dummy_func
  ran         \* jobs whose own func was called

vars == <<time, time_next, expiries, job_map, expired, pc, count, cancelled, ran>>

Job == [n : Nat, at : Int]

-----------------------------------------------------------------------------
(* The heap *)

\* The indices a loop visits that starts at `from` and goes on from i to to[i].
Visited(from, to) ==
  {i \in DOMAIN to :
     \A S \in SUBSET (DOMAIN to) : from \in S /\ (\A j \in S : to[j] \in S) => i \in S}

\* Every index visited takes what the next one held; the last takes the element.
Shift(heap, element, from, to) ==
  LET V == Visited(from, to)
  IN [i \in DOMAIN to |->
        IF i \notin V THEN heap[i] ELSE IF to[i] = i THEN element ELSE heap[to[i]]]

\* Bubbling up: to the parent while the element is less.
Up(heap, element) ==
  [i \in 1..(Len(heap) + 1) |-> IF i > 1 /\ element < heap[i \div 2] THEN i \div 2 ELSE i]

heap_push(heap, element) == Shift(heap, element, Len(heap) + 1, Up(heap, element))

DownRightAgainstElement(heap, element, n) ==
  [i \in 1..n |->
     IF 2 * i + 1 <= n /\ heap[2 * i + 1] < element THEN 2 * i + 1
     ELSE IF 2 * i <= n /\ heap[2 * i] < element THEN 2 * i ELSE i]

\* Sinking down a heap of n: to the smaller child, if it is less than the element.
Down(heap, element, n) ==
  [i \in 1..n |->
     LET left  == 2 * i <= n /\ heap[2 * i] < element
         right == /\ 2 * i + 1 <= n
                  /\ heap[2 * i + 1] < (IF left THEN heap[2 * i] ELSE element)
     IN IF right THEN 2 * i + 1 ELSE IF left THEN 2 * i ELSE i]

\* The heap without its first element.
heap_pop(heap) ==
  LET n == Len(heap) - 1
  IN Shift(heap, heap[n + 1], 1, Down(heap, heap[n + 1], n))

FirstExpiry(heap) == IF heap = <<>> THEN Huge ELSE heap[1]

-----------------------------------------------------------------------------
(* Registering and cancelling *)

PutFirst(list, job) == <<job>> \o list
list_append(list, job) == Append(list, job)

add_job(expiry, job) ==
  \/ /\ expiry \in DOMAIN job_map
     /\ job_map' = [job_map EXCEPT ![expiry] = list_append(@, job)]
     /\ UNCHANGED expiries
  \/ /\ expiry \notin DOMAIN job_map
     /\ job_map' = [t \in DOMAIN job_map \cup {expiry} |->
                      IF t = expiry THEN <<job>> ELSE job_map[t]]
     /\ expiries' = heap_push(expiries, expiry)

Newest(expiry) == expiry
NextUntouched(expiry) == time_next
Sooner(expiry) == IF expiry < time_next THEN expiry ELSE time_next

\* Lua code runs between the globalsteps and in a callback.
InLua == pc \in {"idle", "call"}

CoreAfter(d) ==
  /\ InLua /\ count < MaxJobs
  /\ count' = count + 1
  /\ add_job(time + d, [n |-> count + 1, at |-> time + d])
  /\ time_next' = Sooner(time + d)
  /\ UNCHANGED <<time, expired, pc, cancelled, ran>>

\* A job may be cancelled at any time, also between its expiry and its turn.
Cancel(n) ==
  /\ InLua /\ n \in Kept
  /\ cancelled' = cancelled \cup {n}
  /\ UNCHANGED <<time, time_next, expiries, job_map, expired, pc, count, ran>>

-----------------------------------------------------------------------------
(* The globalstep *)

GlobalStep(d) ==
  /\ pc = "idle" /\ time + d <= MaxTime
  /\ time' = time + d
  /\ pc' = IF time' < time_next THEN "idle" ELSE "collect"
  /\ UNCHANGED <<time_next, expiries, job_map, expired, count, cancelled, ran>>

Emptied(expiry) == [job_map EXCEPT ![expiry] = <<>>]
Without(expiry) == [t \in DOMAIN job_map \ {expiry} |-> job_map[t]]

\* One turn of the loop that removes the expired jobs (the first turn is the
\* code's line before the loop).
Collect ==
  /\ pc = "collect"
  /\ expired' = expired \o job_map[expiries[1]]
  /\ job_map' = Without(expiries[1])
  /\ expiries' = heap_pop(expiries)
  /\ time_next' = FirstExpiry(expiries')
  /\ pc' = IF time_next' > time THEN "run" ELSE "collect"
  /\ UNCHANGED <<time, count, cancelled, ran>>

\* The callback of the first job of the list starts. That of a cancelled job
\* is dummy_func.
RunNext ==
  /\ pc \in {"run", "call"} /\ expired # <<>>
  /\ expired' = Tail(expired)
  /\ LET n == Head(expired).n
     IN IF n \in cancelled
        THEN pc' = "run" /\ UNCHANGED ran
        ELSE pc' = "call" /\ ran' = ran \cup {n}
  /\ UNCHANGED <<time, time_next, expiries, job_map, count, cancelled>>

\* The last callback has returned.
Return ==
  /\ pc \in {"run", "call"} /\ expired = <<>>
  /\ pc' = "idle"
  /\ UNCHANGED <<time, time_next, expiries, job_map, expired, count, cancelled, ran>>

-----------------------------------------------------------------------------
Init ==
  /\ time = 0 /\ time_next = Huge
  /\ expiries = <<>> /\ job_map = <<>> /\ expired = <<>>
  /\ pc = "idle" /\ count = 0 /\ cancelled = {} /\ ran = {}

Server == (\E d \in DTimes : GlobalStep(d)) \/ Collect \/ RunNext \/ Return

Next ==
  \/ \E d \in Delays : CoreAfter(d)
  \/ \E n \in 1..count : Cancel(n)
  \/ Server

Spec == Init /\ [][Next]_vars
\* The server steps for ever, and a callback returns.
FairSpec == Spec /\ WF_vars(Server)

-----------------------------------------------------------------------------
\* The types of the state. A list in the map is never empty: add_job takes
\* what it finds there for a list with a first job, and pushes no expiry.
TypeOK ==
  /\ time \in Nat /\ time_next \in Int
  /\ expiries \in Seq(Int) /\ expired \in Seq(Job)
  /\ DOMAIN job_map \subseteq Int /\ job_map \in [DOMAIN job_map -> Seq(Job)]
  /\ \A t \in DOMAIN job_map : job_map[t] # <<>>
  /\ pc \in {"idle", "collect", "run", "call"}
  /\ count \in Nat /\ cancelled \subseteq 1..count /\ ran \subseteq 1..count

\* A parent is never greater than its children.
HeapOrder(heap) == \A i \in 2..Len(heap) : heap[i \div 2] <= heap[i]
Distinct(heap) == \A i, j \in DOMAIN heap : heap[i] = heap[j] => i = j
Elements(heap) == {heap[i] : i \in DOMAIN heap}

\* Heap and map agree whatever callbacks register while lists are being taken
\* out: a heap, in which each expiry that has a list is found once.
HeapOK ==
  HeapOrder(expiries) /\ Distinct(expiries) /\ Elements(expiries) = DOMAIN job_map

\* time_next, on which a globalstep decides whether to look at the heap at
\* all, is the least expiry of all lists: no due job is overlooked.
NextIsLeast ==
  /\ \A t \in DOMAIN job_map : time_next <= t
  /\ time_next # Huge => time_next \in DOMAIN job_map

-----------------------------------------------------------------------------
(* The contract *)

JobsIn(list) == {list[k] : k \in DOMAIN list}
Listed == UNION {JobsIn(job_map[t]) : t \in DOMAIN job_map}
BeingCollected == {j \in Listed : pc = "collect" /\ j.at <= time}

Contract == INSTANCE Agenda WITH
  now <- time, agenda <- Listed \ BeingCollected,
  due <- JobsIn(expired) \cup BeingCollected

\* Heap and lists keep the contract: jobs of one step run in order of expiry,
\* then of registration, once each, and none is forgotten.
ImplementsAgenda == Contract!Spec

\* A job that is due before the end of the instance's time is run, or was
\* cancelled.
Waits(n) == \E j \in Listed : j.n = n /\ j.at <= MaxTime
JobRuns == \A n \in 1..MaxJobs : Waits(n) ~> n \in ran \cup cancelled
=============================================================================
