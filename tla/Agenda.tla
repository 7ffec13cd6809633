------------------------------- MODULE Agenda -------------------------------
(***************************************************************************)
(* What core.after promises to the mods: "coexisting jobs will execute     *)
(* primarily in order of least expiry, and secondarily in order of first   *)
(* registration" (after.lua). A step of the server takes the jobs that     *)
(* are due off the agenda and runs them; what their callbacks register is  *)
(* for a later step. No heap and no list here; After implements this.      *)
(***************************************************************************)
EXTENDS Integers

CONSTANT Delays

VARIABLES
  now,        \* the server's time
  agenda,     \* the jobs to come
  due,        \* the jobs this step has still to run
  count,      \* jobs registered so far; a job's n is its rank
  cancelled,  \* jobs cancelled
  ran         \* jobs whose callback was called

vars == <<now, agenda, due, count, cancelled, ran>>

Job == [n : Nat, at : Int]

Before(j, k) == j.at < k.at \/ (j.at = k.at /\ j.n < k.n)

Init ==
  /\ now = 0 /\ agenda = {} /\ due = {}
  /\ count = 0 /\ cancelled = {} /\ ran = {}

Register(d) ==
  /\ agenda' = agenda \cup {[n |-> count + 1, at |-> now + d]}
  /\ count' = count + 1
  /\ UNCHANGED <<now, due, cancelled, ran>>

Cancel(n) ==
  /\ cancelled' = cancelled \cup {n}
  /\ UNCHANGED <<now, agenda, due, count, ran>>

\* A step finds what is due, all of it, and nothing is due twice.
Step ==
  /\ due = {}
  /\ now' \in Int /\ now <= now'
  /\ due' = {j \in agenda : j.at <= now'}
  /\ agenda' = agenda \ due'
  /\ UNCHANGED <<count, cancelled, ran>>

\* The first of the due jobs is next. If it was cancelled nothing is called.
Run(j) ==
  /\ j \in due /\ \A k \in due : k = j \/ Before(j, k)
  /\ due' = due \ {j}
  /\ ran' = IF j.n \in cancelled THEN ran ELSE ran \cup {j.n}
  /\ UNCHANGED <<now, agenda, count, cancelled>>

Next ==
  \/ \E d \in Delays : Register(d)
  \/ \E n \in 1..count : Cancel(n)
  \/ Step
  \/ \E j \in due : Run(j)

Spec == Init /\ [][Next]_vars
=============================================================================
