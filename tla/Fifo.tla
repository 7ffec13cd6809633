-------------------------------- MODULE Fifo --------------------------------
(***************************************************************************)
(* What a channel of reliable packets promises to the two applications     *)
(* ("Delivery of all RELIABLE packets shall be forced by ACKs, and they    *)
(* shall be delivered in the same order as sent", internal.h): messages    *)
(* arrive once each, in the order they were sent, whole, and all of them   *)
(* unless the connection ends. There is no network, no number and no       *)
(* window here; Transport implements this.                                 *)
(***************************************************************************)
EXTENDS Naturals, Sequences

VARIABLES
  accepted,   \* how many messages the sender's application handed over; the k-th is message k
  delivered,  \* the messages the receiver's application was given, in order
  ended       \* one of the two sides gave the connection up

vars == <<accepted, delivered, ended>>

TypeOK == accepted \in Nat /\ delivered \in Seq(Nat) /\ ended \in BOOLEAN

Init == accepted = 0 /\ delivered = <<>> /\ ended = FALSE

Accept == accepted' = accepted + 1 /\ UNCHANGED <<delivered, ended>>

Deliver ==
  /\ Len(delivered) < accepted
  /\ delivered' = Append(delivered, Len(delivered) + 1)
  /\ UNCHANGED <<accepted, ended>>

End == ~ended /\ ended' = TRUE /\ UNCHANGED <<accepted, delivered>>

Next == Accept \/ Deliver \/ End

\* Every message arrives unless the connection ends.
Spec == Init /\ [][Next]_vars
FairSpec == Spec /\ WF_vars(~ended /\ Deliver)
=============================================================================
