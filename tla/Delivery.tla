------------------------------- MODULE Delivery -------------------------------
(***************************************************************************)
(* What the notification outbox promises: a queued event is reported at    *)
(* least once or given up, it may be reported several times, it is never   *)
(* called sent without having been reported, and its outcome is final.     *)
(***************************************************************************)
EXTENDS Naturals

CONSTANT Events

VARIABLES
  phase,   \* the outcome of an event, so far
  copies   \* how often the chat has received its message

vars == <<phase, copies>>

Init ==
  /\ phase = [e \in Events |-> "absent"]
  /\ copies = [e \in Events |-> 0]

Enqueue(e) ==
  /\ phase[e] = "absent"
  /\ phase' = [phase EXCEPT ![e] = "queued"]
  /\ UNCHANGED copies

\* A copy may still arrive after the outcome is known: of a worker that was slow.
Deliver(e) ==
  /\ phase[e] # "absent"
  /\ copies' = [copies EXCEPT ![e] = @ + 1]
  /\ UNCHANGED phase

Settle(e) ==
  /\ phase[e] = "queued"
  /\ \/ copies[e] > 0 /\ phase' = [phase EXCEPT ![e] = "sent"]
     \/ phase' = [phase EXCEPT ![e] = "failed"]
  /\ UNCHANGED copies

Next == \E e \in Events : Enqueue(e) \/ Deliver(e) \/ Settle(e)

Spec == Init /\ [][Next]_vars
=============================================================================
