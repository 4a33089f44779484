--------------------------- MODULE EventDelivery ---------------------------
(***************************************************************************)
(* What PublishOutbox promises to those who read the events queue, without *)
(* its leases, attempts and statements: an event that the core has         *)
(* committed, and no other, is put into the queue; it is marked only when  *)
(* it is there, and for good; and it is there twice only for a fault.      *)
(*                                                                         *)
(* OutboxPublisher implements this specification.                          *)
(***************************************************************************)
EXTENDS Integers, FiniteSetsExt

CONSTANT Events     \* ids of the events that the core writes

VARIABLES
  status,     \* status[e]: absent, pending or published
  sends,      \* sends[e]: how often e has been put into the queue
  faults      \* crashes, failed sends and attempts that overran

vars == <<status, sends, faults>>

Init ==
  /\ status = [e \in Events |-> "absent"]
  /\ sends = [e \in Events |-> 0]
  /\ faults = 0

\* The events in the queue, and how often they are there.
Arrived == {e \in Events : sends[e] > 0}

Copies == MapThenSumSet(LAMBDA e : sends[e], Events)

\* Every copy too many has its fault.
Balanced == Copies <= Cardinality(Arrived) + faults

\* The core commits an event.
Create(e) ==
  /\ status[e] = "absent"
  /\ status' = [status EXCEPT ![e] = "pending"]
  /\ UNCHANGED <<sends, faults>>

\* The event is sent, with or without a fault.
Send(e) ==
  /\ status[e] # "absent"
  /\ sends' = [sends EXCEPT ![e] = @ + 1]
  /\ faults' >= faults
  /\ Balanced'
  /\ UNCHANGED status

\* The event is marked as published.
Mark(e) ==
  /\ status[e] = "pending" /\ sends[e] > 0
  /\ status' = [status EXCEPT ![e] = "published"]
  /\ UNCHANGED <<sends, faults>>

\* Something fails that has no effect here.
Fail == faults' > faults /\ UNCHANGED <<status, sends>>

Next == Fail \/ \E e \in Events : Create(e) \/ Send(e) \/ Mark(e)

Spec == Init /\ [][Next]_vars
=============================================================================
