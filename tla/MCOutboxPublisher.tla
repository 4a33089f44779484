------------------------- MODULE MCOutboxPublisher -------------------------
(***************************************************************************)
(* Instances of OutboxPublisher for TLC.                                   *)
(***************************************************************************)
EXTENDS OutboxPublisher, Backoff, TLC

CONSTANTS p1, p2, p3, e1, e2

\* The policy of an instance, in ticks.
Policy(timeout, lease, initial, max) ==
  [timeout |-> timeout, lease |-> lease,
   delay |-> [n \in 1 .. MaxAttempts |-> OutboxDelay(initial, max)[n]]]

\* Two instances that differ, and a third whose lease is not longer than its attempts.
Policies == p1 :> Policy(1, 2, 1, 2) @@ p2 :> Policy(2, 3, 2, 2) @@ p3 :> Policy(2, 2, 1, 1)
=============================================================================
