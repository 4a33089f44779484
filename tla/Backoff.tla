------------------------------ MODULE Backoff ------------------------------
(***************************************************************************)
(* The three functions that compute the delay before the next attempt, as  *)
(* the loops compute it, in machine arithmetic: the outbox, the references *)
(* and the visibility of a message that failed.                            *)
(***************************************************************************)
EXTENDS Money

\* Variant: doubled first and compared afterwards.
DoubledBlindly(delay, max) == IF Wrap(delay * 2) > max THEN max ELSE Wrap(delay * 2)

\* One round of a loop that doubles up to max.
Doubled(delay, max) == IF delay > Quotient(max, 2) THEN max ELSE Wrap(delay * 2)

\* OutboxPolicy.delay: the loop also ends when the maximum is reached.
OutboxDelay(initial, max) ==
  LET delay[n \in Nat] == IF n <= 1 THEN initial
                          ELSE IF delay[n - 1] < max THEN Doubled(delay[n - 1], max)
                          ELSE delay[n - 1]
  IN delay

\* ReferenceRetryPolicy.delay.
ReferenceDelay(initial, max) ==
  LET delay[n \in Nat] == IF n <= 1 THEN initial ELSE Doubled(delay[n - 1], max)
  IN delay

\* messageRetryDelay, in seconds, before it is cut off at 60.
MessageDoubling[n \in Nat] ==
  IF n <= 1 THEN 1 ELSE IF MessageDoubling[n - 1] < 60 THEN Wrap(MessageDoubling[n - 1] * 2)
  ELSE MessageDoubling[n - 1]

MessageDelay(n) == IF MessageDoubling[n] > 60 THEN 60 ELSE MessageDoubling[n]
=============================================================================
