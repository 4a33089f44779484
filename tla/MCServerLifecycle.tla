-------------------------- MODULE MCServerLifecycle --------------------------
(***************************************************************************)
(* The process for TLC.  Times are seconds: requests have ten, the release *)
(* of a message three, fx gives fifteen to the hooks.                      *)
(***************************************************************************)
EXTENDS ServerLifecycle

CONSTANTS r1, r2

WorkerNames == <<"wager", "outbox", "reference">>

\* The rollback of a unit of work takes at most the five seconds it has, and the release
\* of a message three; the outbox worker has neither.
Rollbacks == <<8, 0, 5>>
=============================================================================
