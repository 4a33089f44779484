---------------------------- MODULE ExactlyOnce ----------------------------
(***************************************************************************)
(* What ProcessWager promises to those who call it, without its            *)
(* statements, locks and transactions: an operation takes effect in one    *)
(* step, once, whoever sends it and however often, and a message           *)
(* identifier stands for one body.                                         *)
(*                                                                         *)
(* Wagering implements this specification; WagerConsumer relies on it.     *)
(***************************************************************************)
CONSTANTS
  Calls,      \* those who may ask, each with a request of its own
  Request,    \* Request[c]: [provider, key, ext, msg, body]
  Content,    \* Content[c]: the content that the payload hash stands for
  Messages,   \* message identifiers
  Nil

VARIABLES
  done,       \* the calls whose operation was the one that took effect
  inbox,      \* inbox[i]: the body that message identifier i stands for, or Nil
  told,       \* the calls that were told a result
  refused     \* the calls that were told of a conflict

vars == <<done, inbox, told, refused>>

Init == /\ done = {}
        /\ inbox = [i \in Messages |-> Nil]
        /\ told = {} /\ refused = {}

\* The two uniqueness rules of an operation.
SameIdentity(c, d) ==
  /\ Request[c].provider = Request[d].provider
  /\ Request[c].key = Request[d].key \/ Request[c].ext = Request[d].ext

SameOperation(c, d) == /\ SameIdentity(c, d)
                       /\ Request[c].key = Request[d].key
                       /\ Content[c] = Content[d]

\* ErrInboxConflict or ErrIdempotencyConflict.
Conflicts(c) ==
  \/ Request[c].msg # Nil /\ inbox[Request[c].msg] \notin {Nil, Request[c].body}
  \/ \E d \in done : SameIdentity(c, d) /\ ~SameOperation(c, d)

\* The operation of c is there, through c or through another call.
Settled(c) == \E d \in done : SameOperation(c, d)

\* The commit: the operation, if it is new, and its message.
Commit(c) ==
  /\ ~Conflicts(c)
  /\ done' = IF Settled(c) THEN done ELSE done \cup {c}
  /\ inbox' = IF Request[c].msg = Nil THEN inbox
              ELSE [inbox EXCEPT ![Request[c].msg] = Request[c].body]

Take(c) == Commit(c) /\ told' = told \cup {c} /\ UNCHANGED refused

\* The commit is durable but its answer is lost.
TakeUnheard(c) == Commit(c) /\ UNCHANGED <<told, refused>>

\* A call is told of a conflict only if there is one, and then for good.
Refuse(c) == Conflicts(c) /\ refused' = refused \cup {c} /\ UNCHANGED <<done, inbox, told>>

Next == \E c \in Calls : Take(c) \/ TakeUnheard(c) \/ Refuse(c)

Spec == Init /\ [][Next]_vars
=============================================================================
