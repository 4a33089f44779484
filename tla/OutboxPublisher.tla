-------------------------- MODULE OutboxPublisher --------------------------
(***************************************************************************)
(* Publication of the outbox: PublishOutbox and its worker, in several     *)
(* instances that share the table and the events queue, a standard SQS     *)
(* queue.                                                                  *)
(*                                                                         *)
(* Time is discrete and kept in timers that count down: what is left of a  *)
(* lease, of the wait for the next attempt, and of the context of an       *)
(* attempt.  The database clock measures the first two and the worker's    *)
(* clock the third; they are assumed to run at the same rate.              *)
(*                                                                         *)
(* A statement whose caller has gone (its context has ended, or the        *)
(* process has died) may still be executed, at any later time, or never:   *)
(* it is then in late.                                                     *)
(***************************************************************************)
EXTENDS Integers, FiniteSetsExt

CONSTANTS
  Publishers,     \* instances of the outbox worker
  Events,         \* ids of the events that the core writes
  Tokens,         \* lease tokens, of which uuid.New() returns an unused one
  Config,         \* Config[p]: [timeout, lease, delay], delay[n] after n attempts
  MaxAttempts,    \* the largest value of the column attempts
  MaxFaults,      \* crashes, failed sends and attempts that overrun
  Nil

ASSUME PublisherAssumption ==
  /\ Nil \notin Tokens /\ Nil \notin Events
  /\ MaxAttempts \in Nat \ {0} /\ MaxFaults \in Nat
  /\ IsFiniteSet(Publishers) /\ IsFiniteSet(Events)
  /\ \A p \in Publishers : /\ Config[p].timeout \in Nat /\ Config[p].lease \in Nat
                           /\ \A n \in 1 .. MaxAttempts : Config[p].delay[n] \in Nat

VARIABLES
  rows,       \* the outbox table
  stage,      \* stage[p]: the next statement of p
  claimed,    \* claimed[p]: the event p has claimed, with the token and the attempts it read
  deadline,   \* deadline[p]: the time left to the attempt of p
  late,       \* statements without a caller that may yet be executed
  sends,      \* sends[e]: how often e has been put into the queue
  faults

vars == <<rows, stage, claimed, deadline, late, sends, faults>>

NoEvent == [status |-> "absent", attempts |-> 0, wait |-> 0, lease |-> 0, token |-> Nil]

NoClaim == [event |-> Nil, token |-> Nil, attempts |-> 0]

Init ==
  /\ rows = [e \in Events |-> NoEvent]
  /\ stage = [p \in Publishers |-> "idle"]
  /\ claimed = [p \in Publishers |-> NoClaim]
  /\ deadline = [p \in Publishers |-> 0]
  /\ late = {}
  /\ sends = [e \in Events |-> 0]
  /\ faults = 0

Fault == faults < MaxFaults /\ faults' = faults + 1

\* OutboxRepository.Create: the core commits an event, due at once.
Create(e) ==
  /\ rows[e].status = "absent"
  /\ rows' = [rows EXCEPT ![e].status = "pending"]
  /\ UNCHANGED <<stage, claimed, deadline, late, sends, faults>>

-----------------------------------------------------------------------------
(* The three statements on the table.                                       *)

\* Variant: a lease as long as the attempt is accepted.
AcceptsEqualLease(c) == c.timeout > 0 /\ c.lease >= c.timeout

\* OutboxConfig.validate; with an invalid configuration the instance does not start.
Accepts(c) == c.timeout > 0 /\ c.lease > c.timeout

\* Variant: the lease is not looked at.
AvailableLeased(e) == rows[e].status = "pending" /\ rows[e].wait = 0

\* Variant: a lease that has run out is still respected.
AvailableReleased(e) == rows[e].status = "pending" /\ rows[e].wait = 0 /\ rows[e].token = Nil

\* The WHERE clause of Claim.
Available(e) == rows[e].status = "pending" /\ rows[e].wait = 0 /\ rows[e].lease = 0

\* A new token is one that nobody holds; the pool of tokens is a bound of the model.
Unused == Tokens \ ({rows[e].token : e \in Events} \cup {claimed[p].token : p \in Publishers}
                    \cup {s.token : s \in late})

FreshToken == CHOOSE k \in Unused : TRUE

\* Variant: the counter is not saturated.
CountPastTheEnd(e) == rows[e].attempts + 1

\* LEAST(attempts + 1, 2147483647).
CountAttempt(e) == IF rows[e].attempts < MaxAttempts THEN rows[e].attempts + 1 ELSE MaxAttempts

\* The UPDATE of Claim.
Lease(e, p, token) ==
  rows' = [rows EXCEPT ![e] = [@ EXCEPT !.token = token, !.lease = Config[p].lease,
                                        !.attempts = CountAttempt(e)]]

\* The WHERE clause of MarkPublished and Retry.
Holds(e, token) == rows[e].token = token /\ rows[e].status = "pending" /\ rows[e].lease > 0

\* MarkPublished; if no row matches, ErrOutboxLeaseLost.
SetPublished(e, token) ==
  rows' = IF Holds(e, token)
          THEN [rows EXCEPT ![e] = [@ EXCEPT !.status = "published", !.lease = 0, !.token = Nil]]
          ELSE rows

\* Retry; if no row matches, ErrOutboxLeaseLost.
Reschedule(e, token, wait) ==
  rows' = IF Holds(e, token)
          THEN [rows EXCEPT ![e] = [@ EXCEPT !.wait = wait, !.lease = 0, !.token = Nil]]
          ELSE rows

-----------------------------------------------------------------------------
(* An attempt.                                                              *)

\* What is over when the attempt of p ends.
Rest(p) == /\ stage' = [stage EXCEPT ![p] = "idle"]
           /\ claimed' = [claimed EXCEPT ![p] = NoClaim]
           /\ deadline' = [deadline EXCEPT ![p] = 0]

Goto(p, s) == stage' = [stage EXCEPT ![p] = s]

\* The loop of the worker begins an attempt, whose context ends after the timeout.
Poll(p) ==
  /\ stage[p] = "idle" /\ Accepts(Config[p])
  /\ Goto(p, "claim")
  /\ deadline' = [deadline EXCEPT ![p] = Config[p].timeout]
  /\ UNCHANGED <<rows, claimed, late, sends, faults>>

\* Claim, one statement with a commit of its own.
Claim(p) ==
  /\ stage[p] = "claim" /\ deadline[p] > 0
  /\ IF \A e \in Events : ~Available(e) THEN Rest(p) /\ UNCHANGED rows
     ELSE \E e \in Events :
            /\ Available(e) /\ Unused # {}
            /\ Lease(e, p, FreshToken)
            /\ claimed' = [claimed EXCEPT ![p] = [event |-> e, token |-> FreshToken,
                                                  attempts |-> CountAttempt(e)]]
            /\ Goto(p, "publish")
            /\ UNCHANGED deadline
  /\ UNCHANGED <<late, sends, faults>>

Sent(e) == sends' = [sends EXCEPT ![e] = @ + 1]

\* Publish succeeds.
Publish(p) ==
  /\ stage[p] = "publish" /\ deadline[p] > 0
  /\ Sent(claimed[p].event)
  /\ Goto(p, "mark")
  /\ UNCHANGED <<rows, claimed, deadline, late, faults>>

\* Variant: the error of Publish is not looked at.
PublishIgnoresError(p) ==
  /\ stage[p] = "publish" /\ deadline[p] > 0
  /\ Goto(p, "mark")
  /\ Fault
  /\ UNCHANGED <<rows, claimed, deadline, late, sends>>

\* Publish returns an error within the time of the attempt, whether or not the queue
\* has taken the event.  Nothing reads sends, so taking it now stands for taking it later.
PublishFails(p) ==
  /\ stage[p] = "publish" /\ deadline[p] > 0
  /\ UNCHANGED sends \/ Sent(claimed[p].event)
  /\ Goto(p, "retry")
  /\ Fault
  /\ UNCHANGED <<rows, claimed, deadline, late>>

MarkPublished(p) ==
  /\ stage[p] = "mark" /\ deadline[p] > 0
  /\ SetPublished(claimed[p].event, claimed[p].token)
  /\ Rest(p)
  /\ UNCHANGED <<late, sends, faults>>

Retry(p) ==
  /\ stage[p] = "retry" /\ deadline[p] > 0
  /\ Reschedule(claimed[p].event, claimed[p].token, Config[p].delay[claimed[p].attempts])
  /\ Rest(p)
  /\ UNCHANGED <<late, sends, faults>>

-----------------------------------------------------------------------------
(* The end of a context, and of a process.                                  *)

\* The statement p was executing, as it may be executed later.
Statement(p) ==
  [kind |-> stage[p], by |-> p, event |-> claimed[p].event, attempts |-> claimed[p].attempts,
   token |-> IF stage[p] = "claim" THEN FreshToken ELSE claimed[p].token]

\* p leaves its statement, which has no effect, or has it later.
Leave(p) ==
  /\ stage[p] # "idle"
  /\ \/ UNCHANGED late
     \/ (stage[p] = "claim" => Unused # {}) /\ late' = late \cup {Statement(p)}
  /\ Rest(p)
  /\ UNCHANGED <<rows, sends>>

\* The context of the attempt has ended: Execute returns, without Retry.
Expire(p) == deadline[p] = 0 /\ Leave(p) /\ UNCHANGED faults

\* The process dies or is shut down in the middle of an attempt, and comes back; or a
\* statement on the table fails, which ends the attempt.
Crash(p) == Leave(p) /\ Fault

\* A statement that was left is executed.
Execute(s) ==
  /\ s \in late
  /\ late' = late \ {s}
  /\ CASE s.kind = "claim" ->
            /\ IF \A e \in Events : ~Available(e) THEN UNCHANGED rows
               ELSE \E e \in Events : Available(e) /\ Lease(e, s.by, s.token)
            /\ UNCHANGED sends
       [] s.kind = "publish" -> Sent(s.event) /\ UNCHANGED rows
       [] s.kind = "mark" -> SetPublished(s.event, s.token) /\ UNCHANGED sends
       [] s.kind = "retry" ->
            Reschedule(s.event, s.token, Config[s.by].delay[s.attempts]) /\ UNCHANGED sends
  /\ UNCHANGED <<stage, claimed, deadline, faults>>

-----------------------------------------------------------------------------
CountDown(n) == IF n > 0 THEN n - 1 ELSE 0

\* Attempts that overrun count as faults, so that their number is bounded.
Overrun == {p \in Publishers : stage[p] # "idle" /\ deadline[p] = 1}

Running == \/ \E e \in Events : rows[e].wait > 0 \/ rows[e].lease > 0
           \/ \E p \in Publishers : deadline[p] > 0

Tick ==
  /\ Running
  /\ faults' = faults + Cardinality(Overrun) /\ faults' <= MaxFaults
  /\ rows' = [e \in Events |-> [rows[e] EXCEPT !.wait = CountDown(@), !.lease = CountDown(@)]]
  /\ deadline' = [p \in Publishers |-> CountDown(deadline[p])]
  /\ UNCHANGED <<stage, claimed, late, sends>>

PublisherStep(p) ==
  \/ Poll(p)
  \/ Claim(p)
  \/ Publish(p)
  \/ MarkPublished(p)
  \/ Retry(p)
  \/ Expire(p)

Next ==
  \/ \E e \in Events : Create(e)
  \/ \E p \in Publishers : PublisherStep(p) \/ PublishFails(p) \/ Crash(p)
  \/ \E s \in late : Execute(s)
  \/ Tick

Spec == Init /\ [][Next]_vars

\* The loops of the workers run, and time passes: Tick is held up only by an attempt
\* that may not overrun any more, and between two attempts that find nothing a worker
\* sleeps, so polling does not stop the clock.  Statements without a caller need never
\* be executed.
Fairness == (\A p \in Publishers : WF_vars(PublisherStep(p))) /\ SF_vars(Tick)

FairSpec == Spec /\ Fairness

-----------------------------------------------------------------------------
Row == [status : {"absent", "pending", "published"}, wait : Nat, lease : Nat,
        attempts : 0 .. MaxAttempts, token : Tokens \cup {Nil}]

Statements == [kind : {"claim", "publish", "mark", "retry"}, by : Publishers,
               event : Events \cup {Nil}, attempts : 0 .. MaxAttempts, token : Tokens \cup {Nil}]

Claims == [event : Events \cup {Nil}, token : Tokens \cup {Nil}, attempts : 0 .. MaxAttempts]

\* The column attempts stays within its type however often an event is tried, so the
\* UPDATE of Claim never fails for it and every delay is defined.
TypeOK ==
  /\ rows \in [Events -> Row]
  /\ stage \in [Publishers -> {"idle", "claim", "publish", "mark", "retry"}]
  /\ claimed \in [Publishers -> Claims]
  /\ deadline \in [Publishers -> Nat]
  /\ late \subseteq Statements
  /\ sends \in [Events -> Nat]
  /\ faults \in 0 .. MaxFaults

\* An attempt that still has time owns its event: nobody else works on it, a stale
\* statement of somebody else cannot take it away, and its MarkPublished or Retry
\* does not come too late (the lease is longer than the attempt).
AttemptOwnsEvent ==
  \A p \in Publishers : stage[p] \in {"publish", "mark", "retry"} /\ deadline[p] > 0 =>
    /\ Holds(claimed[p].event, claimed[p].token)
    /\ rows[claimed[p].event].lease > deadline[p]

\* An event that is marked as published has been sent.
PublishedWasSent == \A e \in Events : rows[e].status = "published" => sends[e] > 0

\* What the readers of the queue see of the table.
Delivery == INSTANCE EventDelivery
            WITH status <- [e \in Events |-> rows[e].status], sends <- sends, faults <- faults

\* Every duplicate in the queue has its fault: without faults an event is sent once,
\* whatever the number of workers.
DuplicatesNeedFaults == Delivery!Balanced

\* PublishOutbox, its leases and its three statements keep the promise of EventDelivery.
ImplementsDelivery == Delivery!Spec

\* Every event is published in the end, also when publishers die while they hold it.
EventuallyPublished ==
  \A e \in Events : rows[e].status = "pending" ~> rows[e].status = "published"
=============================================================================
