--------------------------- MODULE WagerConsumer ---------------------------
(***************************************************************************)
(* The consumer of wager operations: the SQS input queue (FIFO, with a     *)
(* dead-letter queue), and the worker of each instance, which receives     *)
(* one message at a time, has it processed and deletes it.                 *)
(*                                                                         *)
(* What processing does is ExactlyOnce, which the core implements.  SQS    *)
(* is modelled from the calls the code makes: within a group messages are  *)
(* delivered in order, and none while another one is invisible; a receipt  *)
(* is good until the visibility timeout ends; a message that was received  *)
(* MaxReceives times moves to the dead-letter queue.                       *)
(*                                                                         *)
(* Time is discrete and kept in timers that count down.                    *)
(***************************************************************************)
EXTENDS Integers, Sequences, FiniteSetsExt

CONSTANTS
  Consumers,          \* instances of the wager worker
  Messages,           \* messages that are sent to the queue
  Message,            \* Message[m]: the request, and [group, wallet, sender, valid]
  Content,            \* Content[m]: what the payload hash stands for
  ProviderBySender,   \* the configured mapping; Nil for an unknown sender
  ProcessingTimeout,  \* ProcessingTimeout[p], as configured
  VisibilityTimeout,  \* how long a received message is invisible
  LongestProcessing,  \* the longest ProcessingTimeout that is accepted
  DeleteTimeout,      \* the time DeleteMessage has
  RetryDelay,         \* RetryDelay[n]: invisibility after failure n
  MaxReceives,        \* of the redrive policy
  MaxFaults,          \* crashes, timeouts, temporary errors and lost calls
  MaxStops,           \* how often an instance is shut down
  Nil

MessageIds == {Message[m].msg : m \in Messages}

\* The visibility timeout leaves room to receive the answer and to delete.  A body hash
\* is not nil.
ASSUME ConsumerAssumption ==
  /\ IsFiniteSet(Messages) /\ Nil \notin Messages /\ Nil \notin MessageIds
  /\ Nil \notin {Message[m].body : m \in Messages}
  /\ VisibilityTimeout \in Nat /\ LongestProcessing \in Nat /\ DeleteTimeout \in Nat \ {0}
  /\ LongestProcessing + DeleteTimeout < VisibilityTimeout
  /\ MaxReceives \in Nat \ {0} /\ MaxFaults \in Nat /\ MaxStops \in Nat
  /\ \A n \in 1 .. MaxReceives : RetryDelay[n] \in Nat
  /\ \A p \in Consumers : ProcessingTimeout[p] \in Int

\* The payload hash covers the external identifier.
ASSUME ContentAssumption ==
  \A m, n \in Messages : Content[m] = Content[n] => Message[m].ext = Message[n].ext

VARIABLES
  sent,       \* the messages that were sent, in their order
  hidden,     \* hidden[m]: how long m is still invisible
  receives,   \* receives[m]: how often m was received
  deleted,    \* messages that were acknowledged
  dead,       \* messages in the dead-letter queue
  stage,      \* stage[p]: what the worker of p does next
  held,       \* held[p]: the receipt p holds
  deadline,   \* deadline[p]: the time left to the call p is in
  stopping,   \* the instances that were told to stop
  running,    \* messages whose transaction runs on without a caller
  blame,      \* blame[m]: faults that hit the handling of m
  stops,      \* stops[m]: shutdowns that did; stops[Nil]: those of an idle worker
  done, inbox, told, refused     \* the core

core == <<done, inbox, told, refused>>
sqs == <<sent, hidden, receives, deleted, dead>>
vars == <<sqs, stage, held, deadline, stopping, running, blame, stops, core>>

Core == INSTANCE ExactlyOnce WITH Calls <- Messages, Request <- Message, Messages <- MessageIds

NoReceipt == [msg |-> Nil, n |-> 0]

Init ==
  /\ sent = <<>>
  /\ hidden = [m \in Messages |-> 0]
  /\ receives = [m \in Messages |-> 0]
  /\ deleted = {} /\ dead = {}
  /\ stage = [p \in Consumers |-> "stopped"]
  /\ held = [p \in Consumers |-> NoReceipt]
  /\ deadline = [p \in Consumers |-> 0]
  /\ stopping = {}
  /\ running = {}
  /\ blame = [m \in Messages |-> 0]
  /\ stops = [m \in Messages \cup {Nil} |-> 0]
  /\ Core!Init

Total(f) == MapThenSumSet(LAMBDA m : f[m], DOMAIN f)

\* A fault that hits the handling of the messages in S.
Fault(S) == /\ blame' = [m \in Messages |-> IF m \in S THEN blame[m] + 1 ELSE blame[m]]
            /\ Total(blame') <= MaxFaults

-----------------------------------------------------------------------------
(* The queue.                                                               *)

Sent == {sent[i] : i \in 1 .. Len(sent)}

Queued == Sent \ (deleted \cup dead)

\* The first message of its group in the queue, which is not invisible.
Deliverable(m) ==
  \E i \in 1 .. Len(sent) :
    /\ sent[i] = m /\ m \in Queued /\ hidden[m] = 0
    /\ \A j \in 1 .. i - 1 : sent[j] \in Queued => Message[sent[j]].group # Message[m].group

\* ReceiveMessage hands out m.
Deliver(m) == /\ Deliverable(m) /\ receives[m] < MaxReceives
              /\ hidden' = [hidden EXCEPT ![m] = VisibilityTimeout]
              /\ receives' = [receives EXCEPT ![m] = @ + 1]
              /\ UNCHANGED <<sent, deleted, dead>>

\* A receipt is good for the latest delivery, while its visibility timeout runs.
Good(r) == r.msg \in Queued /\ r.n = receives[r.msg] /\ hidden[r.msg] > 0

\* DeleteMessage; with a receipt that is not good any more it fails.
DeleteMessage(r) ==
  IF Good(r)
  THEN /\ deleted' = deleted \cup {r.msg} /\ hidden' = [hidden EXCEPT ![r.msg] = 0]
       /\ UNCHANGED <<sent, receives, dead>>
  ELSE UNCHANGED sqs

\* ChangeMessageVisibility, which fails in the same cases.
ChangeVisibility(r, delay) ==
  IF Good(r) THEN /\ hidden' = [hidden EXCEPT ![r.msg] = delay]
                  /\ UNCHANGED <<sent, receives, deleted, dead>>
  ELSE UNCHANGED sqs

\* A provider sends m.
Send(m) ==
  /\ m \notin Sent
  /\ sent' = Append(sent, m)
  /\ UNCHANGED <<hidden, receives, deleted, dead, stage, held, deadline, stopping, running,
                 blame, stops, core>>

\* The redrive policy, applied when somebody polls.
Redrive(m) ==
  /\ Deliverable(m) /\ receives[m] = MaxReceives
  /\ \E p \in Consumers : stage[p] = "polling"
  /\ dead' = dead \cup {m}
  /\ UNCHANGED <<sent, hidden, receives, deleted, stage, held, deadline, stopping, running,
                 blame, stops, core>>

-----------------------------------------------------------------------------
(* The worker: receive and have the message processed.                      *)

Become(p, s, d) == /\ stage' = [stage EXCEPT ![p] = s]
                   /\ deadline' = [deadline EXCEPT ![p] = d]

\* p is done with its message, and goes on to s.
Drop(p, s) == Become(p, s, 0) /\ held' = [held EXCEPT ![p] = NoReceipt]

\* The worker of p ends.
Exit(p) == Drop(p, "stopped") /\ stopping' = stopping \ {p}

\* Variant: any positive timeout is accepted.
AcceptsLonger(p) == ProcessingTimeout[p] > 0

\* ConsumerConfig.validate; with an invalid configuration the instance does not start.
Accepts(p) == ProcessingTimeout[p] > 0 /\ ProcessingTimeout[p] <= LongestProcessing

Start(p) ==
  /\ stage[p] = "stopped" /\ Accepts(p)
  /\ Become(p, "polling", 0)
  /\ UNCHANGED <<sqs, held, stopping, running, blame, stops, core>>

Receive(p, m) ==
  /\ stage[p] = "polling" /\ p \notin stopping
  /\ Deliver(m)
  /\ Become(p, "received", 0)
  /\ held' = [held EXCEPT ![p] = [msg |-> m, n |-> receives[m] + 1]]
  /\ UNCHANGED <<stopping, running, blame, stops, core>>

\* The answer of ReceiveMessage is lost, be it because the worker is being stopped.
ReceiveLost(p, m) ==
  /\ stage[p] = "polling"
  /\ Deliver(m)
  /\ IF p \in stopping THEN Exit(p) ELSE Drop(p, "pausing") /\ UNCHANGED stopping
  /\ Fault({m})
  /\ UNCHANGED <<running, stops, core>>

\* ParseWagerMessage: one JSON value of the right type, with all that is required.
Parsed(m) == Message[m].valid

Provider(m) == ProviderBySender[Message[m].sender]

\* Variant: a message may be in the group of another wallet.
RefusesAnyGroup(m) ==
  ~Parsed(m) \/ Provider(m) = Nil \/ Provider(m) # Message[m].provider

\* ParseWagerMessage and the checks of the sender and the group.
Refuses(m) == \/ ~Parsed(m)
              \/ Provider(m) = Nil \/ Provider(m) # Message[m].provider
              \/ Message[m].group # Message[m].wallet

\* permanentMessageError, for the error with which m fails.
Permanent(m) == Refuses(m) \/ Core!Conflicts(m)

\* Handle, up to ExecuteMessage, which does nothing with a context that has ended.
Check(p) ==
  /\ stage[p] = "received"
  /\ IF Refuses(held[p].msg) THEN Become(p, "refused", 0)
     ELSE IF p \in stopping THEN Become(p, "failed", 0)
     ELSE Become(p, "executing", ProcessingTimeout[p])
  /\ UNCHANGED <<sqs, held, stopping, running, blame, stops, core>>

\* ExecuteMessage returns: a result, or one of the errors that are permanent.
Execute(p) ==
  /\ stage[p] = "executing" /\ deadline[p] > 0 /\ p \notin stopping
  /\ IF Core!Conflicts(held[p].msg)
     THEN Core!Refuse(held[p].msg) /\ Become(p, "refused", 0)
     ELSE Core!Take(held[p].msg) /\ Become(p, "delete", DeleteTimeout)
  /\ UNCHANGED <<sqs, held, stopping, running, blame, stops>>

\* The caller of ExecuteMessage gets an error or is gone: the transaction is rolled
\* back, or committed, or goes on.
Abandon(m) ==
  \/ UNCHANGED <<core, running>>
  \/ Core!TakeUnheard(m) /\ UNCHANGED running
  \/ running' = running \cup {m} /\ UNCHANGED core

\* It returns an error that is not permanent.
ExecuteFails(p) ==
  /\ stage[p] = "executing"
  /\ Abandon(held[p].msg)
  /\ Become(p, "failed", 0)
  /\ \/ deadline[p] > 0 /\ p \notin stopping /\ Fault({held[p].msg})
     \/ (deadline[p] = 0 \/ p \in stopping) /\ UNCHANGED blame
  /\ UNCHANGED <<sqs, held, stopping, stops>>

\* A transaction that was left commits or is rolled back.
Settle(m) ==
  /\ m \in running
  /\ running' = running \ {m}
  /\ UNCHANGED core \/ Core!TakeUnheard(m)
  /\ UNCHANGED <<sqs, stage, held, deadline, stopping, blame, stops>>

-----------------------------------------------------------------------------
(* The worker: what becomes of the message.                                 *)

\* DeleteMessage answers.  Its error, like every other one, is followed by a pause.
Delete(p) ==
  /\ stage[p] = "delete" /\ deadline[p] > 0 /\ p \notin stopping
  /\ DeleteMessage(held[p])
  /\ Drop(p, IF Good(held[p]) THEN "polling" ELSE "pausing")
  /\ UNCHANGED <<stopping, running, blame, stops, core>>

\* DeleteMessage fails or is not answered; it may have been executed.
DeleteFails(p) ==
  /\ stage[p] = "delete" /\ p \notin stopping
  /\ UNCHANGED sqs \/ DeleteMessage(held[p])
  /\ Drop(p, "pausing")
  /\ IF deadline[p] > 0 THEN Fault({held[p].msg}) ELSE UNCHANGED blame
  /\ UNCHANGED <<stopping, running, stops, core>>

\* Variant: a message that cannot be processed is thrown away.
Discard(p) ==
  /\ stage[p] \in {"failed", "refused"} /\ p \notin stopping
  /\ IF stage[p] = "refused" THEN DeleteMessage(held[p])
     ELSE ChangeVisibility(held[p], RetryDelay[held[p].n])
  /\ Drop(p, "pausing")
  /\ UNCHANGED <<stopping, running, blame, stops, core>>

\* Variant: the worker keeps its message in the loop.
PostponeKeeping(p) ==
  /\ stage[p] \in {"failed", "refused"} /\ p \notin stopping
  /\ ChangeVisibility(held[p], IF stage[p] = "refused" THEN 0 ELSE RetryDelay[held[p].n])
  /\ Become(p, "pausing", 0)
  /\ UNCHANGED <<held, stopping, running, blame, stops, core>>

\* A failure is tried again after its delay, a permanent one at once, until the redrive.
Postpone(p) ==
  /\ stage[p] \in {"failed", "refused"} /\ p \notin stopping
  /\ ChangeVisibility(held[p], IF stage[p] = "refused" THEN 0 ELSE RetryDelay[held[p].n])
  /\ Drop(p, "pausing")
  /\ UNCHANGED <<stopping, running, blame, stops, core>>

\* ChangeMessageVisibility fails; the visibility timeout goes on.
PostponeFails(p) ==
  /\ stage[p] \in {"failed", "refused"}
  /\ Drop(p, "pausing")
  /\ Fault({held[p].msg})
  /\ UNCHANGED <<sqs, stopping, running, stops, core>>

\* Variant: the worker ends with the first error, and its instance stays up.
PauseForEver(p) == stage[p] = "pausing" /\ UNCHANGED vars

\* The pause of the loop after an error.
Pause(p) ==
  /\ stage[p] = "pausing"
  /\ Become(p, "polling", 0)
  /\ UNCHANGED <<sqs, held, stopping, running, blame, stops, core>>

-----------------------------------------------------------------------------
(* The end of an instance, orderly or not, and the clock.                   *)

\* OnStop cancels the context of the worker.
Stop(p) ==
  /\ stage[p] # "stopped" /\ p \notin stopping
  /\ stopping' = stopping \cup {p}
  /\ stops' = [stops EXCEPT ![held[p].msg] = @ + 1] /\ Total(stops') <= MaxStops
  /\ UNCHANGED <<sqs, stage, held, deadline, running, blame, core>>

\* Variant: the release is made with the context that was cancelled.
ReleaseCancelled(p) ==
  /\ p \in stopping /\ stage[p] \in {"failed", "refused", "delete", "polling", "pausing"}
  /\ Exit(p)
  /\ UNCHANGED <<sqs, running, blame, stops, core>>

\* The worker ends.  The deferred release makes the message it holds visible at once,
\* unless DeleteMessage was executed although its context was cancelled.
Release(p) ==
  /\ p \in stopping /\ stage[p] \in {"failed", "refused", "delete", "polling", "pausing"}
  /\ \/ ChangeVisibility(held[p], 0)
     \/ stage[p] = "delete" /\ DeleteMessage(held[p])
  /\ Exit(p)
  /\ UNCHANGED <<running, blame, stops, core>>

\* The process dies with its message, or its release is lost.
Crash(p) ==
  /\ held[p] # NoReceipt
  /\ IF stage[p] = "executing" THEN Abandon(held[p].msg) ELSE UNCHANGED <<running, core>>
  /\ Exit(p)
  /\ Fault({held[p].msg})
  /\ UNCHANGED <<sqs, stops>>

CountDown(n) == IF n > 0 THEN n - 1 ELSE 0

\* A message that is not looked at in time, and a call that runs into its timeout,
\* count as faults.
Late == {held[p].msg : p \in {q \in Consumers : stage[q] = "received" \/ deadline[q] = 1}}

Tick ==
  /\ \/ \E m \in Messages : hidden[m] > 0
     \/ \E p \in Consumers : deadline[p] > 0
  /\ Fault(Late)
  /\ hidden' = [m \in Messages |-> CountDown(hidden[m])]
  /\ deadline' = [p \in Consumers |-> CountDown(deadline[p])]
  /\ UNCHANGED <<sent, receives, deleted, dead, stage, held, stopping, running, stops, core>>

ConsumerStep(p) ==
  \/ Start(p)
  \/ \E m \in Messages : Receive(p, m)
  \/ Check(p)
  \/ Execute(p)
  \/ deadline[p] = 0 /\ ExecuteFails(p)
  \/ p \in stopping /\ ExecuteFails(p)
  \/ Delete(p)
  \/ deadline[p] = 0 /\ DeleteFails(p)
  \/ Postpone(p)
  \/ Pause(p)
  \/ Release(p)

\* Everything is settled, and the workers poll an empty queue.
Idle ==
  /\ Queued = {} /\ running = {}
  /\ \A p \in Consumers : stage[p] = "polling" \/ (stage[p] = "stopped" /\ ~Accepts(p))
  /\ UNCHANGED vars

Next ==
  \/ \E m \in Messages : Send(m) \/ Redrive(m) \/ Settle(m)
  \/ \E p \in Consumers :
       \/ ConsumerStep(p)
       \/ \E m \in Messages : ReceiveLost(p, m)
       \/ ExecuteFails(p) \/ DeleteFails(p) \/ PostponeFails(p)
       \/ Stop(p) \/ Crash(p)
  \/ Tick
  \/ Idle

Spec == Init /\ [][Next]_vars

\* The loops of the workers run and an instance that ended is started again; somebody
\* polls, so the redrive is applied; time passes.
Fairness ==
  /\ \A p \in Consumers : WF_vars(ConsumerStep(p))
  /\ \A m \in Messages : WF_vars(Redrive(m))
  /\ WF_vars(Tick)

FairSpec == Spec /\ Fairness

-----------------------------------------------------------------------------
Stages == {"stopped", "polling", "received", "executing", "delete", "failed", "refused",
           "pausing"}

\* A message is in one place, is never received more often than the redrive policy
\* allows, and a worker holds a receipt exactly while it handles a message.
TypeOK ==
  /\ Sent \subseteq Messages /\ Len(sent) = Cardinality(Sent)
  /\ deleted \cap dead = {} /\ deleted \cup dead \subseteq Sent
  /\ hidden \in [Messages -> Nat]
  /\ \A m \in Messages : \/ hidden[m] <= VisibilityTimeout
                         \/ \E n \in 1 .. MaxReceives : hidden[m] <= RetryDelay[n]
  /\ receives \in [Messages -> 0 .. MaxReceives]
  /\ stage \in [Consumers -> Stages]
  /\ held \in [Consumers -> [msg : Messages \cup {Nil}, n : 0 .. MaxReceives]]
  /\ \A p \in Consumers : held[p] = NoReceipt <=> stage[p] \in {"stopped", "polling", "pausing"}
  /\ deadline \in [Consumers -> Nat]
  /\ stopping \subseteq Consumers /\ running \subseteq Messages
  /\ blame \in [Messages -> 0 .. MaxFaults]
  /\ stops \in [Messages \cup {Nil} -> 0 .. MaxStops]
  /\ done \subseteq Messages /\ told \subseteq Messages /\ refused \subseteq Messages
  /\ inbox \in [MessageIds -> {Message[m].body : m \in Messages} \cup {Nil}]

\* The operation of m is there, and its message identifier stands for its body.
Committed(m) == Core!Settled(m) /\ inbox[Message[m].msg] = Message[m].body

\* A message is acknowledged only when its own body has been processed ("ExecuteMessage
\* only returns success after the commit of the inbox and of the domain"): neither a
\* failure nor a refusal nor a lost answer makes it disappear.
AckedIsCommitted == \A m \in deleted : Committed(m)

\* A message that is not refused for good gets into the dead-letter queue only if each
\* of its deliveries had a fault or a shutdown of its own: processing that keeps within
\* its timeout is never overtaken by the visibility timeout.
DeadLettersNeedFaults ==
  \A m \in dead : \/ Permanent(m)
                  \/ blame[m] + stops[m] >= MaxReceives

\* A message that met no fault is invisible only while a worker handles it; a worker
\* that was stopped in the middle has made it visible again.
HiddenIsHeld ==
  \A m \in Queued : hidden[m] > 0 /\ blame[m] = 0 =>
    \E p \in Consumers : held[p] = [msg |-> m, n |-> receives[m]]

\* The operations of a wallet take effect in the order in which they were sent, also
\* with several instances, redeliveries and transactions without a caller; only one
\* that has been given up to the dead-letter queue can come late.
CommitsInOrder ==
  [][\A i, j \in 1 .. Len(sent) :
       /\ i < j /\ Message[sent[i]].wallet = Message[sent[j]].wallet
       /\ sent[i] \in done' \ done
       => sent[j] \notin done \/ sent[i] \in dead]_vars

\* Every message is acknowledged, or ends in the dead-letter queue because it is refused
\* for good or because each of its deliveries had a fault or a shutdown; a refused message
\* does not hold up the ones behind it, nor does an instance that dies with a message.
MessagesSettled ==
  \A m \in Messages :
    m \in Queued ~> \/ m \in deleted
                    \/ m \in dead /\ (Permanent(m) \/ blame[m] + stops[m] >= MaxReceives)
=============================================================================
