--------------------------- MODULE ConsumerProofs ---------------------------
(***************************************************************************)
(* What the consumer promises, for every number of instances, messages,    *)
(* senders, faults and shutdowns, every timeout and every delay:           *)
(*                                                                         *)
(*   - what is acknowledged has been processed (AckInv follows the message *)
(*     from ExecuteMessage to DeleteMessage);                              *)
(*   - the operations of a wallet take effect in their order (QInv: a      *)
(*     message of a group is received only after the earlier ones have     *)
(*     left the queue);                                                    *)
(*   - a message is hidden for nothing by nobody (HInv: whoever lets go of *)
(*     a message makes it visible, or was blamed for a fault);             *)
(*   - a message is given up only when each of its deliveries had a fault  *)
(*     or a shutdown (DInv keeps the account of the deliveries; the one    *)
(*     that is not paid for yet is that of a worker which has the time to  *)
(*     delete the message before the visibility timeout ends);             *)
(*   - the core is used as ExactlyOnce says, and so each operation takes   *)
(*     effect once and its verdict stands (Verdicts).                      *)
(***************************************************************************)
EXTENDS WagerConsumer, SumProofs

Bodies == {Message[m].body : m \in Messages}

AckInv ==
  /\ stage \in [Consumers -> Stages]
  /\ receives \in [Messages -> Nat]
  /\ held \in [Consumers -> [msg : Messages \cup {Nil}, n : Nat]]
  /\ inbox \in [MessageIds -> Bodies \cup {Nil}]
  /\ \A p \in Consumers : stage[p] \notin {"stopped", "polling", "pausing"} => held[p].msg \in Messages
  /\ \A p \in Consumers : stage[p] = "delete" => Committed(held[p].msg)
  /\ deleted \subseteq Messages /\ AckedIsCommitted

\* The core settles a message for good.
LEMMA CommittedStays ==
  ASSUME AckInv, NEW m \in Messages, Core!Commit(m) \/ UNCHANGED core
  PROVE  /\ inbox' \in [MessageIds -> Bodies \cup {Nil}]
         /\ \A x \in Messages : Committed(x) => Committed(x)'
         /\ Core!Commit(m) => Committed(m)'
<1>1. CASE UNCHANGED core /\ ~Core!Commit(m)
  BY <1>1 DEF core, AckInv, Committed, Core!Settled, Core!SameOperation, Core!SameIdentity
<1>2. CASE Core!Commit(m)
  <2>1. Message[m].msg # Nil /\ Message[m].msg \in MessageIds /\ Message[m].body \in Bodies
    BY ConsumerAssumption DEF MessageIds, Bodies
  <2>2. /\ inbox[Message[m].msg] \in {Nil, Message[m].body}
        /\ done' = IF Core!Settled(m) THEN done ELSE done \cup {m}
        /\ inbox' = [inbox EXCEPT ![Message[m].msg] = Message[m].body]
    BY <1>2, <2>1 DEF Core!Commit, Core!Conflicts
  <2>3. inbox' \in [MessageIds -> Bodies \cup {Nil}] /\ inbox'[Message[m].msg] = Message[m].body
    BY <2>1, <2>2 DEF AckInv
  <2>4. done \subseteq done'
    BY <2>2
  <2>5. ASSUME NEW x \in Messages, Committed(x) PROVE Committed(x)'
    <3>1. Core!Settled(x)'
      BY <2>4, <2>5 DEF Committed, Core!Settled, Core!SameOperation, Core!SameIdentity
    <3>2. Message[x].msg \in MessageIds /\ Message[x].body # Nil
      BY ConsumerAssumption DEF MessageIds
    <3>3. inbox'[Message[x].msg] = Message[x].body
      <4>1. CASE Message[x].msg = Message[m].msg
        BY <2>2, <2>3, <2>5, <3>2, <4>1 DEF Committed
      <4>2. CASE Message[x].msg # Message[m].msg
        BY <2>2, <2>5, <3>2, <4>2 DEF Committed, AckInv
      <4> QED BY <4>1, <4>2
    <3> QED BY <3>1, <3>3 DEF Committed
  <2>6. Core!Settled(m)'
    <3>1. CASE Core!Settled(m)
      BY <2>4, <3>1 DEF Core!Settled, Core!SameOperation, Core!SameIdentity
    <3>2. CASE ~Core!Settled(m)
      BY <2>2, <3>2 DEF Core!Settled, Core!SameOperation, Core!SameIdentity
    <3> QED BY <3>1, <3>2
  <2> QED BY <2>3, <2>5, <2>6 DEF Committed
<1> QED BY <1>1, <1>2

\* A step of the queue, the clock or the core that leaves the workers alone.
LEMMA WorkersStand ==
  ASSUME AckInv, UNCHANGED <<stage, held, deleted>>, receives' = receives,
         \/ UNCHANGED core
         \/ \E m \in Messages : Core!Commit(m)
  PROVE  AckInv'
<1>1. inbox' \in [MessageIds -> Bodies \cup {Nil}] /\ \A x \in Messages : Committed(x) => Committed(x)'
  <2>1. CASE UNCHANGED core
    BY <2>1 DEF core, AckInv, Committed, Core!Settled, Core!SameOperation, Core!SameIdentity
  <2>2. CASE \E m \in Messages : Core!Commit(m)
    BY <2>2, CommittedStays
  <2> QED BY <2>1, <2>2
<1> QED BY <1>1 DEF AckInv, AckedIsCommitted, Stages

\* A step of worker p, which holds message h, to stage s with receipt r.
LEMMA WorkerMoves ==
  ASSUME AckInv, NEW p \in Consumers, NEW s \in Stages, NEW r \in [msg : Messages \cup {Nil}, n : Nat],
         NEW h, h = held[p].msg,
         stage' = [stage EXCEPT ![p] = s], held' = [held EXCEPT ![p] = r],
         receives' \in [Messages -> Nat],
         s \notin {"stopped", "polling", "pausing"} => r.msg \in Messages,
         deleted' = deleted \/ (deleted' = deleted \cup {h} /\ stage[p] = "delete"),
         UNCHANGED core \/ (h \in Messages /\ Core!Commit(h)),
         s = "delete" => r.msg = h /\ h \in Messages /\ Core!Commit(h)
  PROVE  AckInv'
<1>1. /\ inbox' \in [MessageIds -> Bodies \cup {Nil}]
      /\ \A x \in Messages : Committed(x) => Committed(x)'
      /\ s = "delete" => Committed(h)'
  <2>1. CASE UNCHANGED core /\ s # "delete"
    BY <2>1 DEF core, AckInv, Committed, Core!Settled, Core!SameOperation, Core!SameIdentity
  <2>2. CASE h \in Messages /\ Core!Commit(h)
    BY <2>2, CommittedStays
  <2> QED BY <2>1, <2>2
<1>2. deleted' \subseteq Messages /\ \A x \in deleted' : Committed(x)'
  <2>1. deleted \subseteq Messages /\ \A x \in deleted : Committed(x)'
    BY <1>1 DEF AckInv, AckedIsCommitted
  <2>2. stage[p] = "delete" => h \in Messages /\ Committed(h)
    BY DEF AckInv
  <2>3. stage[p] = "delete" => h \in Messages /\ Committed(h)'
    BY <1>1, <2>2
  <2> QED BY <2>1, <2>3
<1>3. /\ stage' \in [Consumers -> Stages]
      /\ held' \in [Consumers -> [msg : Messages \cup {Nil}, n : Nat]]
      /\ stage'[p] = s /\ held'[p] = r
      /\ \A q \in Consumers \ {p} : stage'[q] = stage[q] /\ held'[q] = held[q]
  BY DEF AckInv
<1>4. \A q \in Consumers : stage'[q] \notin {"stopped", "polling", "pausing"} => held'[q].msg \in Messages
  BY <1>3 DEF AckInv
<1>5. \A q \in Consumers : stage'[q] = "delete" => \E x \in Messages : x = held'[q].msg /\ Committed(x)'
  <2>1. ASSUME NEW q \in Consumers, q # p, stage'[q] = "delete"
        PROVE  \E x \in Messages : x = held'[q].msg /\ Committed(x)'
    <3>1. \E x \in Messages : x = held[q].msg /\ Committed(x)
      BY <1>3, <2>1 DEF AckInv
    <3> QED BY <1>1, <1>3, <2>1, <3>1
  <2>2. stage'[p] = "delete" => h = held'[p].msg /\ h \in Messages /\ Committed(h)'
    BY <1>1, <1>3
  <2> QED BY <2>1, <2>2
<1>6. \A q \in Consumers : stage'[q] = "delete" => Committed(held[q].msg)'
  BY <1>5 DEF Committed, Core!Settled, Core!SameOperation, Core!SameIdentity
<1>7. AckedIsCommitted'
  BY <1>2 DEF AckedIsCommitted
<1> QED BY <1>1, <1>2, <1>3, <1>4, <1>6, <1>7 DEF AckInv

\* A worker that drops its message, whatever SQS and the core have made of it.
LEMMA DropKeeps ==
  ASSUME AckInv, NEW p \in Consumers, NEW s \in {"stopped", "polling", "pausing"}, Drop(p, s),
         receives' \in [Messages -> Nat],
         deleted' = deleted \/ (deleted' = deleted \cup {held[p].msg} /\ stage[p] = "delete"),
         UNCHANGED core \/ (held[p].msg \in Messages /\ Core!Commit(held[p].msg))
  PROVE  AckInv'
<1>1. stage' = [stage EXCEPT ![p] = s] /\ held' = [held EXCEPT ![p] = NoReceipt]
  BY DEF Drop, Become
<1>2. NoReceipt \in [msg : Messages \cup {Nil}, n : Nat] /\ s \in Stages
  BY DEF NoReceipt, Stages
<1>3. PICK h : h = held[p].msg
  OBVIOUS
<1> QED BY <1>1, <1>2, <1>3, WorkerMoves

\* A worker that keeps its message while SQS is not asked.
LEMMA KeepKeeps ==
  ASSUME AckInv, NEW p \in Consumers, NEW s \in Stages, NEW d, Become(p, s, d),
         UNCHANGED <<held, receives, deleted>>,
         s \notin {"stopped", "polling", "pausing"} => held[p].msg \in Messages,
         UNCHANGED core \/ (held[p].msg \in Messages /\ Core!Commit(held[p].msg)),
         s = "delete" => held[p].msg \in Messages /\ Core!Commit(held[p].msg)
  PROVE  AckInv'
<1>1. stage' = [stage EXCEPT ![p] = s] /\ held' = [held EXCEPT ![p] = held[p]]
      /\ held[p] \in [msg : Messages \cup {Nil}, n : Nat]
  BY DEF Become, AckInv
<1>2. PICK h : h = held[p].msg
  OBVIOUS
<1>3. receives' \in [Messages -> Nat]
  BY DEF AckInv
<1> QED BY <1>1, <1>2, <1>3, WorkerMoves

\* What a call to SQS can do to the receipts and to what is acknowledged.
LEMMA QueueCalls ==
  ASSUME NEW r
  PROVE  /\ DeleteMessage(r) => /\ receives' = receives
                                /\ deleted' = deleted \/ deleted' = deleted \cup {r.msg}
         /\ UNCHANGED sqs => receives' = receives /\ deleted' = deleted
BY DEF DeleteMessage, sqs

\* A receipt whose visibility is changed is not acknowledged.
LEMMA VisibilityCalls ==
  ASSUME NEW r, NEW delay, ChangeVisibility(r, delay)
  PROVE  receives' = receives /\ deleted' = deleted
BY DEF ChangeVisibility, sqs

\* What becomes of a transaction without a caller.
LEMMA AbandonCommits ==
  ASSUME NEW m, Abandon(m) PROVE UNCHANGED core \/ Core!Commit(m)
BY DEF Abandon, Core!TakeUnheard

\* Whatever a worker does keeps the invariant.
LEMMA WorkersKeep ==
  ASSUME AckInv, NEW p \in Consumers,
         \/ ConsumerStep(p)
         \/ \E m \in Messages : ReceiveLost(p, m)
         \/ ExecuteFails(p) \/ DeleteFails(p) \/ PostponeFails(p) \/ Crash(p)
  PROVE  AckInv'
<1> USE DEF Stages
<1>1. receives \in [Messages -> Nat] /\ held[p] \in [msg : Messages \cup {Nil}, n : Nat]
      /\ (stage[p] \notin {"stopped", "polling", "pausing"} => held[p].msg \in Messages)
  BY DEF AckInv
<1>2. CASE Start(p) \/ Pause(p)
  <2>1. Become(p, "polling", 0) /\ UNCHANGED <<held, receives, deleted, core>>
    BY <1>2 DEF Start, Pause, sqs
  <2> QED BY <2>1, KeepKeeps
<1>3. CASE \E m \in Messages : Receive(p, m)
  <2>1. PICK m \in Messages : Receive(p, m)
    BY <1>3
  <2> DEFINE r == [msg |-> m, n |-> receives[m] + 1]
  <2>2. /\ stage' = [stage EXCEPT ![p] = "received"] /\ held' = [held EXCEPT ![p] = r]
        /\ receives' = [receives EXCEPT ![m] = @ + 1] /\ deleted' = deleted /\ UNCHANGED core
    BY <2>1 DEF Receive, Deliver, Become
  <2>3. r \in [msg : Messages \cup {Nil}, n : Nat] /\ r.msg \in Messages /\ receives' \in [Messages -> Nat]
    BY <1>1, <2>2
  <2>4. PICK h : h = held[p].msg
    OBVIOUS
  <2> HIDE DEF r
  <2> QED BY <2>2, <2>3, <2>4, WorkerMoves
<1>4. CASE \E m \in Messages : ReceiveLost(p, m)
  <2>1. PICK m \in Messages : ReceiveLost(p, m)
    BY <1>4
  <2>2. \E s \in {"stopped", "polling", "pausing"} : Drop(p, s)
    BY <2>1 DEF ReceiveLost, Exit
  <2>3. receives' \in [Messages -> Nat] /\ deleted' = deleted /\ UNCHANGED core
    BY <1>1, <2>1 DEF ReceiveLost, Deliver
  <2> QED BY <2>2, <2>3, DropKeeps
<1>5. CASE Check(p)
  <2>1. UNCHANGED <<held, receives, deleted, core>> /\ held[p].msg \in Messages
    BY <1>1, <1>5 DEF Check, sqs
  <2>2. \E s \in {"refused", "failed", "executing"} : \E d : Become(p, s, d)
    BY <1>5 DEF Check
  <2> QED BY <2>1, <2>2, KeepKeeps
<1>6. CASE Execute(p)
  <2>1. UNCHANGED <<held, receives, deleted>> /\ held[p].msg \in Messages
    BY <1>1, <1>6 DEF Execute, sqs
  <2>2. CASE Core!Conflicts(held[p].msg)
    <3>1. Become(p, "refused", 0) /\ done' = done /\ inbox' = inbox /\ told' = told
      BY <1>6, <2>2 DEF Execute, Core!Refuse
    <3>2. /\ inbox' \in [MessageIds -> Bodies \cup {Nil}]
          /\ \A x \in Messages : Committed(x)' <=> Committed(x)
      BY <3>1 DEF AckInv, Committed, Core!Settled, Core!SameOperation, Core!SameIdentity
    <3>3. /\ stage' = [stage EXCEPT ![p] = "refused"]
          /\ \A q \in Consumers : stage'[q] = "delete" => stage[q] = "delete"
          /\ \A q \in Consumers : stage'[q] \notin {"stopped", "polling", "pausing"} => held[q].msg \in Messages
      BY <2>1, <3>1 DEF Become, AckInv
    <3>4. \A q \in Consumers : stage'[q] = "delete" => Committed(held[q].msg)'
      BY <2>1, <3>1, <3>3 DEF AckInv, Committed, Core!Settled, Core!SameOperation, Core!SameIdentity
    <3> QED BY <2>1, <3>2, <3>3, <3>4 DEF AckInv, AckedIsCommitted
  <2>3. CASE ~Core!Conflicts(held[p].msg)
    <3>1. Become(p, "delete", DeleteTimeout) /\ Core!Commit(held[p].msg)
      BY <1>6, <2>3 DEF Execute, Core!Take
    <3> QED BY <2>1, <3>1, KeepKeeps
  <2> QED BY <2>2, <2>3
<1>7. CASE ExecuteFails(p)
  <2>1. Become(p, "failed", 0) /\ UNCHANGED <<held, receives, deleted>> /\ held[p].msg \in Messages
    BY <1>1, <1>7 DEF ExecuteFails, sqs
  <2>2. UNCHANGED core \/ Core!Commit(held[p].msg)
    BY <1>7, AbandonCommits DEF ExecuteFails
  <2> QED BY <2>1, <2>2, KeepKeeps
<1>8. CASE Delete(p) \/ DeleteFails(p)
  <2>1. stage[p] = "delete" /\ UNCHANGED core /\ (DeleteMessage(held[p]) \/ UNCHANGED sqs)
    BY <1>8 DEF Delete, DeleteFails
  <2>2. \E s \in {"stopped", "polling", "pausing"} : Drop(p, s)
    BY <1>8 DEF Delete, DeleteFails
  <2> QED BY <1>1, <2>1, <2>2, QueueCalls, DropKeeps
<1>9. CASE Postpone(p) \/ PostponeFails(p)
  <2>1. UNCHANGED core /\ Drop(p, "pausing") /\ receives' = receives /\ deleted' = deleted
    BY <1>9, VisibilityCalls DEF Postpone, PostponeFails, sqs
  <2> QED BY <1>1, <2>1, DropKeeps
<1>10. CASE Release(p)
  <2>1. UNCHANGED core /\ Drop(p, "stopped")
    BY <1>10 DEF Release, Exit
  <2>2. ChangeVisibility(held[p], 0) \/ (stage[p] = "delete" /\ DeleteMessage(held[p]))
    BY <1>10 DEF Release
  <2> QED BY <1>1, <2>1, <2>2, QueueCalls, VisibilityCalls, DropKeeps
<1>11. CASE Crash(p)
  <2>1. Drop(p, "stopped") /\ receives' = receives /\ deleted' = deleted
    BY <1>11 DEF Crash, Exit, sqs
  <2>2. UNCHANGED core \/ (stage[p] = "executing" /\ Core!Commit(held[p].msg))
    BY <1>11, AbandonCommits DEF Crash
  <2> QED BY <1>1, <2>1, <2>2, DropKeeps
<1> QED BY <1>2, <1>3, <1>4, <1>5, <1>6, <1>7, <1>8, <1>9, <1>10, <1>11 DEF ConsumerStep

\* In the beginning nothing is acknowledged.
LEMMA AcksInit == Init => AckInv
BY ConsumerAssumption
DEF Init, AckInv, Stages, NoReceipt, AckedIsCommitted, Core!Init

\* Every step keeps the invariant.
LEMMA AcksStep == AckInv /\ [Next]_vars => AckInv'
<1> SUFFICES ASSUME AckInv, [Next]_vars PROVE AckInv'
  OBVIOUS
<1>1. CASE UNCHANGED vars
  BY <1>1, WorkersStand DEF vars, sqs
<1>2. ASSUME NEW m \in Messages, Send(m) \/ Redrive(m) \/ Settle(m) PROVE AckInv'
  <2>1. UNCHANGED <<stage, held, deleted>> /\ receives' = receives
    BY <1>2 DEF Send, Redrive, Settle, sqs
  <2>2. UNCHANGED core \/ Core!Commit(m)
    BY <1>2 DEF Send, Redrive, Settle, Core!TakeUnheard
  <2> QED BY <2>1, <2>2, WorkersStand
<1>3. ASSUME NEW p \in Consumers, Stop(p) PROVE AckInv'
  BY <1>3, WorkersStand DEF Stop, sqs
<1>4. CASE Tick
  BY <1>4, WorkersStand DEF Tick, sqs
<1>5. CASE Idle
  BY <1>1, <1>5 DEF Idle
<1> QED BY <1>1, <1>2, <1>3, <1>4, <1>5, WorkersKeep DEF Next

\* Nobody is told that a message was processed, least of all SQS, before it was
\* (WagerMessageHandler.Handle deletes after ExecuteMessage has returned without error).
THEOREM AcknowledgedIsCommitted == Spec => []AckedIsCommitted
<1>1. AckInv => AckedIsCommitted
  BY DEF AckInv
<1> QED BY <1>1, AcksInit, AcksStep, PTL DEF Spec

-----------------------------------------------------------------------------
(* What the queue, the workers and the core are like.                       *)

Handling == {"received", "executing", "delete", "failed", "refused"}

\* The queue holds each message once, and every receipt is of a delivery of its own.
Receipts ==
  /\ sent \in Seq(Messages)
  /\ \A i, j \in 1 .. Len(sent) : sent[i] = sent[j] => i = j
  /\ Len(sent) = Cardinality(Sent)
  /\ deleted \cap dead = {} /\ deleted \cup dead \subseteq Sent
  /\ receives \in [Messages -> 0 .. MaxReceives]
  /\ \A m \in Messages : receives[m] > 0 => m \in Sent
  /\ \A p \in Consumers : stage[p] \in Handling =>
       held[p].msg \in Sent /\ held[p].n \in 1 .. receives[held[p].msg]
  /\ \A p \in Consumers : stage[p] \notin Handling => held[p] = NoReceipt
  /\ \A p, q \in Consumers : stage[p] \in Handling /\ p # q => held[p] # held[q]

\* A receipt is invisible for a time that somebody asked for.
Bounded(n) == n <= VisibilityTimeout \/ \E k \in 1 .. MaxReceives : n <= RetryDelay[k]

\* Timers, and the instances that run.
Timers ==
  /\ hidden \in [Messages -> Nat] /\ \A m \in Messages : Bounded(hidden[m])
  /\ deadline \in [Consumers -> Nat]
  /\ stopping \subseteq Consumers
  /\ \A p \in Consumers : stage[p] # "stopped" => Accepts(p)

\* Faults and shutdowns are within their bounds.
Blames ==
  /\ blame \in [Messages -> 0 .. MaxFaults]
  /\ stops \in [Messages \cup {Nil} -> 0 .. MaxStops]

\* Only a message that was received and not refused is ever executed.
Tried(m) == m \in Messages /\ receives[m] > 0 /\ ~Refuses(m)

Work ==
  /\ told \subseteq Messages /\ refused \subseteq Messages
  /\ \A m \in running \cup done : Tried(m)
  /\ \A p \in Consumers : stage[p] = "executing" => ~Refuses(held[p].msg)

\* Of two messages of a group, the later one was received only after the earlier one had
\* left the queue.
InOrder ==
  \A i, j \in 1 .. Len(sent) :
    /\ i < j /\ Message[sent[i]].group = Message[sent[j]].group
    /\ receives[sent[j]] > 0
    => sent[i] \in deleted \cup dead

QInv == AckInv /\ Receipts /\ Timers /\ Blames /\ Work /\ InOrder

\* What a worker may ask of the queue for its receipt: nothing, to delete it, or to make it
\* visible after a delay.
Asks(r, delay) ==
  \/ UNCHANGED <<hidden, deleted>>
  \/ Good(r) /\ deleted' = deleted \cup {r.msg} /\ hidden' = [hidden EXCEPT ![r.msg] = 0]
  \/ Good(r) /\ deleted' = deleted /\ hidden' = [hidden EXCEPT ![r.msg] = delay]

\* What execution may do to the core, for message h.
Ran(h) ==
  /\ done' \subseteq done \cup {h} /\ running' \subseteq running \cup {h}
  /\ told' \subseteq told \cup {h} /\ refused' \subseteq refused \cup {h}

\* Whatever a worker p does that is not the receipt of a message: it goes on to s with time
\* d for its next call, keeps its receipt as long as it handles it, and touches the queue
\* and the core for that receipt only.
Moves(p, s, d, delay) ==
  /\ s \in Stages /\ d \in Nat /\ delay \in Nat /\ Bounded(delay)
  /\ stage' = [stage EXCEPT ![p] = s] /\ deadline' = [deadline EXCEPT ![p] = d]
  /\ held' = IF s \in Handling THEN held ELSE [held EXCEPT ![p] = NoReceipt]
  /\ s \in Handling => stage[p] \in Handling
  /\ s = "executing" => ~Refuses(held[p].msg)
  /\ stage[p] # "stopped" \/ Accepts(p)
  /\ stopping' \in {stopping, stopping \ {p}}
  /\ UNCHANGED <<sent, receives, dead, stops>>
  /\ Asks(held[p], delay)
  /\ UNCHANGED <<core, running>> \/ (stage[p] = "executing" /\ Ran(held[p].msg))

\* Only messages are sent.
LEMMA SentAreMessages ==
  ASSUME Receipts
  PROVE  /\ Len(sent) \in Nat /\ Sent \subseteq Messages
         /\ \A i \in 1 .. Len(sent) : sent[i] \in Messages /\ sent[i] \in Sent
<1>1. sent \in Seq(Messages)
  BY DEF Receipts
<1>2. Len(sent) \in Nat /\ \A i \in 1 .. Len(sent) : sent[i] \in Messages
  BY <1>1
<1> QED BY <1>2 DEF Sent

\* What the receipts of workers that handle a message are.
LEMMA HeldReceipt ==
  ASSUME QInv, NEW p \in Consumers, stage[p] \in Handling
  PROVE  /\ held[p].msg \in Sent /\ held[p].msg \in Messages
         /\ held[p].n \in 1 .. MaxReceives /\ receives[held[p].msg] > 0
<1>1. held[p].msg \in Sent /\ held[p].n \in 1 .. receives[held[p].msg]
  BY DEF QInv, Receipts
<1>2. held[p].msg \in Messages
  BY <1>1, SentAreMessages DEF QInv
<1>3. receives[held[p].msg] \in 0 .. MaxReceives
  BY <1>2 DEF QInv, Receipts
<1> QED BY <1>1, <1>2, <1>3, ConsumerAssumption

\* The two calls of the queue, as they are asked for a receipt.
LEMMA CallsAsk ==
  ASSUME NEW r, NEW delay
  PROVE  /\ DeleteMessage(r) => UNCHANGED <<sent, receives, dead>> /\ Asks(r, delay)
         /\ ChangeVisibility(r, delay) => UNCHANGED <<sent, receives, dead>> /\ Asks(r, delay)
         /\ UNCHANGED sqs => UNCHANGED <<sent, receives, dead>> /\ Asks(r, delay)
BY DEF DeleteMessage, ChangeVisibility, Asks, sqs

\* A transaction that was left touches the core for its message only.
LEMMA AbandonRuns ==
  ASSUME NEW h, Abandon(h)
  PROVE  UNCHANGED <<core, running>> \/ Ran(h)
BY DEF Abandon, Ran, Core!TakeUnheard, Core!Commit, core

\* What the end of the handling of a message, or of an instance, makes of the worker.
LEMMA Drops ==
  ASSUME QInv, NEW p \in Consumers, NEW s \in {"stopped", "polling", "pausing"}, Drop(p, s)
  PROVE  /\ stage' = [stage EXCEPT ![p] = s] /\ deadline' = [deadline EXCEPT ![p] = 0]
         /\ held' = [held EXCEPT ![p] = NoReceipt] /\ s \notin Handling
BY DEF Drop, Become, Handling

\* Every step of a worker but the receipt of a message is of that form.
LEMMA WorkersMove ==
  ASSUME QInv, NEW p \in Consumers,
         \/ Start(p) \/ Pause(p) \/ Check(p) \/ Execute(p) \/ ExecuteFails(p)
         \/ Delete(p) \/ DeleteFails(p) \/ Postpone(p) \/ PostponeFails(p) \/ Release(p) \/ Crash(p)
  PROVE  \E s, d, delay : Moves(p, s, d, delay)
<1> DEFINE r == held[p]
<1>1. /\ Bounded(0) /\ 0 \in Nat /\ DeleteTimeout \in Nat
      /\ \A n \in 1 .. MaxReceives : RetryDelay[n] \in Nat /\ Bounded(RetryDelay[n])
  BY ConsumerAssumption DEF Bounded
<1>2. stage[p] \in Stages /\ (stage[p] # "stopped" => Accepts(p)) /\ (stage[p] \notin Handling => r = NoReceipt)
  BY DEF QInv, AckInv, Timers, Receipts
<1>3. held' = held /\ stage[p] \notin Handling => held' = [held EXCEPT ![p] = NoReceipt]
  BY <1>2 DEF QInv, AckInv
<1>4. CASE Start(p)
  <2>1. Moves(p, "polling", 0, 0)
    BY <1>1, <1>3, <1>4 DEF Start, Moves, Become, Stages, Handling, Asks, sqs
  <2> QED BY <2>1
<1>5. CASE Pause(p)
  <2>1. Moves(p, "polling", 0, 0)
    BY <1>1, <1>2, <1>3, <1>5 DEF Pause, Moves, Become, Stages, Handling, Asks, sqs
  <2> QED BY <2>1
<1>6. CASE Check(p)
  <2>1. \/ Become(p, "refused", 0)
        \/ Become(p, "failed", 0)
        \/ ~Refuses(r.msg) /\ Become(p, "executing", ProcessingTimeout[p])
    BY <1>6 DEF Check
  <2>2. /\ UNCHANGED <<sent, receives, dead, stops>> /\ Asks(r, 0) /\ held' = held
        /\ stopping' = stopping /\ UNCHANGED <<core, running>> /\ stage[p] = "received"
    BY <1>6 DEF Check, Asks, sqs
  <2>3. ProcessingTimeout[p] \in Nat
    BY <1>2, <2>2, ConsumerAssumption DEF Accepts
  <2>4. Moves(p, "refused", 0, 0) \/ Moves(p, "failed", 0, 0) \/ Moves(p, "executing", ProcessingTimeout[p], 0)
    BY <1>1, <1>2, <2>1, <2>2, <2>3 DEF Moves, Become, Stages, Handling
  <2> QED BY <2>4
<1>7. CASE Execute(p)
  <2>1. /\ UNCHANGED <<sent, receives, dead, stops>> /\ Asks(r, 0) /\ held' = held
        /\ stopping' = stopping /\ running' = running /\ stage[p] = "executing"
    BY <1>7 DEF Execute, Asks, sqs
  <2>2. Become(p, "refused", 0) \/ Become(p, "delete", DeleteTimeout)
    BY <1>7 DEF Execute
  <2>3. Ran(r.msg)
    BY <1>7 DEF Execute, Ran, Core!Refuse, Core!Take, Core!Commit
  <2>4. Moves(p, "refused", 0, 0) \/ Moves(p, "delete", DeleteTimeout, 0)
    BY <1>1, <1>2, <2>1, <2>2, <2>3 DEF Moves, Become, Stages, Handling
  <2> QED BY <2>4
<1>8. CASE ExecuteFails(p)
  <2>1. /\ UNCHANGED <<sent, receives, dead, stops>> /\ Asks(r, 0) /\ held' = held
        /\ stopping' = stopping /\ stage[p] = "executing" /\ Become(p, "failed", 0)
    BY <1>8 DEF ExecuteFails, Asks, sqs
  <2>2. UNCHANGED <<core, running>> \/ Ran(r.msg)
    BY <1>8, AbandonRuns DEF ExecuteFails
  <2>3. Moves(p, "failed", 0, 0)
    BY <1>1, <1>2, <2>1, <2>2 DEF Moves, Become, Stages, Handling
  <2> QED BY <2>3
<1>9. CASE Delete(p) \/ DeleteFails(p)
  <2>1. /\ UNCHANGED <<stops, core, running>> /\ stopping' = stopping /\ stage[p] = "delete"
        /\ DeleteMessage(r) \/ UNCHANGED sqs
    BY <1>9 DEF Delete, DeleteFails
  <2>2. UNCHANGED <<sent, receives, dead>> /\ Asks(r, 0)
    BY <2>1, CallsAsk
  <2>3. Drop(p, "polling") \/ Drop(p, "pausing")
    BY <1>9 DEF Delete, DeleteFails
  <2>4. Moves(p, "polling", 0, 0) \/ Moves(p, "pausing", 0, 0)
    BY <1>1, <1>2, <2>1, <2>2, <2>3, Drops DEF Moves, Stages
  <2> QED BY <2>4
<1>10. CASE Postpone(p)
  <2> DEFINE delay == IF stage[p] = "refused" THEN 0 ELSE RetryDelay[r.n]
  <2>1. /\ UNCHANGED <<stops, core, running>> /\ stopping' = stopping /\ stage[p] \in Handling
        /\ ChangeVisibility(r, delay) /\ Drop(p, "pausing")
    BY <1>10 DEF Postpone, Handling
  <2>2. r.n \in 1 .. MaxReceives
    BY <2>1, HeldReceipt
  <2>3. delay \in Nat /\ Bounded(delay)
    BY <1>1, <2>2
  <2> HIDE DEF delay
  <2>4. UNCHANGED <<sent, receives, dead>> /\ Asks(r, delay)
    BY <2>1, CallsAsk
  <2>5. /\ stage' = [stage EXCEPT ![p] = "pausing"] /\ deadline' = [deadline EXCEPT ![p] = 0]
        /\ held' = [held EXCEPT ![p] = NoReceipt] /\ "pausing" \notin Handling
    BY <2>1, Drops
  <2>6. Accepts(p)
    BY <1>2, <2>1 DEF Handling
  <2>7. Moves(p, "pausing", 0, delay)
    BY <1>1, <2>1, <2>3, <2>4, <2>5, <2>6 DEF Moves, Stages
  <2> QED BY <2>7
<1>11. CASE PostponeFails(p)
  <2>1. /\ UNCHANGED <<sent, receives, dead, stops, core, running>> /\ stopping' = stopping
        /\ Asks(r, 0) /\ Drop(p, "pausing") /\ stage[p] # "stopped"
    BY <1>11 DEF PostponeFails, Asks, sqs
  <2>2. Moves(p, "pausing", 0, 0)
    BY <1>1, <1>2, <2>1, Drops DEF Moves, Stages
  <2> QED BY <2>2
<1>12. CASE Release(p)
  <2>1. /\ UNCHANGED <<stops, core, running>> /\ stopping' = stopping \ {p} /\ stage[p] # "stopped"
        /\ ChangeVisibility(r, 0) \/ DeleteMessage(r)
        /\ Drop(p, "stopped")
    BY <1>12 DEF Release, Exit
  <2>2. UNCHANGED <<sent, receives, dead>> /\ Asks(r, 0)
    BY <2>1, CallsAsk
  <2>3. Moves(p, "stopped", 0, 0)
    BY <1>1, <1>2, <2>1, <2>2, Drops DEF Moves, Stages
  <2> QED BY <2>3
<1>13. CASE Crash(p)
  <2>1. /\ UNCHANGED <<sent, receives, dead, stops>> /\ stopping' = stopping \ {p}
        /\ Asks(r, 0) /\ Drop(p, "stopped") /\ r # NoReceipt
    BY <1>13 DEF Crash, Exit, Asks, sqs
  <2>2. UNCHANGED <<core, running>> \/ (stage[p] = "executing" /\ Ran(r.msg))
    BY <1>13, AbandonRuns DEF Crash
  <2>3. stage[p] # "stopped"
    BY <1>2, <2>1 DEF Handling
  <2>4. Moves(p, "stopped", 0, 0)
    BY <1>1, <1>2, <2>1, <2>2, <2>3, Drops DEF Moves, Stages
  <2> QED BY <2>4
<1> QED BY <1>4, <1>5, <1>6, <1>7, <1>8, <1>9, <1>10, <1>11, <1>12, <1>13

\* A good receipt is that of the worker that handles the message, in its last delivery.
LEMMA GoodReceipt ==
  ASSUME QInv, NEW p \in Consumers, Good(held[p])
  PROVE  /\ stage[p] \in Handling /\ held[p].msg \in Messages
         /\ held[p].msg \in Sent /\ held[p].msg \notin deleted \cup dead
         /\ held[p] = [msg |-> held[p].msg, n |-> receives[held[p].msg]]
         /\ hidden[held[p].msg] > 0
<1>1. held[p].msg \in Queued /\ held[p].n = receives[held[p].msg] /\ hidden[held[p].msg] > 0
  BY DEF Good
<1>2. held[p].msg \in Messages
  BY <1>1, SentAreMessages DEF QInv, Queued
<1>3. held[p] # NoReceipt
  BY <1>2, ConsumerAssumption DEF NoReceipt
<1>4. held[p] \in [msg : Messages \cup {Nil}, n : Nat]
  BY DEF QInv, AckInv
<1> QED BY <1>1, <1>2, <1>3, <1>4 DEF QInv, Receipts, Queued

\* What a step of that form changes, and what it leaves alone.
LEMMA MovesOnly ==
  ASSUME QInv, NEW p \in Consumers, NEW s, NEW d, NEW delay, Moves(p, s, d, delay)
  PROVE  /\ stage' \in [Consumers -> Stages] /\ stage'[p] = s
         /\ deadline' \in [Consumers -> Nat] /\ deadline'[p] = d
         /\ \A q \in Consumers \ {p} :
              stage'[q] = stage[q] /\ deadline'[q] = deadline[q] /\ held'[q] = held[q]
         /\ s \in Handling => held'[p] = held[p] /\ stage[p] \in Handling
         /\ s \notin Handling => held'[p] = NoReceipt
         /\ Sent' = Sent /\ sent' = sent /\ receives' = receives /\ dead' = dead
         /\ deleted \subseteq deleted'
         /\ deleted' # deleted => Good(held[p]) /\ deleted' = deleted \cup {held[p].msg}
         /\ hidden' \in [Messages -> Nat]
         /\ \A m \in Messages : \/ hidden'[m] = hidden[m]
                                \/ /\ Good(held[p]) /\ m = held[p].msg
                                   /\ hidden'[m] \in {0, delay}
<1>1. stage \in [Consumers -> Stages] /\ deadline \in [Consumers -> Nat] /\ hidden \in [Messages -> Nat]
  BY DEF QInv, AckInv, Timers
<1>2. \E R : held \in [Consumers -> R]
  BY DEF QInv, AckInv
<1>3. /\ s \in Stages /\ d \in Nat /\ delay \in Nat
      /\ stage' = [stage EXCEPT ![p] = s] /\ deadline' = [deadline EXCEPT ![p] = d]
      /\ held' = IF s \in Handling THEN held ELSE [held EXCEPT ![p] = NoReceipt]
      /\ s \in Handling => stage[p] \in Handling
      /\ UNCHANGED <<sent, receives, dead>> /\ Asks(held[p], delay)
  BY DEF Moves
<1>4. /\ stage' \in [Consumers -> Stages] /\ stage'[p] = s
      /\ deadline' \in [Consumers -> Nat] /\ deadline'[p] = d
      /\ \A q \in Consumers \ {p} : stage'[q] = stage[q] /\ deadline'[q] = deadline[q]
  BY <1>1, <1>3
<1>5. /\ \A q \in Consumers \ {p} : held'[q] = held[q]
      /\ s \in Handling => held'[p] = held[p] /\ stage[p] \in Handling
      /\ s \notin Handling => held'[p] = NoReceipt
  BY <1>2, <1>3
<1>6. Sent' = Sent
  BY <1>3 DEF Sent
<1>7. /\ deleted \subseteq deleted'
      /\ deleted' # deleted => Good(held[p]) /\ deleted' = deleted \cup {held[p].msg}
  BY <1>3 DEF Asks
<1>8. Good(held[p]) => held[p].msg \in Messages
  BY GoodReceipt
<1>9. /\ hidden' \in [Messages -> Nat]
      /\ \A m \in Messages : \/ hidden'[m] = hidden[m]
                             \/ /\ Good(held[p]) /\ m = held[p].msg
                                /\ hidden'[m] \in {0, delay}
  BY <1>1, <1>3, <1>8 DEF Asks
<1> QED BY <1>3, <1>4, <1>5, <1>6, <1>7, <1>9

\* The receipts stay apart.
LEMMA MovesKeepReceipts ==
  ASSUME QInv, NEW p \in Consumers, NEW s, NEW d, NEW delay, Moves(p, s, d, delay)
  PROVE  Receipts'
<1>1. /\ Sent' = Sent /\ sent' = sent /\ receives' = receives /\ dead' = dead
      /\ deleted \subseteq deleted'
      /\ deleted' # deleted => Good(held[p]) /\ deleted' = deleted \cup {held[p].msg}
  BY MovesOnly
<1>2. /\ stage'[p] = s
      /\ \A q \in Consumers \ {p} : stage'[q] = stage[q] /\ held'[q] = held[q]
      /\ s \in Handling => held'[p] = held[p] /\ stage[p] \in Handling
      /\ s \notin Handling => held'[p] = NoReceipt
  BY MovesOnly
<1>3. deleted' \cap dead' = {} /\ deleted' \cup dead' \subseteq Sent'
  <2>1. Good(held[p]) => held[p].msg \in Sent /\ held[p].msg \notin deleted \cup dead
    BY GoodReceipt
  <2> QED BY <1>1, <2>1 DEF QInv, Receipts
<1>4. \A q \in Consumers : stage'[q] \in Handling => stage[q] \in Handling /\ held'[q] = held[q]
  BY <1>2
<1>5. \A q \in Consumers : stage'[q] \notin Handling => held'[q] = NoReceipt
  BY <1>2 DEF QInv, Receipts
<1>6. ASSUME NEW q \in Consumers, NEW r \in Consumers, stage'[q] \in Handling, q # r
      PROVE  held'[q] # held'[r]
  <2>1. stage[q] \in Handling /\ held'[q] = held[q] /\ held[q] # held[r]
    BY <1>4, <1>6 DEF QInv, Receipts
  <2>2. held[q] # NoReceipt
    <3>1. held[q].msg \in Messages
      BY <2>1, HeldReceipt
    <3> QED BY <3>1, ConsumerAssumption DEF NoReceipt
  <2>3. held'[r] = held[r] \/ held'[r] = NoReceipt
    BY <1>4, <1>5
  <2> QED BY <2>1, <2>2, <2>3
<1> QED BY <1>1, <1>3, <1>4, <1>5, <1>6 DEF QInv, Receipts

\* Timers stay within bounds.
LEMMA MovesKeepTimers ==
  ASSUME QInv, NEW p \in Consumers, NEW s, NEW d, NEW delay, Moves(p, s, d, delay)
  PROVE  Timers'
<1>1. deadline' \in [Consumers -> Nat] /\ hidden' \in [Messages -> Nat]
  BY MovesOnly
<1>2. ASSUME NEW m \in Messages PROVE Bounded(hidden'[m])
  <2>1. Bounded(0) /\ Bounded(delay) /\ Bounded(hidden[m])
    BY ConsumerAssumption DEF QInv, Timers, Moves, Bounded
  <2>2. hidden'[m] = hidden[m] \/ hidden'[m] = 0 \/ hidden'[m] = delay
    BY MovesOnly
  <2> QED BY <2>1, <2>2
<1>3. stopping' \subseteq Consumers
  BY DEF Moves, QInv, Timers
<1>4. \A q \in Consumers : stage'[q] # "stopped" => Accepts(q)
  <2>1. \A q \in Consumers \ {p} : stage'[q] = stage[q]
    BY MovesOnly
  <2>2. Accepts(p)
    BY DEF Moves, QInv, Timers
  <2> QED BY <2>1, <2>2 DEF QInv, Timers
<1> QED BY <1>1, <1>2, <1>3, <1>4 DEF Timers, Bounded, Accepts

\* Only what was tried is executed.
LEMMA MovesKeepWork ==
  ASSUME QInv, NEW p \in Consumers, NEW s, NEW d, NEW delay, Moves(p, s, d, delay)
  PROVE  Work'
<1>1. UNCHANGED <<core, running>> \/ (stage[p] = "executing" /\ Ran(held[p].msg))
  BY DEF Moves
<1>2. stage[p] = "executing" => Tried(held[p].msg)
  <2> SUFFICES ASSUME stage[p] = "executing" PROVE Tried(held[p].msg)
    OBVIOUS
  <2>1. stage[p] \in Handling
    BY DEF Handling
  <2> QED BY <2>1, HeldReceipt DEF Tried, QInv, Work
<1>3. \A m : Tried(m) => Tried(m)'
  BY MovesOnly DEF Tried, Refuses, Parsed, Provider
<1>4. \A m \in running' \cup done' : Tried(m)
  BY <1>1, <1>2 DEF core, Ran, QInv, Work
<1>5. told' \subseteq Messages /\ refused' \subseteq Messages
  BY <1>1, <1>2 DEF core, Ran, QInv, Work, Tried
<1>6. ASSUME NEW q \in Consumers, stage'[q] = "executing" PROVE ~Refuses(held'[q].msg)
  <2>1. CASE q = p
    <3>1. s = "executing" /\ held'[p] = held[p]
      BY <1>6, <2>1, MovesOnly DEF Handling
    <3> QED BY <2>1, <3>1 DEF Moves
  <2>2. CASE q # p
    BY <1>6, <2>2, MovesOnly DEF QInv, Work
  <2> QED BY <2>1, <2>2
<1> QED BY <1>3, <1>4, <1>5, <1>6 DEF Work, Refuses, Parsed, Provider

\* What has left the queue has left it.
LEMMA MovesKeepOrder ==
  ASSUME QInv, NEW p \in Consumers, NEW s, NEW d, NEW delay, Moves(p, s, d, delay)
  PROVE  InOrder'
<1>1. sent' = sent /\ receives' = receives /\ dead' = dead /\ deleted \subseteq deleted'
  BY MovesOnly
<1> QED BY <1>1 DEF QInv, InOrder

-----------------------------------------------------------------------------
(* Faults, and the other steps.                                             *)

\* The bound on a total bounds each of its parts.
LEMMA TotalBounds ==
  ASSUME NEW S, IsFiniteSet(S), NEW f \in [S -> Nat], NEW k \in Nat, Total(f) <= k
  PROVE  f \in [S -> 0 .. k]
<1> DEFINE P(g) == g = [s \in SUBSET S |->
                          IF s = {} THEN 0
                          ELSE f[CHOOSE x \in s : TRUE] + g[s \ {CHOOSE x \in s : TRUE}]]
<1>1. ASSUME NEW g PROVE P(g) <=> Sums(g, f, S)
  BY DEF Sums, Pick
<1>2. DOMAIN f = S
  OBVIOUS
<1>3. Total(f) = (CHOOSE g : P(g))[S]
  BY <1>2 DEF Total, MapThenSumSet, MapThenFoldSet
<1> HIDE DEF P
<1>4. PICK h : Sums(h, f, S)
  BY SumsExist
<1>5. P(CHOOSE g : P(g))
  BY <1>1, <1>4
<1>6. Sums(CHOOSE g : P(g), f, S) /\ Sums(CHOOSE g : Sums(g, f, S), f, S)
  BY <1>1, <1>5, SumsExist
<1>7. (CHOOSE g : P(g))[S] = (CHOOSE g : Sums(g, f, S))[S]
  BY <1>6, SumsAgree
<1>8. Total(f) = SumOver(f, S)
  BY <1>3, <1>7 DEF SumOver
<1>9. /\ SumOver(f, S) \in Nat /\ \A y \in S : f[y] <= SumOver(f, S)
  BY SumNat
<1>10. \A y \in S : f[y] \in 0 .. k
  BY <1>8, <1>9
<1> QED BY <1>10

\* A fault counts for the messages that it hits, and for no other.
LEMMA FaultCounts ==
  ASSUME QInv, NEW S, Fault(S)
  PROVE  /\ blame' \in [Messages -> 0 .. MaxFaults]
         /\ \A m \in Messages : blame'[m] = IF m \in S THEN blame[m] + 1 ELSE blame[m]
<1>1. blame \in [Messages -> 0 .. MaxFaults]
  BY DEF QInv, Blames
<1>2. /\ blame' \in [Messages -> Nat]
      /\ \A m \in Messages : blame'[m] = IF m \in S THEN blame[m] + 1 ELSE blame[m]
  BY <1>1, ConsumerAssumption DEF Fault
<1>3. Total(blame') <= MaxFaults
  BY DEF Fault
<1>4. blame' \in [Messages -> 0 .. MaxFaults]
  BY <1>2, <1>3, ConsumerAssumption, TotalBounds
<1> QED BY <1>2, <1>4

\* A shutdown counts for the message that is handled, or for none.
LEMMA StopCounts ==
  ASSUME QInv, NEW p \in Consumers, Stop(p)
  PROVE  /\ stops' \in [Messages \cup {Nil} -> 0 .. MaxStops]
         /\ \A m \in Messages : stops'[m] = IF m = held[p].msg THEN stops[m] + 1 ELSE stops[m]
<1>1. stops \in [Messages \cup {Nil} -> 0 .. MaxStops] /\ held[p].msg \in Messages \cup {Nil}
  BY DEF QInv, Blames, AckInv
<1>2. stops' = [stops EXCEPT ![held[p].msg] = @ + 1] /\ Total(stops') <= MaxStops
  BY DEF Stop
<1>3. /\ stops' \in [Messages \cup {Nil} -> Nat]
      /\ \A m \in Messages : stops'[m] = IF m = held[p].msg THEN stops[m] + 1 ELSE stops[m]
  BY <1>1, <1>2, ConsumerAssumption
<1>4. IsFiniteSet(Messages \cup {Nil})
  BY ConsumerAssumption, FS_AddElement
<1>5. stops' \in [Messages \cup {Nil} -> 0 .. MaxStops]
  BY <1>2, <1>3, <1>4, ConsumerAssumption, TotalBounds
<1> QED BY <1>3, <1>5

\* A message that is sent is a new one.
LEMMA SendKeeps == ASSUME QInv, NEW m \in Messages, Send(m) PROVE Receipts' /\ Timers' /\ Blames' /\ Work' /\ InOrder'
<1>1. /\ UNCHANGED <<hidden, receives, deleted, dead, stage, held, deadline, stopping, running,
                     blame, stops, core>>
      /\ sent' = Append(sent, m) /\ m \notin Sent
  BY DEF Send
<1>2. sent \in Seq(Messages) /\ Len(sent) \in Nat /\ Sent \subseteq Messages
      /\ \A i \in 1 .. Len(sent) : sent[i] \in Messages /\ sent[i] \in Sent
  BY SentAreMessages DEF QInv, Receipts
<1>3. /\ sent' \in Seq(Messages) /\ Len(sent') = Len(sent) + 1
      /\ sent'[Len(sent) + 1] = m /\ \A i \in 1 .. Len(sent) : sent'[i] = sent[i]
  BY <1>1, <1>2
<1>4. \A i \in 1 .. Len(sent') : i \in 1 .. Len(sent) \/ i = Len(sent) + 1
  BY <1>2, <1>3
<1>5. Sent' = Sent \cup {m}
  <2>1. \A i \in 1 .. Len(sent) : i \in 1 .. Len(sent')
    BY <1>2, <1>3
  <2>2. Len(sent) + 1 \in 1 .. Len(sent')
    BY <1>2, <1>3
  <2> QED BY <1>3, <1>4, <2>1, <2>2 DEF Sent
<1>6. \A i, j \in 1 .. Len(sent') : sent'[i] = sent'[j] => i = j
  BY <1>1, <1>2, <1>3, <1>4 DEF QInv, Receipts
<1>7. Len(sent') = Cardinality(Sent')
  <2>1. IsFiniteSet(Sent)
    BY <1>2, ConsumerAssumption, FS_Subset
  <2>2. Cardinality(Sent \cup {m}) = Cardinality(Sent) + 1
    BY <1>1, <2>1, FS_AddElement
  <2> QED BY <1>3, <1>5, <2>2 DEF QInv, Receipts
<1>8. Receipts'
  BY <1>1, <1>3, <1>5, <1>6, <1>7 DEF QInv, Receipts
<1>9. Timers' /\ Blames' /\ Work'
  BY <1>1 DEF QInv, Timers, Bounded, Accepts, Blames, Work, Tried, Refuses, Parsed, Provider, core
<1>10. InOrder'
  <2> SUFFICES ASSUME NEW i \in 1 .. Len(sent'), NEW j \in 1 .. Len(sent'), i < j,
                      Message[sent'[i]].group = Message[sent'[j]].group, receives[sent'[j]] > 0
               PROVE  sent'[i] \in deleted \cup dead
    BY <1>1 DEF InOrder
  <2>1. receives[m] = 0
    BY <1>1 DEF QInv, Receipts
  <2>2. j # Len(sent) + 1
    BY <1>3, <2>1
  <2>3. j \in 1 .. Len(sent) /\ i \in 1 .. Len(sent)
    BY <1>2, <1>4, <2>2
  <2> QED BY <1>3, <2>3 DEF QInv, InOrder
<1> QED BY <1>8, <1>9, <1>10

\* The redrive takes a message out of the queue.
LEMMA RedriveKeeps == ASSUME QInv, NEW m \in Messages, Redrive(m) PROVE Receipts' /\ Timers' /\ Blames' /\ Work' /\ InOrder'
<1>1. /\ UNCHANGED <<sent, hidden, receives, deleted, stage, held, deadline, stopping, running,
                     blame, stops, core>>
      /\ dead' = dead \cup {m} /\ m \in Sent /\ m \notin deleted /\ Sent' = Sent
  BY DEF Redrive, Deliverable, Queued, Sent
<1>2. Receipts'
  BY <1>1 DEF QInv, Receipts
<1>3. Timers' /\ Blames' /\ Work' /\ InOrder'
  BY <1>1 DEF QInv, Timers, Bounded, Accepts, Blames, Work, Tried, Refuses, Parsed, Provider, core, InOrder
<1> QED BY <1>2, <1>3

\* A transaction without a caller ends.
LEMMA SettleKeeps == ASSUME QInv, NEW m \in Messages, Settle(m) PROVE Receipts' /\ Timers' /\ Blames' /\ Work' /\ InOrder'
<1>1. /\ UNCHANGED <<sent, hidden, receives, deleted, dead, stage, held, deadline, stopping, blame, stops>>
      /\ Sent' = Sent
  BY DEF Settle, sqs, Sent
<1>2. /\ m \in running /\ running' \subseteq running /\ done' \subseteq done \cup {m}
      /\ told' = told /\ refused' = refused
  BY DEF Settle, core, Core!TakeUnheard, Core!Commit
<1>3. Receipts' /\ Timers' /\ Blames' /\ InOrder'
  BY <1>1 DEF QInv, Receipts, Timers, Bounded, Accepts, Blames, InOrder
<1>4. Work'
  BY <1>1, <1>2 DEF QInv, Work, Tried, Refuses, Parsed, Provider
<1> QED BY <1>3, <1>4

\* An instance is told to stop.
LEMMA StopKeeps == ASSUME QInv, NEW p \in Consumers, Stop(p) PROVE Receipts' /\ Timers' /\ Blames' /\ Work' /\ InOrder'
<1>1. /\ UNCHANGED <<sent, hidden, receives, deleted, dead, stage, held, deadline, running, blame, core>>
      /\ Sent' = Sent /\ stopping' = stopping \cup {p}
  BY DEF Stop, sqs, Sent
<1>2. Receipts' /\ Timers' /\ InOrder' /\ Work'
  BY <1>1 DEF QInv, Receipts, Timers, Bounded, Accepts, InOrder, Work, Tried, Refuses, Parsed, Provider, core
<1>3. Blames'
  BY <1>1, StopCounts DEF QInv, Blames
<1> QED BY <1>2, <1>3

\* Time passes.
LEMMA TickKeeps == ASSUME QInv, Tick PROVE Receipts' /\ Timers' /\ Blames' /\ Work' /\ InOrder'
<1>1. /\ UNCHANGED <<sent, receives, deleted, dead, stage, held, stopping, running, stops, core>>
      /\ Sent' = Sent
  BY DEF Tick, Sent
<1>2. Receipts' /\ InOrder' /\ Work'
  BY <1>1 DEF QInv, Receipts, InOrder, Work, Tried, Refuses, Parsed, Provider, core
<1>3. Blames'
  BY <1>1, FaultCounts DEF Tick, QInv, Blames
<1>4. Timers'
  <2>1. \A n \in Nat : CountDown(n) \in Nat /\ CountDown(n) <= n
    BY DEF CountDown
  <2>2. hidden' \in [Messages -> Nat] /\ deadline' \in [Consumers -> Nat]
    BY <2>1 DEF Tick, QInv, Timers
  <2>3. ASSUME NEW m \in Messages PROVE Bounded(hidden'[m])
    <3>1. hidden[m] \in Nat /\ hidden'[m] \in Nat /\ hidden'[m] <= hidden[m] /\ Bounded(hidden[m])
      BY <2>1 DEF Tick, QInv, Timers
    <3> QED BY <3>1, ConsumerAssumption DEF Bounded
  <2> QED BY <1>1, <2>2, <2>3 DEF QInv, Timers, Bounded, Accepts
<1> QED BY <1>2, <1>3, <1>4

\* What a delivery does: the message was the first of its group, and was visible.
LEMMA Delivers ==
  ASSUME QInv, NEW m \in Messages, Deliver(m)
  PROVE  /\ m \in Sent /\ m \notin deleted \cup dead /\ hidden[m] = 0
         /\ receives[m] < MaxReceives /\ receives[m] \in Nat
         /\ UNCHANGED <<sent, deleted, dead>> /\ Sent' = Sent
         /\ receives' \in [Messages -> 0 .. MaxReceives] /\ receives'[m] = receives[m] + 1
         /\ hidden' \in [Messages -> Nat] /\ hidden'[m] = VisibilityTimeout
         /\ \A x \in Messages \ {m} : receives'[x] = receives[x] /\ hidden'[x] = hidden[x]
         /\ InOrder'
<1>1. PICK k \in 1 .. Len(sent) :
        /\ sent[k] = m /\ m \in Queued /\ hidden[m] = 0
        /\ \A j \in 1 .. k - 1 : sent[j] \in Queued => Message[sent[j]].group # Message[m].group
  BY DEF Deliver, Deliverable
<1>2. m \in Sent /\ m \notin deleted \cup dead
  BY <1>1 DEF Queued
<1>3. /\ UNCHANGED <<sent, deleted, dead>> /\ Sent' = Sent /\ receives[m] < MaxReceives
      /\ hidden' = [hidden EXCEPT ![m] = VisibilityTimeout] /\ receives' = [receives EXCEPT ![m] = @ + 1]
  BY DEF Deliver, Sent
<1>4. receives \in [Messages -> 0 .. MaxReceives] /\ hidden \in [Messages -> Nat]
  BY DEF QInv, Receipts, Timers
<1>5. /\ receives' \in [Messages -> 0 .. MaxReceives] /\ receives'[m] = receives[m] + 1
      /\ \A x \in Messages \ {m} : receives'[x] = receives[x]
  BY <1>3, <1>4, ConsumerAssumption
<1>6. /\ hidden' \in [Messages -> Nat] /\ hidden'[m] = VisibilityTimeout
      /\ \A x \in Messages \ {m} : hidden'[x] = hidden[x]
  BY <1>3, <1>4, ConsumerAssumption
<1>7. InOrder'
  <2> SUFFICES ASSUME NEW i \in 1 .. Len(sent), NEW j \in 1 .. Len(sent), i < j,
                      Message[sent[i]].group = Message[sent[j]].group, receives'[sent[j]] > 0
               PROVE  sent[i] \in deleted \cup dead
    BY <1>3 DEF InOrder
  <2>1. sent[i] \in Sent /\ sent[j] \in Messages /\ Len(sent) \in Nat
    BY SentAreMessages DEF QInv
  <2>2. CASE sent[j] = m
    <3>1. j = k
      BY <1>1, <2>2 DEF QInv, Receipts
    <3>2. i \in 1 .. k - 1
      BY <2>1, <3>1
    <3>3. sent[i] \notin Queued
      BY <1>1, <2>2, <3>2
    <3> QED BY <2>1, <3>3 DEF Queued
  <2>3. CASE sent[j] # m
    <3>1. receives[sent[j]] > 0
      BY <1>5, <2>1, <2>3
    <3> QED BY <3>1 DEF QInv, InOrder
  <2> QED BY <2>2, <2>3
<1> QED BY <1>1, <1>2, <1>3, <1>4, <1>5, <1>6, <1>7

\* What is left as it is by a delivery.
LEMMA DeliveryKeeps ==
  ASSUME QInv, NEW m \in Messages, Deliver(m), UNCHANGED <<running, core>>
  PROVE  /\ told' \subseteq Messages /\ refused' \subseteq Messages
         /\ \A x \in running' \cup done' : Tried(x)'
         /\ \A x \in Messages : Bounded(hidden'[x])
         /\ \A x \in Messages : receives'[x] > 0 => x \in Sent
         /\ \A x \in Messages : receives[x] <= receives'[x]
<1>1. /\ receives'[m] = receives[m] + 1 /\ hidden'[m] = VisibilityTimeout /\ m \in Sent
      /\ receives[m] \in Nat
      /\ \A x \in Messages \ {m} : receives'[x] = receives[x] /\ hidden'[x] = hidden[x]
  BY Delivers
<1>2. \A x \in Messages : receives[x] \in Nat /\ receives[x] <= receives'[x]
  BY <1>1 DEF QInv, Receipts
<1>3. \A x \in Messages : Bounded(hidden'[x])
  <2>1. Bounded(VisibilityTimeout)
    BY ConsumerAssumption DEF Bounded
  <2> QED BY <1>1, <2>1 DEF QInv, Timers
<1>4. \A x \in running \cup done : Tried(x)'
  <2> SUFFICES ASSUME NEW x, Tried(x) PROVE Tried(x)'
    BY DEF QInv, Work
  <2>1. receives'[x] > 0
    <3>1. x \in Messages /\ receives[x] > 0
      BY DEF Tried
    <3>2. receives[x] \in Nat /\ receives'[x] \in Nat /\ receives[x] <= receives'[x]
      BY <1>2, <3>1, Delivers
    <3> QED BY <3>1, <3>2
  <2> QED BY <2>1 DEF Tried, Refuses, Parsed, Provider
<1> QED BY <1>1, <1>2, <1>3, <1>4 DEF core, QInv, Work, Receipts

\* A message is received: its receipt is a new one.
LEMMA ReceiveKeeps ==
  ASSUME QInv, NEW p \in Consumers, NEW m \in Messages, Receive(p, m)
  PROVE  Receipts' /\ Timers' /\ Blames' /\ Work' /\ InOrder'
<1> DEFINE r == [msg |-> m, n |-> receives[m] + 1]
<1>1. /\ stage[p] = "polling" /\ Deliver(m) /\ UNCHANGED <<stopping, running, blame, stops, core>>
      /\ stage' = [stage EXCEPT ![p] = "received"] /\ deadline' = [deadline EXCEPT ![p] = 0]
      /\ held' = [held EXCEPT ![p] = r]
  BY DEF Receive, Become
<1>2. /\ stage'[p] = "received" /\ held'[p] = r
      /\ \A q \in Consumers \ {p} : stage'[q] = stage[q] /\ held'[q] = held[q]
      /\ deadline' \in [Consumers -> Nat]
  BY <1>1 DEF QInv, AckInv, Timers
<1>3. /\ m \in Sent /\ Sent' = Sent /\ receives[m] \in Nat /\ receives'[m] = receives[m] + 1
      /\ UNCHANGED <<sent, deleted, dead>>
      /\ receives' \in [Messages -> 0 .. MaxReceives] /\ hidden' \in [Messages -> Nat] /\ InOrder'
  BY <1>1, Delivers
<1>4. /\ told' \subseteq Messages /\ refused' \subseteq Messages
      /\ \A x \in running' \cup done' : Tried(x)'
      /\ \A x \in Messages : Bounded(hidden'[x])
      /\ \A x \in Messages : receives'[x] > 0 => x \in Sent
      /\ \A x \in Messages : receives[x] <= receives'[x]
  BY <1>1, DeliveryKeeps
<1>5. r.msg = m /\ r.n = receives[m] + 1 /\ r # NoReceipt
  BY ConsumerAssumption DEF NoReceipt
<1> HIDE DEF r
<1>6. ASSUME NEW q \in Consumers, stage'[q] \in Handling
      PROVE  held'[q].msg \in Sent /\ held'[q].n \in 1 .. receives'[held'[q].msg]
  <2>1. CASE q = p
    BY <1>2, <1>3, <1>5, <2>1
  <2>2. CASE q # p
    <3>1. stage[q] \in Handling /\ held'[q] = held[q]
      BY <1>2, <1>6, <2>2
    <3>2. held[q].msg \in Messages /\ held[q].msg \in Sent /\ held[q].n \in 1 .. receives[held[q].msg]
      BY <3>1, HeldReceipt DEF QInv, Receipts
    <3>3. receives[held[q].msg] \in Nat /\ receives'[held[q].msg] \in Nat
          /\ receives[held[q].msg] <= receives'[held[q].msg]
      BY <1>3, <1>4, <3>2 DEF QInv, Receipts
    <3> QED BY <3>1, <3>2, <3>3
  <2> QED BY <2>1, <2>2
<1>7. ASSUME NEW q \in Consumers, stage'[q] \notin Handling PROVE held'[q] = NoReceipt
  BY <1>2, <1>7 DEF QInv, Receipts, Handling
<1>8. ASSUME NEW q \in Consumers, NEW t \in Consumers, stage'[q] \in Handling, q # t
      PROVE  held'[q] # held'[t]
  <2>1. \A x \in Consumers \ {p} : held[x] # r
    <3> SUFFICES ASSUME NEW x \in Consumers, held[x] = r PROVE FALSE
      OBVIOUS
    <3>1. stage[x] \in Handling
      BY <1>5 DEF QInv, Receipts
    <3>2. held[x].n \in 1 .. receives[held[x].msg]
      BY <3>1 DEF QInv, Receipts
    <3> QED BY <1>3, <1>5, <3>2
  <2>2. CASE q = p \/ t = p
    BY <1>2, <1>8, <2>1, <2>2
  <2>3. CASE q # p /\ t # p
    BY <1>2, <1>8, <2>3 DEF QInv, Receipts
  <2> QED BY <2>2, <2>3
<1>9. Receipts'
  BY <1>3, <1>4, <1>6, <1>7, <1>8 DEF QInv, Receipts
<1>10. Timers'
  <2>1. \A q \in Consumers : stage'[q] # "stopped" => Accepts(q)
    BY <1>1, <1>2 DEF QInv, Timers
  <2> QED BY <1>1, <1>2, <1>3, <1>4, <2>1 DEF QInv, Timers, Bounded, Accepts
<1>11. Work'
  <2>1. \A q \in Consumers : stage'[q] = "executing" => ~Refuses(held'[q].msg)
    BY <1>2 DEF QInv, Work
  <2> QED BY <1>4, <2>1 DEF Work, Refuses, Parsed, Provider
<1>12. Blames'
  BY <1>1 DEF QInv, Blames
<1> QED BY <1>3, <1>9, <1>10, <1>11, <1>12

\* A message is delivered, but the answer is lost.
LEMMA ReceiveLostKeeps ==
  ASSUME QInv, NEW p \in Consumers, NEW m \in Messages, ReceiveLost(p, m)
  PROVE  Receipts' /\ Timers' /\ Blames' /\ Work' /\ InOrder'
<1>1. /\ stage[p] = "polling" /\ Deliver(m) /\ UNCHANGED <<running, stops, core>> /\ Fault({m})
      /\ stopping' \in {stopping, stopping \ {p}}
      /\ Drop(p, "stopped") \/ Drop(p, "pausing")
  BY DEF ReceiveLost, Exit
<1>2. /\ stage'[p] \in {"stopped", "pausing"} /\ held'[p] = NoReceipt /\ held[p] = NoReceipt
      /\ \A q \in Consumers \ {p} : stage'[q] = stage[q] /\ held'[q] = held[q]
      /\ deadline' \in [Consumers -> Nat]
  <2>1. PICK s \in {"stopped", "pausing"} : Drop(p, s)
    BY <1>1
  <2>2. /\ stage' = [stage EXCEPT ![p] = s] /\ deadline' = [deadline EXCEPT ![p] = 0]
        /\ held' = [held EXCEPT ![p] = NoReceipt]
    BY <2>1 DEF Drop, Become
  <2>3. stage \in [Consumers -> Stages] /\ deadline \in [Consumers -> Nat] /\ \E R : held \in [Consumers -> R]
    BY DEF QInv, AckInv, Timers
  <2>4. held[p] = NoReceipt
    BY <1>1 DEF QInv, Receipts, Handling
  <2> QED BY <2>2, <2>3, <2>4
<1>3. /\ m \in Sent /\ Sent' = Sent /\ UNCHANGED <<sent, deleted, dead>>
      /\ receives' \in [Messages -> 0 .. MaxReceives] /\ hidden' \in [Messages -> Nat] /\ InOrder'
  BY <1>1, Delivers
<1>4. /\ told' \subseteq Messages /\ refused' \subseteq Messages
      /\ \A x \in running' \cup done' : Tried(x)'
      /\ \A x \in Messages : Bounded(hidden'[x])
      /\ \A x \in Messages : receives'[x] > 0 => x \in Sent
      /\ \A x \in Messages : receives[x] <= receives'[x]
  BY <1>1, DeliveryKeeps
<1>5. \A q \in Consumers : held'[q] = held[q] /\ (stage'[q] \in Handling => stage[q] \in Handling)
  BY <1>2 DEF Handling
<1>6. ASSUME NEW q \in Consumers, stage'[q] \in Handling
      PROVE  held'[q].msg \in Sent /\ held'[q].n \in 1 .. receives'[held'[q].msg]
  <2>1. stage[q] \in Handling /\ held'[q] = held[q]
    BY <1>5, <1>6
  <2>2. held[q].msg \in Messages /\ held[q].msg \in Sent /\ held[q].n \in 1 .. receives[held[q].msg]
    BY <2>1, HeldReceipt DEF QInv, Receipts
  <2>3. receives[held[q].msg] \in Nat /\ receives'[held[q].msg] \in Nat
        /\ receives[held[q].msg] <= receives'[held[q].msg]
    BY <1>3, <1>4, <2>2 DEF QInv, Receipts
  <2> QED BY <2>1, <2>2, <2>3
<1>7. ASSUME NEW q \in Consumers, stage'[q] \notin Handling PROVE held'[q] = NoReceipt
  BY <1>2, <1>7 DEF QInv, Receipts
<1>8. ASSUME NEW q \in Consumers, NEW t \in Consumers, stage'[q] \in Handling, q # t
      PROVE  held'[q] # held'[t]
  BY <1>5, <1>8 DEF QInv, Receipts
<1>9. Receipts'
  BY <1>3, <1>4, <1>6, <1>7, <1>8 DEF QInv, Receipts
<1>10. Timers'
  <2>1. \A q \in Consumers : stage'[q] # "stopped" => Accepts(q)
    BY <1>1, <1>2 DEF QInv, Timers
  <2> QED BY <1>1, <1>2, <1>3, <1>4, <2>1 DEF QInv, Timers, Bounded, Accepts
<1>11. Work'
  <2>1. \A q \in Consumers : stage'[q] = "executing" => ~Refuses(held'[q].msg)
    BY <1>2 DEF QInv, Work
  <2> QED BY <1>4, <2>1 DEF Work, Refuses, Parsed, Provider
<1>12. Blames'
  BY <1>1, FaultCounts DEF QInv, Blames
<1> QED BY <1>3, <1>9, <1>10, <1>11, <1>12

\* The actions of a worker, each once.
WorkerAction(p) ==
  \/ Start(p) \/ Pause(p) \/ Check(p) \/ Execute(p) \/ ExecuteFails(p)
  \/ Delete(p) \/ DeleteFails(p) \/ Postpone(p) \/ PostponeFails(p) \/ Release(p) \/ Crash(p)

\* What the fault of a worker can count, if it has one.
LEMMA ActionsBlame ==
  ASSUME NEW p \in Consumers, WorkerAction(p)
  PROVE  blame' = blame \/ Fault({held[p].msg})
BY DEF WorkerAction, Start, Pause, Check, Execute, ExecuteFails, Delete, DeleteFails, Postpone,
       PostponeFails, Release, Crash

\* The steps of the specification.
LEMMA Steps ==
  ASSUME [Next]_vars
  PROVE  \/ \E m \in Messages : Send(m) \/ Redrive(m) \/ Settle(m)
         \/ \E p \in Consumers : \/ WorkerAction(p) \/ Stop(p)
                                 \/ \E m \in Messages : Receive(p, m) \/ ReceiveLost(p, m)
         \/ Tick
         \/ UNCHANGED vars
BY DEF Next, ConsumerStep, WorkerAction, Idle

\* Every step keeps what the queue, the workers and the core are like.
LEMMA QueueStep == QInv /\ [Next]_vars => QInv'
<1> SUFFICES ASSUME QInv, [Next]_vars PROVE QInv' OBVIOUS
<1>1. AckInv'
  BY AcksStep DEF QInv
<1>2. Receipts' /\ Timers' /\ Blames' /\ Work' /\ InOrder'
  <2>1. ASSUME NEW p \in Consumers, WorkerAction(p)
        PROVE  Receipts' /\ Timers' /\ Blames' /\ Work' /\ InOrder'
    <3>1. PICK s, d, delay : Moves(p, s, d, delay)
      BY <2>1, WorkersMove DEF WorkerAction
    <3>2. Blames'
      <4>1. stops' = stops
        BY <3>1 DEF Moves
      <4> QED BY <2>1, <4>1, ActionsBlame, FaultCounts DEF QInv, Blames
    <3> QED BY <3>1, <3>2, MovesKeepReceipts, MovesKeepTimers, MovesKeepWork, MovesKeepOrder
  <2>2. CASE UNCHANGED vars
    <3>1. /\ UNCHANGED <<sent, hidden, receives, deleted, dead, stage, held, deadline, stopping,
                        running, blame, stops, done, told, refused>>
          /\ Sent' = Sent
      BY <2>2 DEF vars, sqs, core, Sent
    <3>2. Receipts' /\ InOrder'
      BY <3>1 DEF QInv, Receipts, InOrder
    <3>3. Timers' /\ Blames'
      BY <3>1 DEF QInv, Timers, Bounded, Accepts, Blames
    <3>4. Work'
      BY <3>1 DEF QInv, Work, Tried, Refuses, Parsed, Provider
    <3> QED BY <3>2, <3>3, <3>4
  <2> QED BY <2>1, <2>2, Steps, SendKeeps, RedriveKeeps, SettleKeeps, StopKeeps, ReceiveKeeps,
             ReceiveLostKeeps, TickKeeps
<1> QED BY <1>1, <1>2 DEF QInv

\* In the beginning nothing is sent and nobody runs.
LEMMA QueueInit == Init => QInv
<1> SUFFICES ASSUME Init PROVE QInv OBVIOUS
<1>1. AckInv
  BY AcksInit
<1>2. Sent = {} /\ sent = <<>> /\ Len(sent) = 0
  BY DEF Init, Sent
<1>3. Receipts /\ InOrder
  BY <1>2, FS_EmptySet, ConsumerAssumption DEF Init, Receipts, InOrder, Handling, NoReceipt
<1>4. Timers
  BY ConsumerAssumption DEF Init, Timers, Bounded
<1>5. Blames /\ Work
  BY ConsumerAssumption DEF Init, Blames, Work, Core!Init
<1> QED BY <1>1, <1>3, <1>4, <1>5 DEF QInv

\* These hold always, whatever instances, messages, timeouts, faults and shutdowns there are.
THEOREM QueueInvariance == Spec => []QInv
BY QueueInit, QueueStep, PTL DEF Spec

\* A message is in one place, is received no more often than the redrive policy allows, and
\* a worker holds a receipt exactly while it handles a message.
THEOREM ConsumerTypes == Spec => []TypeOK
<1>1. QInv => TypeOK
  <2> SUFFICES ASSUME QInv PROVE TypeOK OBVIOUS
  <2>1. Sent \subseteq Messages
    BY SentAreMessages DEF QInv
  <2>2. \A p \in Consumers : held[p] = NoReceipt <=> stage[p] \in {"stopped", "polling", "pausing"}
    <3> SUFFICES ASSUME NEW p \in Consumers
                 PROVE  held[p] = NoReceipt <=> stage[p] \notin Handling
      BY DEF QInv, AckInv, Stages, Handling
    <3>1. stage[p] \in Handling => held[p] # NoReceipt
      BY HeldReceipt, ConsumerAssumption DEF NoReceipt
    <3> QED BY <3>1 DEF QInv, Receipts
  <2>3. held \in [Consumers -> [msg : Messages \cup {Nil}, n : 0 .. MaxReceives]]
    <3> SUFFICES ASSUME NEW p \in Consumers PROVE held[p] \in [msg : Messages \cup {Nil}, n : 0 .. MaxReceives]
      BY DEF QInv, AckInv
    <3>1. held[p] \in [msg : Messages \cup {Nil}, n : Nat]
      BY DEF QInv, AckInv
    <3>2. held[p].n \in 0 .. MaxReceives
      <4>1. CASE stage[p] \in Handling
        <5>1. held[p].n \in 1 .. MaxReceives
          BY <4>1, HeldReceipt
        <5> QED BY <5>1, ConsumerAssumption
      <4>2. CASE stage[p] \notin Handling
        BY <4>2, ConsumerAssumption DEF QInv, Receipts, NoReceipt
      <4> QED BY <4>1, <4>2
    <3> QED BY <3>1, <3>2
  <2>4. running \subseteq Messages /\ done \subseteq Messages
    BY DEF QInv, Work, Tried
  <2>5. /\ Len(sent) = Cardinality(Sent) /\ deleted \cap dead = {} /\ deleted \cup dead \subseteq Sent
        /\ receives \in [Messages -> 0 .. MaxReceives]
    BY DEF QInv, Receipts
  <2>6. /\ hidden \in [Messages -> Nat] /\ \A m \in Messages : Bounded(hidden[m])
        /\ deadline \in [Consumers -> Nat] /\ stopping \subseteq Consumers
    BY DEF QInv, Timers
  <2>7. /\ blame \in [Messages -> 0 .. MaxFaults] /\ stops \in [Messages \cup {Nil} -> 0 .. MaxStops]
        /\ told \subseteq Messages /\ refused \subseteq Messages
    BY DEF QInv, Blames, Work
  <2>8. stage \in [Consumers -> Stages] /\ inbox \in [MessageIds -> {Message[m].body : m \in Messages} \cup {Nil}]
    BY DEF QInv, AckInv, Bodies
  <2> QED BY <2>1, <2>2, <2>3, <2>4, <2>5, <2>6, <2>7, <2>8 DEF TypeOK, Bounded
<1> QED BY <1>1, QueueInvariance, PTL

-----------------------------------------------------------------------------
(* The order of operations.                                                 *)

\* The message of a worker that executes it was tried.
LEMMA ExecutingTried ==
  ASSUME QInv, NEW p \in Consumers, stage[p] = "executing"
  PROVE  held[p].msg \in Messages /\ Tried(held[p].msg)
<1>1. stage[p] \in Handling
  BY DEF Handling
<1> QED BY <1>1, HeldReceipt DEF Tried, QInv, Work

\* What a step does to the core: nothing, a refusal, or the commit of a message that was
\* tried.
CoreQuiet == done' = done /\ inbox' = inbox

LEMMA CoreSteps ==
  ASSUME QInv, [Next]_vars
  PROVE  CoreQuiet \/ \E h \in Messages : Tried(h) /\ Core!Commit(h)
<1>1. UNCHANGED core => CoreQuiet
  BY DEF core, CoreQuiet
<1>2. ASSUME NEW h \in Messages, Tried(h), Abandon(h)
      PROVE  CoreQuiet \/ \E g \in Messages : Tried(g) /\ Core!Commit(g)
  BY <1>1, <1>2, AbandonCommits
<1>3. ASSUME NEW p \in Consumers, WorkerAction(p)
      PROVE  CoreQuiet \/ \E h \in Messages : Tried(h) /\ Core!Commit(h)
  <2>1. CASE Execute(p)
    <3>1. stage[p] = "executing"
      BY <2>1 DEF Execute
    <3>2. Core!Refuse(held[p].msg) \/ Core!Take(held[p].msg)
      BY <2>1 DEF Execute
    <3>3. CoreQuiet \/ Core!Commit(held[p].msg)
      BY <3>2 DEF Core!Refuse, Core!Take, CoreQuiet
    <3> QED BY <3>1, <3>3, ExecutingTried
  <2>2. CASE ExecuteFails(p)
    <3>1. stage[p] = "executing" /\ Abandon(held[p].msg)
      BY <2>2 DEF ExecuteFails
    <3> QED BY <1>2, <3>1, ExecutingTried
  <2>3. CASE Crash(p)
    <3>1. UNCHANGED core \/ (stage[p] = "executing" /\ Abandon(held[p].msg))
      BY <2>3 DEF Crash
    <3> QED BY <1>1, <1>2, <3>1, ExecutingTried
  <2>4. CASE \/ Start(p) \/ Pause(p) \/ Check(p) \/ Delete(p) \/ DeleteFails(p) \/ Postpone(p)
             \/ PostponeFails(p) \/ Release(p)
    <3>1. UNCHANGED core
      BY <2>4 DEF Start, Pause, Check, Delete, DeleteFails, Postpone, PostponeFails, Release
    <3> QED BY <1>1, <3>1
  <2> QED BY <1>3, <2>1, <2>2, <2>3, <2>4 DEF WorkerAction
<1>4. ASSUME NEW m \in Messages, Settle(m)
      PROVE  CoreQuiet \/ \E h \in Messages : Tried(h) /\ Core!Commit(h)
  <2>1. m \in running /\ (UNCHANGED core \/ Core!Commit(m))
    BY <1>4 DEF Settle, Core!TakeUnheard
  <2> QED BY <1>1, <2>1 DEF QInv, Work
<1>5. ASSUME NEW m \in Messages, Send(m) \/ Redrive(m) PROVE UNCHANGED core
  BY <1>5 DEF Send, Redrive
<1>6. ASSUME NEW p \in Consumers, Stop(p) \/ \E m \in Messages : Receive(p, m) \/ ReceiveLost(p, m)
      PROVE  UNCHANGED core
  BY <1>6 DEF Stop, Receive, ReceiveLost
<1>7. Tick \/ UNCHANGED vars => UNCHANGED core
  BY DEF Tick, vars
<1> QED BY <1>1, <1>3, <1>4, <1>5, <1>6, <1>7, Steps

\* The operations of a wallet take effect in the order in which they were sent; what comes
\* late had been given up to the dead-letter queue (the group of a message is its wallet,
\* and a group is delivered in order).
THEOREM OperationsInOrder == Spec => CommitsInOrder
<1>1. QInv /\ [Next]_vars =>
        [\A i, j \in 1 .. Len(sent) :
           /\ i < j /\ Message[sent[i]].wallet = Message[sent[j]].wallet
           /\ sent[i] \in done' \ done
           => sent[j] \notin done \/ sent[i] \in dead]_vars
  <2> SUFFICES ASSUME QInv, [Next]_vars, NEW i \in 1 .. Len(sent), NEW j \in 1 .. Len(sent), i < j,
                      Message[sent[i]].wallet = Message[sent[j]].wallet,
                      sent[i] \in done', sent[i] \notin done, sent[j] \in done, sent[i] \notin dead
               PROVE  FALSE
    OBVIOUS
  <2>1. PICK h \in Messages : Tried(h) /\ Core!Commit(h)
    BY CoreSteps DEF CoreQuiet
  <2>2. h = sent[i] /\ ~Core!Settled(h)
    BY <2>1 DEF Core!Commit
  <2>3. Tried(sent[i]) /\ Tried(sent[j])
    BY <2>1, <2>2 DEF QInv, Work
  <2>4. Message[sent[i]].group = Message[sent[j]].group
    BY <2>3 DEF Tried, Refuses
  <2>5. sent[i] \in deleted \cup dead
    BY <2>3, <2>4 DEF QInv, InOrder, Tried
  <2>6. Committed(h)
    BY <2>2, <2>5 DEF QInv, AckInv, AckedIsCommitted
  <2> QED BY <2>2, <2>6 DEF Committed
<1> QED BY <1>1, QueueInvariance, PTL DEF Spec, CommitsInOrder

-----------------------------------------------------------------------------
(* Who has hidden a message.                                                *)

\* A call that ran into its timeout has been counted.
LateBlamed ==
  \A p \in Consumers :
    stage[p] \in {"executing", "delete"} /\ deadline[p] = 0 => blame[held[p].msg] > 0

\* So has a failure, unless the worker is being stopped.
FailedBlamed ==
  \A p \in Consumers : stage[p] = "failed" /\ p \notin stopping => blame[held[p].msg] > 0

\* A message that nobody has received is visible.
Untouched == \A m \in Messages : receives[m] = 0 => hidden[m] = 0

HInv == QInv /\ LateBlamed /\ FailedBlamed /\ Untouched /\ HiddenIsHeld

\* Faults are counted once each, and are never forgotten.
LEMMA BlameGrows ==
  ASSUME QInv, [Next]_vars
  PROVE  \A m \in Messages : blame[m] \in Nat /\ blame'[m] \in Nat /\ blame[m] <= blame'[m]
<1>1. \A m \in Messages : blame[m] \in 0 .. MaxFaults
  BY DEF QInv, Blames
<1>2. blame' = blame \/ \E S : Fault(S)
  <2>1. \A p \in Consumers : WorkerAction(p) => blame' = blame \/ Fault({held[p].msg})
    BY ActionsBlame
  <2>2. \A p \in Consumers : Stop(p) => blame' = blame
    BY DEF Stop
  <2>3. \A p \in Consumers, m \in Messages : Receive(p, m) => blame' = blame
    BY DEF Receive
  <2>4. \A p \in Consumers, m \in Messages : ReceiveLost(p, m) => Fault({m})
    BY DEF ReceiveLost
  <2>5. \A m \in Messages : Send(m) \/ Redrive(m) \/ Settle(m) => blame' = blame
    BY DEF Send, Redrive, Settle
  <2>6. (Tick => Fault(Late)) /\ (UNCHANGED vars => blame' = blame)
    BY DEF Tick, vars
  <2> QED BY <2>1, <2>2, <2>3, <2>4, <2>5, <2>6, Steps
<1>3. ASSUME NEW S, Fault(S), NEW m \in Messages PROVE blame'[m] \in {blame[m], blame[m] + 1}
  BY <1>3, FaultCounts
<1> QED BY <1>1, <1>2, <1>3

\* A fault of the worker that handles a message counts for that message.
LEMMA FaultOwn ==
  ASSUME QInv, NEW p \in Consumers, stage[p] \in Handling, Fault({held[p].msg})
  PROVE  blame'[held[p].msg] = blame[held[p].msg] + 1 /\ blame'[held[p].msg] > 0
<1>1. held[p].msg \in Messages
  BY HeldReceipt
<1>2. blame'[held[p].msg] = blame[held[p].msg] + 1
  BY <1>1, FaultCounts
<1>3. blame[held[p].msg] \in 0 .. MaxFaults
  BY <1>1 DEF QInv, Blames
<1> QED BY <1>2, <1>3

\* What a worker does next has its time; whoever fails has been blamed; and whoever lets go
\* of a message has deleted it, made it visible, lost its receipt, or been blamed.
Outcome(p) ==
  /\ stage'[p] \in {"executing", "delete"} => deadline'[p] > 0
  /\ stage'[p] = "failed" /\ p \notin stopping' => blame'[held[p].msg] > 0
  /\ stage[p] \in Handling /\ stage'[p] \notin Handling =>
       \/ ~Good(held[p]) \/ held[p].msg \in deleted' \/ hidden'[held[p].msg] = 0
       \/ blame'[held[p].msg] > 0

\* The queue does what a good receipt asks it to.
LEMMA CallsHit ==
  ASSUME QInv, NEW p \in Consumers, Good(held[p]), NEW delay
  PROVE  /\ DeleteMessage(held[p]) => held[p].msg \in deleted'
         /\ ChangeVisibility(held[p], delay) => hidden'[held[p].msg] = delay
<1>1. held[p].msg \in Messages /\ hidden \in [Messages -> Nat]
  BY GoodReceipt DEF QInv, Timers
<1> QED BY <1>1 DEF DeleteMessage, ChangeVisibility

\* Every action of a worker has such an outcome.
LEMMA Outcomes ==
  ASSUME QInv, LateBlamed, FailedBlamed, NEW p \in Consumers, WorkerAction(p)
  PROVE  Outcome(p)
<1> USE DEF Handling
<1>1. stage \in [Consumers -> Stages] /\ deadline \in [Consumers -> Nat]
      /\ (stage[p] # "stopped" => Accepts(p))
  BY DEF QInv, AckInv, Timers
<1>2. ASSUME NEW s, NEW d, Become(p, s, d) PROVE stage'[p] = s /\ deadline'[p] = d
  BY <1>1, <1>2 DEF Become
<1>3. CASE Start(p) \/ Pause(p)
  <2>1. stage'[p] = "polling" /\ stage[p] \in {"stopped", "pausing"}
    BY <1>2, <1>3 DEF Start, Pause
  <2> QED BY <2>1 DEF Outcome
<1>4. CASE Check(p)
  <2>1. stopping' = stopping /\ stage[p] = "received"
    BY <1>4 DEF Check
  <2>2. ProcessingTimeout[p] > 0
    BY <1>1, <2>1 DEF Accepts
  <2>3. \/ stage'[p] = "refused"
        \/ p \in stopping /\ stage'[p] = "failed"
        \/ stage'[p] = "executing" /\ deadline'[p] = ProcessingTimeout[p]
    BY <1>2, <1>4 DEF Check
  <2> QED BY <2>1, <2>2, <2>3 DEF Outcome
<1>5. CASE Execute(p)
  <2>1. stage'[p] = "refused" \/ (stage'[p] = "delete" /\ deadline'[p] = DeleteTimeout)
    BY <1>2, <1>5 DEF Execute
  <2> QED BY <2>1, ConsumerAssumption DEF Outcome
<1>6. CASE ExecuteFails(p)
  <2>1. stage'[p] = "failed" /\ stage[p] = "executing" /\ stopping' = stopping
    BY <1>2, <1>6 DEF ExecuteFails
  <2>2. \/ Fault({held[p].msg})
        \/ (deadline[p] = 0 \/ p \in stopping) /\ blame' = blame
    BY <1>6 DEF ExecuteFails
  <2>3. p \notin stopping => blame'[held[p].msg] > 0
    BY <2>1, <2>2, FaultOwn DEF LateBlamed
  <2> QED BY <2>1, <2>3 DEF Outcome
<1>7. CASE Delete(p)
  <2>1. stage'[p] \in {"polling", "pausing"} /\ DeleteMessage(held[p])
    BY <1>2, <1>7 DEF Delete, Drop
  <2>2. Good(held[p]) => held[p].msg \in deleted'
    BY <2>1, CallsHit
  <2> QED BY <2>1, <2>2 DEF Outcome
<1>8. CASE DeleteFails(p)
  <2>1. stage'[p] = "pausing" /\ stage[p] = "delete"
    BY <1>2, <1>8 DEF DeleteFails, Drop
  <2>2. Fault({held[p].msg}) \/ (deadline[p] = 0 /\ blame' = blame)
    BY <1>1, <1>8 DEF DeleteFails
  <2>3. blame'[held[p].msg] > 0
    BY <2>1, <2>2, FaultOwn DEF LateBlamed
  <2> QED BY <2>1, <2>3 DEF Outcome
<1>9. CASE Postpone(p)
  <2>1. /\ stage'[p] = "pausing" /\ stage[p] \in {"failed", "refused"} /\ p \notin stopping
        /\ blame' = blame
        /\ ChangeVisibility(held[p], IF stage[p] = "refused" THEN 0 ELSE RetryDelay[held[p].n])
    BY <1>2, <1>9 DEF Postpone, Drop
  <2>2. CASE stage[p] = "failed"
    BY <2>1, <2>2 DEF Outcome, FailedBlamed
  <2>3. CASE stage[p] = "refused"
    <3>1. ChangeVisibility(held[p], 0)
      BY <2>1, <2>3
    <3>2. Good(held[p]) => hidden'[held[p].msg] = 0
      BY <3>1, CallsHit
    <3> QED BY <2>1, <3>2 DEF Outcome
  <2> QED BY <2>1, <2>2, <2>3
<1>10. CASE PostponeFails(p)
  <2>1. stage'[p] = "pausing" /\ stage[p] \in {"failed", "refused"} /\ Fault({held[p].msg})
    BY <1>2, <1>10 DEF PostponeFails, Drop
  <2> QED BY <2>1, FaultOwn DEF Outcome
<1>11. CASE Release(p)
  <2>1. /\ stage'[p] = "stopped"
        /\ ChangeVisibility(held[p], 0) \/ DeleteMessage(held[p])
    BY <1>2, <1>11 DEF Release, Exit, Drop
  <2>2. Good(held[p]) => hidden'[held[p].msg] = 0 \/ held[p].msg \in deleted'
    BY <2>1, CallsHit
  <2> QED BY <2>1, <2>2 DEF Outcome
<1>12. CASE Crash(p)
  <2>1. stage'[p] = "stopped" /\ Fault({held[p].msg}) /\ held[p] # NoReceipt
    BY <1>2, <1>12 DEF Crash, Exit, Drop
  <2>2. stage[p] \in Handling
    BY <2>1 DEF QInv, Receipts
  <2> QED BY <2>1, <2>2, FaultOwn DEF Outcome
<1> QED BY <1>3, <1>4, <1>5, <1>6, <1>7, <1>8, <1>9, <1>10, <1>11, <1>12 DEF WorkerAction

\* Somebody has the receipt of the latest delivery of m.
Holder(m) == \E p \in Consumers : held[p] = [msg |-> m, n |-> receives[m]]

\* What a worker does keeps that.
LEMMA WorkersKeepHidden ==
  ASSUME HInv, [Next]_vars, NEW p \in Consumers, WorkerAction(p)
  PROVE  LateBlamed' /\ FailedBlamed' /\ Untouched' /\ HiddenIsHeld'
<1>1. QInv /\ Outcome(p)
  BY Outcomes DEF HInv
<1>2. PICK s, d, delay : Moves(p, s, d, delay)
  BY <1>1, WorkersMove DEF WorkerAction
<1>3. /\ stage'[p] = s /\ deadline'[p] = d
      /\ \A q \in Consumers \ {p} :
           stage'[q] = stage[q] /\ deadline'[q] = deadline[q] /\ held'[q] = held[q]
      /\ s \in Handling => held'[p] = held[p] /\ stage[p] \in Handling
      /\ Sent' = Sent /\ receives' = receives /\ dead' = dead /\ deleted \subseteq deleted'
      /\ \A m \in Messages : hidden'[m] = hidden[m] \/ (Good(held[p]) /\ m = held[p].msg)
  BY <1>1, <1>2, MovesOnly
<1>4. stopping' \in {stopping, stopping \ {p}}
  BY <1>2 DEF Moves
<1>5. ASSUME NEW q \in Consumers, stage[q] \in Handling, blame[held[q].msg] > 0
      PROVE  blame'[held[q].msg] > 0
  <2>1. held[q].msg \in Messages
    BY <1>1, <1>5, HeldReceipt
  <2>2. blame[held[q].msg] \in Nat /\ blame'[held[q].msg] \in Nat /\ blame[held[q].msg] <= blame'[held[q].msg]
    BY <1>1, <2>1, BlameGrows
  <2> QED BY <1>5, <2>2
<1>6. LateBlamed'
  <2> SUFFICES ASSUME NEW q \in Consumers, stage'[q] \in {"executing", "delete"}, deadline'[q] = 0
               PROVE  blame'[held'[q].msg] > 0
    BY DEF LateBlamed
  <2>1. q # p
    BY <1>1 DEF Outcome
  <2>2. stage[q] \in Handling /\ blame[held[q].msg] > 0 /\ held'[q] = held[q]
    BY <1>3, <2>1 DEF HInv, LateBlamed, Handling
  <2> QED BY <1>5, <2>2
<1>7. FailedBlamed'
  <2> SUFFICES ASSUME NEW q \in Consumers, stage'[q] = "failed", q \notin stopping'
               PROVE  blame'[held'[q].msg] > 0
    BY DEF FailedBlamed
  <2>1. CASE q = p
    BY <1>1, <1>3, <2>1 DEF Outcome, Handling
  <2>2. CASE q # p
    <3>1. stage[q] \in Handling /\ blame[held[q].msg] > 0 /\ held'[q] = held[q]
      BY <1>3, <1>4, <2>2 DEF HInv, FailedBlamed, Handling
    <3> QED BY <1>5, <3>1
  <2> QED BY <2>1, <2>2
<1>8. Untouched'
  <2>1. Good(held[p]) => receives[held[p].msg] > 0
    BY <1>1, GoodReceipt, HeldReceipt
  <2> QED BY <1>3, <2>1 DEF HInv, Untouched
<1>9. HiddenIsHeld'
  <2> SUFFICES ASSUME NEW m \in Queued', hidden'[m] > 0, blame'[m] = 0
               PROVE  Holder(m)'
    BY DEF HiddenIsHeld, Holder
  <2>1. m \in Queued /\ m \in Messages /\ m \notin deleted'
    BY <1>1, <1>3, SentAreMessages DEF Queued, QInv
  <2>2. hidden[m] > 0
    BY <1>1, <1>3, <2>1, GoodReceipt
  <2>3. blame[m] = 0
    <3>1. blame[m] \in Nat /\ blame[m] <= blame'[m]
      BY <1>1, <2>1, BlameGrows
    <3> QED BY <3>1
  <2>4. PICK q \in Consumers : held[q] = [msg |-> m, n |-> receives[m]]
    BY <2>1, <2>2, <2>3 DEF HInv, HiddenIsHeld
  <2>5. held'[q] = held[q]
    <3> SUFFICES ASSUME q = p, s \notin Handling PROVE FALSE
      BY <1>3
    <3>1. held[p].msg = m /\ held[p].n = receives[m]
      BY <2>4
    <3>2. Good(held[p])
      BY <2>1, <2>2, <3>1 DEF Good
    <3>3. stage[p] \in Handling /\ stage'[p] \notin Handling
      BY <1>1, <1>3, <3>2, GoodReceipt
    <3> QED BY <1>1, <2>1, <3>1, <3>2, <3>3 DEF Outcome
  <2> QED BY <1>3, <2>4, <2>5 DEF Holder
<1> QED BY <1>6, <1>7, <1>8, <1>9

\* So does a delivery, whether or not its answer arrives.
LEMMA DeliveriesKeepHidden ==
  ASSUME HInv, NEW p \in Consumers, NEW m \in Messages, Receive(p, m) \/ ReceiveLost(p, m)
  PROVE  LateBlamed' /\ FailedBlamed' /\ Untouched' /\ HiddenIsHeld'
<1>1. QInv /\ Deliver(m) /\ stage[p] = "polling"
  BY DEF HInv, Receive, ReceiveLost
<1>2. /\ m \in Sent /\ UNCHANGED <<deleted, dead>> /\ Sent' = Sent
      /\ receives'[m] = receives[m] + 1 /\ receives[m] \in Nat
      /\ \A x \in Messages \ {m} : receives'[x] = receives[x] /\ hidden'[x] = hidden[x]
  BY <1>1, Delivers
<1>3. held[p] = NoReceipt
  BY <1>1 DEF QInv, Receipts, Handling
<1>4. /\ stage'[p] \in {"received", "stopped", "pausing"}
      /\ \A q \in Consumers \ {p} :
           stage'[q] = stage[q] /\ deadline'[q] = deadline[q] /\ held'[q] = held[q]
      /\ stopping' \in {stopping, stopping \ {p}}
  <2>1. \E s \in {"received", "stopped", "pausing"} : \E r :
          /\ stage' = [stage EXCEPT ![p] = s] /\ deadline' = [deadline EXCEPT ![p] = 0]
          /\ held' = [held EXCEPT ![p] = r]
    BY DEF Receive, ReceiveLost, Exit, Drop, Become
  <2>2. stopping' \in {stopping, stopping \ {p}}
    BY DEF Receive, ReceiveLost, Exit
  <2>3. stage \in [Consumers -> Stages] /\ deadline \in [Consumers -> Nat] /\ \E R : held \in [Consumers -> R]
    BY <1>1 DEF QInv, AckInv, Timers
  <2> QED BY <2>1, <2>2, <2>3
<1>5. /\ \A x \in Messages : blame[x] \in Nat /\ blame'[x] \in {blame[x], blame[x] + 1}
      /\ ReceiveLost(p, m) => blame'[m] = blame[m] + 1
      /\ Receive(p, m) => blame' = blame /\ held'[p] = [msg |-> m, n |-> receives[m] + 1]
  <2>1. \A x \in Messages : blame[x] \in 0 .. MaxFaults
    BY <1>1 DEF QInv, Blames
  <2>2. ReceiveLost(p, m) => Fault({m})
    BY DEF ReceiveLost
  <2>3. ReceiveLost(p, m) => \A x \in Messages : blame'[x] = IF x \in {m} THEN blame[x] + 1 ELSE blame[x]
    BY <1>1, <2>2, FaultCounts
  <2>4. Receive(p, m) => blame' = blame /\ held'[p] = [msg |-> m, n |-> receives[m] + 1]
    BY <1>1 DEF Receive, QInv, AckInv
  <2> QED BY <2>1, <2>3, <2>4
<1>6. ASSUME NEW q \in Consumers \ {p}, stage[q] \in Handling, blame[held[q].msg] > 0
      PROVE  blame'[held'[q].msg] > 0
  <2>1. held[q].msg \in Messages /\ held'[q] = held[q]
    BY <1>1, <1>4, <1>6, HeldReceipt
  <2>2. blame[held[q].msg] \in Nat /\ blame'[held[q].msg] \in {blame[held[q].msg], blame[held[q].msg] + 1}
    BY <1>5, <2>1
  <2> QED BY <1>6, <2>1, <2>2
<1>7. LateBlamed'
  <2> SUFFICES ASSUME NEW q \in Consumers, stage'[q] \in {"executing", "delete"}, deadline'[q] = 0
               PROVE  blame'[held'[q].msg] > 0
    BY DEF LateBlamed
  <2>1. q # p
    BY <1>4
  <2>2. stage[q] \in Handling /\ blame[held[q].msg] > 0
    BY <1>4, <2>1 DEF HInv, LateBlamed, Handling
  <2> QED BY <1>6, <2>1, <2>2
<1>8. FailedBlamed'
  <2> SUFFICES ASSUME NEW q \in Consumers, stage'[q] = "failed", q \notin stopping'
               PROVE  blame'[held'[q].msg] > 0
    BY DEF FailedBlamed
  <2>1. q # p
    BY <1>4
  <2>2. stage[q] \in Handling /\ blame[held[q].msg] > 0
    BY <1>4, <2>1 DEF HInv, FailedBlamed, Handling
  <2> QED BY <1>6, <2>1, <2>2
<1>9. Untouched'
  BY <1>2 DEF HInv, Untouched
<1>10. HiddenIsHeld'
  <2> SUFFICES ASSUME NEW x \in Queued', hidden'[x] > 0, blame'[x] = 0
               PROVE  Holder(x)'
    BY DEF HiddenIsHeld, Holder
  <2>1. x \in Queued /\ x \in Messages
    BY <1>1, <1>2, SentAreMessages DEF Queued, QInv
  <2>2. blame[x] = 0
    <3>1. blame[x] \in Nat /\ blame'[x] \in {blame[x], blame[x] + 1}
      BY <1>5, <2>1
    <3> QED BY <3>1
  <2>3. CASE x = m
    <3>1. Receive(p, m)
      <4>1. blame[m] \in Nat
        BY <1>5
      <4> QED BY <1>5, <2>3, <4>1
    <3> QED BY <1>2, <1>5, <2>3, <3>1 DEF Holder
  <2>4. CASE x # m
    <3>1. PICK q \in Consumers : held[q] = [msg |-> x, n |-> receives[x]]
      BY <1>2, <2>1, <2>2, <2>4 DEF HInv, HiddenIsHeld
    <3>2. q # p
      BY <1>3, <2>1, <3>1, ConsumerAssumption DEF NoReceipt
    <3> QED BY <1>2, <1>4, <2>1, <2>4, <3>1, <3>2 DEF Holder
  <2> QED BY <2>3, <2>4
<1> QED BY <1>7, <1>8, <1>9, <1>10

\* Time makes messages visible, and counts the calls that it ends.
LEMMA TickKeepsHidden ==
  ASSUME HInv, Tick
  PROVE  LateBlamed' /\ FailedBlamed' /\ Untouched' /\ HiddenIsHeld'
<1>1. QInv /\ Fault(Late)
  BY DEF HInv, Tick
<1>2. /\ UNCHANGED <<sent, receives, deleted, dead, stage, held, stopping>>
      /\ Sent' = Sent /\ Queued' = Queued
      /\ hidden' = [m \in Messages |-> CountDown(hidden[m])]
      /\ deadline' = [p \in Consumers |-> CountDown(deadline[p])]
  BY DEF Tick, Sent, Queued
<1>3. \A m \in Messages : blame[m] \in Nat /\ blame'[m] = IF m \in Late THEN blame[m] + 1 ELSE blame[m]
  BY <1>1, FaultCounts DEF QInv, Blames
<1>4. \A m \in Messages : hidden[m] \in Nat /\ (hidden'[m] > 0 => hidden[m] > 0) /\ (hidden[m] = 0 => hidden'[m] = 0)
  BY <1>1, <1>2 DEF QInv, Timers, CountDown
<1>5. \A q \in Consumers : deadline[q] \in Nat /\ (deadline'[q] = 0 => deadline[q] = 0 \/ deadline[q] = 1)
  BY <1>1, <1>2 DEF QInv, Timers, CountDown
<1>6. \A q \in Consumers : stage[q] \in Handling => held[q].msg \in Messages
  BY <1>1, HeldReceipt
<1>7. LateBlamed'
  <2> SUFFICES ASSUME NEW q \in Consumers, stage[q] \in {"executing", "delete"}, deadline'[q] = 0
               PROVE  blame'[held[q].msg] > 0
    BY <1>2 DEF LateBlamed
  <2>1. held[q].msg \in Messages
    BY <1>6 DEF Handling
  <2>2. CASE deadline[q] = 0
    <3>1. blame[held[q].msg] > 0
      BY <2>2 DEF HInv, LateBlamed
    <3> QED BY <1>3, <2>1, <3>1
  <2>3. CASE deadline[q] = 1
    <3>1. held[q].msg \in Late
      BY <2>3 DEF Late
    <3> QED BY <1>3, <2>1, <3>1
  <2> QED BY <1>5, <2>2, <2>3
<1>8. FailedBlamed'
  <2> SUFFICES ASSUME NEW q \in Consumers, stage[q] = "failed", q \notin stopping
               PROVE  blame'[held[q].msg] > 0
    BY <1>2 DEF FailedBlamed
  <2>1. held[q].msg \in Messages /\ blame[held[q].msg] > 0
    BY <1>6 DEF Handling, HInv, FailedBlamed
  <2> QED BY <1>3, <2>1
<1>9. Untouched'
  BY <1>2, <1>4 DEF HInv, Untouched
<1>10. HiddenIsHeld'
  <2> SUFFICES ASSUME NEW m \in Queued, hidden'[m] > 0, blame'[m] = 0
               PROVE  \E p \in Consumers : held[p] = [msg |-> m, n |-> receives[m]]
    BY <1>2 DEF HiddenIsHeld
  <2>1. m \in Messages
    BY <1>1, SentAreMessages DEF Queued, QInv
  <2>2. hidden[m] > 0 /\ blame[m] = 0
    BY <1>3, <1>4, <2>1
  <2> QED BY <2>2 DEF HInv, HiddenIsHeld
<1> QED BY <1>7, <1>8, <1>9, <1>10

\* The other steps have no part in it: a message that is new is visible.
LEMMA OthersKeepHidden ==
  ASSUME HInv,
         \/ \E m \in Messages : Send(m) \/ Redrive(m) \/ Settle(m)
         \/ \E p \in Consumers : Stop(p)
         \/ UNCHANGED vars
  PROVE  LateBlamed' /\ FailedBlamed' /\ Untouched' /\ HiddenIsHeld'
<1>1. UNCHANGED <<stage, held, deadline, blame, receives, hidden>> /\ stopping \subseteq stopping'
  BY DEF Send, Redrive, Settle, Stop, vars, sqs
<1>2. \A x \in Queued' \ Queued : x \in Messages /\ receives[x] = 0
  <2>1. \A m \in Messages : Send(m) => Queued' \subseteq Queued \cup {m} /\ m \notin Sent
    <3> SUFFICES ASSUME NEW m \in Messages, Send(m) PROVE Queued' \subseteq Queued \cup {m} /\ m \notin Sent
      OBVIOUS
    <3>1. sent \in Seq(Messages) /\ sent' = Append(sent, m) /\ UNCHANGED <<deleted, dead>> /\ m \notin Sent
      BY DEF Send, HInv, QInv, Receipts
    <3>2. Sent' \subseteq Sent \cup {m}
      BY <3>1 DEF Sent
    <3> QED BY <3>1, <3>2 DEF Queued
  <2>2. (\E m \in Messages : Redrive(m) \/ Settle(m)) \/ (\E p \in Consumers : Stop(p)) \/ UNCHANGED vars
        => Queued' \subseteq Queued
    BY DEF Redrive, Settle, Stop, vars, sqs, Queued, Sent
  <2> QED BY <2>1, <2>2 DEF HInv, QInv, Receipts
<1>3. LateBlamed' /\ FailedBlamed' /\ Untouched'
  BY <1>1 DEF HInv, LateBlamed, FailedBlamed, Untouched
<1>4. HiddenIsHeld'
  BY <1>1, <1>2 DEF HInv, HiddenIsHeld, Untouched
<1> QED BY <1>3, <1>4

\* Always: a message that met no fault is invisible only while a worker handles it, and one
\* that was stopped in the middle has made it visible again (the deferred release).
THEOREM NobodyHidesInVain == Spec => []HiddenIsHeld
<1>1. Init => HInv
  <2> SUFFICES ASSUME Init PROVE HInv OBVIOUS
  <2>1. QInv
    BY QueueInit
  <2>2. LateBlamed /\ FailedBlamed /\ Untouched
    BY DEF Init, LateBlamed, FailedBlamed, Untouched
  <2>3. Queued = {}
    BY DEF Init, Queued, Sent
  <2> QED BY <2>1, <2>2, <2>3 DEF HInv, HiddenIsHeld
<1>2. HInv /\ [Next]_vars => HInv'
  <2> SUFFICES ASSUME HInv, [Next]_vars PROVE HInv' OBVIOUS
  <2>1. QInv'
    BY QueueStep DEF HInv
  <2>2. LateBlamed' /\ FailedBlamed' /\ Untouched' /\ HiddenIsHeld'
    BY Steps, WorkersKeepHidden, DeliveriesKeepHidden, TickKeepsHidden, OthersKeepHidden
  <2> QED BY <2>1, <2>2 DEF HInv
<1>3. HInv => HiddenIsHeld
  BY DEF HInv
<1> QED BY <1>1, <1>2, <1>3, PTL DEF Spec

-----------------------------------------------------------------------------
(* What the deliveries of a message were spent on.                          *)

\* p handles the latest delivery of m, and has the time to delete it before the visibility
\* timeout ends.
FreshHolder(p, m) ==
  /\ held[p] = [msg |-> m, n |-> receives[m]] /\ p \notin stopping
  /\ \/ stage[p] = "received" /\ hidden[m] > LongestProcessing + DeleteTimeout
     \/ stage[p] = "executing" /\ deadline[p] > 0 /\ hidden[m] > deadline[p] + DeleteTimeout
     \/ stage[p] = "delete" /\ deadline[p] > 0 /\ hidden[m] > deadline[p]

\* Each delivery of a message that stays in the queue has had its fault or its shutdown, but
\* for the one that is handled in time.
Accounted(m) ==
  \/ m \in deleted \cup dead
  \/ Permanent(m)
  \/ receives[m] <= blame[m] + stops[m]
  \/ receives[m] <= blame[m] + stops[m] + 1 /\ \E p \in Consumers : FreshHolder(p, m)

Spent == \A m \in Messages : Accounted(m)

DInv == QInv /\ Spent /\ DeadLettersNeedFaults

\* A message that is refused for good is refused for good: neither the operations nor the
\* bodies that are known are ever taken back.
LEMMA PermanentStays ==
  ASSUME QInv, [Next]_vars, NEW m \in Messages, Permanent(m)
  PROVE  Permanent(m)'
<1>1. CASE Refuses(m)
  BY <1>1 DEF Permanent, Refuses, Parsed, Provider
<1>2. CASE CoreQuiet /\ Core!Conflicts(m)
  BY <1>2 DEF CoreQuiet, Permanent, Core!Conflicts, Core!SameOperation, Core!SameIdentity
<1>3. ASSUME NEW h \in Messages, Core!Commit(h), Core!Conflicts(m) PROVE Permanent(m)'
  <2>1. /\ Message[h].msg # Nil /\ Message[h].msg \in MessageIds
        /\ inbox[Message[h].msg] \in {Nil, Message[h].body}
        /\ done \subseteq done' /\ inbox' = [inbox EXCEPT ![Message[h].msg] = Message[h].body]
    BY <1>3, ConsumerAssumption DEF Core!Commit, Core!Conflicts, MessageIds
  <2>2. inbox \in [MessageIds -> Bodies \cup {Nil}]
    BY DEF QInv, AckInv
  <2>3. CASE Message[m].msg # Nil /\ inbox[Message[m].msg] \notin {Nil, Message[m].body}
    <3>1. Message[m].msg \in MessageIds
      BY DEF MessageIds
    <3>2. inbox'[Message[m].msg] = inbox[Message[m].msg]
      BY <2>1, <2>2, <2>3, <3>1
    <3> QED BY <2>3, <3>2 DEF Permanent, Core!Conflicts
  <2>4. CASE \E d \in done : Core!SameIdentity(m, d) /\ ~Core!SameOperation(m, d)
    BY <2>1, <2>4 DEF Permanent, Core!Conflicts, Core!SameOperation, Core!SameIdentity
  <2> QED BY <1>3, <2>3, <2>4 DEF Core!Conflicts
<1> QED BY <1>1, <1>2, <1>3, CoreSteps DEF Permanent

\* Shutdowns are counted, and never forgotten; what has left the queue has left it.
LEMMA CountsGrow ==
  ASSUME QInv, [Next]_vars, NEW m \in Messages
  PROVE  /\ blame[m] \in Nat /\ blame'[m] \in Nat /\ blame[m] <= blame'[m]
         /\ stops[m] \in Nat /\ stops'[m] \in Nat /\ stops[m] <= stops'[m]
         /\ receives[m] \in Nat /\ deleted \subseteq deleted' /\ dead \subseteq dead'
<1>1. blame[m] \in Nat /\ blame'[m] \in Nat /\ blame[m] <= blame'[m]
  BY BlameGrows
<1>2. stops[m] \in 0 .. MaxStops /\ receives[m] \in 0 .. MaxReceives
  BY DEF QInv, Blames, Receipts
<1>3. stops'[m] \in {stops[m], stops[m] + 1}
  <2>1. \A p \in Consumers : WorkerAction(p) => stops' = stops
    <3> SUFFICES ASSUME NEW p \in Consumers, WorkerAction(p) PROVE stops' = stops
      OBVIOUS
    <3>1. PICK s, d, delay : Moves(p, s, d, delay)
      BY WorkersMove DEF WorkerAction
    <3> QED BY <3>1 DEF Moves
  <2>2. \A p \in Consumers : Stop(p) => stops'[m] \in {stops[m], stops[m] + 1}
    BY StopCounts
  <2>3. (\E p \in Consumers, x \in Messages : Receive(p, x) \/ ReceiveLost(p, x)) => stops' = stops
    BY DEF Receive, ReceiveLost
  <2>4. (\E x \in Messages : Send(x) \/ Redrive(x) \/ Settle(x)) \/ Tick \/ UNCHANGED vars => stops' = stops
    BY DEF Send, Redrive, Settle, Tick, vars
  <2> QED BY <2>1, <2>2, <2>3, <2>4, Steps
<1>4. deleted \subseteq deleted' /\ dead \subseteq dead'
  <2>1. \A p \in Consumers : WorkerAction(p) => deleted \subseteq deleted' /\ dead \subseteq dead'
    <3> SUFFICES ASSUME NEW p \in Consumers, WorkerAction(p) PROVE deleted \subseteq deleted' /\ dead \subseteq dead'
      OBVIOUS
    <3>1. PICK s, d, delay : Moves(p, s, d, delay)
      BY WorkersMove DEF WorkerAction
    <3> QED BY <3>1, MovesOnly
  <2>2. (\E p \in Consumers, x \in Messages : Receive(p, x) \/ ReceiveLost(p, x)) => UNCHANGED <<deleted, dead>>
    BY DEF Receive, ReceiveLost, Deliver
  <2>3. (\E x \in Messages : Send(x) \/ Redrive(x) \/ Settle(x)) \/ Tick \/ UNCHANGED vars
        => deleted \subseteq deleted' /\ dead \subseteq dead'
    BY DEF Send, Redrive, Settle, Tick, vars, sqs
  <2>4. (\E p \in Consumers : Stop(p)) => UNCHANGED <<deleted, dead>>
    BY DEF Stop, sqs
  <2> QED BY <2>1, <2>2, <2>3, <2>4, Steps
<1> QED BY <1>1, <1>2, <1>3, <1>4

\* An account stays in order if the delivery that is handled in time stays so, or ends well,
\* or is counted.
LEMMA AccountStays ==
  ASSUME QInv, [Next]_vars, NEW m \in Messages, Accounted(m), receives'[m] = receives[m],
         \A p \in Consumers : FreshHolder(p, m) =>
           \/ FreshHolder(p, m)' \/ m \in deleted' \/ Permanent(m)
           \/ blame'[m] + stops'[m] >= blame[m] + stops[m] + 1
  PROVE  Accounted(m)'
<1>1. /\ blame[m] \in Nat /\ blame'[m] \in Nat /\ blame[m] <= blame'[m]
      /\ stops[m] \in Nat /\ stops'[m] \in Nat /\ stops[m] <= stops'[m]
      /\ receives[m] \in Nat /\ deleted \subseteq deleted' /\ dead \subseteq dead'
  BY CountsGrow
<1>2. CASE m \in deleted \cup dead
  BY <1>1, <1>2 DEF Accounted
<1>3. CASE Permanent(m)
  BY <1>3, PermanentStays DEF Accounted
<1>4. CASE receives[m] <= blame[m] + stops[m]
  <2>1. receives'[m] <= blame'[m] + stops'[m]
    BY <1>1, <1>4
  <2> QED BY <2>1 DEF Accounted
<1>5. CASE receives[m] <= blame[m] + stops[m] + 1 /\ \E p \in Consumers : FreshHolder(p, m)
  <2>1. PICK p \in Consumers : FreshHolder(p, m)
    BY <1>5
  <2>2. CASE FreshHolder(p, m)'
    <3>1. receives'[m] <= blame'[m] + stops'[m] + 1
      BY <1>1, <1>5
    <3> QED BY <2>2, <3>1 DEF Accounted
  <2>3. CASE m \in deleted'
    BY <2>3 DEF Accounted
  <2>4. CASE Permanent(m)
    BY <2>4, PermanentStays DEF Accounted
  <2>5. CASE blame'[m] + stops'[m] >= blame[m] + stops[m] + 1
    <3>1. receives'[m] <= blame'[m] + stops'[m]
      BY <1>1, <1>5, <2>5
    <3> QED BY <3>1 DEF Accounted
  <2> QED BY <2>1, <2>2, <2>3, <2>4, <2>5
<1> QED BY <1>2, <1>3, <1>4, <1>5 DEF Accounted

\* What the worker that handles a delivery in time does with it.
LEMMA FreshActs ==
  ASSUME QInv, NEW p \in Consumers, NEW m \in Messages, WorkerAction(p), FreshHolder(p, m),
         m \notin deleted \cup dead
  PROVE  \/ FreshHolder(p, m)' \/ m \in deleted' \/ Permanent(m)
         \/ Fault({m})
<1>1. stage \in [Consumers -> Stages] /\ deadline \in [Consumers -> Nat] /\ hidden \in [Messages -> Nat]
      /\ (stage[p] # "stopped" => Accepts(p))
  BY DEF QInv, AckInv, Timers
<1>2. /\ held[p] = [msg |-> m, n |-> receives[m]] /\ held[p].msg = m /\ held[p].n = receives[m]
      /\ p \notin stopping
      /\ stage[p] \in {"received", "executing", "delete"} /\ hidden[m] > 0
  BY <1>1, ConsumerAssumption DEF FreshHolder
<1>3. ASSUME NEW s, NEW d, Become(p, s, d) PROVE stage'[p] = s /\ deadline'[p] = d
  BY <1>1, <1>3 DEF Become
<1>4. CASE Start(p) \/ Pause(p) \/ Postpone(p) \/ PostponeFails(p) \/ Release(p)
  BY <1>2, <1>4 DEF Start, Pause, Postpone, PostponeFails, Release
<1>5. CASE Check(p)
  <2>1. /\ stage[p] = "received" /\ held' = held /\ receives' = receives /\ hidden' = hidden
        /\ stopping' = stopping
    BY <1>5 DEF Check, sqs
  <2>2. CASE Refuses(m)
    BY <2>2 DEF Permanent
  <2>3. CASE ~Refuses(m)
    <3>1. stage'[p] = "executing" /\ deadline'[p] = ProcessingTimeout[p]
      BY <1>2, <1>3, <1>5, <2>3 DEF Check
    <3>2. ProcessingTimeout[p] \in Int /\ ProcessingTimeout[p] > 0 /\ ProcessingTimeout[p] <= LongestProcessing
      BY <1>1, <2>1, ConsumerAssumption DEF Accepts
    <3>3. hidden[m] > LongestProcessing + DeleteTimeout /\ hidden[m] \in Nat
      BY <1>1, <2>1 DEF FreshHolder
    <3>4. deadline'[p] > 0 /\ hidden'[m] > deadline'[p] + DeleteTimeout
      BY <2>1, <3>1, <3>2, <3>3, ConsumerAssumption
    <3> QED BY <1>2, <2>1, <3>1, <3>4 DEF FreshHolder
  <2> QED BY <2>2, <2>3
<1>6. CASE Execute(p)
  <2>1. /\ stage[p] = "executing" /\ held' = held /\ receives' = receives /\ hidden' = hidden
        /\ stopping' = stopping
    BY <1>6 DEF Execute, sqs
  <2>2. CASE Core!Conflicts(m)
    BY <2>2 DEF Permanent
  <2>3. CASE ~Core!Conflicts(m)
    <3>1. Become(p, "delete", DeleteTimeout)
      BY <1>2, <1>6, <2>3 DEF Execute
    <3>2. stage'[p] = "delete" /\ deadline'[p] = DeleteTimeout
      BY <1>3, <3>1
    <3>3. hidden[m] > deadline[p] + DeleteTimeout /\ hidden[m] \in Nat /\ deadline[p] \in Nat
      BY <1>1, <2>1 DEF FreshHolder
    <3>4. deadline'[p] > 0 /\ hidden'[m] > deadline'[p]
      BY <2>1, <3>2, <3>3, ConsumerAssumption
    <3> QED BY <1>2, <2>1, <3>2, <3>4 DEF FreshHolder
  <2> QED BY <2>2, <2>3
<1>7. CASE ExecuteFails(p)
  <2>1. stage[p] = "executing"
    BY <1>7 DEF ExecuteFails
  <2>2. deadline[p] > 0
    BY <2>1 DEF FreshHolder
  <2>3. Fault({held[p].msg})
    BY <1>2, <1>7, <2>2 DEF ExecuteFails
  <2> QED BY <1>2, <2>3
<1>8. CASE Delete(p)
  <2>1. held[p].msg \in Sent
    BY <1>2, HeldReceipt DEF Handling
  <2>2. Good(held[p])
    BY <1>2, <2>1 DEF Good, Queued
  <2>3. DeleteMessage(held[p])
    BY <1>8 DEF Delete
  <2> QED BY <1>2, <2>2, <2>3, CallsHit
<1>9. CASE DeleteFails(p)
  <2>1. stage[p] = "delete"
    BY <1>9 DEF DeleteFails
  <2>2. deadline[p] > 0
    BY <2>1 DEF FreshHolder
  <2>3. Fault({held[p].msg})
    BY <1>9, <2>2 DEF DeleteFails
  <2> QED BY <1>2, <2>3
<1>10. CASE Crash(p)
  BY <1>2, <1>10 DEF Crash
<1> QED BY <1>4, <1>5, <1>6, <1>7, <1>8, <1>9, <1>10 DEF WorkerAction

\* The steps of another worker do not touch it: there is one receipt for each delivery.
LEMMA FreshOthers ==
  ASSUME QInv, NEW p \in Consumers, WorkerAction(p), NEW q \in Consumers \ {p}, NEW m \in Messages,
         FreshHolder(q, m)
  PROVE  FreshHolder(q, m)'
<1>1. PICK s, d, delay : Moves(p, s, d, delay)
  BY WorkersMove DEF WorkerAction
<1>2. /\ stage'[q] = stage[q] /\ deadline'[q] = deadline[q] /\ held'[q] = held[q]
      /\ receives' = receives
      /\ hidden'[m] = hidden[m] \/ (Good(held[p]) /\ m = held[p].msg)
  BY <1>1, MovesOnly
<1>3. q \notin stopping'
  BY <1>1 DEF Moves, FreshHolder
<1>4. hidden'[m] = hidden[m]
  <2> SUFFICES ASSUME Good(held[p]), m = held[p].msg PROVE FALSE
    BY <1>2
  <2>1. held[p] = held[q] /\ stage[p] \in Handling
    BY GoodReceipt DEF FreshHolder
  <2> QED BY <2>1 DEF QInv, Receipts
<1> QED BY <1>2, <1>3, <1>4 DEF FreshHolder

\* Workers keep the accounts.
LEMMA WorkersSpend ==
  ASSUME QInv, [Next]_vars, Spent, NEW p \in Consumers, WorkerAction(p)
  PROVE  Spent'
<1> SUFFICES ASSUME NEW m \in Messages, m \notin deleted \cup dead PROVE Accounted(m)'
  <2>1. ASSUME NEW m \in deleted \cup dead, m \in Messages PROVE Accounted(m)'
    BY <2>1, CountsGrow DEF Accounted
  <2> QED BY <2>1 DEF Spent
<1>1. PICK s, d, delay : Moves(p, s, d, delay)
  BY WorkersMove DEF WorkerAction
<1>2. receives' = receives /\ stops' = stops
  BY <1>1, MovesOnly DEF Moves
<1>3. blame[m] \in Nat /\ stops[m] \in Nat
  BY CountsGrow
<1>4. Fault({m}) => blame'[m] + stops'[m] >= blame[m] + stops[m] + 1
  BY <1>2, <1>3, FaultCounts
<1>5. \A q \in Consumers : FreshHolder(q, m) =>
        \/ FreshHolder(q, m)' \/ m \in deleted' \/ Permanent(m)
        \/ blame'[m] + stops'[m] >= blame[m] + stops[m] + 1
  BY <1>4, FreshActs, FreshOthers
<1> QED BY <1>2, <1>5, AccountStays DEF Spent

\* So does a delivery, of a message whose earlier deliveries have all been counted.
LEMMA DeliveriesSpend ==
  ASSUME QInv, [Next]_vars, Spent, NEW p \in Consumers, NEW x \in Messages,
         Receive(p, x) \/ ReceiveLost(p, x)
  PROVE  Spent'
<1>1. Deliver(x) /\ stage[p] = "polling" /\ stops' = stops
  BY DEF Receive, ReceiveLost
<1>2. /\ x \notin deleted \cup dead /\ hidden[x] = 0 /\ hidden'[x] = VisibilityTimeout
      /\ receives'[x] = receives[x] + 1
      /\ \A y \in Messages \ {x} : receives'[y] = receives[y] /\ hidden'[y] = hidden[y]
  BY <1>1, Delivers
<1>3. held[p] = NoReceipt
  BY <1>1 DEF QInv, Receipts, Handling
<1>4. ASSUME NEW m \in Messages, m # x PROVE Accounted(m)'
  <2>1. receives'[m] = receives[m] /\ hidden'[m] = hidden[m]
    BY <1>2, <1>4
  <2>2. ASSUME NEW q \in Consumers, FreshHolder(q, m) PROVE FreshHolder(q, m)'
    <3>1. q # p
      BY <1>3, <2>2, ConsumerAssumption DEF FreshHolder, NoReceipt
    <3>2. stage'[q] = stage[q] /\ deadline'[q] = deadline[q] /\ held'[q] = held[q]
      <4>1. stage \in [Consumers -> Stages] /\ deadline \in [Consumers -> Nat] /\ \E R : held \in [Consumers -> R]
        BY DEF QInv, AckInv, Timers
      <4>2. \E s, r : /\ stage' = [stage EXCEPT ![p] = s] /\ deadline' = [deadline EXCEPT ![p] = 0]
                      /\ held' = [held EXCEPT ![p] = r]
        BY DEF Receive, ReceiveLost, Exit, Drop, Become
      <4> QED BY <3>1, <4>1, <4>2
    <3>3. q \notin stopping'
      BY <2>2 DEF FreshHolder, Receive, ReceiveLost, Exit
    <3> QED BY <2>1, <2>2, <3>2, <3>3 DEF FreshHolder
  <2>3. Accounted(m)
    BY DEF Spent
  <2> QED BY <2>1, <2>2, <2>3, AccountStays
<1>5. Accounted(x)'
  <2>1. \A q \in Consumers : ~FreshHolder(q, x)
    <3> SUFFICES ASSUME NEW q \in Consumers, FreshHolder(q, x) PROVE FALSE
      OBVIOUS
    <3>1. deadline[q] \in Nat
      BY DEF QInv, Timers
    <3> QED BY <1>2, <3>1, ConsumerAssumption DEF FreshHolder
  <2>2. Permanent(x) \/ receives[x] <= blame[x] + stops[x]
    BY <1>2, <2>1 DEF Spent, Accounted
  <2>3. /\ blame[x] \in Nat /\ blame'[x] \in Nat /\ blame[x] <= blame'[x] /\ stops[x] \in Nat
        /\ receives[x] \in Nat /\ stops'[x] = stops[x]
    BY <1>1, CountsGrow
  <2>4. CASE Permanent(x)
    BY <2>4, PermanentStays DEF Accounted
  <2>5. CASE receives[x] <= blame[x] + stops[x] /\ ReceiveLost(p, x)
    <3>1. Fault({x})
      BY <2>5 DEF ReceiveLost
    <3>2. blame'[x] = blame[x] + 1
      BY <3>1, FaultCounts
    <3>3. receives'[x] <= blame'[x] + stops'[x]
      BY <1>2, <2>3, <2>5, <3>2
    <3> QED BY <3>3 DEF Accounted
  <2>6. CASE receives[x] <= blame[x] + stops[x] /\ Receive(p, x)
    <3>1. /\ held'[p] = [msg |-> x, n |-> receives'[x]] /\ stage'[p] = "received"
          /\ p \notin stopping'
      BY <1>2, <2>6 DEF Receive, Become, QInv, AckInv
    <3>2. hidden'[x] > LongestProcessing + DeleteTimeout
      BY <1>2, ConsumerAssumption
    <3>3. FreshHolder(p, x)'
      BY <3>1, <3>2 DEF FreshHolder
    <3>4. receives'[x] <= blame'[x] + stops'[x] + 1
      BY <1>2, <2>3, <2>6
    <3> QED BY <3>3, <3>4 DEF Accounted
  <2> QED BY <2>2, <2>4, <2>5, <2>6
<1> QED BY <1>4, <1>5 DEF Spent

\* Time keeps them: the visibility timeout runs no faster than the timeout of the call, and
\* whoever runs out of time is counted.
LEMMA TickSpends ==
  ASSUME QInv, [Next]_vars, Spent, Tick
  PROVE  Spent'
<1> SUFFICES ASSUME NEW m \in Messages PROVE Accounted(m)'
  BY DEF Spent
<1>1. /\ UNCHANGED <<receives, stage, held, stopping, stops>>
      /\ hidden' = [x \in Messages |-> CountDown(hidden[x])]
      /\ deadline' = [p \in Consumers |-> CountDown(deadline[p])]
      /\ Fault(Late)
  BY DEF Tick
<1>2. blame[m] \in Nat /\ stops[m] \in Nat
  BY CountsGrow
<1>3. m \in Late => blame'[m] + stops'[m] >= blame[m] + stops[m] + 1
  BY <1>1, <1>2, FaultCounts
<1>4. ASSUME NEW p \in Consumers, FreshHolder(p, m), m \notin Late PROVE FreshHolder(p, m)'
  <2>1. held[p].msg = m
    BY <1>4 DEF FreshHolder
  <2>2. stage[p] # "received" /\ deadline[p] # 1
    BY <1>4, <2>1 DEF Late
  <2>3. deadline[p] \in Nat /\ hidden[m] \in Nat
    BY DEF QInv, Timers
  <2>4. deadline[p] > 0 /\ deadline[p] > 1 /\ hidden[m] > 0
    BY <1>4, <2>2, <2>3, ConsumerAssumption DEF FreshHolder
  <2>5. deadline'[p] = deadline[p] - 1 /\ hidden'[m] = hidden[m] - 1
    BY <1>1, <2>4 DEF CountDown
  <2>6. deadline'[p] > 0
    BY <2>3, <2>4, <2>5
  <2>7. CASE stage[p] = "executing"
    <3>1. hidden[m] > deadline[p] + DeleteTimeout
      BY <1>4, <2>7 DEF FreshHolder
    <3>2. hidden'[m] > deadline'[p] + DeleteTimeout
      BY <2>3, <2>5, <3>1, ConsumerAssumption
    <3> QED BY <1>1, <1>4, <2>6, <2>7, <3>2 DEF FreshHolder
  <2>8. CASE stage[p] = "delete"
    <3>1. hidden[m] > deadline[p]
      BY <1>4, <2>8 DEF FreshHolder
    <3>2. hidden'[m] > deadline'[p]
      BY <2>3, <2>5, <3>1
    <3> QED BY <1>1, <1>4, <2>6, <2>8, <3>2 DEF FreshHolder
  <2> QED BY <1>4, <2>2, <2>7, <2>8 DEF FreshHolder
<1>5. Accounted(m) /\ receives'[m] = receives[m]
  BY <1>1 DEF Spent
<1> QED BY <1>3, <1>4, <1>5, AccountStays

\* A shutdown is counted for the message that it interrupts; the other steps have no part in
\* it.
LEMMA OthersSpend ==
  ASSUME QInv, [Next]_vars, Spent,
         \/ \E m \in Messages : Send(m) \/ Redrive(m) \/ Settle(m)
         \/ \E p \in Consumers : Stop(p)
         \/ UNCHANGED vars
  PROVE  Spent'
<1> SUFFICES ASSUME NEW m \in Messages PROVE Accounted(m)'
  BY DEF Spent
<1>1. UNCHANGED <<stage, held, deadline, blame, receives, hidden>>
  BY DEF Send, Redrive, Settle, Stop, vars, sqs
<1>2. Accounted(m) /\ receives'[m] = receives[m]
  BY <1>1 DEF Spent
<1>3. CASE stopping' = stopping
  BY <1>1, <1>2, <1>3, AccountStays DEF FreshHolder
<1>4. ASSUME NEW p \in Consumers, Stop(p) PROVE Accounted(m)'
  <2>1. stopping' = stopping \cup {p}
    BY <1>4 DEF Stop
  <2>2. stops'[m] = IF m = held[p].msg THEN stops[m] + 1 ELSE stops[m]
    BY <1>4, StopCounts
  <2>3. blame[m] \in Nat /\ stops[m] \in Nat
    BY CountsGrow
  <2>4. ASSUME NEW q \in Consumers, FreshHolder(q, m)
        PROVE  FreshHolder(q, m)' \/ blame'[m] + stops'[m] >= blame[m] + stops[m] + 1
    <3>1. CASE q = p
      <4>1. held[p].msg = m
        BY <2>4, <3>1 DEF FreshHolder
      <4>2. stops'[m] = stops[m] + 1
        BY <2>2, <4>1
      <4> QED BY <1>1, <2>3, <4>2
    <3>2. CASE q # p
      BY <1>1, <2>1, <2>4, <3>2 DEF FreshHolder
    <3> QED BY <3>1, <3>2
  <2> QED BY <1>2, <2>4, AccountStays
<1>5. (\E x \in Messages : Send(x) \/ Redrive(x) \/ Settle(x)) \/ UNCHANGED vars => stopping' = stopping
  BY DEF Send, Redrive, Settle, vars
<1> QED BY <1>3, <1>4, <1>5

\* Only the redrive gives a message up, after the last delivery that it allows, and when
\* nobody handles the message any more.
LEMMA DeadStaysAccounted ==
  ASSUME DInv, [Next]_vars
  PROVE  DeadLettersNeedFaults'
<1>1. QInv
  BY DEF DInv
<1>2. ASSUME NEW m \in dead PROVE Permanent(m)' \/ blame'[m] + stops'[m] >= MaxReceives
  <2>1. m \in Messages
    BY <1>1, SentAreMessages DEF QInv, Receipts
  <2>2. Permanent(m) \/ blame[m] + stops[m] >= MaxReceives
    BY DEF DInv, DeadLettersNeedFaults
  <2>3. blame[m] + stops[m] >= MaxReceives => blame'[m] + stops'[m] >= MaxReceives
    BY <1>1, <2>1, CountsGrow, ConsumerAssumption
  <2> QED BY <1>1, <2>1, <2>2, <2>3, PermanentStays
<1>3. ASSUME NEW m \in dead' \ dead PROVE Permanent(m)' \/ blame'[m] + stops'[m] >= MaxReceives
  <2>1. m \in Messages /\ Redrive(m)
    <3>1. \A p \in Consumers : WorkerAction(p) => dead' = dead
      <4> SUFFICES ASSUME NEW p \in Consumers, WorkerAction(p) PROVE dead' = dead
        OBVIOUS
      <4>1. PICK s, d, delay : Moves(p, s, d, delay)
        BY <1>1, WorkersMove DEF WorkerAction
      <4> QED BY <1>1, <4>1, MovesOnly
    <3>2. (\E p \in Consumers : Stop(p) \/ \E x \in Messages : Receive(p, x) \/ ReceiveLost(p, x)) => dead' = dead
      BY DEF Stop, Receive, ReceiveLost, Deliver, sqs
    <3>3. (\E x \in Messages : Send(x) \/ Settle(x)) \/ Tick \/ UNCHANGED vars => dead' = dead
      BY DEF Send, Settle, Tick, vars, sqs
    <3>4. \A x \in Messages : Redrive(x) => dead' = dead \cup {x}
      BY DEF Redrive
    <3> QED BY <1>3, <3>1, <3>2, <3>3, <3>4, Steps
  <2>2. /\ m \in Queued /\ hidden[m] = 0 /\ receives[m] = MaxReceives
        /\ blame' = blame /\ stops' = stops
    BY <2>1 DEF Redrive, Deliverable
  <2>3. \A p \in Consumers : ~FreshHolder(p, m)
    <3> SUFFICES ASSUME NEW p \in Consumers, FreshHolder(p, m) PROVE FALSE
      OBVIOUS
    <3>1. deadline[p] \in Nat
      BY <1>1 DEF QInv, Timers
    <3> QED BY <2>2, <3>1, ConsumerAssumption DEF FreshHolder
  <2>4. Permanent(m) \/ receives[m] <= blame[m] + stops[m]
    BY <2>1, <2>2, <2>3 DEF DInv, Spent, Accounted, Queued
  <2>5. blame[m] \in Nat /\ stops[m] \in Nat
    BY <1>1, <2>1, CountsGrow
  <2>6. receives[m] <= blame[m] + stops[m] => blame'[m] + stops'[m] >= MaxReceives
    BY <2>2, <2>5, ConsumerAssumption
  <2> QED BY <1>1, <2>1, <2>4, <2>6, PermanentStays
<1>4. \A m \in dead' : Permanent(m)' \/ blame'[m] + stops'[m] >= MaxReceives
  BY <1>2, <1>3
<1> QED BY <1>4 DEF DeadLettersNeedFaults, Permanent, Refuses, Parsed, Provider, Core!Conflicts,
           Core!SameOperation, Core!SameIdentity

\* Always: a message that is not refused for good gets into the dead-letter queue only if
\* each of its deliveries had a fault or a shutdown of its own; the bound that the consumer
\* puts on its processing timeout (ConsumerConfig.validate) is what makes it so.
THEOREM NothingIsGivenUpLightly == Spec => []DeadLettersNeedFaults
<1>1. Init => DInv
  <2> SUFFICES ASSUME Init PROVE DInv OBVIOUS
  <2>1. QInv
    BY QueueInit
  <2>2. \A m \in Messages : receives[m] = 0 /\ blame[m] = 0 /\ stops[m] = 0
    BY DEF Init
  <2> QED BY <2>1, <2>2 DEF Init, DInv, Spent, Accounted, DeadLettersNeedFaults
<1>2. DInv /\ [Next]_vars => DInv'
  <2> SUFFICES ASSUME DInv, [Next]_vars PROVE DInv' OBVIOUS
  <2>1. QInv /\ Spent /\ QInv'
    BY QueueStep DEF DInv
  <2>2. Spent'
    BY <2>1, Steps, WorkersSpend, DeliveriesSpend, TickSpends, OthersSpend
  <2> QED BY <2>1, <2>2, DeadStaysAccounted DEF DInv
<1>3. DInv => DeadLettersNeedFaults
  BY DEF DInv
<1> QED BY <1>1, <1>2, <1>3, PTL DEF Spec
-----------------------------------------------------------------------------
(* The core, as the consumer uses it.                                       *)

\* A worker that is about to execute a message holds one.
LEMMA ExecutesItsMessage ==
  ASSUME AckInv, NEW p \in Consumers, stage[p] = "executing"
  PROVE  held[p].msg \in Messages
BY DEF AckInv

\* Every step of the consumer is one of ExactlyOnce, or leaves the core alone.
LEMMA StepsOfCore == ASSUME AckInv, [Next]_vars PROVE [Core!Next]_core
<1>1. ASSUME NEW m \in Messages, Abandon(m) PROVE [Core!Next]_core
  BY <1>1 DEF Abandon, Core!Next, core
<1>2. ASSUME NEW p \in Consumers, Execute(p) PROVE [Core!Next]_core
  <2>1. held[p].msg \in Messages
    BY <1>2, ExecutesItsMessage DEF Execute
  <2>2. Core!Refuse(held[p].msg) \/ Core!Take(held[p].msg)
    BY <1>2 DEF Execute
  <2> QED BY <2>1, <2>2 DEF Core!Next
<1>3. ASSUME NEW p \in Consumers, ExecuteFails(p) PROVE [Core!Next]_core
  BY <1>1, <1>3, ExecutesItsMessage DEF ExecuteFails
<1>4. ASSUME NEW p \in Consumers, Crash(p) PROVE [Core!Next]_core
  BY <1>1, <1>4, ExecutesItsMessage DEF Crash, core
<1>5. ASSUME NEW m \in Messages, Settle(m) PROVE [Core!Next]_core
  BY <1>5 DEF Settle, Core!Next
<1>6. ASSUME NEW p \in Consumers,
             \/ Start(p) \/ Pause(p) \/ Check(p) \/ Delete(p) \/ DeleteFails(p) \/ Postpone(p)
             \/ PostponeFails(p) \/ Release(p) \/ Stop(p)
             \/ \E m \in Messages : Receive(p, m) \/ ReceiveLost(p, m)
      PROVE  UNCHANGED core
  BY <1>6 DEF Start, Pause, Check, Delete, DeleteFails, Postpone, PostponeFails, Release, Stop,
              Receive, ReceiveLost
<1>7. ASSUME NEW m \in Messages, Send(m) \/ Redrive(m) PROVE UNCHANGED core
  BY <1>7 DEF Send, Redrive
<1>8. CASE Tick
  BY <1>8 DEF Tick
<1>9. CASE UNCHANGED vars
  BY <1>9 DEF vars
<1> QED BY <1>2, <1>3, <1>4, <1>5, <1>6, <1>7, <1>8, <1>9, Steps DEF WorkerAction

\* The consumer, with its redeliveries, its crashes and the transactions it leaves behind,
\* asks of ProcessWager nothing but what ExactlyOnce promises: what is proved of
\* Wagering through ExactlyOnce is true for the consumer.
THEOREM CoreIsRespected == Spec => Core!Spec
<1>1. Init => Core!Init
  BY DEF Init
<1>2. AckInv /\ [Next]_vars => [Core!Next]_(Core!vars)
  BY StepsOfCore DEF core, Core!vars
<1> QED BY <1>1, <1>2, AcksInit, AcksStep, PTL DEF Spec, Core!Spec

\* Each identity took effect once; who was told a result, or took effect, stays committed
\* and in conflict with nobody; and who was told of a conflict has it for ever.
Verdicts ==
  /\ \A m, n \in done : Core!SameIdentity(m, n) => m = n
  /\ done \cup told \subseteq Messages
  /\ \A m \in done \cup told : Committed(m) /\ ~Core!Conflicts(m)
  /\ refused \subseteq Messages /\ \A m \in refused : Core!Conflicts(m)

\* A commit takes no verdict back.
LEMMA CommitKeepsVerdicts ==
  ASSUME AckInv, Verdicts, NEW h \in Messages, Core!Commit(h)
  PROVE  /\ \A m, n \in done' : Core!SameIdentity(m, n) => m = n
         /\ done' \cup told \cup {h} \subseteq Messages
         /\ \A m \in done' \cup told \cup {h} : Committed(m)' /\ ~Core!Conflicts(m)'
         /\ \A m \in refused : Core!Conflicts(m)'
<1> USE DEF Core!SameIdentity
<1>1. /\ Message[h].msg # Nil /\ Message[h].msg \in MessageIds
      /\ \A m \in Messages : Message[m].msg \in MessageIds /\ Message[m].body # Nil
  BY ConsumerAssumption DEF MessageIds
<1>2. /\ inbox[Message[h].msg] \in {Nil, Message[h].body}
      /\ \A d \in done : Core!SameIdentity(h, d) => Core!SameOperation(h, d)
      /\ done' = IF Core!Settled(h) THEN done ELSE done \cup {h}
      /\ inbox' = [inbox EXCEPT ![Message[h].msg] = Message[h].body]
  BY <1>1 DEF Core!Commit, Core!Conflicts
<1>3. /\ inbox' \in [MessageIds -> Bodies \cup {Nil}]
      /\ \A m \in Messages : Committed(m) => Committed(m)'
      /\ Committed(h)'
  BY CommittedStays
<1>4. \A m \in done' \cup told \cup {h} : m \in Messages /\ Committed(m)'
  BY <1>2, <1>3 DEF Verdicts
<1>5. \A m, n \in done' : Core!SameIdentity(m, n) => m = n
  <2>1. ASSUME ~Core!Settled(h), NEW d \in done
        PROVE  ~Core!SameIdentity(h, d) /\ ~Core!SameIdentity(d, h)
    BY <1>2, <2>1 DEF Core!Settled
  <2> QED BY <1>2, <2>1 DEF Verdicts
<1>6. ASSUME NEW m \in done' \cup told \cup {h}, NEW d \in done', Core!SameIdentity(m, d)
      PROVE  Core!SameOperation(m, d)
  <2>1. PICK e \in done' : Core!SameOperation(m, e)
    BY <1>4 DEF Committed, Core!Settled, Core!SameOperation
  <2>2. m \in Messages /\ e \in Messages /\ d \in Messages
    BY <1>2, <1>4 DEF Verdicts
  <2>3. Message[m].ext = Message[e].ext /\ Message[m].key = Message[e].key
        /\ Message[m].provider = Message[e].provider
    BY <2>1, <2>2, ContentAssumption DEF Core!SameOperation
  <2>4. Core!SameIdentity(e, d)
    BY <1>6, <2>3
  <2>5. e = d
    BY <1>5, <2>4
  <2> QED BY <2>1, <2>5
<1>7. ASSUME NEW m \in done' \cup told \cup {h} PROVE ~Core!Conflicts(m)'
  <2>1. inbox'[Message[m].msg] = Message[m].body
    BY <1>4 DEF Committed
  <2> QED BY <1>6, <2>1 DEF Core!Conflicts, Core!SameOperation
<1>8. ASSUME NEW m \in refused PROVE Core!Conflicts(m)'
  <2>1. m \in Messages /\ Core!Conflicts(m)
    BY DEF Verdicts
  <2>2. CASE Message[m].msg # Nil /\ inbox[Message[m].msg] \notin {Nil, Message[m].body}
    <3>1. inbox'[Message[m].msg] = inbox[Message[m].msg]
      BY <1>1, <1>2, <2>1, <2>2 DEF AckInv
    <3> QED BY <2>2, <3>1 DEF Core!Conflicts
  <2>3. CASE \E d \in done : Core!SameIdentity(m, d) /\ ~Core!SameOperation(m, d)
    <3>1. done \subseteq done'
      BY <1>2
    <3> QED BY <2>3, <3>1 DEF Core!Conflicts, Core!SameOperation
  <2> QED BY <2>1, <2>2, <2>3 DEF Core!Conflicts
<1> QED BY <1>4, <1>5, <1>7, <1>8

\* No step takes a verdict back.
LEMMA VerdictsKept == AckInv /\ Verdicts /\ [Next]_vars => Verdicts'
<1> SUFFICES ASSUME AckInv, Verdicts, [Core!Next]_core PROVE Verdicts'
  BY StepsOfCore
<1>1. CASE UNCHANGED core
  BY <1>1 DEF core, Verdicts, Committed, Core!Conflicts, Core!Settled, Core!SameOperation,
              Core!SameIdentity
<1>2. ASSUME NEW h \in Messages, Core!Commit(h), refused' = refused,
             told' \in {told, told \cup {h}}
      PROVE  Verdicts'
  <2>1. /\ \A m, n \in done' : Core!SameIdentity(m, n) => m = n
        /\ done' \cup told \cup {h} \subseteq Messages
        /\ \A m \in done' \cup told \cup {h} : Committed(m)' /\ ~Core!Conflicts(m)'
        /\ \A m \in refused : Core!Conflicts(m)'
    BY <1>2, CommitKeepsVerdicts
  <2>2. done' \cup told' \subseteq done' \cup told \cup {h}
    BY <1>2
  <2> QED BY <1>2, <2>1, <2>2 DEF Verdicts, Core!SameIdentity
<1>3. ASSUME NEW h \in Messages, Core!Refuse(h) PROVE Verdicts'
  <2>1. /\ Core!Conflicts(h) /\ refused' = refused \cup {h}
        /\ done' = done /\ inbox' = inbox /\ told' = told
    BY <1>3 DEF Core!Refuse
  <2> QED BY <2>1 DEF Verdicts, Committed, Core!Conflicts, Core!Settled, Core!SameOperation,
                      Core!SameIdentity
<1> QED BY <1>1, <1>2, <1>3 DEF Core!Next, Core!Take, Core!TakeUnheard

\* However often a message is delivered, and whatever is sent under the identity of another
\* one, an operation takes effect once; and a message that was processed is never refused
\* when it is delivered again, nor one that was refused ever processed
\* (ExecuteMessage, permanentMessageError).
THEOREM VerdictsStand ==
  Spec => [](/\ \A m, n \in done : Core!SameIdentity(m, n) => m = n
             /\ told \cap refused = {}
             /\ \A m \in done \cup told : Committed(m) /\ ~Core!Conflicts(m))
<1>1. Init => Verdicts
  BY DEF Init, Verdicts, Core!Init
<1>2. Verdicts => /\ \A m, n \in done : Core!SameIdentity(m, n) => m = n
                  /\ told \cap refused = {}
                  /\ \A m \in done \cup told : Committed(m) /\ ~Core!Conflicts(m)
  BY DEF Verdicts
<1> QED BY <1>1, <1>2, AcksInit, AcksStep, VerdictsKept, PTL DEF Spec
=============================================================================
