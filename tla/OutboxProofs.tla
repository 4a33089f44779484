---------------------------- MODULE OutboxProofs ----------------------------
(***************************************************************************)
(* Theorems about OutboxPublisher for any number of publishers, events and *)
(* faults, and any durations.                                              *)
(*                                                                         *)
(* The inductive invariant PInv strengthens AttemptOwnsEvent with what a   *)
(* publisher knows at each stage (Busy, Left), with tokens that nobody     *)
(* else can use (Apart), and PublishedWasSent with the attempts and        *)
(* statements that are about to mark an event (MarksAreSent).              *)
(*                                                                         *)
(* SendsExplained keeps the balance of sends: those that were made or may  *)
(* still come are no more than the events that are published, those that   *)
(* their owner is about to mark, and the faults.                           *)
(*                                                                         *)
(* With ClaimsExist, which says that nothing is claimed that the core did  *)
(* not write, every step is one of EventDelivery or none (Seen).           *)
(***************************************************************************)
EXTENDS OutboxPublisher, SumProofs

Holding == {"publish", "mark", "retry"}

\* What a publisher has claimed at each stage.
Busy ==
  \A p \in Publishers :
    /\ stage[p] \in Holding => claimed[p] \in [event : Events, token : Tokens,
                                               attempts : 1 .. MaxAttempts]
    /\ stage[p] \notin Holding => claimed[p] = NoClaim
    /\ stage[p] # "idle" => Accepts(Config[p]) /\ deadline[p] <= Config[p].timeout

\* What a statement that was left has claimed.
Left ==
  \A s \in late : /\ s.token \in Tokens
                  /\ s.kind # "claim" => s.event \in Events /\ s.attempts \in 1 .. MaxAttempts

\* A token belongs to one attempt or to one statement that was left.
Apart ==
  \A p \in Publishers : stage[p] \in Holding =>
    /\ \A q \in Publishers : q # p => claimed[q].token # claimed[p].token
    /\ \A s \in late : s.token # claimed[p].token

\* Only an event that was sent is, or is about to be, marked as published.
MarksAreSent ==
  /\ PublishedWasSent
  /\ \A p \in Publishers : stage[p] = "mark" => sends[claimed[p].event] > 0
  /\ \A s \in late : s.kind = "mark" => sends[s.event] > 0

PInv == TypeOK /\ Busy /\ Left /\ Apart /\ AttemptOwnsEvent /\ MarksAreSent

\* In the beginning nobody has claimed anything.
LEMMA InitKeeps == Init => PInv
<1> SUFFICES ASSUME Init PROVE PInv OBVIOUS
<1>1. TypeOK
  BY PublisherAssumption DEF Init, TypeOK, NoEvent, NoClaim, Claims, Row
<1>2. Busy /\ Left /\ Apart /\ AttemptOwnsEvent /\ MarksAreSent
  BY DEF Init, Busy, Left, Apart, AttemptOwnsEvent, MarksAreSent, PublishedWasSent, Holding, NoEvent
<1> QED BY <1>1, <1>2 DEF PInv

-----------------------------------------------------------------------------
(* The statements on the table.                                             *)

\* A fresh token is held by nobody.
LEMMA FreshTokenUnused ==
  ASSUME Unused # {}
  PROVE  /\ FreshToken \in Tokens
         /\ \A e \in Events : rows[e].token # FreshToken
         /\ \A p \in Publishers : claimed[p].token # FreshToken
         /\ \A s \in late : s.token # FreshToken
<1>1. FreshToken \in Unused
  BY DEF FreshToken
<1> QED BY <1>1 DEF Unused

\* An event is leased: no attempt that has time left loses its row.
LEMMA LeaseKeepsOthers ==
  ASSUME TypeOK, Busy, AttemptOwnsEvent, NEW e \in Events, Available(e),
         NEW p \in Publishers, NEW token \in Tokens, Lease(e, p, token)
  PROVE  /\ rows' \in [Events -> Row]
         /\ CountAttempt(e) \in 1 .. MaxAttempts
         /\ rows'[e].token = token /\ rows'[e].lease = Config[p].lease
         /\ \A f \in Events : rows'[f].status = rows[f].status
         /\ \A q \in Publishers : stage[q] \in Holding /\ deadline[q] > 0 =>
              rows'[claimed[q].event] = rows[claimed[q].event]
<1> DEFINE row == [rows[e] EXCEPT !.token = token, !.lease = Config[p].lease,
                                  !.attempts = CountAttempt(e)]
<1>1. CountAttempt(e) \in 1 .. MaxAttempts
  BY PublisherAssumption DEF TypeOK, CountAttempt, Row
<1>2. rows[e] \in Row
  BY DEF TypeOK
<1>3. /\ row \in Row /\ row.status = rows[e].status
      /\ row.token = token /\ row.lease = Config[p].lease
  <2>1. Config[p].lease \in Nat /\ CountAttempt(e) \in 0 .. MaxAttempts
    BY <1>1, PublisherAssumption
  <2> QED BY <1>2, <2>1 DEF Row
<1> HIDE DEF row
<1>4. rows' = [rows EXCEPT ![e] = row]
  BY DEF Lease, row
<1>5. rows' \in [Events -> Row] /\ rows'[e] = row /\ \A f \in Events \ {e} : rows'[f] = rows[f]
  BY <1>3, <1>4 DEF TypeOK
<1>6. ASSUME NEW q \in Publishers, stage[q] \in Holding, deadline[q] > 0
      PROVE  rows'[claimed[q].event] = rows[claimed[q].event]
  <2>1. claimed[q].event \in Events /\ rows[claimed[q].event].lease > 0
    BY <1>6 DEF Busy, AttemptOwnsEvent, Holding, Holds
  <2>2. claimed[q].event # e
    BY <2>1 DEF Available
  <2> QED BY <2>1, <2>2, <1>5
<1> QED BY <1>1, <1>3, <1>5, <1>6

\* An event is marked by the holder of a token: no other token loses its row.
LEMMA SetPublishedKeepsOthers ==
  ASSUME TypeOK, Busy, AttemptOwnsEvent, NEW e \in Events, NEW token, SetPublished(e, token)
  PROVE  /\ rows' \in [Events -> Row]
         /\ \A f \in Events \ {e} : rows'[f] = rows[f]
         /\ \A q \in Publishers :
              stage[q] \in Holding /\ deadline[q] > 0 /\ claimed[q].token # token =>
                rows'[claimed[q].event] = rows[claimed[q].event]
<1>1. CASE ~Holds(e, token)
  BY <1>1 DEF SetPublished, TypeOK
<1>2. CASE Holds(e, token)
  <2> DEFINE row == [rows[e] EXCEPT !.status = "published", !.lease = 0, !.token = Nil]
  <2>1. rows[e] \in Row
    BY DEF TypeOK
  <2>2. row \in Row
    BY <2>1 DEF Row
  <2> HIDE DEF row
  <2>3. rows' = [rows EXCEPT ![e] = row]
    BY <1>2 DEF SetPublished, row
  <2>4. rows' \in [Events -> Row] /\ \A f \in Events \ {e} : rows'[f] = rows[f]
    BY <2>2, <2>3 DEF TypeOK
  <2>5. ASSUME NEW q \in Publishers, stage[q] \in Holding, deadline[q] > 0,
               claimed[q].token # token
        PROVE  rows'[claimed[q].event] = rows[claimed[q].event]
    BY <1>2, <2>4, <2>5 DEF Busy, AttemptOwnsEvent, Holding, Holds
  <2> QED BY <2>4, <2>5
<1> QED BY <1>1, <1>2

\* An event is scheduled by the holder of a token: no other token loses its row.
LEMMA RescheduleKeepsOthers ==
  ASSUME TypeOK, Busy, AttemptOwnsEvent, NEW e \in Events, NEW token,
         NEW wait \in Nat, Reschedule(e, token, wait)
  PROVE  /\ rows' \in [Events -> Row]
         /\ \A f \in Events : rows'[f].status = rows[f].status
         /\ \A q \in Publishers :
              stage[q] \in Holding /\ deadline[q] > 0 /\ claimed[q].token # token =>
                rows'[claimed[q].event] = rows[claimed[q].event]
<1>1. CASE ~Holds(e, token)
  BY <1>1 DEF Reschedule, TypeOK
<1>2. CASE Holds(e, token)
  <2> DEFINE row == [rows[e] EXCEPT !.wait = wait, !.lease = 0, !.token = Nil]
  <2>1. rows[e] \in Row
    BY DEF TypeOK
  <2>2. row \in Row /\ row.status = rows[e].status
    BY <2>1 DEF Row
  <2> HIDE DEF row
  <2>3. rows' = [rows EXCEPT ![e] = row]
    BY <1>2 DEF Reschedule, row
  <2>4. /\ rows' \in [Events -> Row] /\ rows'[e] = row
        /\ \A f \in Events \ {e} : rows'[f] = rows[f]
    BY <2>2, <2>3 DEF TypeOK
  <2>5. ASSUME NEW q \in Publishers, stage[q] \in Holding, deadline[q] > 0,
               claimed[q].token # token
        PROVE  rows'[claimed[q].event] = rows[claimed[q].event]
    BY <1>2, <2>4, <2>5 DEF Busy, AttemptOwnsEvent, Holding, Holds
  <2> QED BY <2>2, <2>4, <2>5
<1> QED BY <1>1, <1>2

-----------------------------------------------------------------------------
(* The end of an attempt.                                                   *)

\* An attempt that is over leaves the others as they were, and no claim.
LEMMA RestKeepsOthers ==
  ASSUME TypeOK, Busy, Apart, NEW p \in Publishers, Rest(p)
  PROVE  /\ stage' \in [Publishers -> {"idle", "claim", "publish", "mark", "retry"}]
         /\ claimed' \in [Publishers -> Claims] /\ deadline' \in [Publishers -> Nat]
         /\ stage'[p] = "idle"
         /\ \A q \in Publishers \ {p} :
              stage'[q] = stage[q] /\ claimed'[q] = claimed[q] /\ deadline'[q] = deadline[q]
         /\ Busy' /\ (late' \subseteq late => Apart')
<1>1. NoClaim \in Claims
  BY PublisherAssumption DEF NoClaim, Claims
<1>2. /\ stage' \in [Publishers -> {"idle", "claim", "publish", "mark", "retry"}]
      /\ claimed' \in [Publishers -> Claims] /\ deadline' \in [Publishers -> Nat]
  BY <1>1 DEF TypeOK, Rest
<1>3. stage'[p] = "idle" /\ claimed'[p] = NoClaim /\ deadline'[p] = 0
  BY DEF TypeOK, Rest
<1>4. \A q \in Publishers \ {p} :
        stage'[q] = stage[q] /\ claimed'[q] = claimed[q] /\ deadline'[q] = deadline[q]
  BY DEF TypeOK, Rest
<1>5. Busy'
  <2> SUFFICES ASSUME NEW q \in Publishers
               PROVE  /\ stage'[q] \in Holding => claimed'[q] \in [event : Events, token : Tokens,
                                                                  attempts : 1 .. MaxAttempts]
                      /\ stage'[q] \notin Holding => claimed'[q] = NoClaim
                      /\ stage'[q] # "idle" => Accepts(Config[q]) /\ deadline'[q] <= Config[q].timeout
    BY DEF Busy, Holding, Accepts
  <2>1. CASE q = p
    BY <1>3, <2>1 DEF Holding
  <2>2. CASE q # p
    BY <1>4, <2>2 DEF Busy
  <2> QED BY <2>1, <2>2
<1>6. ASSUME late' \subseteq late PROVE Apart'
  <2> SUFFICES ASSUME NEW q \in Publishers, stage'[q] \in Holding
               PROVE  /\ \A r \in Publishers : r # q => claimed'[r].token # claimed'[q].token
                      /\ \A s \in late' : s.token # claimed'[q].token
    BY DEF Apart, Holding
  <2>1. q # p /\ claimed'[q] = claimed[q] /\ stage[q] \in Holding
    BY <1>3, <1>4 DEF Holding
  <2>2. claimed[q].token # Nil
    BY <2>1, PublisherAssumption DEF Busy
  <2> QED BY <1>3, <1>4, <1>6, <2>1, <2>2 DEF Apart, NoClaim
<1> QED BY <1>2, <1>3, <1>4, <1>5, <1>6

\* MarkPublished marks an event that was sent, of which it is the owner.
LEMMA MarkKeeps == ASSUME PInv, NEW p \in Publishers, MarkPublished(p) PROVE PInv'
<1> DEFINE e == claimed[p].event
           k == claimed[p].token
<1>1. e \in Events /\ stage[p] = "mark" /\ sends[e] > 0
  BY DEF PInv, Busy, MarksAreSent, MarkPublished, Holding
<1>2. /\ rows' \in [Events -> Row]
      /\ \A f \in Events \ {e} : rows'[f] = rows[f]
      /\ \A q \in Publishers :
           stage[q] \in Holding /\ deadline[q] > 0 /\ claimed[q].token # k =>
             rows'[claimed[q].event] = rows[claimed[q].event]
  <2>1. SetPublished(e, k)
    BY DEF MarkPublished
  <2> HIDE DEF e, k
  <2> QED BY <1>1, <2>1, SetPublishedKeepsOthers DEF PInv
<1>3. Rest(p) /\ late' = late /\ sends' = sends /\ faults' = faults
  BY DEF MarkPublished
<1>4. /\ stage' \in [Publishers -> {"idle", "claim", "publish", "mark", "retry"}]
      /\ claimed' \in [Publishers -> Claims] /\ deadline' \in [Publishers -> Nat]
      /\ stage'[p] = "idle"
      /\ \A q \in Publishers \ {p} :
           stage'[q] = stage[q] /\ claimed'[q] = claimed[q] /\ deadline'[q] = deadline[q]
      /\ Busy' /\ Apart'
  BY <1>3, RestKeepsOthers DEF PInv
<1>5. TypeOK'
  BY <1>2, <1>3, <1>4 DEF PInv, TypeOK
<1>6. Left'
  BY <1>3 DEF PInv, Left
<1>7. AttemptOwnsEvent'
  BY <1>2, <1>3, <1>4 DEF PInv, AttemptOwnsEvent, Apart, Holding, Holds
<1>8. MarksAreSent'
  BY <1>1, <1>2, <1>3, <1>4 DEF PInv, MarksAreSent, PublishedWasSent
<1> QED BY <1>4, <1>5, <1>6, <1>7, <1>8 DEF PInv

\* Retry gives up an event of which the attempt is the owner.
LEMMA RetryKeeps == ASSUME PInv, NEW p \in Publishers, Retry(p) PROVE PInv'
<1> DEFINE e == claimed[p].event
           k == claimed[p].token
           wait == Config[p].delay[claimed[p].attempts]
<1>1. e \in Events /\ wait \in Nat
  BY PublisherAssumption DEF PInv, Busy, Retry, Holding
<1>2. /\ rows' \in [Events -> Row]
      /\ \A f \in Events : rows'[f].status = rows[f].status
      /\ \A q \in Publishers :
           stage[q] \in Holding /\ deadline[q] > 0 /\ claimed[q].token # k =>
             rows'[claimed[q].event] = rows[claimed[q].event]
  <2>1. Reschedule(e, k, wait)
    BY DEF Retry
  <2> HIDE DEF e, k, wait
  <2> QED BY <1>1, <2>1, RescheduleKeepsOthers DEF PInv
<1>3. Rest(p) /\ late' = late /\ sends' = sends /\ faults' = faults
  BY DEF Retry
<1>4. /\ stage' \in [Publishers -> {"idle", "claim", "publish", "mark", "retry"}]
      /\ claimed' \in [Publishers -> Claims] /\ deadline' \in [Publishers -> Nat]
      /\ stage'[p] = "idle"
      /\ \A q \in Publishers \ {p} :
           stage'[q] = stage[q] /\ claimed'[q] = claimed[q] /\ deadline'[q] = deadline[q]
      /\ Busy' /\ Apart'
  BY <1>3, RestKeepsOthers DEF PInv
<1>5. TypeOK'
  BY <1>2, <1>3, <1>4 DEF PInv, TypeOK
<1>6. Left'
  BY <1>3 DEF PInv, Left
<1>7. AttemptOwnsEvent'
  BY <1>2, <1>3, <1>4 DEF PInv, AttemptOwnsEvent, Apart, Holding, Holds
<1>8. MarksAreSent'
  BY <1>2, <1>3, <1>4 DEF PInv, MarksAreSent, PublishedWasSent
<1> QED BY <1>4, <1>5, <1>6, <1>7, <1>8 DEF PInv

\* A statement that is left carries the claim of its attempt, which nobody holds any more.
LEMMA LeaveKeeps ==
  ASSUME PInv, NEW p \in Publishers, Leave(p), faults' \in 0 .. MaxFaults
  PROVE  PInv'
<1> DEFINE s == Statement(p)
<1>1. CASE late' = late
  <2>1. /\ stage' \in [Publishers -> {"idle", "claim", "publish", "mark", "retry"}]
        /\ claimed' \in [Publishers -> Claims] /\ deadline' \in [Publishers -> Nat]
        /\ stage'[p] = "idle"
        /\ \A q \in Publishers \ {p} :
             stage'[q] = stage[q] /\ claimed'[q] = claimed[q] /\ deadline'[q] = deadline[q]
        /\ Busy' /\ Apart'
    BY <1>1, RestKeepsOthers DEF PInv, Leave
  <2>2. TypeOK' /\ Left'
    BY <1>1, <2>1 DEF PInv, TypeOK, Left, Leave
  <2>3. AttemptOwnsEvent'
    BY <2>1 DEF PInv, AttemptOwnsEvent, Leave, Holds
  <2>4. MarksAreSent'
    BY <1>1, <2>1 DEF PInv, MarksAreSent, PublishedWasSent, Leave
  <2> QED BY <2>1, <2>2, <2>3, <2>4 DEF PInv
<1>2. CASE (stage[p] = "claim" => Unused # {}) /\ late' = late \cup {s}
  <2>1. /\ stage' \in [Publishers -> {"idle", "claim", "publish", "mark", "retry"}]
        /\ claimed' \in [Publishers -> Claims] /\ deadline' \in [Publishers -> Nat]
        /\ stage'[p] = "idle"
        /\ \A q \in Publishers \ {p} :
             stage'[q] = stage[q] /\ claimed'[q] = claimed[q] /\ deadline'[q] = deadline[q]
        /\ Busy'
    BY RestKeepsOthers DEF PInv, Leave
  <2>2. /\ s \in Statements /\ s.token \in Tokens
        /\ s.kind # "claim" => s.event \in Events /\ s.attempts \in 1 .. MaxAttempts
        /\ s.kind = "mark" => sends[s.event] > 0
        /\ \A q \in Publishers \ {p} : stage[q] \in Holding => claimed[q].token # s.token
    <3>1. stage[p] \in {"claim", "publish", "mark", "retry"}
      BY DEF PInv, TypeOK, Leave
    <3>2. CASE stage[p] = "claim"
      BY <1>2, <3>2, FreshTokenUnused, PublisherAssumption
      DEF PInv, Busy, Statement, Statements, Holding, NoClaim
    <3>3. CASE stage[p] \in Holding
      BY <3>3, PublisherAssumption
      DEF PInv, Busy, Apart, MarksAreSent, Statement, Statements, Holding
    <3> QED BY <3>1, <3>2, <3>3 DEF Holding
  <2> HIDE DEF s
  <2>3. TypeOK' /\ Left'
    BY <1>2, <2>1, <2>2 DEF PInv, TypeOK, Left, Leave
  <2>4. Apart'
    <3> SUFFICES ASSUME NEW q \in Publishers, stage'[q] \in Holding
                 PROVE  /\ \A r \in Publishers : r # q => claimed'[r].token # claimed'[q].token
                        /\ \A t \in late' : t.token # claimed'[q].token
      BY DEF Apart, Holding
    <3>1. q # p /\ claimed'[q] = claimed[q] /\ stage[q] \in Holding /\ claimed[q].token # Nil
      BY <2>1, PublisherAssumption DEF PInv, Busy, Holding
    <3>2. claimed'[p] = NoClaim
      BY <2>1 DEF Busy, Holding
    <3> QED BY <1>2, <2>1, <2>2, <3>1, <3>2 DEF PInv, Apart, NoClaim
  <2>5. AttemptOwnsEvent'
    BY <2>1 DEF PInv, AttemptOwnsEvent, Leave, Holds
  <2>6. MarksAreSent'
    BY <1>2, <2>1, <2>2 DEF PInv, MarksAreSent, PublishedWasSent, Leave
  <2> QED BY <2>1, <2>3, <2>4, <2>5, <2>6 DEF PInv
<1> QED BY <1>1, <1>2 DEF Leave

-----------------------------------------------------------------------------
(* The other steps.                                                         *)

\* A new event takes nothing from anybody.
LEMMA CreateKeeps == ASSUME PInv, NEW e \in Events, Create(e) PROVE PInv'
<1>1. /\ rows' \in [Events -> Row]
      /\ \A f \in Events \ {e} : rows'[f] = rows[f]
      /\ rows[e].status = "absent" /\ rows'[e].status = "pending"
  BY DEF PInv, TypeOK, Create, Row
<1>2. /\ stage' = stage /\ claimed' = claimed /\ deadline' = deadline
      /\ late' = late /\ sends' = sends /\ faults' = faults
  BY DEF Create
<1>3. TypeOK' /\ Busy' /\ Left' /\ Apart'
  BY <1>1, <1>2 DEF PInv, TypeOK, Busy, Left, Apart
<1>4. AttemptOwnsEvent'
  BY <1>1, <1>2 DEF PInv, AttemptOwnsEvent, Holds, Busy, Holding
<1>5. MarksAreSent'
  BY <1>1, <1>2 DEF PInv, MarksAreSent, PublishedWasSent
<1> QED BY <1>3, <1>4, <1>5 DEF PInv

\* Polling begins an attempt with nothing claimed.
LEMMA PollKeeps == ASSUME PInv, NEW p \in Publishers, Poll(p) PROVE PInv'
<1>1. /\ rows' = rows /\ claimed' = claimed /\ late' = late
      /\ sends' = sends /\ faults' = faults
  BY DEF Poll
<1>2. /\ stage' \in [Publishers -> {"idle", "claim", "publish", "mark", "retry"}]
      /\ deadline' \in [Publishers -> Nat]
      /\ stage[p] = "idle" /\ stage'[p] = "claim" /\ deadline'[p] = Config[p].timeout
      /\ \A q \in Publishers \ {p} : stage'[q] = stage[q] /\ deadline'[q] = deadline[q]
  BY PublisherAssumption DEF PInv, TypeOK, Poll, Goto
<1>3. TypeOK' /\ Left'
  BY <1>1, <1>2 DEF PInv, TypeOK, Left
<1>4. Busy'
  <2> SUFFICES ASSUME NEW q \in Publishers
               PROVE  /\ stage'[q] \in Holding => claimed[q] \in [event : Events, token : Tokens,
                                                                 attempts : 1 .. MaxAttempts]
                      /\ stage'[q] \notin Holding => claimed[q] = NoClaim
                      /\ stage'[q] # "idle" => Accepts(Config[q]) /\ deadline'[q] <= Config[q].timeout
    BY <1>1 DEF Busy, Holding, Accepts, NoClaim
  <2>1. CASE q = p
    BY <1>2, <2>1, PublisherAssumption DEF PInv, Busy, Holding, Poll
  <2>2. CASE q # p
    BY <1>2, <2>2 DEF PInv, Busy
  <2> QED BY <2>1, <2>2
<1>5. Apart' /\ AttemptOwnsEvent'
  BY <1>1, <1>2 DEF PInv, Apart, AttemptOwnsEvent, Holds, Holding
<1>6. MarksAreSent'
  BY <1>1, <1>2 DEF PInv, MarksAreSent, PublishedWasSent
<1> QED BY <1>3, <1>4, <1>5, <1>6 DEF PInv

\* A claim takes an event that no attempt with time left owns, with a new token, for
\* longer than the attempt may last; or it finds none.
LEMMA ClaimKeeps == ASSUME PInv, NEW p \in Publishers, Claim(p) PROVE PInv'
<1>1. CASE \A e \in Events : ~Available(e)
  <2>1. Rest(p) /\ rows' = rows /\ late' = late /\ sends' = sends /\ faults' = faults
    BY <1>1 DEF Claim
  <2>2. /\ stage' \in [Publishers -> {"idle", "claim", "publish", "mark", "retry"}]
        /\ claimed' \in [Publishers -> Claims] /\ deadline' \in [Publishers -> Nat]
        /\ stage'[p] = "idle"
        /\ \A q \in Publishers \ {p} :
             stage'[q] = stage[q] /\ claimed'[q] = claimed[q] /\ deadline'[q] = deadline[q]
        /\ Busy' /\ Apart'
    BY <2>1, RestKeepsOthers DEF PInv
  <2>3. TypeOK' /\ Left'
    BY <2>1, <2>2 DEF PInv, TypeOK, Left
  <2>4. AttemptOwnsEvent'
    BY <2>1, <2>2 DEF PInv, AttemptOwnsEvent, Holds
  <2>5. MarksAreSent'
    BY <2>1, <2>2 DEF PInv, MarksAreSent, PublishedWasSent
  <2> QED BY <2>2, <2>3, <2>4, <2>5 DEF PInv
<1>2. ASSUME NEW e \in Events, Available(e), Unused # {}, Lease(e, p, FreshToken),
             claimed' = [claimed EXCEPT ![p] = [event |-> e, token |-> FreshToken,
                                                attempts |-> CountAttempt(e)]],
             Goto(p, "publish"), deadline' = deadline
      PROVE  PInv'
  <2> DEFINE claim == [event |-> e, token |-> FreshToken, attempts |-> CountAttempt(e)]
  <2>1. stage[p] = "claim" /\ late' = late /\ sends' = sends /\ faults' = faults
    BY DEF Claim
  <2>2. /\ FreshToken \in Tokens
        /\ \A q \in Publishers : claimed[q].token # FreshToken
        /\ \A s \in late : s.token # FreshToken
    BY <1>2, FreshTokenUnused
  <2>3. /\ rows' \in [Events -> Row]
        /\ CountAttempt(e) \in 1 .. MaxAttempts
        /\ rows'[e].token = FreshToken /\ rows'[e].lease = Config[p].lease
        /\ \A f \in Events : rows'[f].status = rows[f].status
        /\ \A q \in Publishers : stage[q] \in Holding /\ deadline[q] > 0 =>
             rows'[claimed[q].event] = rows[claimed[q].event]
    BY <1>2, <2>2, LeaseKeepsOthers DEF PInv
  <2>4. /\ claim \in [event : Events, token : Tokens, attempts : 1 .. MaxAttempts]
        /\ claim \in Claims /\ claim.event = e /\ claim.token = FreshToken
    BY <2>2, <2>3 DEF Claims
  <2>5. claimed' = [claimed EXCEPT ![p] = claim] /\ stage' = [stage EXCEPT ![p] = "publish"]
    BY <1>2 DEF Goto
  <2> HIDE DEF claim
  <2>6. /\ stage' \in [Publishers -> {"idle", "claim", "publish", "mark", "retry"}]
        /\ claimed' \in [Publishers -> Claims]
        /\ stage'[p] = "publish" /\ claimed'[p] = claim
        /\ \A q \in Publishers \ {p} : stage'[q] = stage[q] /\ claimed'[q] = claimed[q]
    BY <2>4, <2>5 DEF PInv, TypeOK
  <2>7. TypeOK' /\ Left'
    BY <1>2, <2>1, <2>3, <2>6 DEF PInv, TypeOK, Left
  <2>8. Busy'
    <3> SUFFICES ASSUME NEW q \in Publishers
                 PROVE  /\ stage'[q] \in Holding =>
                             claimed'[q] \in [event : Events, token : Tokens,
                                              attempts : 1 .. MaxAttempts]
                        /\ stage'[q] \notin Holding => claimed'[q] = NoClaim
                        /\ stage'[q] # "idle" =>
                             Accepts(Config[q]) /\ deadline'[q] <= Config[q].timeout
      BY DEF Busy, Holding, Accepts
    <3>1. CASE q = p
      BY <1>2, <2>1, <2>4, <2>6, <3>1 DEF PInv, Busy, Holding
    <3>2. CASE q # p
      BY <1>2, <2>6, <3>2 DEF PInv, Busy
    <3> QED BY <3>1, <3>2
  <2>9. Apart'
    BY <2>1, <2>2, <2>4, <2>6 DEF PInv, Apart, Holding
  <2>10. AttemptOwnsEvent'
    <3> SUFFICES ASSUME NEW q \in Publishers, stage'[q] \in Holding, deadline[q] > 0
                 PROVE  /\ Holds(claimed[q].event, claimed[q].token)'
                        /\ rows'[claimed'[q].event].lease > deadline[q]
      BY <1>2 DEF AttemptOwnsEvent, Holding
    <3>1. CASE q = p
      <4>1. deadline[p] <= Config[p].timeout /\ Config[p].timeout < Config[p].lease
        BY <2>1 DEF PInv, Busy, Accepts
      <4>2. /\ deadline[p] \in Nat /\ Config[p].timeout \in Nat /\ Config[p].lease \in Nat
        BY PublisherAssumption DEF PInv, TypeOK
      <4>3. deadline[p] < Config[p].lease
        BY <4>1, <4>2
      <4> QED BY <1>2, <2>3, <2>4, <2>6, <3>1, <4>2, <4>3 DEF Holds, Available
    <3>2. CASE q # p
      BY <2>3, <2>6, <3>2 DEF PInv, AttemptOwnsEvent, Holding, Holds
    <3> QED BY <3>1, <3>2
  <2>11. MarksAreSent'
    BY <2>1, <2>3, <2>6 DEF PInv, MarksAreSent, PublishedWasSent
  <2> QED BY <2>7, <2>8, <2>9, <2>10, <2>11 DEF PInv
<1> QED BY <1>1, <1>2 DEF Claim

\* The queue takes an event: nothing but the count of its sends changes.
LEMMA SentCounts ==
  ASSUME TypeOK, NEW e \in Events, Sent(e)
  PROVE  /\ sends' \in [Events -> Nat] /\ sends'[e] > 0
         /\ \A f \in Events : sends[f] > 0 => sends'[f] > 0
  BY DEF TypeOK, Sent

\* Publishing makes the event one that was sent, and the attempt goes on with its claim.
LEMMA PublishKeeps == ASSUME PInv, NEW p \in Publishers, Publish(p) PROVE PInv'
<1> DEFINE e == claimed[p].event
<1>1. e \in Events /\ stage[p] = "publish"
  BY DEF PInv, Busy, Publish, Holding
<1>2. /\ rows' = rows /\ claimed' = claimed /\ deadline' = deadline
      /\ late' = late /\ faults' = faults
  BY DEF Publish
<1>3. /\ sends' \in [Events -> Nat] /\ sends'[e] > 0
      /\ \A f \in Events : sends[f] > 0 => sends'[f] > 0
  <2>1. Sent(e)
    BY DEF Publish
  <2> HIDE DEF e
  <2> QED BY <1>1, <2>1, SentCounts DEF PInv
<1>4. /\ stage' \in [Publishers -> {"idle", "claim", "publish", "mark", "retry"}]
      /\ stage'[p] = "mark" /\ \A q \in Publishers \ {p} : stage'[q] = stage[q]
  BY DEF PInv, TypeOK, Publish, Goto
<1>5. TypeOK' /\ Left'
  BY <1>2, <1>3, <1>4 DEF PInv, TypeOK, Left
<1>6. Busy' /\ Apart'
  BY <1>1, <1>2, <1>4 DEF PInv, Busy, Apart, Holding
<1>7. AttemptOwnsEvent'
  BY <1>1, <1>2, <1>4 DEF PInv, AttemptOwnsEvent, Holds
<1>8. MarksAreSent'
  <2>1. PublishedWasSent'
    BY <1>2, <1>3 DEF PInv, MarksAreSent, PublishedWasSent
  <2>2. \A q \in Publishers : stage'[q] = "mark" => sends'[claimed'[q].event] > 0
    BY <1>2, <1>3, <1>4 DEF PInv, MarksAreSent, Busy, Holding
  <2>3. \A s \in late' : s.kind = "mark" => sends'[s.event] > 0
    BY <1>2, <1>3 DEF PInv, MarksAreSent, Left
  <2> QED BY <2>1, <2>2, <2>3 DEF MarksAreSent
<1> QED BY <1>5, <1>6, <1>7, <1>8 DEF PInv

\* A failed send keeps the claim of the attempt.
LEMMA PublishFailsKeeps == ASSUME PInv, NEW p \in Publishers, PublishFails(p) PROVE PInv'
<1> DEFINE e == claimed[p].event
<1>1. e \in Events /\ stage[p] = "publish"
  BY DEF PInv, Busy, PublishFails, Holding
<1>2. /\ rows' = rows /\ claimed' = claimed /\ deadline' = deadline
      /\ late' = late /\ faults' \in 0 .. MaxFaults
  BY PublisherAssumption DEF PInv, TypeOK, PublishFails, Fault
<1>3. sends' \in [Events -> Nat] /\ \A f \in Events : sends[f] > 0 => sends'[f] > 0
  <2>1. sends' = sends \/ Sent(e)
    BY DEF PublishFails
  <2> HIDE DEF e
  <2>2. CASE sends' = sends
    BY <2>2 DEF PInv, TypeOK
  <2>3. CASE Sent(e)
    BY <1>1, <2>3, SentCounts DEF PInv
  <2> QED BY <2>1, <2>2, <2>3
<1>4. /\ stage' \in [Publishers -> {"idle", "claim", "publish", "mark", "retry"}]
      /\ stage'[p] = "retry" /\ \A q \in Publishers \ {p} : stage'[q] = stage[q]
  BY DEF PInv, TypeOK, PublishFails, Goto
<1>5. TypeOK' /\ Left'
  BY <1>2, <1>3, <1>4 DEF PInv, TypeOK, Left
<1>6. Busy' /\ Apart'
  BY <1>1, <1>2, <1>4 DEF PInv, Busy, Apart, Holding
<1>7. AttemptOwnsEvent'
  BY <1>1, <1>2, <1>4 DEF PInv, AttemptOwnsEvent, Holds
<1>8. MarksAreSent'
  <2>1. PublishedWasSent'
    BY <1>2, <1>3 DEF PInv, MarksAreSent, PublishedWasSent
  <2>2. \A q \in Publishers : stage'[q] = "mark" => sends'[claimed'[q].event] > 0
    BY <1>2, <1>3, <1>4 DEF PInv, MarksAreSent, Busy, Holding
  <2>3. \A s \in late' : s.kind = "mark" => sends'[s.event] > 0
    BY <1>2, <1>3 DEF PInv, MarksAreSent, Left
  <2> QED BY <2>1, <2>2, <2>3 DEF MarksAreSent
<1> QED BY <1>5, <1>6, <1>7, <1>8 DEF PInv

\* A late statement has a token of its own: it takes no event from an attempt that has
\* time left, and marks only an event that was sent.
LEMMA ExecuteKeeps == ASSUME PInv, NEW s \in late, Execute(s) PROVE PInv'
<1>1. /\ stage' = stage /\ claimed' = claimed /\ deadline' = deadline /\ faults' = faults
      /\ late' \subseteq late
  BY DEF Execute
<1>2. /\ s \in Statements /\ s.token \in Tokens
      /\ s.kind # "claim" => s.event \in Events /\ s.attempts \in 1 .. MaxAttempts
      /\ s.kind = "mark" => sends[s.event] > 0
  BY DEF PInv, TypeOK, Left, MarksAreSent
<1>3. s.kind \in {"claim", "publish", "mark", "retry"} /\ s.by \in Publishers
  BY <1>2 DEF Statements
<1>4. \A q \in Publishers : stage[q] \in Holding => claimed[q].token # s.token
  BY DEF PInv, Apart
<1> DEFINE Kept == /\ rows' \in [Events -> Row] /\ sends' \in [Events -> Nat]
                   /\ \A f \in Events : sends[f] > 0 => sends'[f] > 0
                   /\ \A f \in Events : rows'[f].status = "published" => sends'[f] > 0
                   /\ \A q \in Publishers : stage[q] \in Holding /\ deadline[q] > 0 =>
                        rows'[claimed[q].event] = rows[claimed[q].event]
<1>5. ASSUME s.kind = "claim" PROVE Kept
  <2>1. sends' = sends
    BY <1>5 DEF Execute
  <2>2. CASE rows' = rows
    BY <2>1, <2>2 DEF PInv, TypeOK, MarksAreSent, PublishedWasSent
  <2>3. ASSUME NEW e \in Events, Available(e), Lease(e, s.by, s.token) PROVE Kept
    <3>1. /\ rows' \in [Events -> Row]
          /\ \A f \in Events : rows'[f].status = rows[f].status
          /\ \A q \in Publishers : stage[q] \in Holding /\ deadline[q] > 0 =>
               rows'[claimed[q].event] = rows[claimed[q].event]
      BY <1>2, <1>3, <2>3, LeaseKeepsOthers DEF PInv
    <3> QED BY <2>1, <3>1 DEF PInv, TypeOK, MarksAreSent, PublishedWasSent
  <2>4. rows' = rows \/ \E e \in Events : Available(e) /\ Lease(e, s.by, s.token)
    BY <1>5 DEF Execute
  <2> QED BY <2>2, <2>3, <2>4
<1>6. ASSUME s.kind = "publish" PROVE Kept
  <2>1. rows' = rows /\ Sent(s.event)
    BY <1>6 DEF Execute
  <2>2. sends' \in [Events -> Nat] /\ \A f \in Events : sends[f] > 0 => sends'[f] > 0
    BY <1>2, <1>6, <2>1, SentCounts DEF PInv
  <2> QED BY <2>1, <2>2 DEF PInv, TypeOK, MarksAreSent, PublishedWasSent
<1>7. ASSUME s.kind = "mark" PROVE Kept
  <2>1. SetPublished(s.event, s.token) /\ sends' = sends
    BY <1>7 DEF Execute
  <2>2. /\ rows' \in [Events -> Row]
        /\ \A f \in Events \ {s.event} : rows'[f] = rows[f]
        /\ \A q \in Publishers :
             stage[q] \in Holding /\ deadline[q] > 0 /\ claimed[q].token # s.token =>
               rows'[claimed[q].event] = rows[claimed[q].event]
    BY <1>2, <1>7, <2>1, SetPublishedKeepsOthers DEF PInv
  <2> QED BY <1>2, <1>4, <1>7, <2>1, <2>2 DEF PInv, TypeOK, MarksAreSent, PublishedWasSent
<1>8. ASSUME s.kind = "retry" PROVE Kept
  <2> DEFINE wait == Config[s.by].delay[s.attempts]
  <2>1. Reschedule(s.event, s.token, wait) /\ sends' = sends
    BY <1>8 DEF Execute
  <2>2. wait \in Nat
    BY <1>2, <1>3, <1>8, PublisherAssumption
  <2> HIDE DEF wait
  <2>3. /\ rows' \in [Events -> Row]
        /\ \A f \in Events : rows'[f].status = rows[f].status
        /\ \A q \in Publishers :
             stage[q] \in Holding /\ deadline[q] > 0 /\ claimed[q].token # s.token =>
               rows'[claimed[q].event] = rows[claimed[q].event]
    BY <1>2, <1>8, <2>1, <2>2, RescheduleKeepsOthers DEF PInv
  <2> QED BY <1>4, <2>1, <2>3 DEF PInv, TypeOK, MarksAreSent, PublishedWasSent
<1>9. Kept
  BY <1>3, <1>5, <1>6, <1>7, <1>8
<1> HIDE DEF Kept
<1>10. TypeOK' /\ Left'
  BY <1>1, <1>9 DEF Kept, PInv, TypeOK, Left
<1>11. Busy' /\ Apart'
  BY <1>1 DEF PInv, Busy, Apart
<1>12. AttemptOwnsEvent'
  BY <1>1, <1>9 DEF Kept, PInv, AttemptOwnsEvent, Holding, Holds
<1>13. MarksAreSent'
  <2>1. PublishedWasSent'
    BY <1>9 DEF Kept, PublishedWasSent
  <2>2. \A q \in Publishers : stage'[q] = "mark" => sends'[claimed'[q].event] > 0
    BY <1>1, <1>9 DEF Kept, PInv, MarksAreSent, Busy, Holding
  <2>3. \A t \in late' : t.kind = "mark" => sends'[t.event] > 0
    BY <1>1, <1>9 DEF Kept, PInv, MarksAreSent, Left
  <2> QED BY <2>1, <2>2, <2>3 DEF MarksAreSent
<1> QED BY <1>10, <1>11, <1>12, <1>13 DEF PInv

\* When time passes, the lease of an attempt and its deadline come nearer together.
LEMMA TickKeeps == ASSUME PInv, Tick PROVE PInv'
<1>1. stage' = stage /\ claimed' = claimed /\ late' = late /\ sends' = sends
  BY DEF Tick
<1>2. \A n \in Nat : CountDown(n) \in Nat /\ CountDown(n) <= n /\ (n > 0 => CountDown(n) = n - 1)
  BY DEF CountDown
<1>3. /\ deadline' \in [Publishers -> Nat]
      /\ \A p \in Publishers : deadline'[p] = CountDown(deadline[p])
  BY <1>2 DEF Tick, PInv, TypeOK
<1>4. /\ rows' \in [Events -> Row]
      /\ \A e \in Events : /\ rows'[e].status = rows[e].status
                           /\ rows'[e].token = rows[e].token
                           /\ rows'[e].lease = CountDown(rows[e].lease)
  <2> SUFFICES ASSUME NEW e \in Events
               PROVE  /\ rows'[e] \in Row
                      /\ rows'[e].status = rows[e].status
                      /\ rows'[e].token = rows[e].token
                      /\ rows'[e].lease = CountDown(rows[e].lease)
    BY DEF Tick
  <2>1. rows[e] \in Row
    BY DEF PInv, TypeOK
  <2>2. rows'[e] = [rows[e] EXCEPT !.wait = CountDown(rows[e].wait),
                                   !.lease = CountDown(rows[e].lease)]
    BY DEF Tick
  <2>3. CountDown(rows[e].wait) \in Nat /\ CountDown(rows[e].lease) \in Nat
    BY <1>2, <2>1 DEF Row
  <2> QED BY <2>1, <2>2, <2>3 DEF Row
<1>5. faults' \in 0 .. MaxFaults
  <2> DEFINE n == Cardinality(Overrun)
  <2>1. n \in Nat
    BY PublisherAssumption, FS_Subset, FS_CardinalityType DEF Overrun
  <2>2. faults' = faults + n /\ faults' <= MaxFaults
    BY DEF Tick
  <2> HIDE DEF n
  <2> QED BY <2>1, <2>2, PublisherAssumption DEF PInv, TypeOK
<1>6. TypeOK' /\ Left'
  BY <1>1, <1>3, <1>4, <1>5 DEF PInv, TypeOK, Left
<1>7. Busy' /\ Apart'
  <2>1. \A p \in Publishers : deadline[p] <= Config[p].timeout => deadline'[p] <= Config[p].timeout
    BY <1>2, <1>3, PublisherAssumption DEF PInv, TypeOK
  <2> QED BY <1>1, <2>1 DEF PInv, Busy, Apart
<1>8. AttemptOwnsEvent'
  <2> SUFFICES ASSUME NEW p \in Publishers, stage[p] \in Holding, deadline'[p] > 0
               PROVE  /\ Holds(claimed[p].event, claimed[p].token)'
                      /\ rows'[claimed[p].event].lease > deadline'[p]
    BY <1>1 DEF AttemptOwnsEvent, Holding
  <2> DEFINE e == claimed[p].event
  <2>1. e \in Events /\ deadline[p] \in Nat /\ rows[e].lease \in Nat
    BY DEF PInv, TypeOK, Busy, Row
  <2>2. deadline[p] > 0 /\ deadline'[p] = deadline[p] - 1
    BY <1>2, <1>3, <2>1
  <2>3. Holds(e, claimed[p].token) /\ rows[e].lease > deadline[p]
    BY <2>2 DEF PInv, AttemptOwnsEvent, Holding
  <2>4. rows'[e].lease = rows[e].lease - 1
    BY <1>2, <1>4, <2>1, <2>2, <2>3
  <2> HIDE DEF e
  <2> QED BY <1>1, <1>4, <2>1, <2>2, <2>3, <2>4 DEF Holds, e
<1>9. MarksAreSent'
  BY <1>1, <1>4 DEF PInv, MarksAreSent, PublishedWasSent
<1> QED BY <1>6, <1>7, <1>8, <1>9 DEF PInv

-----------------------------------------------------------------------------
(* Theorems.                                                                *)

\* Every step keeps the inductive invariant.
LEMMA StepKeeps == PInv /\ [Next]_vars => PInv'
<1> SUFFICES ASSUME PInv, [Next]_vars PROVE PInv' OBVIOUS
<1>1. ASSUME NEW e \in Events, Create(e) PROVE PInv'
  BY <1>1, CreateKeeps
<1>2. ASSUME NEW p \in Publishers, Poll(p) PROVE PInv'
  BY <1>2, PollKeeps
<1>3. ASSUME NEW p \in Publishers, Claim(p) PROVE PInv'
  BY <1>3, ClaimKeeps
<1>4. ASSUME NEW p \in Publishers, Publish(p) PROVE PInv'
  BY <1>4, PublishKeeps
<1>5. ASSUME NEW p \in Publishers, MarkPublished(p) PROVE PInv'
  BY <1>5, MarkKeeps
<1>6. ASSUME NEW p \in Publishers, Retry(p) PROVE PInv'
  BY <1>6, RetryKeeps
<1>7. ASSUME NEW p \in Publishers, Expire(p) PROVE PInv'
  <2>1. Leave(p) /\ faults' \in 0 .. MaxFaults
    BY <1>7 DEF PInv, TypeOK, Expire
  <2> QED BY <2>1, LeaveKeeps
<1>8. ASSUME NEW p \in Publishers, Crash(p) PROVE PInv'
  <2>1. Leave(p) /\ faults' \in 0 .. MaxFaults
    BY <1>8, PublisherAssumption DEF PInv, TypeOK, Crash, Fault
  <2> QED BY <2>1, LeaveKeeps
<1>9. ASSUME NEW p \in Publishers, PublishFails(p) PROVE PInv'
  BY <1>9, PublishFailsKeeps
<1>10. ASSUME NEW s \in late, Execute(s) PROVE PInv'
  BY <1>10, ExecuteKeeps
<1>11. CASE Tick
  BY <1>11, TickKeeps
<1>12. CASE UNCHANGED vars
  BY <1>12 DEF vars, PInv, TypeOK, Busy, Left, Apart, AttemptOwnsEvent, Holds, MarksAreSent,
               PublishedWasSent
<1> QED BY <1>1, <1>2, <1>3, <1>4, <1>5, <1>6, <1>7, <1>8, <1>9, <1>10, <1>11, <1>12
        DEF Next, PublisherStep

\* The inductive invariant holds always.
THEOREM Invariance == Spec => []PInv
BY InitKeeps, StepKeeps, PTL DEF Spec

\* The column attempts and all the timers stay within their types.
THEOREM PublisherTypes == Spec => []TypeOK
<1>1. PInv => TypeOK
  BY DEF PInv
<1> QED BY <1>1, Invariance, PTL

\* An attempt that has time left owns its event, whatever the number of instances, their
\* configurations, and the statements of dead attempts.
THEOREM OwnersAreAlone == Spec => []AttemptOwnsEvent
<1>1. PInv => AttemptOwnsEvent
  BY DEF PInv
<1> QED BY <1>1, Invariance, PTL

\* No event is marked as published without having been sent.
THEOREM NothingIsLost == Spec => []PublishedWasSent
<1>1. PInv => PublishedWasSent
  BY DEF PInv, MarksAreSent
<1> QED BY <1>1, Invariance, PTL

-----------------------------------------------------------------------------
(* Duplicates.                                                              *)

\* Sends that may still come without their attempt: those of statements that were left,
\* and of attempts that are over.
Unsent == {s \in late : s.kind = "publish"}

Overdue == {p \in Publishers : stage[p] = "publish" /\ deadline[p] = 0}

\* Sends that are accounted for: of events that are published, or that their owner is
\* about to mark.
Published == {e \in Events : rows[e].status = "published"}

Marking == {p \in Publishers : stage[p] = "mark" /\ deadline[p] > 0}

\* Every send that was made or may still come belongs to an event that is published or
\* about to be, or has a fault of its own.
SendsExplained ==
  /\ IsFiniteSet(late)
  /\ SumOver(sends, Events) + Cardinality(Unsent) + Cardinality(Overdue)
       <= Cardinality(Published) + Cardinality(Marking) + faults

\* The sets are finite and the sum is an integer.
LEMMA CountsDefined ==
  ASSUME TypeOK, IsFiniteSet(late)
  PROVE  /\ IsFiniteSet(Unsent) /\ IsFiniteSet(Overdue)
         /\ IsFiniteSet(Published) /\ IsFiniteSet(Marking)
         /\ Cardinality(Unsent) \in Nat /\ Cardinality(Overdue) \in Nat
         /\ Cardinality(Published) \in Nat /\ Cardinality(Marking) \in Nat
         /\ SumOver(sends, Events) \in Int /\ faults \in Nat
<1>1. /\ Unsent \in SUBSET late /\ Overdue \in SUBSET Publishers
      /\ Published \in SUBSET Events /\ Marking \in SUBSET Publishers
  BY DEF Unsent, Overdue, Published, Marking
<1>2. IsFiniteSet(Publishers) /\ IsFiniteSet(Events)
  BY PublisherAssumption
<1>3. /\ IsFiniteSet(Unsent) /\ IsFiniteSet(Overdue)
      /\ IsFiniteSet(Published) /\ IsFiniteSet(Marking)
  BY <1>1, <1>2, FS_Subset
<1>4. SumOver(sends, Events) \in Int
  <2>1. \A e \in Events : sends[e] \in Int
    BY DEF TypeOK
  <2> QED BY <1>2, <2>1, SumInt
<1>5. faults \in Nat
  BY PublisherAssumption DEF TypeOK
<1> QED BY <1>3, <1>4, <1>5, FS_CardinalityType

\* A step keeps the balance if it adds no more sends than marks and faults.
LEMMA Balance ==
  ASSUME PInv, PInv', SendsExplained, IsFiniteSet(late'),
         NEW a \in Int, NEW b \in Int, NEW c \in Int, NEW d \in Int, NEW m \in Int, NEW f \in Int,
         SumOver(sends', Events) <= SumOver(sends, Events) + a,
         Cardinality(Unsent') <= Cardinality(Unsent) + b,
         Cardinality(Overdue') <= Cardinality(Overdue) + c,
         Cardinality(Published) + d <= Cardinality(Published'),
         Cardinality(Marking) + m <= Cardinality(Marking'),
         faults' = faults + f, a + b + c <= d + m + f
  PROVE  SendsExplained'
<1>1. /\ Cardinality(Unsent) \in Nat /\ Cardinality(Overdue) \in Nat
      /\ Cardinality(Published) \in Nat /\ Cardinality(Marking) \in Nat
      /\ SumOver(sends, Events) \in Int /\ faults \in Nat
  BY CountsDefined DEF PInv, SendsExplained
<1>2. /\ Cardinality(Unsent') \in Nat /\ Cardinality(Overdue') \in Nat
      /\ Cardinality(Published') \in Nat /\ Cardinality(Marking') \in Nat
      /\ SumOver(sends', Events) \in Int
  <2>1. TypeOK'
    BY DEF PInv
  <2>2. \A e \in Events : sends'[e] \in Int
    BY <2>1 DEF TypeOK
  <2>3. IsFiniteSet(Publishers) /\ IsFiniteSet(Events)
    BY PublisherAssumption
  <2>4. /\ Unsent' \in SUBSET late' /\ Overdue' \in SUBSET Publishers
        /\ Published' \in SUBSET Events /\ Marking' \in SUBSET Publishers
    BY DEF Unsent, Overdue, Published, Marking
  <2>5. SumOver(sends', Events) \in Int
    BY <2>2, <2>3, SumInt
  <2> QED BY <2>3, <2>4, <2>5, FS_Subset, FS_CardinalityType
<1>3. SumOver(sends, Events) + Cardinality(Unsent) + Cardinality(Overdue)
        <= Cardinality(Published) + Cardinality(Marking) + faults
  BY DEF SendsExplained
<1>4. SumOver(sends', Events) + Cardinality(Unsent') + Cardinality(Overdue')
        <= Cardinality(Published') + Cardinality(Marking') + faults'
  BY <1>1, <1>2, <1>3
<1> QED BY <1>4 DEF SendsExplained

\* How a set of the accounts may change: by nothing, by one more, or by one less.
LEMMA Changes ==
  ASSUME PInv, PInv', IsFiniteSet(late), IsFiniteSet(late')
  PROVE  /\ Unsent' \subseteq Unsent => Cardinality(Unsent') <= Cardinality(Unsent) + 0
         /\ \A s : Unsent' \subseteq Unsent \cup {s} => Cardinality(Unsent') <= Cardinality(Unsent) + 1
         /\ \A s \in Unsent : Unsent' \subseteq Unsent \ {s} =>
              Cardinality(Unsent') <= Cardinality(Unsent) + (-1)
         /\ Overdue' \subseteq Overdue => Cardinality(Overdue') <= Cardinality(Overdue) + 0
         /\ \A p \in Overdue : Overdue' \subseteq Overdue \ {p} =>
              Cardinality(Overdue') <= Cardinality(Overdue) + (-1)
         /\ Published \subseteq Published' => Cardinality(Published) + 0 <= Cardinality(Published')
         /\ \A e : e \notin Published /\ Published \cup {e} \subseteq Published' =>
              Cardinality(Published) + 1 <= Cardinality(Published')
         /\ Marking \subseteq Marking' => Cardinality(Marking) + 0 <= Cardinality(Marking')
         /\ \A p : p \notin Marking /\ Marking \cup {p} \subseteq Marking' =>
              Cardinality(Marking) + 1 <= Cardinality(Marking')
         /\ \A p : Marking \ {p} \subseteq Marking' => Cardinality(Marking) + (-1) <= Cardinality(Marking')
<1>1. /\ IsFiniteSet(Unsent) /\ IsFiniteSet(Overdue)
      /\ IsFiniteSet(Published) /\ IsFiniteSet(Marking)
      /\ Cardinality(Unsent) \in Nat /\ Cardinality(Overdue) \in Nat
      /\ Cardinality(Published) \in Nat /\ Cardinality(Marking) \in Nat
  BY CountsDefined DEF PInv
<1>2. IsFiniteSet(Published') /\ IsFiniteSet(Marking')
  <2>1. Published' \in SUBSET Events /\ Marking' \in SUBSET Publishers
    BY DEF Published, Marking
  <2> QED BY <2>1, PublisherAssumption, FS_Subset
<1>3. /\ Unsent' \subseteq Unsent => Cardinality(Unsent') <= Cardinality(Unsent)
      /\ \A s : Unsent' \subseteq Unsent \cup {s} => Cardinality(Unsent') <= Cardinality(Unsent) + 1
      /\ \A s \in Unsent : Unsent' \subseteq Unsent \ {s} =>
           Cardinality(Unsent') <= Cardinality(Unsent) - 1
  BY <1>1, CountUpTo
<1>4. /\ Overdue' \subseteq Overdue => Cardinality(Overdue') <= Cardinality(Overdue)
      /\ \A p \in Overdue : Overdue' \subseteq Overdue \ {p} =>
           Cardinality(Overdue') <= Cardinality(Overdue) - 1
  BY <1>1, CountUpTo
<1>5. /\ Published \subseteq Published' => Cardinality(Published) <= Cardinality(Published')
      /\ \A e : e \notin Published /\ Published \cup {e} \subseteq Published' =>
           Cardinality(Published) + 1 <= Cardinality(Published')
  BY <1>1, <1>2, CountFrom
<1>6. /\ Marking \subseteq Marking' => Cardinality(Marking) <= Cardinality(Marking')
      /\ \A p : p \notin Marking /\ Marking \cup {p} \subseteq Marking' =>
           Cardinality(Marking) + 1 <= Cardinality(Marking')
      /\ \A p : Marking \ {p} \subseteq Marking' => Cardinality(Marking) - 1 <= Cardinality(Marking')
  BY <1>1, <1>2, CountFrom
<1>7. \A n \in Nat : n + 0 = n /\ n + (-1) = n - 1
  OBVIOUS
<1> QED BY <1>1, <1>3, <1>4, <1>5, <1>6, <1>7

\* A step that sends nothing, leaves no statement behind and takes nothing back.
LEMMA NothingSent ==
  ASSUME PInv, PInv', SendsExplained, sends' = sends, late' \subseteq late, faults' = faults,
         Overdue' \subseteq Overdue, Published \subseteq Published', Marking \subseteq Marking'
  PROVE  SendsExplained'
<1>1. IsFiniteSet(late) /\ IsFiniteSet(late') /\ Unsent' \subseteq Unsent
  BY FS_Subset DEF SendsExplained, Unsent
<1>2. /\ Cardinality(Unsent') <= Cardinality(Unsent) + 0
      /\ Cardinality(Overdue') <= Cardinality(Overdue) + 0
      /\ Cardinality(Published) + 0 <= Cardinality(Published')
      /\ Cardinality(Marking) + 0 <= Cardinality(Marking')
  BY <1>1, Changes
<1>3. SumOver(sends', Events) <= SumOver(sends, Events) + 0 /\ faults' = faults + 0
  BY CountsDefined DEF PInv, SendsExplained
<1> QED BY <1>1, <1>2, <1>3, Balance

\* The queue takes an event: the sum grows by one.
LEMMA SentAdds ==
  ASSUME TypeOK, NEW e \in Events, Sent(e)
  PROVE  SumOver(sends', Events) <= SumOver(sends, Events) + 1
<1>1. /\ \A f \in Events : sends[f] \in Int /\ sends'[f] \in Int
      /\ \A f \in Events \ {e} : sends'[f] = sends[f]
      /\ sends'[e] = sends[e] + 1
  BY DEF TypeOK, Sent
<1>2. SumOver(sends', Events) = SumOver(sends, Events) + sends'[e] - sends[e]
  BY <1>1, PublisherAssumption, SumChange
<1>3. SumOver(sends, Events) \in Int /\ sends[e] \in Int
  BY <1>1, PublisherAssumption, SumInt
<1> QED BY <1>1, <1>2, <1>3

\* A successful send is that of the event its owner is about to mark.
LEMMA PublishExplained ==
  ASSUME PInv, PInv', SendsExplained, NEW p \in Publishers, Publish(p)
  PROVE  SendsExplained'
<1>1. claimed[p].event \in Events /\ stage[p] = "publish" /\ deadline[p] > 0
  BY DEF PInv, Busy, Publish, Holding
<1>2. /\ rows' = rows /\ deadline' = deadline /\ late' = late /\ faults' = faults
      /\ Sent(claimed[p].event)
  BY DEF Publish
<1>3. stage'[p] = "mark" /\ \A q \in Publishers \ {p} : stage'[q] = stage[q]
  BY DEF PInv, TypeOK, Publish, Goto
<1>4. IsFiniteSet(late) /\ IsFiniteSet(late') /\ Unsent' \subseteq Unsent
  BY <1>2 DEF SendsExplained, Unsent
<1>5. Overdue' \subseteq Overdue
  BY <1>1, <1>2, <1>3 DEF Overdue
<1>6. Published \subseteq Published'
  BY <1>2 DEF Published
<1>7. p \notin Marking /\ Marking \cup {p} \subseteq Marking'
  BY <1>1, <1>2, <1>3 DEF Marking
<1>8. /\ Cardinality(Unsent') <= Cardinality(Unsent) + 0
      /\ Cardinality(Overdue') <= Cardinality(Overdue) + 0
      /\ Cardinality(Published) + 0 <= Cardinality(Published')
      /\ Cardinality(Marking) + 1 <= Cardinality(Marking')
  BY <1>4, <1>5, <1>6, <1>7, Changes
<1>9. SumOver(sends', Events) <= SumOver(sends, Events) + 1
  BY <1>1, <1>2, SentAdds DEF PInv
<1>10. faults' = faults + 0
  BY <1>2, CountsDefined DEF PInv, SendsExplained
<1> QED BY <1>4, <1>8, <1>9, <1>10, Balance

\* A send that fails has its fault.
LEMMA PublishFailsExplained ==
  ASSUME PInv, PInv', SendsExplained, NEW p \in Publishers, PublishFails(p)
  PROVE  SendsExplained'
<1>1. claimed[p].event \in Events /\ stage[p] = "publish" /\ deadline[p] > 0
  BY DEF PInv, Busy, PublishFails, Holding
<1>2. /\ rows' = rows /\ deadline' = deadline /\ late' = late /\ faults' = faults + 1
      /\ sends' = sends \/ Sent(claimed[p].event)
  BY DEF PublishFails, Fault
<1>3. stage'[p] = "retry" /\ \A q \in Publishers \ {p} : stage'[q] = stage[q]
  BY DEF PInv, TypeOK, PublishFails, Goto
<1>4. IsFiniteSet(late) /\ IsFiniteSet(late') /\ Unsent' \subseteq Unsent
  BY <1>2 DEF SendsExplained, Unsent
<1>5. Overdue' \subseteq Overdue
  BY <1>1, <1>2, <1>3 DEF Overdue
<1>6. Published \subseteq Published'
  BY <1>2 DEF Published
<1>7. Marking \subseteq Marking'
  BY <1>1, <1>2, <1>3 DEF Marking
<1>8. /\ Cardinality(Unsent') <= Cardinality(Unsent) + 0
      /\ Cardinality(Overdue') <= Cardinality(Overdue) + 0
      /\ Cardinality(Published) + 0 <= Cardinality(Published')
      /\ Cardinality(Marking) + 0 <= Cardinality(Marking')
  BY <1>4, <1>5, <1>6, <1>7, Changes
<1>9. SumOver(sends', Events) <= SumOver(sends, Events) + 1
  <2>1. CASE sends' = sends
    <3>1. SumOver(sends, Events) \in Int
      BY CountsDefined DEF PInv, SendsExplained
    <3> QED BY <2>1, <3>1
  <2>2. CASE Sent(claimed[p].event)
    BY <1>1, <2>2, SentAdds DEF PInv
  <2> QED BY <1>2, <2>1, <2>2
<1> QED BY <1>2, <1>4, <1>8, <1>9, Balance

\* The owner marks its event: it takes its place among the published ones.
LEMMA MarkExplained ==
  ASSUME PInv, PInv', SendsExplained, NEW p \in Publishers, MarkPublished(p)
  PROVE  SendsExplained'
<1> DEFINE e == claimed[p].event
           k == claimed[p].token
<1>1. e \in Events /\ stage[p] = "mark" /\ deadline[p] > 0 /\ Holds(e, k)
  BY DEF PInv, Busy, AttemptOwnsEvent, MarkPublished, Holding
<1>2. /\ SetPublished(e, k) /\ late' = late /\ sends' = sends /\ faults' = faults /\ Rest(p)
  BY DEF MarkPublished
<1> HIDE DEF e, k
<1>3. /\ stage'[p] = "idle" /\ \A q \in Publishers \ {p} : stage'[q] = stage[q] /\ deadline'[q] = deadline[q]
  BY <1>2, RestKeepsOthers DEF PInv
<1>4. rows'[e].status = "published" /\ \A f \in Events \ {e} : rows'[f] = rows[f]
  <2> DEFINE row == [rows[e] EXCEPT !.status = "published", !.lease = 0, !.token = Nil]
  <2>1. rows[e] \in Row
    BY <1>1 DEF PInv, TypeOK
  <2>2. row.status = "published"
    BY <2>1 DEF Row
  <2> HIDE DEF row
  <2>3. rows' = [rows EXCEPT ![e] = row]
    BY <1>1, <1>2 DEF SetPublished, row
  <2> QED BY <1>1, <2>2, <2>3 DEF PInv, TypeOK
<1>5. IsFiniteSet(late) /\ IsFiniteSet(late') /\ Unsent' \subseteq Unsent
  BY <1>2 DEF SendsExplained, Unsent
<1>6. Overdue' \subseteq Overdue
  BY <1>3 DEF Overdue
<1>7. e \notin Published /\ Published \cup {e} \subseteq Published'
  BY <1>1, <1>4 DEF Published, Holds
<1>8. Marking \ {p} \subseteq Marking'
  BY <1>3 DEF Marking
<1>9. /\ Cardinality(Unsent') <= Cardinality(Unsent) + 0
      /\ Cardinality(Overdue') <= Cardinality(Overdue) + 0
      /\ Cardinality(Published) + 1 <= Cardinality(Published')
      /\ Cardinality(Marking) + (-1) <= Cardinality(Marking')
  BY <1>5, <1>6, <1>7, <1>8, Changes
<1>10. SumOver(sends', Events) <= SumOver(sends, Events) + 0 /\ faults' = faults + 0
  BY <1>2, CountsDefined DEF PInv, SendsExplained
<1> QED BY <1>5, <1>9, <1>10, Balance

\* An attempt that ends may leave its send behind: one that was overdue if its context
\* has ended, and one with a fault if its process has.
LEMMA LeaveExplained ==
  ASSUME PInv, PInv', SendsExplained, NEW p \in Publishers, Leave(p),
         \/ deadline[p] = 0 /\ faults' = faults
         \/ faults' = faults + 1
  PROVE  SendsExplained'
<1>1. stage[p] # "idle" /\ rows' = rows /\ sends' = sends /\ Rest(p)
  BY DEF Leave
<1>2. /\ stage'[p] = "idle"
      /\ \A q \in Publishers \ {p} : stage'[q] = stage[q] /\ deadline'[q] = deadline[q]
  BY <1>1, RestKeepsOthers DEF PInv
<1>3. late' = late \/ late' = late \cup {Statement(p)}
  BY DEF Leave
<1>4. IsFiniteSet(late) /\ IsFiniteSet(late')
  BY <1>3, FS_AddElement DEF SendsExplained
<1>5. /\ Unsent' \subseteq Unsent \cup {Statement(p)}
      /\ stage[p] # "publish" => Unsent' \subseteq Unsent
  <2>1. Statement(p).kind = stage[p]
    BY DEF Statement
  <2> QED BY <1>3, <2>1 DEF Unsent
<1>6. /\ Overdue' \subseteq Overdue
      /\ stage[p] = "publish" /\ deadline[p] = 0 => p \in Overdue /\ Overdue' \subseteq Overdue \ {p}
  BY <1>2 DEF Overdue
<1>7. Published \subseteq Published'
  BY <1>1 DEF Published
<1>8. /\ Marking \ {p} \subseteq Marking'
      /\ stage[p] = "publish" \/ deadline[p] = 0 => Marking \subseteq Marking'
  BY <1>2 DEF Marking
<1>9. Cardinality(Published) + 0 <= Cardinality(Published')
  BY <1>4, <1>7, Changes
<1>10. SumOver(sends', Events) <= SumOver(sends, Events) + 0
  BY <1>1, CountsDefined DEF PInv, SendsExplained
<1>11. deadline[p] = 0 /\ faults' = faults => faults' = faults + 0
  BY CountsDefined DEF PInv, SendsExplained
<1>12. CASE deadline[p] = 0 /\ faults' = faults /\ stage[p] = "publish"
  <2>1. /\ Cardinality(Unsent') <= Cardinality(Unsent) + 1
        /\ Cardinality(Overdue') <= Cardinality(Overdue) + (-1)
        /\ Cardinality(Marking) + 0 <= Cardinality(Marking')
    BY <1>4, <1>5, <1>6, <1>8, <1>12, Changes
  <2> QED BY <1>4, <1>9, <1>10, <1>11, <1>12, <2>1, Balance
<1>13. CASE deadline[p] = 0 /\ faults' = faults /\ stage[p] # "publish"
  <2>1. /\ Cardinality(Unsent') <= Cardinality(Unsent) + 0
        /\ Cardinality(Overdue') <= Cardinality(Overdue) + 0
        /\ Cardinality(Marking) + 0 <= Cardinality(Marking')
    BY <1>4, <1>5, <1>6, <1>8, <1>13, Changes
  <2> QED BY <1>4, <1>9, <1>10, <1>11, <1>13, <2>1, Balance
<1>14. CASE faults' = faults + 1 /\ stage[p] = "publish"
  <2>1. /\ Cardinality(Unsent') <= Cardinality(Unsent) + 1
        /\ Cardinality(Overdue') <= Cardinality(Overdue) + 0
        /\ Cardinality(Marking) + 0 <= Cardinality(Marking')
    BY <1>4, <1>5, <1>6, <1>8, <1>14, Changes
  <2> QED BY <1>4, <1>9, <1>10, <1>14, <2>1, Balance
<1>15. CASE faults' = faults + 1 /\ stage[p] # "publish"
  <2>1. /\ Cardinality(Unsent') <= Cardinality(Unsent) + 0
        /\ Cardinality(Overdue') <= Cardinality(Overdue) + 0
        /\ Cardinality(Marking) + (-1) <= Cardinality(Marking')
    BY <1>4, <1>5, <1>6, <1>8, <1>15, Changes
  <2> QED BY <1>4, <1>9, <1>10, <1>15, <2>1, Balance
<1> QED BY <1>12, <1>13, <1>14, <1>15

\* A statement that was left is executed: its send was one that might still come.
LEMMA ExecuteExplained ==
  ASSUME PInv, PInv', SendsExplained, NEW s \in late, Execute(s)
  PROVE  SendsExplained'
<1>1. /\ stage' = stage /\ deadline' = deadline /\ faults' = faults /\ late' = late \ {s}
  BY DEF Execute
<1>2. /\ s.kind \in {"claim", "publish", "mark", "retry"}
      /\ s.kind = "publish" => s.event \in Events
  BY DEF PInv, TypeOK, Left, Statements
<1>3. Overdue' \subseteq Overdue /\ Marking \subseteq Marking'
  BY <1>1 DEF Overdue, Marking
<1>4. CASE s.kind = "publish"
  <2>1. rows' = rows /\ Sent(s.event)
    BY <1>4 DEF Execute
  <2>2. IsFiniteSet(late) /\ IsFiniteSet(late')
    BY <1>1, FS_RemoveElement DEF SendsExplained
  <2>3. s \in Unsent /\ Unsent' \subseteq Unsent \ {s}
    BY <1>1, <1>4 DEF Unsent
  <2>4. Published \subseteq Published'
    BY <2>1 DEF Published
  <2>5. /\ Cardinality(Unsent') <= Cardinality(Unsent) + (-1)
        /\ Cardinality(Overdue') <= Cardinality(Overdue) + 0
        /\ Cardinality(Published) + 0 <= Cardinality(Published')
        /\ Cardinality(Marking) + 0 <= Cardinality(Marking')
    BY <1>3, <2>2, <2>3, <2>4, Changes
  <2>6. SumOver(sends', Events) <= SumOver(sends, Events) + 1
    BY <1>2, <1>4, <2>1, SentAdds DEF PInv
  <2>7. faults' = faults + 0
    BY <1>1, CountsDefined DEF PInv, SendsExplained
  <2> QED BY <2>2, <2>5, <2>6, <2>7, Balance
<1>5. CASE s.kind # "publish"
  <2>1. sends' = sends
    BY <1>2, <1>5 DEF Execute
  <2>2. Published \subseteq Published'
    <3> SUFFICES ASSUME NEW e \in Events, rows[e].status = "published"
                 PROVE  rows'[e].status = "published"
      BY DEF Published
    <3>1. rows[e].status # "pending" /\ rows \in [Events -> Row]
      BY DEF PInv, TypeOK
    <3>2. CASE rows' = rows
      BY <3>2
    <3>3. CASE \E f \in Events \ {e} : \E r : rows' = [rows EXCEPT ![f] = r]
      BY <3>1, <3>3
    <3>4. rows' = rows \/ \E f \in Events \ {e} : \E r : rows' = [rows EXCEPT ![f] = r]
      <4>1. CASE s.kind = "claim"
        <5>1. rows' = rows \/ \E f \in Events : Available(f) /\ Lease(f, s.by, s.token)
          BY <4>1 DEF Execute
        <5> QED BY <3>1, <5>1 DEF Available, Lease
      <4>2. CASE s.kind = "mark"
        <5>1. SetPublished(s.event, s.token) /\ s.event \in Events
          BY <4>2 DEF Execute, PInv, Left
        <5> QED BY <3>1, <5>1 DEF SetPublished, Holds
      <4>3. CASE s.kind = "retry"
        <5>1. s.event \in Events /\ Reschedule(s.event, s.token, Config[s.by].delay[s.attempts])
          BY <4>3 DEF Execute, PInv, Left
        <5> QED BY <3>1, <5>1 DEF Reschedule, Holds
      <4> QED BY <1>2, <1>5, <4>1, <4>2, <4>3
    <3> QED BY <3>2, <3>3, <3>4
  <2>3. late' \subseteq late
    BY <1>1
  <2> QED BY <1>1, <1>3, <2>1, <2>2, <2>3, NothingSent
<1> QED BY <1>4, <1>5

\* Whoever runs out of time has a fault: its send may still come, or its mark is lost.
LEMMA TickExplained ==
  ASSUME PInv, PInv', SendsExplained, Tick
  PROVE  SendsExplained'
<1> DEFINE due == {p \in Overrun : stage[p] = "publish"}
           lost == {p \in Overrun : stage[p] = "mark"}
<1>1. /\ stage' = stage /\ late' = late /\ sends' = sends
      /\ faults' = faults + Cardinality(Overrun)
      /\ \A p \in Publishers : deadline'[p] = CountDown(deadline[p])
      /\ \A e \in Events : rows'[e].status = rows[e].status
  <2>1. ASSUME NEW e \in Events PROVE rows'[e].status = rows[e].status
    <3>1. rows[e] \in Row
      BY DEF PInv, TypeOK
    <3>2. rows'[e] = [rows[e] EXCEPT !.wait = CountDown(rows[e].wait),
                                     !.lease = CountDown(rows[e].lease)]
      BY DEF Tick
    <3> QED BY <3>1, <3>2 DEF Row
  <2> QED BY <2>1 DEF Tick
<1>2. \A p \in Publishers : /\ deadline[p] \in Nat
                            /\ deadline'[p] = 0 => deadline[p] = 0 \/ deadline[p] = 1
                            /\ deadline'[p] \in Nat
  BY <1>1 DEF PInv, TypeOK, CountDown
<1>3. IsFiniteSet(due) /\ IsFiniteSet(lost) /\ IsFiniteSet(Overrun)
  BY PublisherAssumption, FS_Subset DEF Overrun
<1>4. Cardinality(due) + Cardinality(lost) <= Cardinality(Overrun)
  <2>1. /\ due \cap lost = {} /\ due \cup lost \in SUBSET Overrun
    OBVIOUS
  <2>2. Cardinality(due \cup lost) = Cardinality(due) + Cardinality(lost) - Cardinality(due \cap lost)
    BY <1>3, FS_Union
  <2>3. Cardinality(due \cap lost) = 0
    BY <2>1, FS_EmptySet
  <2>4. Cardinality(due \cup lost) <= Cardinality(Overrun)
    BY <1>3, <2>1, FS_Subset
  <2>5. Cardinality(due) \in Nat /\ Cardinality(lost) \in Nat /\ Cardinality(Overrun) \in Nat
    BY <1>3, FS_CardinalityType
  <2> HIDE DEF due, lost
  <2> QED BY <2>2, <2>3, <2>4, <2>5
<1>5. Overdue' \subseteq Overdue \cup due
  BY <1>1, <1>2 DEF Overdue, Overrun
<1>6. Marking \subseteq Marking' \cup lost
  BY <1>1, <1>2 DEF Marking, Overrun
<1>7. Unsent' \subseteq Unsent /\ Published \subseteq Published'
  BY <1>1 DEF Unsent, Published
<1>8. IsFiniteSet(late) /\ IsFiniteSet(late')
  BY <1>1 DEF SendsExplained
<1> HIDE DEF due, lost
<1>9. /\ Cardinality(due) \in Nat /\ Cardinality(lost) \in Nat /\ Cardinality(Overrun) \in Nat
  BY <1>3, FS_CardinalityType
<1>10. IsFiniteSet(Overdue) /\ IsFiniteSet(Marking) /\ IsFiniteSet(Marking') /\ IsFiniteSet(Overdue')
  <2>1. /\ Overdue \in SUBSET Publishers /\ Overdue' \in SUBSET Publishers
        /\ Marking \in SUBSET Publishers /\ Marking' \in SUBSET Publishers
    BY DEF Overdue, Marking
  <2> QED BY <2>1, PublisherAssumption, FS_Subset
<1>11. /\ Cardinality(Overdue) \in Nat /\ Cardinality(Marking) \in Nat
       /\ Cardinality(Overdue') \in Nat /\ Cardinality(Marking') \in Nat
  BY <1>10, FS_CardinalityType
<1>12. ASSUME NEW S, NEW T, NEW U, IsFiniteSet(S), IsFiniteSet(T), IsFiniteSet(U), S \subseteq T \cup U
       PROVE  Cardinality(S) <= Cardinality(T) + Cardinality(U)
  <2>1. /\ IsFiniteSet(T \cup U)
        /\ Cardinality(T \cup U) = Cardinality(T) + Cardinality(U) - Cardinality(T \cap U)
    BY <1>12, FS_Union
  <2>2. Cardinality(S) <= Cardinality(T \cup U)
    BY <1>12, <2>1, FS_Subset
  <2>3. IsFiniteSet(T \cap U)
    BY <1>12, FS_Intersection
  <2>4. /\ Cardinality(S) \in Nat /\ Cardinality(T) \in Nat /\ Cardinality(U) \in Nat
        /\ Cardinality(T \cap U) \in Nat
    BY <1>12, <2>3, FS_CardinalityType
  <2> QED BY <2>1, <2>2, <2>4
<1>13. Cardinality(Overdue') <= Cardinality(Overdue) + Cardinality(due)
  BY <1>3, <1>5, <1>10, <1>12
<1>14. Cardinality(Marking) <= Cardinality(Marking') + Cardinality(lost)
  BY <1>3, <1>6, <1>10, <1>12
<1>15. Cardinality(Marking) + (0 - Cardinality(lost)) <= Cardinality(Marking')
  BY <1>9, <1>11, <1>14
<1>16. /\ Cardinality(Unsent') <= Cardinality(Unsent) + 0
       /\ Cardinality(Published) + 0 <= Cardinality(Published')
  BY <1>7, <1>8, Changes
<1>17. SumOver(sends', Events) <= SumOver(sends, Events) + 0
  BY <1>1, CountsDefined DEF PInv, SendsExplained
<1>18. /\ Cardinality(due) \in Int /\ (0 - Cardinality(lost)) \in Int /\ Cardinality(Overrun) \in Int
       /\ 0 + 0 + Cardinality(due) <= 0 + (0 - Cardinality(lost)) + Cardinality(Overrun)
  BY <1>4, <1>9
<1>19. faults' = faults + Cardinality(Overrun)
  BY <1>1
<1> QED BY <1>8, <1>13, <1>15, <1>16, <1>17, <1>18, <1>19, Balance

\* The steps that send nothing: a new event, a poll, a claim and a retry.
LEMMA QuietSteps ==
  ASSUME PInv, PInv', SendsExplained, NEW p \in Publishers,
         (\E e \in Events : Create(e)) \/ Poll(p) \/ Claim(p) \/ Retry(p)
  PROVE  SendsExplained'
<1>1. sends' = sends /\ late' \subseteq late /\ faults' = faults
  BY DEF Create, Poll, Claim, Retry
<1>2. \A q \in Publishers : deadline[q] \in Nat
  BY DEF PInv, TypeOK
<1>3. Overdue' \subseteq Overdue /\ Marking \subseteq Marking'
  <2>1. ASSUME NEW e \in Events, Create(e) PROVE Overdue' \subseteq Overdue /\ Marking \subseteq Marking'
    BY <2>1 DEF Create, Overdue, Marking
  <2>2. CASE Poll(p)
    <3>1. /\ stage[p] = "idle" /\ stage'[p] = "claim"
          /\ \A q \in Publishers \ {p} : stage'[q] = stage[q] /\ deadline'[q] = deadline[q]
      BY <2>2 DEF PInv, TypeOK, Poll, Goto
    <3> QED BY <3>1 DEF Overdue, Marking
  <2>3. CASE Claim(p)
    <3>1. stage[p] = "claim" /\ deadline[p] > 0
      BY <2>3 DEF Claim
    <3>2. CASE Rest(p)
      <4>1. /\ stage'[p] = "idle"
            /\ \A q \in Publishers \ {p} : stage'[q] = stage[q] /\ deadline'[q] = deadline[q]
        BY <3>2, RestKeepsOthers DEF PInv
      <4> QED BY <3>1, <4>1 DEF Overdue, Marking
    <3>3. CASE Goto(p, "publish") /\ deadline' = deadline
      <4>1. stage'[p] = "publish" /\ \A q \in Publishers \ {p} : stage'[q] = stage[q]
        BY <3>3 DEF PInv, TypeOK, Goto
      <4> QED BY <1>2, <3>1, <3>3, <4>1 DEF Overdue, Marking
    <3> QED BY <2>3, <3>2, <3>3 DEF Claim
  <2>4. CASE Retry(p)
    <3>1. stage[p] = "retry" /\ Rest(p)
      BY <2>4 DEF Retry
    <3>2. /\ stage'[p] = "idle"
          /\ \A q \in Publishers \ {p} : stage'[q] = stage[q] /\ deadline'[q] = deadline[q]
      BY <3>1, RestKeepsOthers DEF PInv
    <3> QED BY <3>1, <3>2 DEF Overdue, Marking
  <2> QED BY <2>1, <2>2, <2>3, <2>4
<1>4. Published \subseteq Published'
  <2> SUFFICES ASSUME NEW e \in Events, rows[e].status = "published"
               PROVE  rows'[e].status = "published"
    BY DEF Published
  <2>1. rows \in [Events -> Row]
    BY DEF PInv, TypeOK
  <2>2. rows' = rows \/ \E f \in Events \ {e} : \E r : rows' = [rows EXCEPT ![f] = r]
    <3>1. ASSUME NEW f \in Events, Create(f)
          PROVE  \E g \in Events \ {e} : \E r : rows' = [rows EXCEPT ![g] = r]
      <4>1. f # e
        BY <3>1 DEF Create
      <4>2. rows' = [rows EXCEPT ![f] = [rows[f] EXCEPT !.status = "pending"]]
        BY <2>1, <3>1 DEF Create
      <4> QED BY <4>1, <4>2
    <3>2. CASE Poll(p)
      BY <3>2 DEF Poll
    <3>3. CASE Claim(p)
      <4>1. rows' = rows \/ \E f \in Events : Available(f) /\ Lease(f, p, FreshToken)
        BY <3>3 DEF Claim
      <4> QED BY <4>1 DEF Available, Lease
    <3>4. CASE Retry(p)
      <4>1. /\ claimed[p].event \in Events
            /\ Reschedule(claimed[p].event, claimed[p].token, Config[p].delay[claimed[p].attempts])
        BY <3>4 DEF Retry, PInv, Busy, Holding
      <4> QED BY <4>1 DEF Reschedule, Holds
    <3> QED BY <3>1, <3>2, <3>3, <3>4
  <2> QED BY <2>1, <2>2
<1> QED BY <1>1, <1>3, <1>4, NothingSent

\* Every step keeps the balance of sends.
LEMMA StepExplained == PInv /\ PInv' /\ SendsExplained /\ [Next]_vars => SendsExplained'
<1> SUFFICES ASSUME PInv, PInv', SendsExplained, [Next]_vars PROVE SendsExplained' OBVIOUS
<1>1. ASSUME NEW e \in Events, Create(e) PROVE SendsExplained'
  <2>1. sends' = sends /\ late' \subseteq late /\ faults' = faults
    BY <1>1 DEF Create
  <2>2. Overdue' \subseteq Overdue /\ Marking \subseteq Marking'
    BY <1>1 DEF Create, Overdue, Marking
  <2>3. Published \subseteq Published'
    <3> SUFFICES ASSUME NEW f \in Events, rows[f].status = "published"
                 PROVE  rows'[f] = rows[f]
      BY DEF Published
    <3> QED BY <1>1 DEF Create, PInv, TypeOK
  <2> QED BY <2>1, <2>2, <2>3, NothingSent
<1>2. ASSUME NEW p \in Publishers, Poll(p) \/ Claim(p) \/ Retry(p) PROVE SendsExplained'
  BY <1>2, QuietSteps
<1>3. ASSUME NEW p \in Publishers, Publish(p) PROVE SendsExplained'
  BY <1>3, PublishExplained
<1>4. ASSUME NEW p \in Publishers, PublishFails(p) PROVE SendsExplained'
  BY <1>4, PublishFailsExplained
<1>5. ASSUME NEW p \in Publishers, MarkPublished(p) PROVE SendsExplained'
  BY <1>5, MarkExplained
<1>6. ASSUME NEW p \in Publishers, Expire(p) \/ Crash(p) PROVE SendsExplained'
  BY <1>6, LeaveExplained DEF Expire, Crash, Fault
<1>7. ASSUME NEW s \in late, Execute(s) PROVE SendsExplained'
  BY <1>7, ExecuteExplained
<1>8. CASE Tick
  BY <1>8, TickExplained
<1>9. CASE UNCHANGED vars
  <2>1. /\ sends' = sends /\ late' \subseteq late /\ faults' = faults
        /\ Overdue' \subseteq Overdue /\ Published \subseteq Published' /\ Marking \subseteq Marking'
    BY <1>9 DEF vars, Overdue, Published, Marking
  <2> QED BY <2>1, NothingSent
<1> QED BY <1>1, <1>2, <1>3, <1>4, <1>5, <1>6, <1>7, <1>8, <1>9 DEF Next, PublisherStep

\* In the beginning nothing was sent.
LEMMA InitExplained == Init => SendsExplained
<1> SUFFICES ASSUME Init PROVE SendsExplained OBVIOUS
<1>1. PInv
  BY InitKeeps
<1>2. late = {} /\ faults = 0 /\ \A e \in Events : sends[e] = 0
  BY DEF Init
<1>3. IsFiniteSet(late) /\ Unsent = {} /\ Overdue = {}
  BY <1>2, FS_EmptySet DEF Init, Unsent, Overdue
<1>4. SumOver(sends, Events) = 0
  BY <1>2, PublisherAssumption, SumZero
<1>5. Cardinality(Unsent) = 0 /\ Cardinality(Overdue) = 0
  BY <1>3, FS_EmptySet
<1>6. Cardinality(Published) \in Nat /\ Cardinality(Marking) \in Nat
  BY <1>1, <1>3, CountsDefined DEF PInv
<1> QED BY <1>2, <1>3, <1>4, <1>5, <1>6 DEF SendsExplained

\* The fold of the module is such a sum.
LEMMA SendsSum ==
  ASSUME TypeOK
  PROVE  Delivery!Copies = SumOver(sends, Events)
<1> DEFINE P(g) == g = [s \in SUBSET Events |->
                          IF s = {} THEN 0
                          ELSE sends[CHOOSE x \in s : TRUE] + g[s \ {CHOOSE x \in s : TRUE}]]
<1>1. ASSUME NEW g PROVE P(g) <=> Sums(g, sends, Events)
  BY DEF Sums, Pick
<1>2. Delivery!Copies = (CHOOSE g : P(g))[Events]
  BY DEF Delivery!Copies, Delivery!MapThenSumSet, Delivery!MapThenFoldSet
<1> HIDE DEF P
<1>3. PICK h : Sums(h, sends, Events)
  BY PublisherAssumption, SumsExist
<1>4. P(CHOOSE g : P(g))
  BY <1>1, <1>3
<1>5. Sums(CHOOSE g : P(g), sends, Events) /\ Sums(CHOOSE g : Sums(g, sends, Events), sends, Events)
  BY <1>1, <1>4, PublisherAssumption, SumsExist
<1>6. (CHOOSE g : P(g))[Events] = (CHOOSE g : Sums(g, sends, Events))[Events]
  BY <1>5, PublisherAssumption, SumsAgree
<1> QED BY <1>2, <1>6 DEF SumOver

\* Attempts that are about to mark have an event each, which was sent and is not published.
LEMMA MarkedOrMarking ==
  ASSUME PInv
  PROVE  Cardinality(Published) + Cardinality(Marking) <= Cardinality({e \in Events : sends[e] > 0})
<1> DEFINE S == {e \in Events : sends[e] > 0}
           T == S \ Published
           f == [p \in Marking |-> claimed[p].event]
<1>1. IsFiniteSet(S) /\ IsFiniteSet(T) /\ IsFiniteSet(Published) /\ IsFiniteSet(Marking)
  <2>1. /\ S \in SUBSET Events /\ T \in SUBSET Events
        /\ Published \in SUBSET Events /\ Marking \in SUBSET Publishers
    BY DEF Published, Marking
  <2> QED BY <2>1, PublisherAssumption, FS_Subset
<1>2. ASSUME NEW p \in Marking
      PROVE  /\ p \in Publishers /\ stage[p] \in Holding /\ claimed[p].event \in T
             /\ rows[claimed[p].event].token = claimed[p].token
  <2>1. p \in Publishers /\ stage[p] = "mark" /\ deadline[p] > 0
    BY DEF Marking
  <2>2. claimed[p].event \in Events /\ sends[claimed[p].event] > 0
    BY <2>1 DEF PInv, Busy, MarksAreSent, Holding
  <2>3. Holds(claimed[p].event, claimed[p].token)
    BY <2>1 DEF PInv, AttemptOwnsEvent
  <2> QED BY <2>1, <2>2, <2>3 DEF Holds, Holding, Published
<1>3. f \in Injection(Marking, T)
  <2>1. f \in [Marking -> T]
    BY <1>2
  <2>2. ASSUME NEW p \in Marking, NEW q \in Marking, f[p] = f[q] PROVE p = q
    <3>1. claimed[p].event = claimed[q].event
      BY <2>2
    <3>2. claimed[p].token = claimed[q].token
      BY <1>2, <3>1
    <3> QED BY <1>2, <3>2 DEF PInv, Apart
  <2> QED BY <2>1, <2>2 DEF Injection, IsInjective
<1>4. Cardinality(Marking) <= Cardinality(T)
  BY <1>1, <1>3, FS_Injection
<1>5. Published \subseteq S
  BY DEF PInv, MarksAreSent, PublishedWasSent, Published
<1>6. Cardinality(T) = Cardinality(S) - Cardinality(Published)
  <2>1. S \cap Published = Published
    BY <1>5
  <2> QED BY <1>1, <2>1, FS_Difference
<1>7. /\ Cardinality(S) \in Nat /\ Cardinality(Published) \in Nat /\ Cardinality(Marking) \in Nat
  BY <1>1, FS_CardinalityType
<1> HIDE DEF T
<1>8. Cardinality(Published) + Cardinality(Marking) <= Cardinality(S)
  BY <1>4, <1>6, <1>7
<1> QED BY <1>8

\* The balance leaves no send without its event or its fault.
LEMMA ExplainedDuplicates == PInv /\ SendsExplained => DuplicatesNeedFaults
<1> SUFFICES ASSUME PInv, SendsExplained PROVE DuplicatesNeedFaults
  OBVIOUS
<1> DEFINE n == Cardinality({e \in Events : sends[e] > 0})
<1>1. /\ Cardinality(Unsent) \in Nat /\ Cardinality(Overdue) \in Nat
      /\ Cardinality(Published) \in Nat /\ Cardinality(Marking) \in Nat
      /\ SumOver(sends, Events) \in Int /\ faults \in Nat
  BY CountsDefined DEF PInv, SendsExplained
<1>2. n \in Nat
  <2>1. {e \in Events : sends[e] > 0} \in SUBSET Events
    OBVIOUS
  <2> QED BY <2>1, PublisherAssumption, FS_Subset, FS_CardinalityType
<1>3. Cardinality(Published) + Cardinality(Marking) <= n
  BY MarkedOrMarking
<1>4. SumOver(sends, Events) + Cardinality(Unsent) + Cardinality(Overdue)
        <= Cardinality(Published) + Cardinality(Marking) + faults
  BY DEF SendsExplained
<1> HIDE DEF n
<1>5. SumOver(sends, Events) <= n + faults
  BY <1>1, <1>2, <1>3, <1>4
<1>6. Delivery!Copies = SumOver(sends, Events)
  BY SendsSum DEF PInv
<1>7. Delivery!Cardinality(Delivery!Arrived) = n
  BY DEF n, Delivery!Arrived, Delivery!Cardinality, Cardinality
<1> QED BY <1>5, <1>6, <1>7 DEF DuplicatesNeedFaults, Delivery!Balanced

\* Every duplicate in the queue has its fault: a crash, a failed send, or an attempt that
\* ran out of time (PublishOutbox.Execute sends before it marks, and at most once).
THEOREM DuplicatesHaveFaults == Spec => []DuplicatesNeedFaults
<1>1. Spec => [](PInv /\ SendsExplained)
  BY InitKeeps, StepKeeps, InitExplained, StepExplained, PTL DEF Spec
<1> QED BY <1>1, ExplainedDuplicates, PTL

-----------------------------------------------------------------------------
(* The promise to the readers of the queue.                                 *)

\* Whoever works for an event, also late, works for one that was committed.
ClaimsExist ==
  /\ \A p \in Publishers : stage[p] \in Holding => rows[claimed[p].event].status # "absent"
  /\ \A s \in late : s.kind # "claim" => rows[s.event].status # "absent"

\* The effects a step may have on the table and the queue, as their readers see them.
Unseen == (\A e \in Events : rows'[e].status = rows[e].status) /\ sends' = sends

Seen == \/ Unseen
        \/ \E e \in Events : Create(e)
        \/ /\ \E e \in Events : rows[e].status # "absent" /\ Sent(e)
           /\ \A e \in Events : rows'[e].status = rows[e].status
        \/ /\ \E e \in Events : /\ rows[e].status = "pending" /\ sends[e] > 0
                                /\ rows'[e].status = "published"
                                /\ \A f \in Events \ {e} : rows'[f].status = rows[f].status
           /\ sends' = sends /\ faults' = faults

\* A mark is unseen, or it is that of an event that was sent.
LEMMA MarkSeen ==
  ASSUME PInv, NEW e \in Events, NEW token, sends[e] > 0, SetPublished(e, token),
         sends' = sends, faults' = faults
  PROVE  Seen
<1>1. CASE ~Holds(e, token)
  BY <1>1 DEF SetPublished, Seen, Unseen
<1>2. CASE Holds(e, token)
  <2> DEFINE row == [rows[e] EXCEPT !.status = "published", !.lease = 0, !.token = Nil]
  <2>1. row.status = "published"
    BY DEF PInv, TypeOK, Row
  <2> HIDE DEF row
  <2>2. rows' = [rows EXCEPT ![e] = row]
    BY <1>2 DEF SetPublished, row
  <2>3. rows'[e].status = "published" /\ \A f \in Events \ {e} : rows'[f].status = rows[f].status
    BY <2>1, <2>2 DEF PInv, TypeOK
  <2> QED BY <1>2, <2>3 DEF Seen, Holds
<1> QED BY <1>1, <1>2

\* A schedule is unseen.
LEMMA RescheduleUnseen ==
  ASSUME PInv, NEW e \in Events, NEW token, NEW wait \in Nat, Reschedule(e, token, wait),
         sends' = sends
  PROVE  Seen
BY RescheduleKeepsOthers DEF PInv, Seen, Unseen

\* A lease is unseen.
LEMMA LeaseUnseen ==
  ASSUME PInv, NEW e \in Events, Available(e), NEW p \in Publishers, NEW token \in Tokens,
         Lease(e, p, token), sends' = sends
  PROVE  Seen
BY LeaseKeepsOthers DEF PInv, Seen, Unseen

\* The effect of a statement that is executed late.
LEMMA ExecuteSeen == ASSUME PInv, ClaimsExist, NEW s \in late, Execute(s) PROVE Seen
<1>1. /\ s.kind \in {"claim", "publish", "mark", "retry"} /\ s.by \in Publishers
      /\ s.token \in Tokens /\ faults' = faults
      /\ s.kind # "claim" => s.event \in Events /\ s.attempts \in 1 .. MaxAttempts
      /\ s.kind # "claim" => rows[s.event].status # "absent"
      /\ s.kind = "mark" => sends[s.event] > 0
  BY DEF PInv, TypeOK, Left, MarksAreSent, Statements, ClaimsExist, Execute
<1>2. CASE s.kind = "claim"
  <2>1. sends' = sends /\ (rows' = rows \/ \E e \in Events : Available(e) /\ Lease(e, s.by, s.token))
    BY <1>2 DEF Execute
  <2>2. CASE rows' = rows
    BY <2>1, <2>2 DEF Seen, Unseen
  <2> QED BY <1>1, <2>1, <2>2, LeaseUnseen
<1>3. CASE s.kind = "publish"
  <2>1. Sent(s.event) /\ rows' = rows
    BY <1>3 DEF Execute
  <2> QED BY <1>1, <1>3, <2>1 DEF Seen
<1>4. CASE s.kind = "mark"
  <2>1. SetPublished(s.event, s.token) /\ sends' = sends
    BY <1>4 DEF Execute
  <2> QED BY <1>1, <1>4, <2>1, MarkSeen
<1>5. CASE s.kind = "retry"
  <2> DEFINE wait == Config[s.by].delay[s.attempts]
  <2>1. Reschedule(s.event, s.token, wait) /\ sends' = sends /\ wait \in Nat
    BY <1>1, <1>5, PublisherAssumption DEF Execute
  <2> HIDE DEF wait
  <2> QED BY <1>1, <1>5, <2>1, RescheduleUnseen
<1> QED BY <1>1, <1>2, <1>3, <1>4, <1>5

\* Every step has one of these effects.
LEMMA StepSeen == ASSUME PInv, ClaimsExist, [Next]_vars PROVE Seen
<1>1. ASSUME NEW p \in Publishers, stage[p] \in Holding
      PROVE  claimed[p].event \in Events /\ rows[claimed[p].event].status # "absent"
  BY <1>1 DEF PInv, Busy, ClaimsExist, Holding
<1>2. ASSUME NEW p \in Publishers, Claim(p) PROVE Seen
  <2>1. CASE rows' = rows
    BY <1>2, <2>1 DEF Claim, Seen, Unseen
  <2>2. ASSUME NEW e \in Events, Available(e), Unused # {}, Lease(e, p, FreshToken) PROVE Seen
    <3>1. FreshToken \in Tokens /\ sends' = sends
      BY <1>2, <2>2, FreshTokenUnused DEF Claim
    <3> QED BY <2>2, <3>1, LeaseUnseen
  <2> QED BY <1>2, <2>1, <2>2 DEF Claim
<1>3. ASSUME NEW p \in Publishers, Publish(p) \/ PublishFails(p) PROVE Seen
  <2>1. stage[p] \in Holding /\ rows' = rows /\ (sends' = sends \/ Sent(claimed[p].event))
    BY <1>3 DEF Publish, PublishFails, Holding
  <2> QED BY <1>1, <2>1 DEF Seen, Unseen
<1>4. ASSUME NEW p \in Publishers, MarkPublished(p) PROVE Seen
  <2> DEFINE e == claimed[p].event
  <2>1. /\ e \in Events /\ sends[e] > 0
        /\ SetPublished(e, claimed[p].token) /\ sends' = sends /\ faults' = faults
    BY <1>1, <1>4 DEF MarkPublished, PInv, MarksAreSent, Holding
  <2> HIDE DEF e
  <2> QED BY <2>1, MarkSeen
<1>5. ASSUME NEW p \in Publishers, Retry(p) PROVE Seen
  <2> DEFINE e == claimed[p].event
             wait == Config[p].delay[claimed[p].attempts]
  <2>1. /\ e \in Events /\ wait \in Nat
        /\ Reschedule(e, claimed[p].token, wait) /\ sends' = sends
    BY <1>5, PublisherAssumption DEF Retry, PInv, Busy, Holding
  <2> HIDE DEF e, wait
  <2> QED BY <2>1, RescheduleUnseen
<1>6. ASSUME NEW p \in Publishers, Poll(p) \/ Expire(p) \/ Crash(p) PROVE Seen
  BY <1>6 DEF Poll, Expire, Crash, Leave, Seen, Unseen
<1>7. CASE Tick
  <2>1. sends' = sends /\ \A e \in Events : rows'[e].status = rows[e].status
    BY <1>7 DEF Tick, PInv, TypeOK, Row
  <2> QED BY <2>1 DEF Seen, Unseen
<1>8. CASE UNCHANGED vars
  BY <1>8 DEF vars, Seen, Unseen
<1>9. ASSUME NEW e \in Events, Create(e) PROVE Seen
  BY <1>9 DEF Seen
<1> QED BY <1>2, <1>3, <1>4, <1>5, <1>6, <1>7, <1>8, <1>9, ExecuteSeen DEF Next, PublisherStep

\* A step keeps what the claims know.
LEMMA StepKeepsClaims == ASSUME PInv, PInv', ClaimsExist, [Next]_vars PROVE ClaimsExist'
<1>1. \A e \in Events : rows[e].status # "absent" => rows'[e].status # "absent"
  BY StepSeen DEF Seen, Unseen, Create, PInv, TypeOK
<1>2. ASSUME NEW p \in Publishers, Leave(p)
      PROVE  \A s \in late' \ late : s.kind # "claim" =>
                s.event = claimed[p].event /\ stage[p] \in Holding
  BY <1>2 DEF Leave, Statement, PInv, TypeOK, Holding
<1>3. \A s \in late' \ late : s.kind # "claim" =>
        \E p \in Publishers : stage[p] \in Holding /\ s.event = claimed[p].event
  BY <1>2 DEF Next, PublisherStep, vars, Create, Poll, Claim, Publish, MarkPublished, Retry, Expire,
              PublishFails, Crash, Execute, Tick
<1>4. ASSUME NEW p \in Publishers, stage'[p] \in Holding
      PROVE  \/ stage[p] \in Holding /\ claimed'[p] = claimed[p]
             \/ rows[claimed'[p].event].status = "pending" /\ claimed'[p].event \in Events
  <2> USE DEF PInv, TypeOK, Holding
  <2>1. ASSUME NEW q \in Publishers, Rest(q) PROVE stage[p] \in Holding /\ claimed'[p] = claimed[p]
    BY <1>4, <2>1 DEF Rest
  <2>2. ASSUME NEW q \in Publishers, NEW e \in Events, Available(e), Goto(q, "publish"),
               claimed' = [claimed EXCEPT ![q] = [event |-> e, token |-> FreshToken,
                                                  attempts |-> CountAttempt(e)]]
        PROVE  \/ stage[p] \in Holding /\ claimed'[p] = claimed[p]
               \/ rows[claimed'[p].event].status = "pending" /\ claimed'[p].event \in Events
    BY <1>4, <2>2 DEF Goto, Available
  <2>3. ASSUME NEW q \in Publishers, Publish(q) \/ PublishFails(q) \/ Poll(q)
        PROVE  stage[p] \in Holding /\ claimed'[p] = claimed[p]
    BY <1>4, <2>3 DEF Publish, PublishFails, Poll, Goto
  <2>4. ASSUME NEW q \in Publishers, Claim(q)
        PROVE  \/ stage[p] \in Holding /\ claimed'[p] = claimed[p]
               \/ rows[claimed'[p].event].status = "pending" /\ claimed'[p].event \in Events
    BY <2>1, <2>2, <2>4 DEF Claim
  <2>5. ASSUME NEW q \in Publishers, MarkPublished(q) \/ Retry(q) \/ Expire(q) \/ Crash(q)
        PROVE  stage[p] \in Holding /\ claimed'[p] = claimed[p]
    BY <2>1, <2>5 DEF MarkPublished, Retry, Expire, Crash, Leave
  <2>6. CASE stage' = stage /\ claimed' = claimed
    BY <1>4, <2>6
  <2>7. ASSUME NEW s \in late, Execute(s) PROVE stage' = stage /\ claimed' = claimed
    BY <2>7 DEF Execute
  <2> QED BY <2>3, <2>4, <2>5, <2>6, <2>7 DEF Next, PublisherStep, vars, Create, Tick
<1>5. \A p \in Publishers : stage'[p] \in Holding => rows'[claimed'[p].event].status # "absent"
  BY <1>1, <1>4 DEF ClaimsExist, PInv, Busy
<1>6. \A s \in late' : s.kind # "claim" => rows'[s.event].status # "absent"
  BY <1>1, <1>3 DEF ClaimsExist, PInv, Left, Busy
<1> QED BY <1>5, <1>6 DEF ClaimsExist

\* An effect is a step of EventDelivery, or none, if faults are not taken back and every
\* duplicate has one.
LEMMA SeenDelivers ==
  ASSUME PInv, PInv', DuplicatesNeedFaults', Seen, faults' >= faults
  PROVE  [Delivery!Next]_(Delivery!vars)
<1> DEFINE old == [e \in Events |-> rows[e].status]
           new == [e \in Events |-> rows'[e].status]
<1>1. faults \in Nat /\ faults' \in Nat /\ rows \in [Events -> Row]
  BY PublisherAssumption DEF PInv, TypeOK
<1>2. CASE Unseen
  <2>1. new = old /\ sends' = sends
    BY <1>2 DEF Unseen
  <2>2. CASE faults' = faults
    BY <2>1, <2>2 DEF Delivery!vars
  <2>3. CASE faults' > faults
    BY <2>1, <2>3 DEF Delivery!Next, Delivery!Fail
  <2> QED BY <1>1, <2>2, <2>3
<1>3. ASSUME NEW e \in Events, Create(e) PROVE Delivery!Next
  <2>1. rows[e].status = "absent" /\ rows' = [rows EXCEPT ![e].status = "pending"]
        /\ sends' = sends /\ faults' = faults
    BY <1>3 DEF Create
  <2>2. new = [old EXCEPT ![e] = "pending"]
    BY <1>1, <2>1 DEF Row
  <2> QED BY <2>1, <2>2 DEF Delivery!Next, Delivery!Create
<1>4. ASSUME NEW e \in Events, rows[e].status # "absent", Sent(e),
             \A f \in Events : rows'[f].status = rows[f].status
      PROVE  Delivery!Next
  <2>1. new = old /\ sends' = [sends EXCEPT ![e] = @ + 1]
    BY <1>4 DEF Sent
  <2> QED BY <1>4, <2>1 DEF DuplicatesNeedFaults, Delivery!Next, Delivery!Send
<1>5. ASSUME NEW e \in Events, rows[e].status = "pending", sends[e] > 0,
             rows'[e].status = "published",
             \A f \in Events \ {e} : rows'[f].status = rows[f].status,
             sends' = sends, faults' = faults
      PROVE  Delivery!Next
  <2>1. new = [old EXCEPT ![e] = "published"]
    BY <1>5
  <2> QED BY <1>5, <2>1 DEF Delivery!Next, Delivery!Mark
<1> QED BY <1>2, <1>3, <1>4, <1>5 DEF Seen

\* No step takes a fault back.
LEMMA FaultsGrow == ASSUME PInv, [Next]_vars PROVE faults' >= faults
<1>1. faults \in Nat
  BY PublisherAssumption DEF PInv, TypeOK
<1>2. CASE Tick
  <2> DEFINE n == Cardinality(Overrun)
  <2>1. n \in Nat
    BY PublisherAssumption, FS_Subset, FS_CardinalityType DEF Overrun
  <2>2. faults' = faults + n
    BY <1>2 DEF Tick
  <2> HIDE DEF n
  <2> QED BY <1>1, <2>1, <2>2
<1>3. CASE faults' = faults \/ Fault
  BY <1>1, <1>3 DEF Fault
<1> QED BY <1>2, <1>3 DEF Next, PublisherStep, vars, Create, Poll, Claim, Publish, MarkPublished,
                          Retry, Expire, PublishFails, Crash, Execute

\* PublishOutbox keeps its promise: whatever the number of instances, their leases, their
\* crashes and their late statements, the queue gets the events that the core committed
\* and no others, marks follow sends, and every duplicate has its fault.
THEOREM DeliversAtLeastOnce == Spec => ImplementsDelivery
<1>1. Init => ClaimsExist
  BY DEF Init, ClaimsExist, Holding
<1>2. Spec => [](PInv /\ SendsExplained /\ ClaimsExist)
  BY <1>1, InitKeeps, StepKeeps, InitExplained, StepExplained, StepKeepsClaims, PTL DEF Spec
<1>3. Init => Delivery!Init
  BY DEF Init, NoEvent, Delivery!Init
<1>4. PInv /\ PInv' /\ ClaimsExist /\ DuplicatesNeedFaults' /\ [Next]_vars
        => [Delivery!Next]_(Delivery!vars)
  BY StepSeen, FaultsGrow, SeenDelivers
<1> QED BY <1>2, <1>3, <1>4, DuplicatesHaveFaults, PTL DEF Spec, ImplementsDelivery, Delivery!Spec
=============================================================================
