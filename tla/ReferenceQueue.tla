--------------------------- MODULE ReferenceQueue ---------------------------
(***************************************************************************)
(* Waiting operations in time: the order in which RetryReferences claims   *)
(* them, the delays between their attempts, and the timestamps of the      *)
(* rows, which come from the clocks of the instances.                      *)
(*                                                                         *)
(* A retry is one step here; its statements, and what it writes, are those *)
(* of Wagering.  A call locks its wallet in one step and commits in        *)
(* another, so that the workers meet locked wallets.  Time is discrete.    *)
(* The database has one clock, which decides what is due; the clock of     *)
(* instance i is Lag[i] behind it.  An instance reads its clock in the     *)
(* step that commits; the time a transaction takes comes on top.           *)
(***************************************************************************)
EXTENDS Integers, SequencesExt

CONSTANTS
  Instances,     \* processes, each with a worker
  Wallets,
  Operations,    \* operations that need a reference
  WalletOf,      \* WalletOf[o]: the wallet of operation o and of its reference
  Lag,           \* Lag[i]: how far the clock of instance i is behind
  Opener,        \* Opener[w]: the instance that opens wallet w
  Opened,        \* wallets that have been there for long
  MaxAttempts,   \* the retry limit, the same for all workers
  Delay,         \* Delay[n]: the delay before the attempt that follows attempt n
  MaxCalls,      \* bound on the calls that lock a wallet
  Nil

ASSUME QueueAssumption ==
  /\ IsFiniteSet(Instances) /\ Instances # {} /\ Nil \notin Instances \cup Operations
  /\ Opened \subseteq Wallets
  /\ WalletOf \in [Operations -> Wallets]
  /\ Opener \in [Wallets -> Instances]
  /\ Lag \in [Instances -> Nat]
  /\ MaxAttempts \in Nat \ {0} /\ MaxCalls \in Nat
  /\ Delay \in [1 .. MaxAttempts -> Nat \ {0}]

\* The time between the first attempt and the last one that the limit permits.
Window == FoldFunctionOnSet(LAMBDA d, e : d + e, 0, Delay, 1 .. MaxAttempts - 1)

\* Ages are counted up to where they make no difference any more.
Horizon == Max({Window} \cup Range(Lag))

VARIABLES
  age,       \* age[w]: how long wallet w has been there; -1 while it is not
  broken,    \* wallets whose updated_at is before their created_at
  lock,      \* lock[w]: the instance of which a call holds the row lock, or Nil
  row,       \* row[o]: [status, attempts, wait, age, creator]
  queue,     \* the waiting rows by next_reference_attempt_at
  arrived,   \* operations whose reference has been processed
  calls      \* calls that have locked a wallet so far

vars == <<age, broken, lock, row, queue, arrived, calls>>

NoRow == [status |-> "none", attempts |-> 0, wait |-> 0, age |-> 0, creator |-> Nil]

Init ==
  /\ age = [w \in Wallets |-> IF w \in Opened THEN Horizon ELSE -1]
  /\ broken = {}
  /\ lock = [w \in Wallets |-> Nil]
  /\ row = [o \in Operations |-> NoRow]
  /\ queue = <<>>
  /\ arrived = {}
  /\ calls = 0

-----------------------------------------------------------------------------
(* Timestamps.                                                              *)

\* updated_at, taken from the clock of i, is not before the created_at that instance j
\* wrote so long ago.
InOrder(i, j, elapsed) == elapsed + Lag[j] >= Lag[i]

\* RehydrateWallet accepts the row.
Readable(w) == age[w] >= 0 /\ w \notin broken

\* The wallets after a movement on w through i: Credit and Debit set updated_at.
BrokenBy(i, w) == IF InOrder(i, Opener[w], age[w]) THEN broken ELSE broken \cup {w}

\* chk_wager_dates accepts the final status of o that instance i writes.
RowInOrder(i, o) == InOrder(i, row[o].creator, row[o].age)

-----------------------------------------------------------------------------
(* Calls of OpenWallet and ProcessWager.                                    *)

Open(w) ==
  /\ age[w] = -1
  /\ age' = [age EXCEPT ![w] = 0]
  /\ UNCHANGED <<broken, lock, row, queue, arrived, calls>>

\* FindByIDForUpdate; a wallet that is not readable is an error, and released.
LockWallet(i, w) ==
  /\ Readable(w) /\ lock[w] = Nil /\ calls < MaxCalls
  /\ lock' = [lock EXCEPT ![w] = i]
  /\ calls' = calls + 1
  /\ UNCHANGED <<age, broken, row, queue, arrived>>

\* The transaction that holds the lock of w ends.
Unlock(i, w) == /\ lock[w] = i
                /\ lock' = [lock EXCEPT ![w] = Nil]
                /\ UNCHANGED <<age, calls>>

\* It was rolled back, or had nothing to write.
Release(i, w) == Unlock(i, w) /\ UNCHANGED <<broken, row, queue, arrived>>

\* It moved the balance; the operation may be the one that others refer to.
Move(i, w) ==
  /\ Unlock(i, w)
  /\ broken' = BrokenBy(i, w)
  /\ arrived' \in {arrived, arrived \cup {o \in Operations : WalletOf[o] = w}}
  /\ UNCHANGED <<row, queue>>

\* The queue with o, due after d, among rows that are due at the same moment.
Enqueued(q, o, d) ==
  {s \in {InsertAt(q, k, o) : k \in 1 .. Len(q) + 1} :
     \A a, b \in 1 .. Len(s) : a < b =>
       LET wait(x) == IF x = o THEN d ELSE row[x].wait IN wait(s[a]) <= wait(s[b])}

\* Operation o comes before its reference: its row waits, due at once.
Submit(i, o) ==
  /\ row[o].status = "none" /\ o \notin arrived
  /\ Unlock(i, WalletOf[o])
  /\ row' = [row EXCEPT ![o] = [NoRow EXCEPT !.status = "waiting", !.creator = i]]
  /\ queue' \in Enqueued(queue, o, 0)
  /\ UNCHANGED <<broken, arrived>>

\* Operation o comes after its reference, and is processed.
SubmitLate(i, o) ==
  /\ row[o].status = "none" /\ o \in arrived
  /\ Unlock(i, WalletOf[o])
  /\ row' = [row EXCEPT ![o] = [NoRow EXCEPT !.status = "processed", !.creator = i]]
  /\ broken' = BrokenBy(i, WalletOf[o])
  /\ UNCHANGED <<queue, arrived>>

-----------------------------------------------------------------------------
(* RetryReferences.                                                         *)

\* Variant: a row is claimed before its delay is over.
ClaimableEarly(k) == lock[WalletOf[queue[k]]] = Nil

Claimable(k) == row[queue[k]].wait = 0 /\ lock[WalletOf[queue[k]]] = Nil

\* ClaimPendingReference: the first row that is due and whose wallet is not locked.
Claimed == {k \in 1 .. Len(queue) : Claimable(k) /\ \A j \in 1 .. k - 1 : ~Claimable(j)}

\* The final status of the row at k is written through i, or refused by chk_wager_dates,
\* which rolls the attempt back.
Decide(i, k, status, wallets) ==
  IF RowInOrder(i, queue[k])
  THEN /\ row' = [row EXCEPT ![queue[k]].status = status, ![queue[k]].attempts = @ + 1]
       /\ queue' = RemoveAt(queue, k)
       /\ broken' = wallets
  ELSE UNCHANGED <<row, queue, broken>>

\* ScheduleReferenceRetry, and the row goes on waiting.
Reschedule(k) ==
  LET o == queue[k]
      n == row[o].attempts + 1
  IN /\ row' = [row EXCEPT ![o].attempts = n, ![o].wait = Delay[n]]
     /\ queue' \in Enqueued(RemoveAt(queue, k), o, Delay[n])
     /\ UNCHANGED broken

\* Variant: the count of the attempt is lost.
AttemptUncounted(i, k) ==
  IF queue[k] \in arrived THEN Decide(i, k, "processed", BrokenBy(i, WalletOf[queue[k]]))
  ELSE /\ row' = [row EXCEPT ![queue[k]].wait = Delay[1]]
       /\ queue' \in Enqueued(RemoveAt(queue, k), queue[k], Delay[1])
       /\ UNCHANGED broken

\* Variant: the row is given up only after the limit has been passed.
AttemptLate(i, k) ==
  IF queue[k] \in arrived THEN Decide(i, k, "processed", BrokenBy(i, WalletOf[queue[k]]))
  ELSE IF row[queue[k]].attempts >= MaxAttempts THEN Decide(i, k, "notFound", broken)
  ELSE Reschedule(k)

\* One attempt of worker i on the row at k, whose wallet it has locked.
Attempt(i, k) ==
  IF queue[k] \in arrived THEN Decide(i, k, "processed", BrokenBy(i, WalletOf[queue[k]]))
  ELSE IF row[queue[k]].attempts + 1 >= MaxAttempts THEN Decide(i, k, "notFound", broken)
  ELSE Reschedule(k)

\* Without a row there is nothing to do; an error of FindByIDForUpdate rolls back, so
\* the row stays where it was.
Retry(i) ==
  /\ IF Claimed = {} THEN UNCHANGED <<row, queue, broken>>
     ELSE \E k \in Claimed :
            IF Readable(WalletOf[queue[k]]) THEN Attempt(i, k)
            ELSE UNCHANGED <<row, queue, broken>>
  /\ UNCHANGED <<age, lock, arrived, calls>>

-----------------------------------------------------------------------------
Older(a) == IF a \in 0 .. Horizon - 1 THEN a + 1 ELSE a

Tick ==
  /\ age' = [w \in Wallets |-> Older(age[w])]
  /\ row' = [o \in Operations |->
               IF row[o].status # "waiting" THEN row[o]
               ELSE [row[o] EXCEPT !.age = Older(@), !.wait = IF @ = 0 THEN 0 ELSE @ - 1]]
  /\ UNCHANGED <<broken, lock, queue, arrived, calls>>

Next ==
  \/ \E w \in Wallets : Open(w)
  \/ \E i \in Instances, w \in Wallets : LockWallet(i, w) \/ Move(i, w) \/ Release(i, w)
  \/ \E i \in Instances, o \in Operations : Submit(i, o) \/ SubmitLate(i, o)
  \/ \E i \in Instances : Retry(i)
  \/ Tick

Spec == Init /\ [][Next]_vars

\* The workers poll, a transaction that holds a lock ends, and time passes.
Fairness ==
  /\ \A i \in Instances : WF_vars(Retry(i))
  /\ \A i \in Instances, w \in Wallets : WF_vars(Release(i, w))
  /\ WF_vars(Tick)

FairSpec == Spec /\ Fairness

-----------------------------------------------------------------------------
Waiting == {o \in Operations : row[o].status = "waiting"}

\* The queue holds the waiting rows in the order of their next attempts, and a row that
\* waits has an attempt left.
TypeOK ==
  /\ age \in [Wallets -> -1 .. Horizon] /\ broken \subseteq Wallets
  /\ lock \in [Wallets -> Instances \cup {Nil}]
  /\ row \in [Operations -> [status : {"none", "waiting", "processed", "notFound"},
                             attempts : 0 .. MaxAttempts, wait : Nat, age : 0 .. Horizon,
                             creator : Instances \cup {Nil}]]
  /\ ToSet(queue) = Waiting /\ Len(queue) = Cardinality(Waiting)
  /\ \A a, b \in 1 .. Len(queue) : a < b => row[queue[a]].wait <= row[queue[b]].wait
  /\ \A o \in Waiting : row[o].attempts < MaxAttempts
  /\ arrived \subseteq Operations /\ calls \in 0 .. MaxCalls

\* No operation is given up before its reference has had the whole time of the
\* configured attempts to arrive, whichever workers make them, in which order the rows
\* come and whatever attempts fail (ReferenceRetryPolicy).
WaitsFullWindow == \A o \in Operations : row[o].status = "notFound" => row[o].age >= Window

\* What was committed can be read again: RehydrateWallet refuses no wallet that Credit
\* and Debit have written.
WalletsReadable == broken = {}

\* A waiting operation is decided in the end: running out of attempts rejects it, and
\* no row, locked wallet or clock that lags holds it up for ever.
RowsDecided == \A o \in Operations : o \in Waiting ~> o \notin Waiting
=============================================================================
