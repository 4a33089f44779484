---------------------------- MODULE WalletQueries ----------------------------
(***************************************************************************)
(* The queries of one wallet while calls move its balance: the pages of    *)
(* its ledger, which a client walks by cursor, and its reconciliation.     *)
(*                                                                         *)
(* A movement is a transaction that locks the wallet, stamps its ledger    *)
(* entry with the clock of its instance and a random id, and commits       *)
(* later.  Every movement is a credit of one unit, so that the balance     *)
(* counts the entries.  Time is that of a clock that is right; the one of  *)
(* instance i is Lag[i] behind.  A commit takes longer than the resolution *)
(* of a timestamp.                                                         *)
(***************************************************************************)
EXTENDS Integers, SequencesExt

CONSTANTS
  Instances,   \* instances that process calls
  Lag,         \* Lag[i]: how far the clock of i is behind
  Ids,         \* entry ids, numbered in their order
  MaxLimit,    \* the largest page size that is asked for
  MaxTime,     \* bound on the time
  Nil

ASSUME QueriesAssumption ==
  /\ Nil \notin Instances /\ Lag \in [Instances -> Nat]
  /\ Ids \subseteq Nat /\ IsFiniteSet(Ids)
  /\ MaxLimit \in Nat \ {0} /\ MaxTime \in Nat

VARIABLES
  now,       \* the time
  balance,   \* the committed balance
  ledger,    \* the committed entries: [at, id, after, by], by being the instance
  lock,      \* the instance whose transaction holds the row lock, or Nil
  pending,   \* the entry that this transaction has inserted: a set of at most one
  walk,      \* the walk of a client: [phase, seen, cursor, listed, base]
  report     \* the last reconciliation: [stored, calculated]

vars == <<now, balance, ledger, lock, pending, walk, report>>

NoWalk == [phase |-> "idle", seen |-> 0, cursor |-> {}, listed |-> <<>>, base |-> {}]

Init ==
  /\ now = 0 /\ balance = 0 /\ ledger = {}
  /\ lock = Nil /\ pending = {}
  /\ walk = NoWalk
  /\ report = [stored |-> 0, calculated |-> 0]

-----------------------------------------------------------------------------
(* Movements.                                                               *)

LockWallet(i) ==
  /\ lock = Nil /\ lock' = i
  /\ UNCHANGED <<now, balance, ledger, pending, walk, report>>

\* Variant: the entry gets the time of the request, which came before the lock.
InsertRequestTime(i, id) ==
  /\ lock = i /\ pending = {} /\ now < MaxTime
  /\ \A e \in ledger : e.id # id
  /\ \E t \in 0 .. now :
       pending' = {[at |-> t - Lag[i], id |-> id, after |-> balance + 1, by |-> i]}
  /\ UNCHANGED <<now, balance, ledger, lock, walk, report>>

\* NewWalletLedgerEntry and Ledger.Create.
Insert(i, id) ==
  /\ lock = i /\ pending = {} /\ now < MaxTime
  /\ \A e \in ledger : e.id # id
  /\ pending' = {[at |-> now - Lag[i], id |-> id, after |-> balance + 1, by |-> i]}
  /\ UNCHANGED <<now, balance, ledger, lock, walk, report>>

\* The transaction commits what it has written, the balance and the entry.
Commit(i) ==
  /\ lock = i /\ pending # {} /\ now < MaxTime
  /\ ledger' = ledger \cup pending
  /\ balance' = balance + Cardinality(pending)
  /\ lock' = Nil /\ pending' = {}
  /\ now' = now + 1
  /\ UNCHANGED <<walk, report>>

Rollback(i) ==
  /\ lock = i /\ lock' = Nil /\ pending' = {}
  /\ UNCHANGED <<now, balance, ledger, walk, report>>

Tick ==
  /\ now < MaxTime /\ now' = now + 1
  /\ UNCHANGED <<balance, ledger, lock, pending, walk, report>>

-----------------------------------------------------------------------------
(* ListLedger.                                                              *)

\* Variant: the cursor is a time only.
BeforeTime(e, f) == e.at < f.at

\* (created_at, id) < (created_at, id)
Before(e, f) == e.at < f.at \/ (e.at = f.at /\ e.id < f.id)

\* ORDER BY created_at DESC, id DESC
NewerFirst(e, f) == f.at < e.at \/ (f.at = e.at /\ f.id < e.id)

\* The first n rows in that order: the k-th has k - 1 rows before it.
Newest(S, n) ==
  [k \in 1 .. Min({n, Cardinality(S)}) |->
     CHOOSE e \in S : Cardinality({f \in S : NewerFirst(f, e)}) = k - 1]

\* FindByID, the first statement of the request for a page; the client begins a new
\* walk without a cursor.
FindWallet ==
  /\ walk.phase # "rows"
  /\ walk' = [(IF walk.phase = "ended" THEN NoWalk ELSE walk)
              EXCEPT !.phase = "rows", !.seen = balance]
  /\ UNCHANGED <<now, balance, ledger, lock, pending, report>>

\* The SELECT of limit + 1 rows below the cursor, and the page made of them.
Page(limit) ==
  /\ walk.phase = "rows"
  /\ LET below == {e \in ledger : \A c \in walk.cursor : Before(e, c)}
         rows == Newest(below, limit + 1)
         items == IF Len(rows) > limit THEN SubSeq(rows, 1, limit) ELSE rows
     IN walk' = [walk EXCEPT
          !.phase = IF Len(rows) > limit THEN "more" ELSE "ended",
          !.cursor = IF Len(rows) > limit THEN {Last(items)} ELSE {},
          !.listed = @ \o items,
          !.base = IF walk.cursor = {} THEN ledger ELSE @]
  /\ UNCHANGED <<now, balance, ledger, lock, pending, report>>

-----------------------------------------------------------------------------
(* ReconcileWallet.                                                         *)

\* Variant: the balance is read by one statement and the ledger by another.
ReconcileInTwo ==
  /\ report' = [stored |-> walk.seen, calculated |-> Cardinality(ledger)]
  /\ walk.phase = "rows"
  /\ UNCHANGED <<now, balance, ledger, lock, pending, walk>>

\* ReconciliationSnapshot: one SELECT of the balance and the sum of the entries.
Reconcile ==
  /\ report' = [stored |-> balance, calculated |-> Cardinality(ledger)]
  /\ UNCHANGED <<now, balance, ledger, lock, pending, walk>>

Next ==
  \/ \E i \in Instances : \/ LockWallet(i) \/ Commit(i) \/ Rollback(i)
                          \/ \E id \in Ids : Insert(i, id)
  \/ Tick
  \/ FindWallet
  \/ \E limit \in 1 .. MaxLimit : Page(limit)
  \/ Reconcile

Spec == Init /\ [][Next]_vars

-----------------------------------------------------------------------------
Listed == ToSet(walk.listed)

\* All movements came through instances with one time.
ClocksAgree == \A e, f \in ledger : Lag[e.by] = Lag[f.by]

\* A walk lists no entry twice, whatever is added meanwhile and with whichever
\* timestamps, and one that came to its end has listed every entry that was there when
\* it began, also those that share their time with the last entry of a page.
ListsOnce ==
  /\ Cardinality(Listed) = Len(walk.listed)
  /\ walk.phase = "ended" => walk.base \subseteq Listed

\* If the movements came through instances whose clocks agree, the pages are together
\* the ledger as it was when the first one was read, from the last movement to the
\* first: what commits meanwhile comes before every cursor, since its time was taken
\* under the lock of the wallet.
WalkIsSnapshot ==
  LET n == Cardinality(walk.base)
  IN ClocksAgree =>
       /\ \A k \in 1 .. Len(walk.listed) : walk.listed[k].after = n - k + 1
       /\ walk.phase = "ended" => Len(walk.listed) = n

\* Reconciliation raises no false alarm: it compares the balance and the entries of one
\* moment, while movements commit.
NoFalseAlarm == report.stored = report.calculated
=============================================================================
