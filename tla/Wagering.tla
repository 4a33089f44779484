------------------------------ MODULE Wagering ------------------------------
(***************************************************************************)
(* The processing core: OpenWallet, ProcessWager (from HTTP and from SQS)  *)
(* and RetryReferences, running concurrently against one PostgreSQL        *)
(* database at READ COMMITTED.                                             *)
(*                                                                         *)
(* Every execution of a use case is a process.  A call executes            *)
(* ProcessWager once for Request[c] and mints its own transaction id, so   *)
(* client retries, SQS redeliveries and duplicates are further calls with  *)
(* an equal request.  One action is one SQL statement that another         *)
(* transaction can come before or after; statements that run under a row   *)
(* lock that excludes everybody else are merged with their neighbours.     *)
(* What a transaction has written stays in tx until it commits; a          *)
(* transaction that fails or is aborted leaves nothing behind.             *)
(***************************************************************************)
EXTENDS WagerSchema

CONSTANTS
  Calls,           \* executions of ProcessWager; also the ids of the rows they insert
  Openings,        \* executions of OpenWallet; also the ids of the wallets
  RefWorkers,      \* instances of the worker that retries pending references
  Request,         \* Request[c]: what call c asks for
  OpeningRequest,  \* OpeningRequest[w]: [player, currency, balance]
  Opened,          \* the wallets that exist from the start
  MaxAttempts,     \* MaxAttempts[p]: the retry limit worker p is configured with
  MaxFaults,       \* how many aborted transactions and lost commit answers occur
  Safeguards       \* the redundant protections in place, see Refusals

Procs == Calls \cup RefWorkers
Actors == Procs \cup Openings
Txns == Calls \cup Openings

\* The protections that a correct caller never runs into: conditional UPDATEs,
\* constraints and triggers, and the checks of the event constructors.
AllSafeguards == {"WalletConcurrentUpdate", "WagerNotPending", "CheckViolation",
                  "UniqueViolation", "WalletOutOfBalance", "InvalidEvent"}

\* SameIdentity: the two uniqueness rules of an operation (provider and key,
\* provider and external id).
SameKey(q, r) == q.provider = r.provider /\ q.key = r.key
SameExternalID(q, r) == q.provider = r.provider /\ q.ext = r.ext
SameIdentity(q, r) == SameKey(q, r) \/ SameExternalID(q, r)

Messages == {Request[c].msg : c \in Calls} \ {Nil}

ASSUME ProcessAssumption ==
  /\ Calls \cap Openings = {} /\ Calls \cap RefWorkers = {} /\ Openings \cap RefWorkers = {}
  /\ Nil \notin Calls \cup Openings \cup RefWorkers
  /\ Nil \notin FailureCodes \cup Directions \cup Kinds /\ Nil \notin Int

\* Calls come from requests.  The body of a message determines the request.
ASSUME RequestAssumption ==
  /\ \A c \in Calls : /\ Request[c].wallet \in Openings
                      /\ Request[c].amount \in MachineInt
                      /\ Request[c].kind \in Kinds
                      /\ Request[c].msg # Nil => Request[c].body # Nil
  /\ \A c, d \in Calls : Request[c].body = Request[d].body /\ Request[c].body # Nil =>
       PayloadHash(Request[c]) = PayloadHash(Request[d]) /\ Request[c].key = Request[d].key

\* uq_wallet_player_currency: a player has one wallet per currency.
SameOwner(v, w) == /\ OpeningRequest[v].player = OpeningRequest[w].player
                   /\ OpeningRequest[v].currency = OpeningRequest[w].currency

ASSUME OpeningAssumption ==
  /\ \A w \in Openings : OpeningRequest[w].balance \in MachineInt
  /\ Opened \subseteq Openings /\ IsFiniteSet(Opened)
  /\ \A w \in Opened : OpeningRequest[w].balance >= 0
  /\ \A v, w \in Opened : SameOwner(v, w) => v = w

ASSUME BoundsAssumption ==
  /\ \A p \in RefWorkers : MaxAttempts[p] \in Nat \ {0}
  /\ MaxFaults \in Nat
  /\ Safeguards \subseteq AllSafeguards

-----------------------------------------------------------------------------
VARIABLES
  wallets,   \* committed wallets; version 0 while there is no row
  wagers,    \* committed mutable columns of wager_transactions; status "NONE" without a row
  ledger,    \* committed ledger entries
  outbox,    \* committed events
  inbox,     \* inbox[m]: the body hash of the completed message m, or Nil
  lock,      \* lock[w]: the process whose transaction holds the row lock of wallet w
  stage,     \* stage[p]: the next statement of p
  tx,        \* tx[p]: what the open transaction of p has read, decided and written
  answer,    \* answer[p]: what the caller of p has been told
  faults     \* faults that have occurred

vars == <<wallets, wagers, ledger, outbox, inbox, lock, stage, tx, answer, faults>>

store == <<wallets, wagers, ledger, outbox, inbox>>

NoWallet == [balance |-> 0, version |-> 0]

NoRow == [status |-> "NONE", failure |-> Nil, reference |-> Nil, balance |-> Nil,
          attempts |-> 0, due |-> FALSE]

\* What processing decided: the new columns and, for a movement, the ledger entry.
NoOutcome == [status |-> "NONE", failure |-> Nil, reference |-> Nil, direction |-> Nil,
              after |-> 0, attempts |-> 0, due |-> FALSE]

NoReply == [error |-> Nil, txn |-> Nil, status |-> "NONE", failure |-> Nil, balance |-> Nil,
            replay |-> FALSE]

\* pass says which of the four uses of findWagerReplay is running.
NoTx == [pass |-> "first", wallet |-> Nil, base |-> NoWallet, txn |-> Nil,
         outcome |-> NoOutcome, reply |-> NoReply]

ErrorReply(e) == [NoReply EXCEPT !.error = e]

\* The business columns of a row, which never change.
Kind(t) == IF t \in Openings THEN "OPENING" ELSE Request[t].kind
Amount(t) == IF t \in Openings THEN OpeningRequest[t].balance ELSE Request[t].amount
WalletOf(t) == IF t \in Openings THEN t ELSE Request[t].wallet

Present(t) == wagers[t].status # "NONE"

Event(t, type, n, before, after, version, failure) ==
  [txn |-> t, type |-> type, n |-> n, before |-> before, after |-> after,
   version |-> version, failure |-> failure]

\* A new event has a fresh id: n counts the earlier events of its transaction and type.
NewEvent(t, type, before, after, version, failure) ==
  Event(t, type, Cardinality({e \in outbox : e.txn = t /\ e.type = type}),
        before, after, version, failure)

-----------------------------------------------------------------------------
(* What OpenWallet writes: a wallet and, unless it is empty, the opening     *)
(* operation with its ledger entry and its two events.                      *)

OpeningWallet(w) == [balance |-> OpeningRequest[w].balance, version |-> 1]

OpeningRow(w) == IF OpeningRequest[w].balance = 0 THEN NoRow
                 ELSE [NoRow EXCEPT !.status = "PROCESSED", !.due = TRUE,
                                    !.balance = OpeningRequest[w].balance]

OpeningEntries(w) ==
  IF OpeningRequest[w].balance = 0 THEN {}
  ELSE {[wallet |-> w, txn |-> w, direction |-> "CREDIT", amount |-> OpeningRequest[w].balance,
         before |-> 0, after |-> OpeningRequest[w].balance]}

OpeningEvents(w) ==
  IF OpeningRequest[w].balance = 0 THEN {}
  ELSE {Event(w, "Processed", 0, 0, OpeningRequest[w].balance, 0, Nil),
        Event(w, "BalanceChanged", 0, 0, OpeningRequest[w].balance, 1, Nil)}

Init ==
  /\ wallets = [w \in Openings |-> IF w \in Opened THEN OpeningWallet(w) ELSE NoWallet]
  /\ wagers = [t \in Txns |-> IF t \in Opened THEN OpeningRow(t) ELSE NoRow]
  /\ ledger = UNION {OpeningEntries(w) : w \in Opened}
  /\ outbox = UNION {OpeningEvents(w) : w \in Opened}
  /\ inbox = [m \in Messages |-> Nil]
  /\ lock = [w \in Openings |-> Nil]
  /\ stage = [p \in Actors |-> IF p \in Opened THEN "done" ELSE "idle"]
  /\ tx = [p \in Procs |-> NoTx]
  /\ answer = [p \in Actors |-> NoReply]
  /\ faults = 0

-----------------------------------------------------------------------------
(* The end of a unit of work.                                               *)

\* A call and an opening run once; a worker goes back to polling.
Rest(p) == IF p \in RefWorkers THEN "idle" ELSE "done"

\* The transaction of p ends, its locks are released and its caller is told r.
End(p, r) ==
  /\ stage' = [stage EXCEPT ![p] = Rest(p)]
  /\ answer' = [answer EXCEPT ![p] = r]
  /\ lock' = [w \in Openings |-> IF lock[w] = p THEN Nil ELSE lock[w]]
  /\ tx' = [q \in Procs |-> IF q = p THEN NoTx ELSE tx[q]]

\* The work returned an error: the transaction is rolled back.
Fail(p, e) == End(p, ErrorReply(e)) /\ UNCHANGED store

Goto(p, s) == stage' = [stage EXCEPT ![p] = s]

-----------------------------------------------------------------------------
(* OpenWallet.                                                              *)

\* Variant: the rival is looked for beforehand, there is no index to wait at.
OpenInsertUnwaited(o) ==
  /\ stage[o] = "idle"
  /\ IF OpeningRequest[o].balance < 0 THEN Fail(o, "InvalidWallet")
     ELSE IF \E v \in Openings : wallets[v].version > 0 /\ SameOwner(v, o)
     THEN Fail(o, "WalletConflict")
     ELSE Goto(o, "commit") /\ UNCHANGED <<store, lock, tx, answer>>
  /\ UNCHANGED faults

\* NewWallet, then the INSERT into wallets.  The unique index on player and
\* currency makes it wait for an uncommitted rival.
OpenInsert(o) ==
  /\ stage[o] = "idle"
  /\ ~\E v \in Openings : stage[v] = "commit" /\ SameOwner(v, o)
  /\ IF OpeningRequest[o].balance < 0 THEN Fail(o, "InvalidWallet")
     ELSE IF \E v \in Openings : wallets[v].version > 0 /\ SameOwner(v, o)
     THEN Fail(o, "WalletConflict")
     ELSE Goto(o, "commit") /\ UNCHANGED <<store, lock, tx, answer>>
  /\ UNCHANGED faults

\* The opening row, its entry and its events, and the commit; r is what the caller hears.
OpenWrites(o, r) ==
  /\ stage[o] = "commit"
  /\ wallets' = [wallets EXCEPT ![o] = OpeningWallet(o)]
  /\ wagers' = [wagers EXCEPT ![o] = OpeningRow(o)]
  /\ ledger' = ledger \cup OpeningEntries(o)
  /\ outbox' = outbox \cup OpeningEvents(o)
  /\ UNCHANGED inbox
  /\ End(o, r)

OpenCommit(o) == OpenWrites(o, NoReply) /\ UNCHANGED faults

-----------------------------------------------------------------------------
(* ProcessWager, from the request to the row of its own.                    *)

\* Validation, before the transaction begins.
Begin(c) ==
  /\ stage[c] = "idle"
  /\ IF ValidationError(Request[c]) # "" THEN Fail(c, ValidationError(Request[c]))
     ELSE /\ Goto(c, IF Request[c].msg = Nil THEN "findKey" ELSE "inbox")
          /\ UNCHANGED <<store, lock, tx, answer>>
  /\ UNCHANGED faults

\* c has inserted the inbox row of its message in its open transaction.
Registered(c) == /\ c \in Calls
                 /\ Request[c].msg # Nil
                 /\ stage[c] \notin {"idle", "inbox", "done"}
                 /\ tx[c].pass # "duplicate"

\* Variant: the inbox row is committed on its own, ahead of the financial work.
RegisterAhead(c) ==
  /\ stage[c] = "inbox"
  /\ LET known == inbox[Request[c].msg]
     IN IF known \notin {Nil, Request[c].body} THEN Fail(c, "InboxConflict")
        ELSE /\ Goto(c, "findKey")
             /\ tx' = [tx EXCEPT ![c].pass = IF known = Nil THEN "first" ELSE "duplicate"]
             /\ inbox' = [inbox EXCEPT ![Request[c].msg] = Request[c].body]
             /\ UNCHANGED <<wallets, wagers, ledger, outbox, lock, answer>>
  /\ UNCHANGED faults

\* Variant: a message that is already there is taken for one in progress and polled.
RegisterPolling(c) ==
  /\ stage[c] = "inbox"
  /\ ~\E d \in Calls : Registered(d) /\ Request[d].msg = Request[c].msg
  /\ IF inbox[Request[c].msg] # Nil THEN UNCHANGED <<stage, tx>>
     ELSE Goto(c, "findKey") /\ UNCHANGED tx
  /\ UNCHANGED <<store, lock, answer, faults>>

\* Variant: the body of a known message is not compared.
RegisterAnyBody(c) ==
  /\ stage[c] = "inbox"
  /\ ~\E d \in Calls : Registered(d) /\ Request[d].msg = Request[c].msg
  /\ Goto(c, "findKey")
  /\ UNCHANGED <<store, lock, tx, answer, faults>>

\* Inbox.Register.  An uncommitted rival for the message is waited for.  Rows are
\* completed in the transaction that inserts them, so a committed row is complete.
Register(c) ==
  /\ stage[c] = "inbox"
  /\ ~\E d \in Calls : Registered(d) /\ Request[d].msg = Request[c].msg
  /\ LET known == inbox[Request[c].msg]
     IN IF known \notin {Nil, Request[c].body} THEN Fail(c, "InboxConflict")
        ELSE /\ Goto(c, "findKey")
             /\ tx' = [tx EXCEPT ![c].pass = IF known = Nil THEN "first" ELSE "duplicate"]
             /\ UNCHANGED <<store, lock, answer>>
  /\ UNCHANGED faults

\* wagerResult for a stored row.
Replay(x) == [error |-> Nil, txn |-> x, status |-> wagers[x].status, failure |-> wagers[x].failure,
              balance |-> wagers[x].balance, replay |-> TRUE]

\* Variant: only the key is compared.
FoundReplayByKey(c, x) ==
  IF Request[x].key # Request[c].key THEN Fail(c, "IdempotencyConflict")
  ELSE /\ Goto(c, "commit")
       /\ tx' = [tx EXCEPT ![c].reply = Replay(x)]
       /\ UNCHANGED <<store, lock, answer>>

\* findWagerReplay has found row x.
FoundReplay(c, x) ==
  IF \/ PayloadHash(Request[x]) # PayloadHash(Request[c])
     \/ Request[x].key # Request[c].key
  THEN Fail(c, "IdempotencyConflict")
  ELSE /\ Goto(c, "commit")
       /\ tx' = [tx EXCEPT ![c].reply = Replay(x)]
       /\ UNCHANGED <<store, lock, answer>>

\* findWagerReplay has found nothing.
FoundNothing(c) ==
  CASE tx[c].pass = "first"     -> Goto(c, "wallet") /\ UNCHANGED <<store, lock, tx, answer>>
    [] tx[c].pass = "locked"    -> Goto(c, "insert") /\ UNCHANGED <<store, lock, tx, answer>>
    [] tx[c].pass = "conflict"  -> Fail(c, "IdempotencyConflict")
    [] tx[c].pass = "duplicate" -> Fail(c, "InboxIncomplete")

\* The first SELECT of findWagerReplay.
FindByIdempotencyKey(c) ==
  /\ stage[c] = "findKey"
  /\ LET found == {x \in Calls : Present(x) /\ SameKey(Request[x], Request[c])}
     IN IF found = {} THEN Goto(c, "findExt") /\ UNCHANGED <<store, lock, tx, answer>>
        ELSE \E x \in found : FoundReplay(c, x)
  /\ UNCHANGED faults

\* The second SELECT of findWagerReplay.
FindByExternalID(c) ==
  /\ stage[c] = "findExt"
  /\ LET found == {x \in Calls : Present(x) /\ SameExternalID(Request[x], Request[c])}
     IN IF found = {} THEN FoundNothing(c)
        ELSE \E x \in found : FoundReplay(c, x)
  /\ UNCHANGED faults

\* Variant: the wallet is read without FOR UPDATE.
ReadWallet(c) ==
  /\ stage[c] = "wallet"
  /\ LET w == Request[c].wallet
     IN IF wallets[w].version = 0 THEN Fail(c, "WalletNotFound")
        ELSE /\ tx' = [tx EXCEPT ![c].wallet = w, ![c].base = wallets[w], ![c].pass = "locked"]
             /\ Goto(c, "findKey")
             /\ UNCHANGED <<store, lock, answer>>
  /\ UNCHANGED faults

\* FindByIDForUpdate waits for the row lock and reads the row as it then is.  A
\* wallet that is not committed is not found, without waiting.
LockWallet(c) ==
  /\ stage[c] = "wallet"
  /\ LET w == Request[c].wallet
     IN IF wallets[w].version = 0 THEN Fail(c, "WalletNotFound")
        ELSE /\ lock[w] = Nil
             /\ lock' = [lock EXCEPT ![w] = c]
             /\ tx' = [tx EXCEPT ![c].wallet = w, ![c].base = wallets[w], ![c].pass = "locked"]
             /\ Goto(c, "findKey")
             /\ UNCHANGED <<store, answer>>
  /\ UNCHANGED faults

OwnsWallet(c) == /\ OpeningRequest[Request[c].wallet].player = Request[c].player
                 /\ OpeningRequest[Request[c].wallet].currency = Request[c].currency

RefuseIdentity(c) ==
  /\ stage[c] = "insert"
  /\ ~OwnsWallet(c)
  /\ Fail(c, "WalletIdentityMismatch")
  /\ UNCHANGED faults

\* Variant: no unique index, no conflict.
InsertAlways(c) ==
  /\ stage[c] = "insert"
  /\ OwnsWallet(c)
  /\ Goto(c, "decide") /\ tx' = [tx EXCEPT ![c].txn = c]
  /\ UNCHANGED <<store, lock, answer, faults>>

\* Wagers.Create, INSERT ... ON CONFLICT DO NOTHING.  The two unique indexes make
\* it wait for an uncommitted rival; a committed one leads to the third replay.
Insert(c) ==
  /\ stage[c] = "insert"
  /\ OwnsWallet(c)
  /\ ~\E d \in Calls : tx[d].txn = d /\ SameIdentity(Request[d], Request[c])
  /\ IF \E x \in Calls : Present(x) /\ SameIdentity(Request[x], Request[c])
     THEN Goto(c, "findKey") /\ tx' = [tx EXCEPT ![c].pass = "conflict"]
     ELSE Goto(c, "decide") /\ tx' = [tx EXCEPT ![c].txn = c]
  /\ UNCHANGED <<store, lock, answer, faults>>

-----------------------------------------------------------------------------
(* processWager, shared by ProcessWager and RetryReferences: what becomes   *)
(* of operation t on the wallet that was read as base.                      *)

Wait == [NoOutcome EXCEPT !.status = "PENDING_REFERENCE"]

\* A rejection keeps the reference that was resolved before it.
Rejected(code, x) == [NoOutcome EXCEPT !.status = "REJECTED", !.failure = code, !.reference = x]

Processed(x, direction, after) ==
  [NoOutcome EXCEPT !.status = "PROCESSED", !.reference = x, !.direction = direction,
                    !.after = after]

\* Credit or Debit.  A wallet that cannot move is an error, not a rejection.
Move(q, x, base) ==
  LET direction == Direction(q.kind, IF x = Nil THEN Nil ELSE Kind(x))
  IN IF ~Movable(base) THEN NoOutcome
     ELSE IF direction = "DEBIT" /\ Insufficient(base.balance, q.amount)
     THEN Rejected(IF q.kind = "ROLLBACK" THEN "REVERSAL_INSUFFICIENT_BALANCE"
                                          ELSE "INSUFFICIENT_BALANCE", x)
     ELSE IF direction = "CREDIT" /\ AddOverflows(base.balance, q.amount)
     THEN Rejected("MONEY_OVERFLOW", x)
     ELSE Processed(x, direction, Moved(base.balance, direction, q.amount))

\* FindByExternalID of the reference; t sees its own uncommitted row too.
FindReference(t) ==
  {x \in Calls : /\ Present(x) \/ x = t
                 /\ Request[x].provider = Request[t].provider
                 /\ Request[x].ext = Request[t].ref}

\* Variant: nobody looks for an earlier reversal.
NeverReversed(x) == FALSE

HasSuccessfulReversal(x) ==
  \E y \in Calls : /\ wagers[y].status = "PROCESSED"
                   /\ IsReversal(Request[y].kind)
                   /\ wagers[y].reference = x

\* ResolveReference; an operation is never its own reference.
ResolveReference(t, x) ==
  IF x = t THEN "invalid" ELSE ValidateReference(Request[t], Request[x], wagers[x].status)

WithReference(t, x, base) ==
  CASE ResolveReference(t, x) = "invalid" -> Rejected("INVALID_REFERENCE", Nil)
    [] ResolveReference(t, x) = "notProcessed" ->
         IF IsTerminal(wagers[x].status) THEN Rejected("REFERENCE_UNSUCCESSFUL", Nil) ELSE Wait
    [] OTHER ->
         IF IsReversal(Request[t].kind) /\ HasSuccessfulReversal(x)
         THEN Rejected("ALREADY_REVERSED", x)
         ELSE Move(Request[t], x, base)

ProcessWager(t, base) ==
  IF NeedsReference(Request[t])
  THEN IF FindReference(t) = {} THEN Wait
       ELSE WithReference(t, CHOOSE x \in FindReference(t) : TRUE, base)
  ELSE IF Request[t].kind = "LOSS" THEN Processed(Nil, Nil, base.balance)
  ELSE Move(Request[t], Nil, base)

\* A new row is due for its first retry at once.
Decide(c) ==
  /\ stage[c] = "decide" /\ c \in Calls
  /\ LET o == [ProcessWager(c, tx[c].base) EXCEPT !.due = TRUE]
         r == [error |-> Nil, txn |-> c, status |-> o.status, failure |-> o.failure,
               balance |-> IF o.status = "PROCESSED" THEN o.after ELSE Nil, replay |-> FALSE]
     IN IF o.status = "NONE" THEN Fail(c, "InvalidWallet")
        ELSE /\ Goto(c, "commit")
             /\ tx' = [tx EXCEPT ![c].outcome = o, ![c].reply = r]
             /\ UNCHANGED <<store, lock, answer>>
  /\ UNCHANGED faults

-----------------------------------------------------------------------------
(* RetryReferences.                                                         *)

\* Variant: every due row, whatever has become of it.
AnyDueOn(w) == {t \in Calls : Present(t) /\ wagers[t].due /\ WalletOf(t) = w}

DueOn(w) == {t \in Calls : /\ wagers[t].status = "PENDING_REFERENCE"
                           /\ wagers[t].due
                           /\ WalletOf(t) = w}

\* The snapshot of the first SELECT of ClaimPendingReference: some wallet with a due row.
ClaimScan(p) ==
  /\ stage[p] = "idle"
  /\ \E w \in Openings : DueOn(w) # {} /\ tx' = [tx EXCEPT ![p].wallet = w]
  /\ Goto(p, "claim")
  /\ UNCHANGED <<store, lock, answer, faults>>

\* Variant: the worker goes on without the lock.
ClaimUnlocked(p) ==
  /\ stage[p] = "claim"
  /\ Goto(p, "claimRow")
  /\ UNCHANGED <<store, lock, tx, answer, faults>>

\* Its FOR UPDATE ... SKIP LOCKED: the wallet is locked, or passed over.
ClaimWallet(p) ==
  /\ stage[p] = "claim"
  /\ LET w == tx[p].wallet
     IN IF lock[w] # Nil
        THEN Goto(p, "idle") /\ tx' = [tx EXCEPT ![p].wallet = Nil] /\ UNCHANGED lock
        ELSE Goto(p, "claimRow") /\ lock' = [lock EXCEPT ![w] = p] /\ UNCHANGED tx
  /\ UNCHANGED <<store, answer, faults>>

\* The event of a waiting row, from which the retry takes its tracing metadata.
PendingEvents(t) == {e \in outbox : e.txn = t /\ e.type = "PendingReference"}

\* The row is selected again under the lock; it may have been dealt with since the
\* scan.  Then the wallet is read.
ClaimRow(p) ==
  /\ stage[p] = "claimRow"
  /\ LET w == tx[p].wallet
     IN IF DueOn(w) = {} THEN End(p, NoReply) /\ UNCHANGED store
        ELSE \E t \in DueOn(w) :
               IF PendingEvents(t) = {} THEN Fail(p, "MetadataMissing")
               ELSE /\ Goto(p, "decide")
                    /\ tx' = [tx EXCEPT ![p].txn = t, ![p].base = wallets[w]]
                    /\ UNCHANGED <<store, lock, answer>>
  /\ UNCHANGED faults

\* Variant: the limit is compared with the coming attempt, before it is made.
RetryTooFew(p, t, base) ==
  LET n == wagers[t].attempts
  IN IF n + 1 >= MaxAttempts[p]
     THEN [Rejected("REFERENCE_NOT_FOUND", Nil) EXCEPT !.attempts = n + 1]
     ELSE [ProcessWager(t, base) EXCEPT !.attempts = n + 1]

\* Variant: the last permitted attempt may leave the row waiting.
RetryTooMany(p, t, base) ==
  LET n == wagers[t].attempts
  IN IF n >= MaxAttempts[p]
     THEN [Rejected("REFERENCE_NOT_FOUND", Nil) EXCEPT !.attempts = n, !.due = TRUE]
     ELSE [ProcessWager(t, base) EXCEPT !.attempts = n + 1]

\* Variant: attempts are not counted.
RetryUncounted(p, t, base) ==
  [ProcessWager(t, base) EXCEPT !.attempts = wagers[t].attempts]

\* Worker p on row t: reject at the limit, else schedule the next retry, process, and
\* reject when the last permitted attempt is still waiting.
RetryOutcome(p, t, base) ==
  LET n == wagers[t].attempts
      o == ProcessWager(t, base)
      notFound == Rejected("REFERENCE_NOT_FOUND", Nil)
  IN IF n >= MaxAttempts[p] THEN [notFound EXCEPT !.attempts = n, !.due = TRUE]
     ELSE IF o.status = "PENDING_REFERENCE" /\ n + 1 >= MaxAttempts[p]
     THEN [notFound EXCEPT !.attempts = n + 1]
     ELSE [o EXCEPT !.attempts = n + 1]

RetryDecide(p) ==
  /\ stage[p] = "decide" /\ p \in RefWorkers
  /\ LET o == RetryOutcome(p, tx[p].txn, tx[p].base)
     IN IF o.status = "NONE" THEN Fail(p, "InvalidWallet")
        ELSE /\ Goto(p, "commit")
             /\ tx' = [tx EXCEPT ![p].outcome = o]
             /\ UNCHANGED <<store, lock, answer>>
  /\ UNCHANGED faults

\* The clock reaches next_reference_attempt_at.
Tick(t) ==
  /\ wagers[t].status = "PENDING_REFERENCE" /\ ~wagers[t].due
  /\ wagers' = [wagers EXCEPT ![t].due = TRUE]
  /\ UNCHANGED <<wallets, ledger, outbox, inbox, lock, stage, tx, answer, faults>>

-----------------------------------------------------------------------------
(* The writes of a unit of work and its commit.                             *)

Moves(p) == /\ tx[p].txn # Nil
            /\ tx[p].outcome.status = "PROCESSED"
            /\ Kind(tx[p].txn) # "LOSS"

NewWallet(p) == [balance |-> tx[p].outcome.after, version |-> tx[p].base.version + 1]

\* Variant: a rejection stores the balance it left, like a processed operation.
NewRowWithBalance(p) ==
  LET o == tx[p].outcome
  IN [status |-> o.status, failure |-> o.failure, reference |-> o.reference,
      balance |-> IF o.status = "PENDING_REFERENCE" THEN Nil ELSE o.after,
      attempts |-> o.attempts, due |-> o.due]

NewRow(p) == LET o == tx[p].outcome
             IN [status |-> o.status, failure |-> o.failure, reference |-> o.reference,
                 balance |-> IF o.status = "PROCESSED" THEN o.after ELSE Nil,
                 attempts |-> o.attempts, due |-> o.due]

NewEntries(p) ==
  IF Moves(p)
  THEN {[wallet |-> tx[p].wallet, txn |-> tx[p].txn, direction |-> tx[p].outcome.direction,
         amount |-> Amount(tx[p].txn), before |-> tx[p].base.balance,
         after |-> tx[p].outcome.after]}
  ELSE {}

\* Variant: every retry announces again that the row waits.
RepeatedStatusEvents(p) ==
  LET t == tx[p].txn  o == tx[p].outcome
  IN CASE o.status = "PROCESSED" -> {NewEvent(t, "Processed", 0, o.after, 0, Nil)}
       [] o.status = "REJECTED" -> {NewEvent(t, "Rejected", 0, 0, 0, o.failure)}
       [] OTHER -> {NewEvent(t, "PendingReference", 0, 0, 0, Nil)}

StatusEvents(p) ==
  LET t == tx[p].txn  o == tx[p].outcome
  IN CASE o.status = "PROCESSED" -> {NewEvent(t, "Processed", 0, o.after, 0, Nil)}
       [] o.status = "REJECTED" -> {NewEvent(t, "Rejected", 0, 0, 0, o.failure)}
       [] o.status = "PENDING_REFERENCE" /\ ~Present(t) ->
            {NewEvent(t, "PendingReference", 0, 0, 0, Nil)}
       [] OTHER -> {}

\* Variant: the event carries the version before the movement.
StaleBalanceEvents(p) ==
  IF Moves(p)
  THEN {NewEvent(tx[p].txn, "BalanceChanged", tx[p].base.balance, tx[p].outcome.after,
                 tx[p].base.version, Nil)}
  ELSE {}

BalanceEvents(p) ==
  IF Moves(p)
  THEN {NewEvent(tx[p].txn, "BalanceChanged", tx[p].base.balance, tx[p].outcome.after,
                 NewWallet(p).version, Nil)}
  ELSE {}

\* NewWalletBalanceChanged re-checks the entry, the direction and the version.
EventAccepted(entry, kind, version) ==
  /\ entry.after = Moved(entry.before, entry.direction, entry.amount)
  /\ kind = "BET" => entry.direction = "DEBIT"
  /\ kind \in {"WIN", "REFUND"} => entry.direction = "CREDIT"
  /\ kind # "LOSS" /\ version >= 2

ReferenceKind(p) == IF tx[p].outcome.reference = Nil THEN Nil ELSE Kind(tx[p].outcome.reference)

\* The safeguards that the writes of p, which processes a row, run into.
Violated(p) ==
  LET t == tx[p].txn  w == tx[p].wallet  x == tx[p].outcome.reference
      wallet == IF Moves(p) THEN NewWallet(p) ELSE wallets[w]
      entries == ledger \cup NewEntries(p)
  IN {s \in AllSafeguards :
        CASE s = "WalletConcurrentUpdate" -> Moves(p) /\ wallets[w].version # tx[p].base.version
          [] s = "WagerNotPending" -> Present(t) /\ wagers[t].status # "PENDING_REFERENCE"
          [] s = "CheckViolation" ->
               \/ Present(t) /\ ~TransitionAccepted(wagers[t], NewRow(p))
               \/ ~RowAccepted(Request[t], NewRow(p))
               \/ x # Nil /\ ~ReferenceAccepted(Request[t], Request[x], wagers[x].status)
               \/ \E e \in NewEntries(p) : ~LedgerAccepted(e, Kind(t), ReferenceKind(p), NewRow(p))
          [] s = "UniqueViolation" ->
               \/ /\ NewRow(p).status = "PROCESSED" /\ IsReversal(Kind(t))
                  /\ \E y \in Calls \ {t} : /\ wagers[y].status = "PROCESSED"
                                            /\ IsReversal(Kind(y)) /\ wagers[y].reference = x
               \/ Moves(p) /\ \E e \in ledger : e.txn = t
          [] s = "InvalidEvent" ->
               \E e \in NewEntries(p) : ~EventAccepted(e, Kind(t), NewWallet(p).version)
          [] s = "WalletOutOfBalance" ->
               \/ ~WalletMatchesLedger(wallet, {e \in entries : e.wallet = w}, Openings)
               \/ \E y \in Txns \ {t} : /\ wagers[y].status = "PROCESSED" /\ WalletOf(y) = w
                                        /\ Kind(y) # "LOSS" /\ ~\E e \in entries : e.txn = y}

\* Those of them that are in place refuse the writes.
Refusals(p) == Violated(p) \cap Safeguards

\* All statements that write, and the completion of the inbox row.
Apply(p) ==
  /\ wallets' = IF Moves(p) THEN [wallets EXCEPT ![tx[p].wallet] = NewWallet(p)] ELSE wallets
  /\ wagers' = IF tx[p].txn = Nil THEN wagers ELSE [wagers EXCEPT ![tx[p].txn] = NewRow(p)]
  /\ ledger' = ledger \cup NewEntries(p)
  /\ outbox' = IF tx[p].txn = Nil THEN outbox
               ELSE outbox \cup StatusEvents(p) \cup BalanceEvents(p)
  /\ inbox' = IF Registered(p) THEN [inbox EXCEPT ![Request[p].msg] = Request[p].body] ELSE inbox

\* A replay (txn is Nil) has nothing to refuse.
Refused(p) == tx[p].txn # Nil /\ Refusals(p) # {}

Commit(p) ==
  /\ stage[p] = "commit"
  /\ IF Refused(p) THEN \E s \in Refusals(p) : Fail(p, s)
     ELSE Apply(p) /\ End(p, tx[p].reply)
  /\ UNCHANGED faults

-----------------------------------------------------------------------------
(* Faults: a timeout, a cancelled context, a lost connection or a crash      *)
(* ends a transaction at any point; or it commits and the answer is lost.   *)

Fault == faults < MaxFaults /\ faults' = faults + 1

Abort(p) ==
  /\ stage[p] \notin {"idle", "done"}
  /\ Fail(p, "Unavailable")
  /\ Fault

CommitLost(p) ==
  /\ stage[p] = "commit"
  /\ ~Refused(p)
  /\ Apply(p)
  /\ End(p, ErrorReply("Unavailable"))
  /\ Fault

OpenCommitLost(o) == OpenWrites(o, ErrorReply("Unavailable")) /\ Fault

-----------------------------------------------------------------------------
CallStep(c) ==
  \/ Register(c)
  \/ FindByIdempotencyKey(c)
  \/ FindByExternalID(c)
  \/ LockWallet(c)
  \/ RefuseIdentity(c)
  \/ Insert(c)
  \/ Decide(c)
  \/ Commit(c)

WorkerStep(p) ==
  \/ ClaimScan(p)
  \/ ClaimWallet(p)
  \/ ClaimRow(p)
  \/ RetryDecide(p)
  \/ Commit(p)

\* Every execution has ended and no row waits for anything.
Quiescent ==
  /\ \A p \in Calls \cup Openings : stage[p] = "done"
  /\ \A p \in RefWorkers : stage[p] = "idle"
  /\ \A t \in Calls : wagers[t].status # "PENDING_REFERENCE"

Finished == Quiescent /\ UNCHANGED vars

Next ==
  \/ \E o \in Openings : OpenInsert(o) \/ OpenCommit(o) \/ OpenCommitLost(o)
  \/ \E c \in Calls : Begin(c) \/ CallStep(c) \/ Tick(c)
  \/ \E p \in RefWorkers : WorkerStep(p)
  \/ \E p \in Procs : CommitLost(p)
  \/ \E p \in Actors : Abort(p)
  \/ Finished

Spec == Init /\ [][Next]_vars

\* A transaction that is running goes on (its connection is served, row locks are
\* queued), the workers poll, and the clock moves.  Nobody has to call.
Fairness ==
  /\ \A o \in Openings : WF_vars(OpenCommit(o))
  /\ \A c \in Calls : WF_vars(CallStep(c)) /\ WF_vars(Tick(c))
  /\ \A p \in RefWorkers : WF_vars(WorkerStep(p))

FairSpec == Spec /\ Fairness

-----------------------------------------------------------------------------
(* Types.                                                                   *)

Stages == {"idle", "inbox", "findKey", "findExt", "wallet", "insert", "decide", "commit",
           "claim", "claimRow", "done"}

CallErrors == {"ProviderNotAuthorized", "InvalidWagerTransaction", "ExternalOpening",
               "InvalidWagerMoney", "ReferenceRequired", "InboxConflict", "InboxIncomplete",
               "IdempotencyConflict", "WalletNotFound", "WalletIdentityMismatch",
               "WalletConflict", "InvalidWallet", "MetadataMissing", "Unavailable"}

\* nil is not an error.
ASSUME ErrorAssumption == Nil \notin CallErrors /\ Nil \notin AllSafeguards

EventTypes == {"Processed", "Rejected", "PendingReference", "BalanceChanged"}

WalletType == [balance : 0 .. MaxInt, version : Nat]

RowType == [status : Statuses \cup {"NONE"}, failure : FailureCodes \cup {Nil},
            reference : Calls \cup {Nil}, balance : (0 .. MaxInt) \cup {Nil},
            attempts : Nat, due : BOOLEAN]

OutcomeType == [status : Statuses \cup {"NONE"}, failure : FailureCodes \cup {Nil},
                reference : Calls \cup {Nil}, direction : Directions \cup {Nil},
                after : 0 .. MaxInt, attempts : Nat, due : BOOLEAN]

ReplyType == [error : CallErrors \cup AllSafeguards \cup {Nil}, txn : Calls \cup {Nil},
              status : Statuses \cup {"NONE"}, failure : FailureCodes \cup {Nil},
              balance : (0 .. MaxInt) \cup {Nil}, replay : BOOLEAN]

EntryType == [wallet : Openings, txn : Txns, direction : Directions, amount : 1 .. MaxInt,
              before : 0 .. MaxInt, after : 0 .. MaxInt]

EventType == [txn : Txns, type : EventTypes, n : Nat, before : 0 .. MaxInt,
              after : 0 .. MaxInt, version : Nat, failure : FailureCodes \cup {Nil}]

TxType == [pass : {"first", "locked", "conflict", "duplicate"}, wallet : Openings \cup {Nil},
           base : WalletType, txn : Calls \cup {Nil}, outcome : OutcomeType, reply : ReplyType]

\* Every variable keeps its type.  Balances stay between zero and the largest
\* int64 without help from the CHECK constraints, so Debit and Credit refuse every
\* movement that would leave that range.
TypeOK ==
  /\ wallets \in [Openings -> WalletType]
  /\ wagers \in [Txns -> RowType]
  /\ ledger \subseteq EntryType
  /\ outbox \subseteq EventType
  /\ inbox \in [Messages -> {Request[c].body : c \in Calls} \cup {Nil}]
  /\ lock \in [Openings -> Procs \cup {Nil}]
  /\ stage \in [Actors -> Stages]
  /\ tx \in [Procs -> TxType]
  /\ answer \in [Actors -> ReplyType]
  /\ faults \in 0 .. MaxFaults

-----------------------------------------------------------------------------
(* Safety.                                                                  *)

\* A process that has read a wallet for update holds its row lock and its copy is
\* still what the table says, until its transaction ends (FindByIDForUpdate).
SnapshotFresh ==
  \A p \in Procs : tx[p].base # NoWallet =>
    lock[tx[p].wallet] = p /\ tx[p].base = wallets[tx[p].wallet]

\* The second line of defence is never needed: the Go code never asks for a write
\* that a conditional UPDATE, a constraint, a trigger or an event constructor
\* refuses, whether or not it is in place, never meets an incomplete inbox row and
\* always finds the event of a waiting row.
NoSafeguardFires ==
  /\ \A p \in Procs : stage[p] = "commit" /\ tx[p].txn # Nil => Violated(p) = {}
  /\ \A p \in Actors :
       answer[p].error \notin AllSafeguards \cup {"InboxIncomplete", "MetadataMissing"}

\* The deferred trigger's condition, for every committed wallet: the balance is the
\* signed sum of the ledger and the version counts its entries.
Reconciles ==
  \A w \in Openings : wallets[w].version > 0 =>
    WalletMatchesLedger(wallets[w], {e \in ledger : e.wallet = w}, Openings)

\* An operation exists once: no two rows of a provider share an idempotency key or
\* an external id, whichever wallets and transports the calls came through.
OneRowPerIdentity ==
  \A c, d \in Calls : Present(c) /\ Present(d) /\ SameIdentity(Request[c], Request[d]) => c = d

\* Whoever got a result got the result of the one row of that key, with the same
\* financial content; the first answer is not marked as replay and every other one
\* is; a terminal answer stays true.
AnswersAgree ==
  \A c \in Calls : LET a == answer[c]  t == a.txn IN
    t # Nil =>
      /\ Present(t)
      /\ SameKey(Request[t], Request[c])
      /\ PayloadHash(Request[t]) = PayloadHash(Request[c])
      /\ a.replay <=> t # c
      /\ IsTerminal(a.status) =>
           <<a.status, a.failure, a.balance>> =
             <<wagers[t].status, wagers[t].failure, wagers[t].balance>>

EventsOf(t, type) == {e \in outbox : e.txn = t /\ e.type = type}

\* The outbox tells exactly what happened: one event per final status, one balance
\* event per movement, and one waiting event for a row that waits, however often it
\* is retried.
EventsMatchRows ==
  \A t \in Txns : LET row == wagers[t] IN
    /\ {e.after : e \in EventsOf(t, "Processed")} = {row.balance} \ {Nil}
    /\ {e.failure : e \in EventsOf(t, "Rejected")} = {row.failure} \ {Nil}
    /\ EventsOf(t, "BalanceChanged") # {} <=> row.status = "PROCESSED" /\ Kind(t) # "LOSS"
    /\ row.status = "PENDING_REFERENCE" \/ row.attempts > 0 => EventsOf(t, "PendingReference") # {}
    /\ \A type \in EventTypes : Cardinality(EventsOf(t, type)) <= 1

\* The balance events of a wallet can be put in order by version without gap or
\* duplicate, each starts where the one before it ended, and the last one is the
\* present balance.
BalanceHistory ==
  \A w \in Openings :
    LET history == {e \in outbox : e.type = "BalanceChanged" /\ WalletOf(e.txn) = w}
        first == IF OpeningRequest[w].balance = 0 THEN 2 ELSE 1
    IN /\ {e.version : e \in history} = first .. wallets[w].version
       /\ \A e \in history :
            /\ e.version = first => e.before = 0
            /\ e.version = wallets[w].version => e.after = wallets[w].balance
       /\ \A e, f \in history : /\ e.version = f.version => e = f
                                /\ f.version = e.version + 1 => f.before = e.after

\* A reference is a processed operation of the same wallet, player, currency and
\* round; a processed refund or rollback undoes it exactly, and only one does.
ReversalsUndo ==
  \A y \in Calls : LET x == wagers[y].reference IN
    x # Nil =>
      /\ wagers[x].status = "PROCESSED" /\ SameContext(Request[y], Request[x])
      /\ wagers[y].status = "PROCESSED" /\ IsReversal(Request[y].kind) =>
           /\ \A e, f \in ledger : e.txn = x /\ f.txn = y => Signed(e) + Signed(f) = 0
           /\ \A z \in Calls : wagers[z].status = "PROCESSED" /\ wagers[z].reference = x
                               /\ IsReversal(Request[z].kind) => z = y

\* A terminal row never changes; a retry that leaves a row waiting counts one
\* attempt and leaves at least one more below the limit of its worker; history is
\* only appended to.
RowStep(t) ==
  LET old == wagers[t]  new == wagers'[t]
  IN new # old =>
       /\ ~IsTerminal(old.status)
       /\ IsTerminal(new.status) \/ new.status = "PENDING_REFERENCE"
       /\ new.status = "PENDING_REFERENCE" /\ new.attempts # old.attempts =>
            /\ new.attempts = old.attempts + 1
            /\ \E p \in RefWorkers : stage[p] = "commit" /\ tx[p].txn = t
                                     /\ new.attempts < MaxAttempts[p]

RowLifecycle == [][/\ \A t \in Txns : RowStep(t)
                   /\ ledger \subseteq ledger' /\ outbox \subseteq outbox'
                   /\ \A m \in Messages : inbox[m] # Nil => inbox'[m] = inbox[m]]_vars

\* No operation is given up as having no reference while its processed reference is
\* there to be used, unless the row had used up the attempts of its worker before,
\* under a limit that has been lowered since.
GivesUpOnlyWithout ==
  [][\A t \in Calls :
       wagers'[t].failure = "REFERENCE_NOT_FOUND" /\ wagers[t].failure = Nil =>
         \/ ~\E x \in Calls \ {t} :
                ValidateReference(Request[t], Request[x], wagers[x].status) = "ok"
         \/ \E p \in RefWorkers : /\ stage[p] = "commit" /\ tx[p].txn = t
                                  /\ wagers[t].attempts >= MaxAttempts[p]]_vars

-----------------------------------------------------------------------------
(* Liveness, under FairSpec.                                                *)

\* Every call that started is answered: nobody waits forever for an inbox row, a
\* wallet or a unique key.
EveryCallAnswered == \A c \in Calls : stage[c] # "idle" ~> stage[c] = "done"

\* An operation that waits for its reference is decided in the end.
PendingResolved ==
  \A c \in Calls : wagers[c].status = "PENDING_REFERENCE" ~> IsTerminal(wagers[c].status)

-----------------------------------------------------------------------------
(* What the calls of ProcessWager promise, without statements and locks.    *)

Promise == INSTANCE ExactlyOnce WITH
             Content <- [c \in Calls |-> PayloadHash(Request[c])],
             done <- {c \in Calls : Present(c)},
             told <- {c \in Calls : answer[c].txn # Nil},
             refused <- {c \in Calls : answer[c].error \in {"InboxConflict", "IdempotencyConflict"}}

\* The statements, locks and unique indexes of ProcessWager amount to one atomic step:
\* an operation takes effect once, together with its message, and nobody is told a result
\* that conflicts with what is stored.
ImplementsExactlyOnce == Promise!Spec
=============================================================================
