# A verification model of the wagering backend

The repository is a Go service that keeps wallets of players and processes wager
operations (`BET`, `WIN`, `LOSS`, `REFUND`, `ROLLBACK`) that game providers send over
HTTP and over an SQS queue. Everything durable is in PostgreSQL; several instances of
the service run against the same database. This directory holds TLA+ modules translated
from the code, TLC configurations that check them on small instances, and proofs checked
by TLAPS for every instance.

All paths below are relative to the repository.

## 1. Inventory

| Component | Source | State it keeps | Operations | Correct when |
|---|---|---|---|---|
| Money | `internal/domain/money.go` | an `int64` of cents and a currency | `NewMoney`, `Add`, `Sub`, `Negate`, `String` | no operation wraps around, none is refused without need |
| Domain rules | `internal/domain/wager_transaction.go`, `wallet.go`, `wallet_ledger_entry.go`, `events.go` | the entities in memory | validation, `ResolveReference`, `Debit`, `Credit`, status transitions, event constructors | they agree with the rules the database states independently |
| OpenWallet | `internal/application/open_wallet.go` | – | create a wallet, with its opening operation, ledger entry and events unless it is empty | one wallet per player and currency, accounts complete from the start |
| ProcessWager | `internal/application/process_wager.go` | – | one operation, from HTTP (`Execute`) or SQS (`ExecuteMessage`) | processed once however often and wherever it is sent; same answer to everybody; reversals undo exactly once |
| RetryReferences | `internal/application/retry_references.go`, `internal/infrastructure/postgres/reference_repository.go` | attempts and due time of waiting rows | claim a waiting row, process it again, give up at the limit | neither too early nor too often, concurrently with calls and other workers |
| Repositories, unit of work | `internal/infrastructure/postgres` | transactions, row locks | SQL statements inside one transaction | nothing half-done survives |
| Schema | `migrations/*.up.sql` | tables `wallets`, `wager_transactions`, `wallet_ledger_entries`, `inbox`, `outbox` | CHECKs, unique indexes, triggers, deferred checks | the last line of defence: never needed |
| Outbox publication | `internal/application/publish_outbox.go`, `outbox_publisher_repository.go`, `workers/outbox_worker.go`, `messaging/sqs.go` | lease, token, attempts per event | claim, publish, mark published, retry | every event sent at least once, never marked unsent, a stale publisher changes nothing |
| SQS consumer | `internal/infrastructure/messaging/sqs_consumer.go`, `wager_message.go`, `workers/wager_worker.go` | the message being handled | receive, check, handle, change visibility, delete, release on shutdown | acknowledged only after commit; operations of a wallet in order; every message comes to an end |
| Reference worker | `internal/infrastructure/workers/reference_worker.go` | – | poll `RetryReferences` with a timeout per attempt | no row is given up early, none is held up for ever |
| Ledger pages | `internal/application/list_ledger.go`, `wallet_queries.go` | a cursor held by the client | read a page | no entry twice, none skipped that was there at the start |
| Reconciliation | `internal/application/reconcile_wallet.go` | – | compare balance and ledger in one snapshot | no false alarm while movements commit |
| HTTP API | `internal/infrastructure/httpapi/api.go`, `errors.go` | – | decode, call, encode | one verdict for a request and its repetitions |
| Server lifecycle, wiring | `httpapi/server.go`, `cmd/api/main.go` | the stopping flag, running requests, the stop hooks of fx | serve, stop | nothing is closed under a running request or worker |
| Authentication, metrics, configuration, queue policy | `auth`, `observability`, `iam_policy.go` | – | – | only the authenticated provider enters the model |

How they interact. HTTP handlers, the SQS consumer and the reference worker call use
cases; a use case runs as one database transaction at READ COMMITTED. They meet only in
the database: at the row lock of a wallet (`SELECT ... FOR UPDATE`), at the unique indexes
of an operation (provider and key, provider and external id), at the primary key of the
inbox, and at the partial unique index on successful reversals. A use case writes events
into the outbox in its own transaction; the outbox worker sends them afterwards, outside
of any financial transaction.

What is hard. Concurrency of equal requests across transports and wallets; reads before a
lock that are used after it; operations that arrive before what they refer to; a retry
limit that differs between instances; a transaction that is aborted at any statement and a
commit whose answer is lost; messages that are delivered again while, or after, they are
processed; two independent statements of the same business rules, in Go and in SQL;
timestamps from the clocks of several instances; a visibility timeout that runs while a
message is processed; a stop while all of that is going on.
`PROJECT.json` lists each hazard at its line with the properties that would notice it
going wrong, and says so where none does yet.

## 2. Modules

```
ExactlyOnce             what ProcessWager promises: one atomic step
  ^ implemented by        ^ relied upon by
  |                       WagerConsumer   FIFO queue and consumers   MCWagerConsumer    ConsumerProofs
  |
EventDelivery           what PublishOutbox promises: delivery at least once
  ^ implemented by
  |
OutboxPublisher         leases, attempts, late statements     MCOutboxPublisher         OutboxProofs

Money                   int64 amounts and overflow guards
  Backoff               delays before the next attempt
    Arithmetic          values and policies, step by step     (checked as it is)        WageringProofs
  WagerDomain           rules of the domain package
    WagerSchema         rules of the database, from the SQL
      Wagering          calls, openings, workers, database                              WageringProofs, AccountProofs
        WagerHttp       what a client sees of it              MCWagering                AccountProofs
ReferenceQueue          waiting rows in time, and clocks      MCReferenceQueue          QueueProofs
WalletQueries           ledger pages and reconciliation       MCWalletQueries           QueryProofs
ServerLifecycle         the stop of a process                 MCServerLifecycle         LifecycleProofs
```

`SumProofs` holds the facts about sums over finite sets that `AccountProofs`, `OutboxProofs`,
`ConsumerProofs` and `QueueProofs` use.

**Money** gives each guard comparison for comparison and each result as a machine
integer of a parameterised width (`Wrap`). **Backoff** computes the three delays (outbox,
waiting references, failed messages) as their loops do, in the same arithmetic.
**Arithmetic** takes a value through all sequences of operations beside the mathematical
integer it stands for, and goes through policies and attempt numbers; it is a specification
with the width as parameter, for TLC and for the proofs.

**WagerDomain** holds what needs no storage: admission of a request (`ValidationError`),
`PayloadHash` (the content that counts as the same operation), `ValidateReference`, the
direction of a movement and when it is refused.

**WagerSchema** is written from the migrations alone. Go and SQL state the same rules
twice; keeping two translations lets the model ask whether they agree.

**Wagering** is the processing core.

* A call `c` is one execution of `ProcessWager` for `Request[c]`, and the id of the row it
  inserts. Client retries, SQS redeliveries and duplicates are further calls with an equal
  request. An opening `o` is one execution of `OpenWallet` and the id of the wallet. A
  worker `p` repeats `RetryReferences`.
* Committed state: `wallets` (balance and version), `wagers` (the columns that change:
  status, failure code, resolved reference, result balance, attempts, and whether the row
  is due), `ledger`, `outbox`, `inbox`. The business columns of a row never change and are
  read from the request.
* `stage[p]` is the next statement of process `p`, `tx[p]` what its open transaction has
  read and decided, `lock[w]` who holds the row lock of a wallet, `answer[p]` what its
  caller was told.
* One action is one SQL statement that another transaction can come before or after:
  `Register` (inbox), `FindByIdempotencyKey` and `FindByExternalID` (`findWagerReplay`, used
  in four places, told apart by `tx.pass`), `LockWallet`, `RefuseIdentity`, `Insert`,
  `Decide` (`processWager`), `Commit`. Statements that run under a lock that excludes
  everybody else are merged: all writes happen in `Commit`, because nobody can see them
  earlier and those who would meet them wait (`Register`, `Insert`, `LockWallet` and
  `OpenInsert` are not enabled while an uncommitted rival holds the row or the key).
* The worker claims as the code does: a scan that yields a wallet (`ClaimScan`), its lock
  or nothing (`ClaimWallet`, SKIP LOCKED), the row again under the lock (`ClaimRow`).
* Faults: `Abort` ends a transaction at any stage without a trace (timeout, cancelled
  context, lost connection, crash); `CommitLost` and `OpenCommitLost` commit and tell the
  caller an error.
* `Violated` are the safeguards that the writes of a process run into: conditional UPDATEs,
  CHECKs, triggers, unique indexes, the deferred comparison of wallet and ledger, the
  checks of event constructors. The constant `Safeguards` says which of them are in place
  and refuse the writes (`Refusals`). The runs about accounts have none in place:
  `NoSafeguardFires` says that none would have refused anything, and the accounts must be
  right all the same.

**ExactlyOnce** says what that amounts to for those who call: an operation takes effect in
one step (`Take`), once, together with its message; the answer may be lost
(`TakeUnheard`); a conflict is told only if there is one (`Refuse`). `Wagering` implements it
(`ImplementsExactlyOnce`): `done` are the calls whose row is stored, `inbox` the committed
inbox, `told` and `refused` follow from the answers.

**WagerHttp** adds the status codes that `api.go` and `errors.go` give to those answers, and
`getTransaction`, which reads a row back through the validation of the domain
(`Rehydrates`).

**WagerConsumer** is the SQS queue and its consumers, composed with `ExactlyOnce` in the
place of the core.

* SQS is modelled from the calls that the code makes: FIFO groups, visibility timeouts,
  receipts that expire, the count of receives and the redrive to the dead-letter queue.
  `hidden`, `receives`, `deleted` and `dead` are its state, with the time to visibility as a
  timer.
* `stage[p]`, `held[p]` and `deadline[p]` are the message loop of instance `p`: `Receive`,
  `Check` (parse, sender, group), `Execute`, `Delete`, `Postpone` (retry delay or, for a
  permanent error, none), `Pause`, and `Release` when it is told to stop, with a context of its
  own. `Accepts` is the validation of the configuration.
* Faults: the answer of any call is lost, a call fails before or after it had its effect, a
  process dies (`Crash`), a transaction goes on without its caller (`running`, `Settle`), and
  time passes beyond a deadline. `blame` counts them per message, so that properties can say
  what excuses a late or dead message. Shutdowns are counted in `stops`.

**OutboxPublisher** is `PublishOutbox` in several worker instances.

* `rows` is the outbox table: whether an event is there and published, its attempts, the
  token of its lease, and as timers what is left of `next_attempt_at` and `locked_until`.
  `Create` stands for the commit of the core that writes the event; `Wagering` checks which
  events are written (`EventsMatchRows`), `OutboxPublisher` that they are sent.
* `stage[p]`, `claimed[p]` and `deadline[p]` are an attempt: its next statement, what `Claim`
  returned, and what is left of its context. `Claim`, `MarkPublished` and `Retry` are one SQL
  statement each, with its own commit, and one action each.
* A context that ends (`Expire`), a process that dies and a statement that fails (`Crash`)
  leave the current statement behind. It may have had no effect, or it goes into `late` and
  has it at any later time, with the clock of that moment: the database does not know
  that its caller has gone.
* `Accepts` is the validation of the configuration; each instance has its own. An instance
  with a refused configuration does not start.
* `Tick` lets one unit of time pass in every timer. The lease runs on the clock of the
  database, the context on the clock of the worker. They are taken to run at the same
  rate; offsets do not matter, since both are durations. An attempt may overrun its context
  at any statement, and that counts as a fault, like a crash or a failed send.

**EventDelivery** is what those who read the events queue may rely on, without leases, attempts
and statements: an event is `Create`d by the core, sent (`Send`) only after that, marked (`Mark`)
only after it was sent and for good, and each copy too many has its fault (`Balanced`).
`OutboxPublisher` implements it (`ImplementsDelivery`) with the status column of a row for the
status of its event; claims, reschedulings and statements that find nothing to change are
stutters.

**ReferenceQueue** looks at `RetryReferences` in time, where `Wagering` looks at its
statements: the order of claims (`next_reference_attempt_at`, the oldest due row whose
wallet is not locked), the delays, and the timestamps that instances write from their own
clocks (`Lag`). `broken` are wallets whose `updated_at` is before their `created_at`, which
`RehydrateWallet` refuses to read.

**WalletQueries** is one wallet with movements that lock, stamp and commit, a client that
walks its ledger by cursor with changing page sizes (two statements per page), and the
reconciliation, which reads balance and ledger in one statement.

**ServerLifecycle** is the end of a process: the flag and the wait group of the handler,
`http.Server.Shutdown` from how it is used, the hooks that cancel and await the workers, the
pool, and the time fx gives to all of them together.

Abstractions. Strings, UUIDs and identifiers are members of small sets; `PayloadHash`
stands for the digest by the content it digests, so hash collisions are excluded. In
`Wagering`, time is abstracted to `due`: `Tick` lets a scheduled retry become due at any later
moment, so every backoff is covered; the order in which due rows are claimed is left open,
which covers the `ORDER BY`. Currencies and players are compared only where the code compares
them.

Variants (operators with a comment that begins "Variant") are plausible mistakes in one
definition; they are used by no specification. `PROJECT.json` pairs each property with the
variant that breaks it.

## 3. Runs

A run of `MCWagering` looks at several scenarios, a scenario being a set of executions and a
number of faults; it chooses one at the start. `MCWagerConsumer` likewise chooses the
messages that may be sent.

| Run | Configuration | Instance | What it shows |
|---|---|---|---|
| arithmetic | `Arithmetic.cfg` | an 8-bit integer, every value and second operand; `Wholes` 0 .. 3 as integer parts of what is parsed; every back-off policy within 1 .. 127, attempts 1 .. 9 | `Exact`: a value never wraps around and nothing representable is refused. `PrintsWhatItReads`: `String` and `NewMoney` agree, the smallest value included. `DelaysExact`: each delay is the first one doubled and capped, with no overflow on the way |
| calls | `Calls.cfg` | Duplicates: one operation over HTTP and twice over SQS, a rival on another wallet, another body under the message id, 2 faults. Strangers: calls for somebody else's wallet, one of them repeated, and from somebody else's provider, while the wallet may be opened. Clients: a bet twice, its refund, and a call that mixes their identities, while two openings of the player race, 1 worker. Bettors: a bet, and another one sent twice, of which the balance covers one. No safeguard | rows are unique, answers and what is found afterwards agree, a request and its repetitions have one status code once an answer is final (`OneVerdict`, no 500 included), balance events can be ordered, one wallet per owner, and `Wagering` implements `ExactlyOnce` |
| accounts | `Accounts.cfg` | Reversals: bet, refund, rollback, rollback of the refund, workers with limits 2 and 1. Interrupted: the same without the last, 1 fault. Balances: bets of 40 on a balance of 60, a win of 50 with the largest amount 100, its rollback. References: bets, a refund, a self-reference. No safeguard | balances stay in range, locks protect what was read, accounts reconcile, rows follow their life cycle, events tell what happened, reversals undo once, nothing is given up while its reference is there |
| waiting | `Waiting.cfg` | HTTP and two deliveries of a bet, a win that may come first; 1 worker; 1 fault; fairness | every started call is answered; waiting operations are decided |
| outbox | `Outbox.cfg` | 2 events, 3 publishers with leases 2, 3 and 2 for attempts of 1, 2 and 2 (the last refused), 2 faults, fairness | a live attempt owns its event; every duplicate has its fault; `OutboxPublisher` implements `EventDelivery`, so nothing is marked unsent or unmarked again; the counter saturates; every event is published in the end |
| consuming | `Consuming.cfg` | 2 consumers and one that is misconfigured; a message and one that follows it, is in a wrong group, reuses its id or comes from nobody known; 1 fault, 1 shutdown, 2 receives, fairness | acknowledged only after commit, in order within a wallet, nothing invisible without reason, dead letters only with their faults, and every message comes to its end |
| references | `References.cfg` | 3 waiting operations on an old and a new wallet, 2 instances of which one lags, 3 attempts, 3 calls that lock a wallet, fairness | each row has the whole time of its attempts and is decided in the end |
| clocks | `Clocks.cfg` | the same, the new wallet being opened through the instance whose clock is ahead | **violated**: a row waits for ever (finding 2) |
| unreadable | `Unreadable.cfg` | the same | **violated**: a committed wallet cannot be read (finding 1) |
| queries | `Queries.cfg` | 4 movements by 2 instances of which one lags, pages of 1 or 2 | entries that were there are listed once; a walk is the ledger of one moment where clocks agree; no false alarm |
| shutdown | `Shutdown.cfg` | 2 requests of 10 s, workers that end in 8, 0 and 5 s, 15 s for the hooks, fairness | the pool closes after its users, no request is cut off, the stop ends |
| stop_timeout | `StopTimeout.cfg` | the same | **violated**: the time of fx ends before the hooks have returned (finding 3) |

Findings.

1. `Credit` and `Debit` take `updated_at` from the clock of the instance that moves the
   balance, `NewWallet` takes `created_at` from the one that opens the wallet, and nothing
   compares them before the commit. `RehydrateWallet` (`internal/domain/wallet.go:137`) then
   refuses what was stored: with clocks two seconds apart, a wallet that is opened and moved at
   once cannot be read any more.
2. A waiting row on such a wallet is never rejected, although `ARCHITECTURE.md:158` says that
   waiting ends in `REFERENCE_NOT_FOUND`: the attempt is counted after the wallet is read, in
   the transaction that fails. It stays the first row that is due and holds up the others.
3. The hooks of a stop share fifteen seconds, but a request may take ten, a rollback five
   and a release three. The order that `ARCHITECTURE.md:232` promises is kept only when they
   take less; what holds in any case is `PoolOutlivesUsers` and `StopEnds`.

Bounds and why they suffice. Two equal calls already race in every way; the third and
fourth are there so that a duplicate meets a row in each state (uncommitted, committed,
aborted) and on another wallet. Two workers give every race for a claim. Two attempts reach
the limit, the step before it, and one step beyond in the lowered case. One fault ends any
one transaction anywhere; in Duplicates a second one hits the retry. Money bounds are
chosen so that each guard is met from both sides. `MaxFaults`, `MaxStops`, `MaxCalls` and
`MaxTime` bound what the environment does; attempts are bounded by `MaxAttempts`, receives
by `MaxReceives`. Deadlock is checked in every run: the model stops only where nobody waits
for anything (`Finished`, `MCQuiescent`, `Idle`, `Ended`); the workers poll for ever. In
`calls`, calls with equal requests are interchangeable (`Repeats`), which is all that the
symmetry uses; its properties are invariants and one step property, no liveness.

In `outbox` two publishers that accept their configuration race for a lease, and one of
them has attempts of two units, so that a lease can run out under a late statement and under
an attempt that overran, while another instance holds the next one. Two events let a
publisher work on one while the other is waiting. `MaxAttempts` is 2, so the third claim meets
the saturated counter. The pool of seven tokens is never exhausted: each fault leaves at
most one statement behind, and publishers and rows hold the others.

In `consuming` the visibility timeout (3) leaves just the room that the validation asks for
over processing and delete (1 and 1), and two receives lead to the redrive, so a fault and a
shutdown together can exhaust them. In `references` the delays 1 and 2 make a window of
three, within which a lag of two and a locked wallet matter. In `queries` four entries and
pages of at most two give a walk of several pages that is overtaken at each of them.

Fairness. `waiting`: weak fairness of each process that has begun, of each worker and of the
clock. A transaction that runs is served by its connection; row locks and index waits are
granted when they are free; the workers' loops poll for ever; the clock moves. Nobody is
obliged to call, and faults are finite in number, so a call that is aborted has been
answered and a worker comes back. A wallet lock that is free only now and then is not
assumed to be granted, and the run shows that it need not be: calls are finite in number
and each ends.

`outbox`: weak fairness of each worker's loop and strong fairness of the clock. The
clock is held up only by an attempt that may not overrun because the faults are used up;
such an attempt ends, and between two attempts that find nothing a worker sleeps
(`PollInterval`), so polling cannot stop the clock. That time passes while the worker is idle is
what strong fairness says. Statements in `late` need never be executed, and a send need
never succeed while faults remain.

`consuming`: weak fairness of each consumer's loop, in which an instance that ended is
started again (Compose restarts it), of the redrive and of the clock. A transaction that runs
without its caller need never settle, and nobody has to send. `references`, `clocks`: weak
fairness of the workers, of the end of a transaction that holds a lock, and of the clock;
references need never arrive. `shutdown`, `stop_timeout`: the hooks run, handlers and workers
keep their deadlines, time passes; nobody has to stop the process.

## 4. Proofs

TLAPS checks eight modules: `WageringProofs` and `AccountProofs` about the core and what a
client sees of it, `OutboxProofs`, `ConsumerProofs`, `QueueProofs`, `QueryProofs` and
`LifecycleProofs` about the other parts, and `SumProofs` with facts about sums. `WageringProofs` also has the arithmetic, which the core rests on. They hold for
any sets of calls, wallets and requests, any number of workers, consumers, publishers,
messages and events, any limits, delays, durations, page sizes and configurations, clocks that
lag as they like, any number of faults, any width of the integer and any choice of
`Safeguards`. Every invariant, action property and refinement that a passing run checks is also
a theorem; what is left to TLC alone is liveness.

| Theorem | States | Module |
|---|---|---|
| `AddExact`, `SubExact`, `ParseExact` | a guard of `Money` refuses exactly the results that do not fit; what passes is computed without wrapping around, and the subtraction inside a guard does not wrap either | `WageringProofs` |
| `MoneyIsExact`, `PrintedIsRead` | `Exact` and `PrintsWhatItReads` of every sequence of operations, for every width | `WageringProofs` |
| `DelayExact`, `MessageDelayExact`, `DelaysAreExact` | each delay is the first one doubled and capped, for every policy and attempt (`DelaysExact`) | `WageringProofs` |
| `Invariance`, `TypeCorrect`, `SnapshotsFresh`, `RowsUnique` | `IInv`, `TypeOK` (so no balance ever leaves `0 .. MaxInt`), `SnapshotFresh`, `OneRowPerIdentity` | `WageringProofs` |
| `ExactlyOnceImplemented` | `Spec => ImplementsExactlyOnce`, the refinement | `WageringProofs` |
| `BookInvariance`, `WalletsReconcile`, `HistoryUnbroken`, `EventsExact`, `ReversalsExact` | `AllInv`, `Reconciles`, `BalanceHistory`, `EventsMatchRows`, `ReversalsUndo` | `AccountProofs` |
| `SafeguardsSilent` | `NoSafeguardFires`: no CHECK, trigger, unique index, conditional UPDATE or event constructor refuses what the Go code writes | `AccountProofs` |
| `RowsProgress`, `GivenUpRightly` | the action properties `RowLifecycle` and `GivesUpOnlyWithout` | `AccountProofs` |
| `AnswersTrue`, `WhatIsToldIsShown`, `HttpInvariance`, `OneWalletEach`, `OneVerdictHolds` | `AnswersAgree`, `ToldIsShown`, `HttpInv`, `OneWalletPerOwner`, `OneVerdict` | `AccountProofs` |
| `PublisherTypes`, `OwnersAreAlone`, `NothingIsLost`, `DuplicatesHaveFaults` | `TypeOK`, `AttemptOwnsEvent`, `PublishedWasSent`, `DuplicatesNeedFaults` | `OutboxProofs` |
| `DeliversAtLeastOnce` | `Spec => ImplementsDelivery`, the refinement | `OutboxProofs` |
| `AcknowledgedIsCommitted`, `QueueInvariance`, `ConsumerTypes`, `OperationsInOrder`, `NobodyHidesInVain`, `NothingIsGivenUpLightly` | `AckedIsCommitted`, `QInv`, `TypeOK`, `CommitsInOrder`, `HiddenIsHeld`, `DeadLettersNeedFaults` | `ConsumerProofs` |
| `CoreIsRespected`, `VerdictsStand` | `Spec => Core!Spec`; an operation takes effect once, and nothing is both processed and refused | `ConsumerProofs` |
| `QueueTypes`, `GivenUpAfterTheWindow` | `TypeOK`, `WaitsFullWindow` | `QueueProofs` |
| `UnreadableOnlySoon`, `AlignedClocksKeepWallets` | which step can make a wallet unreadable (`Breaking`); where clocks agree, none does | `QueueProofs` |
| `QueryInvariance`, `WalksListOnce`, `WalksAreSnapshots`, `ReconciliationIsQuiet` | `QryInv`, `ListsOnce`, `WalkIsSnapshot`, `NoFalseAlarm` | `QueryProofs` |
| `PoolClosesLast` | `PoolOutlivesUsers` | `LifecycleProofs` |
| `RequestsAreAnswered`, `TimeSuffices` | how long `StopTimeout` must be for no request to be cut off, and for the whole stop to be orderly | `LifecycleProofs` |

`NothingIsLost` (`PublishedWasSent`) is a part of `DeliversAtLeastOnce` and is listed because its
invariant is needed for it. Findings 1 to 3 are about instances on which a property fails;
`AlignedClocksKeepWallets`, `UnreadableOnlySoon` and `TimeSuffices` say how far they reach.

Hardly any of these properties is inductive. What follows says what each proof adds to them.

**Arithmetic** (`WageringProofs`). `Exact` is inductive, by `AddExact`, `SubExact`, `ParseExact`
and the one value that `Negate` refuses. The delays are recursive functions: that such a
function exists, and is what its equation says, is shown by looking for a least argument at which
no function agrees with the equation up to there, which needs no induction theorem. The loop then
has two phases: as long as doubling stays below the limit its value is the power of two, from then
on it is the limit, and the overflow guard is what makes the second phase begin in time.

**Locks and identities** (`IInv` in `WageringProofs`).

* `TypeInv`: types, and the outbox is finite (needed for `Cardinality` in `NewEvent`).
* `Control`: only admitted requests are processed (`Admitted`), which row and wallet a
  transaction has at each stage (`Working`), and that a decision is made once and moves a
  positive amount within range (`Decided`). Without `Admitted`, amounts could be negative
  and a debit could raise a balance beyond the range.
* `LockInv`: whoever has a snapshot holds the lock and the stored wallet equals the
  snapshot; a wallet that is still being opened is not stored. Two processes cannot hold
  one lock, so a commit of one leaves the snapshots of the others alone.
* `UniqueInv`: besides stored rows, rows in open transactions clash neither with stored
  rows nor with each other. That is what the waiting in `Insert` maintains, and what makes
  the commit of an inserted row safe.

There is one lemma per action and `StepKeeps` combines them.

**The refinement** (`CallInv` in `WageringProofs`). `IInv` knows the rows, not the answers.
`CallInv` adds, per call, what it knows of its message (not there if it inserted it, complete
if it met it), that a replay after a conflict at the unique indexes will find the rival, that a
call about to answer has its own row or the stored row of the same content, that one open
transaction at most has inserted a message, and that nobody is told anything before the end.
With it every step of a call but the last leaves the promise alone, a commit is `Take` or
`TakeUnheard` (it conflicts with nothing: a new row by `UniqueInv`, a replay because the row it
answers with is the only one of its identity), a conflict error is `Refuse`, and openings,
workers and the clock are stutters.

**The books** (`BookInv` in `AccountProofs`). `Books` is about committed state: what the
columns of a row say together (`RowsFit`), that nothing is reversed twice (`ReversedOnce`), that
entries and events are those of the rows and no others (`LedgerFits`, `EventsFit`), that
balances are the sums of entries (`Reconciles`) and form one history (`BalanceHistory`). `Works`
is what makes it last: what the decision of an open transaction promises of the row, entry and
events that it is going to write (`DecisionFits`), how attempts were counted (`Counted`), and
that the reply is that of the row (`ReplyAgrees`). It stays true while other processes commit,
because whatever a decision was based on is protected by the lock: the references and reversals
of an operation lie on its own wallet, and nobody else writes rows or entries of that wallet.
A write that keeps the books meets no safeguard, so `Violated` is empty at every commit, and the
proof goes through with no safeguard in place. That is what `SafeguardsSilent` says: constraints
and triggers find nothing to refuse in what the Go code writes.

**What clients are told** (`HttpInv` in `AccountProofs`). An answer must stay compatible with
later ones to an equal request. The invariant remembers, for every refusal, a reason that is
there for good (`Because`): a request that is invalid stays so, a rival row with the same key
or external id stays (`Rivalled`), the owner of a wallet never changes. The one refusal that
looks at a state that could change is the version of a wallet that cannot grow any more: that
wallet is never moved again, and nothing that it would have needed goes away (`Undecidable`,
`Unstored`). `OneVerdict` follows: besides 202, 503 and 404 an equal request is answered with
200 only, or 422 only, or with refusals only, and never with 500.

**Publication** (`PInv` in `OutboxProofs`). `AttemptOwnsEvent` says that the row of a live
attempt carries its token and a lease longer than what is left of the attempt. To keep it,
others must be unable to touch the row: `Available` refuses it while the lease lasts, and
`MarkPublished` and `Retry` of others, late ones included, need the token. So `PInv` adds
`Apart` (a token belongs to one attempt or one statement that was left), `Busy` (what an
attempt holds at each stage, and that its configuration was accepted and its deadline is
within the timeout, which makes a new lease longer than the attempt) and `Left` (what a
statement that was left carries). `Tick` brings the lease and the deadline down together.
`PublishedWasSent` becomes inductive with the attempts and statements that are about to mark
an event (`MarksAreSent`). `DuplicatesNeedFaults` is a balance, `SendsExplained`: all sends
made, plus those that may still come from statements that were left or attempts that are over,
are no more than the events that are published, plus the live attempts about to mark one, plus
the faults.

The refinement (`DeliversAtLeastOnce`) needs two things more. A row changes its status only
from absent to pending and from pending to published (`Seen`): a statement that is executed late
could only disturb that if it acted on an event that was never created, which `ClaimsExist`
excludes. A `Mark` needs a send before it, which is `MarksAreSent`, and a `Send` must keep the
balance, which is `SendsExplained` after the step. Faults that change nothing in the table and
send nothing are `Fail`.

**The queue of operations** (`ConsumerProofs`). `AckInv` adds to `AckedIsCommitted` that a
worker at `delete` holds a message that is committed; lemma `CommittedStays` makes it hold until
then. `QInv` says that each delivery has a receipt of its own, and that of two messages of a
group the later was received only after the earlier had left the queue (`InOrder`), whence
`CommitsInOrder`. `HInv` remembers who hid a message: a worker that has it, or a fault or a
shutdown that was counted. `DInv` keeps the account of deliveries: each one of a message that is
still in the queue has had a fault or a shutdown of its own, except for at most one whose worker
has the time to delete it before the visibility timeout ends (`FreshHolder`). The bound that
`ConsumerConfig.validate` puts on the processing timeout is what makes that time suffice, and
the proof needs it at each step of the worker. `CoreIsRespected` is what makes the composition
sound: `WagerConsumer` uses the actions of `ExactlyOnce`, and every step of it, `Settle` of a
transaction without its caller included, is one of them or leaves `done`, `inbox`, `told` and
`refused` alone. `VerdictsStand` follows from `ExactlyOnce` and from what a conflict is: it is told
only if there is a rival, and rivals do not go away.

**Waiting rows** (`WInv` in `QueueProofs`). Beside `Lined` and `Sorted` (the queue is the
waiting rows, each once, by their next attempts) it keeps one account per row, `PaidFor`: the
time a row has been there and the time it still has to wait are together at least the delays of
the attempts that were made. A row is claimed when it has nothing left to wait for; so when it
is given up at the last attempt, it has been there for the whole window. `WalletInv` is about the timestamps: a wallet that was
there at the start is older than any lag, a wallet is locked only when it is readable, and one
that is broken was opened meanwhile by an instance that some other one lags behind (`Behind`).

**Ledger pages** (`QryInv` in `QueryProofs`). The order of rows is total because ids are unique,
so the position of a row is the number of rows before it, and a page is what has the lowest
positions below the cursor (`PageOfRows`). `Entries` says that the balance numbers the entries
and that they were stamped in the order of the movements, `Uncommitted` that an entry in an open
transaction comes after all of them, and `Walk` that a walk has listed everything of its base
down to its cursor. Where clocks agree the order by time is the order by balance, so that no
entry can get in behind the cursor.

**The stop of a process** (`HookInv` in `LifecycleProofs`) says what each hook that has returned
leaves behind, and that requests are refused from the first hook on, so that the wait group does
not fill up again. `ClockInv` keeps the account of the time: as long as a request is running, what
the stop has taken (`Elapsed`) and what the request has left are no more than the deadline of a
request; and what it has taken and what is still owed to the workers (`Owed`) are no more than one
request and all workers together (`Needed`). The bounds are sharp: at equality TLC finds a stop
that is cut off.

**Sums** (`SumProofs`). The folds of the community modules add element by element in the order
of `CHOOSE`; `SumOver` is that sum of the values of a function, to which the proofs reduce
`MapThenSumSet` and `FoldFunctionOnSet`. The lemmas show that the order does not matter (`SumTake`: any element may come first) and that a
change of one summand changes the sum by it. The induction theorems of the library take an
operator as parameter, which the provers cannot instantiate; the lemmas search for a
counterexample of least size instead (`Least`), which is first-order.

**Assumptions.** They are named in the modules that declare the constants, and TLC evaluates
them in the runs. For the core: process names are distinct and different from `Nil`, which is
neither an error nor a safeguard; calls ask for wallets and machine amounts; equal SQS bodies
mean equal requests; the wallets that exist at the start are finitely many, not negative and one
per owner; limits are positive. For the publisher: `Nil` is no token and no event, publishers and
events are finitely many (the sends are added up), durations are natural numbers. For the
consumer: messages are finitely many and have identifiers and body hashes, equal content means an equal
external id (`payloadHash` covers it), and the longest processing that is accepted leaves room for
the delete. For the waiting rows: instances are
finitely many (the greatest lag is used), every delay is positive. For the queries: ids are
finitely many natural numbers. For the stop: requests are not named like workers, and durations are
natural numbers. For the arithmetic: the largest integer is at least 99, so that two digits of
cents and the 60 seconds of a message fit, and what is parsed before the decimal point is a natural
number within range.

**Only model-checked.**

`EveryCallAnswered`, `PendingResolved`, `EventuallyPublished`, `MessagesSettled`, `RowsDecided`
and `StopEnds`: liveness under fairness, and `ENABLED`, are out of the prover's reach. The part of
`StopEnds` that is safety, that no request is cut off, is `RequestsAreAnswered`.

## 5. Not modelled

HTTP decoding, headers and health checks, verification of tokens, metrics, logging,
configuration, dependency injection and the queue policy: input and output around the core,
without state that the core depends on. Timestamps are modelled where they decide something
(`ReferenceQueue`, `WalletQueries`), not in `Wagering`. Text rules for identifiers are one
Boolean of a request (`wellFormed`, `valid`). `Fail` and the status `FAILED` are in the sets
but no code path reaches them. PostgreSQL is modelled at READ COMMITTED as far as the code
uses it: row locks, waits at unique indexes, atomic commit. Its deadlock detector is not
modelled; a cycle of waiting would appear as a deadlock of the model. The consumer takes the
attributes of the queue as verified at start. The largest version of a wallet (2^63 - 1) is a
guard of the model that no run reaches.

## 6. What could be added

1. An abstract specification of the queue of waiting rows (a row waits, is decided, or is given
   up after its window), implemented by `ReferenceQueue`; its invariants are those of `WInv`.
2. The verification of the queue attributes at the start of a consumer, and the poll
   intervals as durations.
3. One time for `Wagering` and `ReferenceQueue`: their common behaviour, a claim and what it
   decides, is modelled twice, once by its statements and once by its delays.
