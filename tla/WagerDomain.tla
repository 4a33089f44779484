---------------------------- MODULE WagerDomain ----------------------------
(***************************************************************************)
(* The rules of the domain package that involve no storage: which requests *)
(* are well formed, when an operation may use another one as its           *)
(* reference, and what an operation does to the balance of a wallet.       *)
(*                                                                         *)
(* A request is a record                                                   *)
(*   [sender, provider, ext, key, wallet, player, currency, round, game,   *)
(*    kind, amount, ref, wellFormed, msg, body]                            *)
(* where ref is the external id of the referenced operation or Nil, sender *)
(* is the provider the transport authenticated, wellFormed says that every *)
(* identifier is non-blank, valid UTF-8 and short enough, and msg and body *)
(* are the SQS message id and its bytes (Nil for an HTTP request).         *)
(***************************************************************************)
EXTENDS Money

CONSTANT Nil        \* an absent value (a nil pointer, a NULL column)

Kinds == {"OPENING", "BET", "WIN", "LOSS", "REFUND", "ROLLBACK"}
Statuses == {"PENDING", "PENDING_REFERENCE", "PROCESSED", "REJECTED", "FAILED"}
Directions == {"CREDIT", "DEBIT"}

FailureCodes == {"INSUFFICIENT_BALANCE", "REVERSAL_INSUFFICIENT_BALANCE",
                 "INVALID_REFERENCE", "REFERENCE_UNSUCCESSFUL", "ALREADY_REVERSED",
                 "MONEY_OVERFLOW", "REFERENCE_NOT_FOUND"}

IsTerminal(status) == status \in {"PROCESSED", "REJECTED", "FAILED"}

IsReversal(kind) == kind \in {"REFUND", "ROLLBACK"}

NeedsReference(q) == IsReversal(q.kind) \/ (q.kind = "WIN" /\ q.ref # Nil)

-----------------------------------------------------------------------------
(* Admission of a request.                                                  *)

\* validateWagerMoney: a loss carries no money, every other kind does.
ValidAmount(q) == IF q.kind = "LOSS" THEN q.amount = 0 ELSE q.amount > 0

\* The error execute returns before it opens a transaction, or "".
ValidationError(q) ==
  IF q.sender # q.provider THEN "ProviderNotAuthorized"
  ELSE IF ~q.wellFormed THEN "InvalidWagerTransaction"
  ELSE IF q.kind = "OPENING" THEN "ExternalOpening"
  ELSE IF ~ValidAmount(q) THEN "InvalidWagerMoney"
  ELSE IF IsReversal(q.kind) /\ q.ref = Nil THEN "ReferenceRequired"
  ELSE ""

\* payloadHash: a digest of the financial content, so equal digests mean equal
\* content.  The idempotency key, the transport and tracing are not part of it.
PayloadHash(q) == [ext |-> q.ext, game |-> q.game, kind |-> q.kind, amount |-> q.amount,
                   currency |-> q.currency, player |-> q.player, provider |-> q.provider,
                   ref |-> q.ref, round |-> q.round, wallet |-> q.wallet]

-----------------------------------------------------------------------------
(* References: operation q wants to refer to operation r, stored with the   *)
(* given status.                                                            *)

SameContext(q, r) == /\ r.provider = q.provider
                     /\ r.ext = q.ref
                     /\ r.wallet = q.wallet
                     /\ r.player = q.player
                     /\ r.currency = q.currency
                     /\ r.round = q.round

ReferableKinds(kind) == CASE kind = "WIN"      -> {"BET"}
                          [] kind = "REFUND"   -> {"BET"}
                          [] kind = "ROLLBACK" -> {"BET", "WIN", "REFUND"}
                          [] OTHER             -> {}

\* validateReference.  The context is compared first, then the status, and only
\* a processed reference is compared by kind and amount.
ValidateReference(q, r, status) ==
  IF ~SameContext(q, r) THEN "invalid"
  ELSE IF status # "PROCESSED" THEN "notProcessed"
  ELSE IF r.kind \notin ReferableKinds(q.kind) \/ (q.kind # "WIN" /\ r.amount # q.amount)
       THEN "invalid"
  ELSE "ok"

\* RehydrateWagerTransaction: validate accepts the row with which operation q, of kind and
\* id t, is stored.  Every read of a row goes through it.
Rehydrates(t, q, row) ==
  /\ ValidAmount(q) /\ (IsReversal(q.kind) => q.ref # Nil)
  /\ row.reference # Nil => row.reference # t /\ NeedsReference(q)
  /\ row.balance # Nil => row.balance >= 0
  /\ CASE row.status \in {"PENDING", "PENDING_REFERENCE"} ->
            /\ row.failure = Nil /\ row.balance = Nil
            /\ row.status = "PENDING_REFERENCE" => NeedsReference(q)
       [] row.status = "PROCESSED" ->
            /\ row.failure = Nil /\ row.balance # Nil
            /\ NeedsReference(q) => row.reference # Nil
       [] row.status \in {"REJECTED", "FAILED"} -> row.failure # Nil /\ row.balance = Nil

-----------------------------------------------------------------------------
(* Movements of a wallet.                                                   *)

\* The direction processWager chooses; refKind is Nil without a reference.
Direction(kind, refKind) ==
  IF kind = "BET" \/ (kind = "ROLLBACK" /\ refKind # "BET") THEN "DEBIT" ELSE "CREDIT"

\* validateMovement refuses a wallet whose version cannot grow any more.
Movable(wallet) == wallet.version >= 1 /\ wallet.version # MaxInt

\* Variant: the balance is not compared.
NeverInsufficient(balance, amount) == FALSE

\* Debit refuses what the balance does not cover.
Insufficient(balance, amount) == balance < amount

Moved(balance, direction, amount) ==
  IF direction = "DEBIT" THEN balance - amount ELSE balance + amount

=============================================================================
