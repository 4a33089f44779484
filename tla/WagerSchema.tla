---------------------------- MODULE WagerSchema ----------------------------
(***************************************************************************)
(* What the PostgreSQL schema itself refuses, whatever the Go code asked   *)
(* for: CHECK constraints, the two validation triggers and the deferred    *)
(* check of a wallet against its ledger.  They are written from the SQL,   *)
(* independently of WagerDomain, so that the two can be compared: Wagering *)
(* checks that the Go code never runs into them.                           *)
(*                                                                         *)
(* q and r are requests, row a stored row [status, failure, reference,     *)
(* balance, attempts, due]; entry is a ledger entry [wallet, txn,          *)
(* direction, amount, before, after].                                      *)
(***************************************************************************)
EXTENDS WagerDomain, FiniteSetsExt

\* chk_wager_result and chk_wager_reference.
RowAccepted(q, row) ==
  /\ CASE row.status = "PROCESSED" -> row.balance # Nil /\ row.failure = Nil
       [] row.status \in {"PENDING", "PENDING_REFERENCE"} -> row.balance = Nil /\ row.failure = Nil
       [] row.status \in {"REJECTED", "FAILED"} -> row.balance = Nil /\ row.failure # Nil
  /\ q.kind \in {"REFUND", "ROLLBACK"} => q.ref # Nil
  /\ row.status = "PENDING_REFERENCE" => q.kind \in {"WIN", "REFUND", "ROLLBACK"} /\ q.ref # Nil
  /\ row.status = "PROCESSED" /\ row.reference = Nil =>
       q.kind \notin {"REFUND", "ROLLBACK"} /\ ~(q.kind = "WIN" /\ q.ref # Nil)

\* The UPDATE half of validate_wager_write.  The business columns are constant
\* in the model, so only status and reference can be refused.
TransitionAccepted(old, new) ==
  /\ old.status \notin {"PROCESSED", "REJECTED", "FAILED"}
  /\ ~(old.status = "PENDING_REFERENCE" /\ new.status = "PENDING")
  /\ old.reference # Nil => new.reference = old.reference

\* The reference half of validate_wager_write; status is that of the original r.
ReferenceAccepted(q, r, status) ==
  /\ status = "PROCESSED"
  /\ r.provider = q.provider /\ r.ext = q.ref /\ r.wallet = q.wallet
  /\ r.player = q.player /\ r.currency = q.currency /\ r.round = q.round
  /\ q.kind \in {"WIN", "REFUND"} => r.kind = "BET"
  /\ q.kind = "ROLLBACK" => r.kind \in {"BET", "WIN", "REFUND"}
  /\ q.kind \in {"WIN", "REFUND", "ROLLBACK"}
  /\ q.kind \in {"REFUND", "ROLLBACK"} => q.amount = r.amount

\* validate_ledger_insert and the CHECKs of the table: the direction comes from the kinds alone and the
\* balance after the entry is the result stored with the operation.
LedgerAccepted(entry, kind, originalKind, row) ==
  /\ row.status = "PROCESSED" /\ kind # "LOSS"
  /\ entry.direction = IF kind = "BET" \/ (kind = "ROLLBACK" /\ originalKind \in {"WIN", "REFUND"})
                       THEN "DEBIT" ELSE "CREDIT"
  /\ entry.after = row.balance
  /\ entry.amount > 0 /\ entry.before >= 0 /\ entry.after >= 0
  /\ entry.after = IF entry.direction = "DEBIT" THEN entry.before - entry.amount
                                                ELSE entry.before + entry.amount

Signed(entry) == IF entry.direction = "CREDIT" THEN entry.amount ELSE -entry.amount

\* check_wallet_financial_state: balance and version of a wallet follow from its
\* ledger; openings is the set of transaction ids of kind OPENING.
WalletMatchesLedger(wallet, entries, openings) ==
  /\ wallet.balance = MapThenSumSet(Signed, entries)
  /\ wallet.version = 1 + Cardinality({e \in entries : e.txn \notin openings})
=============================================================================
