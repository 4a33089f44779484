------------------------------ MODULE WagerHttp ------------------------------
(***************************************************************************)
(* What an HTTP client sees of the processing core: the status code of an  *)
(* answer, and the operation it finds when it asks for it afterwards.      *)
(*                                                                         *)
(* The calls without a message identifier are those of POST                *)
(* /wagering/transactions and the openings those of POST /wallets.  A      *)
(* client that heard nothing or 503 repeats its request, key and content   *)
(* unchanged, which is another call with an equal request.                 *)
(***************************************************************************)
EXTENDS Wagering

\* errorResponse.
BadRequests == {"InvalidWagerTransaction", "ExternalOpening", "InvalidWagerMoney",
                "ReferenceRequired", "InvalidWallet", "WalletIdentityMismatch"}

ErrorStatus(e) ==
  CASE e = "ProviderNotAuthorized" -> 403
    [] e \in {"IdempotencyConflict", "WalletConflict"} -> 409
    [] e = "WalletNotFound" -> 404
    [] e \in BadRequests -> 400
    [] e \in {"Unavailable", "WalletConcurrentUpdate"} -> 503
    [] OTHER -> 500

\* Variant: a replay is always answered with 200.
WagerStatusOfReplay(r) ==
  IF r.error # Nil THEN ErrorStatus(r.error)
  ELSE IF r.replay THEN 200
  ELSE CASE r.status \in {"PENDING", "PENDING_REFERENCE"} -> 202
         [] r.status = "REJECTED" -> 422
         [] r.status = "FAILED" -> 500
         [] OTHER -> 200

\* createWager's status for reply r.
WagerStatus(r) ==
  IF r.error # Nil THEN ErrorStatus(r.error)
  ELSE CASE r.status \in {"PENDING", "PENDING_REFERENCE"} -> 202
         [] r.status = "REJECTED" -> 422
         [] r.status = "FAILED" -> 500
         [] OTHER -> 200

\* createWallet's status for reply r.
OpenStatus(r) == IF r.error # Nil THEN ErrorStatus(r.error) ELSE 201

HttpCalls == {c \in Calls : Request[c].msg = Nil}
Answered(p) == stage[p] = "done" /\ p \notin Opened
Responses(c) == {WagerStatus(answer[d]) : d \in {d \in HttpCalls : Answered(d) /\ Request[d] = Request[c]}}

\* getTransaction by external id, for an authenticated provider: the row, read back.
Found(provider, ext) ==
  {t \in Calls : Present(t) /\ Request[t].provider = provider /\ Request[t].ext = ext}

GetTransaction(provider, ext) ==
  IF Found(provider, ext) = {} THEN [status |-> 404]
  ELSE LET t == CHOOSE x \in Found(provider, ext) : TRUE
       IN IF Rehydrates(t, Request[t], wagers[t])
          THEN [status |-> 200, txn |-> t, row |-> wagers[t].status, failure |-> wagers[t].failure]
          ELSE [status |-> 400]

-----------------------------------------------------------------------------
\* However often and concurrently a request is repeated, it is carried out or refused, and
\* never both: besides 202, 503 and, while its wallet is not there, 404, it is answered 200
\* only, or 422 only, or with refusals only, and never 500.  The refusal may change from 400 to
\* 409 and back, when another operation takes the key meanwhile (README, status table).
OneVerdict ==
  \A c \in HttpCalls :
    LET verdicts == Responses(c) \ {202, 404, 503}
    IN verdicts \subseteq {200} \/ verdicts \subseteq {422} \/ verdicts \subseteq {400, 403, 409}

\* What a caller was told of it finds again: the external id it used leads to the row it was
\* told, the row can be read, and a final result is the one shown.
ToldIsShown ==
  \A c \in Calls : answer[c].txn # Nil =>
    LET shown == GetTransaction(Request[c].provider, Request[c].ext)
    IN /\ shown.status = 200
       /\ shown.txn = answer[c].txn
       /\ IsTerminal(answer[c].status) =>
            <<shown.row, shown.failure>> = <<answer[c].status, answer[c].failure>>

\* A player has one wallet per currency, whatever openings race: 201 is answered by the
\* one that is there, and 409 only where another one is.
OneWalletPerOwner ==
  /\ \A v, w \in Openings :
       wallets[v].version > 0 /\ wallets[w].version > 0 /\ SameOwner(v, w) => v = w
  /\ \A w \in Openings : Answered(w) =>
       /\ OpenStatus(answer[w]) = 201 => wallets[w].version > 0
       /\ OpenStatus(answer[w]) = 409 =>
            \E v \in Openings \ {w} : wallets[v].version > 0 /\ SameOwner(v, w)
=============================================================================
