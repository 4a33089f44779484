---------------------------- MODULE AccountProofs ----------------------------
(***************************************************************************)
(* The books are right: rows, references, ledger entries, balances and     *)
(* events agree after every commit, for every set of calls, wallets and    *)
(* workers, every request, any number of faults and without the help of    *)
(* any constraint or trigger of the schema.                                *)
(*                                                                         *)
(* Books is about what is committed.  Works adds what an open transaction  *)
(* knows of its wallet and of its row, and what its decision promises of   *)
(* the row, the entry and the events it is going to write.  Both rest on   *)
(* IInv: while a transaction holds the lock of a wallet, nobody else       *)
(* writes a row, an entry or a balance of that wallet, and whatever an     *)
(* operation may refer to lies on the same wallet.                         *)
(*                                                                         *)
(* The last part, HttpInv, is about what clients are told over HTTP: the   *)
(* statuses they get agree with the books and with each other.             *)
(***************************************************************************)
EXTENDS WageringProofs, SumProofs, WagerHttp

\* x is what operation t may refer to: processed, of the same context, of a kind that
\* fits and, for a reversal, of the same amount.
ReferenceFits(t, x) ==
  /\ x \in Calls /\ x # t /\ NeedsReference(Request[t])
  /\ ValidateReference(Request[t], Request[x], wagers[x].status) = "ok"

\* What the columns of a stored row say together.
ResultFits(t, row) ==
  /\ row.status = "PENDING_REFERENCE" =>
       row.failure = Nil /\ row.reference = Nil /\ row.balance = Nil /\ NeedsReference(Request[t])
  /\ row.status = "PROCESSED" =>
       row.failure = Nil /\ row.balance # Nil /\ (NeedsReference(Request[t]) => row.reference # Nil)
  /\ row.status = "REJECTED" => row.failure \in FailureCodes /\ row.balance = Nil
  /\ row.reference # Nil => ReferenceFits(t, row.reference)

RowsFit ==
  \A t \in Calls : LET row == wagers[t] IN
    /\ row.status \in {"NONE", "PENDING_REFERENCE", "PROCESSED", "REJECTED"}
    /\ row.status = "NONE" =>
         row.failure = Nil /\ row.reference = Nil /\ row.balance = Nil /\ row.attempts = 0
    /\ row.status # "NONE" => wallets[WalletOf(t)].version >= 1
    /\ ResultFits(t, row)

\* A wallet and its opening row come together, and nothing comes before them.
OpeningsFit ==
  \A w \in Openings :
    /\ wallets[w].version = 0 => wagers[w] = NoRow
    /\ wallets[w].version >= 1 => wagers[w] = OpeningRow(w) /\ OpeningRequest[w].balance >= 0
    /\ wallets[w].version = 1 => wallets[w].balance = OpeningRequest[w].balance

\* Nothing is undone twice.
ReversedOnce ==
  \A y, z \in Calls :
    wagers[y].status = "PROCESSED" /\ wagers[z].status = "PROCESSED"
    /\ IsReversal(Request[y].kind) /\ IsReversal(Request[z].kind)
    /\ wagers[y].reference = wagers[z].reference => y = z

\* The kind of what t refers to.
OriginalKind(row) == IF row.reference = Nil THEN Nil ELSE Kind(row.reference)

MovesMoney(t) == wagers[t].status = "PROCESSED" /\ Kind(t) # "LOSS"

\* The ledger has one entry for every operation that moved money and no other.
LedgerFits ==
  /\ IsFiniteSet(ledger)
  /\ \A e \in ledger : /\ MovesMoney(e.txn)
                       /\ e.wallet = WalletOf(e.txn) /\ e.amount = Amount(e.txn)
                       /\ e.direction = Direction(Kind(e.txn), OriginalKind(wagers[e.txn]))
  /\ \A e, f \in ledger : e.txn = f.txn => e = f
  /\ \A t \in Txns : MovesMoney(t) => \E e \in ledger : e.txn = t

\* Every event is the only one of its type and says what the row says.
EventsFit ==
  /\ \A e \in outbox :
       /\ Present(e.txn)
       /\ e.type = "Processed" => wagers[e.txn].status = "PROCESSED" /\ e.after = wagers[e.txn].balance
       /\ e.type = "Rejected" => wagers[e.txn].status = "REJECTED" /\ e.failure = wagers[e.txn].failure
       /\ e.type = "BalanceChanged" => MovesMoney(e.txn)
  /\ \A e, f \in outbox : e.txn = f.txn /\ e.type = f.type => e = f
  /\ \A t \in Txns :
       /\ wagers[t].status = "PROCESSED" => EventsOf(t, "Processed") # {}
       /\ wagers[t].status = "REJECTED" => EventsOf(t, "Rejected") # {}
       /\ MovesMoney(t) => EventsOf(t, "BalanceChanged") # {}
       /\ wagers[t].status = "PENDING_REFERENCE" \/ wagers[t].attempts > 0 =>
            EventsOf(t, "PendingReference") # {}

Books == /\ RowsFit /\ OpeningsFit /\ ReversedOnce
         /\ LedgerFits /\ Reconciles /\ EventsFit /\ BalanceHistory

\* What a decision o for operation t on the wallet base says together.
DecisionFits(t, base, o) ==
  /\ o.status \in {"PENDING_REFERENCE", "PROCESSED", "REJECTED"}
  /\ o.status = "PENDING_REFERENCE" =>
       o.failure = Nil /\ o.reference = Nil /\ NeedsReference(Request[t])
  /\ o.status = "PROCESSED" => o.failure = Nil /\ (NeedsReference(Request[t]) => o.reference # Nil)
  /\ o.status = "REJECTED" => o.failure \in FailureCodes
  /\ o.reference # Nil => ReferenceFits(t, o.reference)
  /\ o.status = "PROCESSED" /\ Kind(t) # "LOSS" =>
       /\ o.direction = Direction(Kind(t), OriginalKind(o))
       /\ o.after = Moved(base.balance, o.direction, Amount(t))
       /\ Movable(base)
  /\ o.status = "PROCESSED" /\ IsReversal(Request[t].kind) => ~HasSuccessfulReversal(o.reference)

\* No processed operation is there that t could refer to.
NothingFits(t) ==
  ~\E y \in Calls \ {t} : ValidateReference(Request[t], Request[y], wagers[y].status) = "ok"

\* Attempts are counted by workers, and only a worker gives a row up: when the attempts
\* are used up, or when nothing fits.
Counted(p, t, o) ==
  /\ p \in Calls => o.attempts = 0
  /\ p \in RefWorkers /\ o.status = "PENDING_REFERENCE" =>
       o.attempts = wagers[t].attempts + 1 /\ o.attempts < MaxAttempts[p]
  /\ o.failure = "REFERENCE_NOT_FOUND" =>
       p \in RefWorkers /\ (wagers[t].attempts >= MaxAttempts[p] \/ NothingFits(t))

\* What call c is about to answer is true of the row it is about to write, or of the
\* stored one if that is final.
ReplyAgrees(c) == LET a == tx[c].reply  o == tx[c].outcome IN
  /\ a.replay <=> tx[c].txn # c
  /\ tx[c].txn = c =>
       a.status = o.status /\ a.failure = o.failure /\ a.balance = NewRow(c).balance
  /\ tx[c].txn # c /\ IsTerminal(a.status) =>
       /\ a.status = wagers[a.txn].status /\ a.failure = wagers[a.txn].failure
       /\ a.balance = wagers[a.txn].balance

\* What the open transaction of p knows of its wallet and its row.
WorkFits(p) == LET t == tx[p].txn IN
  /\ t # Nil => WalletOf(t) = tx[p].wallet /\ tx[p].base.version >= 1
  /\ p \in RefWorkers => /\ tx[p].reply = NoReply
                         /\ t # Nil => wagers[t].status = "PENDING_REFERENCE"
  /\ p \in Calls =>
       /\ tx[p].pass = "locked" => tx[p].wallet = Request[p].wallet /\ tx[p].base.version >= 1
       /\ tx[p].pass = "duplicate" => Request[p].msg # Nil /\ stage[p] # "findExt"
       /\ stage[p] # "done" => ~Present(p)
       /\ stage[p] = "commit" => ReplyAgrees(p)
  /\ stage[p] = "commit" /\ t # Nil =>
       DecisionFits(t, tx[p].base, tx[p].outcome) /\ Counted(p, t, tx[p].outcome)

Works == \A p \in Procs : WorkFits(p)

\* The operation of a complete message is there.
InboxSettled ==
  \A c \in Calls : Request[c].msg # Nil /\ inbox[Request[c].msg] = Request[c].body =>
    \E y \in Calls : /\ Present(y) /\ SameKey(Request[y], Request[c])
                     /\ PayloadHash(Request[y]) = PayloadHash(Request[c])

\* What nobody is ever told.
Alarms == AllSafeguards \cup {"InboxIncomplete", "MetadataMissing"}

NoAlarm == \A p \in Actors : answer[p].error \notin Alarms

BookInv == Books /\ Works /\ InboxSettled /\ AnswersAgree /\ NoAlarm

-----------------------------------------------------------------------------
(* Operators.                                                               *)

Value == [e \in EntryType |-> Signed(e)]

\* The fold that the schema's trigger computes is such a sum.
LEMMA SignedSum ==
  ASSUME NEW S \in SUBSET EntryType, IsFiniteSet(S)
  PROVE  MapThenSumSet(Signed, S) = SumOver(Value, S)
<1> DEFINE P(g) == g = [s \in SUBSET S |->
                          IF s = {} THEN 0
                          ELSE Signed(CHOOSE x \in s : TRUE) + g[s \ {CHOOSE x \in s : TRUE}]]
<1>1. ASSUME NEW g PROVE P(g) <=> Sums(g, Value, S)
  <2>1. \A s \in SUBSET S : s # {} => Value[Pick(s)] = Signed(CHOOSE x \in s : TRUE)
    BY DEF Value, Pick
  <2> QED BY <2>1 DEF Sums, Pick
<1>2. MapThenSumSet(Signed, S) = (CHOOSE g : P(g))[S]
  BY DEF MapThenSumSet, MapThenFoldSet
<1> HIDE DEF P
<1>3. PICK h : Sums(h, Value, S)
  BY SumsExist
<1>4. P(CHOOSE g : P(g))
  BY <1>1, <1>3
<1>5. Sums(CHOOSE g : P(g), Value, S) /\ Sums(CHOOSE g : Sums(g, Value, S), Value, S)
  BY <1>1, <1>4, SumsExist
<1>6. (CHOOSE g : P(g))[S] = (CHOOSE g : Sums(g, Value, S))[S]
  BY <1>5, SumsAgree
<1> QED BY <1>2, <1>6 DEF SumOver

\* The value of an entry is an integer.
LEMMA ValueInt == ASSUME NEW e \in EntryType PROVE Value[e] = Signed(e) /\ Value[e] \in Int
BY MaxIntAssumption DEF Value, Signed, EntryType

\* A reference that is found in order.
LEMMA OkMeans ==
  ASSUME NEW q, NEW r, NEW s
  PROVE  ValidateReference(q, r, s) = "ok" <=>
           /\ SameContext(q, r) /\ s = "PROCESSED" /\ r.kind \in ReferableKinds(q.kind)
           /\ q.kind = "WIN" \/ r.amount = q.amount
BY DEF ValidateReference

\* Only a processed operation of the same wallet is a reference.
LEMMA ReferenceMeans ==
  ASSUME NEW t \in Calls, NEW x, ReferenceFits(t, x)
  PROVE  /\ x \in Calls /\ x # Nil /\ x # t /\ wagers[x].status = "PROCESSED"
         /\ NeedsReference(Request[t]) /\ SameContext(Request[t], Request[x])
         /\ Request[x].kind \in ReferableKinds(Request[t].kind)
         /\ Request[t].kind = "WIN" \/ Request[x].amount = Request[t].amount
         /\ WalletOf(x) = WalletOf(t)
BY OkMeans, NilApart, ProcessAssumption DEF ReferenceFits, SameContext, WalletOf

\* The business columns of a call.
LEMMA CallColumns ==
  ASSUME NEW t \in Calls
  PROVE  /\ Kind(t) = Request[t].kind /\ Amount(t) = Request[t].amount
         /\ WalletOf(t) = Request[t].wallet /\ t # Nil /\ t \in Txns /\ t \notin Openings
BY NilApart, ProcessAssumption DEF Kind, Amount, WalletOf, Txns

\* A decision, unless it is an error, fits; counting and giving up are not its business.
Sound(t, base, o) == /\ o.attempts = 0 /\ o.failure # "REFERENCE_NOT_FOUND"
                     /\ o.status # "NONE" => DecisionFits(t, base, o)

\* Credit and Debit: refused, or the movement that the kinds prescribe.
LEMMA MoveFits ==
  ASSUME NEW t \in Calls, NEW x, NEW base, x = Nil \/ ReferenceFits(t, x),
         NeedsReference(Request[t]) => x # Nil,
         IsReversal(Request[t].kind) => ~HasSuccessfulReversal(x)
  PROVE  /\ Sound(t, base, Move(Request[t], x, base))
         /\ Move(Request[t], x, base).status # "PENDING_REFERENCE"
<1> DEFINE q == Request[t]
           direction == Direction(q.kind, IF x = Nil THEN Nil ELSE Kind(x))
           o == Move(q, x, base)
           after == Moved(base.balance, direction, q.amount)
           code == IF q.kind = "ROLLBACK" THEN "REVERSAL_INSUFFICIENT_BALANCE" ELSE "INSUFFICIENT_BALANCE"
<1>1. o \in {NoOutcome, Rejected(code, x), Rejected("MONEY_OVERFLOW", x), Processed(x, direction, after)}
  BY DEF Move
<1>2. Nil # "REFERENCE_NOT_FOUND"
  BY ProcessAssumption DEF FailureCodes
<1> SUFFICES Sound(t, base, o) /\ o.status # "PENDING_REFERENCE"
  OBVIOUS
<1> HIDE DEF o
<1>3. CASE o = NoOutcome
  BY <1>2, <1>3 DEF NoOutcome, Sound
<1>4. CASE o = Rejected(code, x) \/ o = Rejected("MONEY_OVERFLOW", x)
  <2>1. /\ o.status = "REJECTED" /\ o.reference = x /\ o.attempts = 0
        /\ o.failure \in {"REVERSAL_INSUFFICIENT_BALANCE", "INSUFFICIENT_BALANCE", "MONEY_OVERFLOW"}
    BY <1>4 DEF Rejected, NoOutcome
  <2> QED BY <2>1 DEF Sound, DecisionFits, FailureCodes
<1>5. CASE o = Processed(x, direction, after)
  <2>1. /\ o.status = "PROCESSED" /\ o.reference = x /\ o.attempts = 0 /\ o.failure = Nil
        /\ o.direction = direction /\ o.after = after
    BY <1>5 DEF Processed, NoOutcome
  <2>2. direction = Direction(Kind(t), OriginalKind(o)) /\ after = Moved(base.balance, direction, Amount(t))
    BY <2>1, CallColumns DEF OriginalKind
  <2>3. Movable(base)
    BY <1>5, <2>1 DEF o, Move, NoOutcome, Rejected
  <2> HIDE DEF direction, after
  <2> QED BY <1>2, <2>1, <2>2, <2>3 DEF Sound, DecisionFits
<1> QED BY <1>1, <1>3, <1>4, <1>5

\* processWager: what it decides fits, and an operation is left waiting only when nothing fits.
LEMMA ProcessWagerFits ==
  ASSUME IInv, NEW t \in Calls, NEW base, Kind(t) # "OPENING"
  PROVE  /\ Sound(t, base, ProcessWager(t, base))
         /\ ProcessWager(t, base).status = "PENDING_REFERENCE" => NothingFits(t)
<1> DEFINE q == Request[t]
           o == ProcessWager(t, base)
<1>1. Nil # "REFERENCE_NOT_FOUND"
  BY ProcessAssumption DEF FailureCodes
<1>2. \A code \in FailureCodes : \A x : code # "REFERENCE_NOT_FOUND" /\ (x = Nil \/ ReferenceFits(t, x)) =>
        Sound(t, base, Rejected(code, x)) /\ Rejected(code, x).status = "REJECTED"
  BY DEF Rejected, NoOutcome, Sound, DecisionFits
<1>3. NeedsReference(q) => Sound(t, base, Wait)
  BY <1>1 DEF Wait, NoOutcome, Sound, DecisionFits
<1>4. CASE ~NeedsReference(q) /\ q.kind = "LOSS"
  <2>1. /\ o.status = "PROCESSED" /\ o.reference = Nil /\ o.attempts = 0 /\ o.failure = Nil
    BY <1>4 DEF ProcessWager, Processed, NoOutcome
  <2> HIDE DEF o
  <2> QED BY <1>1, <1>4, <2>1, CallColumns DEF Sound, DecisionFits, IsReversal, o
<1>5. CASE ~NeedsReference(q) /\ q.kind # "LOSS"
  <2>1. o = Move(q, Nil, base) /\ ~IsReversal(q.kind)
    BY <1>5 DEF ProcessWager, NeedsReference
  <2> QED BY <1>5, <2>1, MoveFits
<1>6. CASE NeedsReference(q) /\ FindReference(t) = {}
  <2>1. o = Wait
    BY <1>6 DEF ProcessWager
  <2>2. NothingFits(t)
    BY <1>6, OkMeans DEF NothingFits, FindReference, SameContext, Present
  <2> QED BY <1>3, <1>6, <2>1, <2>2
<1>7. CASE NeedsReference(q) /\ FindReference(t) # {}
  <2> DEFINE x == CHOOSE y \in FindReference(t) : TRUE
  <2>1. x \in FindReference(t) /\ o = WithReference(t, x, base)
    BY <1>7 DEF ProcessWager
  <2>2. x \in Calls /\ (Present(x) \/ x = t) /\ Request[x].provider = q.provider /\ Request[x].ext = q.ref
    BY <2>1 DEF FindReference
  <2> HIDE DEF x, o
  <2>3. CASE ResolveReference(t, x) = "invalid"
    <3>1. o = Rejected("INVALID_REFERENCE", Nil)
      BY <2>1, <2>3 DEF WithReference
    <3> QED BY <1>2, <3>1 DEF FailureCodes, o
  <2>4. CASE ResolveReference(t, x) = "notProcessed"
    <3>1. o = Rejected("REFERENCE_UNSUCCESSFUL", Nil) \/ o = Wait
      BY <2>1, <2>4 DEF WithReference
    <3>2. ASSUME NEW y \in Calls \ {t}, ValidateReference(q, Request[y], wagers[y].status) = "ok"
          PROVE  FALSE
      <4>1. Present(y) /\ Request[y].provider = q.provider /\ Request[y].ext = q.ref
        BY <3>2, OkMeans DEF SameContext, Present
      <4>2. x # t /\ ValidateReference(q, Request[x], wagers[x].status) = "notProcessed"
        BY <2>4 DEF ResolveReference
      <4>3. SameIdentity(Request[x], Request[y])
        BY <2>2, <4>1 DEF SameIdentity, SameExternalID
      <4>4. x = y
        BY <2>2, <4>1, <4>2, <4>3 DEF IInv, UniqueInv, OneRowPerIdentity
      <4> QED BY <3>2, <4>2, <4>4
    <3>3. NothingFits(t)
      BY <3>2 DEF NothingFits
    <3> QED BY <1>2, <1>3, <1>7, <3>1, <3>3 DEF FailureCodes, o
  <2>5. CASE ResolveReference(t, x) = "ok"
    <3>1. ReferenceFits(t, x)
      BY <1>7, <2>2, <2>5 DEF ResolveReference, ReferenceFits
    <3>2. o = IF IsReversal(q.kind) /\ HasSuccessfulReversal(x) THEN Rejected("ALREADY_REVERSED", x)
              ELSE Move(q, x, base)
      BY <2>1, <2>5 DEF WithReference
    <3>3. CASE IsReversal(q.kind) /\ HasSuccessfulReversal(x)
      BY <1>2, <3>1, <3>2, <3>3 DEF FailureCodes, o
    <3>4. CASE ~(IsReversal(q.kind) /\ HasSuccessfulReversal(x))
      BY <3>1, <3>2, <3>4, MoveFits, ReferenceMeans DEF o
    <3> QED BY <3>3, <3>4
  <2>6. ResolveReference(t, x) \in {"invalid", "notProcessed", "ok"}
    BY DEF ResolveReference, ValidateReference
  <2> QED BY <2>3, <2>4, <2>5, <2>6
<1> QED BY <1>4, <1>5, <1>6, <1>7

\* The columns that say when and how often a row is tried are no part of the decision.
LEMMA Rescheduled ==
  ASSUME NEW t \in Calls, NEW base, NEW o \in OutcomeType, DecisionFits(t, base, o),
         NEW d \in OutcomeType, d.status = o.status, d.failure = o.failure,
         d.reference = o.reference, d.direction = o.direction, d.after = o.after
  PROVE  DecisionFits(t, base, d)
BY DEF DecisionFits, OriginalKind

\* What does not reach a limit is below it.
LEMMA Below == \A a, b \in Nat : ~(a >= b) => a < b
OBVIOUS

\* A retry decides like a call, counts the attempt, and gives up at the limit only.
LEMMA RetryFits ==
  ASSUME IInv, NEW p \in RefWorkers, NEW t \in Calls, NEW base \in WalletType,
         ValidationError(Request[t]) = "", RetryOutcome(p, t, base).status # "NONE"
  PROVE  /\ DecisionFits(t, base, RetryOutcome(p, t, base))
         /\ Counted(p, t, RetryOutcome(p, t, base))
<1> DEFINE n == wagers[t].attempts
           o == ProcessWager(t, base)
           notFound == Rejected("REFERENCE_NOT_FOUND", Nil)
           r == RetryOutcome(p, t, base)
<1>1. n \in Nat /\ n + 1 \in Nat /\ MaxAttempts[p] \in Nat /\ p \notin Calls /\ Kind(t) # "OPENING"
  <2>1. wagers[t] \in RowType
    BY DEF IInv, TypeInv, TypeOK, Txns
  <2>2. Kind(t) # "OPENING"
    BY CallColumns DEF ValidationError
  <2>3. n \in Nat /\ MaxAttempts[p] \in Nat /\ p \notin Calls
    BY <2>1, BoundsAssumption, ProcessAssumption DEF RowType
  <2> QED BY <2>2, <2>3, Successor
<1>2. o \in OutcomeType /\ Sound(t, base, o) /\ (o.status = "PENDING_REFERENCE" => NothingFits(t))
  BY <1>1, ProcessWagerFits, ProcessWagerBounded DEF Bounded
<1>3. /\ notFound \in OutcomeType /\ notFound.status = "REJECTED" /\ notFound.reference = Nil
      /\ notFound.failure = "REFERENCE_NOT_FOUND"
  BY OutcomeTypes DEF FailureCodes, Rejected, NoOutcome
<1>4. DecisionFits(t, base, notFound)
  BY <1>3 DEF DecisionFits, FailureCodes
<1>5. r = IF n >= MaxAttempts[p] THEN [notFound EXCEPT !.attempts = n, !.due = TRUE]
          ELSE IF o.status = "PENDING_REFERENCE" /\ n + 1 >= MaxAttempts[p]
          THEN [notFound EXCEPT !.attempts = n + 1]
          ELSE [o EXCEPT !.attempts = n + 1]
  BY DEF RetryOutcome
<1> SUFFICES DecisionFits(t, base, r) /\ Counted(p, t, r)
  OBVIOUS
<1>6. r.status # "NONE"
  OBVIOUS
<1> HIDE DEF n, o, notFound, r
<1>7. CASE n >= MaxAttempts[p]
  <2>1. /\ r \in OutcomeType /\ r.status = notFound.status /\ r.failure = notFound.failure
        /\ r.reference = notFound.reference /\ r.direction = notFound.direction
        /\ r.after = notFound.after
    BY <1>1, <1>3, <1>5, <1>7 DEF OutcomeType
  <2> QED BY <1>1, <1>3, <1>4, <1>7, <2>1, Rescheduled DEF Counted, n
<1>8. CASE ~(n >= MaxAttempts[p]) /\ o.status = "PENDING_REFERENCE" /\ n + 1 >= MaxAttempts[p]
  <2>1. /\ r \in OutcomeType /\ r.status = notFound.status /\ r.failure = notFound.failure
        /\ r.reference = notFound.reference /\ r.direction = notFound.direction
        /\ r.after = notFound.after
    BY <1>1, <1>3, <1>5, <1>8 DEF OutcomeType
  <2> QED BY <1>1, <1>2, <1>3, <1>4, <1>8, <2>1, Rescheduled DEF Counted, n
<1>9. CASE ~(n >= MaxAttempts[p]) /\ ~(o.status = "PENDING_REFERENCE" /\ n + 1 >= MaxAttempts[p])
  <2>1. /\ r \in OutcomeType /\ r.status = o.status /\ r.failure = o.failure /\ r.attempts = n + 1
        /\ r.reference = o.reference /\ r.direction = o.direction /\ r.after = o.after
    BY <1>1, <1>2, <1>5, <1>9 DEF OutcomeType
  <2>2. DecisionFits(t, base, o) /\ o.failure # "REFERENCE_NOT_FOUND"
    BY <1>2, <1>6, <2>1 DEF Sound
  <2>3. DecisionFits(t, base, r)
    BY <1>2, <2>1, <2>2, Rescheduled
  <2>4. o.status = "PENDING_REFERENCE" => ~(n + 1 >= MaxAttempts[p])
    BY <1>9
  <2>5. o.status = "PENDING_REFERENCE" => n + 1 < MaxAttempts[p]
    BY <1>1, <2>4, Below
  <2> QED BY <1>1, <2>1, <2>2, <2>3, <2>5 DEF Counted, n
<1> QED BY <1>7, <1>8, <1>9

-----------------------------------------------------------------------------
(* Steps that write nothing.                                                *)

\* What an open transaction knows survives what others do: rows of its wallet stay, and
\* final rows stay everywhere.
LEMMA WorkKept ==
  ASSUME IInv, RowsFit', NEW p \in Procs, WorkFits(p), stage'[p] = stage[p], tx'[p] = tx[p],
         tx[p].txn # Nil => \A y \in Calls : WalletOf(y) = tx[p].wallet =>
           /\ wagers'[y].status = wagers[y].status /\ wagers'[y].reference = wagers[y].reference
           /\ wagers'[y].attempts = wagers[y].attempts,
         p \in Calls /\ stage[p] # "done" /\ Present(p)' => Present(p),
         \A y \in Calls : IsTerminal(wagers[y].status) =>
           /\ wagers'[y].status = wagers[y].status /\ wagers'[y].failure = wagers[y].failure
           /\ wagers'[y].balance = wagers[y].balance,
         CallInv
  PROVE  WorkFits(p)'
<1> DEFINE t == tx[p].txn
           o == tx[p].outcome
<1>1. t \in Calls \cup {Nil} /\ Nil \notin Calls
  BY NilApart DEF IInv, TypeInv, TypeOK, TxType
<1>2. ASSUME stage[p] = "commit", p \in Calls PROVE ReplyAgrees(p)'
  <2>1. ReplyAgrees(p) /\ (t # p => tx[p].reply.txn \in Calls)
    BY <1>2 DEF WorkFits, CallInv, CallFits, ReplyFits
  <2>2. t # p /\ IsTerminal(tx[p].reply.status) => IsTerminal(wagers[tx[p].reply.txn].status)
    BY <2>1 DEF ReplyAgrees
  <2> QED BY <2>1, <2>2 DEF ReplyAgrees, NewRow
<1>3. ASSUME stage[p] = "commit", t # Nil PROVE DecisionFits(t, tx[p].base, o)' /\ Counted(p, t, o)'
  <2>1. DecisionFits(t, tx[p].base, o) /\ Counted(p, t, o) /\ t \in Calls /\ WalletOf(t) = tx[p].wallet
    BY <1>1, <1>3 DEF WorkFits
  <2>2. \A y \in Calls : SameContext(Request[t], Request[y]) => wagers'[y].status = wagers[y].status
    BY <1>3, <2>1, CallColumns DEF SameContext
  <2>3. \A y \in Calls : ValidateReference(Request[t], Request[y], wagers'[y].status) = "ok"
                           <=> ValidateReference(Request[t], Request[y], wagers[y].status) = "ok"
    BY <2>2, OkMeans
  <2>4. ASSUME o.reference # Nil PROVE ReferenceFits(t, o.reference)'
    BY <2>1, <2>3, <2>4 DEF DecisionFits, ReferenceFits
  <2>5. ASSUME o.status = "PROCESSED", IsReversal(Request[t].kind)
        PROVE  ~HasSuccessfulReversal(o.reference)'
    <3>1. ReferenceFits(t, o.reference) /\ ~HasSuccessfulReversal(o.reference)
      BY <2>1, <2>5 DEF DecisionFits, NeedsReference
    <3>2. o.reference # Nil /\ WalletOf(o.reference) = tx[p].wallet
      BY <2>1, <3>1, ReferenceMeans
    <3>3. ASSUME NEW y \in Calls, wagers'[y].status = "PROCESSED", IsReversal(Request[y].kind),
                 wagers'[y].reference = o.reference
          PROVE  FALSE
      <4>1. ReferenceFits(y, o.reference)'
        BY <3>2, <3>3 DEF RowsFit, ResultFits
      <4>2. SameContext(Request[y], Request[o.reference]) /\ o.reference \in Calls
        BY <4>1, OkMeans DEF ReferenceFits
      <4>3. WalletOf(y) = tx[p].wallet
        BY <3>2, <4>2, CallColumns DEF SameContext
      <4> QED BY <1>3, <3>1, <3>3, <4>3 DEF HasSuccessfulReversal
    <3> QED BY <3>3 DEF HasSuccessfulReversal
  <2>6. DecisionFits(t, tx[p].base, o)'
    BY <2>1, <2>4, <2>5 DEF DecisionFits, OriginalKind
  <2>7. NothingFits(t) => NothingFits(t)'
    BY <2>3 DEF NothingFits
  <2>8. wagers'[t].attempts = wagers[t].attempts
    BY <1>3, <2>1
  <2>9. Counted(p, t, o)'
    BY <2>1, <2>7, <2>8 DEF Counted
  <2> QED BY <2>6, <2>9
<1>4. t # Nil => wagers'[t].status = wagers[t].status
  BY <1>1 DEF WorkFits
<1> HIDE DEF t, o
<1> QED BY <1>2, <1>3, <1>4 DEF WorkFits, t, o

\* What the store says stays right when the store stays.
LEMMA BooksKept == ASSUME Books, InboxSettled, UNCHANGED store PROVE Books' /\ InboxSettled'
<1> USE DEF store
<1>1. RowsFit' /\ OpeningsFit' /\ ReversedOnce'
  BY DEF Books, RowsFit, ResultFits, ReferenceFits, OpeningsFit, ReversedOnce
<1>2. LedgerFits' /\ Reconciles'
  BY DEF Books, LedgerFits, MovesMoney, OriginalKind, Reconciles
<1>3. EventsFit' /\ BalanceHistory'
  BY DEF Books, EventsFit, EventsOf, MovesMoney, Present, BalanceHistory
<1>4. InboxSettled'
  BY DEF InboxSettled, Present
<1> QED BY <1>1, <1>2, <1>3, <1>4 DEF Books

\* The others' open transactions, while nothing is stored.
LEMMA OthersKept ==
  ASSUME IInv, CallInv, BookInv, UNCHANGED store, NEW q \in Procs, stage'[q] = stage[q],
         tx'[q] = tx[q]
  PROVE  WorkFits(q)'
<1>1. RowsFit' /\ WorkFits(q)
  BY BooksKept DEF BookInv, Books, Works
<1>2. wagers' = wagers /\ (Present(q)' => Present(q))
  BY DEF store, Present
<1> QED BY <1>1, <1>2, WorkKept

\* A step inside the transaction of p.
LEMMA AdvanceFits ==
  ASSUME IInv, CallInv, BookInv, NEW p \in Procs, NEW s, NEW x,
         stage' = [stage EXCEPT ![p] = s], tx' = [tx EXCEPT ![p] = x],
         UNCHANGED <<store, answer>>, WorkFits(p)'
  PROVE  BookInv'
<1>1. UNCHANGED store /\ answer' = answer
  OBVIOUS
<1>2. ASSUME NEW q \in Procs, q # p PROVE WorkFits(q)'
  <2>1. stage'[q] = stage[q] /\ tx'[q] = tx[q]
    BY <1>2 DEF IInv, TypeInv, TypeOK, Actors
  <2> QED BY <1>1, <2>1, OthersKept
<1>3. AnswersAgree' /\ NoAlarm'
  BY <1>1 DEF BookInv, AnswersAgree, NoAlarm, Present, store
<1> QED BY <1>1, <1>2, <1>3, BooksKept DEF BookInv, Works

\* What p knows once its transaction is over: nothing.
LEMMA RestKnows ==
  ASSUME IInv, NEW p \in Procs, NEW r, End(p, r) PROVE WorkFits(p)'
<1>1. p \in Actors /\ TypeOK /\ (p \in Calls => p \notin RefWorkers)
  BY ProcessAssumption DEF Actors, IInv, TypeInv
<1>2. tx'[p] = NoTx /\ stage'[p] = Rest(p)
  BY <1>1, EndPoints
<1>3. NoTx.txn = Nil /\ NoTx.pass = "first" /\ NoTx.reply = NoReply
  BY DEF NoTx
<1>4. Rest(p) # "commit" /\ (p \in Calls => Rest(p) = "done")
  BY <1>1 DEF Rest
<1> QED BY <1>2, <1>3, <1>4 DEF WorkFits

\* A transaction that ends without writing; its caller is told nothing alarming.
LEMMA EndQuiet ==
  ASSUME IInv, CallInv, BookInv, NEW p \in Actors, NEW r, End(p, r), UNCHANGED store,
         r.txn = Nil, r.error \notin Alarms
  PROVE  BookInv'
<1>1. TypeOK
  BY DEF IInv, TypeInv
<1>2. ASSUME NEW q \in Procs PROVE WorkFits(q)'
  <2>1. CASE q = p
    BY <2>1, RestKnows
  <2>2. CASE q # p
    <3>1. stage'[q] = stage[q] /\ tx'[q] = tx[q]
      BY <1>1, <2>2, EndPoints DEF Actors
    <3> QED BY <3>1, OthersKept
  <2> QED BY <2>1, <2>2
<1>3. answer'[p] = r /\ \A q \in Actors : q # p => answer'[q] = answer[q]
  BY <1>1 DEF End, TypeOK
<1>4. AnswersAgree'
  <2>1. UNCHANGED wagers /\ \A t : Present(t)' <=> Present(t)
    BY DEF Present, store
  <2>2. \A c \in Calls : c \in Actors /\ (answer'[c] = answer[c] \/ answer'[c].txn = Nil)
    BY <1>3 DEF Actors, Procs
  <2> QED BY <2>1, <2>2 DEF BookInv, AnswersAgree
<1>5. NoAlarm'
  BY <1>3 DEF BookInv, NoAlarm
<1> QED BY <1>2, <1>4, <1>5, BooksKept DEF BookInv, Works

\* A transaction that fails, other than at a safeguard.
LEMMA FailFits ==
  ASSUME IInv, CallInv, BookInv, NEW p \in Actors, NEW e, e \notin Alarms, Fail(p, e)
  PROVE  BookInv'
BY EndQuiet DEF Fail, ErrorReply, NoReply

\* A decision just made is the one the commit finds.
LEMMA DecisionKnown ==
  ASSUME NEW p \in Procs, NEW t, NEW base, NEW o, DecisionFits(t, base, o), Counted(p, t, o),
         tx'[p].txn = t, tx'[p].base = base, tx'[p].outcome = o, UNCHANGED store
  PROVE  DecisionFits(tx[p].txn, tx[p].base, tx[p].outcome)' /\ Counted(p, tx[p].txn, tx[p].outcome)'
<1>1. UNCHANGED wagers
  BY DEF store
<1>2. DecisionFits(tx[p].txn, tx[p].base, tx[p].outcome)'
  BY <1>1 DEF DecisionFits, ReferenceFits, HasSuccessfulReversal, OriginalKind
<1>3. Counted(p, tx[p].txn, tx[p].outcome)'
  BY <1>1 DEF Counted, NothingFits
<1> QED BY <1>2, <1>3

-----------------------------------------------------------------------------
(* The steps of a call before its commit.                                   *)

\* On the way to its own row, a call knows its wallet from the lock on.
LEMMA SearchFits ==
  ASSUME IInv, CallInv, BookInv, NEW c \in Calls, stage[c] # "done",
         NEW s, s \notin {"commit", "done"}, NEW x \in TxType,
         stage' = [stage EXCEPT ![c] = s], tx' = [tx EXCEPT ![c] = x],
         UNCHANGED <<store, answer>>,
         x.txn # Nil => x.txn = c /\ x.pass = "locked",
         x.pass = "locked" => x.wallet = Request[c].wallet /\ x.base.version >= 1,
         x.pass = "duplicate" => Request[c].msg # Nil /\ s # "findExt"
  PROVE  BookInv'
<1>1. c \in Procs /\ c \in Actors /\ c \notin RefWorkers /\ TypeOK
  BY CallFacts
<1>2. stage'[c] = s /\ tx'[c] = x
  BY <1>1 DEF TypeOK
<1>3. ~Present(c)'
  BY <1>1 DEF BookInv, Works, WorkFits, Present, store
<1>4. WorkFits(c)'
  BY <1>1, <1>2, <1>3, CallColumns DEF WorkFits
<1> QED BY <1>1, <1>4, AdvanceFits

\* What a call knows at the start of every step.
LEMMA CallKnows ==
  ASSUME IInv, CallInv, BookInv, NEW c \in Calls
  PROVE  /\ c \in Procs /\ c \in Actors /\ TypeOK /\ tx[c] \in TxType
         /\ tx[c].pass = "locked" => tx[c].wallet = Request[c].wallet /\ tx[c].base.version >= 1
         /\ tx[c].pass = "duplicate" => Request[c].msg # Nil /\ stage[c] # "findExt"
         /\ stage[c] # "done" => ~Present(c)
         /\ stage[c] \notin {"decide", "commit"} => tx[c].txn = Nil
         /\ MessageFits(c, stage[c], tx[c])
         /\ stage[c] \in {"idle", "wallet"} => tx[c].pass = "first"
BY CallFacts DEF BookInv, Works, WorkFits, CallInv, CallFits

\* Validation.
LEMMA BeginBooks ==
  ASSUME IInv, CallInv, BookInv, NEW c \in Calls, Begin(c) PROVE BookInv'
<1>1. stage[c] = "idle" /\ c \in Actors /\ tx[c].pass = "first" /\ tx[c].txn = Nil /\ tx[c] \in TxType
  BY CallKnows DEF Begin
<1>2. CASE ValidationError(Request[c]) # ""
  <2>1. ValidationError(Request[c]) \notin Alarms
    BY DEF ValidationError, Alarms, AllSafeguards
  <2> QED BY <1>1, <1>2, <2>1, FailFits DEF Begin
<1>3. CASE ValidationError(Request[c]) = ""
  <2>1. PICK s \in {"findKey", "inbox"} : stage' = [stage EXCEPT ![c] = s]
    BY <1>3 DEF Begin, Goto
  <2>2. tx' = [tx EXCEPT ![c] = tx[c]] /\ UNCHANGED <<store, answer>>
    BY <1>3, CallState DEF Begin
  <2> QED BY <1>1, <2>1, <2>2, SearchFits
<1> QED BY <1>2, <1>3

\* The message.
LEMMA RegisterBooks ==
  ASSUME IInv, CallInv, BookInv, NEW c \in Calls, Register(c) PROVE BookInv'
<1>1. /\ stage[c] = "inbox" /\ c \in Actors /\ Request[c].msg # Nil /\ tx[c].txn = Nil
      /\ tx[c] \in TxType
  BY CallKnows DEF Register, MessageFits
<1>2. CASE Fail(c, "InboxConflict")
  BY <1>1, <1>2, FailFits DEF Alarms, AllSafeguards
<1>3. CASE ~Fail(c, "InboxConflict")
  <2>1. PICK pass \in {"first", "duplicate"} :
          tx' = [tx EXCEPT ![c].pass = pass] /\ Goto(c, "findKey") /\ UNCHANGED <<store, answer>>
    BY <1>3 DEF Register
  <2> DEFINE x == [tx[c] EXCEPT !.pass = pass]
  <2>2. x \in TxType /\ x.pass = pass /\ x.txn = Nil
    BY <1>1 DEF TxType
  <2>3. stage' = [stage EXCEPT ![c] = "findKey"] /\ tx' = [tx EXCEPT ![c] = x]
    BY <2>1 DEF Goto
  <2> HIDE DEF x
  <2> QED BY <1>1, <2>1, <2>2, <2>3, SearchFits
<1> QED BY <1>2, <1>3

\* The answer of a replay is what the row says.
LEMMA FoundReplayBooks ==
  ASSUME IInv, CallInv, BookInv, NEW c \in Calls, NEW y \in Calls,
         stage[c] \in {"findKey", "findExt"}, FoundReplay(c, y)
  PROVE  BookInv'
<1>1. CASE Fail(c, "IdempotencyConflict")
  BY <1>1, CallKnows, FailFits DEF Alarms, AllSafeguards
<1>2. CASE ~Fail(c, "IdempotencyConflict")
  <2> DEFINE x == [tx[c] EXCEPT !.reply = Replay(y)]
  <2>1. /\ stage' = [stage EXCEPT ![c] = "commit"] /\ tx' = [tx EXCEPT ![c] = x]
        /\ UNCHANGED <<store, answer>>
    BY <1>2 DEF FoundReplay, Goto
  <2>2. /\ x.reply = Replay(y) /\ x.pass = tx[c].pass /\ x.txn = Nil /\ x.wallet = tx[c].wallet
        /\ x.base = tx[c].base
    BY CallKnows DEF TxType
  <2>3. stage'[c] = "commit" /\ tx'[c] = x
    BY <2>1, CallKnows DEF TypeOK
  <2> HIDE DEF x
  <2>4. c \in Procs /\ c # Nil /\ c \notin RefWorkers
    BY CallFacts, NilApart
  <2>5. ReplyAgrees(c)'
    BY <2>1, <2>2, <2>3, <2>4 DEF ReplyAgrees, Replay, store
  <2>6. WorkFits(c)'
    <3>1. ~Present(c)'
      BY <2>1, CallKnows DEF Present, store
    <3> QED BY <2>2, <2>3, <2>4, <2>5, <3>1, CallKnows DEF WorkFits
  <2> QED BY <2>1, <2>4, <2>6, AdvanceFits
<1> QED BY <1>1, <1>2

\* A search step that keeps what was read.
LEMMA GotoBooks ==
  ASSUME IInv, CallInv, BookInv, NEW c \in Calls, NEW s \in {"findExt", "wallet", "insert"},
         stage[c] \in {"findKey", "findExt"}, Goto(c, s), UNCHANGED <<store, tx, answer>>,
         s = "findExt" => tx[c].pass # "duplicate"
  PROVE  BookInv'
<1>1. stage' = [stage EXCEPT ![c] = s] /\ tx' = [tx EXCEPT ![c] = tx[c]] /\ UNCHANGED <<store, answer>>
  BY CallState DEF Goto
<1> QED BY <1>1, CallKnows, SearchFits

\* The search by key.  The operation of a message that has been met is there.
LEMMA FindByIdempotencyKeyBooks ==
  ASSUME IInv, CallInv, BookInv, NEW c \in Calls, FindByIdempotencyKey(c) PROVE BookInv'
<1> DEFINE found == {x \in Calls : Present(x) /\ SameKey(Request[x], Request[c])}
<1>1. stage[c] = "findKey"
  BY DEF FindByIdempotencyKey
<1>2. CASE found = {}
  <2>1. Goto(c, "findExt") /\ UNCHANGED <<store, tx, answer>>
    BY <1>2 DEF FindByIdempotencyKey
  <2>2. tx[c].pass = "duplicate" => Request[c].msg # Nil /\ inbox[Request[c].msg] = Request[c].body
    BY <1>1, CallKnows DEF MessageFits, Inside
  <2>3. tx[c].pass # "duplicate"
    BY <1>2, <2>2 DEF BookInv, InboxSettled
  <2> QED BY <1>1, <2>1, <2>3, GotoBooks
<1>3. CASE found # {}
  BY <1>1, <1>3, FoundReplayBooks DEF FindByIdempotencyKey
<1> QED BY <1>2, <1>3

\* The search by external id.  An incomplete message is never met.
LEMMA FindByExternalIDBooks ==
  ASSUME IInv, CallInv, BookInv, NEW c \in Calls, FindByExternalID(c) PROVE BookInv'
<1>1. /\ stage[c] = "findExt" /\ tx[c].pass \in {"first", "locked", "conflict"} /\ c \in Actors
  BY CallKnows DEF FindByExternalID, TxType
<1>2. CASE \E y \in Calls : FoundReplay(c, y)
  BY <1>1, <1>2, FoundReplayBooks
<1>3. CASE FoundNothing(c)
  <2>1. CASE tx[c].pass \in {"first", "locked"}
    <3>1. PICK s \in {"wallet", "insert"} : Goto(c, s) /\ UNCHANGED <<store, tx, answer>>
      BY <1>3, <2>1 DEF FoundNothing
    <3> QED BY <1>1, <3>1, GotoBooks
  <2>2. CASE tx[c].pass = "conflict"
    <3>1. Fail(c, "IdempotencyConflict")
      BY <1>3, <2>2 DEF FoundNothing
    <3> QED BY <1>1, <3>1, FailFits DEF Alarms, AllSafeguards
  <2> QED BY <1>1, <2>1, <2>2
<1> QED BY <1>2, <1>3 DEF FindByExternalID

\* The row lock: only a wallet that is there is locked.
LEMMA LockWalletBooks ==
  ASSUME IInv, CallInv, BookInv, NEW c \in Calls, LockWallet(c) PROVE BookInv'
<1> DEFINE w == Request[c].wallet
           x == [tx[c] EXCEPT !.wallet = w, !.base = wallets[w], !.pass = "locked"]
<1>1. /\ stage[c] = "wallet" /\ c \in Actors /\ TypeOK /\ tx[c] \in TxType /\ tx[c].txn = Nil
      /\ w \in Openings
  BY CallKnows, RequestAssumption DEF LockWallet
<1>2. CASE Fail(c, "WalletNotFound")
  BY <1>1, <1>2, FailFits DEF Alarms, AllSafeguards
<1>3. CASE ~Fail(c, "WalletNotFound")
  <2>1. /\ stage' = [stage EXCEPT ![c] = "findKey"] /\ tx' = [tx EXCEPT ![c] = x]
        /\ UNCHANGED <<store, answer>> /\ wallets[w].version # 0
    BY <1>1, <1>3, CallState DEF LockWallet, Goto, TxType
  <2>2. wallets[w] \in WalletType
    BY <1>1 DEF TypeOK
  <2>3. x \in TxType /\ x.txn = Nil /\ x.pass = "locked" /\ x.wallet = w /\ x.base = wallets[w]
    BY <1>1, <2>2 DEF TxType
  <2>4. wallets[w].version >= 1
    BY <2>1, <2>2 DEF WalletType
  <2> HIDE DEF x
  <2> QED BY <1>1, <2>1, <2>3, <2>4, SearchFits
<1> QED BY <1>2, <1>3

\* A wallet of somebody else.
LEMMA RefuseIdentityBooks ==
  ASSUME IInv, CallInv, BookInv, NEW c \in Calls, RefuseIdentity(c) PROVE BookInv'
BY CallKnows, FailFits DEF RefuseIdentity, Alarms, AllSafeguards

\* The row of its own, unless a rival has come in between.
LEMMA InsertBooks ==
  ASSUME IInv, CallInv, BookInv, NEW c \in Calls, Insert(c) PROVE BookInv'
<1>1. /\ stage[c] = "insert" /\ tx[c] \in TxType /\ tx[c].txn = Nil /\ tx[c].pass = "locked"
      /\ UNCHANGED <<store, answer>> /\ c \in Calls
  BY CallKnows, CallState DEF Insert
<1>2. tx[c].wallet = Request[c].wallet /\ tx[c].base.version >= 1
  BY <1>1, CallKnows
<1>3. CASE Goto(c, "findKey") /\ tx' = [tx EXCEPT ![c].pass = "conflict"]
  <2> DEFINE x == [tx[c] EXCEPT !.pass = "conflict"]
  <2>1. stage' = [stage EXCEPT ![c] = "findKey"] /\ tx' = [tx EXCEPT ![c] = x]
    BY <1>3 DEF Goto
  <2>2. x \in TxType /\ x.pass = "conflict" /\ x.txn = Nil
    BY <1>1 DEF TxType
  <2> HIDE DEF x
  <2> QED BY <1>1, <2>1, <2>2, SearchFits
<1>4. CASE Goto(c, "decide") /\ tx' = [tx EXCEPT ![c].txn = c]
  <2> DEFINE x == [tx[c] EXCEPT !.txn = c]
  <2>1. stage' = [stage EXCEPT ![c] = "decide"] /\ tx' = [tx EXCEPT ![c] = x]
    BY <1>4 DEF Goto
  <2>2. /\ x \in TxType /\ x.pass = "locked" /\ x.txn = c /\ x.wallet = tx[c].wallet
        /\ x.base = tx[c].base
    BY <1>1 DEF TxType
  <2> HIDE DEF x
  <2> QED BY <1>1, <1>2, <2>1, <2>2, SearchFits
<1> QED BY <1>3, <1>4 DEF Insert

\* The decision of a call, and the answer it is going to give.
LEMMA DecideBooks ==
  ASSUME IInv, CallInv, BookInv, NEW c \in Calls, Decide(c) PROVE BookInv'
<1> DEFINE d == ProcessWager(c, tx[c].base)
           o == [d EXCEPT !.due = TRUE]
           r == [error |-> Nil, txn |-> c, status |-> o.status, failure |-> o.failure,
                 balance |-> IF o.status = "PROCESSED" THEN o.after ELSE Nil, replay |-> FALSE]
           x == [tx[c] EXCEPT !.outcome = o, !.reply = r]
<1>1. /\ stage[c] = "decide" /\ c \in Actors /\ c \in Procs /\ tx[c].txn = c /\ tx[c] \in TxType
      /\ tx[c].base \in WalletType /\ TypeOK /\ c # Nil /\ c \notin RefWorkers
      /\ ValidationError(Request[c]) = "" /\ ~Present(c) /\ WorkFits(c)
  BY CallFacts, CallState, CallKnows, NilApart DEF Decide, TxType, BookInv, Works
<1>2. Kind(c) # "OPENING"
  BY <1>1, CallColumns DEF ValidationError
<1>3. d \in OutcomeType /\ Sound(c, tx[c].base, d)
  BY <1>1, <1>2, ProcessWagerFits, ProcessWagerBounded DEF Bounded
<1>4. CASE Fail(c, "InvalidWallet")
  BY <1>1, <1>4, FailFits DEF Alarms, AllSafeguards
<1>5. CASE ~Fail(c, "InvalidWallet")
  <2>1. /\ o.status # "NONE" /\ stage' = [stage EXCEPT ![c] = "commit"]
        /\ tx' = [tx EXCEPT ![c].outcome = o, ![c].reply = r] /\ UNCHANGED <<store, answer>>
    BY <1>5 DEF Decide, Goto
  <2> HIDE DEF d
  <2>2. /\ o \in OutcomeType /\ o.status = d.status /\ o.failure = d.failure /\ o.attempts = d.attempts
        /\ o.reference = d.reference /\ o.direction = d.direction /\ o.after = d.after
    BY <1>3 DEF OutcomeType
  <2> HIDE DEF o
  <2>3. DecisionFits(c, tx[c].base, o)
    BY <1>3, <2>1, <2>2, Rescheduled DEF Sound
  <2>4. o.attempts = 0 /\ o.failure # "REFERENCE_NOT_FOUND"
    BY <1>3, <2>2 DEF Sound
  <2>5. /\ r.txn = c /\ r.status = o.status /\ r.failure = o.failure /\ r.replay = FALSE
        /\ r.balance = IF o.status = "PROCESSED" THEN o.after ELSE Nil
    OBVIOUS
  <2>6. tx' = [tx EXCEPT ![c] = x]
    BY <2>1
  <2> HIDE DEF r
  <2>7. /\ x.txn = c /\ x.outcome = o /\ x.base = tx[c].base /\ x.reply = r
        /\ x.wallet = tx[c].wallet /\ x.pass = tx[c].pass
    BY <1>1 DEF TxType
  <2>8. stage'[c] = "commit" /\ tx'[c] = x /\ ~Present(c)' /\ wagers' = wagers
    BY <1>1, <2>1, <2>6 DEF TypeOK, Present, store
  <2> HIDE DEF x
  <2>9. ReplyAgrees(c)'
    BY <2>5, <2>7, <2>8 DEF ReplyAgrees, NewRow
  <2>10. Counted(c, c, o)
    BY <1>1, <2>4 DEF Counted
  <2>11. DecisionFits(tx[c].txn, tx[c].base, tx[c].outcome)' /\ Counted(c, tx[c].txn, tx[c].outcome)'
    BY <1>1, <2>1, <2>3, <2>7, <2>8, <2>10, DecisionKnown
  <2>12. WorkFits(c)'
    BY <1>1, <2>7, <2>8, <2>9, <2>11 DEF WorkFits
  <2> QED BY <1>1, <2>1, <2>6, <2>12, AdvanceFits
<1> QED BY <1>4, <1>5

-----------------------------------------------------------------------------
(* The steps of a worker before its commit, and the clock.                  *)

\* A worker's step that takes no decision.
LEMMA ClaimFits ==
  ASSUME IInv, CallInv, BookInv, NEW p \in RefWorkers, NEW s, s # "commit", NEW x,
         stage' = [stage EXCEPT ![p] = s], tx' = [tx EXCEPT ![p] = x], UNCHANGED <<store, answer>>,
         x.reply = NoReply,
         x.txn # Nil => /\ WalletOf(x.txn) = x.wallet /\ x.base.version >= 1
                        /\ wagers[x.txn].status = "PENDING_REFERENCE"
  PROVE  BookInv'
<1>1. p \in Procs /\ p \in Actors /\ p \notin Calls /\ TypeOK
  BY WorkerFacts
<1>2. stage'[p] = s /\ tx'[p] = x /\ wagers' = wagers
  BY <1>1 DEF TypeOK, store
<1>3. WorkFits(p)'
  BY <1>1, <1>2 DEF WorkFits
<1> QED BY <1>1, <1>3, AdvanceFits

\* What a worker knows at the start of every step.
LEMMA WorkerKnows ==
  ASSUME IInv, CallInv, BookInv, NEW p \in RefWorkers
  PROVE  /\ p \in Procs /\ p \in Actors /\ p \notin Calls /\ TypeOK /\ tx[p] \in TxType
         /\ tx \in [Procs -> TxType] /\ tx[p].reply = NoReply
         /\ stage[p] \in {"idle", "claim", "claimRow"} => tx[p].txn = Nil
         /\ stage[p] \in {"claim", "claimRow"} => tx[p].wallet \in Openings
         /\ tx[p].txn # Nil =>
              /\ tx[p].txn \in Calls /\ WalletOf(tx[p].txn) = tx[p].wallet
              /\ tx[p].base.version >= 1 /\ wagers[tx[p].txn].status = "PENDING_REFERENCE"
              /\ ValidationError(Request[tx[p].txn]) = ""
<1>1. WorkFits(p) /\ p \in Procs /\ p \notin Calls
  BY WorkerFacts DEF BookInv, Works
<1>2. tx \in [Procs -> TxType]
  BY DEF IInv, TypeInv, TypeOK
<1>3. stage[p] \in {"idle", "claim", "claimRow"} => tx[p].txn = Nil
  BY DEF IInv, Control, Working
<1>4. stage[p] \in {"claim", "claimRow"} => tx[p].wallet \in Openings
  BY DEF IInv, Control, Working
<1> QED BY <1>1, <1>2, <1>3, <1>4, WorkerFacts DEF WorkFits

\* The scan for a due row.
LEMMA ClaimScanBooks ==
  ASSUME IInv, CallInv, BookInv, NEW p \in RefWorkers, ClaimScan(p) PROVE BookInv'
<1>1. /\ stage[p] = "idle" /\ stage' = [stage EXCEPT ![p] = "claim"] /\ UNCHANGED <<store, answer>>
      /\ tx[p] \in TxType /\ tx[p].txn = Nil /\ tx[p].reply = NoReply
  BY WorkerKnows DEF ClaimScan, Goto
<1>2. PICK w \in Openings : tx' = [tx EXCEPT ![p].wallet = w]
  BY DEF ClaimScan
<1> DEFINE x == [tx[p] EXCEPT !.wallet = w]
<1>3. tx' = [tx EXCEPT ![p] = x] /\ x.txn = Nil /\ x.reply = NoReply
  BY <1>1, <1>2 DEF TxType
<1> HIDE DEF x
<1> QED BY <1>1, <1>3, ClaimFits

\* The lock of the wallet, taken or passed over.
LEMMA ClaimWalletBooks ==
  ASSUME IInv, CallInv, BookInv, NEW p \in RefWorkers, ClaimWallet(p) PROVE BookInv'
<1>1. /\ stage[p] = "claim" /\ UNCHANGED <<store, answer>> /\ p \in Procs
      /\ tx \in [Procs -> TxType] /\ tx[p] \in TxType /\ tx[p].txn = Nil /\ tx[p].reply = NoReply
  BY WorkerKnows DEF ClaimWallet
<1>2. CASE Goto(p, "idle") /\ tx' = [tx EXCEPT ![p].wallet = Nil]
  <2> DEFINE x == [tx[p] EXCEPT !.wallet = Nil]
  <2>1. tx' = [tx EXCEPT ![p] = x] /\ x.txn = Nil /\ x.reply = NoReply
        /\ stage' = [stage EXCEPT ![p] = "idle"]
    BY <1>1, <1>2 DEF TxType, Goto
  <2> HIDE DEF x
  <2> QED BY <1>1, <2>1, ClaimFits
<1>3. CASE Goto(p, "claimRow") /\ UNCHANGED tx
  <2>1. tx' = [tx EXCEPT ![p] = tx[p]] /\ stage' = [stage EXCEPT ![p] = "claimRow"]
    BY <1>1, <1>3 DEF Goto
  <2> QED BY <1>1, <2>1, ClaimFits
<1> QED BY <1>2, <1>3 DEF ClaimWallet

\* The row, chosen under the lock.  The event of a waiting row is always there.
LEMMA ClaimRowBooks ==
  ASSUME IInv, CallInv, BookInv, NEW p \in RefWorkers, ClaimRow(p) PROVE BookInv'
<1> DEFINE w == tx[p].wallet
<1>1. /\ stage[p] = "claimRow" /\ p \in Procs /\ p \in Actors /\ TypeOK /\ tx \in [Procs -> TxType]
      /\ tx[p] \in TxType /\ tx[p].reply = NoReply /\ w \in Openings
  BY WorkerKnows DEF ClaimRow
<1>2. CASE End(p, NoReply) /\ UNCHANGED store
  <2>1. NoReply.txn = Nil /\ NoReply.error = Nil
    BY DEF NoReply
  <2>2. NoReply.error \notin Alarms
    BY <2>1, ErrorAssumption DEF Alarms, CallErrors
  <2> QED BY <1>1, <1>2, <2>1, <2>2, EndQuiet
<1>3. CASE \E t \in DueOn(w) : IF PendingEvents(t) = {} THEN Fail(p, "MetadataMissing")
               ELSE /\ Goto(p, "decide")
                    /\ tx' = [tx EXCEPT ![p].txn = t, ![p].base = wallets[w]]
                    /\ UNCHANGED <<store, lock, answer>>
  <2>1. PICK t \in DueOn(w) : IF PendingEvents(t) = {} THEN Fail(p, "MetadataMissing")
               ELSE /\ Goto(p, "decide")
                    /\ tx' = [tx EXCEPT ![p].txn = t, ![p].base = wallets[w]]
                    /\ UNCHANGED <<store, lock, answer>>
    BY <1>3
  <2>2. t \in Calls /\ t \in Txns /\ wagers[t].status = "PENDING_REFERENCE" /\ WalletOf(t) = w
    BY DEF DueOn, Txns
  <2>3. PendingEvents(t) # {}
    BY <2>2 DEF BookInv, Books, EventsFit, EventsOf, PendingEvents
  <2>4. wallets[w].version >= 1
    BY <2>2 DEF BookInv, Books, RowsFit
  <2> DEFINE x == [tx[p] EXCEPT !.txn = t, !.base = wallets[w]]
  <2>5. /\ tx' = [tx EXCEPT ![p] = x] /\ stage' = [stage EXCEPT ![p] = "decide"]
        /\ UNCHANGED <<store, answer>>
    BY <1>1, <2>1, <2>3 DEF Goto
  <2>6. x.txn = t /\ x.base = wallets[w] /\ x.wallet = w /\ x.reply = NoReply
    BY <1>1 DEF TxType
  <2> HIDE DEF x
  <2> QED BY <2>2, <2>4, <2>5, <2>6, ClaimFits
<1> QED BY <1>2, <1>3 DEF ClaimRow

\* The decision of a retry.
LEMMA RetryDecideBooks ==
  ASSUME IInv, CallInv, BookInv, NEW p \in RefWorkers, RetryDecide(p) PROVE BookInv'
<1> DEFINE t == tx[p].txn
           o == RetryOutcome(p, t, tx[p].base)
           x == [tx[p] EXCEPT !.outcome = o]
<1>1. /\ stage[p] = "decide" /\ p \in Procs /\ p \in Actors /\ p \notin Calls /\ TypeOK
      /\ tx[p] \in TxType /\ tx[p].reply = NoReply /\ t # Nil /\ tx[p].base \in WalletType
  BY WorkerKnows DEF RetryDecide, IInv, Control, Working, TxType
<1>2. /\ t \in Calls /\ WalletOf(t) = tx[p].wallet /\ tx[p].base.version >= 1
      /\ wagers[t].status = "PENDING_REFERENCE" /\ ValidationError(Request[t]) = ""
  BY <1>1, WorkerKnows
<1>3. CASE Fail(p, "InvalidWallet")
  BY <1>1, <1>3, FailFits DEF Alarms, AllSafeguards
<1>4. CASE ~Fail(p, "InvalidWallet")
  <2>1. /\ o.status # "NONE" /\ stage' = [stage EXCEPT ![p] = "commit"]
        /\ tx' = [tx EXCEPT ![p].outcome = o] /\ UNCHANGED <<store, answer>>
    BY <1>4 DEF RetryDecide, Goto
  <2>2. DecisionFits(t, tx[p].base, o) /\ Counted(p, t, o)
    BY <1>1, <1>2, <2>1, RetryFits
  <2> HIDE DEF o
  <2>3. tx' = [tx EXCEPT ![p] = x]
    BY <2>1
  <2>4. /\ x.txn = t /\ x.outcome = o /\ x.base = tx[p].base /\ x.reply = NoReply
        /\ x.wallet = tx[p].wallet
    BY <1>1 DEF TxType
  <2>5. stage'[p] = "commit" /\ tx'[p] = x /\ wagers' = wagers
    BY <1>1, <2>1, <2>3 DEF TypeOK, store
  <2> HIDE DEF x, t
  <2>6. DecisionFits(tx[p].txn, tx[p].base, tx[p].outcome)' /\ Counted(p, tx[p].txn, tx[p].outcome)'
    BY <1>1, <2>1, <2>2, <2>4, <2>5, DecisionKnown
  <2>7. WorkFits(p)'
    BY <1>1, <1>2, <2>4, <2>5, <2>6 DEF WorkFits
  <2> QED BY <1>1, <2>1, <2>3, <2>7, AdvanceFits
<1> QED BY <1>3, <1>4

\* The clock changes nothing that the books speak of.
LEMMA TickBooks ==
  ASSUME IInv, CallInv, BookInv, NEW t \in Calls, Tick(t) PROVE BookInv'
<1>1. wagers \in [Txns -> RowType] /\ t \in Txns /\ Calls \subseteq Txns /\ Openings \subseteq Txns
  BY DEF IInv, TypeInv, TypeOK, Txns
<1>2. \A y \in Txns : /\ wagers'[y].status = wagers[y].status /\ wagers'[y].failure = wagers[y].failure
                      /\ wagers'[y].reference = wagers[y].reference
                      /\ wagers'[y].balance = wagers[y].balance
                      /\ wagers'[y].attempts = wagers[y].attempts
                      /\ y # t => wagers'[y] = wagers[y]
  BY <1>1 DEF Tick, RowType
<1>3. \A y \in Txns : Present(y)' <=> Present(y)
  BY <1>2 DEF Present
<1>4. UNCHANGED <<wallets, ledger, outbox, inbox, stage, tx, answer>>
  BY DEF Tick
<1>5. t \notin Openings /\ TypeOK
  BY CallColumns DEF IInv, TypeInv
<1>6. RowsFit'
  <2>1. \A y, z \in Calls : ReferenceFits(y, z)' <=> ReferenceFits(y, z)
    BY <1>1, <1>2 DEF ReferenceFits
  <2>2. \A y \in Calls : wagers[y].reference \in Calls \cup {Nil}
    BY <1>1 DEF RowType
  <2> QED BY <1>1, <1>2, <1>4, <2>1, <2>2 DEF BookInv, Books, RowsFit, ResultFits
<1>7. OpeningsFit' /\ ReversedOnce'
  BY <1>1, <1>2, <1>4, <1>5 DEF BookInv, Books, OpeningsFit, ReversedOnce
<1>8. LedgerFits' /\ Reconciles'
  <2>1. \A e \in ledger : e.txn \in Txns
    BY <1>5 DEF TypeOK, EntryType
  <2>2. \A y \in Txns : (MovesMoney(y)' <=> MovesMoney(y))
                        /\ OriginalKind(wagers[y])' = OriginalKind(wagers[y])
    BY <1>2 DEF MovesMoney, OriginalKind
  <2>3. LedgerFits'
    BY <1>4, <2>1, <2>2 DEF BookInv, Books, LedgerFits
  <2> QED BY <1>4, <2>3 DEF BookInv, Books, Reconciles
<1>9. EventsFit' /\ BalanceHistory'
  <2>1. \A e \in outbox : e.txn \in Txns
    BY <1>5 DEF TypeOK, EventType
  <2>2. \A y \in Txns : MovesMoney(y)' <=> MovesMoney(y)
    BY <1>2 DEF MovesMoney
  <2>3. EventsFit'
    BY <1>2, <1>3, <1>4, <2>1, <2>2 DEF BookInv, Books, EventsFit, EventsOf
  <2> QED BY <1>4, <2>3 DEF BookInv, Books, BalanceHistory
<1>10. Works'
  <2>1. ASSUME NEW q \in Procs PROVE WorkFits(q)'
    <3>1. stage'[q] = stage[q] /\ tx'[q] = tx[q] /\ WorkFits(q)
      BY <1>4 DEF BookInv, Works
    <3>2. Present(q)' => Present(q)
      <4>1. CASE q \in Txns
        BY <1>3, <4>1
      <4>2. CASE q \notin Txns
        BY <1>1, <4>2 DEF Tick, Present
      <4> QED BY <4>1, <4>2
    <3> QED BY <1>1, <1>2, <1>6, <3>1, <3>2, WorkKept
  <2> QED BY <2>1 DEF Works
<1>11. InboxSettled' /\ NoAlarm'
  BY <1>1, <1>3, <1>4 DEF BookInv, InboxSettled, NoAlarm
<1>12. AnswersAgree'
  <2>1. \A c \in Calls : answer[c].txn # Nil => answer[c].txn \in Txns
    BY <1>1, <1>5 DEF TypeOK, ReplyType, Actors, Procs
  <2> QED BY <1>2, <1>3, <1>4, <2>1 DEF BookInv, AnswersAgree
<1> QED BY <1>6, <1>7, <1>8, <1>9, <1>10, <1>11, <1>12 DEF BookInv, Books

-----------------------------------------------------------------------------
(* What a unit of work adds to the ledger and to the outbox.                *)

\* The ledger of a wallet, its balance and its version grow together.
LEMMA SumGrows ==
  ASSUME NEW old \in WalletType, NEW new \in WalletType, NEW S \in SUBSET EntryType, IsFiniteSet(S),
         NEW e \in EntryType, e \notin S, WalletMatchesLedger(old, S, Openings),
         new.balance = old.balance + Signed(e),
         new.version = IF e.txn \in Openings THEN old.version ELSE old.version + 1
  PROVE  WalletMatchesLedger(new, S \cup {e}, Openings)
<1> DEFINE Moved1(T) == {f \in T : f.txn \notin Openings}
<1>1. MapThenSumSet(Signed, S \cup {e}) = MapThenSumSet(Signed, S) + Signed(e)
  <2>1. IsFiniteSet(S \cup {e}) /\ S \cup {e} \in SUBSET EntryType
    BY FS_AddElement
  <2>2. MapThenSumSet(Signed, S \cup {e}) = SumOver(Value, S \cup {e})
        /\ MapThenSumSet(Signed, S) = SumOver(Value, S)
    BY <2>1, SignedSum
  <2>3. Value[e] = Signed(e) /\ Value[e] \in Int /\ \A x \in S : Value[x] \in Int
    BY ValueInt
  <2>4. SumOver(Value, S \cup {e}) = SumOver(Value, S) + Value[e]
    BY <2>3, SumAdd
  <2> QED BY <2>2, <2>3, <2>4
<1>2. Cardinality(Moved1(S \cup {e})) =
        IF e.txn \in Openings THEN Cardinality(Moved1(S)) ELSE Cardinality(Moved1(S)) + 1
  <2>1. IsFiniteSet(Moved1(S))
    BY FS_Subset
  <2>2. CASE e.txn \in Openings
    <3>1. Moved1(S \cup {e}) = Moved1(S)
      BY <2>2
    <3> QED BY <2>2, <3>1
  <2>3. CASE e.txn \notin Openings
    <3>1. Moved1(S \cup {e}) = Moved1(S) \cup {e} /\ e \notin Moved1(S)
      BY <2>3
    <3> QED BY <2>1, <2>3, <3>1, FS_AddElement
  <2> QED BY <2>2, <2>3
<1>3. old.balance = MapThenSumSet(Signed, S) /\ old.version = 1 + Cardinality(Moved1(S))
  BY DEF WalletMatchesLedger
<1>4. Cardinality(Moved1(S)) \in Nat
  BY FS_Subset, FS_CardinalityType
<1>5. new.version = 1 + Cardinality(Moved1(S \cup {e}))
  <2> HIDE DEF Moved1
  <2> QED BY <1>2, <1>3, <1>4
<1>6. new.balance = MapThenSumSet(Signed, S \cup {e})
  BY <1>1, <1>3
<1> QED BY <1>5, <1>6 DEF WalletMatchesLedger

\* A wallet without entries has no money.
LEMMA NoEntries ==
  ASSUME NEW wallet, wallet.balance = 0, wallet.version = 1
  PROVE  WalletMatchesLedger(wallet, {}, Openings)
<1>1. MapThenSumSet(Signed, {}) = 0
  <2>1. {} \in SUBSET EntryType /\ IsFiniteSet({})
    BY FS_EmptySet
  <2> QED BY <2>1, SignedSum, SumEmpty
<1>2. Cardinality({e \in {} : e.txn \notin Openings}) = 0
  BY FS_EmptySet
<1> QED BY <1>1, <1>2 DEF WalletMatchesLedger

\* The balance events of a wallet, the first version that one can have, and what it
\* means that they lead up to the wallet as it is.
HistoryOf(w) == {e \in outbox : e.type = "BalanceChanged" /\ WalletOf(e.txn) = w}

FirstVersion(w) == IF OpeningRequest[w].balance = 0 THEN 2 ELSE 1

Continuous(history, first, wallet) ==
  /\ {e.version : e \in history} = first .. wallet.version
  /\ \A e \in history : /\ e.version = first => e.before = 0
                        /\ e.version = wallet.version => e.after = wallet.balance
  /\ \A e, f \in history : /\ e.version = f.version => e = f
                           /\ f.version = e.version + 1 => f.before = e.after

\* That is what the property says of every wallet.
LEMMA HistoryMeans ==
  BalanceHistory <=> \A w \in Openings : Continuous(HistoryOf(w), FirstVersion(w), wallets[w])
BY DEF BalanceHistory, HistoryOf, FirstVersion, Continuous

\* The next event of a wallet.
LEMMA HistoryGrows ==
  ASSUME NEW H \in SUBSET EventType, NEW first \in {1, 2}, NEW old \in WalletType, NEW new \in WalletType,
         Continuous(H, first, old), first <= old.version + 1, NEW e \in EventType,
         e.version = old.version + 1, e.before = IF old.version + 1 = first THEN 0 ELSE old.balance,
         new.version = old.version + 1, e.after = new.balance
  PROVE  Continuous(H \cup {e}, first, new)
<1> DEFINE n == old.version
<1>1. n \in Nat /\ n + 1 \in Nat /\ \A f \in H : f.version \in Nat /\ f.version \in first .. n
  BY DEF WalletType, EventType, Continuous
<1>2. {f.version : f \in H} = first .. n
  BY DEF Continuous
<1>3. \A f \in H : f.version # n + 1 /\ f.version # n + 2 /\ (f.version = n => f.after = old.balance)
  BY <1>1 DEF Continuous
<1>4. first .. (n + 1) = (first .. n) \cup {n + 1}
  BY <1>1
<1>5. {f.version : f \in H \cup {e}} = {f.version : f \in H} \cup {n + 1}
  OBVIOUS
<1>6. {f.version : f \in H \cup {e}} = first .. new.version
  BY <1>2, <1>4, <1>5
<1>7. \A f \in H : n + 1 = f.version + 1 => f.version = n /\ n + 1 # first
  BY <1>1
<1>8. \A f \in H : (f.version = first => f.before = 0) /\ f.version # new.version
  BY <1>3 DEF Continuous
<1>9. \A f \in H \cup {e} : /\ f.version = first => f.before = 0
                            /\ f.version = new.version => f.after = new.balance
  BY <1>8
<1>10. n + 1 # n + 2 /\ (n + 1) + 1 = n + 2
  BY <1>1
<1>11. ASSUME NEW f \in H \cup {e}, NEW g \in H \cup {e}
       PROVE  /\ f.version = g.version => f = g
              /\ g.version = f.version + 1 => g.before = f.after
  <2>1. CASE f \in H /\ g \in H
    BY <2>1 DEF Continuous
  <2>2. CASE f \in H /\ g = e
    BY <1>3, <1>7, <2>2
  <2>3. CASE f = e /\ g \in H
    BY <1>3, <1>10, <2>3
  <2>4. CASE f = e /\ g = e
    BY <1>10, <2>4
  <2> QED BY <2>1, <2>2, <2>3, <2>4
<1> QED BY <1>6, <1>9, <1>11 DEF Continuous

\* Row t is written, with its entry if it moved money.
LEMMA LedgerGrows ==
  ASSUME LedgerFits, TypeOK, NEW t \in Txns, NEW row \in RowType, wagers' = [wagers EXCEPT ![t] = row],
         ~IsTerminal(wagers[t].status), NEW N, ledger' = ledger \cup N,
         MovesMoney(t)' => \E e : N = {e}, ~MovesMoney(t)' => N = {},
         \A e \in N : /\ e.txn = t /\ e.wallet = WalletOf(t) /\ e.amount = Amount(t)
                      /\ e.direction = Direction(Kind(t), OriginalKind(row))
  PROVE  LedgerFits' /\ (\A e \in ledger : e.txn # t)
<1>1. wagers'[t] = row /\ \A y \in Txns : y # t => wagers'[y] = wagers[y]
  BY DEF TypeOK
<1>2. ~MovesMoney(t) /\ \A y \in Txns : y # t => (MovesMoney(y)' <=> MovesMoney(y))
  BY <1>1 DEF MovesMoney, IsTerminal
<1>3. \A e \in ledger : e.txn \in Txns /\ e.txn # t
  BY <1>2 DEF TypeOK, EntryType, LedgerFits
<1>4. IsFiniteSet(ledger')
  <2>1. CASE N = {}
    BY <2>1 DEF LedgerFits
  <2>2. CASE \E e : N = {e}
    BY <2>2, FS_AddElement DEF LedgerFits
  <2> QED BY <2>1, <2>2
<1>5. ASSUME NEW e \in ledger'
      PROVE  /\ MovesMoney(e.txn)' /\ e.wallet = WalletOf(e.txn) /\ e.amount = Amount(e.txn)
             /\ e.direction = Direction(Kind(e.txn), OriginalKind(wagers'[e.txn]))
  <2>1. CASE e \in ledger
    BY <1>1, <1>2, <1>3, <2>1 DEF LedgerFits
  <2>2. CASE e \in N
    BY <1>1, <2>2
  <2> QED BY <2>1, <2>2
<1>6. \A e, f \in ledger' : e.txn = f.txn => e = f
  BY <1>3 DEF LedgerFits
<1>7. ASSUME NEW y \in Txns, MovesMoney(y)' PROVE \E e \in ledger' : e.txn = y
  <2>1. CASE y = t
    BY <1>7, <2>1
  <2>2. CASE y # t
    BY <1>2, <1>7, <2>2 DEF LedgerFits
  <2> QED BY <2>1, <2>2
<1> QED BY <1>3, <1>4, <1>5, <1>6, <1>7 DEF LedgerFits, OriginalKind

\* A row that a worker has tried.
Tried(row) == row.attempts > 0

\* Row t is written, with the events of its new status.
LEMMA EventsGrow ==
  ASSUME EventsFit, TypeOK, NEW t \in Txns, NEW row \in RowType, wagers' = [wagers EXCEPT ![t] = row],
         ~IsTerminal(wagers[t].status), NEW E, outbox' = outbox \cup E,
         Present(t) => row.status # "NONE",
         \A e \in E : /\ e.txn = t /\ row.status # "NONE"
                      /\ e.type = "Processed" => row.status = "PROCESSED" /\ e.after = row.balance
                      /\ e.type = "Rejected" => row.status = "REJECTED" /\ e.failure = row.failure
                      /\ e.type = "BalanceChanged" => MovesMoney(t)'
                      /\ e.type = "PendingReference" => ~Present(t)
                      /\ e.type \in EventTypes,
         \A e, f \in E : e.type = f.type => e = f,
         row.status = "PROCESSED" => \E e \in E : e.type = "Processed",
         row.status = "REJECTED" => \E e \in E : e.type = "Rejected",
         MovesMoney(t)' => \E e \in E : e.type = "BalanceChanged",
         row.status = "PENDING_REFERENCE" \/ Tried(row) =>
           Present(t) \/ \E e \in E : e.type = "PendingReference",
         Present(t) => wagers[t].status = "PENDING_REFERENCE"
  PROVE  EventsFit' /\ \A e \in outbox : e.type = "BalanceChanged" => e.txn # t
<1>1. wagers'[t] = row /\ \A y \in Txns : y # t => wagers'[y] = wagers[y]
  BY DEF TypeOK
<1>2. ~MovesMoney(t) /\ \A y \in Txns : y # t => (MovesMoney(y)' <=> MovesMoney(y))
  BY <1>1 DEF MovesMoney, IsTerminal
<1>3. \A y \in Txns : Present(y) => Present(y)'
  BY <1>1 DEF Present
<1>4. \A e \in outbox : e.txn \in Txns /\ e.type \in EventTypes
  BY DEF TypeOK, EventType
<1>5. \A e \in outbox : e.txn = t => e.type = "PendingReference" /\ Present(t)
  BY <1>2, <1>4 DEF EventsFit, EventTypes, IsTerminal
<1>6. ASSUME NEW e \in outbox'
      PROVE  /\ Present(e.txn)'
             /\ e.type = "Processed" => wagers'[e.txn].status = "PROCESSED" /\ e.after = wagers'[e.txn].balance
             /\ e.type = "Rejected" => wagers'[e.txn].status = "REJECTED" /\ e.failure = wagers'[e.txn].failure
             /\ e.type = "BalanceChanged" => MovesMoney(e.txn)'
  <2>1. CASE e \in outbox /\ e.txn # t
    BY <1>1, <1>2, <1>3, <1>4, <2>1 DEF EventsFit
  <2>2. CASE e \in outbox /\ e.txn = t
    BY <1>3, <1>5, <2>2
  <2>3. CASE e \in E
    BY <1>1, <2>3 DEF Present
  <2> QED BY <2>1, <2>2, <2>3
<1>7. ASSUME NEW e \in outbox', NEW f \in outbox', e.txn = f.txn, e.type = f.type PROVE e = f
  BY <1>5, <1>7 DEF EventsFit
<1>8. ASSUME NEW y \in Txns
      PROVE  /\ wagers'[y].status = "PROCESSED" => EventsOf(y, "Processed")' # {}
             /\ wagers'[y].status = "REJECTED" => EventsOf(y, "Rejected")' # {}
             /\ MovesMoney(y)' => EventsOf(y, "BalanceChanged")' # {}
             /\ wagers'[y].status = "PENDING_REFERENCE" \/ wagers'[y].attempts > 0 =>
                  EventsOf(y, "PendingReference")' # {}
  <2>1. \A type : EventsOf(y, type) \subseteq EventsOf(y, type)'
    BY DEF EventsOf
  <2>2. CASE y # t
    BY <1>1, <1>2, <2>1, <2>2 DEF EventsFit
  <2>3. CASE y = t
    <3>1. \A type : (\E e \in E : e.type = type) => EventsOf(t, type)' # {}
      BY DEF EventsOf
    <3>2. Present(t) => EventsOf(t, "PendingReference") # {}
      BY DEF EventsFit
    <3> QED BY <1>1, <2>1, <2>3, <3>1, <3>2 DEF Tried
  <2> QED BY <2>2, <2>3
<1>9. \A e \in outbox : e.type = "BalanceChanged" => e.txn # t
  BY <1>5
<1> QED BY <1>6, <1>7, <1>8, <1>9 DEF EventsFit

-----------------------------------------------------------------------------
(* What a commit is about to write, and that no safeguard objects.          *)

\* What p knows when it commits its decision o on row t of wallet w, read as base.
Committing(p, t, w, base, o) ==
  /\ stage[p] = "commit" /\ t # Nil
  /\ t = tx[p].txn /\ w = tx[p].wallet /\ base = tx[p].base /\ o = tx[p].outcome

\* The wallet is as it was read, and locked.
LEMMA CommitKnows ==
  ASSUME IInv, CallInv, BookInv, NEW p \in Procs, NEW t, NEW w, NEW base, NEW o,
         Committing(p, t, w, base, o)
  PROVE  /\ t \in Calls /\ w \in Openings /\ w = WalletOf(t) /\ lock[w] = p
         /\ base = wallets[w] /\ base \in WalletType /\ base.version >= 1
         /\ o \in OutcomeType /\ DecisionFits(t, base, o) /\ Counted(p, t, o)
<1> USE DEF Committing
<1>1. TypeOK /\ tx[p] \in TxType /\ WorkFits(p)
  BY DEF IInv, TypeInv, TypeOK, BookInv, Works
<1>2. t \in Calls /\ w \in Openings /\ base \in WalletType /\ o \in OutcomeType
  BY <1>1 DEF TxType, IInv, Control, Working
<1>3. WalletOf(t) = w /\ base.version >= 1 /\ DecisionFits(t, base, o) /\ Counted(p, t, o)
  BY <1>1 DEF WorkFits
<1>4. base # NoWallet
  BY <1>3 DEF NoWallet
<1>5. lock[w] = p /\ base = wallets[w]
  BY <1>4 DEF IInv, LockInv
<1> QED BY <1>2, <1>3, <1>5

\* The row is the process's own or one that waits.
LEMMA RowBefore ==
  ASSUME IInv, CallInv, BookInv, NEW p \in Procs, NEW t, NEW w, NEW base, NEW o,
         Committing(p, t, w, base, o)
  PROVE  /\ t \in Calls /\ t \in Txns /\ wagers[t] \in RowType
         /\ wagers[t].status \in {"NONE", "PENDING_REFERENCE"}
         /\ wagers[t].failure = Nil /\ wagers[t].reference = Nil /\ wagers[t].balance = Nil
         /\ ~Present(t) => p = t /\ p \in Calls /\ wagers[t].attempts = 0
         /\ Present(t) => p \in RefWorkers
         /\ ValidationError(Request[t]) = ""
<1> USE DEF Committing
<1>1. TypeOK /\ WorkFits(p) /\ t \in Calls /\ t \in Txns /\ RowsFit
  BY CommitKnows, CallColumns DEF IInv, TypeInv, BookInv, Books, Works
<1>2. wagers[t] \in RowType
  BY <1>1 DEF TypeOK
<1>3. CASE p \in Calls
  <2>1. t = p /\ wagers[t].status = "NONE" /\ ValidationError(Request[t]) = "" /\ p \notin RefWorkers
    BY <1>1, <1>3, CallFacts DEF WorkFits, Present
  <2> QED BY <1>1, <1>2, <1>3, <2>1 DEF RowsFit, Present
<1>4. CASE p \in RefWorkers
  <2>1. wagers[t].status = "PENDING_REFERENCE" /\ ValidationError(Request[t]) = ""
    BY <1>4, WorkerKnows
  <2> QED BY <1>1, <1>2, <1>4, <2>1 DEF RowsFit, ResultFits, Present
<1> QED BY <1>3, <1>4 DEF Procs

\* The row it writes.
LEMMA RowWritten ==
  ASSUME IInv, CallInv, BookInv, NEW p \in Procs, NEW t, NEW w, NEW base, NEW o,
         Committing(p, t, w, base, o)
  PROVE  /\ NewRow(p) \in RowType /\ NewRow(p).status = o.status /\ NewRow(p).failure = o.failure
         /\ NewRow(p).reference = o.reference /\ NewRow(p).attempts = o.attempts
         /\ NewRow(p).balance = IF o.status = "PROCESSED" THEN o.after ELSE Nil
         /\ ResultFits(t, NewRow(p)) /\ NewRow(p).status \in {"PENDING_REFERENCE", "PROCESSED", "REJECTED"}
<1>1. o \in OutcomeType /\ o = tx[p].outcome /\ DecisionFits(t, base, o)
  <2>1. o \in OutcomeType /\ DecisionFits(t, base, o)
    BY CommitKnows
  <2> QED BY <2>1 DEF Committing
<1>2. /\ NewRow(p).status = o.status /\ NewRow(p).failure = o.failure
      /\ NewRow(p).reference = o.reference /\ NewRow(p).attempts = o.attempts
      /\ NewRow(p).balance = IF o.status = "PROCESSED" THEN o.after ELSE Nil
  BY <1>1 DEF NewRow
<1>3. NewRow(p) \in RowType
  BY <1>1 DEF NewRow, OutcomeType, RowType
<1>4. o.after # Nil
  BY <1>1, ProcessAssumption DEF OutcomeType
<1> QED BY <1>1, <1>2, <1>3, <1>4 DEF ResultFits, DecisionFits

\* The entry it writes, if it moves money.
LEMMA EntryWritten ==
  ASSUME IInv, CallInv, BookInv, NEW p \in Procs, NEW t, NEW w, NEW base, NEW o,
         Committing(p, t, w, base, o), Moves(p)
  PROVE  \E e \in EntryType :
           /\ NewEntries(p) = {e} /\ e.txn = t /\ e.wallet = w /\ e.amount = Amount(t)
           /\ e.direction = o.direction /\ e.direction = Direction(Kind(t), OriginalKind(o))
           /\ e.before = base.balance /\ e.after = o.after
           /\ e.after = Moved(e.before, e.direction, e.amount)
           /\ Signed(e) = e.after - e.before
           /\ \A f \in ledger : f.txn # t
<1> DEFINE e == [wallet |-> w, txn |-> t, direction |-> o.direction, amount |-> Amount(t),
                 before |-> base.balance, after |-> o.after]
<1>1. /\ t \in Calls /\ w \in Openings /\ base \in WalletType /\ o \in OutcomeType
      /\ DecisionFits(t, base, o) /\ ~MovesMoney(t)
  BY CommitKnows, RowBefore DEF MovesMoney
<1>2. /\ o.status = "PROCESSED" /\ Kind(t) # "LOSS" /\ o.direction \in Directions
      /\ Amount(t) \in 1 .. MaxInt /\ NewEntries(p) = {e}
  BY DEF Committing, Moves, IInv, Control, Decided, NewEntries
<1>3. o.direction = Direction(Kind(t), OriginalKind(o)) /\ o.after = Moved(base.balance, o.direction, Amount(t))
  BY <1>1, <1>2 DEF DecisionFits
<1>4. e \in EntryType
  BY <1>1, <1>2 DEF EntryType, OutcomeType, WalletType, Txns
<1>5. o.after = IF o.direction = "DEBIT" THEN base.balance - Amount(t) ELSE base.balance + Amount(t)
  BY <1>3 DEF Moved
<1>6. base.balance \in Int /\ Amount(t) \in Int
  BY <1>1, <1>2, MaxIntAssumption DEF WalletType
<1>7. Signed(e) = e.after - e.before
  <2>1. CASE o.direction = "DEBIT"
    <3>1. Signed(e) = -Amount(t) /\ e.after = base.balance - Amount(t) /\ e.before = base.balance
      BY <1>5, <2>1 DEF Signed
    <3> HIDE DEF e
    <3> QED BY <1>6, <3>1
  <2>2. CASE o.direction = "CREDIT"
    <3>1. Signed(e) = Amount(t) /\ e.after = base.balance + Amount(t) /\ e.before = base.balance
      BY <1>5, <2>2 DEF Signed
    <3> HIDE DEF e
    <3> QED BY <1>6, <3>1
  <2> QED BY <1>2, <2>1, <2>2 DEF Directions
<1>8. \A f \in ledger : f.txn # t
  BY <1>1 DEF BookInv, Books, LedgerFits
<1>9. /\ e.txn = t /\ e.wallet = w /\ e.amount = Amount(t) /\ e.direction = o.direction
      /\ e.before = base.balance /\ e.after = o.after
  OBVIOUS
<1> HIDE DEF e
<1> QED BY <1>2, <1>3, <1>4, <1>7, <1>8, <1>9

\* With it, the wallet still matches its ledger.
LEMMA EntryMatches ==
  ASSUME IInv, CallInv, BookInv, NEW p \in Procs, NEW t, NEW w, NEW base, NEW o,
         Committing(p, t, w, base, o), Moves(p)
  PROVE  /\ NewWallet(p) \in WalletType /\ NewWallet(p).version = base.version + 1
         /\ NewWallet(p).balance = o.after
         /\ WalletMatchesLedger(NewWallet(p), {e \in ledger \cup NewEntries(p) : e.wallet = w}, Openings)
<1>1. /\ t \in Calls /\ t \notin Openings /\ w \in Openings /\ base \in WalletType /\ o \in OutcomeType
      /\ base = wallets[w] /\ base.version >= 1 /\ base.version \in Nat
  <2>1. /\ t \in Calls /\ w \in Openings /\ base \in WalletType /\ o \in OutcomeType
        /\ base = wallets[w]
    BY CommitKnows
  <2>2. t \notin Openings
    BY <2>1, CallColumns
  <2>3. base.version >= 1
    BY CommitKnows, Zenon
  <2> QED BY <2>1, <2>2, <2>3 DEF WalletType
<1>2. PICK e \in EntryType :
        /\ NewEntries(p) = {e} /\ e.txn = t /\ e.wallet = w /\ e.before = base.balance
        /\ e.after = o.after /\ Signed(e) = e.after - e.before /\ \A f \in ledger : f.txn # t
  BY EntryWritten
<1> DEFINE S == {f \in ledger : f.wallet = w}
<1>3. {f \in ledger \cup NewEntries(p) : f.wallet = w} = S \cup {e} /\ e \notin S
  BY <1>2
<1>4. S \in SUBSET EntryType /\ IsFiniteSet(S) /\ WalletMatchesLedger(base, S, Openings)
  <2>1. IsFiniteSet(ledger) /\ ledger \subseteq EntryType
    BY DEF BookInv, Books, LedgerFits, IInv, TypeInv, TypeOK
  <2>2. base.version > 0
    BY <1>1
  <2> QED BY <1>1, <2>1, <2>2, FS_Subset DEF BookInv, Books, Reconciles
<1>5. NewWallet(p).balance = o.after /\ NewWallet(p).version = base.version + 1
  BY DEF NewWallet, Committing
<1>6. NewWallet(p) \in WalletType
  <2>1. NewWallet(p) = [balance |-> o.after, version |-> base.version + 1]
    BY DEF NewWallet, Committing
  <2>2. o.after \in 0 .. MaxInt /\ base.version + 1 \in Nat
    BY <1>1, Successor DEF OutcomeType
  <2> QED BY <2>1, <2>2 DEF WalletType
<1>7. NewWallet(p).balance = base.balance + Signed(e)
  <2>1. base.balance \in Int /\ o.after \in Int
    BY <1>1, MaxIntAssumption DEF WalletType, OutcomeType
  <2>2. Signed(e) = o.after - base.balance
    BY <1>2
  <2> QED BY <1>5, <2>1, <2>2
<1>8. NewWallet(p).version = IF e.txn \in Openings THEN base.version ELSE base.version + 1
  BY <1>1, <1>2, <1>5
<1> HIDE DEF S
<1>9. WalletMatchesLedger(NewWallet(p), S \cup {e}, Openings)
  BY <1>1, <1>3, <1>4, <1>6, <1>7, <1>8, SumGrows
<1> QED BY <1>3, <1>5, <1>6, <1>9

\* The schema's own view of a reference is the domain's.
LEMMA ReferenceInOrder ==
  ASSUME NEW t \in Calls, NEW x, ReferenceFits(t, x)
  PROVE  ReferenceAccepted(Request[t], Request[x], wagers[x].status)
<1>1. /\ SameContext(Request[t], Request[x]) /\ wagers[x].status = "PROCESSED"
      /\ Request[x].kind \in ReferableKinds(Request[t].kind) /\ NeedsReference(Request[t])
      /\ Request[t].kind = "WIN" \/ Request[x].amount = Request[t].amount
  BY ReferenceMeans
<1> QED BY <1>1 DEF ReferenceAccepted, SameContext, ReferableKinds, NeedsReference, IsReversal

\* So is its view of the direction: what a rollback undoes is a bet, a win or a refund.
LEMMA DirectionInOrder ==
  ASSUME NEW t \in Calls, NEW o, o.reference # Nil => ReferenceFits(t, o.reference),
         NeedsReference(Request[t]) => o.reference # Nil
  PROVE  Direction(Kind(t), OriginalKind(o)) =
           IF Kind(t) = "BET" \/ (Kind(t) = "ROLLBACK" /\ OriginalKind(o) \in {"WIN", "REFUND"})
           THEN "DEBIT" ELSE "CREDIT"
<1>1. CASE Kind(t) = "ROLLBACK"
  <2>1. ReferenceFits(t, o.reference) /\ o.reference # Nil /\ Request[t].kind = "ROLLBACK"
    BY <1>1, CallColumns DEF NeedsReference, IsReversal
  <2>2. o.reference \in Calls /\ Request[o.reference].kind \in {"BET", "WIN", "REFUND"}
    BY <2>1, ReferenceMeans DEF ReferableKinds
  <2>3. OriginalKind(o) \in {"BET", "WIN", "REFUND"}
    BY <2>1, <2>2, CallColumns DEF OriginalKind
  <2> QED BY <1>1, <2>3 DEF Direction
<1>2. CASE Kind(t) # "ROLLBACK"
  BY <1>2 DEF Direction
<1> QED BY <1>1, <1>2

\* No safeguard has anything to object to.
LEMMA NoViolation ==
  ASSUME IInv, CallInv, BookInv, NEW p \in Procs, stage[p] = "commit", tx[p].txn # Nil
  PROVE  Violated(p) = {}
<1>1. PICK t, w, base, o : t = tx[p].txn /\ w = tx[p].wallet /\ base = tx[p].base /\ o = tx[p].outcome
  OBVIOUS
<1>2. Committing(p, t, w, base, o)
  BY <1>1 DEF Committing
<1>3. /\ t \in Calls /\ w \in Openings /\ w = WalletOf(t) /\ base = wallets[w]
      /\ base \in WalletType /\ o \in OutcomeType /\ DecisionFits(t, base, o)
  BY <1>2, CommitKnows
<1>4. /\ wagers[t].status \in {"NONE", "PENDING_REFERENCE"} /\ wagers[t].reference = Nil
      /\ ValidationError(Request[t]) = ""
  BY <1>2, RowBefore
<1>5. /\ NewRow(p).status = o.status /\ NewRow(p).failure = o.failure
      /\ NewRow(p).reference = o.reference
      /\ NewRow(p).balance = IF o.status = "PROCESSED" THEN o.after ELSE Nil
      /\ ResultFits(t, NewRow(p)) /\ NewRow(p).status \in {"PENDING_REFERENCE", "PROCESSED", "REJECTED"}
  BY <1>2, RowWritten
<1>6. Moves(p) <=> o.status = "PROCESSED" /\ Kind(t) # "LOSS"
  BY <1>2 DEF Moves, Committing
<1>7. ReferenceKind(p) = OriginalKind(o)
  BY <1>1 DEF ReferenceKind, OriginalKind
<1>8. Kind(t) = Request[t].kind /\ t \notin Openings /\ t # Nil
  BY <1>3, CallColumns
<1>9. Books
  BY DEF BookInv
<1>10. ~(Moves(p) /\ wallets[w].version # base.version)
  BY <1>3
<1>11. ~(Present(t) /\ wagers[t].status # "PENDING_REFERENCE")
  BY <1>4 DEF Present
<1>12. ~(Present(t) /\ ~TransitionAccepted(wagers[t], NewRow(p)))
  BY <1>4, <1>5 DEF TransitionAccepted, Present
<1>13. RowAccepted(Request[t], NewRow(p))
  <2>1. IsReversal(Request[t].kind) => Request[t].ref # Nil
    BY <1>4 DEF ValidationError
  <2>2. NeedsReference(Request[t]) => Request[t].kind \in {"WIN", "REFUND", "ROLLBACK"} /\ Request[t].ref # Nil
    BY <2>1 DEF NeedsReference, IsReversal
  <2>3. Nil \notin FailureCodes
    BY ProcessAssumption
  <2> QED BY <1>5, <2>1, <2>2, <2>3 DEF ResultFits, RowAccepted, NeedsReference, IsReversal
<1>14. o.reference # Nil => ReferenceAccepted(Request[t], Request[o.reference], wagers[o.reference].status)
  BY <1>3, ReferenceInOrder DEF DecisionFits
<1>15. ASSUME NEW e \in NewEntries(p)
       PROVE  LedgerAccepted(e, Kind(t), ReferenceKind(p), NewRow(p)) /\ EventAccepted(e, Kind(t), NewWallet(p).version)
  <2>1. Moves(p)
    BY <1>15 DEF NewEntries
  <2>2. PICK f \in EntryType :
          /\ NewEntries(p) = {f} /\ f.direction = Direction(Kind(t), OriginalKind(o))
          /\ f.after = o.after /\ f.after = Moved(f.before, f.direction, f.amount)
    BY <1>2, <2>1, EntryWritten
  <2>3. e = f /\ e \in EntryType
    BY <1>15, <2>2
  <2>4. /\ e.direction = Direction(Kind(t), OriginalKind(o)) /\ e.after = o.after
        /\ e.after = Moved(e.before, e.direction, e.amount)
    BY <2>2, <2>3
  <2>5. o.status = "PROCESSED" /\ Kind(t) # "LOSS"
    BY <1>6, <2>1
  <2>6. e.direction = IF Kind(t) = "BET" \/ (Kind(t) = "ROLLBACK" /\ OriginalKind(o) \in {"WIN", "REFUND"})
                      THEN "DEBIT" ELSE "CREDIT"
    BY <1>3, <2>4, <2>5, DirectionInOrder DEF DecisionFits
  <2>7. e.amount > 0 /\ e.before >= 0 /\ e.after >= 0
    BY <2>3, MaxIntAssumption DEF EntryType
  <2>8. e.after = IF e.direction = "DEBIT" THEN e.before - e.amount ELSE e.before + e.amount
    BY <2>4 DEF Moved
  <2>9. e.after = NewRow(p).balance /\ NewRow(p).status = "PROCESSED"
    BY <1>5, <2>4, <2>5
  <2>10. LedgerAccepted(e, Kind(t), ReferenceKind(p), NewRow(p))
    <3> HIDE DEF Kind
    <3> QED BY <1>7, <2>5, <2>6, <2>7, <2>8, <2>9 DEF LedgerAccepted
  <2>11. NewWallet(p).version >= 2
    <3>1. NewWallet(p).version = base.version + 1
      BY <1>2, <2>1, EntryMatches
    <3>2. base.version \in Nat /\ base.version >= 1
      BY <1>2, <1>3, CommitKnows DEF WalletType
    <3> QED BY <3>1, <3>2
  <2>12. Kind(t) = "BET" => e.direction = "DEBIT"
    BY <2>6
  <2>13. Kind(t) \in {"WIN", "REFUND"} => e.direction = "CREDIT"
    BY <2>6
  <2> QED BY <2>4, <2>5, <2>10, <2>11, <2>12, <2>13 DEF EventAccepted
<1>16. ~(/\ NewRow(p).status = "PROCESSED" /\ IsReversal(Kind(t))
         /\ \E y \in Calls \ {t} : /\ wagers[y].status = "PROCESSED"
                                   /\ IsReversal(Kind(y)) /\ wagers[y].reference = o.reference)
  BY <1>3, <1>5, <1>8, CallColumns DEF DecisionFits, HasSuccessfulReversal
<1>17. ~(Moves(p) /\ \E e \in ledger : e.txn = t)
  BY <1>4, <1>9 DEF Books, LedgerFits, MovesMoney
<1>18. WalletMatchesLedger(IF Moves(p) THEN NewWallet(p) ELSE wallets[w],
                           {e \in ledger \cup NewEntries(p) : e.wallet = w}, Openings)
  <2>1. CASE Moves(p)
    BY <1>2, <2>1, EntryMatches
  <2>2. CASE ~Moves(p)
    <3>1. ledger \cup NewEntries(p) = ledger
      BY <2>2 DEF NewEntries
    <3>2. base.version \in Nat /\ base.version >= 1
      BY <1>2, <1>3, CommitKnows DEF WalletType
    <3>3. wallets[w].version > 0
      BY <1>3, <3>2
    <3> QED BY <1>3, <1>9, <2>2, <3>1, <3>3 DEF Books, Reconciles
  <2> QED BY <2>1, <2>2
<1>19. ~\E y \in Txns \ {t} : /\ wagers[y].status = "PROCESSED" /\ WalletOf(y) = w
                              /\ Kind(y) # "LOSS" /\ ~\E e \in ledger \cup NewEntries(p) : e.txn = y
  BY <1>9 DEF Books, LedgerFits, MovesMoney
<1> HIDE DEF Kind
<1>20. ASSUME NEW s \in AllSafeguards, s \in Violated(p) PROVE FALSE
  <2>1. CASE s = "WalletConcurrentUpdate"
    BY <1>1, <1>10, <1>20, <2>1 DEF Violated
  <2>2. CASE s = "WagerNotPending"
    BY <1>1, <1>11, <1>20, <2>2 DEF Violated
  <2>3. CASE s = "CheckViolation"
    BY <1>1, <1>12, <1>13, <1>14, <1>15, <1>20, <2>3 DEF Violated
  <2>4. CASE s = "UniqueViolation"
    BY <1>1, <1>16, <1>17, <1>20, <2>4 DEF Violated
  <2>5. CASE s = "InvalidEvent"
    BY <1>1, <1>15, <1>20, <2>5 DEF Violated
  <2>6. CASE s = "WalletOutOfBalance"
    BY <1>1, <1>18, <1>19, <1>20, <2>6 DEF Violated
  <2> QED BY <2>1, <2>2, <2>3, <2>4, <2>5, <2>6 DEF AllSafeguards
<1> QED BY <1>20 DEF Violated

-----------------------------------------------------------------------------
(* The commit of an operation.                                              *)

\* What the commit of a decision writes.
LEMMA CommitWrites ==
  ASSUME IInv, CallInv, BookInv, NEW p \in Procs, NEW t, NEW w, NEW base, NEW o,
         Committing(p, t, w, base, o), Apply(p)
  PROVE  /\ wagers' = [wagers EXCEPT ![t] = NewRow(p)] /\ wagers'[t] = NewRow(p)
         /\ \A y \in Txns : y # t => wagers'[y] = wagers[y]
         /\ wallets' = IF Moves(p) THEN [wallets EXCEPT ![w] = NewWallet(p)] ELSE wallets
         /\ \A v \in Openings : v # w => wallets'[v] = wallets[v]
         /\ Moves(p) => wallets'[w] = NewWallet(p)
         /\ ledger' = ledger \cup NewEntries(p)
         /\ outbox' = outbox \cup (StatusEvents(p) \cup BalanceEvents(p))
         /\ Moves(p) <=> o.status = "PROCESSED" /\ Kind(t) # "LOSS"
         /\ MovesMoney(t)' <=> Moves(p)
<1>1. wagers \in [Txns -> RowType] /\ wallets \in [Openings -> WalletType] /\ t \in Txns /\ w \in Openings
  BY CommitKnows, CallColumns DEF IInv, TypeInv, TypeOK
<1>2. t = tx[p].txn /\ w = tx[p].wallet /\ t # Nil /\ o = tx[p].outcome
  BY DEF Committing
<1>3. wagers' = [wagers EXCEPT ![t] = NewRow(p)]
  BY <1>2 DEF Apply
<1>4. wallets' = IF Moves(p) THEN [wallets EXCEPT ![w] = NewWallet(p)] ELSE wallets
  BY <1>2 DEF Apply
<1>5. ledger' = ledger \cup NewEntries(p) /\ outbox' = outbox \cup (StatusEvents(p) \cup BalanceEvents(p))
  BY <1>2 DEF Apply
<1>6. wagers'[t] = NewRow(p) /\ \A y \in Txns : y # t => wagers'[y] = wagers[y]
  BY <1>1, <1>3
<1>7. (\A v \in Openings : v # w => wallets'[v] = wallets[v]) /\ (Moves(p) => wallets'[w] = NewWallet(p))
  BY <1>1, <1>4
<1>8. Moves(p) <=> o.status = "PROCESSED" /\ Kind(t) # "LOSS"
  BY <1>2 DEF Moves
<1>9. MovesMoney(t)' <=> Moves(p)
  <2>1. NewRow(p).status = o.status
    BY RowWritten
  <2> QED BY <1>6, <1>8, <2>1 DEF MovesMoney
<1> QED BY <1>3, <1>4, <1>5, <1>6, <1>7, <1>8, <1>9

\* A wallet that is there stays there.
LEMMA WalletsStay ==
  ASSUME IInv, CallInv, BookInv, NEW p \in Procs, NEW t, NEW w, NEW base, NEW o,
         Committing(p, t, w, base, o), Apply(p), NEW v \in Openings, wallets[v].version >= 1
  PROVE  wallets'[v].version >= 1
<1>1. CASE Moves(p) /\ v = w
  <2>1. wallets'[v] = NewWallet(p)
    BY <1>1, CommitWrites
  <2>2. NewWallet(p).version = base.version + 1
    BY <1>1, EntryMatches
  <2>3. base \in WalletType
    BY CommitKnows
  <2>4. base.version >= 1 /\ base.version \in Nat
    BY <2>3, CommitKnows, Zenon DEF WalletType
  <2>5. base.version + 1 >= 1
    BY <2>4
  <2> QED BY <2>1, <2>2, <2>5
<1>2. CASE ~(Moves(p) /\ v = w)
  <2>1. wallets'[v] = wallets[v]
    BY <1>2, CommitWrites
  <2> QED BY <2>1
<1> QED BY <1>1, <1>2

\* The rows still fit: what is processed stays a reference, and nothing is undone twice.
LEMMA CommitRowsFit ==
  ASSUME IInv, CallInv, BookInv, NEW p \in Procs, NEW t, NEW w, NEW base, NEW o,
         Committing(p, t, w, base, o), Apply(p)
  PROVE  RowsFit' /\ OpeningsFit' /\ ReversedOnce'
<1>1. /\ t \in Calls /\ t \notin Openings /\ t \in Txns /\ w \in Openings /\ w = WalletOf(t)
      /\ DecisionFits(t, base, o)
  BY CommitKnows, CallColumns
<1>2. PICK row : row = NewRow(p)
  OBVIOUS
<1>3. /\ row \in RowType /\ row.status = o.status /\ row.reference = o.reference
      /\ ResultFits(t, row) /\ row.status \in {"PENDING_REFERENCE", "PROCESSED", "REJECTED"}
  BY <1>2, RowWritten
<1>4. wagers'[t] = row /\ \A y \in Txns : y # t => wagers'[y] = wagers[y]
  BY <1>2, CommitWrites
<1>5. wagers[t].status # "PROCESSED" /\ RowsFit /\ OpeningsFit /\ ReversedOnce
  BY RowBefore DEF BookInv, Books
<1>6. \A y \in Calls : \A x : ReferenceFits(y, x) => ReferenceFits(y, x)'
  <2> SUFFICES ASSUME NEW y \in Calls, NEW x, ReferenceFits(y, x) PROVE ReferenceFits(y, x)'
    OBVIOUS
  <2>1. x \in Calls /\ x \in Txns /\ wagers[x].status = "PROCESSED"
    BY ReferenceMeans, CallColumns
  <2>2. wagers'[x] = wagers[x]
    BY <1>4, <1>5, <2>1
  <2> QED BY <2>2 DEF ReferenceFits
<1>7. \A y \in Calls : WalletOf(y) \in Openings
  BY RequestAssumption, CallColumns
<1>8. \A v \in Openings : wallets[v].version >= 1 => wallets'[v].version >= 1
  BY WalletsStay
<1>9. ASSUME NEW y \in Calls
      PROVE  LET r == wagers'[y] IN
               /\ r.status \in {"NONE", "PENDING_REFERENCE", "PROCESSED", "REJECTED"}
               /\ r.status = "NONE" =>
                    r.failure = Nil /\ r.reference = Nil /\ r.balance = Nil /\ r.attempts = 0
               /\ r.status # "NONE" => wallets'[WalletOf(y)].version >= 1
               /\ ResultFits(y, wagers[y])'
  <2>1. CASE y = t
    <3>1. wallets'[w].version >= 1
      <4>1. base.version >= 1 /\ base = wallets[w]
        BY CommitKnows, Zenon
      <4> QED BY <1>1, <1>8, <4>1
    <3>2. ResultFits(t, wagers[t])'
      BY <1>1, <1>3, <1>4, <1>6 DEF ResultFits
    <3> QED BY <1>1, <1>3, <1>4, <2>1, <3>1, <3>2
  <2>2. CASE y # t
    <3>1. wagers'[y] = wagers[y]
      BY <1>4, <2>2, CallColumns
    <3>2. ResultFits(y, wagers[y])'
      BY <1>5, <1>6, <3>1 DEF RowsFit, ResultFits
    <3> QED BY <1>5, <1>7, <1>8, <3>1, <3>2 DEF RowsFit
  <2> QED BY <2>1, <2>2
<1>10. RowsFit'
  BY <1>9 DEF RowsFit
<1>11. OpeningsFit'
  <2>1. ASSUME NEW v \in Openings
        PROVE  wagers'[v] = wagers[v] /\ (wallets'[v] = wallets[v] \/ wallets'[v].version \notin {0, 1})
               /\ wallets'[v].version \in Nat /\ (wallets[v].version >= 1 <=> wallets'[v].version >= 1)
    <3>1. wagers'[v] = wagers[v]
      BY <1>1, <1>4 DEF Txns
    <3>2. CASE ~(Moves(p) /\ v = w)
      <4>1. wallets'[v] = wallets[v]
        BY <3>2, CommitWrites
      <4>2. wallets[v].version \in Nat
        BY DEF IInv, TypeInv, TypeOK, WalletType
      <4> QED BY <3>1, <4>1, <4>2
    <3>3. CASE Moves(p) /\ v = w
      <4>1. wallets'[v].version = base.version + 1
        <5>1. wallets'[v] = NewWallet(p)
          BY <3>3, CommitWrites
        <5>2. NewWallet(p).version = base.version + 1
          BY <3>3, EntryMatches
        <5> QED BY <5>1, <5>2
      <4>2. base \in WalletType /\ base = wallets[w]
        BY CommitKnows
      <4>3. base.version >= 1 /\ base.version \in Nat
        BY <4>2, CommitKnows, Zenon DEF WalletType
      <4>4. base.version + 1 \notin {0, 1} /\ base.version + 1 \in Nat /\ base.version + 1 >= 1
        BY <4>3
      <4> QED BY <3>1, <3>3, <4>1, <4>2, <4>3, <4>4
    <3> QED BY <3>2, <3>3
  <2> QED BY <1>5, <2>1 DEF OpeningsFit, OpeningRow, NoRow
<1>12. ReversedOnce'
  <2>1. ASSUME NEW z \in Calls, z # t, wagers'[z].status = "PROCESSED", row.status = "PROCESSED",
               IsReversal(Request[t].kind), IsReversal(Request[z].kind),
               wagers'[z].reference = row.reference
        PROVE  FALSE
    <3>1. wagers'[z] = wagers[z]
      BY <1>4, <2>1, CallColumns
    <3>2. HasSuccessfulReversal(o.reference)
      BY <1>3, <2>1, <3>1 DEF HasSuccessfulReversal
    <3> QED BY <1>1, <1>3, <2>1, <3>2 DEF DecisionFits
  <2>2. ASSUME NEW y \in Calls, NEW z \in Calls,
               wagers'[y].status = "PROCESSED", wagers'[z].status = "PROCESSED",
               IsReversal(Request[y].kind), IsReversal(Request[z].kind),
               wagers'[y].reference = wagers'[z].reference
        PROVE  y = z
    <3>1. CASE y = t \/ z = t
      BY <1>4, <2>1, <2>2, <3>1
    <3>2. CASE y # t /\ z # t
      BY <1>4, <1>5, <2>2, <3>2, CallColumns DEF ReversedOnce
    <3> QED BY <3>1, <3>2
  <2> QED BY <2>2 DEF ReversedOnce
<1> QED BY <1>10, <1>11, <1>12

\* The ledger still fits, and every wallet still matches it.
LEMMA CommitLedgerFits ==
  ASSUME IInv, CallInv, BookInv, NEW p \in Procs, NEW t, NEW w, NEW base, NEW o,
         Committing(p, t, w, base, o), Apply(p)
  PROVE  LedgerFits' /\ Reconciles'
<1>1. /\ t \in Calls /\ t \in Txns /\ w \in Openings /\ w = WalletOf(t) /\ base = wallets[w]
      /\ TypeOK /\ Reconciles /\ LedgerFits
  BY CommitKnows, CallColumns DEF IInv, TypeInv, BookInv, Books
<1>2. PICK row, N : row = NewRow(p) /\ N = NewEntries(p)
  OBVIOUS
<1>3. row \in RowType /\ row.reference = o.reference /\ OriginalKind(row) = OriginalKind(o)
  BY <1>2, RowWritten DEF OriginalKind
<1>4. wagers' = [wagers EXCEPT ![t] = row] /\ ledger' = ledger \cup N /\ (MovesMoney(t)' <=> Moves(p))
  BY <1>2, CommitWrites
<1>5. Moves(p) => \E e \in EntryType :
        /\ N = {e} /\ e.txn = t /\ e.wallet = w /\ e.amount = Amount(t)
        /\ e.direction = Direction(Kind(t), OriginalKind(row))
  BY <1>2, <1>3, EntryWritten
<1>6. ~Moves(p) => N = {}
  BY <1>2 DEF NewEntries
<1>7. ~IsTerminal(wagers[t].status)
  BY RowBefore DEF IsTerminal
<1>8. LedgerFits'
  BY <1>1, <1>3, <1>4, <1>5, <1>6, <1>7, LedgerGrows
<1>9. ASSUME NEW v \in Openings, wallets'[v].version > 0
      PROVE  WalletMatchesLedger(wallets'[v], {e \in ledger' : e.wallet = v}, Openings)
  <2>1. CASE Moves(p) /\ v = w
    <3>1. WalletMatchesLedger(NewWallet(p), {e \in ledger \cup NewEntries(p) : e.wallet = w}, Openings)
      BY <2>1, EntryMatches
    <3>2. wallets'[v] = NewWallet(p)
      BY <2>1, CommitWrites
    <3> QED BY <1>2, <1>4, <2>1, <3>1, <3>2
  <2>2. CASE ~(Moves(p) /\ v = w)
    <3>1. wallets'[v] = wallets[v]
      BY <2>2, CommitWrites
    <3>2. \A e \in N : e.wallet # v
      BY <1>5, <1>6, <2>2
    <3>3. {e \in ledger' : e.wallet = v} = {e \in ledger : e.wallet = v}
      BY <1>4, <3>2
    <3> QED BY <1>1, <1>9, <3>1, <3>3 DEF Reconciles
  <2> QED BY <2>1, <2>2
<1>10. Reconciles'
  BY <1>9 DEF Reconciles
<1> QED BY <1>8, <1>10

\* The events it writes: one for the status, if it is new, and one for the balance.
LEMMA EventsWritten ==
  ASSUME IInv, CallInv, BookInv, NEW p \in Procs, NEW t, NEW w, NEW base, NEW o,
         Committing(p, t, w, base, o), NEW E, E = StatusEvents(p) \cup BalanceEvents(p)
  PROVE  /\ \A e \in E :
              /\ e.txn = t
              /\ e.type = "Processed" => o.status = "PROCESSED" /\ e.after = o.after
              /\ e.type = "Rejected" => o.status = "REJECTED" /\ e.failure = o.failure
              /\ e.type = "BalanceChanged" => /\ Moves(p) /\ e.before = base.balance /\ e.after = o.after
                                              /\ e.version = NewWallet(p).version
              /\ e.type = "PendingReference" => ~Present(t)
              /\ e.type \in EventTypes
         /\ \A e, f \in E : e.type = f.type => e = f
         /\ o.status = "PROCESSED" => \E e \in E : e.type = "Processed"
         /\ o.status = "REJECTED" => \E e \in E : e.type = "Rejected"
         /\ Moves(p) => \E e \in E : e.type = "BalanceChanged"
         /\ o.status = "PENDING_REFERENCE" => Present(t) \/ \E e \in E : e.type = "PendingReference"
<1>1. t = tx[p].txn /\ base = tx[p].base /\ o = tx[p].outcome
      /\ o.status \in {"PENDING_REFERENCE", "PROCESSED", "REJECTED"}
  BY CommitKnows DEF Committing, DecisionFits
<1> DEFINE done == NewEvent(t, "Processed", 0, o.after, 0, Nil)
           refused == NewEvent(t, "Rejected", 0, 0, 0, o.failure)
           waits == NewEvent(t, "PendingReference", 0, 0, 0, Nil)
           moved == NewEvent(t, "BalanceChanged", base.balance, o.after, NewWallet(p).version, Nil)
<1>2. /\ o.status = "PROCESSED" => StatusEvents(p) = {done}
      /\ o.status = "REJECTED" => StatusEvents(p) = {refused}
      /\ o.status = "PENDING_REFERENCE" => StatusEvents(p) = IF Present(t) THEN {} ELSE {waits}
  BY <1>1 DEF StatusEvents
<1>3. BalanceEvents(p) = IF Moves(p) THEN {moved} ELSE {}
  BY <1>1 DEF BalanceEvents
<1>4. Moves(p) => o.status = "PROCESSED"
  BY <1>1 DEF Moves
<1>5. /\ done.txn = t /\ done.type = "Processed" /\ done.after = o.after
      /\ refused.txn = t /\ refused.type = "Rejected" /\ refused.failure = o.failure
      /\ waits.txn = t /\ waits.type = "PendingReference"
      /\ moved.txn = t /\ moved.type = "BalanceChanged" /\ moved.before = base.balance
      /\ moved.after = o.after /\ moved.version = NewWallet(p).version
  BY DEF NewEvent, Event
<1> HIDE DEF done, refused, waits, moved
<1>6. CASE o.status = "PROCESSED"
  BY <1>2, <1>3, <1>4, <1>5, <1>6 DEF EventTypes
<1>7. CASE o.status = "REJECTED"
  BY <1>2, <1>3, <1>4, <1>5, <1>7 DEF EventTypes
<1>8. CASE o.status = "PENDING_REFERENCE"
  BY <1>2, <1>3, <1>4, <1>5, <1>8 DEF EventTypes
<1> QED BY <1>1, <1>6, <1>7, <1>8

\* The events still fit, and the new balance event is the first of its operation.
LEMMA CommitEventsFit ==
  ASSUME IInv, CallInv, BookInv, NEW p \in Procs, NEW t, NEW w, NEW base, NEW o,
         Committing(p, t, w, base, o), Apply(p)
  PROVE  EventsFit' /\ \A e \in outbox : e.type = "BalanceChanged" => e.txn # t
<1>1. TypeOK /\ EventsFit /\ t \in Txns
  BY CommitKnows, CallColumns DEF IInv, TypeInv, BookInv, Books
<1>2. PICK row, E : row = NewRow(p) /\ E = StatusEvents(p) \cup BalanceEvents(p)
  OBVIOUS
<1>3. /\ row \in RowType /\ row.status = o.status /\ row.failure = o.failure
      /\ row.balance = IF o.status = "PROCESSED" THEN o.after ELSE Nil
      /\ row.status \in {"PENDING_REFERENCE", "PROCESSED", "REJECTED"}
  BY <1>2, RowWritten
<1>4. wagers' = [wagers EXCEPT ![t] = row] /\ outbox' = outbox \cup E /\ (MovesMoney(t)' <=> Moves(p))
  BY <1>2, CommitWrites
<1>5. /\ ~IsTerminal(wagers[t].status) /\ (Present(t) => wagers[t].status = "PENDING_REFERENCE")
  BY RowBefore DEF IsTerminal, Present
<1>6. Tried(row) => Present(t)
  <2>1. row.attempts = o.attempts /\ Counted(p, t, o)
    BY <1>2, RowWritten, CommitKnows
  <2>2. ~Present(t) => p \in Calls
    BY RowBefore
  <2>3. ~Present(t) => row.attempts = 0
    BY <2>1, <2>2 DEF Counted
  <2> QED BY <2>3 DEF Tried
<1>7. /\ \A e \in E :
           /\ e.txn = t
           /\ e.type = "Processed" => row.status = "PROCESSED" /\ e.after = row.balance
           /\ e.type = "Rejected" => row.status = "REJECTED" /\ e.failure = row.failure
           /\ e.type = "BalanceChanged" => MovesMoney(t)'
           /\ e.type = "PendingReference" => ~Present(t)
           /\ e.type \in EventTypes
      /\ \A e, f \in E : e.type = f.type => e = f
      /\ row.status = "PROCESSED" => \E e \in E : e.type = "Processed"
      /\ row.status = "REJECTED" => \E e \in E : e.type = "Rejected"
      /\ MovesMoney(t)' => \E e \in E : e.type = "BalanceChanged"
      /\ row.status = "PENDING_REFERENCE" => Present(t) \/ \E e \in E : e.type = "PendingReference"
  BY <1>2, <1>3, <1>4, EventsWritten
<1>8. \A e \in E : /\ e.txn = t /\ row.status # "NONE"
                   /\ e.type = "Processed" => row.status = "PROCESSED" /\ e.after = row.balance
                   /\ e.type = "Rejected" => row.status = "REJECTED" /\ e.failure = row.failure
                   /\ e.type = "BalanceChanged" => MovesMoney(t)'
                   /\ e.type = "PendingReference" => ~Present(t)
                   /\ e.type \in EventTypes
  BY <1>3, <1>7
<1>9. row.status = "PENDING_REFERENCE" \/ Tried(row) =>
        Present(t) \/ \E e \in E : e.type = "PendingReference"
  BY <1>6, <1>7
<1>10. Present(t) => row.status # "NONE"
  BY <1>3
<1>11. row \in RowType
  BY <1>3
<1> QED BY <1>1, <1>4, <1>5, <1>7, <1>8, <1>9, <1>10, <1>11, EventsGrow, Zenon

\* The balance event of the commit goes on where the last one ended.
LEMMA CommitHistory ==
  ASSUME IInv, CallInv, BookInv, NEW p \in Procs, NEW t, NEW w, NEW base, NEW o,
         Committing(p, t, w, base, o), Apply(p)
  PROVE  BalanceHistory'
<1>1. /\ t \in Calls /\ w \in Openings /\ w = WalletOf(t) /\ base = wallets[w]
      /\ base \in WalletType /\ o \in OutcomeType /\ OpeningsFit /\ BalanceHistory /\ TypeOK
  BY CommitKnows DEF BookInv, Books, IInv, TypeInv
<1>2. base.version >= 1 /\ base.version \in Nat
  BY <1>1, CommitKnows, Zenon DEF WalletType
<1>3. PICK E : E = StatusEvents(p) \cup BalanceEvents(p)
  OBVIOUS
<1>4. outbox' = outbox \cup E
  BY <1>3, CommitWrites
<1>5. \A e \in E : /\ e.txn = t
                   /\ e.type = "BalanceChanged" => /\ Moves(p) /\ e.before = base.balance /\ e.after = o.after
                                                   /\ e.version = NewWallet(p).version
  BY <1>3, EventsWritten
<1>6. BalanceHistory' <=> \A v \in Openings : Continuous(HistoryOf(v)', FirstVersion(v), wallets'[v])
  BY DEF BalanceHistory, HistoryOf, FirstVersion, Continuous
<1>7. ASSUME NEW v \in Openings, ~(Moves(p) /\ v = w)
      PROVE  Continuous(HistoryOf(v)', FirstVersion(v), wallets'[v])
  <2>1. wallets'[v] = wallets[v]
    BY <1>7, CommitWrites
  <2>2. \A e \in E : ~(e.type = "BalanceChanged" /\ WalletOf(e.txn) = v)
    BY <1>1, <1>5, <1>7
  <2>3. HistoryOf(v)' = HistoryOf(v)
    BY <1>4, <2>2 DEF HistoryOf
  <2> QED BY <1>1, <2>1, <2>3, HistoryMeans
<1>8. ASSUME Moves(p) PROVE Continuous(HistoryOf(w)', FirstVersion(w), wallets'[w])
  <2>1. PICK e \in E : e.type = "BalanceChanged"
    BY <1>3, <1>8, EventsWritten
  <2>2. \A f \in E : f.type = "BalanceChanged" => f = e
    BY <1>3, <2>1, EventsWritten
  <2>3. HistoryOf(w)' = HistoryOf(w) \cup {e}
    BY <1>1, <1>4, <1>5, <2>1, <2>2 DEF HistoryOf
  <2>4. e \in EventType /\ HistoryOf(w) \in SUBSET EventType
    <3>1. outbox' \subseteq EventType
      BY WritesTyped DEF IInv, Committing
    <3> QED BY <1>1, <1>4, <2>1, <3>1 DEF HistoryOf, TypeOK
  <2>5. PICK new \in WalletType : /\ new = NewWallet(p) /\ new.version = base.version + 1
                                  /\ new.balance = o.after
    BY <1>8, EntryMatches
  <2>6. wallets'[w] = new
    BY <1>8, <2>5, CommitWrites
  <2>7. e.version = base.version + 1 /\ e.before = base.balance /\ e.after = new.balance
    BY <1>5, <2>1, <2>5
  <2>8. PICK first \in {1, 2} : first = FirstVersion(w)
    BY DEF FirstVersion
  <2>9. first <= base.version + 1
    BY <1>2
  <2>10. e.before = IF base.version + 1 = first THEN 0 ELSE base.balance
    <3>1. CASE base.version + 1 = first
      <4>1. base.version = 1 /\ first = 2
        BY <1>2, <3>1
      <4>2. base.balance = OpeningRequest[w].balance
        BY <1>1, <4>1 DEF OpeningsFit
      <4>3. OpeningRequest[w].balance = 0
        BY <2>8, <4>1 DEF FirstVersion
      <4> QED BY <2>7, <3>1, <4>2, <4>3
    <3> QED BY <2>7, <3>1
  <2>11. Continuous(HistoryOf(w), first, base)
    BY <1>1, <2>8, HistoryMeans
  <2>12. Continuous(HistoryOf(w) \cup {e}, first, new)
    BY <1>1, <2>4, <2>5, <2>7, <2>9, <2>10, <2>11, HistoryGrows
  <2> QED BY <2>3, <2>6, <2>8, <2>12
<1> QED BY <1>1, <1>6, <1>7, <1>8

\* A replay writes nothing that the books are about.
LEMMA ReplayWrites ==
  ASSUME Books, NEW p, Apply(p), tx[p].txn = Nil
  PROVE  Books' /\ UNCHANGED <<wallets, wagers, ledger, outbox>>
<1>1. UNCHANGED <<wallets, wagers, ledger, outbox>>
  BY DEF Apply, Moves, NewEntries
<1>2. RowsFit' /\ OpeningsFit' /\ ReversedOnce'
  BY <1>1 DEF Books, RowsFit, ResultFits, ReferenceFits, OpeningsFit, ReversedOnce
<1>3. LedgerFits' /\ Reconciles'
  BY <1>1 DEF Books, LedgerFits, MovesMoney, OriginalKind, Reconciles
<1>4. EventsFit' /\ BalanceHistory'
  BY <1>1 DEF Books, EventsFit, EventsOf, MovesMoney, Present, BalanceHistory
<1> QED BY <1>1, <1>2, <1>3, <1>4 DEF Books

\* Either way, the books are right after a commit.
LEMMA CommitBooksFit ==
  ASSUME IInv, CallInv, BookInv, NEW p \in Procs, stage[p] = "commit", Apply(p) PROVE Books'
<1>1. CASE tx[p].txn = Nil
  BY <1>1, ReplayWrites DEF BookInv
<1>2. CASE tx[p].txn # Nil
  <2>1. PICK t, w, base, o : Committing(p, t, w, base, o)
    BY <1>2 DEF Committing
  <2> QED BY <2>1, CommitRowsFit, CommitLedgerFits, CommitEventsFit, CommitHistory DEF Books
<1> QED BY <1>1, <1>2

-----------------------------------------------------------------------------
(* What the others know, the message and the answer.                        *)

\* A commit changes no row that another open transaction depends on.
LEMMA CommitKeepsWork ==
  ASSUME IInv, CallInv, BookInv, NEW p \in Procs, NEW r, stage[p] = "commit", Apply(p), End(p, r),
         NEW q \in Procs, q # p
  PROVE  WorkFits(q)'
<1>1. /\ RowsFit' /\ WorkFits(q) /\ TypeOK /\ p \in Actors /\ q \in Actors
  BY CommitBooksFit DEF Books, BookInv, Works, IInv, TypeInv, Actors
<1>2. stage'[q] = stage[q] /\ tx'[q] = tx[q]
  BY <1>1, EndPoints
<1>3. CASE tx[p].txn = Nil
  <2>1. wagers' = wagers
    BY <1>3, ReplayWrites DEF BookInv
  <2> QED BY <1>1, <1>2, <2>1, WorkKept DEF Present
<1>4. CASE tx[p].txn # Nil
  <2>1. PICK t, w, base, o : Committing(p, t, w, base, o)
    BY <1>4 DEF Committing
  <2>2. \A y \in Calls : y # t => wagers'[y] = wagers[y]
    BY <2>1, CommitWrites, CallColumns
  <2>3. t \in Calls /\ WalletOf(t) = w /\ lock[w] = p /\ ~IsTerminal(wagers[t].status)
    <3>1. wagers[t].status \in {"NONE", "PENDING_REFERENCE"}
      BY <2>1, RowBefore
    <3>2. t \in Calls /\ WalletOf(t) = w /\ lock[w] = p
      BY <2>1, CommitKnows
    <3> QED BY <3>1, <3>2 DEF IsTerminal
  <2>4. ASSUME tx[q].txn # Nil PROVE tx[q].wallet # w
    <3>1. tx[q].base.version >= 1
      BY <1>1, <2>4 DEF WorkFits
    <3>2. tx[q].base # NoWallet
      BY <3>1 DEF NoWallet
    <3>3. lock[tx[q].wallet] = q
      BY <3>2 DEF IInv, LockInv
    <3> QED BY <2>3, <3>3
  <2>5. ASSUME q \in Calls, Present(q)', ~Present(q) PROVE FALSE
    <3>1. q = t
      BY <2>2, <2>5 DEF Present
    <3>2. p = t
      BY <2>1, <2>5, <3>1, RowBefore
    <3> QED BY <3>1, <3>2
  <2> QED BY <1>1, <1>2, <2>2, <2>3, <2>4, <2>5, WorkKept
<1> QED BY <1>3, <1>4

\* What a call has answered with is there after its commit.
LEMMA CommitAnswers ==
  ASSUME IInv, CallInv, BookInv, NEW c \in Calls, stage[c] = "commit", Apply(c),
         NEW x, x = tx[c].reply.txn
  PROVE  /\ x \in Calls /\ tx[c].reply.error = Nil /\ Present(x)'
         /\ SameKey(Request[x], Request[c]) /\ PayloadHash(Request[x]) = PayloadHash(Request[c])
<1>1. c \in Procs /\ ReplyFits(c, "commit", tx[c])
  BY CallFacts DEF CallInv, CallFits
<1>2. \A y \in Calls : Present(y)' <=> Present(y) \/ y = tx[c].txn
  BY <1>1, CommitRows
<1>3. x \in Calls /\ tx[c].reply.error = Nil
  BY <1>1 DEF ReplyFits
<1>4. CASE tx[c].txn = c
  BY <1>1, <1>2, <1>3, <1>4 DEF ReplyFits, SameKey
<1>5. CASE tx[c].txn # c
  <2>1. /\ Present(x) /\ Request[x].key = Request[c].key
        /\ PayloadHash(Request[x]) = PayloadHash(Request[c])
    BY <1>1, <1>5 DEF ReplyFits
  <2>2. Request[x].provider = Request[c].provider
    BY <2>1 DEF PayloadHash
  <2> QED BY <1>2, <1>3, <2>1, <2>2 DEF SameKey
<1> QED BY <1>4, <1>5

\* The message is completed with the operation it asked for.
LEMMA CommitSettles ==
  ASSUME IInv, CallInv, BookInv, NEW p \in Procs, stage[p] = "commit", Apply(p)
  PROVE  InboxSettled'
<1>1. \A y \in Calls : Present(y) => Present(y)'
  BY CommitRows
<1>2. SUFFICES ASSUME NEW c \in Calls, Request[c].msg # Nil, inbox'[Request[c].msg] = Request[c].body
               PROVE  \E y \in Calls : /\ Present(y)' /\ SameKey(Request[y], Request[c])
                                       /\ PayloadHash(Request[y]) = PayloadHash(Request[c])
  BY DEF InboxSettled
<1>3. CASE inbox[Request[c].msg] = Request[c].body
  BY <1>1, <1>2, <1>3 DEF BookInv, InboxSettled
<1>4. CASE inbox[Request[c].msg] # Request[c].body
  <2>1. /\ Registered(p) /\ inbox' = [inbox EXCEPT ![Request[p].msg] = Request[p].body]
    BY <1>2, <1>4 DEF Apply
  <2>2. p \in Calls /\ Request[p].msg # Nil /\ Request[c].msg \in Messages
    BY <1>2, <2>1 DEF Registered, Messages
  <2>3. Request[p].msg = Request[c].msg
    BY <1>2, <1>4, <2>1
  <2>4. inbox'[Request[c].msg] = Request[p].body
    BY <2>1, <2>2, <2>3 DEF IInv, TypeInv, TypeOK
  <2>5. Request[p].body = Request[c].body /\ Request[p].body # Nil
    BY <1>2, <2>2, <2>4, RequestAssumption
  <2>6. PayloadHash(Request[p]) = PayloadHash(Request[c]) /\ Request[p].key = Request[c].key
    BY <2>2, <2>5, RequestAssumption
  <2>7. Request[p].provider = Request[c].provider
    BY <2>6 DEF PayloadHash
  <2>8. PICK x : x = tx[p].reply.txn
    OBVIOUS
  <2>9. /\ x \in Calls /\ Present(x)' /\ SameKey(Request[x], Request[p])
        /\ PayloadHash(Request[x]) = PayloadHash(Request[p])
    BY <2>2, <2>8, CommitAnswers
  <2> QED BY <2>6, <2>7, <2>9 DEF SameKey
<1> QED BY <1>3, <1>4

\* What the property says of answer a to call c.
AnswerTrue(c, a) ==
  a.txn # Nil =>
    /\ Present(a.txn) /\ SameKey(Request[a.txn], Request[c])
    /\ PayloadHash(Request[a.txn]) = PayloadHash(Request[c])
    /\ a.replay <=> a.txn # c
    /\ IsTerminal(a.status) => /\ a.status = wagers[a.txn].status
                               /\ a.failure = wagers[a.txn].failure
                               /\ a.balance = wagers[a.txn].balance

\* An answer stays true.
LEMMA AnswerStays ==
  ASSUME IInv, CallInv, BookInv, NEW p \in Procs, stage[p] = "commit", Apply(p),
         NEW c \in Calls, NEW a, a.txn \in Calls \cup {Nil}, AnswerTrue(c, a)
  PROVE  AnswerTrue(c, a)'
<1>1. SUFFICES ASSUME a.txn # Nil PROVE AnswerTrue(c, a)'
  BY DEF AnswerTrue
<1>2. a.txn \in Calls /\ Present(a.txn)'
  BY <1>1, CommitRows DEF AnswerTrue
<1>3. CASE tx[p].txn = Nil
  <2>1. wagers' = wagers
    BY <1>3, ReplayWrites DEF BookInv
  <2> QED BY <2>1 DEF AnswerTrue, Present
<1>4. CASE tx[p].txn # Nil
  <2>1. PICK t, w, base, o : Committing(p, t, w, base, o)
    BY <1>4 DEF Committing
  <2>2. a.txn # t => wagers'[a.txn] = wagers[a.txn]
    BY <1>2, <2>1, CommitWrites, CallColumns
  <2>3. wagers[t].status \in {"NONE", "PENDING_REFERENCE"}
    BY <2>1, RowBefore
  <2> QED BY <1>1, <1>2, <2>2, <2>3 DEF AnswerTrue, IsTerminal
<1> QED BY <1>3, <1>4

\* The answer of a commit is true.
LEMMA AnswerBegins ==
  ASSUME IInv, CallInv, BookInv, NEW c \in Calls, stage[c] = "commit", Apply(c), NEW a, a = tx[c].reply
  PROVE  AnswerTrue(c, a)'
<1>1. c \in Procs /\ WorkFits(c) /\ RowsFit
  BY CallFacts DEF BookInv, Works, Books
<1>2. ReplyAgrees(c) /\ ReplyFits(c, "commit", tx[c]) /\ tx[c].txn \in {c, Nil}
  BY <1>1 DEF WorkFits, CallInv, CallFits, IInv, Control, Working
<1>3. /\ a.txn \in Calls /\ Present(a.txn)' /\ SameKey(Request[a.txn], Request[c])
      /\ PayloadHash(Request[a.txn]) = PayloadHash(Request[c])
  BY CommitAnswers
<1>4. CASE tx[c].txn = c
  <2>1. PICK t, w, base, o : Committing(c, t, w, base, o) /\ t = c /\ o = tx[c].outcome
    BY <1>4, NilApart DEF Committing
  <2>2. NewRow(c).status = o.status /\ NewRow(c).failure = o.failure
    BY <1>1, <2>1, RowWritten
  <2>3. wagers'[c] = NewRow(c)
    BY <1>1, <2>1, CommitWrites
  <2>4. a.txn = c /\ (a.replay <=> tx[c].txn # c)
        /\ a.status = o.status /\ a.failure = o.failure /\ a.balance = NewRow(c).balance
    BY <1>2, <1>4, <2>1 DEF ReplyAgrees, ReplyFits
  <2> QED BY <1>3, <1>4, <2>2, <2>3, <2>4 DEF AnswerTrue
<1>5. CASE tx[c].txn # c
  <2>1. tx[c].txn = Nil /\ wagers' = wagers
    BY <1>2, <1>5, ReplayWrites DEF BookInv
  <2>2. Present(a.txn) /\ ~Present(c)
    BY <1>1, <1>2, <1>5 DEF ReplyFits, WorkFits
  <2>3. /\ a.replay <=> tx[c].txn # c
        /\ IsTerminal(a.status) => /\ a.status = wagers[a.txn].status
                                   /\ a.failure = wagers[a.txn].failure
                                   /\ a.balance = wagers[a.txn].balance
    BY <1>2, <1>5 DEF ReplyAgrees
  <2> QED BY <1>3, <1>5, <2>1, <2>2, <2>3 DEF AnswerTrue
<1> QED BY <1>4, <1>5

\* The property, in those words.
LEMMA AnswersMean == AnswersAgree <=> \A c \in Calls : AnswerTrue(c, answer[c])
BY DEF AnswersAgree, AnswerTrue

\* What was answered before stays true, and so does the answer of the commit.
LEMMA CommitAnswersAgree ==
  ASSUME IInv, CallInv, BookInv, NEW p \in Procs, NEW r, stage[p] = "commit", Apply(p), End(p, r),
         r = tx[p].reply \/ r.txn = Nil
  PROVE  AnswersAgree'
<1>1. p \in Actors /\ \A c \in Calls : AnswerTrue(c, answer[c])
  BY AnswersMean DEF Actors, BookInv
<1>2. /\ \A c \in Calls \ {p} : answer'[c] = answer[c]
      /\ p \in Calls => answer'[p] = r
  BY <1>1, EndOfCall
<1>3. ASSUME NEW c \in Calls PROVE AnswerTrue(c, answer[c])'
  <2>1. PICK a : a = answer'[c]
    OBVIOUS
  <2>2. AnswerTrue(c, a)' => AnswerTrue(c, answer[c])'
    BY <2>1 DEF AnswerTrue
  <2>3. CASE c # p
    <3>1. a = answer[c] /\ a.txn \in Calls \cup {Nil} /\ AnswerTrue(c, a)
      BY <1>1, <1>2, <2>1, <2>3, OthersApart DEF ReplyType
    <3> QED BY <2>2, <3>1, AnswerStays
  <2>4. CASE c = p /\ r = tx[p].reply
    <3>1. a = tx[c].reply
      BY <1>2, <2>1, <2>4
    <3> QED BY <2>2, <2>4, <3>1, AnswerBegins
  <2>5. CASE c = p /\ r.txn = Nil
    <3>1. AnswerTrue(c, a)'
      BY <1>2, <2>1, <2>5 DEF AnswerTrue
    <3> QED BY <2>2, <3>1
  <2> QED BY <2>3, <2>4, <2>5
<1> QED BY <1>3 DEF AnswersAgree, AnswerTrue

\* A commit that is accepted, whatever its caller hears of it.
LEMMA CommitKeepsBooks ==
  ASSUME IInv, CallInv, BookInv, NEW p \in Procs, NEW r, stage[p] = "commit", Apply(p), End(p, r),
         r = tx[p].reply \/ r = ErrorReply("Unavailable")
  PROVE  BookInv'
<1>1. p \in Actors /\ TypeOK /\ Books'
  BY CommitBooksFit DEF Actors, IInv, TypeInv
<1>2. Works'
  <2>1. WorkFits(p)'
    BY RestKnows
  <2> QED BY <2>1, CommitKeepsWork DEF Works
<1>3. r = tx[p].reply \/ r.txn = Nil
  BY DEF ErrorReply, NoReply
<1>4. InboxSettled' /\ AnswersAgree'
  BY <1>3, CommitSettles, CommitAnswersAgree
<1>5. r.error \notin Alarms
  <2>1. CASE r = tx[p].reply
    <3>1. r.error = Nil
      <4>1. CASE p \in Calls
        BY <2>1, <4>1, CommitAnswers
      <4>2. CASE p \in RefWorkers
        BY <2>1, <4>2 DEF BookInv, Works, WorkFits, NoReply
      <4> QED BY <4>1, <4>2 DEF Procs
    <3> QED BY <3>1, ErrorAssumption DEF Alarms, CallErrors
  <2>2. CASE r = ErrorReply("Unavailable")
    BY <2>2 DEF ErrorReply, NoReply, Alarms, AllSafeguards
  <2> QED BY <2>1, <2>2
<1>6. NoAlarm'
  <2>1. answer' = [answer EXCEPT ![p] = r] /\ answer \in [Actors -> ReplyType]
    BY <1>1 DEF End, TypeOK
  <2> QED BY <1>5, <2>1 DEF NoAlarm, BookInv
<1> QED BY <1>1, <1>2, <1>4, <1>6 DEF BookInv

\* The commit of a process: no safeguard refuses it.
LEMMA CommitBooks == ASSUME IInv, CallInv, BookInv, NEW p \in Procs, Commit(p) PROVE BookInv'
<1>1. ~Refused(p)
  BY NoViolation DEF Commit, Refused, Refusals
<1>2. stage[p] = "commit" /\ Apply(p) /\ End(p, tx[p].reply)
  BY <1>1 DEF Commit
<1> QED BY <1>2, CommitKeepsBooks

\* A commit whose answer is lost.
LEMMA CommitLostBooks == ASSUME IInv, CallInv, BookInv, NEW p \in Procs, CommitLost(p) PROVE BookInv'
BY CommitKeepsBooks DEF CommitLost

\* A transaction that is aborted.
LEMMA AbortBooks == ASSUME IInv, CallInv, BookInv, NEW p \in Actors, Abort(p) PROVE BookInv'
BY FailFits DEF Abort, Alarms, AllSafeguards

-----------------------------------------------------------------------------
(* Openings.                                                                *)

\* What an opening writes agrees with itself.
LEMMA OpeningWritten ==
  ASSUME NEW o \in Openings, OpeningRequest[o].balance >= 0
  PROVE  /\ OpeningWallet(o).version = 1 /\ OpeningWallet(o).balance = OpeningRequest[o].balance
         /\ WalletMatchesLedger(OpeningWallet(o), OpeningEntries(o), Openings)
         /\ Continuous({e \in OpeningEvents(o) : e.type = "BalanceChanged"}, FirstVersion(o),
                       OpeningWallet(o))
<1> DEFINE b == OpeningRequest[o].balance
<1>1. OpeningWallet(o).version = 1 /\ OpeningWallet(o).balance = b
  BY DEF OpeningWallet
<1>2. b \in 0 .. MaxInt /\ 0 \in 0 .. MaxInt /\ MaxInt \in Nat
  BY OpeningAssumption, MaxIntAssumption DEF MachineInt, MinInt
<1>3. /\ OpeningWallet(o) \in WalletType /\ OpeningEntries(o) \subseteq EntryType
      /\ OpeningEvents(o) \subseteq EventType
  BY OpeningTypes
<1>4. CASE b = 0
  <2>1. OpeningEntries(o) = {} /\ OpeningEvents(o) = {} /\ FirstVersion(o) = 2
    BY <1>4 DEF OpeningEntries, OpeningEvents, FirstVersion
  <2>2. Continuous({}, 2, OpeningWallet(o))
    <3>1. 2 .. 1 = {}
      OBVIOUS
    <3> QED BY <1>1, <3>1 DEF Continuous
  <2>3. {e \in OpeningEvents(o) : e.type = "BalanceChanged"} = {}
    BY <2>1
  <2> QED BY <1>1, <1>4, <2>1, <2>2, <2>3, NoEntries
<1>5. CASE b # 0
  <2> DEFINE e == [wallet |-> o, txn |-> o, direction |-> "CREDIT", amount |-> b,
                   before |-> 0, after |-> b]
             f == Event(o, "BalanceChanged", 0, 0, b, 1, Nil)
             none == [balance |-> 0, version |-> 1]
  <2>1. OpeningEntries(o) = {e} /\ FirstVersion(o) = 1
    BY <1>5 DEF OpeningEntries, FirstVersion
  <2>2. {g \in OpeningEvents(o) : g.type = "BalanceChanged"} = {f}
    BY <1>5 DEF OpeningEvents, Event
  <2>3. e \in EntryType /\ e.txn \in Openings /\ Signed(e) = b
    BY <1>3, <2>1 DEF Signed
  <2>4. f \in EventType /\ f.version = 1 /\ f.before = 0 /\ f.after = b
    BY <1>3, <2>2 DEF Event
  <2>5. none \in WalletType /\ none.balance = 0 /\ none.version = 1
    BY <1>2 DEF WalletType
  <2>6. WalletMatchesLedger(none, {}, Openings)
    BY <2>5, NoEntries
  <2>7. OpeningWallet(o).balance = none.balance + Signed(e)
    BY <1>1, <1>2, <2>3, <2>5
  <2>8. OpeningWallet(o).version = none.version
    BY <1>1, <2>5
  <2> HIDE DEF e, f, none
  <2>9. WalletMatchesLedger(OpeningWallet(o), {e}, Openings)
    <3>1. IsFiniteSet({}) /\ {} \in SUBSET EntryType /\ e \notin {} /\ {} \cup {e} = {e}
      BY FS_EmptySet
    <3>2. WalletMatchesLedger(OpeningWallet(o), {} \cup {e}, Openings)
      BY <1>3, <2>3, <2>5, <2>6, <2>7, <2>8, <3>1, SumGrows
    <3> QED BY <3>1, <3>2
  <2>10. Continuous({f}, 1, OpeningWallet(o))
    <3>1. 1 .. 1 = {1} /\ 1 # 1 + 1
      OBVIOUS
    <3> QED BY <1>1, <2>4, <3>1 DEF Continuous
  <2> QED BY <1>1, <2>1, <2>2, <2>9, <2>10
<1> QED BY <1>4, <1>5

\* The opening row moves money exactly if there is some.
LEMMA OpeningMoves ==
  ASSUME NEW o \in Openings
  PROVE  /\ Kind(o) = "OPENING" /\ WalletOf(o) = o /\ Amount(o) = OpeningRequest[o].balance
         /\ OpeningRow(o).status = IF OpeningRequest[o].balance = 0 THEN "NONE" ELSE "PROCESSED"
         /\ OpeningRow(o).balance = IF OpeningRequest[o].balance = 0 THEN Nil ELSE OpeningRequest[o].balance
         /\ ~Tried(OpeningRow(o))
         /\ OpeningRow(o).reference = Nil
BY DEF Kind, WalletOf, Amount, OpeningRow, NoRow, Tried

\* Nothing is written about a wallet before it is opened.
LEMMA NothingBefore ==
  ASSUME IInv, BookInv, NEW o \in Openings, wallets[o].version = 0
  PROVE  /\ wagers[o] = NoRow
         /\ \A e \in ledger : e.wallet # o /\ e.txn # o
         /\ \A e \in outbox : e.txn # o /\ (e.type = "BalanceChanged" => WalletOf(e.txn) # o)
<1>1. wagers[o] = NoRow /\ RowsFit /\ LedgerFits /\ EventsFit
  BY DEF BookInv, Books, OpeningsFit
<1>2. ASSUME NEW t \in Txns, WalletOf(t) = o, MovesMoney(t) PROVE FALSE
  <2>1. CASE t \in Openings
    BY <1>1, <1>2, <2>1, OpeningMoves DEF MovesMoney, NoRow
  <2>2. CASE t \in Calls
    <3>1. wagers[t].status # "NONE"
      BY <1>2 DEF MovesMoney
    <3>2. wallets[WalletOf(t)].version >= 1
      BY <1>1, <2>2, <3>1 DEF RowsFit
    <3>3. ~(0 >= 1)
      OBVIOUS
    <3> QED BY <1>2, <3>2, <3>3
  <2> QED BY <2>1, <2>2 DEF Txns
<1>3. \A e \in ledger : e.txn \in Txns /\ MovesMoney(e.txn) /\ e.wallet = WalletOf(e.txn)
  BY <1>1 DEF LedgerFits, IInv, TypeInv, TypeOK, EntryType
<1>4. \A e \in outbox : e.txn \in Txns /\ Present(e.txn) /\ (e.type = "BalanceChanged" => MovesMoney(e.txn))
  BY <1>1 DEF EventsFit, IInv, TypeInv, TypeOK, EventType
<1>5. ~Present(o) /\ ~MovesMoney(o)
  BY <1>1 DEF Present, MovesMoney, NoRow
<1> QED BY <1>1, <1>2, <1>3, <1>4, <1>5

\* An opening writes the first row, entry and events of its wallet.
LEMMA OpeningBooks ==
  ASSUME IInv, CallInv, BookInv, NEW o \in Openings, NEW r, OpenWrites(o, r)
  PROVE  Books'
<1> DEFINE b == OpeningRequest[o].balance
<1>1. /\ TypeOK /\ o \in Txns /\ o \notin Calls /\ b >= 0 /\ b \in Int
      /\ wallets[o].version = 0 /\ RowsFit /\ OpeningsFit /\ ReversedOnce
      /\ LedgerFits /\ Reconciles /\ EventsFit /\ BalanceHistory
  <2>1. stage[o] = "commit" /\ o \in Txns /\ o \notin Calls
    BY ProcessAssumption DEF OpenWrites, Txns
  <2>2. b >= 0 /\ wallets[o] = NoWallet /\ TypeOK
    BY <2>1 DEF IInv, TypeInv, Control, Admitted, LockInv
  <2>3. b \in Int
    BY OpeningAssumption DEF MachineInt, MinInt
  <2> QED BY <2>1, <2>2, <2>3 DEF NoWallet, BookInv, Books
<1>2. /\ wagers[o] = NoRow /\ (\A e \in ledger : e.wallet # o /\ e.txn # o)
      /\ \A e \in outbox : e.txn # o /\ (e.type = "BalanceChanged" => WalletOf(e.txn) # o)
  BY <1>1, NothingBefore
<1>3. PICK row, N, E : row = OpeningRow(o) /\ N = OpeningEntries(o) /\ E = OpeningEvents(o)
  OBVIOUS
<1>4. /\ wagers' = [wagers EXCEPT ![o] = row] /\ ledger' = ledger \cup N /\ outbox' = outbox \cup E
      /\ wallets' = [wallets EXCEPT ![o] = OpeningWallet(o)]
  BY <1>3 DEF OpenWrites
<1>5. row \in RowType /\ N \subseteq EntryType /\ E \subseteq EventType
  BY <1>1, <1>3, OpeningTypes
<1>6. /\ OpeningWallet(o).version = 1 /\ OpeningWallet(o).balance = b
      /\ WalletMatchesLedger(OpeningWallet(o), N, Openings)
      /\ Continuous({e \in E : e.type = "BalanceChanged"}, FirstVersion(o), OpeningWallet(o))
  BY <1>1, <1>3, OpeningWritten
<1>7. /\ Kind(o) = "OPENING" /\ WalletOf(o) = o /\ Amount(o) = b
      /\ row.status = IF b = 0 THEN "NONE" ELSE "PROCESSED"
      /\ row.balance = IF b = 0 THEN Nil ELSE b
      /\ row.reference = Nil
  BY <1>3, OpeningMoves
<1>8. wagers'[o] = row /\ \A y \in Txns : y # o => wagers'[y] = wagers[y]
  BY <1>1, <1>4 DEF TypeOK
<1>9. wallets'[o] = OpeningWallet(o) /\ \A v \in Openings : v # o => wallets'[v] = wallets[v]
  BY <1>1, <1>4 DEF TypeOK
<1>10. \A y \in Calls : y \in Txns /\ y # o /\ WalletOf(y) \in Openings /\ wagers'[y] = wagers[y]
  BY <1>1, <1>8, CallColumns, RequestAssumption
<1>11. \A v \in Openings : wallets[v].version >= 1 => wallets'[v].version >= 1
  BY <1>6, <1>9
<1>12. RowsFit'
  <2>1. \A y \in Calls : \A x : ReferenceFits(y, x) => ReferenceFits(y, x)'
    BY <1>10 DEF ReferenceFits
  <2>2. \A y \in Calls : ResultFits(y, wagers[y]) => ResultFits(y, wagers[y])'
    BY <1>10, <2>1 DEF ResultFits
  <2> QED BY <1>1, <1>10, <1>11, <2>2 DEF RowsFit
<1>13. OpeningsFit'
  <2>1. ASSUME NEW v \in Openings
        PROVE  /\ wallets'[v].version = 0 => wagers'[v] = NoRow
               /\ wallets'[v].version >= 1 => wagers'[v] = OpeningRow(v) /\ OpeningRequest[v].balance >= 0
               /\ wallets'[v].version = 1 => wallets'[v].balance = OpeningRequest[v].balance
    <3>1. CASE v = o
      BY <1>1, <1>3, <1>6, <1>8, <1>9, <3>1
    <3>2. CASE v # o
      BY <1>1, <1>8, <1>9, <3>2 DEF OpeningsFit, Txns
    <3> QED BY <3>1, <3>2
  <2> QED BY <2>1 DEF OpeningsFit, OpeningRow, NoRow
<1>14. ReversedOnce'
  BY <1>1, <1>10 DEF ReversedOnce
<1>15. ~IsTerminal(wagers[o].status) /\ ~Present(o)
  BY <1>2 DEF NoRow, IsTerminal, Present
<1>16. MovesMoney(o)' <=> b # 0
  BY <1>7, <1>8 DEF MovesMoney
<1>17. /\ b # 0 => \E e : N = {e}
       /\ b = 0 => N = {}
       /\ \A e \in N : e.txn = o /\ e.wallet = o /\ e.amount = b /\ e.direction = "CREDIT"
  <2> DEFINE e == [wallet |-> o, txn |-> o, direction |-> "CREDIT", amount |-> b, before |-> 0,
                   after |-> b]
  <2>1. N = IF b = 0 THEN {} ELSE {e}
    BY <1>3 DEF OpeningEntries
  <2>2. e.txn = o /\ e.wallet = o /\ e.amount = b /\ e.direction = "CREDIT"
    OBVIOUS
  <2> HIDE DEF e
  <2> QED BY <2>1, <2>2
<1>18. LedgerFits'
  <2>1. Direction(Kind(o), OriginalKind(row)) = "CREDIT"
    BY <1>7 DEF Direction
  <2> QED BY <1>1, <1>4, <1>5, <1>7, <1>15, <1>16, <1>17, <2>1, LedgerGrows
<1>19. ASSUME NEW v \in Openings, wallets'[v].version > 0
       PROVE  WalletMatchesLedger(wallets'[v], {e \in ledger' : e.wallet = v}, Openings)
  <2>1. CASE v = o
    <3>1. {e \in ledger' : e.wallet = v} = N
      BY <1>2, <1>4, <1>17, <2>1
    <3> QED BY <1>6, <1>9, <2>1, <3>1
  <2>2. CASE v # o
    <3>1. {e \in ledger' : e.wallet = v} = {e \in ledger : e.wallet = v}
      BY <1>4, <1>17, <2>2
    <3>2. wallets'[v] = wallets[v]
      BY <1>9, <2>2
    <3> QED BY <1>1, <1>19, <3>1, <3>2 DEF Reconciles
  <2> QED BY <2>1, <2>2
<1>20. Reconciles'
  BY <1>19 DEF Reconciles
<1>21. /\ \A e \in E : /\ e.txn = o /\ b # 0 /\ e.type \in {"Processed", "BalanceChanged"}
                       /\ e.type = "Processed" => e.after = b
       /\ \A e, f \in E : e.type = f.type => e = f
       /\ b # 0 => (\E e \in E : e.type = "Processed") /\ (\E e \in E : e.type = "BalanceChanged")
  <2> DEFINE e1 == Event(o, "Processed", 0, 0, b, 0, Nil)
             e2 == Event(o, "BalanceChanged", 0, 0, b, 1, Nil)
  <2>1. E = IF b = 0 THEN {} ELSE {e1, e2}
    BY <1>3 DEF OpeningEvents
  <2>2. e1.txn = o /\ e1.type = "Processed" /\ e1.after = b /\ e2.txn = o /\ e2.type = "BalanceChanged"
    BY DEF Event
  <2> HIDE DEF e1, e2
  <2> QED BY <2>1, <2>2
<1>22. EventsFit'
  <2>1. \A e \in E : /\ e.txn = o /\ row.status # "NONE"
                     /\ e.type = "Processed" => row.status = "PROCESSED" /\ e.after = row.balance
                     /\ e.type = "Rejected" => row.status = "REJECTED" /\ e.failure = row.failure
                     /\ e.type = "BalanceChanged" => MovesMoney(o)'
                     /\ e.type = "PendingReference" => ~Present(o)
                     /\ e.type \in EventTypes
    BY <1>7, <1>16, <1>21 DEF EventTypes
  <2>2. row.status = "PENDING_REFERENCE" \/ Tried(row) =>
          Present(o) \/ \E e \in E : e.type = "PendingReference"
    BY <1>3, <1>7, OpeningMoves
  <2>3. /\ Present(o) => row.status # "NONE"
        /\ Present(o) => wagers[o].status = "PENDING_REFERENCE"
        /\ row.status = "PROCESSED" => \E e \in E : e.type = "Processed"
        /\ row.status = "REJECTED" => \E e \in E : e.type = "Rejected"
        /\ MovesMoney(o)' => \E e \in E : e.type = "BalanceChanged"
        /\ \A e, f \in E : e.type = f.type => e = f
    BY <1>7, <1>15, <1>16, <1>21
  <2>4. row \in RowType
    BY <1>5
  <2> QED BY <1>1, <1>4, <1>15, <2>1, <2>2, <2>3, <2>4, EventsGrow, Zenon
<1>23. BalanceHistory'
  <2>1. BalanceHistory' <=> \A v \in Openings : Continuous(HistoryOf(v)', FirstVersion(v), wallets'[v])
    BY DEF BalanceHistory, HistoryOf, FirstVersion, Continuous
  <2>2. ASSUME NEW v \in Openings PROVE Continuous(HistoryOf(v)', FirstVersion(v), wallets'[v])
    <3>1. CASE v = o
      <4>1. HistoryOf(v)' = {e \in E : e.type = "BalanceChanged"}
        BY <1>2, <1>4, <1>7, <1>21, <3>1 DEF HistoryOf
      <4> QED BY <1>6, <1>9, <3>1, <4>1
    <3>2. CASE v # o
      <4>1. HistoryOf(v)' = HistoryOf(v)
        BY <1>4, <1>7, <1>21, <3>2 DEF HistoryOf
      <4> QED BY <1>1, <1>9, <3>2, <4>1, HistoryMeans
    <3> QED BY <3>1, <3>2
  <2> QED BY <2>1, <2>2
<1> QED BY <1>12, <1>13, <1>14, <1>18, <1>20, <1>22, <1>23 DEF Books

\* And disturbs nobody.
LEMMA OpenWritesBooks ==
  ASSUME IInv, CallInv, BookInv, NEW o \in Openings, NEW r, OpenWrites(o, r), r.error \notin Alarms
  PROVE  BookInv'
<1>1. /\ TypeOK /\ o \in Actors /\ o \notin Procs /\ o \notin Calls /\ Books' /\ inbox' = inbox /\ End(o, r)
      /\ wagers' = [wagers EXCEPT ![o] = OpeningRow(o)]
  BY OpeningBooks, ProcessAssumption DEF IInv, TypeInv, Actors, Procs, OpenWrites
<1>2. \A y \in Calls : y # o /\ wagers'[y] = wagers[y]
  BY <1>1 DEF TypeOK, Txns
<1>3. ASSUME NEW q \in Procs PROVE WorkFits(q)'
  <2>1. stage'[q] = stage[q] /\ tx'[q] = tx[q] /\ RowsFit' /\ WorkFits(q)
    BY <1>1, <1>3, EndPoints DEF Actors, Books, BookInv, Works
  <2>2. q \in Calls /\ Present(q)' => Present(q)
    BY <1>2 DEF Present
  <2> QED BY <1>2, <2>1, <2>2, WorkKept
<1>4. InboxSettled'
  BY <1>1, <1>2 DEF BookInv, InboxSettled, Present
<1>5. answer' = [answer EXCEPT ![o] = r] /\ answer \in [Actors -> ReplyType]
  BY <1>1 DEF End, TypeOK
<1>6. NoAlarm'
  BY <1>5 DEF BookInv, NoAlarm
<1>7. AnswersAgree'
  <2>1. ASSUME NEW c \in Calls, AnswerTrue(c, answer[c]) PROVE AnswerTrue(c, answer[c])'
    <3>1. answer'[c] = answer[c] /\ answer[c].txn \in Calls \cup {Nil}
      BY <1>2, <1>5, OthersApart DEF ReplyType
    <3> QED BY <1>2, <2>1, <3>1 DEF AnswerTrue, Present
  <2>2. \A c \in Calls : AnswerTrue(c, answer[c])'
    BY <2>1, AnswersMean DEF BookInv
  <2> QED BY <2>2 DEF AnswersAgree, AnswerTrue
<1> QED BY <1>1, <1>3, <1>4, <1>6, <1>7 DEF BookInv, Works

\* Inserting the row of a wallet, or refusing to, writes nothing.
LEMMA OpenInsertBooks == ASSUME IInv, CallInv, BookInv, NEW o \in Openings, OpenInsert(o) PROVE BookInv'
<1>1. TypeOK /\ o \in Actors /\ o \notin Procs
  BY ProcessAssumption DEF IInv, TypeInv, Actors, Procs
<1>2. CASE Fail(o, "InvalidWallet") \/ Fail(o, "WalletConflict")
  BY <1>1, <1>2, FailFits DEF Alarms, AllSafeguards
<1>3. CASE Goto(o, "commit") /\ UNCHANGED <<store, lock, tx, answer>>
  <2>1. \A q \in Procs : stage'[q] = stage[q] /\ tx'[q] = tx[q]
    BY <1>1, <1>3 DEF Goto, TypeOK, Actors
  <2>2. Works'
    BY <1>3, <2>1, OthersKept DEF Works
  <2>3. AnswersAgree' /\ NoAlarm'
    BY <1>3 DEF BookInv, AnswersAgree, NoAlarm, Present, store
  <2> QED BY <1>3, <2>2, <2>3, BooksKept DEF BookInv
<1> QED BY <1>2, <1>3 DEF OpenInsert

-----------------------------------------------------------------------------
(* Every step.                                                              *)

\* In the beginning there are opened wallets, with what their openings wrote.
LEMMA InitBooks == ASSUME Init PROVE BookInv
<1>1. Opened \subseteq Openings /\ \A w \in Opened : OpeningRequest[w].balance >= 0
  BY OpeningAssumption
<1>2. \A v \in Openings : /\ wallets[v] = IF v \in Opened THEN OpeningWallet(v) ELSE NoWallet
                          /\ wagers[v] = IF v \in Opened THEN OpeningRow(v) ELSE NoRow
  BY DEF Init, Txns
<1>3. \A t \in Calls : t \in Txns /\ t \notin Opened /\ wagers[t] = NoRow
  BY <1>1, CallColumns DEF Init
<1>4. \A w \in Opened :
        /\ OpeningWallet(w).version = 1 /\ OpeningWallet(w).balance = OpeningRequest[w].balance
        /\ WalletMatchesLedger(OpeningWallet(w), OpeningEntries(w), Openings)
        /\ Continuous({e \in OpeningEvents(w) : e.type = "BalanceChanged"}, FirstVersion(w),
                      OpeningWallet(w))
  BY <1>1, OpeningWritten
<1>5. /\ NoWallet.version = 0
      /\ NoRow.status = "NONE" /\ NoRow.failure = Nil /\ NoRow.reference = Nil /\ NoRow.balance = Nil
      /\ NoRow.attempts = 0 /\ ~Tried(NoRow)
  BY DEF NoWallet, NoRow, Tried
<1>6. \A w \in Opened :
        /\ Kind(w) = "OPENING" /\ WalletOf(w) = w /\ Amount(w) = OpeningRequest[w].balance
        /\ wagers[w].status = IF OpeningRequest[w].balance = 0 THEN "NONE" ELSE "PROCESSED"
        /\ wagers[w].balance = IF OpeningRequest[w].balance = 0 THEN Nil ELSE OpeningRequest[w].balance
        /\ wagers[w].reference = Nil /\ ~Tried(wagers[w])
  BY <1>1, <1>2, OpeningMoves
<1>7. \A e : e \in ledger <=> \E w \in Opened : e \in OpeningEntries(w)
  BY DEF Init
<1>8. \A e : e \in outbox <=> \E w \in Opened : e \in OpeningEvents(w)
  BY DEF Init
<1>9. ASSUME NEW w \in Opened
      PROVE  /\ OpeningRequest[w].balance # 0 => \E e \in OpeningEntries(w) : e.txn = w
             /\ \A e \in OpeningEntries(w) :
                  /\ OpeningRequest[w].balance # 0 /\ e.txn = w /\ e.wallet = w
                  /\ e.amount = OpeningRequest[w].balance /\ e.direction = "CREDIT"
             /\ \A e, f \in OpeningEntries(w) : e = f
             /\ IsFiniteSet(OpeningEntries(w))
  <2> DEFINE b == OpeningRequest[w].balance
             e == [wallet |-> w, txn |-> w, direction |-> "CREDIT", amount |-> b, before |-> 0,
                   after |-> b]
  <2>1. OpeningEntries(w) = IF b = 0 THEN {} ELSE {e}
    BY DEF OpeningEntries
  <2>2. e.txn = w /\ e.wallet = w /\ e.amount = b /\ e.direction = "CREDIT"
    OBVIOUS
  <2> HIDE DEF e
  <2>3. IsFiniteSet({}) /\ IsFiniteSet({e})
    BY FS_EmptySet, FS_Singleton
  <2> QED BY <2>1, <2>2, <2>3
<1>10. ASSUME NEW w \in Opened
       PROVE  /\ \A e \in OpeningEvents(w) :
                   /\ e.txn = w /\ OpeningRequest[w].balance # 0
                   /\ e.type \in {"Processed", "BalanceChanged"}
                   /\ e.type = "Processed" => e.after = OpeningRequest[w].balance
              /\ \A e, f \in OpeningEvents(w) : e.type = f.type => e = f
              /\ OpeningRequest[w].balance # 0 =>
                   /\ \E e \in OpeningEvents(w) : e.type = "Processed"
                   /\ \E e \in OpeningEvents(w) : e.type = "BalanceChanged"
  <2> DEFINE b == OpeningRequest[w].balance
             e1 == Event(w, "Processed", 0, 0, b, 0, Nil)
             e2 == Event(w, "BalanceChanged", 0, 0, b, 1, Nil)
  <2>1. OpeningEvents(w) = IF b = 0 THEN {} ELSE {e1, e2}
    BY DEF OpeningEvents
  <2>2. e1.txn = w /\ e1.type = "Processed" /\ e1.after = b /\ e2.txn = w /\ e2.type = "BalanceChanged"
    BY DEF Event
  <2> HIDE DEF e1, e2
  <2> QED BY <2>1, <2>2
<1>11. \A t \in Txns : wagers[t].status \notin {"NONE"} => t \in Opened
  BY <1>2, <1>3, <1>5 DEF Txns
<1>12. RowsFit
  <2>1. \A t \in Calls : ResultFits(t, NoRow)
    BY <1>5 DEF ResultFits
  <2> QED BY <1>3, <1>5, <2>1 DEF RowsFit
<1>13. OpeningsFit
  <2>1. ~(0 >= 1) /\ 0 # 1
    OBVIOUS
  <2> QED BY <1>1, <1>2, <1>4, <1>5, <2>1 DEF OpeningsFit
<1>14. ReversedOnce
  BY <1>3, <1>5 DEF ReversedOnce
<1>15. LedgerFits
  <2>1. IsFiniteSet(ledger)
    <3> DEFINE f == [w \in Opened |-> OpeningEntries(w)]
               T == {OpeningEntries(w) : w \in Opened}
    <3>1. f \in Surjection(Opened, T)
      BY DEF Surjection
    <3>2. IsFiniteSet(T)
      BY <3>1, FS_Surjection, OpeningAssumption
    <3>3. \A S \in T : IsFiniteSet(S)
      BY <1>9
    <3> QED BY <3>2, <3>3, FS_UNION DEF Init
  <2>2. \A e \in ledger : /\ MovesMoney(e.txn)
                          /\ e.wallet = WalletOf(e.txn) /\ e.amount = Amount(e.txn)
                          /\ e.direction = Direction(Kind(e.txn), OriginalKind(wagers[e.txn]))
    BY <1>6, <1>7, <1>9 DEF MovesMoney, Direction
  <2>3. \A e, f \in ledger : e.txn = f.txn => e = f
    BY <1>7, <1>9
  <2>4. \A t \in Txns : MovesMoney(t) => \E e \in ledger : e.txn = t
    BY <1>6, <1>7, <1>9, <1>11 DEF MovesMoney
  <2> QED BY <2>1, <2>2, <2>3, <2>4 DEF LedgerFits
<1>16. Reconciles
  <2>1. ASSUME NEW v \in Openings, wallets[v].version > 0
        PROVE  WalletMatchesLedger(wallets[v], {e \in ledger : e.wallet = v}, Openings)
    <3>1. v \in Opened
      BY <1>2, <1>5, <2>1
    <3>2. {e \in ledger : e.wallet = v} = OpeningEntries(v)
      BY <1>7, <1>9, <3>1
    <3> QED BY <1>2, <1>4, <3>1, <3>2
  <2> QED BY <2>1 DEF Reconciles
<1>17. EventsFit
  <2>1. \A e \in outbox :
          /\ Present(e.txn)
          /\ e.type = "Processed" => wagers[e.txn].status = "PROCESSED" /\ e.after = wagers[e.txn].balance
          /\ e.type = "Rejected" => wagers[e.txn].status = "REJECTED" /\ e.failure = wagers[e.txn].failure
          /\ e.type = "BalanceChanged" => MovesMoney(e.txn)
    BY <1>6, <1>8, <1>10 DEF Present, MovesMoney
  <2>2. \A e, f \in outbox : e.txn = f.txn /\ e.type = f.type => e = f
    BY <1>8, <1>10
  <2>3. ASSUME NEW t \in Txns
        PROVE  /\ wagers[t].status = "PROCESSED" => EventsOf(t, "Processed") # {}
               /\ wagers[t].status = "REJECTED" => EventsOf(t, "Rejected") # {}
               /\ MovesMoney(t) => EventsOf(t, "BalanceChanged") # {}
               /\ wagers[t].status = "PENDING_REFERENCE" \/ Tried(wagers[t]) =>
                    EventsOf(t, "PendingReference") # {}
    <3>1. CASE t \in Opened
      <4>1. OpeningRequest[t].balance # 0 =>
              EventsOf(t, "Processed") # {} /\ EventsOf(t, "BalanceChanged") # {}
        BY <1>8, <1>10, <3>1 DEF EventsOf
      <4> QED BY <1>6, <3>1, <4>1 DEF MovesMoney
    <3>2. CASE t \notin Opened
      <4>1. wagers[t] = NoRow
        BY <1>2, <1>3, <3>2 DEF Txns
      <4> QED BY <1>5, <4>1 DEF MovesMoney
    <3> QED BY <3>1, <3>2
  <2> QED BY <2>1, <2>2, <2>3 DEF EventsFit, Tried
<1>18. BalanceHistory
  <2>1. ASSUME NEW v \in Openings PROVE Continuous(HistoryOf(v), FirstVersion(v), wallets[v])
    <3>1. CASE v \in Opened
      <4>1. HistoryOf(v) = {e \in OpeningEvents(v) : e.type = "BalanceChanged"}
        BY <1>6, <1>8, <1>10, <3>1 DEF HistoryOf
      <4> QED BY <1>2, <1>4, <3>1, <4>1
    <3>2. CASE v \notin Opened
      <4>1. HistoryOf(v) = {}
        BY <1>6, <1>8, <1>10, <3>2 DEF HistoryOf
      <4>2. wallets[v].version = 0
        BY <1>2, <1>5, <3>2
      <4>3. FirstVersion(v) .. 0 = {}
        BY DEF FirstVersion
      <4> QED BY <4>1, <4>2, <4>3 DEF Continuous
    <3> QED BY <3>1, <3>2
  <2> QED BY <2>1, HistoryMeans
<1>19. Works
  <2>1. ASSUME NEW p \in Procs PROVE WorkFits(p)
    <3>1. stage[p] = "idle" /\ tx[p] = NoTx /\ (p \in Calls => ~Present(p))
      BY <1>1, <1>3, <1>5, ProcessAssumption DEF Init, Actors, Procs, Present
    <3>2. NoTx.txn = Nil /\ NoTx.pass = "first" /\ NoTx.reply = NoReply
      BY DEF NoTx
    <3> QED BY <3>1, <3>2 DEF WorkFits
  <2> QED BY <2>1 DEF Works
<1>20. InboxSettled
  <2>1. \A c \in Calls : Request[c].msg # Nil => /\ inbox[Request[c].msg] = Nil /\ Request[c].body # Nil
    BY RequestAssumption DEF Init, Messages
  <2> QED BY <2>1 DEF InboxSettled
<1>21. \A p \in Actors : answer[p].txn = Nil /\ answer[p].error = Nil
  BY DEF Init, NoReply
<1>22. AnswersAgree
  BY <1>21 DEF AnswersAgree, Actors, Procs
<1>23. NoAlarm
  <2>1. Nil \notin Alarms
    BY ErrorAssumption DEF Alarms, CallErrors
  <2> QED BY <1>21, <2>1 DEF NoAlarm
<1> QED BY <1>12, <1>13, <1>14, <1>15, <1>16, <1>17, <1>18, <1>19, <1>20, <1>22, <1>23
    DEF BookInv, Books

\* Every step of the program keeps the books.
LEMMA StepBooks == ASSUME IInv, CallInv, BookInv, [Next]_vars PROVE BookInv'
<1>1. CASE UNCHANGED vars
  <2>1. UNCHANGED store /\ stage' = stage /\ tx' = tx /\ answer' = answer
    BY <1>1 DEF vars, store
  <2>2. Works'
    BY <2>1, OthersKept DEF Works
  <2>3. AnswersAgree' /\ NoAlarm'
    BY <1>1 DEF vars, BookInv, AnswersAgree, NoAlarm, Present
  <2> QED BY <2>1, <2>2, <2>3, BooksKept DEF BookInv
<1>2. ASSUME NEW o \in Openings, OpenInsert(o) \/ OpenCommit(o) \/ OpenCommitLost(o) PROVE BookInv'
  <2>1. NoReply.error \notin Alarms
    BY ErrorAssumption DEF NoReply, Alarms, CallErrors
  <2>2. ErrorReply("Unavailable").error \notin Alarms
    BY DEF ErrorReply, NoReply, Alarms, AllSafeguards
  <2> QED BY <1>2, <2>1, <2>2, OpenInsertBooks, OpenWritesBooks DEF OpenCommit, OpenCommitLost
<1>3. ASSUME NEW c \in Calls, Begin(c) \/ CallStep(c) \/ Tick(c) PROVE BookInv'
  <2>1. CASE Begin(c) \/ Tick(c)
    BY <2>1, BeginBooks, TickBooks
  <2>2. CASE Register(c) \/ FindByIdempotencyKey(c) \/ FindByExternalID(c)
    BY <2>2, RegisterBooks, FindByIdempotencyKeyBooks, FindByExternalIDBooks
  <2>3. CASE LockWallet(c) \/ RefuseIdentity(c) \/ Insert(c)
    BY <2>3, LockWalletBooks, RefuseIdentityBooks, InsertBooks
  <2>4. CASE Decide(c) \/ Commit(c)
    BY <2>4, DecideBooks, CommitBooks DEF Procs
  <2> QED BY <1>3, <2>1, <2>2, <2>3, <2>4 DEF CallStep
<1>4. ASSUME NEW p \in RefWorkers, WorkerStep(p) PROVE BookInv'
  <2>1. CASE ClaimScan(p) \/ ClaimWallet(p) \/ ClaimRow(p)
    BY <2>1, ClaimScanBooks, ClaimWalletBooks, ClaimRowBooks
  <2>2. CASE RetryDecide(p) \/ Commit(p)
    BY <2>2, RetryDecideBooks, CommitBooks DEF Procs
  <2> QED BY <1>4, <2>1, <2>2 DEF WorkerStep
<1>5. CASE \E p \in Procs : CommitLost(p)
  BY <1>5, CommitLostBooks
<1>6. CASE \E p \in Actors : Abort(p)
  BY <1>6, AbortBooks
<1>7. CASE Finished
  BY <1>1, <1>7 DEF Finished
<1> QED BY <1>1, <1>2, <1>3, <1>4, <1>5, <1>6, <1>7 DEF Next

\* The three invariants together.
AllInv == IInv /\ CallInv /\ BookInv

\* At every point of every interleaving of calls, workers, openings and faults, rows,
\* references, entries, balances, versions, events, messages and answers fit together.
THEOREM BookInvariance == Spec => []AllInv
<1>1. Init => AllInv
  BY InitKeeps, InitRefines, InitBooks DEF AllInv
<1>2. AllInv /\ [Next]_vars => AllInv'
  BY StepKeeps, StepRefines, StepBooks DEF AllInv
<1> QED BY <1>1, <1>2, PTL DEF Spec

-----------------------------------------------------------------------------
(* What follows.                                                            *)

\* After every commit, the balance of every wallet is the signed sum of its ledger
\* entries and its version counts them: what the deferred trigger of the schema checks,
\* proved of the Go code alone (Credit, Debit and the writes of a unit of work).
THEOREM WalletsReconcile == Spec => []Reconciles
<1>1. AllInv => Reconciles
  BY DEF AllInv, BookInv, Books
<1> QED BY <1>1, BookInvariance, PTL

\* The balance events of a wallet form one unbroken history that ends with its present
\* balance, whichever transports and workers moved it (NewWalletBalanceChanged).
THEOREM HistoryUnbroken == Spec => []BalanceHistory
<1>1. AllInv => BalanceHistory
  BY DEF AllInv, BookInv, Books
<1> QED BY <1>1, BookInvariance, PTL

\* No conditional UPDATE, constraint, trigger or event constructor ever has anything to
\* refuse: the Go code is right without its second line of defence.
THEOREM SafeguardsSilent == Spec => []NoSafeguardFires
<1>1. AllInv => NoSafeguardFires
  BY NoViolation DEF AllInv, BookInv, NoAlarm, Alarms, NoSafeguardFires
<1> QED BY <1>1, BookInvariance, PTL

\* Whoever got a result got that of the one row of its key and content; a final answer
\* stays true (wagerResult, findWagerReplay).
THEOREM AnswersTrue == Spec => []AnswersAgree
<1>1. AllInv => AnswersAgree
  BY DEF AllInv, BookInv
<1> QED BY <1>1, BookInvariance, PTL

\* A column of a row that is Nil or not, next to the status.
LEMMA RowMeans ==
  ASSUME IInv, BookInv, NEW t \in Txns
  PROVE  /\ wagers[t].status = "PROCESSED" <=> wagers[t].balance # Nil
         /\ wagers[t].status = "REJECTED" <=> wagers[t].failure # Nil
<1>1. RowsFit /\ OpeningsFit
  BY DEF BookInv, Books
<1>2. CASE t \in Calls
  <2>1. \A x \in FailureCodes : x # Nil
    BY ProcessAssumption
  <2> QED BY <1>1, <1>2, <2>1 DEF RowsFit, ResultFits
<1>3. CASE t \in Openings
  <2>1. wallets[t].version \in Nat
    BY <1>3 DEF IInv, TypeInv, TypeOK, WalletType
  <2>2. wallets[t].version = 0 \/ wallets[t].version >= 1
    BY <2>1
  <2>3. wagers[t] = NoRow \/ wagers[t] = OpeningRow(t)
    BY <1>1, <1>3, <2>2 DEF OpeningsFit
  <2>4. OpeningRequest[t].balance # Nil
    BY <1>3, OpeningAssumption, ProcessAssumption DEF MachineInt, MinInt
  <2>5. CASE wagers[t] = NoRow
    BY <2>5 DEF NoRow
  <2>6. CASE wagers[t] = OpeningRow(t) /\ OpeningRequest[t].balance # 0
    <3>1. wagers[t] = [NoRow EXCEPT !.status = "PROCESSED", !.due = TRUE,
                                    !.balance = OpeningRequest[t].balance]
      BY <2>6 DEF OpeningRow
    <3>2. /\ wagers[t].status = "PROCESSED" /\ wagers[t].failure = Nil
          /\ wagers[t].balance = OpeningRequest[t].balance
      BY <3>1 DEF NoRow
    <3> QED BY <2>4, <3>2
  <2>7. wagers[t] = OpeningRow(t) /\ OpeningRequest[t].balance = 0 => wagers[t] = NoRow
    BY DEF OpeningRow
  <2> QED BY <2>3, <2>5, <2>6, <2>7
<1> QED BY <1>2, <1>3 DEF Txns

\* A set without two elements.
LEMMA AtMostOne == ASSUME NEW S, \A x, y \in S : x = y PROVE Cardinality(S) <= 1
<1>1. CASE S = {}
  BY <1>1, FS_EmptySet
<1>2. CASE S # {}
  <2>1. PICK x : S = {x}
    BY <1>2
  <2>2. Cardinality(S) = 1
    BY <2>1, FS_Singleton
  <2> QED BY <2>2
<1> QED BY <1>1, <1>2

\* The outbox tells exactly what happened: one event per final status and per movement,
\* and one for a row that waits, however often it is retried.
THEOREM EventsExact == Spec => []EventsMatchRows
<1>1. ASSUME IInv, BookInv PROVE EventsMatchRows
  <2>1. EventsFit
    BY <1>1 DEF BookInv, Books
  <2>2. ASSUME NEW t \in Txns
        PROVE  /\ {e.after : e \in EventsOf(t, "Processed")} = {wagers[t].balance} \ {Nil}
               /\ {e.failure : e \in EventsOf(t, "Rejected")} = {wagers[t].failure} \ {Nil}
               /\ EventsOf(t, "BalanceChanged") # {} <=> wagers[t].status = "PROCESSED" /\ Kind(t) # "LOSS"
               /\ wagers[t].status = "PENDING_REFERENCE" \/ wagers[t].attempts > 0 =>
                    EventsOf(t, "PendingReference") # {}
               /\ \A type \in EventTypes : Cardinality(EventsOf(t, type)) <= 1
    <3>1. {e.after : e \in EventsOf(t, "Processed")} = {wagers[t].balance} \ {Nil}
      BY <1>1, <2>1, RowMeans DEF EventsFit, EventsOf
    <3>2. {e.failure : e \in EventsOf(t, "Rejected")} = {wagers[t].failure} \ {Nil}
      BY <1>1, <2>1, RowMeans DEF EventsFit, EventsOf
    <3>3. EventsOf(t, "BalanceChanged") # {} <=> wagers[t].status = "PROCESSED" /\ Kind(t) # "LOSS"
      BY <2>1 DEF EventsFit, EventsOf, MovesMoney
    <3>4. wagers[t].status = "PENDING_REFERENCE" \/ wagers[t].attempts > 0 =>
            EventsOf(t, "PendingReference") # {}
      BY <2>1 DEF EventsFit
    <3>5. ASSUME NEW type \in EventTypes PROVE Cardinality(EventsOf(t, type)) <= 1
      <4>1. \A e, f \in EventsOf(t, type) : e = f
        BY <2>1 DEF EventsFit, EventsOf
      <4> QED BY <4>1, AtMostOne
    <3> QED BY <3>1, <3>2, <3>3, <3>4, <3>5
  <2> QED BY <2>2 DEF EventsMatchRows
<1>2. AllInv => EventsMatchRows
  BY <1>1 DEF AllInv
<1> QED BY <1>2, BookInvariance, PTL

\* Entries of opposite directions and equal amounts cancel.
LEMMA Cancels ==
  ASSUME NEW e \in EntryType, NEW f \in EntryType, e.amount = f.amount, e.direction # f.direction
  PROVE  Signed(e) + Signed(f) = 0
<1>1. e.direction \in {"CREDIT", "DEBIT"} /\ f.direction \in {"CREDIT", "DEBIT"} /\ e.amount \in Int
  BY MaxIntAssumption DEF EntryType, Directions
<1>2. PICK a \in Int : a = e.amount
  BY <1>1
<1>3. a + (-a) = 0 /\ (-a) + a = 0
  OBVIOUS
<1>4. CASE e.direction = "CREDIT"
  <2>1. Signed(e) = a /\ Signed(f) = -a
    BY <1>1, <1>2, <1>4 DEF Signed
  <2> QED BY <1>3, <2>1
<1>5. CASE e.direction = "DEBIT"
  <2>1. Signed(e) = -a /\ Signed(f) = a
    BY <1>1, <1>2, <1>5 DEF Signed
  <2> QED BY <1>3, <2>1
<1> QED BY <1>1, <1>4, <1>5

\* A reference is processed and of the same wallet, player, currency and round; what a
\* refund or a rollback writes to the ledger cancels what it undoes, and nothing is
\* undone twice (ResolveReference, HasSuccessfulReversal, Wager.Direction).
THEOREM ReversalsExact == Spec => []ReversalsUndo
<1>1. ASSUME IInv, BookInv PROVE ReversalsUndo
  <2>1. RowsFit /\ ReversedOnce /\ LedgerFits /\ ledger \subseteq EntryType
    BY <1>1 DEF BookInv, Books, IInv, TypeInv, TypeOK
  <2>2. ASSUME NEW y \in Calls, NEW x, x = wagers[y].reference, x # Nil
        PROVE  /\ wagers[x].status = "PROCESSED" /\ SameContext(Request[y], Request[x])
               /\ wagers[y].status = "PROCESSED" /\ IsReversal(Request[y].kind) =>
                    /\ \A e, f \in ledger : e.txn = x /\ f.txn = y => Signed(e) + Signed(f) = 0
                    /\ \A z \in Calls : wagers[z].status = "PROCESSED" /\ wagers[z].reference = x
                                        /\ IsReversal(Request[z].kind) => z = y
    <3>1. ReferenceFits(y, x)
      BY <2>1, <2>2 DEF RowsFit, ResultFits
    <3>2. /\ x \in Calls /\ wagers[x].status = "PROCESSED" /\ SameContext(Request[y], Request[x])
          /\ Request[x].kind \in ReferableKinds(Request[y].kind)
          /\ Request[y].kind = "WIN" \/ Request[x].amount = Request[y].amount
      BY <3>1, ReferenceMeans
    <3>3. ASSUME wagers[y].status = "PROCESSED", IsReversal(Request[y].kind),
                 NEW e \in ledger, NEW f \in ledger, e.txn = x, f.txn = y
          PROVE  Signed(e) + Signed(f) = 0
      <4>1. /\ e.amount = Request[x].amount /\ f.amount = Request[y].amount
            /\ e.direction = Direction(Request[x].kind, OriginalKind(wagers[x]))
            /\ f.direction = Direction(Request[y].kind, Request[x].kind)
        BY <2>1, <2>2, <3>2, <3>3, CallColumns DEF LedgerFits, OriginalKind
      <4>2. e.amount = f.amount
        BY <3>2, <3>3, <4>1 DEF IsReversal
      <4>3. e.direction # f.direction
        BY <3>2, <3>3, <4>1 DEF IsReversal, ReferableKinds, Direction
      <4> QED BY <2>1, <3>3, <4>2, <4>3, Cancels
    <3>4. ASSUME wagers[y].status = "PROCESSED", IsReversal(Request[y].kind), NEW z \in Calls,
                 wagers[z].status = "PROCESSED", wagers[z].reference = x, IsReversal(Request[z].kind)
          PROVE  z = y
      BY <2>1, <2>2, <3>4 DEF ReversedOnce
    <3> QED BY <3>2, <3>3, <3>4
  <2> QED BY <2>2 DEF ReversalsUndo
<1>2. AllInv => ReversalsUndo
  BY <1>1 DEF AllInv
<1> QED BY <1>2, BookInvariance, PTL

-----------------------------------------------------------------------------
(* What a step may do to what is committed.                                 *)

\* What process p may do.
StepOf(p) ==
  \/ p \in Openings /\ (OpenInsert(p) \/ OpenCommit(p) \/ OpenCommitLost(p))
  \/ p \in Calls /\ (Begin(p) \/ CallStep(p))
  \/ p \in RefWorkers /\ WorkerStep(p)
  \/ p \in Procs /\ CommitLost(p)
  \/ Abort(p)

\* A step is a tick of the clock or a step of one process.
LEMMA SomebodySteps ==
  ASSUME [Next]_vars
  PROVE  \/ UNCHANGED vars
         \/ \E t \in Calls : Tick(t)
         \/ \E p \in Actors : StepOf(p)
<1>1. Finished => UNCHANGED vars
  BY DEF Finished
<1> QED BY <1>1 DEF Next, StepOf, Actors, Procs

\* A call or a worker writes only when its unit of work commits.
LEMMA StepStore ==
  ASSUME IInv, NEW p \in Procs, StepOf(p)
  PROVE  UNCHANGED store \/ (stage[p] = "commit" /\ Apply(p))
<1>1. p \notin Openings
  BY ProcessAssumption DEF Procs
<1>2. ASSUME Commit(p)
      PROVE  UNCHANGED store \/ (stage[p] = "commit" /\ Apply(p))
  BY <1>2 DEF Commit, Fail
<1>3. ASSUME NEW c \in Calls, Begin(c) \/ Register(c) \/ FindByIdempotencyKey(c) \/ FindByExternalID(c)
      PROVE  UNCHANGED store
  <2>1. CASE Begin(c)
    BY <2>1 DEF Begin, Fail
  <2>2. CASE Register(c)
    BY <2>2 DEF Register, Fail
  <2>3. CASE FindByIdempotencyKey(c)
    BY <2>3 DEF FindByIdempotencyKey, FoundReplay, Fail
  <2>4. CASE FindByExternalID(c)
    <3>1. FoundNothing(c) \/ \E x : FoundReplay(c, x)
      BY <2>4 DEF FindByExternalID
    <3>2. FoundNothing(c) => UNCHANGED store
      <4>1. tx[c].pass \in {"first", "locked", "conflict", "duplicate"}
        BY DEF IInv, TypeInv, TypeOK, TxType, Procs
      <4> QED BY <4>1 DEF FoundNothing, Fail
    <3>3. \A x : FoundReplay(c, x) => UNCHANGED store
      BY DEF FoundReplay, Fail
    <3> QED BY <3>1, <3>2, <3>3
  <2> QED BY <1>3, <2>1, <2>2, <2>3, <2>4
<1>4. ASSUME NEW c, LockWallet(c) \/ RefuseIdentity(c) \/ Insert(c) \/ Decide(c)
      PROVE  UNCHANGED store
  BY <1>4 DEF LockWallet, RefuseIdentity, Insert, Decide, Fail
<1>5. ASSUME ClaimScan(p) \/ ClaimWallet(p) \/ ClaimRow(p) \/ RetryDecide(p)
      PROVE  UNCHANGED store
  BY <1>5 DEF ClaimScan, ClaimWallet, ClaimRow, RetryDecide, Fail
<1>6. ASSUME CommitLost(p) \/ Abort(p)
      PROVE  UNCHANGED store \/ (stage[p] = "commit" /\ Apply(p))
  BY <1>6 DEF CommitLost, Abort, Fail
<1>7. CASE p \in Calls /\ (Begin(p) \/ CallStep(p))
  BY <1>2, <1>3, <1>4, <1>7 DEF CallStep
<1>8. CASE WorkerStep(p)
  BY <1>2, <1>5, <1>8 DEF WorkerStep
<1> QED BY <1>1, <1>6, <1>7, <1>8 DEF StepOf

\* What is committed changes when a row falls due, a wallet is opened or a unit of work
\* commits, and by no other step.
LEMMA StoreSteps ==
  ASSUME IInv, [Next]_vars
  PROVE  \/ UNCHANGED store
         \/ \E t \in Calls : Tick(t)
         \/ \E o \in Openings : \E r : OpenWrites(o, r)
         \/ \E p \in Procs : stage[p] = "commit" /\ Apply(p)
<1>1. CASE UNCHANGED vars
  BY <1>1 DEF vars, store
<1>2. ASSUME NEW o \in Openings, StepOf(o)
      PROVE  UNCHANGED store \/ \E r : OpenWrites(o, r)
  <2>1. OpenInsert(o) \/ OpenCommit(o) \/ OpenCommitLost(o) \/ Abort(o)
    BY <1>2, ProcessAssumption DEF StepOf, Procs
  <2> QED BY <2>1 DEF OpenInsert, OpenCommit, OpenCommitLost, Abort, Fail
<1> QED BY <1>1, <1>2, SomebodySteps, StepStore DEF Actors

\* The message of a call that commits is not complete before.
LEMMA MessageOpen ==
  ASSUME CallInv, NEW p \in Procs, stage[p] = "commit", Registered(p)
  PROVE  p \in Calls /\ Request[p].msg \in Messages /\ inbox[Request[p].msg] = Nil
<1>1. p \in Calls /\ Request[p].msg # Nil /\ tx[p].pass # "duplicate"
  BY DEF Registered
<1>2. MessageFits(p, stage[p], tx[p])
  BY <1>1 DEF CallInv, CallFits
<1> QED BY <1>1, <1>2 DEF MessageFits, Inside, Messages

\* What is appended to stays: entries, events and completed messages.
LEMMA HistoryStays ==
  ASSUME IInv, CallInv, [Next]_vars
  PROVE  /\ ledger \subseteq ledger' /\ outbox \subseteq outbox'
         /\ \A m \in Messages : inbox[m] # Nil => inbox'[m] = inbox[m]
<1>1. CASE UNCHANGED store \/ \E t \in Calls : Tick(t)
  BY <1>1 DEF store, Tick
<1>2. ASSUME NEW o \in Openings, NEW r, OpenWrites(o, r)
      PROVE  ledger \subseteq ledger' /\ outbox \subseteq outbox' /\ inbox' = inbox
  BY <1>2 DEF OpenWrites
<1>3. ASSUME NEW p \in Procs, stage[p] = "commit", Apply(p)
      PROVE  /\ ledger \subseteq ledger' /\ outbox \subseteq outbox'
             /\ \A m \in Messages : inbox[m] # Nil => inbox'[m] = inbox[m]
  <2>1. ledger \subseteq ledger' /\ outbox \subseteq outbox'
    BY <1>3 DEF Apply
  <2>2. ASSUME NEW m \in Messages, inbox[m] # Nil PROVE inbox'[m] = inbox[m]
    <3>1. Registered(p) => Request[p].msg # m
      BY <1>3, <2>2, MessageOpen
    <3> QED BY <1>3, <3>1 DEF Apply, IInv, TypeInv, TypeOK
  <2> QED BY <2>1, <2>2
<1> QED BY <1>1, <1>2, <1>3, StoreSteps

\* A row changes when it falls due, when it is the opening row of a new wallet, or when
\* its unit of work commits.
LEMMA RowSteps ==
  ASSUME AllInv, [Next]_vars, NEW t \in Txns, wagers'[t] # wagers[t]
  PROVE  \/ /\ t \in Calls /\ wagers[t].status = "PENDING_REFERENCE"
            /\ wagers'[t] = [wagers[t] EXCEPT !.due = TRUE]
         \/ t \in Openings /\ wagers[t] = NoRow /\ wagers'[t].status = "PROCESSED"
         \/ \E p \in Procs : \E w, base, o : Committing(p, t, w, base, o) /\ Apply(p)
<1>1. wagers \in [Txns -> RowType] /\ IInv /\ CallInv /\ BookInv
  BY DEF AllInv, IInv, TypeInv, TypeOK
<1>2. ~UNCHANGED store
  BY DEF store
<1>3. ASSUME NEW c \in Calls, Tick(c)
      PROVE  /\ t \in Calls /\ wagers[t].status = "PENDING_REFERENCE"
             /\ wagers'[t] = [wagers[t] EXCEPT !.due = TRUE]
  <2>1. wagers' = [wagers EXCEPT ![c] = [wagers[c] EXCEPT !.due = TRUE]] /\ c \in Txns
    BY <1>3 DEF Tick, Txns
  <2>2. c = t
    BY <1>1, <2>1
  <2> QED BY <1>1, <1>3, <2>1, <2>2 DEF Tick
<1>4. ASSUME NEW o \in Openings, NEW r, OpenWrites(o, r)
      PROVE  t \in Openings /\ wagers[t] = NoRow /\ wagers'[t].status = "PROCESSED"
  <2>1. wagers' = [wagers EXCEPT ![o] = OpeningRow(o)] /\ o \in Txns /\ stage[o] = "commit"
    BY <1>4 DEF OpenWrites, Txns
  <2>2. t = o /\ wagers'[t] = OpeningRow(o)
    BY <1>1, <2>1
  <2>3. wallets[o].version = 0
    <3>1. wallets[o] = NoWallet
      BY <1>1, <2>1 DEF IInv, TypeInv, Control, Admitted, LockInv
    <3> QED BY <3>1 DEF NoWallet
  <2>4. wagers[o] = NoRow
    BY <1>1, <2>3, NothingBefore
  <2>5. OpeningRow(o) # NoRow => OpeningRow(o).status = "PROCESSED"
    BY OpeningMoves DEF OpeningRow
  <2> QED BY <2>2, <2>4, <2>5
<1>5. ASSUME NEW p \in Procs, stage[p] = "commit", Apply(p)
      PROVE  \E w, base, o : Committing(p, t, w, base, o)
  <2>1. tx[p].txn # Nil /\ wagers' = [wagers EXCEPT ![tx[p].txn] = NewRow(p)]
    BY <1>5 DEF Apply
  <2>2. tx[p].txn = t
    BY <1>1, <2>1
  <2> QED BY <1>5, <2>1, <2>2 DEF Committing
<1>6. \/ \E c \in Calls : Tick(c)
      \/ \E o \in Openings : \E r : OpenWrites(o, r)
      \/ \E p \in Procs : stage[p] = "commit" /\ Apply(p)
  BY <1>1, <1>2, StoreSteps
<1> QED BY <1>3, <1>4, <1>5, <1>6

\* A final row never changes, a retry counts one attempt and leaves the row waiting below
\* the limit of its worker only, and entries, events and completed messages are for good
\* (RetryReferences, Wager.Reject and Wager.Process, Inbox.Register).
THEOREM RowsProgress == Spec => RowLifecycle
<1> DEFINE Step == /\ \A t \in Txns : RowStep(t)
                   /\ ledger \subseteq ledger' /\ outbox \subseteq outbox'
                   /\ \A m \in Messages : inbox[m] # Nil => inbox'[m] = inbox[m]
<1>1. ASSUME AllInv, [Next]_vars, NEW t \in Txns, wagers'[t] # wagers[t]
      PROVE  /\ ~IsTerminal(wagers[t].status)
             /\ IsTerminal(wagers'[t].status) \/ wagers'[t].status = "PENDING_REFERENCE"
             /\ wagers'[t].status = "PENDING_REFERENCE" /\ wagers'[t].attempts # wagers[t].attempts =>
                  /\ wagers'[t].attempts = wagers[t].attempts + 1
                  /\ \E p \in RefWorkers : stage[p] = "commit" /\ tx[p].txn = t
                                           /\ wagers'[t].attempts < MaxAttempts[p]
  <2>1. IInv /\ CallInv /\ BookInv /\ wagers[t] \in RowType
    BY <1>1 DEF AllInv, IInv, TypeInv, TypeOK
  <2>2. CASE wagers[t].status = "PENDING_REFERENCE" /\ wagers'[t] = [wagers[t] EXCEPT !.due = TRUE]
    BY <2>1, <2>2 DEF RowType, IsTerminal
  <2>3. CASE wagers[t] = NoRow /\ wagers'[t].status = "PROCESSED"
    BY <2>3 DEF NoRow, IsTerminal
  <2>4. ASSUME NEW p \in Procs, NEW w, NEW base, NEW o, Committing(p, t, w, base, o), Apply(p)
        PROVE  /\ ~IsTerminal(wagers[t].status)
               /\ IsTerminal(wagers'[t].status) \/ wagers'[t].status = "PENDING_REFERENCE"
               /\ wagers'[t].status = "PENDING_REFERENCE" /\ wagers'[t].attempts # wagers[t].attempts =>
                    /\ wagers'[t].attempts = wagers[t].attempts + 1
                    /\ p \in RefWorkers /\ stage[p] = "commit" /\ tx[p].txn = t
                    /\ wagers'[t].attempts < MaxAttempts[p]
    <3>1. wagers[t].status \in {"NONE", "PENDING_REFERENCE"} /\ (~Present(t) => wagers[t].attempts = 0)
      BY <2>1, <2>4, RowBefore
    <3>2. PICK row : row = wagers'[t]
      OBVIOUS
    <3>3. row.status = o.status /\ row.attempts = o.attempts
          /\ row.status \in {"PENDING_REFERENCE", "PROCESSED", "REJECTED"}
      BY <2>1, <2>4, <3>2, CommitWrites, RowWritten
    <3>4. Counted(p, t, o) /\ stage[p] = "commit" /\ tx[p].txn = t
      BY <2>1, <2>4, CommitKnows DEF Committing
    <3>5. p \in Calls => wagers[t].attempts = 0 /\ row.attempts = 0
      <4>1. p \in Calls => p \notin RefWorkers
        BY ProcessAssumption
      <4>2. Present(t) => p \in RefWorkers
        BY <2>1, <2>4, RowBefore
      <4> QED BY <3>1, <3>3, <3>4, <4>1, <4>2 DEF Counted
    <3>6. p \in RefWorkers /\ row.status = "PENDING_REFERENCE" =>
            row.attempts = wagers[t].attempts + 1 /\ row.attempts < MaxAttempts[p]
      BY <3>3, <3>4 DEF Counted
    <3> QED BY <3>1, <3>2, <3>3, <3>4, <3>5, <3>6 DEF IsTerminal, Procs
  <2> QED BY <1>1, <2>2, <2>3, <2>4, RowSteps
<1>2. ASSUME AllInv, [Next]_vars PROVE Step
  BY <1>1, <1>2, HistoryStays DEF RowStep, AllInv
<1>3. AllInv /\ [Next]_vars => [Step]_vars
  BY <1>2
<1> QED BY <1>3, BookInvariance, PTL DEF Spec, RowLifecycle

\* No operation is given up as having no reference while its processed reference is there
\* to be used, unless its attempts were used up before (RetryReferences.processOne).
THEOREM GivenUpRightly == Spec => GivesUpOnlyWithout
<1> DEFINE Step ==
      \A t \in Calls :
        wagers'[t].failure = "REFERENCE_NOT_FOUND" /\ wagers[t].failure = Nil =>
          \/ ~\E x \in Calls \ {t} :
                 ValidateReference(Request[t], Request[x], wagers[x].status) = "ok"
          \/ \E p \in RefWorkers : /\ stage[p] = "commit" /\ tx[p].txn = t
                                   /\ wagers[t].attempts >= MaxAttempts[p]
<1>1. ASSUME AllInv, [Next]_vars, NEW t \in Calls, wagers'[t].failure = "REFERENCE_NOT_FOUND",
             wagers[t].failure = Nil
      PROVE  \/ NothingFits(t)
             \/ \E p \in RefWorkers : /\ stage[p] = "commit" /\ tx[p].txn = t
                                      /\ wagers[t].attempts >= MaxAttempts[p]
  <2>1. IInv /\ CallInv /\ BookInv /\ wagers[t] \in RowType /\ t \in Txns /\ t \notin Openings
    BY <1>1, CallColumns DEF AllInv, IInv, TypeInv, TypeOK
  <2>2. "REFERENCE_NOT_FOUND" # Nil
    BY ProcessAssumption DEF FailureCodes
  <2>3. wagers'[t] # wagers[t] /\ wagers'[t] # [wagers[t] EXCEPT !.due = TRUE]
    BY <1>1, <2>1, <2>2 DEF RowType
  <2>4. PICK p \in Procs : \E w, base, o : Committing(p, t, w, base, o) /\ Apply(p)
    BY <1>1, <2>1, <2>3, RowSteps
  <2>5. PICK w, base, o : Committing(p, t, w, base, o) /\ Apply(p)
    BY <2>4
  <2>6. PICK row : row = wagers'[t]
    OBVIOUS
  <2>7. row.failure = o.failure
    BY <2>1, <2>5, <2>6, CommitWrites, RowWritten
  <2>8. Counted(p, t, o)
    BY <2>1, <2>5, CommitKnows
  <2> QED BY <1>1, <2>5, <2>6, <2>7, <2>8 DEF Counted, Committing
<1>2. AllInv /\ [Next]_vars => [Step]_vars
  BY <1>1 DEF NothingFits
<1> QED BY <1>2, BookInvariance, PTL DEF Spec, GivesUpOnlyWithout

-----------------------------------------------------------------------------
(* What an HTTP client is told, and finds afterwards, is consistent.       *)
(*                                                                         *)
(* A result is that of the one row of the request, and it stays. So that   *)
(* a result and a refusal of equal requests exclude each other, the        *)
(* invariant remembers with every refusal why it was given: a reason that  *)
(* is there for good and with which the operation is not carried out.      *)

\* The wallet is there, or is being written.
Held(w) == stage[w] = "commit" \/ wallets[w].version > 0

\* What an opening was told is so.
OpeningTold(o, a) ==
  /\ a.error \in {Nil, "InvalidWallet", "WalletConflict", "Unavailable"}
  /\ a.error = Nil => wallets[o].version > 0
  /\ a.error = "WalletConflict" =>
       \E v \in Openings \ {o} : wallets[v].version > 0 /\ SameOwner(v, o)

OwnersApart == \A v, w \in Openings : Held(v) /\ Held(w) /\ SameOwner(v, w) => v = w

OpeningsTold == \A o \in Openings \ Opened : stage[o] = "done" => OpeningTold(o, answer[o])

\* Calls t and c ask for the same operation under the same key.
Same(t, c) == /\ SameKey(Request[t], Request[c])
              /\ PayloadHash(Request[t]) = PayloadHash(Request[c])

\* Another operation has the key or the external id of c.
Rivalled(c) ==
  \E x \in Calls : Present(x) /\ SameIdentity(Request[x], Request[c]) /\ ~Same(x, c)

\* The operation of c would move a wallet whose version cannot grow any more.
Undecidable(c) == LET q == Request[c] IN
  /\ wallets[q.wallet].version = MaxInt /\ q.kind # "LOSS"
  /\ NeedsReference(q) =>
       \E x \in Calls : ReferenceFits(c, x) /\ (IsReversal(q.kind) => ~HasSuccessfulReversal(x))

\* Nobody has stored the operation of c, or is about to.
Unstored(c) ==
  \A t \in Calls : Same(t, c) => ~Present(t) /\ (stage[t] = "commit" => tx[t].txn # t)

\* Why c was refused with e.
Because(c, e) ==
  IF ValidationError(Request[c]) # "" THEN e = ValidationError(Request[c])
  ELSE \/ e = "InboxConflict" /\ Request[c].msg # Nil
       \/ e = "IdempotencyConflict" /\ Rivalled(c)
       \/ e = "WalletIdentityMismatch" /\ ~OwnsWallet(c)
       \/ e = "InvalidWallet" /\ Undecidable(c) /\ Unstored(c)
       \/ e \in {"WalletNotFound", "Unavailable"} \cup Alarms

\* The statuses that processing leaves.
Results == {"PENDING_REFERENCE", "PROCESSED", "REJECTED"}

CallTold(c, s, x, a) ==
  /\ Present(c) \/ x.txn = c => OwnsWallet(c)
  /\ s = "commit" => x.reply.status \in Results
  /\ s = "done" /\ a.error = Nil =>
       ValidationError(Request[c]) = "" /\ a.txn # Nil /\ a.status \in Results
  /\ s = "done" /\ a.error # Nil => Because(c, a.error)

CallsTold == \A c \in Calls : CallTold(c, stage[c], tx[c], answer[c])

HttpInv == OwnersApart /\ OpeningsTold /\ CallsTold

-----------------------------------------------------------------------------
(* What was told is shown.                                                  *)

\* A stored row passes the validation with which it is read back.
LEMMA RowsRead ==
  ASSUME IInv, BookInv, NEW t \in Calls, Present(t)
  PROVE  Rehydrates(t, Request[t], wagers[t])
<1>1. ValidationError(Request[t]) = "" /\ wagers[t] \in RowType /\ RowsFit
  BY CallColumns DEF IInv, TypeInv, TypeOK, Control, Admitted, BookInv, Books
<1>2. ValidAmount(Request[t]) /\ (IsReversal(Request[t].kind) => Request[t].ref # Nil)
  BY <1>1 DEF ValidationError
<1>3. wagers[t].reference # Nil => wagers[t].reference # t /\ NeedsReference(Request[t])
  BY <1>1 DEF RowsFit, ResultFits, ReferenceFits
<1>4. wagers[t].balance # Nil => wagers[t].balance >= 0
  <2>1. wagers[t].balance \in (0 .. MaxInt) \cup {Nil}
    BY <1>1 DEF RowType
  <2>2. \A b \in 0 .. MaxInt : b >= 0
    BY MaxIntAssumption
  <2> QED BY <2>1, <2>2
<1>5. /\ wagers[t].status \in Results /\ ResultFits(t, wagers[t])
      /\ \A code \in FailureCodes : code # Nil
  BY <1>1, ProcessAssumption DEF RowsFit, Present, Results
<1> HIDE DEF Results
<1>6. CASE wagers[t].status = "PENDING_REFERENCE"
  BY <1>2, <1>3, <1>4, <1>5, <1>6 DEF Rehydrates, ResultFits
<1>7. CASE wagers[t].status = "PROCESSED"
  BY <1>2, <1>3, <1>4, <1>5, <1>7 DEF Rehydrates, ResultFits
<1>8. CASE wagers[t].status = "REJECTED"
  BY <1>2, <1>3, <1>4, <1>5, <1>8 DEF Rehydrates, ResultFits
<1> QED BY <1>5, <1>6, <1>7, <1>8 DEF Results

\* The external id of an operation that was answered leads to its row.
LEMMA ToldIsFound ==
  ASSUME IInv, BookInv, NEW c \in Calls, NEW t, t = answer[c].txn, t # Nil
  PROVE  /\ t \in Calls /\ Present(t) /\ Found(Request[c].provider, Request[c].ext) = {t}
<1>1. /\ Present(t) /\ SameKey(Request[t], Request[c])
      /\ PayloadHash(Request[t]) = PayloadHash(Request[c])
  BY DEF BookInv, AnswersAgree
<1>2. t \in Calls
  BY OthersApart DEF ReplyType
<1>3. Request[t].ext = Request[c].ext /\ Request[t].provider = Request[c].provider
  BY <1>1 DEF PayloadHash
<1>4. ASSUME NEW x \in Calls, Present(x), Request[x].provider = Request[c].provider,
             Request[x].ext = Request[c].ext
      PROVE  x = t
  BY <1>1, <1>2, <1>3, <1>4 DEF IInv, UniqueInv, OneRowPerIdentity, SameIdentity, SameExternalID
<1> QED BY <1>1, <1>2, <1>3, <1>4 DEF Found

\* Whoever was told of an operation finds it under its external id, with the row it was told,
\* readable, and with the result it was told if that was final (getTransaction).
THEOREM WhatIsToldIsShown == Spec => []ToldIsShown
<1>1. ASSUME IInv, BookInv PROVE ToldIsShown
  <2>1. ASSUME NEW c \in Calls, NEW a, a = answer[c], a.txn # Nil,
               NEW shown, shown = GetTransaction(Request[c].provider, Request[c].ext)
        PROVE  /\ shown.status = 200 /\ shown.txn = a.txn
               /\ IsTerminal(a.status) => <<shown.row, shown.failure>> = <<a.status, a.failure>>
    <3> DEFINE t == a.txn
    <3>1. t \in Calls /\ Present(t) /\ Found(Request[c].provider, Request[c].ext) = {t}
      BY <1>1, <2>1, ToldIsFound
    <3>2. Rehydrates(t, Request[t], wagers[t])
      BY <1>1, <3>1, RowsRead
    <3>3. (CHOOSE x \in {t} : TRUE) = t
      OBVIOUS
    <3>4. shown = [status |-> 200, txn |-> t, row |-> wagers[t].status, failure |-> wagers[t].failure]
      BY <2>1, <3>1, <3>2, <3>3 DEF GetTransaction
    <3>5. IsTerminal(a.status) => a.status = wagers[t].status /\ a.failure = wagers[t].failure
      BY <1>1, <2>1 DEF BookInv, AnswersAgree
    <3> QED BY <3>4, <3>5
  <2> QED BY <2>1 DEF ToldIsShown
<1>2. AllInv => ToldIsShown
  BY <1>1 DEF AllInv
<1> QED BY <1>2, BookInvariance, PTL

-----------------------------------------------------------------------------
(* Nobody moves somebody else's transaction.                                *)

\* p goes on, and the others stay where they are.
OnlyIts(p) ==
  /\ \A q \in Actors \ {p} : stage'[q] = stage[q] /\ answer'[q] = answer[q]
  /\ \A q \in Procs \ {p} : tx'[q] = tx[q]

\* The end of a transaction concerns its process only.
LEMMA EndAlone == ASSUME IInv, NEW p \in Actors, NEW r, End(p, r) PROVE OnlyIts(p)
<1>1. TypeOK /\ answer \in [Actors -> ReplyType] /\ answer' = [answer EXCEPT ![p] = r]
  BY DEF IInv, TypeInv, TypeOK, End
<1> QED BY <1>1, EndPoints DEF OnlyIts

\* So does a statement.
LEMMA GotoAlone ==
  ASSUME IInv, NEW p \in Actors, NEW s, Goto(p, s), answer' = answer,
         tx' = tx \/ \E x : tx' = [tx EXCEPT ![p] = x]
  PROVE  OnlyIts(p)
<1>1. stage \in [Actors -> Stages] /\ stage' = [stage EXCEPT ![p] = s] /\ tx \in [Procs -> TxType]
  BY OthersApart DEF Goto
<1> QED BY <1>1 DEF OnlyIts

\* Nobody moves somebody else's transaction.
LEMMA OneSteps ==
  ASSUME IInv, NEW p \in Actors, StepOf(p) PROVE OnlyIts(p)
<1>1. \A e : Fail(p, e) => OnlyIts(p)
  BY EndAlone DEF Fail
<1>2. \A r : End(p, r) => OnlyIts(p)
  BY EndAlone
<1>3. \A s : Goto(p, s) /\ UNCHANGED <<tx, answer>> => OnlyIts(p)
  BY GotoAlone
<1>4. \A s, x : Goto(p, s) /\ tx' = [tx EXCEPT ![p] = x] /\ answer' = answer => OnlyIts(p)
  BY GotoAlone
<1>5. CASE OpenInsert(p) \/ OpenCommit(p) \/ OpenCommitLost(p)
  BY <1>1, <1>2, <1>3, <1>5 DEF OpenInsert, OpenCommit, OpenCommitLost, OpenWrites
<1>6. CASE Begin(p)
  BY <1>1, <1>3, <1>6 DEF Begin
<1>7. CASE Register(p)
  <2>1. CASE Fail(p, "InboxConflict")
    BY <1>1, <2>1
  <2>2. CASE ~Fail(p, "InboxConflict")
    <3> DEFINE pass == IF inbox[Request[p].msg] = Nil THEN "first" ELSE "duplicate"
    <3>1. /\ Goto(p, "findKey") /\ answer' = answer
          /\ tx' = [tx EXCEPT ![p] = [tx[p] EXCEPT !.pass = pass]]
      BY <1>7, <2>2 DEF Register
    <3> HIDE DEF pass
    <3> QED BY <1>4, <3>1
  <2> QED BY <2>1, <2>2
<1>8. ASSUME NEW x, FoundReplay(p, x) PROVE OnlyIts(p)
  BY <1>1, <1>4, <1>8 DEF FoundReplay
<1>9. CASE FindByIdempotencyKey(p)
  BY <1>3, <1>8, <1>9 DEF FindByIdempotencyKey
<1>10. CASE p \in Calls /\ FindByExternalID(p)
  <2>1. ASSUME FoundNothing(p) PROVE OnlyIts(p)
    <3>1. tx[p].pass \in {"first", "locked", "conflict", "duplicate"}
      BY <1>10 DEF IInv, TypeInv, TypeOK, TxType, Procs
    <3> QED BY <1>1, <1>3, <2>1, <3>1 DEF FoundNothing
  <2> QED BY <1>8, <1>10, <2>1 DEF FindByExternalID
<1>11. CASE LockWallet(p) \/ RefuseIdentity(p)
  <2>1. CASE \E e : Fail(p, e)
    BY <1>1, <2>1
  <2>2. CASE ~\E e : Fail(p, e)
    <3> DEFINE w == Request[p].wallet
               x == [tx[p] EXCEPT !.wallet = w, !.base = wallets[w], !.pass = "locked"]
    <3>1. Goto(p, "findKey") /\ answer' = answer /\ tx' = [tx EXCEPT ![p] = x]
      BY <1>11, <2>2 DEF LockWallet, RefuseIdentity
    <3> HIDE DEF x
    <3> QED BY <1>4, <3>1
  <2> QED BY <2>1, <2>2
<1>12. CASE Insert(p)
  BY <1>4, <1>12 DEF Insert
<1>13. CASE Decide(p)
  <2> DEFINE o == [ProcessWager(p, tx[p].base) EXCEPT !.due = TRUE]
             r == [error |-> Nil, txn |-> p, status |-> o.status, failure |-> o.failure,
                   balance |-> IF o.status = "PROCESSED" THEN o.after ELSE Nil, replay |-> FALSE]
             x == [tx[p] EXCEPT !.outcome = o, !.reply = r]
  <2>1. \/ Fail(p, "InvalidWallet")
        \/ Goto(p, "commit") /\ answer' = answer /\ tx' = [tx EXCEPT ![p] = x]
    BY <1>13 DEF Decide
  <2> HIDE DEF x
  <2> QED BY <1>1, <1>4, <2>1
<1>14. CASE Commit(p) \/ CommitLost(p) \/ Abort(p)
  BY <1>1, <1>2, <1>14 DEF Commit, CommitLost, Abort
<1>15. CASE ClaimScan(p) \/ ClaimWallet(p)
  BY <1>3, <1>4, <1>15 DEF ClaimScan, ClaimWallet
<1>16. CASE ClaimRow(p)
  BY <1>1, <1>2, <1>4, <1>16 DEF ClaimRow
<1>17. CASE RetryDecide(p)
  <2> DEFINE o == RetryOutcome(p, tx[p].txn, tx[p].base)
             x == [tx[p] EXCEPT !.outcome = o]
  <2>1. \/ Fail(p, "InvalidWallet")
        \/ Goto(p, "commit") /\ answer' = answer /\ tx' = [tx EXCEPT ![p] = x]
    BY <1>17 DEF RetryDecide
  <2> HIDE DEF x
  <2> QED BY <1>1, <1>4, <2>1
<1>18. CASE p \in Calls /\ (Begin(p) \/ CallStep(p))
  BY <1>6, <1>7, <1>9, <1>10, <1>11, <1>12, <1>13, <1>14, <1>18 DEF CallStep
<1>19. CASE WorkerStep(p)
  BY <1>14, <1>15, <1>16, <1>17, <1>19 DEF WorkerStep
<1> QED BY <1>5, <1>14, <1>18, <1>19 DEF StepOf

-----------------------------------------------------------------------------
(* Openings.                                                                *)

\* A commit moves wallets that are there.
LEMMA CommitKeepsWallets ==
  ASSUME AllInv, NEW p \in Procs, stage[p] = "commit", Apply(p), NEW v \in Openings
  PROVE  wallets'[v].version > 0 <=> wallets[v].version > 0
<1>1. IInv /\ CallInv /\ BookInv
  BY DEF AllInv
<1>2. CASE tx[p].txn = Nil
  BY <1>2 DEF Apply, Moves
<1>3. CASE tx[p].txn # Nil
  <2>1. PICK t, w, base, o : Committing(p, t, w, base, o)
    BY <1>3 DEF Committing
  <2>2. v # w => wallets'[v] = wallets[v]
    BY <1>1, <2>1, CommitWrites
  <2>3. ~Moves(p) => wallets' = wallets
    BY DEF Apply
  <2>4. base = wallets[w] /\ base \in WalletType /\ base.version >= 1
    BY <1>1, <2>1, CommitKnows
  <2>5. Moves(p) => wallets'[w].version = base.version + 1
    <3>1. Moves(p) => wallets'[w] = NewWallet(p)
      BY <1>1, <2>1, CommitWrites
    <3> QED BY <2>1, <3>1 DEF NewWallet, Committing
  <2>6. base.version \in Nat
    BY <2>4 DEF WalletType
  <2> QED BY <2>2, <2>3, <2>4, <2>5, <2>6
<1> QED BY <1>2, <1>3

\* While no opening moves, what they were told and who has a wallet stay.
LEMMA OpeningsStay ==
  ASSUME HttpInv,
         \A o \in Openings : /\ stage'[o] = stage[o] /\ answer'[o] = answer[o]
                             /\ wallets'[o].version > 0 <=> wallets[o].version > 0
  PROVE  OwnersApart' /\ OpeningsTold'
<1>1. \A o \in Openings : Held(o)' <=> Held(o)
  BY DEF Held
<1>2. \A o \in Openings : \A a : OpeningTold(o, a) => OpeningTold(o, a)'
  BY DEF OpeningTold
<1>3. OwnersApart'
  BY <1>1 DEF HttpInv, OwnersApart, SameOwner
<1>4. ASSUME NEW o \in Openings \ Opened, stage'[o] = "done" PROVE OpeningTold(o, answer[o])'
  <2>1. PICK a : a = answer[o]
    OBVIOUS
  <2>2. OpeningTold(o, a)' /\ answer'[o] = a
    BY <1>2, <1>4, <2>1 DEF HttpInv, OpeningsTold
  <2> QED BY <2>2 DEF OpeningTold
<1> QED BY <1>3, <1>4 DEF OpeningsTold

\* A step of opening o: it takes a wallet that no other of the owner holds, and what it is
\* told is so.
LEMMA OpeningSteps ==
  ASSUME HttpInv, NEW o \in Openings, OnlyIts(o),
         \A v \in Openings \ {o} : wallets'[v] = wallets[v],
         wallets[o].version > 0 => wallets'[o].version > 0,
         Held(o)' => Held(o) \/ ~\E v \in Openings \ {o} : Held(v) /\ SameOwner(v, o),
         stage'[o] = "done" => OpeningTold(o, answer[o])'
  PROVE  OwnersApart' /\ OpeningsTold'
<1>1. \A v \in Openings \ {o} : stage'[v] = stage[v] /\ answer'[v] = answer[v]
  BY DEF OnlyIts, Actors
<1>2. OwnersApart'
  <2>1. \A v \in Openings \ {o} : Held(v)' <=> Held(v)
    BY <1>1 DEF Held
  <2>2. ASSUME NEW v \in Openings, NEW w \in Openings, Held(v)', Held(w)', SameOwner(v, w) PROVE v = w
    <3>1. CASE v # o /\ w # o
      BY <2>1, <2>2, <3>1 DEF HttpInv, OwnersApart
    <3>2. CASE v = o /\ w # o
      BY <2>1, <2>2, <3>2 DEF HttpInv, OwnersApart, SameOwner
    <3>3. CASE w = o /\ v # o
      BY <2>1, <2>2, <3>3 DEF HttpInv, OwnersApart
    <3> QED BY <3>1, <3>2, <3>3
  <2> QED BY <2>2 DEF OwnersApart, SameOwner
<1>3. ASSUME NEW v \in Openings \ Opened, v # o, stage'[v] = "done" PROVE OpeningTold(v, answer[v])'
  <2>1. PICK a : a = answer[v]
    OBVIOUS
  <2>2. OpeningTold(v, a) /\ answer'[v] = a
    <3>1. stage[v] = "done" /\ answer'[v] = answer[v]
      BY <1>1, <1>3
    <3> QED BY <2>1, <3>1 DEF HttpInv, OpeningsTold
  <2>3. \A x \in Openings : wallets[x].version > 0 => wallets'[x].version > 0
    OBVIOUS
  <2>4. OpeningTold(v, a)'
    BY <2>2, <2>3 DEF OpeningTold, SameOwner
  <2> QED BY <2>2, <2>4 DEF OpeningTold
<1> QED BY <1>2, <1>3 DEF OpeningsTold

\* The insert, the commit, its lost answer and the abort of an opening.
LEMMA OpeningActs ==
  ASSUME AllInv, HttpInv, NEW o \in Openings,
         OpenInsert(o) \/ OpenCommit(o) \/ OpenCommitLost(o) \/ Abort(o)
  PROVE  OwnersApart' /\ OpeningsTold'
<1>1. /\ IInv /\ o \in Actors /\ o \notin RefWorkers /\ stage \in [Actors -> Stages]
      /\ answer \in [Actors -> ReplyType] /\ OnlyIts(o)
  BY OneSteps, OthersApart, ProcessAssumption DEF AllInv, Actors, StepOf
<1>2. stage[o] # "done" => wallets[o].version = 0
  <2>1. stage[o] # "done" => wallets[o] = NoWallet
    BY <1>1 DEF IInv, LockInv
  <2> QED BY <2>1 DEF NoWallet
<1>3. ASSUME NEW e \in {"InvalidWallet", "WalletConflict", "Unavailable"}, Fail(o, e),
             e = "WalletConflict" => \E v \in Openings \ {o} : wallets[v].version > 0 /\ SameOwner(v, o)
      PROVE  OwnersApart' /\ OpeningsTold'
  <2>1. stage'[o] = "done" /\ answer'[o] = ErrorReply(e) /\ wallets' = wallets
    BY <1>1, <1>3 DEF Fail, End, Rest, store
  <2>2. ErrorReply(e).error = e
    BY DEF ErrorReply, NoReply
  <2>3. e # Nil
    BY ErrorAssumption DEF CallErrors
  <2>4. OpeningTold(o, answer[o])'
    BY <1>3, <2>1, <2>2, <2>3 DEF OpeningTold, SameOwner
  <2>5. Held(o)' => Held(o)
    BY <2>1 DEF Held
  <2> QED BY <1>1, <2>1, <2>4, <2>5, OpeningSteps
<1>4. ASSUME NEW r, r.error \in {Nil, "Unavailable"}, OpenWrites(o, r) PROVE OwnersApart' /\ OpeningsTold'
  <2>1. /\ stage[o] = "commit" /\ stage'[o] = "done" /\ answer'[o] = r
        /\ wallets' = [wallets EXCEPT ![o] = OpeningWallet(o)]
    BY <1>1, <1>4 DEF OpenWrites, End, Rest
  <2>2. wallets'[o].version > 0 /\ \A v \in Openings \ {o} : wallets'[v] = wallets[v]
    BY <1>1, <2>1 DEF IInv, TypeInv, TypeOK, OpeningWallet
  <2>3. "Unavailable" # "WalletConflict" /\ Nil # "WalletConflict"
    BY ErrorAssumption DEF CallErrors
  <2>4. OpeningTold(o, answer[o])'
    BY <1>4, <2>1, <2>2, <2>3 DEF OpeningTold
  <2>5. Held(o)
    BY <2>1 DEF Held
  <2> QED BY <1>1, <2>2, <2>4, <2>5, OpeningSteps
<1>5. CASE OpenInsert(o)
  <2>1. CASE \E e : Fail(o, e)
    <3>1. ASSUME NEW v \in Openings, wallets[v].version > 0 PROVE v # o
      BY <1>2, <1>5, <3>1 DEF OpenInsert
    <3>2. Fail(o, "InvalidWallet") => OwnersApart' /\ OpeningsTold'
      BY <1>3
    <3>3. Fail(o, "WalletConflict") /\ (\E v \in Openings : wallets[v].version > 0 /\ SameOwner(v, o)) =>
            OwnersApart' /\ OpeningsTold'
      BY <1>3, <3>1
    <3>4. ~Goto(o, "commit")
      BY <1>1, <2>1 DEF Fail, End, Goto, Rest
    <3> QED BY <1>5, <3>2, <3>3, <3>4 DEF OpenInsert
  <2>2. CASE ~\E e : Fail(o, e)
    <3>1. /\ stage'[o] = "commit" /\ wallets' = wallets
          /\ ~\E v \in Openings : stage[v] = "commit" /\ SameOwner(v, o)
          /\ ~\E v \in Openings : wallets[v].version > 0 /\ SameOwner(v, o)
      BY <1>1, <1>5, <2>2 DEF OpenInsert, Goto, store
    <3>2. ~\E v \in Openings \ {o} : Held(v) /\ SameOwner(v, o)
      BY <3>1 DEF Held
    <3> QED BY <1>1, <3>1, <3>2, OpeningSteps
  <2> QED BY <2>1, <2>2
<1>6. NoReply.error = Nil /\ ErrorReply("Unavailable").error = "Unavailable"
  BY DEF ErrorReply, NoReply
<1>7. CASE OpenCommit(o) \/ OpenCommitLost(o)
  BY <1>4, <1>6, <1>7 DEF OpenCommit, OpenCommitLost
<1>8. CASE Abort(o)
  BY <1>3, <1>8 DEF Abort
<1> QED BY <1>5, <1>7, <1>8

\* Nobody else opens a wallet.
LEMMA StepOpenings ==
  ASSUME AllInv, HttpInv, [Next]_vars PROVE OwnersApart' /\ OpeningsTold'
<1>1. IInv
  BY DEF AllInv
<1>2. CASE UNCHANGED vars \/ \E t \in Calls : Tick(t)
  BY <1>2, OpeningsStay DEF vars, Tick
<1>3. ASSUME NEW p \in Procs, StepOf(p) PROVE OwnersApart' /\ OpeningsTold'
  <2>1. p \in Actors /\ p \notin Openings /\ OnlyIts(p)
    BY <1>1, <1>3, OneSteps, ProcessAssumption DEF Actors, Procs
  <2>2. UNCHANGED store \/ (stage[p] = "commit" /\ Apply(p))
    BY <1>1, <1>3, <2>1, StepStore
  <2>3. \A o \in Openings : wallets'[o].version > 0 <=> wallets[o].version > 0
    BY <2>2, CommitKeepsWallets DEF store
  <2> QED BY <2>1, <2>3, OpeningsStay DEF OnlyIts, Actors
<1>4. ASSUME NEW o \in Openings, StepOf(o) PROVE OwnersApart' /\ OpeningsTold'
  <2>1. OpenInsert(o) \/ OpenCommit(o) \/ OpenCommitLost(o) \/ Abort(o)
    BY <1>4, ProcessAssumption DEF StepOf, Procs
  <2> QED BY <2>1, OpeningActs
<1> QED BY <1>2, <1>3, <1>4, SomebodySteps DEF Actors

-----------------------------------------------------------------------------
(* Operations that cannot be decided.                                       *)

\* Equal content is equal in all that processing looks at.
LEMMA SameMeans ==
  ASSUME NEW t, NEW c, Same(t, c)
  PROVE  /\ Request[t].provider = Request[c].provider /\ Request[t].key = Request[c].key
         /\ Request[t].ext = Request[c].ext /\ Request[t].kind = Request[c].kind
         /\ Request[t].amount = Request[c].amount /\ Request[t].ref = Request[c].ref
         /\ Request[t].wallet = Request[c].wallet /\ Request[t].player = Request[c].player
         /\ Request[t].currency = Request[c].currency /\ Request[t].round = Request[c].round
BY DEF Same, SameKey, PayloadHash

\* processWager gives no decision only for a movement that the wallet refuses.
LEMMA NoDecisionMeans ==
  ASSUME IInv, NEW c \in Calls, tx[c].txn = c, NEW base, base.version >= 1,
         ProcessWager(c, base).status = "NONE"
  PROVE  /\ base.version = MaxInt /\ Request[c].kind # "LOSS"
         /\ NeedsReference(Request[c]) =>
              \E x \in Calls : ReferenceFits(c, x)
                               /\ (IsReversal(Request[c].kind) => ~HasSuccessfulReversal(x))
<1> DEFINE q == Request[c]
           o == ProcessWager(c, base)
<1>1. ASSUME NEW x, Move(q, x, base).status = "NONE" PROVE base.version = MaxInt
  BY <1>1 DEF Move, Movable, Rejected, Processed, NoOutcome
<1>2. \A code, x : Rejected(code, x).status # "NONE"
  BY DEF Rejected, NoOutcome
<1>3. Wait.status # "NONE" /\ \A x, d, n : Processed(x, d, n).status # "NONE"
  BY DEF Wait, Processed, NoOutcome
<1>4. CASE ~NeedsReference(q)
  <2>1. q.kind # "LOSS" /\ o = Move(q, Nil, base)
    BY <1>3, <1>4 DEF ProcessWager
  <2>2. Move(q, Nil, base).status = "NONE"
    BY <2>1
  <2> QED BY <1>1, <1>4, <2>1, <2>2
<1>5. CASE NeedsReference(q)
  <2> DEFINE x == CHOOSE y \in FindReference(c) : TRUE
  <2>1. FindReference(c) # {} /\ o = WithReference(c, x, base)
    BY <1>3, <1>5 DEF ProcessWager
  <2>2. x \in FindReference(c)
    BY <2>1
  <2>3. x \in Calls
    BY <2>2 DEF FindReference
  <2> HIDE DEF x
  <2>4. ResolveReference(c, x) = "ok"
    <3>1. ResolveReference(c, x) \in {"invalid", "notProcessed", "ok"}
      BY DEF ResolveReference, ValidateReference
    <3>2. o.status = "NONE"
      OBVIOUS
    <3> HIDE DEF o
    <3> QED BY <1>2, <1>3, <2>1, <3>1, <3>2 DEF WithReference
  <2>5. ~(IsReversal(q.kind) /\ HasSuccessfulReversal(x)) /\ o = Move(q, x, base)
    <3>1. o.status = "NONE"
      OBVIOUS
    <3> HIDE DEF o
    <3> QED BY <1>2, <2>1, <2>4, <3>1 DEF WithReference
  <2>6. ReferenceFits(c, x)
    BY <1>5, <2>3, <2>4 DEF ResolveReference, ReferenceFits
  <2>7. Move(q, x, base).status = "NONE"
    BY <2>5
  <2>8. q.kind # "LOSS"
    BY <1>5 DEF NeedsReference, IsReversal
  <2> QED BY <1>1, <2>3, <2>5, <2>6, <2>7, <2>8
<1> QED BY <1>4, <1>5

\* Nor does it for any other call with the same operation.
LEMMA NoDecisionForAny ==
  ASSUME IInv, NEW c \in Calls, Undecidable(c), Unstored(c), NEW t \in Calls, Same(t, c),
         tx[t].txn = t, NEW base, base.version = MaxInt
  PROVE  ProcessWager(t, base).status = "NONE"
<1>1. ~Present(t) /\ ~Movable(base)
  BY DEF Unstored, Movable
<1>2. \A x : Move(Request[t], x, base) = NoOutcome
  BY <1>1 DEF Move
<1>3. NoOutcome.status = "NONE"
  BY DEF NoOutcome
<1>4. Request[t].kind # "LOSS" /\ (NeedsReference(Request[t]) <=> NeedsReference(Request[c]))
  BY SameMeans DEF Undecidable, NeedsReference
<1>5. CASE ~NeedsReference(Request[t])
  BY <1>2, <1>3, <1>4, <1>5 DEF ProcessWager
<1>6. CASE NeedsReference(Request[t])
  <2>1. PICK x \in Calls : ReferenceFits(c, x) /\ (IsReversal(Request[c].kind) => ~HasSuccessfulReversal(x))
    BY <1>4, <1>6 DEF Undecidable
  <2>2. /\ SameContext(Request[c], Request[x]) /\ wagers[x].status = "PROCESSED"
        /\ Request[x].kind \in ReferableKinds(Request[c].kind)
        /\ Request[c].kind = "WIN" \/ Request[x].amount = Request[c].amount
    BY <2>1, ReferenceMeans
  <2>3. Present(x) /\ x # t
    BY <1>1, <2>2 DEF Present
  <2>4. ResolveReference(t, x) = "ok"
    <3>1. SameContext(Request[t], Request[x])
      BY <2>2, SameMeans DEF SameContext
    <3>2. /\ Request[x].kind \in ReferableKinds(Request[t].kind)
          /\ Request[t].kind = "WIN" \/ Request[x].amount = Request[t].amount
      BY <2>2, SameMeans
    <3> QED BY <2>2, <2>3, <3>1, <3>2, OkMeans DEF ResolveReference
  <2>5. x \in FindReference(t)
    BY <2>2, <2>3, SameMeans DEF FindReference, SameContext
  <2>6. ASSUME NEW y \in FindReference(t) PROVE y = x
    <3>1. /\ y \in Calls /\ (Present(y) \/ y = t) /\ SameExternalID(Request[x], Request[y])
          /\ SameExternalID(Request[y], Request[x])
      BY <2>5, <2>6 DEF FindReference, SameExternalID
    <3>2. y # t
      BY <2>3, <3>1 DEF IInv, UniqueInv, SameIdentity
    <3> QED BY <2>3, <3>1, <3>2 DEF IInv, UniqueInv, OneRowPerIdentity, SameIdentity
  <2>7. (CHOOSE y \in FindReference(t) : TRUE) = x
    BY <2>5, <2>6
  <2>8. ProcessWager(t, base) = WithReference(t, x, base)
    BY <1>6, <2>5, <2>7 DEF ProcessWager
  <2>9. ~(IsReversal(Request[t].kind) /\ HasSuccessfulReversal(x))
    BY <2>1, SameMeans
  <2>10. WithReference(t, x, base) = Move(Request[t], x, base)
    BY <2>4, <2>9 DEF WithReference
  <2> QED BY <1>2, <1>3, <2>8, <2>10
<1> QED BY <1>5, <1>6

-----------------------------------------------------------------------------
(* What a step of a call comes to.                                          *)

\* The call goes on, without a decision.
Advances(c) ==
  /\ stage'[c] \notin {"commit", "done"} /\ UNCHANGED store /\ answer'[c] = answer[c]
  /\ tx'[c].txn = c => OwnsWallet(c)

\* It has found a row to answer with.
Replays(c) ==
  /\ stage'[c] = "commit" /\ UNCHANGED store /\ answer'[c] = answer[c]
  /\ tx'[c].txn # c /\ tx'[c].reply.status \in Results

\* It has decided what becomes of its own row.
Decides(c) ==
  /\ stage'[c] = "commit" /\ UNCHANGED store /\ answer'[c] = answer[c]
  /\ tx[c].txn = c /\ tx'[c].txn = c /\ tx'[c].reply.status \in Results
  /\ ProcessWager(c, tx[c].base).status # "NONE" /\ tx[c].base = wallets[Request[c].wallet]

\* It is refused.
Refuses(c) == \E e : e # Nil /\ Fail(c, e) /\ Because(c, e)

\* It commits.
Commits(c) ==
  /\ stage[c] = "commit" /\ Apply(c)
  /\ End(c, tx[c].reply) \/ End(c, ErrorReply("Unavailable"))

CallShape(c) == Advances(c) \/ Replays(c) \/ Decides(c) \/ Refuses(c) \/ Commits(c)

\* A search step.
LEMMA SearchShape ==
  ASSUME AllInv, NEW c \in Calls, stage[c] \notin {"decide", "commit"},
         NEW s \in {"inbox", "findKey", "findExt", "wallet", "insert"}, Goto(c, s),
         UNCHANGED <<store, answer>>,
         tx' = tx \/ \E x \in TxType : tx' = [tx EXCEPT ![c] = x] /\ x.txn = tx[c].txn
  PROVE  CallShape(c)
<1>1. IInv /\ c \in Actors /\ c \in Procs /\ stage \in [Actors -> Stages] /\ tx \in [Procs -> TxType]
      /\ tx[c].txn = Nil /\ c # Nil
  BY OthersApart, CallFacts, NilApart DEF AllInv
<1>2. stage'[c] = s /\ tx'[c].txn = tx[c].txn
  BY <1>1 DEF Goto
<1> QED BY <1>1, <1>2 DEF CallShape, Advances

\* A refusal after the admission.
LEMMA RefusalShape ==
  ASSUME AllInv, NEW c \in Calls, stage[c] \notin {"idle", "done"},
         NEW e \in CallErrors \cup AllSafeguards, Fail(c, e),
         \/ e = "InboxConflict" /\ Request[c].msg # Nil
         \/ e = "IdempotencyConflict" /\ Rivalled(c)
         \/ e = "WalletIdentityMismatch" /\ ~OwnsWallet(c)
         \/ e = "InvalidWallet" /\ Undecidable(c) /\ Unstored(c)
         \/ e \in {"WalletNotFound", "Unavailable"} \cup Alarms
  PROVE  CallShape(c)
<1>1. ValidationError(Request[c]) = ""
  BY CallFacts DEF AllInv
<1>2. e # Nil
  BY ErrorAssumption
<1> QED BY <1>1, <1>2 DEF CallShape, Refuses, Because

\* Validation.
LEMMA BeginShape == ASSUME AllInv, NEW c \in Calls, Begin(c) PROVE CallShape(c)
<1>1. CASE ValidationError(Request[c]) # ""
  <2>1. ValidationError(Request[c]) # Nil
    BY <1>1, ErrorAssumption DEF ValidationError, CallErrors
  <2> QED BY <1>1, <2>1 DEF Begin, CallShape, Refuses, Because
<1>2. CASE ValidationError(Request[c]) = ""
  BY <1>2, SearchShape DEF Begin
<1> QED BY <1>1, <1>2

\* The inbox.
LEMMA RegisterShape == ASSUME AllInv, NEW c \in Calls, Register(c) PROVE CallShape(c)
<1>1. stage[c] = "inbox" /\ Request[c].msg # Nil /\ tx[c] \in TxType
  BY CallKnows DEF AllInv, Register, MessageFits
<1>2. CASE Fail(c, "InboxConflict")
  BY <1>1, <1>2, RefusalShape DEF CallErrors
<1>3. CASE ~Fail(c, "InboxConflict")
  <2>1. PICK pass \in {"first", "duplicate"} :
          tx' = [tx EXCEPT ![c].pass = pass] /\ Goto(c, "findKey") /\ UNCHANGED <<store, answer>>
    BY <1>3 DEF Register
  <2> DEFINE x == [tx[c] EXCEPT !.pass = pass]
  <2>2. x \in TxType /\ x.txn = tx[c].txn
    BY <1>1 DEF TxType
  <2>3. tx' = [tx EXCEPT ![c] = x]
    BY <2>1
  <2> HIDE DEF x
  <2> QED BY <1>1, <2>1, <2>2, <2>3, SearchShape
<1> QED BY <1>2, <1>3

\* A row that was found.
LEMMA FoundReplayShape ==
  ASSUME AllInv, NEW c \in Calls, NEW y \in Calls, stage[c] \in {"findKey", "findExt"},
         Present(y), SameIdentity(Request[y], Request[c]), FoundReplay(c, y)
  PROVE  CallShape(c)
<1>1. IInv /\ c \in Actors /\ c \in Procs /\ stage \in [Actors -> Stages] /\ tx \in [Procs -> TxType]
      /\ tx[c].txn = Nil /\ c # Nil
  BY OthersApart, CallFacts, NilApart DEF AllInv
<1>2. CASE Fail(c, "IdempotencyConflict")
  <2>1. ~Goto(c, "commit")
    BY <1>1, <1>2 DEF Fail, End, Goto, Rest
  <2>2. ~Same(y, c)
    BY <2>1 DEF FoundReplay, Same, SameKey
  <2>3. Rivalled(c)
    BY <2>2 DEF Rivalled
  <2> QED BY <1>2, <2>3, RefusalShape DEF CallErrors
<1>3. CASE ~Fail(c, "IdempotencyConflict")
  <2>1. /\ stage' = [stage EXCEPT ![c] = "commit"] /\ UNCHANGED <<store, answer>>
        /\ tx' = [tx EXCEPT ![c] = [tx[c] EXCEPT !.reply = Replay(y)]]
    BY <1>3 DEF FoundReplay, Goto
  <2>2. wagers[y].status \in Results
    BY DEF AllInv, BookInv, Books, RowsFit, Present, Results
  <2>3. tx[c] \in TxType /\ Replay(y).status = wagers[y].status
    BY <1>1 DEF Replay
  <2>4. tx'[c].txn = Nil /\ tx'[c].reply = Replay(y)
    BY <1>1, <2>1, <2>3 DEF TxType
  <2> QED BY <1>1, <2>1, <2>2, <2>3, <2>4 DEF CallShape, Replays
<1> QED BY <1>2, <1>3

\* The two searches.
LEMMA FindShape ==
  ASSUME AllInv, NEW c \in Calls, FindByIdempotencyKey(c) \/ FindByExternalID(c)
  PROVE  CallShape(c)
<1>1. ASSUME NEW y \in Calls, stage[c] \in {"findKey", "findExt"}, Present(y), FoundReplay(c, y),
             SameKey(Request[y], Request[c]) \/ SameExternalID(Request[y], Request[c])
      PROVE  CallShape(c)
  BY <1>1, FoundReplayShape DEF SameIdentity
<1>2. CASE FindByIdempotencyKey(c)
  <2>1. stage[c] = "findKey"
    BY <1>2 DEF FindByIdempotencyKey
  <2>2. CASE Goto(c, "findExt") /\ UNCHANGED <<store, lock, tx, answer>>
    BY <2>1, <2>2, SearchShape
  <2> QED BY <1>1, <1>2, <2>1, <2>2 DEF FindByIdempotencyKey
<1>3. CASE FindByExternalID(c)
  <2>1. stage[c] = "findExt"
    BY <1>3 DEF FindByExternalID
  <2>2. ASSUME FoundNothing(c), {x \in Calls : Present(x) /\ SameExternalID(Request[x], Request[c])} = {}
        PROVE  CallShape(c)
    <3>1. tx[c].pass \in {"first", "locked", "conflict"}
      BY <2>1, CallKnows DEF AllInv, TxType
    <3>2. tx[c].pass # "conflict"
      BY <2>1, <2>2 DEF AllInv, CallInv, CallFits, RivalFits
    <3>3. \E s \in {"wallet", "insert"} : Goto(c, s) /\ UNCHANGED <<store, lock, tx, answer>>
      BY <2>2, <3>1, <3>2 DEF FoundNothing
    <3> QED BY <2>1, <3>3, SearchShape
  <2> QED BY <1>1, <1>3, <2>1, <2>2 DEF FindByExternalID
<1> QED BY <1>2, <1>3

\* The lock of the wallet, and the refusal of one of somebody else.
LEMMA LockWalletShape ==
  ASSUME AllInv, NEW c \in Calls, LockWallet(c) \/ RefuseIdentity(c) PROVE CallShape(c)
<1>1. stage[c] \in {"wallet", "insert"} /\ tx[c] \in TxType /\ IInv
  BY CallKnows DEF AllInv, LockWallet, RefuseIdentity
<1>2. CASE Fail(c, "WalletNotFound") \/ RefuseIdentity(c)
  BY <1>1, <1>2, RefusalShape DEF CallErrors, RefuseIdentity
<1>3. CASE ~Fail(c, "WalletNotFound") /\ LockWallet(c)
  <2> DEFINE w == Request[c].wallet
             x == [tx[c] EXCEPT !.wallet = w, !.base = wallets[w], !.pass = "locked"]
  <2>1. tx' = [tx EXCEPT ![c] = x] /\ Goto(c, "findKey") /\ UNCHANGED <<store, answer>>
    BY <1>3 DEF LockWallet
  <2>2. w \in Openings /\ wallets[w] \in WalletType
    BY <1>1, RequestAssumption DEF IInv, TypeInv, TypeOK
  <2>3. x \in TxType /\ x.txn = tx[c].txn
    BY <1>1, <2>2 DEF TxType
  <2> HIDE DEF x
  <2> QED BY <1>1, <2>1, <2>3, SearchShape
<1> QED BY <1>2, <1>3

\* The row of its own is for the owner of the wallet only.
LEMMA InsertShape == ASSUME AllInv, NEW c \in Calls, Insert(c) PROVE CallShape(c)
<1>1. c \in Actors /\ stage \in [Actors -> Stages] /\ stage[c] = "insert"
  BY OthersApart DEF AllInv, Insert
<1>2. stage'[c] \in {"findKey", "decide"} /\ UNCHANGED <<store, answer>> /\ OwnsWallet(c)
  BY <1>1 DEF Insert, Goto
<1> QED BY <1>2 DEF CallShape, Advances

\* The decision, or the refusal of a movement that no wallet version is left for.
LEMMA DecideShape == ASSUME AllInv, NEW c \in Calls, Decide(c) PROVE CallShape(c)
<1> DEFINE w == Request[c].wallet
           d == ProcessWager(c, tx[c].base)
<1>1. /\ IInv /\ CallInv /\ BookInv /\ stage[c] = "decide" /\ c \in Actors /\ c \in Procs
      /\ stage \in [Actors -> Stages] /\ tx \in [Procs -> TxType] /\ tx[c].txn = c /\ tx[c] \in TxType
      /\ tx[c].base \in WalletType /\ c # Nil /\ ValidationError(Request[c]) = "" /\ w \in Openings
      /\ wallets[w] \in WalletType
  <2>1. IInv /\ CallInv /\ BookInv /\ stage[c] = "decide"
    BY DEF AllInv, Decide
  <2>2. /\ c \in Actors /\ c \in Procs /\ stage \in [Actors -> Stages] /\ tx \in [Procs -> TxType]
        /\ tx[c] \in TxType /\ c # Nil
    BY <2>1, OthersApart, NilApart
  <2>3. TypeOK /\ ValidationError(Request[c]) = "" /\ w \in Openings /\ tx[c].txn = c
    BY <2>1, CallFacts, CallState
  <2> QED BY <2>1, <2>2, <2>3 DEF TxType, TypeOK
<1>2. tx[c].base.version >= 1 /\ tx[c].wallet = w
  BY <1>1, CallColumns DEF BookInv, Works, WorkFits
<1>3. tx[c].base = wallets[w]
  <2>1. NoWallet.version = 0
    BY DEF NoWallet
  <2>2. tx[c].base # NoWallet
    BY <1>2, <2>1
  <2> QED BY <1>1, <1>2, <2>2 DEF IInv, LockInv
<1>4. CASE Fail(c, "InvalidWallet")
  <2>1. stage'[c] = "done"
    BY <1>1, <1>4, OthersApart DEF Fail, End, Rest
  <2>2. d.status = "NONE"
    <3>1. ~Goto(c, "commit")
      BY <1>1, <2>1 DEF Goto
    <3>2. [d EXCEPT !.due = TRUE].status = "NONE"
      BY <3>1 DEF Decide
    <3>3. d \in OutcomeType
      BY <1>1, ProcessWagerBounded DEF Bounded
    <3> QED BY <3>2, <3>3 DEF OutcomeType
  <2>3. Undecidable(c)
    <3>1. PICK base : base = tx[c].base
      OBVIOUS
    <3>2. ProcessWager(c, base).status = "NONE" /\ base.version >= 1
      BY <1>2, <2>2, <3>1
    <3>3. /\ base.version = MaxInt /\ Request[c].kind # "LOSS"
          /\ NeedsReference(Request[c]) =>
               \E x \in Calls : ReferenceFits(c, x)
                                /\ (IsReversal(Request[c].kind) => ~HasSuccessfulReversal(x))
      BY <1>1, <3>2, NoDecisionMeans
    <3> QED BY <1>3, <3>1, <3>3 DEF Undecidable
  <2>4. Unstored(c)
    BY <1>1 DEF IInv, UniqueInv, Unstored, Same, SameIdentity
  <2> QED BY <1>1, <1>4, <2>3, <2>4, RefusalShape DEF CallErrors
<1>5. CASE ~Fail(c, "InvalidWallet")
  <2> DEFINE o == [d EXCEPT !.due = TRUE]
             r == [error |-> Nil, txn |-> c, status |-> o.status, failure |-> o.failure,
                   balance |-> IF o.status = "PROCESSED" THEN o.after ELSE Nil, replay |-> FALSE]
             x == [tx[c] EXCEPT !.outcome = o, !.reply = r]
  <2>1. /\ o.status # "NONE" /\ stage' = [stage EXCEPT ![c] = "commit"]
        /\ tx' = [tx EXCEPT ![c].outcome = o, ![c].reply = r] /\ UNCHANGED <<store, answer>>
    BY <1>5 DEF Decide, Goto
  <2>2. d \in OutcomeType /\ Sound(c, tx[c].base, d)
    <3>1. Kind(c) # "OPENING"
      BY <1>1, CallColumns DEF ValidationError
    <3> QED BY <1>1, <3>1, ProcessWagerFits, ProcessWagerBounded DEF Bounded
  <2> HIDE DEF d
  <2>3. o.status = d.status
    BY <2>2 DEF OutcomeType
  <2>4. o.status \in Results /\ d.status # "NONE"
    BY <2>1, <2>2, <2>3 DEF Sound, DecisionFits, Results
  <2> HIDE DEF o
  <2>5. r.status = o.status
    OBVIOUS
  <2>6. tx' = [tx EXCEPT ![c] = x]
    BY <2>1
  <2> HIDE DEF r
  <2>7. x.txn = c /\ x.reply = r
    BY <1>1 DEF TxType
  <2>8. stage'[c] = "commit" /\ tx'[c] = x
    BY <1>1, <2>1, <2>6
  <2> HIDE DEF x
  <2>9. Decides(c)
    BY <1>1, <1>3, <2>1, <2>4, <2>5, <2>7, <2>8 DEF Decides, d
  <2> QED BY <2>9 DEF CallShape
<1> QED BY <1>4, <1>5

\* The end of its transaction.
LEMMA CommitShape ==
  ASSUME AllInv, NEW c \in Calls, Commit(c) \/ CommitLost(c) \/ Abort(c) PROVE CallShape(c)
<1>1. CASE Abort(c)
  BY <1>1, RefusalShape DEF Abort, CallErrors
<1>2. CASE Commit(c) /\ Refused(c)
  <2>1. PICK e \in Refusals(c) : Fail(c, e)
    BY <1>2 DEF Commit
  <2>2. e \in AllSafeguards
    BY DEF Refusals, Violated
  <2> QED BY <1>2, <2>1, <2>2, RefusalShape DEF Commit, Alarms
<1>3. CASE (Commit(c) /\ ~Refused(c)) \/ CommitLost(c)
  BY <1>3 DEF Commit, CommitLost, CallShape, Commits
<1> QED BY <1>1, <1>2, <1>3

\* Every step of a call is of one of these shapes.
LEMMA CallSteps == ASSUME AllInv, NEW c \in Calls, StepOf(c) PROVE CallShape(c)
<1>1. c \notin Openings /\ c \notin RefWorkers
  BY ProcessAssumption
<1> QED BY <1>1, BeginShape, RegisterShape, FindShape, LockWalletShape, InsertShape, DecideShape,
           CommitShape DEF StepOf, CallStep

-----------------------------------------------------------------------------
(* The reasons of a refusal stay.                                           *)

\* A call that is refused, or commits, has ended.
LEMMA CallEnds ==
  ASSUME AllInv, NEW c \in Calls, Refuses(c) \/ Commits(c)
  PROVE  stage'[c] = "done" /\ tx'[c].txn = Nil
<1>1. IInv /\ c \in Actors /\ NoTx.txn = Nil
  BY OthersApart DEF AllInv, NoTx
<1>2. \E r : End(c, r)
  BY DEF Refuses, Commits, Fail
<1> QED BY <1>1, <1>2, EndOfCall

\* Whoever is about to commit a row of its own was so before, or has just decided.
LEMMA CommitReached ==
  ASSUME AllInv, [Next]_vars, NEW c \in Calls, stage'[c] = "commit", tx'[c].txn = c
  PROVE  (stage[c] = "commit" /\ tx[c].txn = c) \/ Decides(c)
<1>1. IInv /\ c \in Actors /\ c \in Procs
  BY OthersApart DEF AllInv
<1>2. CASE UNCHANGED vars \/ \E t \in Calls : Tick(t)
  BY <1>2 DEF vars, Tick
<1>3. ASSUME NEW p \in Actors, p # c, StepOf(p) PROVE stage'[c] = stage[c] /\ tx'[c] = tx[c]
  BY <1>1, <1>3, OneSteps DEF OnlyIts
<1>4. CASE StepOf(c)
  <2>1. CallShape(c)
    BY <1>4, CallSteps
  <2>2. ~Advances(c) /\ ~Replays(c)
    BY DEF Advances, Replays
  <2>3. ~Refuses(c) /\ ~Commits(c)
    BY CallEnds
  <2> QED BY <2>1, <2>2, <2>3 DEF CallShape
<1> QED BY <1>2, <1>3, <1>4, SomebodySteps

\* A new row was about to be committed by its call.
LEMMA RowsAppear ==
  ASSUME AllInv, [Next]_vars, NEW c \in Calls, Present(c)', ~Present(c)
  PROVE  stage[c] = "commit" /\ tx[c].txn = c
<1>1. IInv /\ CallInv /\ BookInv /\ c \in Txns /\ c \notin Openings /\ wagers'[c] # wagers[c]
  BY CallColumns DEF AllInv, Present
<1>2. wagers[c].status # "PENDING_REFERENCE"
  BY DEF Present
<1>3. PICK p \in Procs : \E w, base, o : Committing(p, c, w, base, o) /\ Apply(p)
  BY <1>1, <1>2, RowSteps
<1>4. p = c
  BY <1>1, <1>3, RowBefore
<1> QED BY <1>3, <1>4 DEF Committing

\* Rows stay.
LEMMA RowsStay ==
  ASSUME AllInv, [Next]_vars, NEW c \in Calls, Present(c) PROVE Present(c)'
<1>1. IInv /\ CallInv /\ BookInv /\ c \in Txns /\ c \notin Openings /\ wagers[c] \in RowType
  BY CallColumns DEF AllInv, IInv, TypeInv, TypeOK
<1>2. CASE wagers'[c] = wagers[c] \/ wagers'[c] = [wagers[c] EXCEPT !.due = TRUE]
  BY <1>1, <1>2 DEF Present, RowType
<1>3. ASSUME NEW p \in Procs, NEW w, NEW base, NEW o, Committing(p, c, w, base, o), Apply(p)
      PROVE  Present(c)'
  <2>1. wagers'[c] = NewRow(p) /\ NewRow(p).status # "NONE"
    BY <1>1, <1>3, CommitWrites, RowWritten
  <2> QED BY <2>1 DEF Present
<1> QED BY <1>1, <1>2, <1>3, RowSteps

\* A processed operation stays processed.
LEMMA ProcessedStays ==
  ASSUME AllInv, [Next]_vars, NEW x \in Calls, wagers[x].status = "PROCESSED"
  PROVE  wagers'[x].status = "PROCESSED"
<1>1. IInv /\ CallInv /\ BookInv /\ x \in Txns /\ x \notin Openings
  BY CallColumns DEF AllInv
<1>2. ASSUME NEW p \in Procs, NEW w, NEW base, NEW o, Committing(p, x, w, base, o) PROVE FALSE
  BY <1>1, <1>2, RowBefore
<1> QED BY <1>1, <1>2, RowSteps

\* A wallet whose version cannot grow does not move.
LEMMA StuckWallet ==
  ASSUME AllInv, NEW p \in Procs, NEW t, NEW w, NEW base, NEW o, Committing(p, t, w, base, o),
         wallets[w].version = MaxInt
  PROVE  ~(o.status = "PROCESSED" /\ Kind(t) # "LOSS")
<1>1. base = wallets[w] /\ DecisionFits(t, base, o)
  BY CommitKnows DEF AllInv
<1> QED BY <1>1 DEF DecisionFits, Movable

\* So it stays as it is.
LEMMA StuckWalletStays ==
  ASSUME AllInv, [Next]_vars, NEW w \in Openings, wallets[w].version = MaxInt
  PROVE  wallets'[w] = wallets[w]
<1>1. IInv /\ CallInv /\ BookInv
  BY DEF AllInv
<1>2. CASE UNCHANGED store \/ \E t \in Calls : Tick(t)
  BY <1>2 DEF store, Tick
<1>3. ASSUME NEW o \in Openings, NEW r, OpenWrites(o, r) PROVE wallets'[w] = wallets[w]
  <2>1. wallets[o].version = 0 /\ wallets' = [wallets EXCEPT ![o] = OpeningWallet(o)]
    <3>1. stage[o] # "done"
      BY <1>3 DEF OpenWrites
    <3>2. wallets[o] = NoWallet
      BY <1>1, <3>1 DEF IInv, LockInv
    <3> QED BY <1>3, <3>2 DEF NoWallet, OpenWrites
  <2>2. o # w
    BY <2>1, MaxIntAssumption
  <2> QED BY <2>1, <2>2
<1>4. ASSUME NEW p \in Procs, stage[p] = "commit", Apply(p) PROVE wallets'[w] = wallets[w]
  <2>1. CASE tx[p].txn = Nil
    BY <1>4, <2>1 DEF Apply, Moves
  <2>2. CASE tx[p].txn # Nil
    <3>1. PICK t, v, base, o : Committing(p, t, v, base, o)
      BY <1>4, <2>2 DEF Committing
    <3>2. v # w => wallets'[w] = wallets[w]
      BY <1>1, <1>4, <3>1, CommitWrites
    <3>3. Moves(p) <=> o.status = "PROCESSED" /\ Kind(t) # "LOSS"
      BY <3>1 DEF Committing, Moves
    <3>4. v = w => ~Moves(p)
      BY <3>1, <3>3, StuckWallet
    <3>5. ~Moves(p) => wallets' = wallets
      BY <1>4 DEF Apply
    <3> QED BY <3>2, <3>4, <3>5
  <2> QED BY <2>1, <2>2
<1> QED BY <1>1, <1>2, <1>3, <1>4, StoreSteps

\* What lies on it is not reversed any more.
LEMMA StuckReversal ==
  ASSUME AllInv, [Next]_vars, NEW c \in Calls, NEW x, ReferenceFits(c, x),
         wallets[WalletOf(c)].version = MaxInt, ~HasSuccessfulReversal(x)
  PROVE  ~HasSuccessfulReversal(x)'
<1>1. IInv /\ CallInv /\ BookInv /\ WalletOf(x) = WalletOf(c) /\ x # Nil
  BY ReferenceMeans DEF AllInv
<1>2. ASSUME NEW y \in Calls, wagers'[y].status = "PROCESSED", IsReversal(Request[y].kind),
             wagers'[y].reference = x
      PROVE  FALSE
  <2>1. /\ y \in Txns /\ y \notin Openings /\ wagers[y] \in RowType /\ Kind(y) # "LOSS"
        /\ ~(wagers[y].status = "PROCESSED" /\ wagers[y].reference = x)
    BY <1>1, <1>2, CallColumns DEF IInv, TypeInv, TypeOK, IsReversal, HasSuccessfulReversal
  <2>2. wagers'[y] # wagers[y]
    BY <1>2, <2>1
  <2>3. ~(wagers[y].status = "PENDING_REFERENCE" /\ wagers'[y] = [wagers[y] EXCEPT !.due = TRUE])
    BY <1>2, <2>1 DEF RowType
  <2>4. PICK p \in Procs : \E w, base, o : Committing(p, y, w, base, o) /\ Apply(p)
    BY <2>1, <2>2, <2>3, RowSteps
  <2>5. PICK w, base, o : Committing(p, y, w, base, o) /\ Apply(p)
    BY <2>4
  <2>6. PICK row : row = wagers'[y]
    OBVIOUS
  <2>7. row.status = o.status /\ row.reference = o.reference
    BY <1>1, <2>5, <2>6, CommitWrites, RowWritten
  <2>8. w = WalletOf(y) /\ DecisionFits(y, base, o)
    BY <1>1, <2>5, CommitKnows
  <2>9. ReferenceFits(y, x)
    BY <1>1, <1>2, <2>6, <2>7, <2>8 DEF DecisionFits
  <2>10. w = WalletOf(c)
    BY <1>1, <2>8, <2>9, ReferenceMeans
  <2> QED BY <1>2, <2>1, <2>5, <2>6, <2>7, <2>10, StuckWallet
<1> QED BY <1>2 DEF HasSuccessfulReversal

\* An operation that cannot be decided, and that nobody has stored, remains so.
LEMMA StuckStays ==
  ASSUME AllInv, [Next]_vars, NEW c \in Calls, Undecidable(c), Unstored(c)
  PROVE  Undecidable(c)' /\ Unstored(c)'
<1> DEFINE w == Request[c].wallet
<1>1. IInv /\ w \in Openings /\ WalletOf(c) = w /\ wallets[w].version = MaxInt
  BY RequestAssumption, CallColumns DEF AllInv, Undecidable
<1>2. wallets'[w].version = MaxInt
  BY <1>1, StuckWalletStays
<1>3. ASSUME NEW x \in Calls, ReferenceFits(c, x), IsReversal(Request[c].kind) => ~HasSuccessfulReversal(x)
      PROVE  ReferenceFits(c, x)' /\ (IsReversal(Request[c].kind) => ~HasSuccessfulReversal(x)')
  <2>1. wagers'[x].status = wagers[x].status
    BY <1>3, ReferenceMeans, ProcessedStays
  <2>2. ReferenceFits(c, x)'
    BY <1>3, <2>1 DEF ReferenceFits
  <2> QED BY <1>1, <1>3, <2>2, StuckReversal
<1>4. Undecidable(c)'
  BY <1>2, <1>3 DEF Undecidable
<1>5. ASSUME NEW t \in Calls, Same(t, c) PROVE ~Present(t)' /\ ~(stage'[t] = "commit" /\ tx'[t].txn = t)
  <2>1. ~Present(t) /\ ~(stage[t] = "commit" /\ tx[t].txn = t)
    BY <1>5 DEF Unstored
  <2>2. ~Present(t)'
    BY <2>1, RowsAppear
  <2>3. ASSUME Decides(t) PROVE FALSE
    <3>1. PICK base : base = tx[t].base
      OBVIOUS
    <3>2. /\ tx[t].txn = t /\ ProcessWager(t, base).status # "NONE"
          /\ base = wallets[Request[t].wallet]
      BY <2>3, <3>1 DEF Decides
    <3>3. base.version = MaxInt
      BY <1>1, <1>5, <3>2, SameMeans
    <3> QED BY <1>1, <1>5, <3>2, <3>3, NoDecisionForAny
  <2> QED BY <2>1, <2>2, <2>3, CommitReached
<1>6. Unstored(c)'
  BY <1>5 DEF Unstored, Same
<1> QED BY <1>4, <1>6

\* The one who has taken its key or its external id keeps it.
LEMMA RivalledStays ==
  ASSUME AllInv, [Next]_vars, NEW c \in Calls, Rivalled(c) PROVE Rivalled(c)'
<1>1. PICK x \in Calls : Present(x) /\ SameIdentity(Request[x], Request[c]) /\ ~Same(x, c)
  BY DEF Rivalled
<1>2. Present(x)'
  BY <1>1, RowsStay
<1> QED BY <1>1, <1>2 DEF Rivalled, Same

\* So whatever a call was refused for, it is still there.
LEMMA BecauseStays ==
  ASSUME AllInv, [Next]_vars, NEW c \in Calls, NEW e, Because(c, e) PROVE Because(c, e)'
<1>1. Rivalled(c) => Rivalled(c)'
  BY RivalledStays
<1>2. Undecidable(c) /\ Unstored(c) => Undecidable(c)' /\ Unstored(c)'
  BY StuckStays
<1> QED BY <1>1, <1>2 DEF Because, OwnsWallet

-----------------------------------------------------------------------------
(* What the calls were told.                                                *)

\* A step that ends a call with a reply or a refusal that CallTold allows, or goes on.
LEMMA CallStepTold ==
  ASSUME AllInv, HttpInv, [Next]_vars, NEW c \in Calls, CallShape(c)
  PROVE  CallTold(c, stage[c], tx[c], answer[c])'
<1>1. IInv /\ CallInv /\ BookInv /\ c \in Actors /\ c # Nil /\ NoTx.txn = Nil
  BY OthersApart, NilApart DEF AllInv, NoTx
<1>2. PICK s, x, a : s = stage'[c] /\ x = tx'[c] /\ a = answer'[c]
  OBVIOUS
<1>3. CallTold(c, stage[c], tx[c], answer[c])
  BY DEF HttpInv, CallsTold
<1>4. /\ Present(c)' \/ x.txn = c => OwnsWallet(c)
      /\ s = "commit" => x.reply.status \in Results
      /\ s = "done" /\ a.error = Nil =>
           ValidationError(Request[c]) = "" /\ a.txn # Nil /\ a.status \in Results
      /\ s = "done" /\ a.error # Nil => Because(c, a.error)'
  <2>1. CASE Advances(c)
    BY <1>2, <1>3, <2>1 DEF Advances, CallTold, store, Present
  <2>2. CASE Replays(c)
    BY <1>2, <1>3, <2>2 DEF Replays, CallTold, store, Present
  <2>3. CASE Decides(c)
    BY <1>2, <1>3, <2>3 DEF Decides, CallTold, store, Present
  <2>4. CASE Refuses(c)
    <3>1. PICK e : e # Nil /\ Fail(c, e) /\ Because(c, e)
      BY <2>4 DEF Refuses
    <3>2. s = "done" /\ x = NoTx /\ a = ErrorReply(e) /\ wagers' = wagers
      BY <1>1, <1>2, <3>1, EndOfCall DEF Fail, store
    <3>3. a.error = e
      BY <3>2 DEF ErrorReply, NoReply
    <3>4. Because(c, e)'
      BY <3>1, BecauseStays
    <3>5. Because(c, a.error)'
      BY <1>2, <3>3, <3>4
    <3> QED BY <1>1, <1>3, <3>1, <3>2, <3>3, <3>5 DEF CallTold, Present
  <2>5. CASE Commits(c)
    <3>1. PICK r : r \in {tx[c].reply, ErrorReply("Unavailable")} /\ End(c, r)
      BY <2>5 DEF Commits
    <3>2. s = "done" /\ x = NoTx /\ a = r
      BY <1>1, <1>2, <3>1, EndOfCall
    <3>3. stage[c] = "commit" /\ ValidationError(Request[c]) = ""
      BY <1>1, <2>5, CallFacts DEF Commits
    <3>4. Present(c)' => OwnsWallet(c)
      BY <1>3, RowsAppear DEF CallTold
    <3>5. CASE r = tx[c].reply
      <4>1. r.error = Nil /\ r.txn \in Calls
        BY <1>1, <3>3, <3>5 DEF CallInv, CallFits, ReplyFits
      <4>2. r.status \in Results
        BY <1>3, <3>3, <3>5 DEF CallTold
      <4> QED BY <1>1, <3>2, <3>3, <3>4, <4>1, <4>2, NilApart
    <3>6. CASE r = ErrorReply("Unavailable")
      <4>1. r.error = "Unavailable" /\ "Unavailable" # Nil
        BY <3>6, ErrorAssumption DEF ErrorReply, NoReply, CallErrors
      <4>2. Because(c, "Unavailable")'
        BY <3>3 DEF Because
      <4>3. Because(c, a.error)'
        BY <1>2, <3>2, <4>1, <4>2
      <4> QED BY <1>1, <3>2, <3>4, <4>1, <4>3
    <3> QED BY <3>1, <3>5, <3>6
  <2> QED BY <2>1, <2>2, <2>3, <2>4, <2>5 DEF CallShape
<1> QED BY <1>2, <1>4 DEF CallTold, OwnsWallet

\* What a call was told stays so while others move.
LEMMA CallKeepsTold ==
  ASSUME AllInv, HttpInv, [Next]_vars, NEW c \in Calls,
         stage'[c] = stage[c], tx'[c] = tx[c], answer'[c] = answer[c]
  PROVE  CallTold(c, stage[c], tx[c], answer[c])'
<1>1. CallTold(c, stage[c], tx[c], answer[c])
  BY DEF HttpInv, CallsTold
<1>2. Present(c)' \/ tx[c].txn = c => OwnsWallet(c)
  BY <1>1, RowsAppear DEF CallTold
<1>3. PICK e : e = answer[c].error
  OBVIOUS
<1>4. stage[c] = "done" /\ e # Nil => Because(c, e)'
  BY <1>1, <1>3, BecauseStays DEF CallTold
<1>5. stage[c] = "done" /\ e # Nil => Because(c, answer[c].error)'
  BY <1>3, <1>4
<1> QED BY <1>1, <1>2, <1>3, <1>5 DEF CallTold, OwnsWallet

\* Either way, what the calls were told is so after every step.
LEMMA StepCalls == ASSUME AllInv, HttpInv, [Next]_vars PROVE CallsTold'
<1>1. IInv
  BY DEF AllInv
<1>2. ASSUME NEW c \in Calls PROVE CallTold(c, stage[c], tx[c], answer[c])'
  <2>1. c \in Actors /\ c \in Procs
    BY <1>1, OthersApart
  <2>2. CASE UNCHANGED vars \/ \E t \in Calls : Tick(t)
    BY <2>2, CallKeepsTold DEF vars, Tick
  <2>3. ASSUME NEW p \in Actors, p # c, StepOf(p) PROVE CallTold(c, stage[c], tx[c], answer[c])'
    BY <1>1, <2>1, <2>3, OneSteps, CallKeepsTold DEF OnlyIts
  <2>4. CASE StepOf(c)
    BY <2>4, CallSteps, CallStepTold
  <2> QED BY <2>2, <2>3, <2>4, SomebodySteps
<1> QED BY <1>2 DEF CallsTold

\* In the beginning nobody was told anything.
LEMMA InitHttp == ASSUME Init PROVE HttpInv
<1>1. /\ \A o \in Openings : /\ wallets[o] = IF o \in Opened THEN OpeningWallet(o) ELSE NoWallet
                             /\ stage[o] = IF o \in Opened THEN "done" ELSE "idle"
  BY DEF Init, Actors
<1>2. \A o \in Openings : Held(o) => o \in Opened
  BY <1>1 DEF Held, NoWallet
<1>3. OwnersApart
  BY <1>2, OpeningAssumption DEF OwnersApart
<1>4. OpeningsTold
  BY <1>1 DEF OpeningsTold
<1>5. ASSUME NEW c \in Calls PROVE CallTold(c, stage[c], tx[c], answer[c])
  <2>1. c \in Txns /\ c \in Actors /\ c \in Procs /\ c \notin Opened /\ c # Nil
    BY CallColumns, OpeningAssumption DEF Txns, Actors, Procs
  <2>2. wagers[c] = NoRow /\ stage[c] = "idle" /\ tx[c] = NoTx
    BY <2>1 DEF Init
  <2>3. ~Present(c) /\ tx[c].txn # c
    BY <2>1, <2>2 DEF Present, NoRow, NoTx
  <2> QED BY <2>2, <2>3 DEF CallTold
<1> QED BY <1>3, <1>4, <1>5 DEF HttpInv, CallsTold

\* At every point, owners have one wallet, results are those of rows, and every refusal
\* has a reason that is there for good.
THEOREM HttpInvariance == Spec => [](AllInv /\ HttpInv)
<1>1. Init => HttpInv
  BY InitHttp
<1>2. AllInv /\ HttpInv /\ [Next]_vars => HttpInv'
  BY StepOpenings, StepCalls DEF HttpInv
<1> QED BY <1>1, <1>2, BookInvariance, PTL DEF Spec

\* A player has one wallet per currency, whatever openings race; 201 is answered by the
\* one that is there and 409 only where another one is (OpenWallet, uq_wallet_player_currency).
THEOREM OneWalletEach == Spec => []OneWalletPerOwner
<1>1. ASSUME HttpInv PROVE OneWalletPerOwner
  <2>1. ASSUME NEW v \in Openings, NEW w \in Openings, wallets[v].version > 0, wallets[w].version > 0,
               SameOwner(v, w)
        PROVE  v = w
    BY <1>1, <2>1 DEF HttpInv, OwnersApart, Held
  <2>2. ASSUME NEW w \in Openings, Answered(w)
        PROVE  /\ OpenStatus(answer[w]) = 201 => wallets[w].version > 0
               /\ OpenStatus(answer[w]) = 409 =>
                    \E v \in Openings \ {w} : wallets[v].version > 0 /\ SameOwner(v, w)
    <3>1. PICK a : a = answer[w]
      OBVIOUS
    <3>2. OpeningTold(w, a)
      BY <1>1, <2>2, <3>1 DEF HttpInv, OpeningsTold, Answered
    <3>3. /\ ErrorStatus("InvalidWallet") = 400 /\ ErrorStatus("WalletConflict") = 409
          /\ ErrorStatus("Unavailable") = 503
      BY DEF ErrorStatus, BadRequests
    <3>4. a.error # Nil => OpenStatus(a) = ErrorStatus(a.error)
      BY DEF OpenStatus
    <3>5. OpenStatus(a) = 201 => a.error = Nil
      BY <3>2, <3>3, <3>4 DEF OpeningTold
    <3>6. OpenStatus(a) = 409 => a.error = "WalletConflict"
      <4>1. a.error = Nil => OpenStatus(a) = 201
        BY DEF OpenStatus
      <4> QED BY <3>2, <3>3, <3>4, <4>1 DEF OpeningTold
    <3> QED BY <3>1, <3>2, <3>5, <3>6 DEF OpeningTold
  <2> QED BY <2>1, <2>2 DEF OneWalletPerOwner
<1> QED BY <1>1, HttpInvariance, PTL

-----------------------------------------------------------------------------
(* One verdict.                                                             *)

\* The reasons of a refusal that is none of 202, 404 and 503.
ForGood(c, e) ==
  \/ ValidationError(Request[c]) # ""
  \/ e = "IdempotencyConflict" /\ Rivalled(c)
  \/ e = "WalletIdentityMismatch" /\ ~OwnsWallet(c)
  \/ e = "InvalidWallet" /\ Unstored(c)

\* What the status v of answer a to call d says.
Verdict(d, a, v) ==
  /\ a.error = Nil => /\ ValidationError(Request[d]) = "" /\ a.txn # Nil
                      /\ (v = 200 /\ a.status = "PROCESSED") \/ (v = 422 /\ a.status = "REJECTED")
  /\ a.error # Nil => v \in {400, 403, 409} /\ ForGood(d, a.error)

\* An answered HTTP call has such a status, unless it is to come again.
LEMMA VerdictMeans ==
  ASSUME AllInv, HttpInv, NEW d \in HttpCalls, Answered(d), NEW a, a = answer[d],
         NEW v, v = WagerStatus(a), v \notin {202, 404, 503}
  PROVE  Verdict(d, a, v)
<1>1. d \in Calls /\ d \in Actors /\ Request[d].msg = Nil /\ stage[d] = "done" /\ a.error \notin Alarms
  <2>1. d \in Calls /\ Request[d].msg = Nil /\ stage[d] = "done"
    BY DEF HttpCalls, Answered
  <2>2. d \in Actors
    BY <2>1 DEF Actors, Procs
  <2> QED BY <2>1, <2>2 DEF AllInv, BookInv, NoAlarm
<1>2. CallTold(d, "done", tx[d], a)
  BY <1>1 DEF HttpInv, CallsTold
<1>3. CASE a.error = Nil
  <2>1. ValidationError(Request[d]) = "" /\ a.txn # Nil /\ a.status \in Results
    BY <1>2, <1>3 DEF CallTold
  <2>2. \/ a.status = "PENDING_REFERENCE" /\ v = 202
        \/ a.status = "PROCESSED" /\ v = 200
        \/ a.status = "REJECTED" /\ v = 422
    <3>1. CASE a.status = "PENDING_REFERENCE"
      BY <1>3, <3>1 DEF WagerStatus
    <3>2. CASE a.status = "PROCESSED"
      BY <1>3, <3>2 DEF WagerStatus
    <3>3. CASE a.status = "REJECTED"
      BY <1>3, <3>3 DEF WagerStatus
    <3> QED BY <2>1, <3>1, <3>2, <3>3 DEF Results
  <2> QED BY <1>3, <2>1, <2>2 DEF Verdict
<1>4. CASE a.error # Nil
  <2>1. Because(d, a.error) /\ v = ErrorStatus(a.error)
    BY <1>2, <1>4 DEF CallTold, WagerStatus
  <2>2. /\ ErrorStatus("ProviderNotAuthorized") = 403
        /\ \A e \in BadRequests : ErrorStatus(e) = 400
        /\ ErrorStatus("IdempotencyConflict") = 409
        /\ ErrorStatus("WalletNotFound") = 404 /\ ErrorStatus("Unavailable") = 503
    BY DEF ErrorStatus, BadRequests
  <2>3. CASE ValidationError(Request[d]) # ""
    <3>1. a.error \in BadRequests \cup {"ProviderNotAuthorized"}
      BY <2>1, <2>3 DEF Because, ValidationError, BadRequests
    <3>2. ErrorStatus(a.error) \in {400, 403, 409}
      BY <2>2, <3>1
    <3>3. v \in {400, 403, 409}
      BY <2>1, <3>2
    <3>4. ForGood(d, a.error)
      BY <2>3 DEF ForGood
    <3> QED BY <1>4, <3>3, <3>4, Zenon DEF Verdict
  <2>4. CASE ValidationError(Request[d]) = ""
    <3>1. a.error \notin {"WalletNotFound", "Unavailable"}
      BY <2>1, <2>2
    <3>2. /\ ForGood(d, a.error)
          /\ a.error \in {"IdempotencyConflict", "WalletIdentityMismatch", "InvalidWallet"}
      BY <1>1, <2>1, <2>4, <3>1 DEF Because, ForGood
    <3>3. ErrorStatus(a.error) \in {400, 403, 409}
      BY <2>2, <3>2 DEF BadRequests
    <3>4. v \in {400, 403, 409} /\ ForGood(d, a.error)
      BY <2>1, <3>2, <3>3
    <3> QED BY <1>4, <3>4, Zenon DEF Verdict
  <2> QED BY <2>3, <2>4
<1> QED BY <1>3, <1>4

\* Two results of equal requests are those of one row.
LEMMA OneResult ==
  ASSUME IInv, BookInv, NEW d \in Calls, NEW e \in Calls, Request[d] = Request[e],
         NEW a, a = answer[d], NEW b, b = answer[e], a.txn # Nil, b.txn # Nil,
         IsTerminal(a.status), IsTerminal(b.status)
  PROVE  a.status = b.status
<1>1. a.txn \in Calls /\ b.txn \in Calls
  BY OthersApart DEF ReplyType, Actors
<1>2. /\ Present(a.txn) /\ SameKey(Request[a.txn], Request[d]) /\ a.status = wagers[a.txn].status
      /\ Present(b.txn) /\ SameKey(Request[b.txn], Request[e]) /\ b.status = wagers[b.txn].status
  BY DEF BookInv, AnswersAgree
<1>3. a.txn = b.txn
  BY <1>1, <1>2 DEF IInv, UniqueInv, OneRowPerIdentity, SameIdentity, SameKey
<1> QED BY <1>2, <1>3

\* A request that has a result has no reason to be refused.
LEMMA ResultOrRefusal ==
  ASSUME AllInv, HttpInv, NEW d \in Calls, NEW e \in Calls, Request[d] = Request[e],
         NEW a, a = answer[d], a.txn # Nil, ValidationError(Request[d]) = "", NEW r, ForGood(e, r)
  PROVE  FALSE
<1>1. IInv /\ BookInv
  BY DEF AllInv
<1>2. PICK t : t = a.txn
  OBVIOUS
<1>3. t \in Calls /\ Present(t) /\ Same(t, e)
  <2>1. t \in Calls
    BY <1>1, <1>2, OthersApart DEF ReplyType, Actors
  <2>2. Present(t) /\ SameKey(Request[t], Request[d]) /\ PayloadHash(Request[t]) = PayloadHash(Request[d])
    BY <1>1, <1>2 DEF BookInv, AnswersAgree
  <2> QED BY <2>1, <2>2 DEF Same
<1>4. ~Rivalled(e)
  <2>1. ASSUME NEW x \in Calls, Present(x), SameIdentity(Request[x], Request[e]), ~Same(x, e)
        PROVE  FALSE
    <3>1. SameIdentity(Request[x], Request[t])
      BY <1>3, <2>1, SameMeans DEF SameIdentity, SameKey, SameExternalID
    <3>2. x = t
      BY <1>1, <1>3, <2>1, <3>1 DEF IInv, UniqueInv, OneRowPerIdentity
    <3> QED BY <1>3, <2>1, <3>2
  <2> QED BY <2>1 DEF Rivalled
<1>5. OwnsWallet(e)
  <2>1. OwnsWallet(t)
    BY <1>3 DEF HttpInv, CallsTold, CallTold
  <2> QED BY <1>3, <2>1, SameMeans DEF OwnsWallet
<1>6. ~Unstored(e)
  BY <1>3 DEF Unstored
<1> QED BY <1>4, <1>5, <1>6 DEF ForGood

\* However often and concurrently a request is repeated over HTTP, it is carried out or
\* refused and never both, and never answered 500 (createWager, errorResponse): besides 202,
\* 503 and 404 for a wallet that is not there yet, it has one verdict.
THEOREM OneVerdictHolds == Spec => []OneVerdict
<1>1. ASSUME AllInv, HttpInv PROVE OneVerdict
  <2>1. IInv /\ BookInv
    BY <1>1 DEF AllInv
  <2>2. ASSUME NEW c \in HttpCalls,
               NEW d \in HttpCalls, Answered(d), Request[d] = Request[c], NEW v,
               v = WagerStatus(answer[d]), v \notin {202, 404, 503},
               NEW e \in HttpCalls, Answered(e), Request[e] = Request[c], NEW u,
               u = WagerStatus(answer[e]), u \notin {202, 404, 503}
        PROVE  \/ v = 200 /\ u = 200
               \/ v = 422 /\ u = 422
               \/ v \in {400, 403, 409} /\ u \in {400, 403, 409}
    <3>1. d \in Calls /\ e \in Calls /\ Request[d] = Request[e] /\ Request[e] = Request[d]
      BY <2>2 DEF HttpCalls
    <3>2. PICK a, b : a = answer[d] /\ b = answer[e]
      OBVIOUS
    <3>3. Verdict(d, a, v)
      BY <1>1, <2>2, <3>2, VerdictMeans
    <3>4. Verdict(e, b, u)
      BY <1>1, <2>2, <3>2, VerdictMeans
    <3>5. CASE a.error = Nil /\ b.error = Nil
      <4>1. /\ a.txn # Nil
            /\ (v = 200 /\ a.status = "PROCESSED") \/ (v = 422 /\ a.status = "REJECTED")
            /\ b.txn # Nil
            /\ (u = 200 /\ b.status = "PROCESSED") \/ (u = 422 /\ b.status = "REJECTED")
        BY <3>3, <3>4, <3>5 DEF Verdict
      <4>2. IsTerminal(a.status) /\ IsTerminal(b.status)
        BY <4>1 DEF IsTerminal
      <4>3. a.status = b.status
        <5>1. a.txn # Nil /\ b.txn # Nil
          BY <4>1
        <5> QED BY <2>1, <3>1, <3>2, <4>2, <5>1, OneResult
      <4> QED BY <4>1, <4>3
    <3>6. CASE a.error = Nil /\ b.error # Nil
      <4>1. a.txn # Nil /\ ValidationError(Request[d]) = "" /\ ForGood(e, b.error)
        BY <3>3, <3>4, <3>6 DEF Verdict
      <4> QED BY <1>1, <3>1, <3>2, <4>1, ResultOrRefusal
    <3>7. CASE a.error # Nil /\ b.error = Nil
      <4>1. b.txn # Nil /\ ValidationError(Request[e]) = "" /\ ForGood(d, a.error)
        BY <3>3, <3>4, <3>7 DEF Verdict
      <4> QED BY <1>1, <3>1, <3>2, <4>1, ResultOrRefusal
    <3>8. CASE a.error # Nil /\ b.error # Nil
      BY <3>3, <3>4, <3>8 DEF Verdict
    <3> QED BY <3>5, <3>6, <3>7, <3>8
  <2>3. ASSUME NEW c \in HttpCalls
        PROVE  LET verdicts == Responses(c) \ {202, 404, 503}
               IN \/ verdicts \subseteq {200} \/ verdicts \subseteq {422}
                  \/ verdicts \subseteq {400, 403, 409}
    <3> DEFINE verdicts == Responses(c) \ {202, 404, 503}
    <3>1. ASSUME NEW v \in verdicts, NEW u \in verdicts
          PROVE  \/ v = 200 /\ u = 200
                 \/ v = 422 /\ u = 422
                 \/ v \in {400, 403, 409} /\ u \in {400, 403, 409}
      <4>1. PICK d \in HttpCalls : Answered(d) /\ Request[d] = Request[c] /\ v = WagerStatus(answer[d])
        BY <3>1 DEF Responses
      <4>2. PICK e \in HttpCalls : Answered(e) /\ Request[e] = Request[c] /\ u = WagerStatus(answer[e])
        BY <3>1 DEF Responses
      <4> QED BY <2>2, <2>3, <3>1, <4>1, <4>2
    <3> HIDE DEF verdicts
    <3>2. verdicts \subseteq {200} \/ verdicts \subseteq {422} \/ verdicts \subseteq {400, 403, 409}
      BY <3>1
    <3> QED BY <3>2 DEF verdicts
  <2> QED BY <2>3 DEF OneVerdict
<1> QED BY <1>1, HttpInvariance, PTL
=============================================================================
