---------------------------- MODULE QueryProofs ----------------------------
(***************************************************************************)
(* The pages of a ledger list nothing twice and leave nothing out, they    *)
(* are the ledger of one moment where the clocks agree, and reconciliation *)
(* raises no false alarm: for any number of movements, instances, page     *)
(* sizes and clocks.                                                       *)
(*                                                                         *)
(* The order of the rows is total, since ids are unique; so the position   *)
(* of a row is the number of rows before it, and a page is what has the    *)
(* lowest positions below the cursor.  The balance after a movement        *)
(* numbers the entries; the time of a movement is taken under the lock and *)
(* before its commit, so where the clocks agree both orders are the same.  *)
(***************************************************************************)
EXTENDS WalletQueries, SequenceTheorems, FiniteSetTheorems, TLAPS

-----------------------------------------------------------------------------
(* Rows and their positions.                                                *)

\* Rows that can be told apart by their ids.
Rows(S) ==
  /\ IsFiniteSet(S)
  /\ \A e \in S : e.at \in Int /\ e.id \in Int
  /\ \A e, f \in S : e.id = f.id => e = f

\* The rows before e.
Newer(S, e) == {f \in S : NewerFirst(f, e)}

\* A row that comes before another one has fewer rows before it.
LEMMA RankGrows ==
  ASSUME NEW S, Rows(S), NEW e \in S, NEW f \in S, NewerFirst(e, f)
  PROVE  Cardinality(Newer(S, e)) < Cardinality(Newer(S, f))
<1>1. IsFiniteSet(Newer(S, e)) /\ IsFiniteSet(Newer(S, f))
  BY FS_Subset DEF Rows, Newer
<1>2. Newer(S, e) \in SUBSET Newer(S, f)
  BY DEF Rows, Newer, NewerFirst
<1>3. e \in Newer(S, f) /\ e \notin Newer(S, e)
  BY DEF Rows, Newer, NewerFirst
<1>4. /\ Cardinality(Newer(S, e)) <= Cardinality(Newer(S, f))
      /\ Cardinality(Newer(S, f)) # Cardinality(Newer(S, e))
  BY <1>1, <1>2, <1>3, FS_Subset
<1> QED BY <1>1, <1>4, FS_CardinalityType

\* Each number below that of the rows is the position of exactly one row.
LEMMA Ranks ==
  ASSUME NEW S, Rows(S)
  PROVE  /\ Cardinality(S) \in Nat
         /\ \A e \in S : Cardinality(Newer(S, e)) \in 0 .. Cardinality(S) - 1
         /\ \A e, f \in S : Cardinality(Newer(S, e)) = Cardinality(Newer(S, f)) => e = f
         /\ \A k \in 1 .. Cardinality(S) : \E e \in S : Cardinality(Newer(S, e)) = k - 1
<1> DEFINE m == Cardinality(S)
           rank == [e \in S |-> Cardinality(Newer(S, e))]
<1>1. m \in Nat /\ IsFiniteSet(S)
  BY FS_CardinalityType DEF Rows
<1>2. ASSUME NEW e \in S PROVE Cardinality(Newer(S, e)) \in 0 .. m - 1
  <2>1. IsFiniteSet(S \ {e}) /\ Cardinality(S \ {e}) = m - 1
    BY <1>1, FS_RemoveElement
  <2>2. Newer(S, e) \in SUBSET (S \ {e})
    BY DEF Rows, Newer, NewerFirst
  <2>3. IsFiniteSet(Newer(S, e)) /\ Cardinality(Newer(S, e)) <= Cardinality(S \ {e})
    BY <2>1, <2>2, FS_Subset
  <2>4. Cardinality(Newer(S, e)) \in Nat
    BY <2>3, FS_CardinalityType
  <2> QED BY <1>1, <2>1, <2>3, <2>4
<1>3. ASSUME NEW e \in S, NEW f \in S, e # f
      PROVE  Cardinality(Newer(S, e)) # Cardinality(Newer(S, f))
  <2>1. NewerFirst(e, f) \/ NewerFirst(f, e)
    BY <1>3 DEF Rows, NewerFirst
  <2>2. Cardinality(Newer(S, e)) \in Int /\ Cardinality(Newer(S, f)) \in Int
    BY <1>2
  <2> QED BY <2>1, <2>2, RankGrows
<1>4. IsFiniteSet(0 .. m - 1) /\ Cardinality(0 .. m - 1) = m
  <2>1. 0 \in Int /\ m - 1 \in Int
    BY <1>1
  <2>2. IsFiniteSet(0 .. m - 1) /\ Cardinality(0 .. m - 1) = IF 0 > m - 1 THEN 0 ELSE m - 1 - 0 + 1
    BY <2>1, FS_Interval
  <2> HIDE DEF m
  <2> QED BY <1>1, <2>2
<1>5. rank \in Injection(S, 0 .. m - 1)
  BY <1>2, <1>3 DEF Injection, IsInjective
<1>6. rank \in Surjection(S, 0 .. m - 1)
  <2>1. Cardinality(S) = Cardinality(0 .. m - 1)
    BY <1>4
  <2> HIDE DEF rank
  <2> QED BY <1>4, <1>5, <2>1, FS_Injection
<1>7. ASSUME NEW k \in 1 .. m PROVE \E e \in S : Cardinality(Newer(S, e)) = k - 1
  <2>1. k - 1 \in 0 .. m - 1
    BY <1>1
  <2>2. \A y \in 0 .. m - 1 : \E e \in S : rank[e] = y
    BY <1>6 DEF Surjection
  <2> QED BY <2>1, <2>2
<1> QED BY <1>1, <1>2, <1>3, <1>7

\* A page of n rows: they come in their order, each once, and the others come after them.
LEMMA PageOfRows ==
  ASSUME NEW S, Rows(S), NEW n \in Nat
  PROVE  /\ Newest(S, n) \in Seq(S)
         /\ n <= Cardinality(S) => Len(Newest(S, n)) = n
         /\ n >= Cardinality(S) => Len(Newest(S, n)) = Cardinality(S)
         /\ \A k \in 1 .. Len(Newest(S, n)) : Cardinality(Newer(S, Newest(S, n)[k])) = k - 1
         /\ \A j, k \in 1 .. Len(Newest(S, n)) : j < k => NewerFirst(Newest(S, n)[j], Newest(S, n)[k])
         /\ \A e \in S : \/ \E k \in 1 .. Len(Newest(S, n)) : Newest(S, n)[k] = e
                         \/ \A k \in 1 .. Len(Newest(S, n)) : NewerFirst(Newest(S, n)[k], e)
         /\ n >= Cardinality(S) => \A e \in S : \E k \in 1 .. Len(Newest(S, n)) : Newest(S, n)[k] = e
<1> DEFINE m == Cardinality(S)
           l == Min({n, m})
           rank(e) == Cardinality(Newer(S, e))
           rows == Newest(S, n)
<1>1. /\ m \in Nat /\ \A e \in S : rank(e) \in 0 .. m - 1
      /\ \A e, f \in S : rank(e) = rank(f) => e = f
      /\ \A k \in 1 .. m : \E e \in S : rank(e) = k - 1
  BY Ranks
<1>2. l \in Nat /\ (n <= m => l = n) /\ (n >= m => l = m)
  <2>1. \E x \in {n, m} : \A y \in {n, m} : x <= y
    BY <1>1
  <2>2. l \in {n, m} /\ \A y \in {n, m} : l <= y
    <3> HIDE DEF m
    <3> QED BY <2>1 DEF Min
  <2> HIDE DEF l, m
  <2> QED BY <1>1, <2>2
<1>3. rows = [k \in 1 .. l |-> CHOOSE e \in S : rank(e) = k - 1]
  BY DEF Newest, Newer
<1>4. l <= m
  <2> HIDE DEF l, m
  <2> QED BY <1>1, <1>2
<1> HIDE DEF l, m, rank, rows
<1>5. ASSUME NEW k \in 1 .. l PROVE rows[k] \in S /\ rank(rows[k]) = k - 1
  <2>1. \E e \in S : rank(e) = k - 1
    BY <1>1, <1>2, <1>4
  <2>2. rows[k] = CHOOSE e \in S : rank(e) = k - 1
    BY <1>3
  <2> QED BY <2>1, <2>2
<1>6. rows \in Seq(S) /\ Len(rows) = l
  BY <1>2, <1>3, <1>5
<1>7. ASSUME NEW e \in S, NEW f \in S, rank(e) < rank(f) PROVE NewerFirst(e, f)
  <2>1. e # f /\ rank(e) \in Int /\ rank(f) \in Int
    BY <1>1, <1>7
  <2>2. NewerFirst(e, f) \/ NewerFirst(f, e)
    BY <2>1 DEF Rows, NewerFirst
  <2>3. NewerFirst(f, e) => rank(f) < rank(e)
    BY RankGrows DEF rank
  <2> QED BY <1>7, <2>1, <2>2, <2>3
<1>8. \A j, k \in 1 .. l : j < k => NewerFirst(rows[j], rows[k])
  <2> SUFFICES ASSUME NEW j \in 1 .. l, NEW k \in 1 .. l, j < k PROVE NewerFirst(rows[j], rows[k])
    OBVIOUS
  <2>1. j - 1 < k - 1
    BY <1>2
  <2> QED BY <1>5, <1>7, <2>1
<1>9. ASSUME NEW e \in S
      PROVE  \/ \E k \in 1 .. l : rows[k] = e
             \/ l < m /\ \A k \in 1 .. l : NewerFirst(rows[k], e)
  <2>1. CASE rank(e) < l
    <3>1. rank(e) \in Nat /\ rank(e) < l /\ l \in Nat
      BY <1>1, <1>2, <2>1
    <3>2. \E k \in 1 .. l : k - 1 = rank(e)
      <4>1. \A y \in Nat : y < l => y + 1 \in 1 .. l /\ (y + 1) - 1 = y
        BY <3>1
      <4> QED BY <3>1, <4>1
    <3>3. PICK k \in 1 .. l : k - 1 = rank(e)
      BY <3>2
    <3>4. rows[k] \in S /\ rank(rows[k]) = rank(e)
      BY <1>5, <3>3
    <3> QED BY <1>1, <3>4
  <2>2. CASE rank(e) >= l
    <3>1. l < m
      BY <1>1, <1>2, <2>2
    <3>2. \A k \in 1 .. l : rank(rows[k]) < rank(e) /\ rows[k] \in S
      BY <1>1, <1>2, <1>5, <2>2
    <3> QED BY <1>7, <3>1, <3>2
  <2> QED BY <1>1, <1>2, <2>1, <2>2
<1>10. n >= m => \A e \in S : \E k \in 1 .. l : rows[k] = e
  BY <1>1, <1>2, <1>9
<1>11. /\ rows \in Seq(S) /\ (n <= m => Len(rows) = n) /\ (n >= m => Len(rows) = m)
       /\ \A k \in 1 .. Len(rows) : rank(rows[k]) = k - 1
       /\ \A j, k \in 1 .. Len(rows) : j < k => NewerFirst(rows[j], rows[k])
       /\ \A e \in S : \/ \E k \in 1 .. Len(rows) : rows[k] = e
                       \/ \A k \in 1 .. Len(rows) : NewerFirst(rows[k], e)
       /\ n >= m => \A e \in S : \E k \in 1 .. Len(rows) : rows[k] = e
  BY <1>2, <1>5, <1>6, <1>8, <1>9, <1>10
<1> QED BY <1>11 DEF rows, rank, m

-----------------------------------------------------------------------------
(* The invariant.                                                           *)

\* The true time at which entry e was stamped.
Stamped(e) == e.at + Lag[e.by]

EntrySet == [at : Int, id : Ids, after : Nat, by : Instances]

\* The ledger: one entry per movement, numbered by the balance after it, and stamped in
\* the order of the movements.
Entries ==
  /\ now \in Nat /\ balance \in Nat
  /\ IsFiniteSet(ledger) /\ ledger \in SUBSET EntrySet /\ balance = Cardinality(ledger)
  /\ \A e, f \in ledger : e.id = f.id => e = f
  /\ \A e \in ledger : e.after \in 1 .. balance /\ Stamped(e) < now
  /\ \A e, f \in ledger : e.after = f.after => e = f
  /\ \A e, f \in ledger : e.after < f.after => Stamped(e) < Stamped(f)

\* The entry of a transaction that has not committed comes after all of them.
Follows(p) ==
  /\ p \in EntrySet /\ p.after = balance + 1 /\ Stamped(p) <= now
  /\ \A e \in ledger : e.id # p.id /\ Stamped(e) < Stamped(p)

Uncommitted == pending = {} \/ \E p \in pending : pending = {p} /\ Follows(p)

\* Entry e is one of those that were listed.
IsListed(e) == \E k \in 1 .. Len(walk.listed) : walk.listed[k] = e

\* The walk has listed everything down to its cursor, in order; its base is the ledger
\* up to a balance.
Walk ==
  /\ walk \in [phase : {"idle", "rows", "more", "ended"}, seen : Nat, cursor : SUBSET ledger,
               listed : Seq(ledger), base : SUBSET ledger]
  /\ \A j, k \in 1 .. Len(walk.listed) : j < k => NewerFirst(walk.listed[j], walk.listed[k])
  /\ \A e \in ledger : e \in walk.base <=> e.after <= Cardinality(walk.base)
  /\ walk.phase = "idle" => walk.cursor = {}
  /\ walk.phase = "more" => walk.cursor # {}
  /\ walk.phase = "ended" => walk.cursor = {} /\ \A e \in walk.base : IsListed(e)
  /\ walk.cursor = {} /\ walk.phase # "ended" => walk.listed = <<>>
  /\ walk.cursor # {} =>
       /\ walk.listed # <<>> /\ walk.cursor = {walk.listed[Len(walk.listed)]}
       /\ \A e \in walk.base : IsListed(e) \/ NewerFirst(walk.listed[Len(walk.listed)], e)

QryInv == Entries /\ Uncommitted /\ Walk /\ WalkIsSnapshot /\ NoFalseAlarm

\* In the beginning there is nothing.
LEMMA InitQuery ==
  ASSUME Init
  PROVE  QryInv
<1>1. /\ now = 0 /\ balance = 0 /\ ledger = {} /\ pending = {} /\ walk = NoWalk
      /\ report = [stored |-> 0, calculated |-> 0]
  BY DEF Init
<1>2. /\ walk = [phase |-> "idle", seen |-> 0, cursor |-> {}, listed |-> <<>>, base |-> {}]
  BY <1>1 DEF NoWalk
<1>3. Entries
  BY <1>1, FS_EmptySet DEF Entries
<1>4. Walk /\ WalkIsSnapshot
  <2>1. <<>> \in Seq(ledger) /\ Len(<<>>) = 0
    OBVIOUS
  <2>2. walk \in [phase : {"idle", "rows", "more", "ended"}, seen : Nat, cursor : SUBSET ledger,
                  listed : Seq(ledger), base : SUBSET ledger]
    BY <1>2, <2>1
  <2> QED BY <1>1, <1>2, <2>1, <2>2 DEF Walk, WalkIsSnapshot
<1> QED BY <1>1, <1>3, <1>4 DEF QryInv, Uncommitted, NoFalseAlarm

\* A part of the ledger is finite, and has at most as many entries as the balance.
LEMMA PartOfLedger ==
  ASSUME Entries, NEW S \in SUBSET ledger
  PROVE  /\ Rows(S) /\ IsFiniteSet(S) /\ Cardinality(S) \in Nat /\ Cardinality(S) <= balance
<1>1. IsFiniteSet(S) /\ Cardinality(S) <= balance
  BY FS_Subset DEF Entries
<1>2. \A e \in S : e.at \in Int /\ e.id \in Int
  <2>1. \A e \in ledger : e \in EntrySet
    BY DEF Entries
  <2>2. \A e \in EntrySet : e.at \in Int /\ e.id \in Ids
    BY DEF EntrySet
  <2>3. \A x \in Ids : x \in Int
    BY QueriesAssumption
  <2>4. \A e \in S : e \in EntrySet
    BY <2>1
  <2> QED BY <2>2, <2>3, <2>4
<1> QED BY <1>1, <1>2, FS_CardinalityType DEF Rows, Entries

\* The walk stays what it is when later entries are added to the ledger.
LEMMA WalkStays ==
  ASSUME Entries, Walk, WalkIsSnapshot, walk' = walk, ledger \subseteq ledger',
         \A e \in ledger' : e \notin ledger => e.after > balance /\ e.after \in Nat
  PROVE  Walk' /\ WalkIsSnapshot'
<1>1. Cardinality(walk.base) \in Nat /\ Cardinality(walk.base) <= balance
  BY PartOfLedger DEF Walk
<1>2. walk \in [phase : {"idle", "rows", "more", "ended"}, seen : Nat, cursor : SUBSET ledger',
                listed : Seq(ledger'), base : SUBSET ledger']
  <2>1. Seq(ledger) \subseteq Seq(ledger')
    OBVIOUS
  <2> QED BY <2>1 DEF Walk
<1>3. \A e \in ledger' : e \in walk.base <=> e.after <= Cardinality(walk.base)
  <2>1. walk.base \in SUBSET ledger /\ \A e \in ledger : e \in walk.base <=> e.after <= Cardinality(walk.base)
    BY DEF Walk
  <2>2. ASSUME NEW e \in ledger', e \notin ledger PROVE e \notin walk.base /\ ~(e.after <= Cardinality(walk.base))
    <3>1. e.after > balance /\ e.after \in Nat /\ balance \in Nat
      BY <2>2 DEF Entries
    <3> QED BY <1>1, <2>1, <2>2, <3>1
  <2> QED BY <2>1, <2>2
<1>4. Walk'
  BY <1>2, <1>3 DEF Walk, IsListed
<1>5. WalkIsSnapshot'
  <2>1. ClocksAgree' => ClocksAgree
    BY DEF ClocksAgree
  <2> QED BY <2>1 DEF WalkIsSnapshot
<1> QED BY <1>4, <1>5

\* A movement stamps its entry under the lock.
LEMMA InsertQuery ==
  ASSUME QryInv, NEW i \in Instances, NEW id \in Ids, Insert(i, id)
  PROVE  QryInv'
<1> DEFINE p == [at |-> now - Lag[i], id |-> id, after |-> balance + 1, by |-> i]
<1>1. /\ pending' = {p} /\ \A e \in ledger : e.id # id
      /\ UNCHANGED <<now, balance, ledger, lock, walk, report>>
  BY DEF Insert
<1>2. now \in Nat /\ balance \in Nat /\ Lag[i] \in Nat
  BY QueriesAssumption DEF QryInv, Entries
<1>3. p \in EntrySet /\ p.after = balance + 1 /\ p.id = id /\ Stamped(p) = now
  BY <1>2 DEF EntrySet, Stamped
<1> HIDE DEF p
<1>4. Follows(p)
  BY <1>1, <1>2, <1>3 DEF Follows, QryInv, Entries
<1>5. Uncommitted'
  BY <1>1, <1>4 DEF Uncommitted, Follows, Stamped
<1>6. Entries' /\ NoFalseAlarm'
  BY <1>1 DEF QryInv, Entries, Stamped, NoFalseAlarm
<1>7. Walk' /\ WalkIsSnapshot'
  BY <1>1, WalkStays DEF QryInv
<1> QED BY <1>5, <1>6, <1>7 DEF QryInv

\* It commits its entry together with the balance.
LEMMA CommitQuery ==
  ASSUME QryInv, NEW i \in Instances, Commit(i)
  PROVE  QryInv'
<1>1. PICK p \in pending : pending = {p} /\ Follows(p)
  BY DEF Commit, QryInv, Uncommitted
<1>2. /\ ledger' = ledger \cup {p} /\ balance' = balance + 1 /\ pending' = {} /\ now' = now + 1
      /\ UNCHANGED <<walk, report>>
  BY <1>1, FS_Singleton DEF Commit
<1>3. /\ now \in Nat /\ balance \in Nat /\ p \notin ledger /\ p \in EntrySet /\ p.after = balance + 1
      /\ Stamped(p) <= now /\ \A e \in ledger : e.id # p.id /\ Stamped(e) < Stamped(p)
  BY <1>1 DEF QryInv, Entries, Follows
<1>4. \A e \in ledger \cup {p} : Stamped(e) \in Int /\ e.after \in Nat
  BY <1>3, QueriesAssumption DEF QryInv, Entries, EntrySet, Stamped
<1>5. Entries'
  <2>1. IsFiniteSet(ledger') /\ balance' = Cardinality(ledger')
    BY <1>2, <1>3, FS_AddElement DEF QryInv, Entries
  <2>2. ledger' \in SUBSET EntrySet /\ \A e, f \in ledger' : e.id = f.id => e = f
    BY <1>2, <1>3 DEF QryInv, Entries
  <2>3. \A e \in ledger' : e.after \in 1 .. balance' /\ Stamped(e) < now'
    <3>1. \A e \in ledger : e.after \in 1 .. balance /\ Stamped(e) < now
      BY DEF QryInv, Entries
    <3> QED BY <1>2, <1>3, <1>4, <3>1
  <2>4. \A e, f \in ledger' : e.after = f.after => e = f
    <3>1. \A e \in ledger : e.after # p.after
      BY <1>3 DEF QryInv, Entries
    <3> QED BY <1>2, <3>1 DEF QryInv, Entries
  <2>5. \A e, f \in ledger' : e.after < f.after => Stamped(e) < Stamped(f)
    <3>1. \A e \in ledger : ~(p.after < e.after)
      BY <1>3 DEF QryInv, Entries
    <3> QED BY <1>2, <1>3, <1>4, <3>1 DEF QryInv, Entries
  <2> QED BY <1>2, <1>3, <2>1, <2>2, <2>3, <2>4, <2>5 DEF Entries, Stamped
<1>6. Walk' /\ WalkIsSnapshot'
  <2>1. \A e \in ledger' : e \notin ledger => e.after > balance /\ e.after \in Nat
    BY <1>2, <1>3
  <2> QED BY <1>2, <2>1, WalkStays DEF QryInv
<1> QED BY <1>2, <1>5, <1>6 DEF QryInv, Uncommitted, NoFalseAlarm

\* Steps that leave ledger and walk alone.
LEMMA QuietQuery ==
  ASSUME QryInv, UNCHANGED <<balance, ledger, walk>>, now' \in {now, now + 1},
         pending' \in {pending, {}}, report' \in {report, [stored |-> balance, calculated |-> Cardinality(ledger)]}
  PROVE  QryInv'
<1>1. \A e \in ledger \cup pending : Stamped(e) \in Int
  BY QueriesAssumption DEF QryInv, Entries, Uncommitted, Follows, EntrySet, Stamped
<1>2. now \in Nat /\ now' \in Nat /\ now' >= now
  BY DEF QryInv, Entries
<1>3. Entries'
  BY <1>1, <1>2 DEF QryInv, Entries, Stamped
<1>4. Uncommitted'
  <2> SUFFICES ASSUME pending' = pending, pending # {} PROVE Uncommitted'
    BY DEF Uncommitted
  <2>1. PICK p \in pending : pending = {p} /\ Follows(p)
    BY DEF QryInv, Uncommitted
  <2>2. Stamped(p) <= now'
    BY <1>1, <1>2, <2>1 DEF Follows
  <2> QED BY <2>1, <2>2 DEF Uncommitted, Follows, Stamped
<1>5. Walk' /\ WalkIsSnapshot'
  BY WalkStays DEF QryInv
<1>6. NoFalseAlarm'
  BY DEF QryInv, Entries, NoFalseAlarm
<1> QED BY <1>3, <1>4, <1>5, <1>6 DEF QryInv

-----------------------------------------------------------------------------
(* Pages.                                                                   *)

\* What the second statement of a request reads below the cursor.
Below == {e \in ledger : \A c \in walk.cursor : Before(e, c)}

\* One row more is read than is listed, and says whether there are more.
LEMMA OneMore ==
  ASSUME NEW S, Rows(S), NEW n \in Nat \ {0}
  PROVE  /\ Len(Newest(S, n + 1)) > n <=> Cardinality(S) > n
         /\ Cardinality(S) > n => SubSeq(Newest(S, n + 1), 1, n) = Newest(S, n)
         /\ Cardinality(S) <= n => Newest(S, n + 1) = Newest(S, n)
<1> DEFINE m == Cardinality(S)
           a == Newest(S, n)
           b == Newest(S, n + 1)
<1>1. m \in Nat /\ \A e, f \in S : Cardinality(Newer(S, e)) = Cardinality(Newer(S, f)) => e = f
  BY Ranks
<1>2. /\ a \in Seq(S) /\ (n <= m => Len(a) = n) /\ (n >= m => Len(a) = m)
      /\ \A k \in 1 .. Len(a) : Cardinality(Newer(S, a[k])) = k - 1
  BY PageOfRows
<1>3. /\ b \in Seq(S) /\ (n + 1 <= m => Len(b) = n + 1) /\ (n + 1 >= m => Len(b) = m)
      /\ \A k \in 1 .. Len(b) : Cardinality(Newer(S, b[k])) = k - 1
  BY PageOfRows
<1> HIDE DEF m, a, b
<1>4. Len(b) > n <=> m > n
  BY <1>1, <1>3
<1>5. \A k \in 1 .. Len(a) : k \in 1 .. Len(b) => a[k] = b[k]
  BY <1>1, <1>2, <1>3
<1>6. ASSUME m > n PROVE SubSeq(b, 1, n) = a
  <2>1. Len(a) = n /\ Len(b) = n + 1
    BY <1>1, <1>2, <1>3, <1>6
  <2>2. \A k \in 1 .. n : b[k] \in S
    BY <1>3, <2>1
  <2>3. 1 \in Int /\ n \in Int
    OBVIOUS
  <2>4. /\ SubSeq(b, 1, n) \in Seq(S) /\ Len(SubSeq(b, 1, n)) = IF 1 <= n THEN n - 1 + 1 ELSE 0
        /\ \A k \in 1 .. n - 1 + 1 : SubSeq(b, 1, n)[k] = b[1 + k - 1]
    BY <2>2, <2>3, SubSeqProperties
  <2>5. Len(SubSeq(b, 1, n)) = n
    BY <2>4
  <2>6. \A k \in 1 .. n : SubSeq(b, 1, n)[k] = a[k]
    <3>1. \A k \in 1 .. n : k \in 1 .. n - 1 + 1 /\ 1 + k - 1 = k /\ k \in 1 .. Len(a) /\ k \in 1 .. Len(b)
      BY <2>1
    <3> QED BY <1>5, <2>4, <3>1
  <2> QED BY <1>2, <2>1, <2>4, <2>5, <2>6, SeqEqual
<1>7. ASSUME m <= n PROVE b = a
  <2>1. Len(a) = m /\ Len(b) = m
    BY <1>1, <1>2, <1>3, <1>7
  <2> QED BY <1>2, <1>3, <1>5, <2>1, SeqEqual
<1> QED BY <1>4, <1>6, <1>7 DEF a, b, m

\* The step in terms of the rows that are listed.
LEMMA PageStep ==
  ASSUME QryInv, NEW limit \in 1 .. MaxLimit, Page(limit)
  PROVE  /\ walk.phase = "rows" /\ UNCHANGED <<now, balance, ledger, lock, pending, report>>
         /\ walk'.seen = walk.seen
         /\ walk' = [phase |-> walk'.phase, seen |-> walk'.seen, cursor |-> walk'.cursor,
                     listed |-> walk'.listed, base |-> walk'.base]
         /\ walk'.listed = walk.listed \o Newest(Below, limit)
         /\ walk'.base = IF walk.cursor = {} THEN ledger ELSE walk.base
         /\ Cardinality(Below) > limit =>
              walk'.phase = "more" /\ walk'.cursor = {Last(Newest(Below, limit))}
         /\ Cardinality(Below) <= limit => walk'.phase = "ended" /\ walk'.cursor = {}
<1> DEFINE rows == Newest(Below, limit + 1)
           items == IF Len(rows) > limit THEN SubSeq(rows, 1, limit) ELSE rows
<1>1. limit \in Nat \ {0}
  BY QueriesAssumption
<1>2. Rows(Below) /\ Cardinality(Below) \in Nat
  BY PartOfLedger DEF QryInv, Below
<1>3. /\ Len(rows) > limit <=> Cardinality(Below) > limit
      /\ Cardinality(Below) > limit => SubSeq(rows, 1, limit) = Newest(Below, limit)
      /\ Cardinality(Below) <= limit => rows = Newest(Below, limit)
  BY <1>1, <1>2, OneMore
<1>4. items = Newest(Below, limit)
  <2> HIDE DEF rows
  <2> QED BY <1>1, <1>2, <1>3
<1>5. /\ walk.phase = "rows" /\ UNCHANGED <<now, balance, ledger, lock, pending, report>>
      /\ walk' = [walk EXCEPT
          !.phase = IF Len(rows) > limit THEN "more" ELSE "ended",
          !.cursor = IF Len(rows) > limit THEN {Last(items)} ELSE {},
          !.listed = @ \o items,
          !.base = IF walk.cursor = {} THEN ledger ELSE @]
  BY DEF Page, Below
<1>6. walk = [phase |-> walk.phase, seen |-> walk.seen, cursor |-> walk.cursor, listed |-> walk.listed, base |-> walk.base]
  BY DEF QryInv, Walk
<1> HIDE DEF rows, items
<1>7. walk' = [phase |-> IF Len(rows) > limit THEN "more" ELSE "ended", seen |-> walk.seen,
               cursor |-> IF Len(rows) > limit THEN {Last(items)} ELSE {},
               listed |-> walk.listed \o items,
               base |-> IF walk.cursor = {} THEN ledger ELSE walk.base]
  BY <1>5, <1>6
<1>8. /\ walk'.seen = walk.seen /\ walk'.listed = walk.listed \o items
      /\ walk'.base = IF walk.cursor = {} THEN ledger ELSE walk.base
      /\ walk'.phase = IF Len(rows) > limit THEN "more" ELSE "ended"
      /\ walk'.cursor = IF Len(rows) > limit THEN {Last(items)} ELSE {}
      /\ walk' = [phase |-> walk'.phase, seen |-> walk'.seen, cursor |-> walk'.cursor,
                  listed |-> walk'.listed, base |-> walk'.base]
  BY <1>7
<1>9. Cardinality(Below) <= limit => ~(Cardinality(Below) > limit)
  BY <1>1, <1>2
<1> QED BY <1>3, <1>4, <1>5, <1>8, <1>9

\* A page keeps the order of the walk, and reaches down to the new cursor.
LEMMA PageWalk ==
  ASSUME QryInv, NEW limit \in 1 .. MaxLimit, Page(limit)
  PROVE  Walk'
<1> DEFINE old == walk.listed
           items == Newest(Below, limit)
           new == walk'.listed
           l == Len(old)
           n == Len(items)
<1>1. /\ walk.phase = "rows" /\ UNCHANGED <<now, balance, ledger, lock, pending, report>>
      /\ walk'.seen = walk.seen
      /\ walk' = [phase |-> walk'.phase, seen |-> walk'.seen, cursor |-> walk'.cursor,
                  listed |-> walk'.listed, base |-> walk'.base]
      /\ new = old \o items
      /\ walk'.base = IF walk.cursor = {} THEN ledger ELSE walk.base
      /\ Cardinality(Below) > limit => walk'.phase = "more" /\ walk'.cursor = {Last(items)}
      /\ Cardinality(Below) <= limit => walk'.phase = "ended" /\ walk'.cursor = {}
  BY PageStep
<1>2. limit \in Nat \ {0} /\ Below \in SUBSET ledger /\ Rows(Below) /\ Cardinality(Below) \in Nat
  BY QueriesAssumption, PartOfLedger DEF QryInv, Below
<1>3. /\ items \in Seq(Below)
      /\ limit <= Cardinality(Below) => n = limit
      /\ limit >= Cardinality(Below) => n = Cardinality(Below)
      /\ \A j, k \in 1 .. n : j < k => NewerFirst(items[j], items[k])
      /\ \A e \in Below : \/ \E k \in 1 .. n : items[k] = e
                          \/ \A k \in 1 .. n : NewerFirst(items[k], e)
      /\ limit >= Cardinality(Below) => \A e \in Below : \E k \in 1 .. n : items[k] = e
  <2>1. limit \in Nat /\ Rows(Below)
    BY <1>2
  <2>2. /\ Newest(Below, limit) \in Seq(Below)
        /\ limit <= Cardinality(Below) => Len(Newest(Below, limit)) = limit
        /\ limit >= Cardinality(Below) => Len(Newest(Below, limit)) = Cardinality(Below)
        /\ \A j, k \in 1 .. Len(Newest(Below, limit)) :
             j < k => NewerFirst(Newest(Below, limit)[j], Newest(Below, limit)[k])
    BY <2>1, PageOfRows
  <2>3. \A e \in Below : \/ \E k \in 1 .. Len(Newest(Below, limit)) : Newest(Below, limit)[k] = e
                        \/ \A k \in 1 .. Len(Newest(Below, limit)) : NewerFirst(Newest(Below, limit)[k], e)
    BY <2>1, PageOfRows
  <2>4. limit >= Cardinality(Below) =>
          \A e \in Below : \E k \in 1 .. Len(Newest(Below, limit)) : Newest(Below, limit)[k] = e
    BY <2>1, PageOfRows
  <2> QED BY <2>2, <2>3, <2>4
<1>4. /\ old \in Seq(ledger) /\ items \in Seq(ledger) /\ l \in Nat /\ n \in Nat
      /\ \A k \in 1 .. n : items[k] \in Below
      /\ \A k \in 1 .. l : old[k] \in ledger
  BY <1>2, <1>3 DEF QryInv, Walk
<1> HIDE DEF old, items, new
<1>5. /\ new \in Seq(ledger) /\ Len(new) = l + n
      /\ \A k \in 1 .. l + n : new[k] = IF k <= l THEN old[k] ELSE items[k - l]
  BY <1>1, <1>4, ConcatProperties
<1>6. \A e, f, g \in ledger : NewerFirst(e, f) /\ NewerFirst(f, g) => NewerFirst(e, g)
  <2>1. \A e \in ledger : e.at \in Int /\ e.id \in Int
    BY PartOfLedger DEF QryInv, Rows
  <2> QED BY <2>1 DEF NewerFirst
<1>7. \A j, k \in 1 .. l : j < k => NewerFirst(old[j], old[k])
  BY DEF QryInv, Walk, old
<1>8. ASSUME NEW j \in 1 .. l, NEW e \in Below PROVE NewerFirst(old[j], e)
  <2>1. walk.cursor = {old[l]}
    <3>1. old # <<>>
      BY <1>4
    <3> QED BY <1>1, <3>1 DEF QryInv, Walk, old
  <2>2. NewerFirst(old[l], e)
    BY <2>1 DEF Below, Before, NewerFirst
  <2>3. CASE j = l
    BY <2>2, <2>3
  <2>4. CASE j < l
    <3>1. NewerFirst(old[j], old[l]) /\ old[j] \in ledger /\ old[l] \in ledger /\ e \in ledger
      BY <1>2, <1>4, <1>7, <2>4
    <3> QED BY <1>6, <2>2, <3>1
  <2> QED BY <1>4, <2>3, <2>4
<1>9. ASSUME NEW j \in 1 .. l + n, NEW k \in 1 .. l + n, j < k PROVE NewerFirst(new[j], new[k])
  <2>1. CASE k <= l
    BY <1>4, <1>5, <1>7, <1>9, <2>1
  <2>2. CASE j <= l /\ k > l
    <3>1. new[j] = old[j] /\ j \in 1 .. l /\ new[k] = items[k - l] /\ k - l \in 1 .. n
      BY <1>4, <1>5, <2>2
    <3> QED BY <1>4, <1>8, <3>1
  <2>3. CASE j > l
    <3>1. /\ new[j] = items[j - l] /\ new[k] = items[k - l] /\ j - l \in 1 .. n /\ k - l \in 1 .. n
          /\ j - l < k - l
      BY <1>4, <1>5, <1>9, <2>3
    <3> QED BY <1>3, <3>1
  <2> QED BY <1>4, <1>9, <2>1, <2>2, <2>3
<1>10. ASSUME NEW e \in walk'.base
       PROVE  \/ \E k \in 1 .. l : old[k] = e
              \/ e \in Below
  <2>1. CASE walk.cursor = {}
    BY <1>1, <2>1 DEF Below
  <2>2. CASE walk.cursor # {}
    <3>1. e \in walk.base /\ e \in ledger
      BY <1>1, <2>2 DEF QryInv, Walk
    <3>2. walk.cursor = {old[l]} /\ (IsListed(e) \/ NewerFirst(old[l], e))
      BY <2>2, <3>1 DEF QryInv, Walk, old
    <3> QED BY <3>1, <3>2 DEF IsListed, Below, Before, NewerFirst, old
  <2> QED BY <2>1, <2>2
<1>11. /\ \A k \in 1 .. l : k \in 1 .. l + n /\ new[k] = old[k]
       /\ \A k \in 1 .. n : l + k \in 1 .. l + n /\ new[l + k] = items[k]
  BY <1>4, <1>5
<1>12. /\ walk'.base \in SUBSET ledger
       /\ \A e \in ledger : e \in walk'.base <=> e.after <= Cardinality(walk'.base)
  <2>1. CASE walk.cursor = {}
    <3>1. walk'.base = ledger /\ Cardinality(ledger) = balance
      BY <1>1, <2>1 DEF QryInv, Entries
    <3>2. \A e \in ledger : e.after <= balance
      BY DEF QryInv, Entries
    <3> QED BY <3>1, <3>2
  <2>2. CASE walk.cursor # {}
    BY <1>1, <2>2 DEF QryInv, Walk
  <2> QED BY <2>1, <2>2
<1>13. ASSUME NEW e \in walk'.base
       PROVE  \/ \E k \in 1 .. l + n : new[k] = e
              \/ e \in Below /\ \A k \in 1 .. n : items[k] # e
  BY <1>10, <1>11
<1>14. /\ walk' \in [phase : {"idle", "rows", "more", "ended"}, seen : Nat, cursor : SUBSET ledger,
                     listed : Seq(ledger), base : SUBSET ledger]
       /\ walk'.phase \in {"more", "ended"}
       /\ walk'.phase = "more" =>
            /\ n >= 1 /\ walk'.cursor = {new[l + n]}
            /\ \A e \in walk'.base : (\E k \in 1 .. l + n : new[k] = e) \/ NewerFirst(new[l + n], e)
       /\ walk'.phase = "ended" =>
            walk'.cursor = {} /\ \A e \in walk'.base : \E k \in 1 .. l + n : new[k] = e
  <2>1. walk.seen \in Nat
    BY DEF QryInv, Walk
  <2>2. CASE Cardinality(Below) > limit
    <3>1. n = limit /\ n >= 1 /\ Last(items) = items[n] /\ items[n] = new[l + n] /\ new[l + n] \in ledger
      BY <1>2, <1>3, <1>4, <1>5, <1>11, <2>2 DEF Last
    <3>2. walk'.phase = "more" /\ walk'.cursor = {new[l + n]}
      BY <1>1, <2>2, <3>1
    <3>3. ASSUME NEW e \in walk'.base, ~\E k \in 1 .. l + n : new[k] = e
          PROVE  NewerFirst(new[l + n], e)
      BY <1>3, <1>4, <1>13, <3>1, <3>3
    <3>4. walk' \in [phase : {"idle", "rows", "more", "ended"}, seen : Nat, cursor : SUBSET ledger,
                     listed : Seq(ledger), base : SUBSET ledger]
      BY <1>1, <1>5, <1>12, <2>1, <3>1, <3>2 DEF new
    <3> QED BY <3>1, <3>2, <3>3, <3>4
  <2>3. CASE Cardinality(Below) <= limit
    <3>1. walk'.phase = "ended" /\ walk'.cursor = {}
      BY <1>1, <2>3
    <3>2. \A e \in walk'.base : \E k \in 1 .. l + n : new[k] = e
      BY <1>2, <1>3, <1>13, <2>3
    <3>3. walk' \in [phase : {"idle", "rows", "more", "ended"}, seen : Nat, cursor : SUBSET ledger,
                     listed : Seq(ledger), base : SUBSET ledger]
      BY <1>1, <1>5, <1>12, <2>1, <3>1 DEF new
    <3> QED BY <3>1, <3>2, <3>3
  <2> QED BY <1>2, <2>2, <2>3
<1>15. /\ \A e : IsListed(e)' <=> \E k \in 1 .. l + n : new[k] = e
       /\ n >= 1 => new # <<>>
  BY <1>4, <1>5 DEF IsListed, new
<1>16. \A j, k \in 1 .. Len(walk'.listed) : j < k => NewerFirst(walk'.listed[j], walk'.listed[k])
  BY <1>5, <1>9 DEF new
<1>17. walk'.phase = "more" =>
         /\ walk'.listed # <<>> /\ walk'.cursor = {walk'.listed[Len(walk'.listed)]}
         /\ \A e \in walk'.base : IsListed(e)' \/ NewerFirst(walk'.listed[Len(walk'.listed)], e)
  BY <1>5, <1>14, <1>15 DEF new
<1>18. walk'.phase = "ended" => walk'.cursor = {} /\ \A e \in walk'.base : IsListed(e)'
  BY <1>14, <1>15
<1>19. ledger' = ledger
  BY <1>1
<1> QED BY <1>12, <1>14, <1>16, <1>17, <1>18, <1>19 DEF Walk

-----------------------------------------------------------------------------
(* Clocks that agree.                                                       *)

\* The entries whose balance is above a, up to b.
Between(a, b) == {e \in ledger : a < e.after /\ e.after <= b}

\* There is one for each balance.
LEMMA Counted ==
  ASSUME Entries, NEW a \in Nat, NEW b \in Nat, a <= b, b <= balance
  PROVE  Cardinality(Between(a, b)) = b - a
<1> DEFINE after == [e \in ledger |-> e.after]
           part == [e \in Between(a, b) |-> e.after]
<1>1. balance \in Nat /\ IsFiniteSet(ledger) /\ Cardinality(ledger) = balance
  BY DEF Entries
<1>2. IsFiniteSet(1 .. balance) /\ Cardinality(1 .. balance) = balance
  <2>1. 1 \in Int /\ balance \in Int
    BY <1>1
  <2>2. IsFiniteSet(1 .. balance) /\ Cardinality(1 .. balance) = IF 1 > balance THEN 0 ELSE balance - 1 + 1
    BY <2>1, FS_Interval
  <2> QED BY <1>1, <2>2
<1>3. after \in Injection(ledger, 1 .. balance)
  BY DEF Entries, Injection, IsInjective
<1>4. after \in Surjection(ledger, 1 .. balance)
  <2> HIDE DEF after
  <2> QED BY <1>1, <1>2, <1>3, FS_Injection
<1>5. \A k \in 1 .. balance : \E e \in ledger : e.after = k
  BY <1>4 DEF Surjection
<1>6. part \in Bijection(Between(a, b), a + 1 .. b)
  <2>1. \A e \in Between(a, b) : e.after \in a + 1 .. b
    BY DEF Between, Entries
  <2>2. \A e, f \in Between(a, b) : e.after = f.after => e = f
    BY DEF Between, Entries
  <2>3. \A k \in a + 1 .. b : \E e \in Between(a, b) : e.after = k
    BY <1>1, <1>5 DEF Between
  <2> QED BY <2>1, <2>2, <2>3 DEF Bijection, Injection, Surjection, IsInjective
<1>7. IsFiniteSet(Between(a, b))
  BY <1>1, FS_Subset DEF Between
<1>8. Cardinality(Between(a, b)) = Cardinality(a + 1 .. b)
  <2>1. ExistsBijection(Between(a, b), a + 1 .. b)
    BY <1>6 DEF ExistsBijection
  <2> QED BY <1>7, <2>1, FS_Bijection
<1>9. Cardinality(a + 1 .. b) = b - a
  <2>1. a + 1 \in Int /\ b \in Int
    OBVIOUS
  <2>2. Cardinality(a + 1 .. b) = IF a + 1 > b THEN 0 ELSE b - (a + 1) + 1
    BY <2>1, FS_Interval
  <2>3. (IF a + 1 > b THEN 0 ELSE b - (a + 1) + 1) = b - a
    OBVIOUS
  <2> QED BY <2>2, <2>3
<1> QED BY <1>8, <1>9

\* Their order is that of the movements.
LEMMA OrderAgrees ==
  ASSUME Entries, ClocksAgree, NEW e \in ledger, NEW f \in ledger
  PROVE  NewerFirst(f, e) <=> e.after < f.after
<1>1. \A g \in ledger : g.after \in Nat /\ g.at \in Int /\ g.id \in Int /\ Lag[g.by] \in Int
  <2>1. \A g \in ledger : g.at \in Int /\ g.id \in Int
    BY PartOfLedger DEF Rows
  <2>2. \A g \in ledger : g.after \in Nat /\ g.by \in Instances
    BY DEF Entries, EntrySet
  <2>3. \A i \in Instances : Lag[i] \in Int
    BY QueriesAssumption
  <2> QED BY <2>1, <2>2, <2>3
<1>2. Lag[e.by] = Lag[f.by]
  BY DEF ClocksAgree
<1>3. e.after < f.after => e.at < f.at
  BY <1>1, <1>2 DEF Entries, Stamped
<1>4. f.after < e.after => f.at < e.at
  BY <1>1, <1>2 DEF Entries, Stamped
<1>5. e.after = f.after => e = f
  BY DEF Entries
<1> QED BY <1>1, <1>3, <1>4, <1>5 DEF NewerFirst

\* What a page lists of the entries up to balance v.
LEMMA PageCounts ==
  ASSUME Entries, ClocksAgree, NEW v \in Nat, v <= balance, NEW limit \in Nat,
         NEW S, S = Between(0, v)
  PROVE  /\ Cardinality(S) = v
         /\ \A k \in 1 .. Len(Newest(S, limit)) : Newest(S, limit)[k].after = v - k + 1
<1> DEFINE items == Newest(S, limit)
<1>1. S \in SUBSET ledger /\ Rows(S) /\ Cardinality(S) = v
  <2>1. Cardinality(Between(0, v)) = v - 0
    BY Counted
  <2> QED BY <2>1, PartOfLedger DEF Between
<1>2. items \in Seq(S) /\ \A k \in 1 .. Len(items) : Cardinality(Newer(S, items[k])) = k - 1
  BY <1>1, PageOfRows
<1> HIDE DEF items
<1>3. ASSUME NEW e \in S PROVE Cardinality(Newer(S, e)) = v - e.after /\ e.after \in Nat
  <2>1. e \in ledger /\ e.after \in Nat /\ e.after <= v
    BY DEF Between, Entries
  <2>2. Newer(S, e) = Between(e.after, v)
    <3>1. \A f \in ledger : f.after \in Nat /\ f.after > 0
      BY DEF Entries
    <3>2. \A f \in ledger : NewerFirst(f, e) <=> e.after < f.after
      BY <2>1, OrderAgrees
    <3> QED BY <2>1, <3>1, <3>2 DEF Newer, Between
  <2> QED BY <2>1, <2>2, Counted
<1>4. ASSUME NEW k \in 1 .. Len(items) PROVE items[k].after = v - k + 1
  <2>1. items[k] \in S /\ k \in Nat
    BY <1>2
  <2>2. Cardinality(Newer(S, items[k])) = v - items[k].after /\ items[k].after \in Nat
    BY <1>3, <2>1
  <2>3. v - items[k].after = k - 1
    BY <1>2, <2>2
  <2> QED BY <2>1, <2>2, <2>3
<1> QED BY <1>1, <1>4 DEF items

\* A page goes on where the walk is, from the last movement to the first.
LEMMA PageSnapshot ==
  ASSUME QryInv, NEW limit \in 1 .. MaxLimit, Page(limit)
  PROVE  WalkIsSnapshot'
<1> SUFFICES ASSUME ClocksAgree'
             PROVE  LET m == Cardinality(walk'.base)
                    IN /\ \A k \in 1 .. Len(walk'.listed) : walk'.listed[k].after = m - k + 1
                       /\ walk'.phase = "ended" => Len(walk'.listed) = m
  BY DEF WalkIsSnapshot
<1> DEFINE old == walk.listed
           items == Newest(Below, limit)
           new == walk'.listed
           l == Len(old)
           m == Cardinality(walk'.base)
<1>1. /\ walk.phase = "rows" /\ ledger' = ledger /\ new = old \o items
      /\ walk'.base = IF walk.cursor = {} THEN ledger ELSE walk.base
      /\ Cardinality(Below) > limit => walk'.phase = "more"
  BY PageStep
<1>2. ClocksAgree /\ Entries /\ Walk
  BY <1>1 DEF ClocksAgree, QryInv
<1>3. limit \in Nat \ {0} /\ Below \in SUBSET ledger /\ Rows(Below)
  BY QueriesAssumption, PartOfLedger DEF QryInv, Below
<1>4. m \in Nat /\ m <= balance /\ l \in Nat /\ old \in Seq(ledger)
  <2>1. walk'.base \in SUBSET ledger
    BY <1>1, <1>2 DEF Walk
  <2> QED BY <1>2, <2>1, PartOfLedger DEF Walk
<1>5. m - l \in Nat /\ Below = Between(0, m - l) /\ \A k \in 1 .. l : old[k].after = m - k + 1
  <2>1. CASE walk.cursor = {}
    <3>1. old = <<>> /\ l = 0
      BY <1>1, <1>2, <2>1 DEF Walk
    <3>2. m = balance
      BY <1>1, <1>2, <2>1 DEF Entries
    <3>3. Below = ledger
      BY <2>1 DEF Below
    <3>4. \A e \in ledger : 0 < e.after /\ e.after <= balance
      BY <1>2 DEF Entries
    <3>5. ledger = Between(0, balance)
      BY <3>4 DEF Between
    <3> HIDE DEF old, l, m
    <3> QED BY <1>4, <3>1, <3>2, <3>3, <3>5
  <2>2. CASE walk.cursor # {}
    <3>1. walk'.base = walk.base /\ walk.cursor = {old[l]} /\ old # <<>>
      BY <1>1, <1>2, <2>2 DEF Walk
    <3>2. \A k \in 1 .. l : old[k].after = m - k + 1
      BY <1>2, <3>1 DEF QryInv, WalkIsSnapshot
    <3>3. l >= 1 /\ old[l] \in ledger
      BY <1>4, <3>1
    <3>4. old[l].after = m - l + 1 /\ old[l].after \in Nat /\ old[l].after >= 1
      <4>1. l \in 1 .. l
        BY <1>4, <3>3
      <4>2. old[l].after = m - l + 1
        BY <3>2, <4>1
      <4>3. old[l].after \in 1 .. balance
        BY <1>2, <3>3 DEF Entries
      <4> QED BY <1>2, <4>2, <4>3 DEF Entries
    <3>5. Below = {e \in ledger : e.after < old[l].after}
      <4>1. \A e \in ledger : Before(e, old[l]) <=> NewerFirst(old[l], e)
        BY DEF Before, NewerFirst
      <4>2. \A e \in ledger : NewerFirst(old[l], e) <=> e.after < old[l].after
        BY <1>2, <3>3, OrderAgrees
      <4> HIDE DEF old, l
      <4> QED BY <3>1, <4>1, <4>2 DEF Below
    <3>6. \A e \in ledger : e.after \in Nat /\ 0 < e.after
      BY <1>2 DEF Entries
    <3> HIDE DEF old, l, m
    <3>7. m - l \in Nat
      BY <1>4, <3>4
    <3>8. \A e \in ledger : e.after < old[l].after <=> e.after <= m - l
      BY <1>4, <3>4, <3>6
    <3> QED BY <3>2, <3>5, <3>6, <3>7, <3>8 DEF Between
  <2> QED BY <2>1, <2>2
<1> HIDE DEF m, l
<1>6. Cardinality(Below) = m - l /\ \A k \in 1 .. Len(items) : items[k].after = m - l - k + 1
  <2>1. m - l <= balance /\ limit \in Nat
    <3>1. balance \in Nat
      BY <1>2 DEF Entries
    <3> QED BY <1>3, <1>4, <3>1
  <2> QED BY <1>2, <1>5, <2>1, PageCounts
<1>7. /\ items \in Seq(ledger) /\ Len(items) \in Nat
      /\ limit >= Cardinality(Below) => Len(items) = Cardinality(Below)
  <2>1. items \in Seq(Below) /\ (limit >= Cardinality(Below) => Len(items) = Cardinality(Below))
    BY <1>3, PageOfRows
  <2> HIDE DEF items
  <2> QED BY <1>3, <2>1
<1> HIDE DEF items, old, new
<1>8. /\ new \in Seq(ledger) /\ Len(new) = l + Len(items)
      /\ \A k \in 1 .. l + Len(items) : new[k] = IF k <= l THEN old[k] ELSE items[k - l]
  BY <1>1, <1>4, <1>7, ConcatProperties DEF l
<1>9. ASSUME NEW k \in 1 .. l + Len(items) PROVE new[k].after = m - k + 1
  <2>1. CASE k <= l
    BY <1>4, <1>5, <1>8, <2>1
  <2>2. CASE k > l
    <3>1. k - l \in 1 .. Len(items) /\ new[k] = items[k - l]
      BY <1>4, <1>7, <1>8, <2>2
    <3>2. new[k].after = m - l - (k - l) + 1
      BY <1>6, <3>1
    <3> QED BY <1>4, <3>2
  <2> QED BY <1>4, <1>7, <2>1, <2>2
<1>10. walk'.phase = "ended" => Len(new) = m
  <2> SUFFICES ASSUME walk'.phase = "ended" PROVE Len(new) = m
    OBVIOUS
  <2>1. limit >= Cardinality(Below)
    BY <1>1, <1>3, <1>5, <1>6
  <2> QED BY <1>4, <1>6, <1>7, <1>8, <2>1
<1> QED BY <1>8, <1>9, <1>10 DEF new, m

\* The first statement of a request reads the wallet, and may begin a new walk.
LEMMA FindQuery ==
  ASSUME QryInv, FindWallet
  PROVE  QryInv'
<1> DEFINE old == IF walk.phase = "ended" THEN NoWalk ELSE walk
<1>1. /\ walk.phase # "rows" /\ walk' = [old EXCEPT !.phase = "rows", !.seen = balance]
      /\ UNCHANGED <<now, balance, ledger, lock, pending, report>>
  BY DEF FindWallet
<1>2. Entries' /\ Uncommitted' /\ NoFalseAlarm'
  BY <1>1 DEF QryInv, Entries, Uncommitted, Follows, Stamped, NoFalseAlarm
<1>3. /\ old = [phase |-> old.phase, seen |-> old.seen, cursor |-> old.cursor, listed |-> old.listed, base |-> old.base]
      /\ old.cursor \in SUBSET ledger /\ old.listed \in Seq(ledger) /\ old.base \in SUBSET ledger
      /\ \/ old = walk /\ walk.phase # "ended"
         \/ old.cursor = {} /\ old.listed = <<>> /\ old.base = {}
  <2>1. CASE walk.phase = "ended"
    <3>1. old = [phase |-> "idle", seen |-> 0, cursor |-> {}, listed |-> <<>>, base |-> {}]
      BY <2>1 DEF NoWalk
    <3>2. <<>> \in Seq(ledger)
      OBVIOUS
    <3> HIDE DEF old
    <3> QED BY <3>1, <3>2
  <2>2. CASE walk.phase # "ended"
    <3>1. old = walk
      BY <2>2
    <3>2. walk = [phase |-> walk.phase, seen |-> walk.seen, cursor |-> walk.cursor, listed |-> walk.listed, base |-> walk.base]
      BY DEF QryInv, Walk
    <3>3. walk.cursor \in SUBSET ledger /\ walk.listed \in Seq(ledger) /\ walk.base \in SUBSET ledger
      BY DEF QryInv, Walk
    <3> HIDE DEF old
    <3> QED BY <2>2, <3>1, <3>2, <3>3
  <2> QED BY <2>1, <2>2
<1> HIDE DEF old
<1>4. walk' = [phase |-> "rows", seen |-> balance, cursor |-> old.cursor, listed |-> old.listed, base |-> old.base]
  <2> DEFINE u == [phase |-> old.phase, seen |-> old.seen, cursor |-> old.cursor, listed |-> old.listed, base |-> old.base]
  <2>1. [u EXCEPT !.phase = "rows", !.seen = balance] =
          [phase |-> "rows", seen |-> balance, cursor |-> old.cursor, listed |-> old.listed, base |-> old.base]
    <3> DEFINE v == [phase |-> "rows", seen |-> old.seen, cursor |-> old.cursor, listed |-> old.listed, base |-> old.base]
    <3>1. [u EXCEPT !.phase = "rows"] = v
      OBVIOUS
    <3>2. [v EXCEPT !.seen = balance] =
            [phase |-> "rows", seen |-> balance, cursor |-> old.cursor, listed |-> old.listed, base |-> old.base]
      OBVIOUS
    <3>3. [u EXCEPT !.phase = "rows", !.seen = balance] = [[u EXCEPT !.phase = "rows"] EXCEPT !.seen = balance]
      OBVIOUS
    <3> HIDE DEF u, v
    <3> QED BY <3>1, <3>2, <3>3
  <2>2. u = old
    BY <1>3
  <2> HIDE DEF u
  <2> QED BY <1>1, <2>1, <2>2
<1>5. /\ walk'.phase = "rows" /\ walk'.seen = balance /\ walk'.cursor = old.cursor
      /\ walk'.listed = old.listed /\ walk'.base = old.base
  BY <1>4
<1>6. walk' \in [phase : {"idle", "rows", "more", "ended"}, seen : Nat, cursor : SUBSET ledger,
                 listed : Seq(ledger), base : SUBSET ledger]
  <2>1. balance \in Nat
    BY DEF QryInv, Entries
  <2> QED BY <1>3, <1>4, <2>1
<1>7. CASE old = walk /\ walk.phase # "ended"
  <2>1. /\ walk'.cursor = walk.cursor /\ walk'.listed = walk.listed /\ walk'.base = walk.base
        /\ \A e : IsListed(e)' <=> IsListed(e)
    BY <1>5, <1>7 DEF IsListed
  <2>2. Walk'
    BY <1>1, <1>5, <1>6, <1>7, <2>1 DEF QryInv, Walk
  <2>3. WalkIsSnapshot'
    BY <1>1, <1>5, <2>1 DEF QryInv, WalkIsSnapshot, ClocksAgree
  <2> QED BY <1>2, <2>2, <2>3 DEF QryInv
<1>8. CASE old.cursor = {} /\ old.listed = <<>> /\ old.base = {}
  <2>1. walk'.cursor = {} /\ walk'.listed = <<>> /\ walk'.base = {} /\ Len(<<>>) = 0 /\ Cardinality({}) = 0
    BY <1>5, <1>8, FS_EmptySet
  <2>2. \A e \in ledger : e.after \in Nat /\ e.after >= 1
    BY DEF QryInv, Entries
  <2>3. Walk'
    <3>1. \A j, k \in 1 .. Len(walk'.listed) : j < k => NewerFirst(walk'.listed[j], walk'.listed[k])
      BY <2>1
    <3>2. \A e \in ledger : e \in walk'.base <=> e.after <= Cardinality(walk'.base)
      BY <2>1, <2>2
    <3> QED BY <1>1, <1>5, <1>6, <2>1, <3>1, <3>2 DEF Walk
  <2>4. WalkIsSnapshot'
    BY <1>5, <2>1 DEF WalkIsSnapshot
  <2> QED BY <1>2, <2>3, <2>4 DEF QryInv
<1> QED BY <1>3, <1>7, <1>8

\* Every step keeps the invariant.
LEMMA StepQuery ==
  ASSUME QryInv, [Next]_vars
  PROVE  QryInv'
<1>1. CASE UNCHANGED vars
  BY <1>1, QuietQuery DEF vars
<1>2. ASSUME NEW i \in Instances, LockWallet(i) \/ Rollback(i) PROVE QryInv'
  BY <1>2, QuietQuery DEF LockWallet, Rollback
<1>3. ASSUME NEW i \in Instances, Commit(i) PROVE QryInv'
  BY <1>3, CommitQuery
<1>4. ASSUME NEW i \in Instances, NEW id \in Ids, Insert(i, id) PROVE QryInv'
  BY <1>4, InsertQuery
<1>5. CASE Tick
  BY <1>5, QuietQuery DEF Tick
<1>6. CASE FindWallet
  BY <1>6, FindQuery
<1>7. ASSUME NEW limit \in 1 .. MaxLimit, Page(limit) PROVE QryInv'
  <2>1. UNCHANGED <<now, balance, ledger, lock, pending, report>>
    BY <1>7, PageStep
  <2>2. Entries' /\ Uncommitted' /\ NoFalseAlarm'
    BY <2>1 DEF QryInv, Entries, Uncommitted, Follows, Stamped, NoFalseAlarm
  <2>3. Walk' /\ WalkIsSnapshot'
    BY <1>7, PageWalk, PageSnapshot
  <2> QED BY <2>2, <2>3 DEF QryInv
<1>8. CASE Reconcile
  BY <1>8, QuietQuery DEF Reconcile
<1> QED BY <1>1, <1>2, <1>3, <1>4, <1>5, <1>6, <1>7, <1>8 DEF Next

-----------------------------------------------------------------------------
(* The theorems.                                                            *)

\* Always: the ledger is numbered by the balance, and the walk is where its cursor says.
THEOREM QueryInvariance == Spec => []QryInv
<1>1. Init => QryInv
  BY InitQuery
<1>2. QryInv /\ [Next]_vars => QryInv'
  BY StepQuery
<1> QED BY <1>1, <1>2, PTL DEF Spec

\* A walk lists no entry twice, and one that came to its end has listed every entry that
\* was there when it began (the cursor of ListLedger is the position of its last entry).
THEOREM WalksListOnce == Spec => []ListsOnce
<1>1. QryInv => ListsOnce
  <2> SUFFICES ASSUME QryInv PROVE ListsOnce
    OBVIOUS
  <2> DEFINE s == walk.listed
  <2>1. /\ s \in Seq(ledger) /\ Len(s) \in Nat /\ DOMAIN s = 1 .. Len(s)
        /\ \A j, k \in 1 .. Len(s) : j < k => NewerFirst(s[j], s[k])
    BY DEF QryInv, Walk
  <2>2. \A e \in ledger : e.at \in Int /\ e.id \in Int
    BY PartOfLedger DEF QryInv, Rows
  <2> HIDE DEF s
  <2>3. \A k \in 1 .. Len(s) : s[k] \in ledger
    BY <2>1
  <2>4. ASSUME NEW j \in 1 .. Len(s), NEW k \in 1 .. Len(s), s[j] = s[k] PROVE j = k
    <3>1. ~NewerFirst(s[j], s[k]) /\ ~NewerFirst(s[k], s[j])
      BY <2>2, <2>3, <2>4 DEF NewerFirst
    <3>2. ~(j < k) /\ ~(k < j)
      BY <2>1, <3>1
    <3> QED BY <2>1, <3>2
  <2>5. s \in Bijection(1 .. Len(s), ToSet(s))
    <3>1. s \in [1 .. Len(s) -> ToSet(s)]
      BY <2>1 DEF ToSet
    <3>2. \A y \in ToSet(s) : \E k \in 1 .. Len(s) : s[k] = y
      BY <2>1 DEF ToSet
    <3> QED BY <2>1, <2>4, <3>1, <3>2 DEF Bijection, Injection, Surjection, IsInjective
  <2>6. IsFiniteSet(1 .. Len(s)) /\ Cardinality(1 .. Len(s)) = Len(s)
    <3>1. 1 \in Int /\ Len(s) \in Int
      BY <2>1
    <3>2. IsFiniteSet(1 .. Len(s)) /\ Cardinality(1 .. Len(s)) = IF 1 > Len(s) THEN 0 ELSE Len(s) - 1 + 1
      BY <3>1, FS_Interval
    <3> QED BY <2>1, <3>2
  <2>7. Cardinality(ToSet(s)) = Len(s)
    <3>1. ExistsBijection(1 .. Len(s), ToSet(s))
      BY <2>5 DEF ExistsBijection
    <3> QED BY <2>6, <3>1, FS_Bijection
  <2>8. walk.phase = "ended" => walk.base \subseteq ToSet(s)
    BY <2>1 DEF QryInv, Walk, IsListed, ToSet, s
  <2> QED BY <2>7, <2>8 DEF ListsOnce, Listed, s
<1> QED BY <1>1, QueryInvariance, PTL

\* Where the clocks agree, the pages of a walk are together the ledger as it was when the
\* first one was read, from the last movement to the first.
THEOREM WalksAreSnapshots == Spec => []WalkIsSnapshot
<1>1. QryInv => WalkIsSnapshot
  BY DEF QryInv
<1> QED BY <1>1, QueryInvariance, PTL

\* Reconciliation never reports a wallet as divergent (ReconciliationSnapshot reads balance
\* and entries in one statement).
THEOREM ReconciliationIsQuiet == Spec => []NoFalseAlarm
<1>1. QryInv => NoFalseAlarm
  BY DEF QryInv
<1> QED BY <1>1, QueryInvariance, PTL
=============================================================================
