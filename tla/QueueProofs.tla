---------------------------- MODULE QueueProofs ----------------------------
(***************************************************************************)
(* No waiting operation is given up before its reference has had the whole *)
(* time of the configured attempts, for every number of workers, wallets   *)
(* and operations, all delays and attempt limits, and clocks that lag as   *)
(* they like.                                                              *)
(*                                                                         *)
(* The invariant keeps the account of a row: the time it has been there    *)
(* and the time it still has to wait are together at least the delays of   *)
(* the attempts that were made.  A row is claimed when it has nothing left *)
(* to wait for, and is given up at the last attempt; so it has been there  *)
(* for all the delays in between.                                          *)
(*                                                                         *)
(* The last part is about the timestamps of the wallets: it says exactly   *)
(* which clocks a wallet needs to remain readable.                         *)
(***************************************************************************)
EXTENDS ReferenceQueue, SequenceTheorems, SumProofs

-----------------------------------------------------------------------------
(* Sequences: what is removed, and what is inserted.                        *)

\* The element at k is removed, and those behind it move up.
LEMMA Removed ==
  ASSUME NEW S, NEW q \in Seq(S), NEW k \in 1 .. Len(q)
  PROVE  /\ RemoveAt(q, k) \in Seq(S) /\ Len(RemoveAt(q, k)) = Len(q) - 1
         /\ \A a \in 1 .. Len(q) - 1 : RemoveAt(q, k)[a] = IF a < k THEN q[a] ELSE q[a + 1]
<1> DEFINE l == SubSeq(q, 1, k - 1)
           r == SubSeq(q, k + 1, Len(q))
<1>1. Len(q) \in Nat /\ k \in Nat /\ \A a \in 1 .. Len(q) : q[a] \in S
  OBVIOUS
<1>2. l \in Seq(S) /\ Len(l) = k - 1 /\ \A a \in 1 .. k - 1 : l[a] = q[a]
  <2>1. \A a \in 1 .. k - 1 : q[a] \in S
    BY <1>1
  <2>2. 1 \in Int /\ k - 1 \in Int
    BY <1>1
  <2>3. /\ l \in Seq(S) /\ Len(l) = IF 1 <= k - 1 THEN k - 1 - 1 + 1 ELSE 0
        /\ \A a \in 1 .. k - 1 - 1 + 1 : l[a] = q[1 + a - 1]
    BY <2>1, <2>2, SubSeqProperties
  <2>4. /\ (IF 1 <= k - 1 THEN k - 1 - 1 + 1 ELSE 0) = k - 1 /\ k - 1 - 1 + 1 = k - 1
        /\ \A a \in 1 .. k - 1 : 1 + a - 1 = a
    BY <1>1
  <2> HIDE DEF l
  <2> QED BY <2>3, <2>4
<1>3. r \in Seq(S) /\ Len(r) = Len(q) - k /\ \A a \in 1 .. Len(q) - k : r[a] = q[k + a]
  <2>1. \A a \in k + 1 .. Len(q) : q[a] \in S
    BY <1>1
  <2>2. k + 1 \in Int /\ Len(q) \in Int
    BY <1>1
  <2>3. /\ r \in Seq(S) /\ Len(r) = IF k + 1 <= Len(q) THEN Len(q) - (k + 1) + 1 ELSE 0
        /\ \A a \in 1 .. Len(q) - (k + 1) + 1 : r[a] = q[k + 1 + a - 1]
    BY <2>1, <2>2, SubSeqProperties
  <2> HIDE DEF r
  <2> QED BY <1>1, <2>3
<1>4. RemoveAt(q, k) = l \o r
  BY DEF RemoveAt
<1> HIDE DEF l, r
<1>5. /\ l \o r \in Seq(S) /\ Len(l \o r) = Len(l) + Len(r)
      /\ \A a \in 1 .. Len(l) + Len(r) : (l \o r)[a] = IF a <= Len(l) THEN l[a] ELSE r[a - Len(l)]
  BY <1>2, <1>3, ConcatProperties
<1> QED BY <1>1, <1>2, <1>3, <1>4, <1>5

\* An element is inserted at k, and those behind it make room.
LEMMA Inserted ==
  ASSUME NEW S, NEW q \in Seq(S), NEW k \in 1 .. Len(q) + 1, NEW e \in S
  PROVE  /\ InsertAt(q, k, e) \in Seq(S) /\ Len(InsertAt(q, k, e)) = Len(q) + 1
         /\ \A a \in 1 .. Len(q) + 1 : /\ a < k => InsertAt(q, k, e)[a] = q[a]
                                       /\ a > k => InsertAt(q, k, e)[a] = q[a - 1]
         /\ InsertAt(q, k, e)[k] = e
<1> DEFINE l == SubSeq(q, 1, k - 1)
           r == SubSeq(q, k, Len(q))
           m == l \o <<e>>
<1>1. Len(q) \in Nat /\ k \in Nat /\ \A a \in 1 .. Len(q) : q[a] \in S
  OBVIOUS
<1>2. l \in Seq(S) /\ Len(l) = k - 1 /\ \A a \in 1 .. k - 1 : l[a] = q[a]
  <2>1. \A a \in 1 .. k - 1 : q[a] \in S
    BY <1>1
  <2>2. 1 \in Int /\ k - 1 \in Int
    BY <1>1
  <2>3. /\ l \in Seq(S) /\ Len(l) = IF 1 <= k - 1 THEN k - 1 - 1 + 1 ELSE 0
        /\ \A a \in 1 .. k - 1 - 1 + 1 : l[a] = q[1 + a - 1]
    BY <2>1, <2>2, SubSeqProperties
  <2>4. /\ (IF 1 <= k - 1 THEN k - 1 - 1 + 1 ELSE 0) = k - 1 /\ k - 1 - 1 + 1 = k - 1
        /\ \A a \in 1 .. k - 1 : 1 + a - 1 = a
    BY <1>1
  <2> HIDE DEF l
  <2> QED BY <2>3, <2>4
<1>3. r \in Seq(S) /\ Len(r) = Len(q) - k + 1 /\ \A a \in 1 .. Len(q) - k + 1 : r[a] = q[k + a - 1]
  <2>1. \A a \in k .. Len(q) : q[a] \in S
    BY <1>1
  <2>2. k \in Int /\ Len(q) \in Int
    BY <1>1
  <2>3. /\ r \in Seq(S) /\ Len(r) = IF k <= Len(q) THEN Len(q) - k + 1 ELSE 0
        /\ \A a \in 1 .. Len(q) - k + 1 : r[a] = q[k + a - 1]
    BY <2>1, <2>2, SubSeqProperties
  <2> HIDE DEF r
  <2> QED BY <1>1, <2>3
<1>4. InsertAt(q, k, e) = m \o r
  BY DEF InsertAt
<1>5. m \in Seq(S) /\ Len(m) = k /\ \A a \in 1 .. k : m[a] = IF a < k THEN q[a] ELSE e
  <2>1. <<e>> \in Seq(S) /\ Len(<<e>>) = 1 /\ <<e>>[1] = e
    OBVIOUS
  <2> HIDE DEF l
  <2>2. /\ m \in Seq(S) /\ Len(m) = Len(l) + Len(<<e>>)
        /\ \A a \in 1 .. Len(l) + Len(<<e>>) : m[a] = IF a <= Len(l) THEN l[a] ELSE <<e>>[a - Len(l)]
    BY <1>2, <2>1, ConcatProperties
  <2> HIDE DEF m
  <2> QED BY <1>1, <1>2, <2>1, <2>2
<1> HIDE DEF m, r
<1>6. /\ m \o r \in Seq(S) /\ Len(m \o r) = Len(m) + Len(r)
      /\ \A a \in 1 .. Len(m) + Len(r) : (m \o r)[a] = IF a <= Len(m) THEN m[a] ELSE r[a - Len(m)]
  BY <1>3, <1>5, ConcatProperties
<1> QED BY <1>1, <1>3, <1>4, <1>5, <1>6

\* No element comes twice.
Distinct(q) == \A a, b \in 1 .. Len(q) : q[a] = q[b] => a = b

\* What is left without an element that came once.
LEMMA RemovedSet ==
  ASSUME NEW S, NEW q \in Seq(S), Distinct(q), NEW k \in 1 .. Len(q)
  PROVE  Distinct(RemoveAt(q, k)) /\ ToSet(RemoveAt(q, k)) = ToSet(q) \ {q[k]}
<1> DEFINE t == RemoveAt(q, k)
<1>1. Len(q) \in Nat /\ k \in Nat /\ DOMAIN q = 1 .. Len(q)
  OBVIOUS
<1>2. /\ t \in Seq(S) /\ Len(t) = Len(q) - 1
      /\ \A a \in 1 .. Len(q) - 1 : t[a] = IF a < k THEN q[a] ELSE q[a + 1]
  BY Removed
<1> HIDE DEF t
<1>3. DOMAIN t = 1 .. Len(q) - 1
  BY <1>1, <1>2
<1>4. Distinct(t)
  BY <1>1, <1>2 DEF Distinct
<1>5. ASSUME NEW a \in DOMAIN t PROVE t[a] \in ToSet(q) \ {q[k]}
  <2>1. \E b \in 1 .. Len(q) : b # k /\ t[a] = q[b]
    BY <1>1, <1>2, <1>3
  <2> QED BY <1>1, <2>1 DEF ToSet, Distinct
<1>6. ASSUME NEW b \in DOMAIN q, b # k PROVE q[b] \in ToSet(t)
  <2>1. CASE b < k
    BY <1>1, <1>2, <1>3, <2>1 DEF ToSet
  <2>2. CASE b > k
    <3>1. b - 1 \in DOMAIN t /\ t[b - 1] = q[b]
      BY <1>1, <1>2, <1>3, <2>2
    <3> QED BY <3>1 DEF ToSet
  <2> QED BY <1>1, <1>6, <2>1, <2>2
<1>7. ToSet(t) = ToSet(q) \ {q[k]}
  BY <1>5, <1>6 DEF ToSet
<1> QED BY <1>4, <1>7 DEF t

\* What is there with one that is new.
LEMMA InsertedSet ==
  ASSUME NEW S, NEW q \in Seq(S), Distinct(q), NEW k \in 1 .. Len(q) + 1, NEW e \in S, e \notin ToSet(q)
  PROVE  Distinct(InsertAt(q, k, e)) /\ ToSet(InsertAt(q, k, e)) = ToSet(q) \cup {e}
<1> DEFINE t == InsertAt(q, k, e)
<1>1. Len(q) \in Nat /\ k \in Nat /\ DOMAIN q = 1 .. Len(q)
  OBVIOUS
<1>2. /\ t \in Seq(S) /\ Len(t) = Len(q) + 1
      /\ \A a \in 1 .. Len(q) + 1 : (a < k => t[a] = q[a]) /\ (a > k => t[a] = q[a - 1])
      /\ t[k] = e
  <2>1. /\ t \in Seq(S) /\ Len(t) = Len(q) + 1 /\ t[k] = e
        /\ \A a \in 1 .. Len(q) + 1 : /\ a < k => t[a] = q[a]
                                      /\ a > k => t[a] = q[a - 1]
    BY Inserted
  <2> HIDE DEF t
  <2> QED BY <2>1
<1> HIDE DEF t
<1>3. DOMAIN t = 1 .. Len(q) + 1
  BY <1>1, <1>2
<1>4. \A b \in 1 .. Len(q) : q[b] # e
  BY <1>1 DEF ToSet
<1>5. Distinct(t)
  <2> SUFFICES ASSUME NEW a \in 1 .. Len(q) + 1, NEW b \in 1 .. Len(q) + 1, t[a] = t[b], a # b PROVE FALSE
    BY <1>2 DEF Distinct
  <2>1. ASSUME NEW c \in 1 .. Len(q) + 1
        PROVE  \/ c < k /\ c \in 1 .. Len(q) /\ t[c] = q[c]
               \/ c = k /\ t[c] = e
               \/ c > k /\ c - 1 \in 1 .. Len(q) /\ t[c] = q[c - 1]
    BY <1>1, <1>2
  <2>2. a # k /\ b # k
    BY <1>4, <2>1
  <2> QED BY <1>1, <2>1, <2>2 DEF Distinct
<1>6. ASSUME NEW a \in DOMAIN t PROVE t[a] \in ToSet(q) \cup {e}
  <2>1. t[a] = e \/ \E b \in 1 .. Len(q) : t[a] = q[b]
    BY <1>1, <1>2, <1>3
  <2> QED BY <1>1, <2>1 DEF ToSet
<1>7. e \in ToSet(t)
  BY <1>1, <1>2, <1>3 DEF ToSet
<1>8. ASSUME NEW b \in DOMAIN q PROVE q[b] \in ToSet(t)
  <2>1. CASE b < k
    BY <1>1, <1>2, <1>3, <2>1 DEF ToSet
  <2>2. CASE b >= k
    <3>1. b + 1 \in DOMAIN t /\ t[b + 1] = q[b]
      BY <1>1, <1>2, <1>3, <2>2
    <3> QED BY <3>1 DEF ToSet
  <2> QED BY <1>1, <2>1, <2>2
<1>9. ToSet(t) = ToSet(q) \cup {e}
  BY <1>6, <1>7, <1>8 DEF ToSet
<1> QED BY <1>5, <1>9 DEF t

-----------------------------------------------------------------------------
(* The constants.                                                           *)

\* The delays before attempt n + 1.
Paid(n) == SumOver(Delay, 1 .. n)

\* Each delay adds to those before it.
LEMMA PaidGrows ==
  /\ Paid(0) = 0
  /\ \A n \in 0 .. MaxAttempts : Paid(n) \in Nat
  /\ \A n \in 1 .. MaxAttempts : Paid(n) = Paid(n - 1) + Delay[n] /\ Delay[n] \in Nat
<1>1. MaxAttempts \in Nat /\ \A n \in 1 .. MaxAttempts : Delay[n] \in Nat
  BY QueueAssumption
<1>2. \A n \in 0 .. MaxAttempts : IsFiniteSet(1 .. n) /\ \A x \in 1 .. n : Delay[x] \in Nat
  <2> SUFFICES ASSUME NEW n \in 0 .. MaxAttempts PROVE IsFiniteSet(1 .. n) /\ \A x \in 1 .. n : Delay[x] \in Nat
    OBVIOUS
  <2>1. 1 \in Int /\ n \in Int
    BY <1>1
  <2> QED BY <1>1, <2>1, FS_Interval
<1>3. Paid(0) = 0
  <2>1. 1 .. 0 = {}
    OBVIOUS
  <2> QED BY <2>1, SumEmpty DEF Paid
<1>4. ASSUME NEW n \in 0 .. MaxAttempts PROVE Paid(n) \in Nat
  BY <1>2, SumNat DEF Paid
<1>5. ASSUME NEW n \in 1 .. MaxAttempts PROVE Paid(n) = Paid(n - 1) + Delay[n] /\ Delay[n] \in Nat
  <2>1. 1 .. n = (1 .. n - 1) \cup {n} /\ n \notin 1 .. n - 1 /\ n - 1 \in 0 .. MaxAttempts
    BY <1>1
  <2>2. IsFiniteSet(1 .. n - 1) /\ \A x \in 1 .. n - 1 : Delay[x] \in Int
    BY <1>2, <2>1
  <2>3. Delay[n] \in Int /\ Delay[n] \in Nat
    BY <1>1
  <2> QED BY <2>1, <2>2, <2>3, SumAdd DEF Paid
<1> QED BY <1>3, <1>4, <1>5

\* The window is made of the delays between the attempts.
LEMMA WindowPaid == Window = Paid(MaxAttempts - 1) /\ Window \in Nat
<1> DEFINE S == 1 .. MaxAttempts - 1
           P(g) == g = [s \in SUBSET S |->
                          IF s = {} THEN 0
                          ELSE Delay[CHOOSE x \in s : TRUE] + g[s \ {CHOOSE x \in s : TRUE}]]
<1>1. ASSUME NEW g PROVE P(g) <=> Sums(g, Delay, S)
  BY DEF Sums, Pick
<1>2. Window = (CHOOSE g : P(g))[S]
  BY DEF Window, FoldFunctionOnSet, MapThenFoldSet
<1>3. IsFiniteSet(S) /\ MaxAttempts - 1 \in 0 .. MaxAttempts
  <2>1. 1 \in Int /\ MaxAttempts - 1 \in Int /\ MaxAttempts - 1 \in 0 .. MaxAttempts
    BY QueueAssumption
  <2> QED BY <2>1, FS_Interval
<1> HIDE DEF P, S
<1>4. PICK h : Sums(h, Delay, S)
  BY <1>3, SumsExist
<1>5. P(CHOOSE g : P(g))
  BY <1>1, <1>4
<1>6. Sums(CHOOSE g : P(g), Delay, S) /\ Sums(CHOOSE g : Sums(g, Delay, S), Delay, S)
  BY <1>1, <1>3, <1>5, SumsExist
<1>7. (CHOOSE g : P(g))[S] = (CHOOSE g : Sums(g, Delay, S))[S]
  BY <1>3, <1>6, SumsAgree
<1>8. Window = SumOver(Delay, S)
  BY <1>2, <1>7 DEF SumOver
<1>9. Window = Paid(MaxAttempts - 1)
  BY <1>8 DEF Paid, S
<1> QED BY <1>3, <1>9, PaidGrows

\* A bounded set of natural numbers has a greatest element.
LEMMA Greatest ==
  ASSUME NEW S \in SUBSET Nat, S # {}, NEW b \in Nat, \A y \in S : y <= b
  PROVE  Max(S) \in S /\ \A y \in S : y <= Max(S)
<1> DEFINE T == {n \in Nat : \A y \in S : y <= n}
<1>1. b \in T
  OBVIOUS
<1>2. PICK n \in T : \A m \in T : n <= m
  BY <1>1, Least
<1>3. n \in S
  <2> SUFFICES ASSUME n \notin S PROVE FALSE
    OBVIOUS
  <2>1. \A y \in S : y \in Nat /\ y <= n - 1
    BY <1>2
  <2>2. n - 1 \in Nat
    <3>1. PICK y \in S : TRUE
      OBVIOUS
    <3> QED BY <1>2, <2>1, <3>1
  <2>3. n - 1 \in T
    BY <2>1, <2>2
  <2> QED BY <1>2, <2>3
<1>4. \E x \in S : \A y \in S : x >= y
  BY <1>2, <1>3
<1>5. Max(S) \in S /\ \A y \in S : Max(S) >= y
  BY <1>4 DEF Max
<1>6. \A y \in S : y \in Nat
  OBVIOUS
<1> QED BY <1>5, <1>6

\* Ages are counted at least as far as the window and the lag of any clock reach.
LEMMA HorizonFar == /\ Horizon \in Nat /\ Window <= Horizon
                    /\ \A i \in Instances : Lag[i] <= Horizon
<1> DEFINE S == {Window} \cup Range(Lag)
           b == Window + SumOver(Lag, Instances)
<1>1. S \in SUBSET Nat /\ S # {} /\ Window \in Nat
  BY WindowPaid, QueueAssumption DEF Range
<1>2. SumOver(Lag, Instances) \in Nat /\ \A i \in Instances : Lag[i] <= SumOver(Lag, Instances)
  <2>1. IsFiniteSet(Instances) /\ \A i \in Instances : Lag[i] \in Nat
    BY QueueAssumption
  <2> QED BY <2>1, SumNat
<1>3. b \in Nat /\ \A y \in S : y <= b
  <2>1. \A y \in Range(Lag) : \E i \in Instances : y = Lag[i] /\ y \in Nat
    BY QueueAssumption DEF Range
  <2> QED BY <1>1, <1>2, <2>1
<1>4. Window \in S /\ Horizon = Max(S) /\ \A i \in Instances : Lag[i] \in S
  BY QueueAssumption DEF Horizon, Range
<1> HIDE DEF S, b
<1>5. Max(S) \in S /\ \A y \in S : y <= Max(S)
  BY <1>1, <1>3, Greatest
<1> QED BY <1>1, <1>4, <1>5

-----------------------------------------------------------------------------
(* The invariant.                                                           *)

RowSet == [status : {"none", "waiting", "processed", "notFound"}, attempts : 0 .. MaxAttempts,
           wait : Nat, age : 0 .. Horizon, creator : Instances \cup {Nil}]

\* The wallets and the calls.
Around ==
  /\ age \in [Wallets -> -1 .. Horizon] /\ broken \subseteq Wallets
  /\ lock \in [Wallets -> Instances \cup {Nil}]
  /\ arrived \subseteq Operations /\ calls \in 0 .. MaxCalls

\* The queue holds the rows that wait, each once.
Lined ==
  /\ queue \in Seq(Operations) /\ Distinct(queue) /\ ToSet(queue) = Waiting
  /\ IsFiniteSet(Waiting) /\ Len(queue) = Cardinality(Waiting)

\* They come in the order of their next attempts.
Sorted == \A a, b \in 1 .. Len(queue) : a < b => row[queue[a]].wait <= row[queue[b]].wait

\* What row o has waited for, and still has to, pays for the attempts that were made.
PaidFor(o) ==
  /\ row[o].attempts < MaxAttempts
  /\ row[o].age = Horizon \/ row[o].age + row[o].wait >= Paid(row[o].attempts)

WInv ==
  /\ Around /\ row \in [Operations -> RowSet] /\ Lined /\ Sorted
  /\ \A o \in Waiting : PaidFor(o)
  /\ WaitsFullWindow

\* A row that is written.
LEMMA Written ==
  ASSUME WInv, NEW o \in Operations, NEW x \in RowSet, row' = [row EXCEPT ![o] = x]
  PROVE  /\ row' \in [Operations -> RowSet] /\ row'[o] = x
         /\ \A y \in Operations \ {o} : row'[y] = row[y]
         /\ Waiting' = IF x.status = "waiting" THEN Waiting \cup {o} ELSE Waiting \ {o}
<1>1. /\ row' \in [Operations -> RowSet] /\ row'[o] = x
      /\ \A y \in Operations \ {o} : row'[y] = row[y]
  BY DEF WInv
<1> QED BY <1>1 DEF Waiting

\* What is known of the rows that were not written.
LEMMA OthersPaid ==
  ASSUME WInv, NEW o \in Operations, \A y \in Operations \ {o} : row'[y] = row[y],
         o \in Waiting' => PaidFor(o)', row'[o].status = "notFound" => row'[o].age >= Window
  PROVE  (\A y \in Waiting' : PaidFor(y)') /\ WaitsFullWindow'
<1>1. ASSUME NEW y \in Waiting', y # o PROVE PaidFor(y)'
  BY <1>1 DEF WInv, Waiting, PaidFor, Paid
<1>2. \A y \in Operations : row'[y].status = "notFound" => row'[y].age >= Window
  BY DEF WInv, WaitsFullWindow
<1> QED BY <1>1, <1>2 DEF WaitsFullWindow

\* The wait by which the queue is ordered while row o is given wait d.
WaitOf(x, o, d) == IF x = o THEN d ELSE row[x].wait

\* A row that is put into the queue finds its place.
LEMMA Enqueues ==
  ASSUME NEW q \in Seq(Operations), Distinct(q), NEW o \in Operations, o \notin ToSet(q), NEW d,
         NEW s \in Enqueued(q, o, d)
  PROVE  /\ s \in Seq(Operations) /\ Distinct(s) /\ ToSet(s) = ToSet(q) \cup {o}
         /\ Len(s) = Len(q) + 1
         /\ \A a, b \in 1 .. Len(s) : a < b => WaitOf(s[a], o, d) <= WaitOf(s[b], o, d)
<1>1. PICK k \in 1 .. Len(q) + 1 : s = InsertAt(q, k, o)
  BY DEF Enqueued
<1>2. s \in Seq(Operations) /\ Len(s) = Len(q) + 1
  BY <1>1, Inserted
<1>3. Distinct(s) /\ ToSet(s) = ToSet(q) \cup {o}
  BY <1>1, InsertedSet
<1>4. \A a, b \in 1 .. Len(s) : a < b => WaitOf(s[a], o, d) <= WaitOf(s[b], o, d)
  BY DEF Enqueued, WaitOf
<1> QED BY <1>2, <1>3, <1>4

\* Operation o comes before its reference, and waits.
LEMMA SubmitWaits ==
  ASSUME WInv, NEW i \in Instances, NEW o \in Operations, Submit(i, o)
  PROVE  WInv'
<1> DEFINE x == [status |-> "waiting", attempts |-> 0, wait |-> 0, age |-> 0, creator |-> i]
<1>1. /\ row[o].status = "none" /\ row' = [row EXCEPT ![o] = x] /\ queue' \in Enqueued(queue, o, 0)
      /\ UNCHANGED <<age, calls, broken, arrived>> /\ lock' = [lock EXCEPT ![WalletOf[o]] = Nil]
  <2>1. [NoRow EXCEPT !.status = "waiting", !.creator = i] = x
    <3>1. NoRow = [status |-> "none", attempts |-> 0, wait |-> 0, age |-> 0, creator |-> Nil]
      BY DEF NoRow
    <3>2. [NoRow EXCEPT !.status = "waiting"] =
            [status |-> "waiting", attempts |-> 0, wait |-> 0, age |-> 0, creator |-> Nil]
      BY <3>1
    <3>3. [NoRow EXCEPT !.status = "waiting", !.creator = i] =
            [[NoRow EXCEPT !.status = "waiting"] EXCEPT !.creator = i]
      OBVIOUS
    <3> DEFINE u == [status |-> "waiting", attempts |-> 0, wait |-> 0, age |-> 0, creator |-> Nil]
    <3>4. [u EXCEPT !.creator = i] = x
      OBVIOUS
    <3> HIDE DEF u, x
    <3>5. [NoRow EXCEPT !.status = "waiting"] = u
      BY <3>2 DEF u
    <3> QED BY <3>3, <3>4, <3>5
  <2> QED BY <2>1 DEF Submit, Unlock
<1>2. x \in RowSet /\ x.status = "waiting" /\ x.attempts = 0 /\ x.wait = 0 /\ x.age = 0
  BY HorizonFar, QueueAssumption DEF RowSet
<1> HIDE DEF x
<1>3. /\ row' \in [Operations -> RowSet] /\ row'[o] = x
      /\ \A y \in Operations \ {o} : row'[y] = row[y]
      /\ Waiting' = Waiting \cup {o}
  BY <1>1, <1>2, Written
<1>4. o \notin Waiting
  BY <1>1 DEF Waiting
<1>5. /\ queue' \in Seq(Operations) /\ Distinct(queue') /\ ToSet(queue') = Waiting \cup {o}
      /\ Len(queue') = Len(queue) + 1
      /\ \A a, b \in 1 .. Len(queue') : a < b => WaitOf(queue'[a], o, 0) <= WaitOf(queue'[b], o, 0)
  BY <1>1, <1>4, Enqueues DEF WInv, Lined
<1>6. Lined'
  <2>1. IsFiniteSet(Waiting') /\ Cardinality(Waiting') = Cardinality(Waiting) + 1
    BY <1>3, <1>4, FS_AddElement DEF WInv, Lined
  <2> QED BY <1>3, <1>5, <2>1 DEF WInv, Lined, Distinct, ToSet
<1>7. Sorted'
  <2>1. \A a \in 1 .. Len(queue') : queue'[a] \in Operations
    BY <1>5
  <2>2. \A y \in Operations : row'[y].wait = WaitOf(y, o, 0)
    BY <1>2, <1>3 DEF WaitOf
  <2> QED BY <1>5, <2>1, <2>2 DEF Sorted
<1>8. (\A y \in Waiting' : PaidFor(y)') /\ WaitsFullWindow'
  <2>1. PaidFor(o)'
    BY <1>2, <1>3, PaidGrows, QueueAssumption DEF PaidFor, Paid
  <2> QED BY <1>2, <1>3, <2>1, OthersPaid
<1>9. Around'
  BY <1>1 DEF WInv, Around
<1> QED BY <1>3, <1>6, <1>7, <1>8, <1>9 DEF WInv

\* The elements of the queue are the rows that wait.
LEMMA AtPlace ==
  ASSUME WInv, NEW k \in 1 .. Len(queue)
  PROVE  /\ queue[k] \in Operations /\ queue[k] \in Waiting
         /\ row[queue[k]] \in RowSet /\ row[queue[k]].status = "waiting" /\ PaidFor(queue[k])
<1>1. queue \in Seq(Operations) /\ ToSet(queue) = Waiting
  BY DEF WInv, Lined
<1>2. k \in DOMAIN queue
  BY <1>1
<1>3. queue[k] \in ToSet(queue)
  BY <1>2 DEF ToSet
<1>4. queue[k] \in Waiting
  BY <1>1, <1>3
<1> QED BY <1>4 DEF WInv, Waiting

\* The queue stays when none of its rows is written.
LEMMA QueueKept ==
  ASSUME WInv, queue' = queue, Waiting' = Waiting, \A y \in Waiting : row'[y] = row[y]
  PROVE  Lined' /\ Sorted'
<1>1. Lined'
  BY DEF WInv, Lined, Distinct, ToSet
<1>2. \A a \in 1 .. Len(queue) : row'[queue[a]] = row[queue[a]]
  BY AtPlace
<1>3. Sorted'
  BY <1>2 DEF WInv, Sorted
<1> QED BY <1>1, <1>3

\* Everything stays when neither the rows nor the queue change.
LEMMA RowsKept ==
  ASSUME WInv, UNCHANGED <<row, queue>>, Around'
  PROVE  WInv'
<1>1. Waiting' = Waiting
  BY DEF Waiting
<1>2. Lined' /\ Sorted'
  BY <1>1, QueueKept
<1>3. (\A o \in Waiting' : PaidFor(o)') /\ WaitsFullWindow'
  BY <1>1 DEF WInv, PaidFor, Paid, WaitsFullWindow
<1> QED BY <1>2, <1>3 DEF WInv

\* A wallet that is moved is one of the wallets.
LEMMA BrokenWallets ==
  ASSUME WInv, NEW i, NEW w \in Wallets
  PROVE  BrokenBy(i, w) \subseteq Wallets
BY DEF WInv, Around, BrokenBy

\* Operation o comes after its reference, and is processed.
LEMMA SubmitLateWaits ==
  ASSUME WInv, NEW i \in Instances, NEW o \in Operations, SubmitLate(i, o)
  PROVE  WInv'
<1> DEFINE x == [status |-> "processed", attempts |-> 0, wait |-> 0, age |-> 0, creator |-> i]
<1>1. /\ row[o].status = "none" /\ row' = [row EXCEPT ![o] = x] /\ queue' = queue
      /\ UNCHANGED <<age, calls, arrived>> /\ lock' = [lock EXCEPT ![WalletOf[o]] = Nil]
      /\ broken' = BrokenBy(i, WalletOf[o])
  <2>1. [NoRow EXCEPT !.status = "processed", !.creator = i] = x
    <3>1. NoRow = [status |-> "none", attempts |-> 0, wait |-> 0, age |-> 0, creator |-> Nil]
      BY DEF NoRow
    <3> DEFINE u == [status |-> "processed", attempts |-> 0, wait |-> 0, age |-> 0, creator |-> Nil]
    <3>2. [NoRow EXCEPT !.status = "processed"] = u
      BY <3>1
    <3>3. [NoRow EXCEPT !.status = "processed", !.creator = i] =
            [[NoRow EXCEPT !.status = "processed"] EXCEPT !.creator = i]
      OBVIOUS
    <3>4. [u EXCEPT !.creator = i] = x
      OBVIOUS
    <3> HIDE DEF u, x
    <3> QED BY <3>2, <3>3, <3>4
  <2> QED BY <2>1 DEF SubmitLate, Unlock
<1>2. x \in RowSet /\ x.status = "processed"
  BY HorizonFar, QueueAssumption DEF RowSet
<1> HIDE DEF x
<1>3. /\ row' \in [Operations -> RowSet] /\ row'[o] = x
      /\ \A y \in Operations \ {o} : row'[y] = row[y]
      /\ Waiting' = Waiting \ {o}
  BY <1>1, <1>2, Written
<1>4. o \notin Waiting
  BY <1>1 DEF Waiting
<1>5. Waiting' = Waiting /\ \A y \in Waiting : row'[y] = row[y]
  BY <1>3, <1>4 DEF Waiting
<1>6. Lined' /\ Sorted'
  BY <1>1, <1>5, QueueKept
<1>7. (\A y \in Waiting' : PaidFor(y)') /\ WaitsFullWindow'
  <2>1. o \notin Waiting'
    BY <1>4, <1>5
  <2>2. row'[o].status # "notFound"
    BY <1>2, <1>3
  <2> QED BY <1>3, <2>1, <2>2, OthersPaid
<1>8. Around'
  <2>1. WalletOf[o] \in Wallets
    BY QueueAssumption
  <2>2. broken' \subseteq Wallets
    BY <1>1, <2>1, BrokenWallets
  <2> QED BY <1>1, <2>1, <2>2 DEF WInv, Around
<1> QED BY <1>3, <1>6, <1>7, <1>8 DEF WInv

\* Calls that only lock, move and release wallets.
LEMMA WalletSteps ==
  ASSUME WInv, NEW w \in Wallets,
         \/ Open(w)
         \/ \E i \in Instances : LockWallet(i, w) \/ Move(i, w) \/ Release(i, w)
  PROVE  WInv'
<1>1. UNCHANGED <<row, queue>>
  BY DEF Open, LockWallet, Move, Release
<1>2. Around'
  <2>1. CASE Open(w)
    <3>1. age' \in [Wallets -> -1 .. Horizon]
      BY <2>1, HorizonFar DEF WInv, Around, Open
    <3> QED BY <2>1, <3>1 DEF WInv, Around, Open
  <2>2. ASSUME NEW i \in Instances, LockWallet(i, w) PROVE Around'
    <3>1. lock' \in [Wallets -> Instances \cup {Nil}]
      BY <2>2 DEF WInv, Around, LockWallet
    <3>2. calls' \in 0 .. MaxCalls
      BY <2>2, QueueAssumption DEF WInv, Around, LockWallet
    <3> QED BY <2>2, <3>1, <3>2 DEF WInv, Around, LockWallet
  <2>3. ASSUME NEW i \in Instances, Move(i, w) \/ Release(i, w) PROVE Around'
    <3>1. lock' \in [Wallets -> Instances \cup {Nil}]
      BY <2>3 DEF WInv, Around, Move, Release, Unlock
    <3>2. broken' \subseteq Wallets
      BY <2>3, BrokenWallets DEF WInv, Around, Move, Release
    <3>3. arrived' \subseteq Operations
      BY <2>3 DEF WInv, Around, Move, Release
    <3> QED BY <2>3, <3>1, <3>2, <3>3 DEF WInv, Around, Move, Release, Unlock
  <2> QED BY <2>1, <2>2, <2>3
<1> QED BY <1>1, <1>2, RowsKept

-----------------------------------------------------------------------------
(* The worker.                                                              *)

\* The row of an operation after an attempt that decided it.
Final(o, status) == [status |-> status, attempts |-> row[o].attempts + 1, wait |-> row[o].wait,
                     age |-> row[o].age, creator |-> row[o].creator]

\* The row of an operation after an attempt that did not.
Postponed(o, n) == [status |-> row[o].status, attempts |-> n, wait |-> Delay[n],
                    age |-> row[o].age, creator |-> row[o].creator]

\* Both are written over the row.
LEMMA Rewritten ==
  ASSUME WInv, NEW o \in Operations, NEW status, NEW n
  PROVE  /\ [row EXCEPT ![o].status = status, ![o].attempts = @ + 1] = [row EXCEPT ![o] = Final(o, status)]
         /\ [row EXCEPT ![o].attempts = n, ![o].wait = Delay[n]] = [row EXCEPT ![o] = Postponed(o, n)]
<1> DEFINE r == row[o]
<1>1. /\ r \in RowSet /\ row \in [Operations -> RowSet]
      /\ r = [status |-> r.status, attempts |-> r.attempts, wait |-> r.wait, age |-> r.age, creator |-> r.creator]
  BY DEF WInv, RowSet
<1>2. [row EXCEPT ![o].status = status, ![o].attempts = @ + 1] = [row EXCEPT ![o] = Final(o, status)]
  <2>1. [r EXCEPT !.status = status, !.attempts = @ + 1] = Final(o, status)
    <3> DEFINE u == [status |-> r.status, attempts |-> r.attempts, wait |-> r.wait, age |-> r.age, creator |-> r.creator]
               v == [status |-> status, attempts |-> r.attempts, wait |-> r.wait, age |-> r.age, creator |-> r.creator]
    <3>1. [u EXCEPT !.status = status] = v
      OBVIOUS
    <3>2. [v EXCEPT !.attempts = @ + 1] = Final(o, status)
      BY DEF Final
    <3>3. [r EXCEPT !.status = status, !.attempts = @ + 1] = [[r EXCEPT !.status = status] EXCEPT !.attempts = @ + 1]
      OBVIOUS
    <3>4. r = u
      BY <1>1
    <3> HIDE DEF u, v, r
    <3> QED BY <3>1, <3>2, <3>3, <3>4
  <2>2. [row EXCEPT ![o].status = status, ![o].attempts = @ + 1] =
          [row EXCEPT ![o] = [r EXCEPT !.status = status, !.attempts = @ + 1]]
    BY <1>1
  <2> HIDE DEF r
  <2> QED BY <2>1, <2>2
<1>3. [row EXCEPT ![o].attempts = n, ![o].wait = Delay[n]] = [row EXCEPT ![o] = Postponed(o, n)]
  <2>1. [r EXCEPT !.attempts = n, !.wait = Delay[n]] = Postponed(o, n)
    <3> DEFINE u == [status |-> r.status, attempts |-> r.attempts, wait |-> r.wait, age |-> r.age, creator |-> r.creator]
               v == [status |-> r.status, attempts |-> n, wait |-> r.wait, age |-> r.age, creator |-> r.creator]
    <3>1. [u EXCEPT !.attempts = n] = v
      OBVIOUS
    <3>2. [v EXCEPT !.wait = Delay[n]] = Postponed(o, n)
      BY DEF Postponed
    <3>3. [r EXCEPT !.attempts = n, !.wait = Delay[n]] = [[r EXCEPT !.attempts = n] EXCEPT !.wait = Delay[n]]
      OBVIOUS
    <3>4. r = u
      BY <1>1
    <3> HIDE DEF u, v, r
    <3> QED BY <3>1, <3>2, <3>3, <3>4
  <2>2. [row EXCEPT ![o].attempts = n, ![o].wait = Delay[n]] =
          [row EXCEPT ![o] = [r EXCEPT !.attempts = n, !.wait = Delay[n]]]
    BY <1>1
  <2> HIDE DEF r
  <2> QED BY <2>1, <2>2
<1> QED BY <1>2, <1>3

\* The queue without the row at k.
LEMMA Without ==
  ASSUME WInv, NEW k \in 1 .. Len(queue)
  PROVE  /\ RemoveAt(queue, k) \in Seq(Operations) /\ Distinct(RemoveAt(queue, k))
         /\ ToSet(RemoveAt(queue, k)) = Waiting \ {queue[k]}
         /\ Len(RemoveAt(queue, k)) = Len(queue) - 1
         /\ IsFiniteSet(Waiting \ {queue[k]}) /\ Cardinality(Waiting \ {queue[k]}) = Len(queue) - 1
<1>1. queue \in Seq(Operations) /\ Distinct(queue) /\ ToSet(queue) = Waiting
  BY DEF WInv, Lined
<1>2. IsFiniteSet(Waiting \ {queue[k]}) /\ Cardinality(Waiting \ {queue[k]}) = Len(queue) - 1
  BY AtPlace, FS_RemoveElement DEF WInv, Lined
<1> QED BY <1>1, <1>2, Removed, RemovedSet

\* The row at k is decided.
LEMMA DecideWaits ==
  ASSUME WInv, NEW i \in Instances, NEW k \in 1 .. Len(queue), NEW status \in {"processed", "notFound"},
         NEW wallets \in SUBSET Wallets, Decide(i, k, status, wallets),
         UNCHANGED <<age, lock, arrived, calls>>,
         status = "notFound" => row[queue[k]].age >= Window
  PROVE  WInv'
<1> DEFINE o == queue[k]
           x == Final(o, status)
<1>1. o \in Operations /\ o \in Waiting /\ row[o] \in RowSet /\ PaidFor(o)
  BY AtPlace
<1>2. CASE ~RowInOrder(i, o)
  <2>1. UNCHANGED <<row, queue, broken>>
    BY <1>2 DEF Decide
  <2>2. Around'
    BY <2>1 DEF WInv, Around
  <2> QED BY <2>1, <2>2, RowsKept
<1>3. CASE RowInOrder(i, o)
  <2>1. /\ row' = [row EXCEPT ![o].status = status, ![o].attempts = @ + 1]
        /\ queue' = RemoveAt(queue, k) /\ broken' = wallets
    BY <1>3 DEF Decide
  <2>2. row' = [row EXCEPT ![o] = x]
    BY <1>1, <2>1, Rewritten
  <2>3. x \in RowSet /\ x.status = status /\ x.age = row[o].age
    BY <1>1, QueueAssumption DEF Final, RowSet, PaidFor
  <2> HIDE DEF x
  <2>4. /\ row' \in [Operations -> RowSet] /\ row'[o] = x
        /\ \A y \in Operations \ {o} : row'[y] = row[y]
        /\ Waiting' = Waiting \ {o}
    BY <1>1, <2>2, <2>3, Written
  <2>5. /\ queue' \in Seq(Operations) /\ Distinct(queue)' /\ ToSet(queue)' = Waiting'
        /\ IsFiniteSet(Waiting') /\ Len(queue') = Cardinality(Waiting') /\ Len(queue') = Len(queue) - 1
    <3>1. /\ queue' \in Seq(Operations) /\ Distinct(queue') /\ ToSet(queue') = Waiting \ {o}
          /\ Len(queue') = Len(queue) - 1
          /\ IsFiniteSet(Waiting \ {o}) /\ Cardinality(Waiting \ {o}) = Len(queue) - 1
      BY <2>1, Without
    <3>2. Waiting' = Waiting \ {o}
      BY <2>4
    <3>3. (Distinct(queue') <=> Distinct(queue)') /\ ToSet(queue') = ToSet(queue)'
      BY DEF Distinct, ToSet
    <3> HIDE DEF o
    <3> QED BY <3>1, <3>2, <3>3
  <2>6. Lined'
    BY <2>5 DEF Lined
  <2>7. Sorted'
    <3>1. /\ queue \in Seq(Operations) /\ Len(queue) \in Nat /\ k \in Nat
          /\ \A a, b \in 1 .. Len(queue) : a < b => row[queue[a]].wait <= row[queue[b]].wait
          /\ \A a \in 1 .. Len(queue) : queue[a] \in Operations
          /\ \A a, b \in 1 .. Len(queue) : queue[a] = queue[b] => a = b
      BY DEF WInv, Lined, Sorted, Distinct
    <3>2. \A a \in 1 .. Len(queue) - 1 : queue'[a] = IF a < k THEN queue[a] ELSE queue[a + 1]
      BY <2>1, <3>1, Removed
    <3>3. \A a \in 1 .. Len(queue) : a # k => row'[queue[a]] = row[queue[a]]
      BY <2>4, <3>1
    <3> DEFINE p(a) == IF a < k THEN a ELSE a + 1
    <3>4. \A a \in 1 .. Len(queue) - 1 : /\ p(a) \in 1 .. Len(queue) /\ p(a) # k
                                         /\ queue'[a] = queue[p(a)]
      BY <3>1, <3>2
    <3>5. \A a, b \in 1 .. Len(queue) - 1 : a < b => p(a) < p(b)
      BY <3>1
    <3> HIDE DEF p, o
    <3>6. \A a, b \in 1 .. Len(queue) - 1 : a < b => row'[queue'[a]].wait <= row'[queue'[b]].wait
      <4> SUFFICES ASSUME NEW a \in 1 .. Len(queue) - 1, NEW b \in 1 .. Len(queue) - 1, a < b
                   PROVE  row'[queue'[a]].wait <= row'[queue'[b]].wait
        OBVIOUS
      <4>1. row'[queue'[a]] = row[queue[p(a)]] /\ row'[queue'[b]] = row[queue[p(b)]]
        BY <3>3, <3>4
      <4>2. p(a) < p(b) /\ p(a) \in 1 .. Len(queue) /\ p(b) \in 1 .. Len(queue)
        BY <3>4, <3>5
      <4>3. row[queue[p(a)]].wait <= row[queue[p(b)]].wait
        BY <3>1, <4>2
      <4> QED BY <4>1, <4>3
    <3> QED BY <2>5, <3>6 DEF Sorted
  <2>8. (\A y \in Waiting' : PaidFor(y)') /\ WaitsFullWindow'
    <3>1. o \notin Waiting'
      BY <2>4
    <3>2. row'[o].status = "notFound" => row'[o].age >= Window
      BY <2>3, <2>4
    <3> HIDE DEF o
    <3> QED BY <1>1, <2>4, <3>1, <3>2, OthersPaid
  <2>9. Around'
    BY <2>1 DEF WInv, Around
  <2> QED BY <2>4, <2>6, <2>7, <2>8, <2>9 DEF WInv
<1> QED BY <1>2, <1>3

\* The row at k, which is due, goes on waiting for the next of its attempts.
LEMMA RescheduleWaits ==
  ASSUME WInv, NEW k \in 1 .. Len(queue), row[queue[k]].wait = 0, row[queue[k]].attempts + 1 < MaxAttempts,
         Reschedule(k), UNCHANGED <<age, lock, arrived, calls>>
  PROVE  WInv'
<1>0. PICK o \in Operations : o = queue[k]
  BY AtPlace
<1> DEFINE n == row[o].attempts + 1
           x == Postponed(o, n)
           q == RemoveAt(queue, k)
<1>1. o \in Operations /\ o \in Waiting /\ row[o] \in RowSet /\ row[o].status = "waiting" /\ PaidFor(o)
  BY <1>0, AtPlace
<1>2. /\ row' = [row EXCEPT ![o].attempts = n, ![o].wait = Delay[n]]
      /\ queue' \in Enqueued(q, o, Delay[n]) /\ broken' = broken
  BY <1>0 DEF Reschedule
<1>3. row' = [row EXCEPT ![o] = x]
  BY <1>1, <1>2, Rewritten
<1>4. n \in 1 .. MaxAttempts /\ n < MaxAttempts /\ Delay[n] \in Nat
  BY <1>0, <1>1, QueueAssumption DEF RowSet
<1> HIDE DEF n
<1>5. x \in RowSet /\ x.status = "waiting" /\ x.age = row[o].age /\ x.attempts = n /\ x.wait = Delay[n]
  BY <1>1, <1>4 DEF Postponed, RowSet
<1> HIDE DEF x
<1>6. /\ row' \in [Operations -> RowSet] /\ row'[o] = x
      /\ \A y \in Operations \ {o} : row'[y] = row[y]
      /\ Waiting' = Waiting \cup {o}
  BY <1>1, <1>3, <1>5, Written
<1>7. Waiting' = Waiting
  BY <1>1, <1>6
<1>8. /\ q \in Seq(Operations) /\ Distinct(q) /\ ToSet(q) = Waiting \ {o} /\ Len(q) = Len(queue) - 1
  BY <1>0, Without
<1> HIDE DEF q
<1>9. /\ queue' \in Seq(Operations) /\ Distinct(queue') /\ ToSet(queue') = (Waiting \ {o}) \cup {o}
      /\ Len(queue') = Len(q) + 1
      /\ \A a, b \in 1 .. Len(queue') : a < b => WaitOf(queue'[a], o, Delay[n]) <= WaitOf(queue'[b], o, Delay[n])
  <2>1. o \notin ToSet(q)
    BY <1>8
  <2> QED BY <1>1, <1>2, <1>8, <2>1, Enqueues
<1>10. Lined'
  <2>1. Len(queue') = Len(queue) /\ ToSet(queue') = Waiting
    <3>1. Len(queue) \in Nat
      BY DEF WInv, Lined
    <3> QED BY <1>1, <1>8, <1>9, <3>1
  <2> QED BY <1>7, <1>9, <2>1 DEF WInv, Lined, Distinct, ToSet
<1>11. Sorted'
  <2>1. \A a \in 1 .. Len(queue') : queue'[a] \in Operations
    BY <1>9
  <2>2. \A y \in Operations : row'[y].wait = WaitOf(y, o, Delay[n])
    BY <1>5, <1>6 DEF WaitOf
  <2> QED BY <1>9, <2>1, <2>2 DEF Sorted
<1>12. (\A y \in Waiting' : PaidFor(y)') /\ WaitsFullWindow'
  <2>1. Paid(n) = Paid(n - 1) + Delay[n] /\ Paid(n - 1) \in Nat
    <3>1. MaxAttempts \in Nat /\ n - 1 \in 0 .. MaxAttempts
      BY <1>4, QueueAssumption
    <3> QED BY <1>4, <3>1, PaidGrows
  <2>2. n - 1 = row[o].attempts /\ row[o].age \in Nat /\ row[o].attempts \in Nat
    BY <1>1, QueueAssumption, HorizonFar DEF RowSet, n
  <2>3. row[o].wait = 0
    BY <1>0
  <2>4. row[o].age = Horizon \/ row[o].age + row[o].wait >= Paid(n - 1)
    BY <1>1, <2>2 DEF PaidFor
  <2>5. x.age = Horizon \/ x.age + x.wait >= Paid(n)
    BY <1>4, <1>5, <2>1, <2>2, <2>3, <2>4
  <2>6. PaidFor(o)'
    BY <1>4, <1>5, <1>6, <2>5 DEF PaidFor, Paid
  <2>7. row'[o].status # "notFound"
    BY <1>5, <1>6
  <2> QED BY <1>1, <1>6, <2>6, <2>7, OthersPaid
<1>13. Around'
  BY <1>2 DEF WInv, Around
<1> QED BY <1>6, <1>10, <1>11, <1>12, <1>13 DEF WInv

\* An attempt of a worker.  A row that is given up has waited for all its delays.
LEMMA RetryWaits ==
  ASSUME WInv, NEW i \in Instances, Retry(i)
  PROVE  WInv'
<1>1. UNCHANGED <<age, lock, arrived, calls>>
  BY DEF Retry
<1>2. CASE UNCHANGED <<row, queue, broken>>
  <2>1. Around'
    BY <1>1, <1>2 DEF WInv, Around
  <2> QED BY <1>2, <2>1, RowsKept
<1>3. ASSUME NEW k \in Claimed, Attempt(i, k) PROVE WInv'
  <2>1. k \in 1 .. Len(queue) /\ row[queue[k]].wait = 0
    BY <1>3 DEF Claimed, Claimable
  <2>2. queue[k] \in Operations /\ row[queue[k]] \in RowSet /\ PaidFor(queue[k])
    BY <2>1, AtPlace
  <2>3. CASE Decide(i, k, "processed", BrokenBy(i, WalletOf[queue[k]]))
    <3>1. BrokenBy(i, WalletOf[queue[k]]) \in SUBSET Wallets
      BY <2>2, BrokenWallets, QueueAssumption
    <3> QED BY <1>1, <2>1, <2>3, <3>1, DecideWaits
  <2>4. CASE row[queue[k]].attempts + 1 >= MaxAttempts /\ Decide(i, k, "notFound", broken)
    <3>1. row[queue[k]].attempts = MaxAttempts - 1
      BY <2>2, <2>4, QueueAssumption DEF PaidFor, RowSet
    <3>2. row[queue[k]].age = Horizon \/ row[queue[k]].age + 0 >= Window
      BY <2>1, <2>2, <3>1, WindowPaid DEF PaidFor
    <3>3. row[queue[k]].age >= Window
      BY <2>2, <3>2, HorizonFar, WindowPaid DEF RowSet
    <3>4. broken \in SUBSET Wallets
      BY DEF WInv, Around
    <3> QED BY <1>1, <2>1, <2>4, <3>3, <3>4, DecideWaits
  <2>5. CASE row[queue[k]].attempts + 1 < MaxAttempts /\ Reschedule(k)
    BY <1>1, <2>1, <2>5, RescheduleWaits
  <2>6. row[queue[k]].attempts + 1 >= MaxAttempts \/ row[queue[k]].attempts + 1 < MaxAttempts
    BY <2>2, QueueAssumption DEF RowSet
  <2> QED BY <1>3, <2>3, <2>4, <2>5, <2>6 DEF Attempt
<1> QED BY <1>2, <1>3 DEF Retry

\* Time passes: a row grows older by what it has waited.
LEMMA TickWaits ==
  ASSUME WInv, Tick
  PROVE  WInv'
<1>1. Horizon \in Nat /\ Window \in Nat /\ Window <= Horizon
  BY HorizonFar, WindowPaid
<1>2. \A a \in -1 .. Horizon : Older(a) \in -1 .. Horizon /\ Older(a) >= a
  BY <1>1 DEF Older
<1>3. \A a \in 0 .. Horizon : /\ Older(a) \in 0 .. Horizon
                              /\ a < Horizon => Older(a) = a + 1
                              /\ a = Horizon => Older(a) = Horizon
  BY <1>1 DEF Older
<1> DEFINE next(r) == [r EXCEPT !.age = Older(@), !.wait = IF @ = 0 THEN 0 ELSE @ - 1]
<1>4. /\ row \in [Operations -> RowSet] /\ row' = [o \in Operations |-> IF row[o].status # "waiting" THEN row[o] ELSE next(row[o])]
      /\ UNCHANGED <<broken, lock, queue, arrived, calls>> /\ age' = [w \in Wallets |-> Older(age[w])]
  BY DEF WInv, Tick
<1>5. ASSUME NEW r \in RowSet
      PROVE  /\ next(r) \in RowSet /\ next(r).status = r.status /\ next(r).attempts = r.attempts
             /\ next(r).age = Older(r.age) /\ next(r).wait = IF r.wait = 0 THEN 0 ELSE r.wait - 1
  <2> DEFINE u == [r EXCEPT !.age = Older(@)]
  <2>1. u \in RowSet /\ u.status = r.status /\ u.attempts = r.attempts /\ u.age = Older(r.age) /\ u.wait = r.wait
    <3>1. Older(r.age) \in 0 .. Horizon
      BY <1>3 DEF RowSet
    <3> QED BY <3>1 DEF RowSet
  <2>2. next(r) = [u EXCEPT !.wait = IF @ = 0 THEN 0 ELSE @ - 1]
    OBVIOUS
  <2> HIDE DEF u, next
  <2>3. (IF u.wait = 0 THEN 0 ELSE u.wait - 1) \in Nat
    BY <2>1 DEF RowSet
  <2>4. /\ next(r) \in RowSet /\ next(r).status = u.status /\ next(r).attempts = u.attempts
        /\ next(r).age = u.age /\ next(r).wait = IF u.wait = 0 THEN 0 ELSE u.wait - 1
    BY <2>1, <2>2, <2>3 DEF RowSet
  <2> QED BY <2>1, <2>4
<1> HIDE DEF next
<1>6. /\ row' \in [Operations -> RowSet]
      /\ \A o \in Operations : /\ row'[o].status = row[o].status /\ row'[o].attempts = row[o].attempts
                               /\ row[o].status # "waiting" => row'[o] = row[o]
                               /\ row[o].status = "waiting" => row'[o] = next(row[o])
  BY <1>4, <1>5
<1>7. Waiting' = Waiting
  BY <1>6 DEF Waiting
<1>8. Lined'
  BY <1>4, <1>7 DEF WInv, Lined, Distinct, ToSet
<1>9. Sorted'
  <2> SUFFICES ASSUME NEW a \in 1 .. Len(queue), NEW b \in 1 .. Len(queue), a < b
               PROVE  row'[queue[a]].wait <= row'[queue[b]].wait
    BY <1>4 DEF Sorted
  <2>1. \A c \in {a, b} : /\ row[queue[c]].wait \in Nat
                          /\ row'[queue[c]].wait = IF row[queue[c]].wait = 0 THEN 0 ELSE row[queue[c]].wait - 1
    <3> SUFFICES ASSUME NEW c \in 1 .. Len(queue)
                 PROVE  /\ row[queue[c]].wait \in Nat
                        /\ row'[queue[c]].wait = IF row[queue[c]].wait = 0 THEN 0 ELSE row[queue[c]].wait - 1
      OBVIOUS
    <3>1. queue[c] \in Operations /\ row[queue[c]] \in RowSet /\ row[queue[c]].status = "waiting"
      BY AtPlace
    <3>2. row'[queue[c]] = next(row[queue[c]])
      BY <1>6, <3>1
    <3> QED BY <1>5, <3>1, <3>2 DEF RowSet
  <2>2. row[queue[a]].wait <= row[queue[b]].wait
    BY DEF WInv, Sorted
  <2> QED BY <2>1, <2>2
<1>10. ASSUME NEW o \in Waiting' PROVE PaidFor(o)'
  <2>1. o \in Operations /\ o \in Waiting /\ row[o] \in RowSet /\ row[o].status = "waiting" /\ PaidFor(o)
    BY <1>4, <1>7 DEF Waiting, WInv
  <2>2. row'[o] = next(row[o])
    BY <1>6, <2>1
  <2>3. /\ row'[o].attempts = row[o].attempts /\ row'[o].age = Older(row[o].age)
        /\ row'[o].wait = IF row[o].wait = 0 THEN 0 ELSE row[o].wait - 1
    BY <1>5, <2>1, <2>2
  <2>4. row[o].age \in 0 .. Horizon /\ row[o].wait \in Nat /\ row[o].attempts \in 0 .. MaxAttempts
    BY <2>1 DEF RowSet
  <2>5. Paid(row[o].attempts) \in Nat
    BY <2>4, PaidGrows
  <2>6. row[o].attempts < MaxAttempts /\ (row[o].age = Horizon \/ row[o].age + row[o].wait >= Paid(row[o].attempts))
    BY <2>1 DEF PaidFor
  <2>7. row'[o].age = Horizon \/ row'[o].age + row'[o].wait >= Paid(row[o].attempts)
    BY <1>1, <1>3, <2>3, <2>4, <2>5, <2>6
  <2> QED BY <2>3, <2>6, <2>7 DEF PaidFor, Paid
<1>11. WaitsFullWindow'
  BY <1>6 DEF WInv, WaitsFullWindow
<1>12. Around'
  <2>1. age' \in [Wallets -> -1 .. Horizon]
    BY <1>2, <1>4 DEF WInv, Around
  <2> QED BY <1>4, <2>1 DEF WInv, Around
<1> QED BY <1>6, <1>8, <1>9, <1>10, <1>11, <1>12 DEF WInv

-----------------------------------------------------------------------------
(* The theorems.                                                            *)

\* No row waits in the beginning.
LEMMA InitWaits ==
  ASSUME Init
  PROVE  WInv
<1>1. /\ age = [w \in Wallets |-> IF w \in Opened THEN Horizon ELSE -1] /\ broken = {}
      /\ lock = [w \in Wallets |-> Nil] /\ queue = <<>> /\ arrived = {} /\ calls = 0
      /\ row = [o \in Operations |-> NoRow]
  BY DEF Init
<1>2. Around
  <2>1. age \in [Wallets -> -1 .. Horizon]
    BY <1>1, HorizonFar
  <2> QED BY <1>1, <2>1, QueueAssumption DEF Around
<1>3. NoRow \in RowSet /\ NoRow.status = "none"
  <2>1. NoRow = [status |-> "none", attempts |-> 0, wait |-> 0, age |-> 0, creator |-> Nil]
    BY DEF NoRow
  <2> QED BY <2>1, HorizonFar, QueueAssumption DEF RowSet
<1>4. row \in [Operations -> RowSet] /\ \A o \in Operations : row[o].status = "none"
  BY <1>1, <1>3
<1>5. Waiting = {}
  BY <1>4 DEF Waiting
<1>6. Lined /\ Sorted
  <2>1. queue \in Seq(Operations) /\ Len(queue) = 0 /\ DOMAIN queue = {}
    BY <1>1
  <2>2. ToSet(queue) = {}
    BY <2>1 DEF ToSet
  <2> QED BY <1>5, <2>1, <2>2, FS_EmptySet DEF Lined, Sorted, Distinct
<1>7. WaitsFullWindow
  BY <1>4 DEF WaitsFullWindow
<1> QED BY <1>2, <1>4, <1>5, <1>6, <1>7 DEF WInv

\* Every step keeps the account.
LEMMA StepWaits ==
  ASSUME WInv, [Next]_vars
  PROVE  WInv'
<1>1. CASE UNCHANGED vars
  <2>1. UNCHANGED <<row, queue>>
    BY <1>1 DEF vars
  <2>2. Around'
    BY <1>1 DEF WInv, Around, vars
  <2> QED BY <2>1, <2>2, RowsKept
<1>2. ASSUME NEW w \in Wallets, Open(w) PROVE WInv'
  BY <1>2, WalletSteps
<1>3. ASSUME NEW i \in Instances, NEW w \in Wallets, LockWallet(i, w) \/ Move(i, w) \/ Release(i, w) PROVE WInv'
  BY <1>3, WalletSteps
<1>4. ASSUME NEW i \in Instances, NEW o \in Operations, Submit(i, o) PROVE WInv'
  BY <1>4, SubmitWaits
<1>5. ASSUME NEW i \in Instances, NEW o \in Operations, SubmitLate(i, o) PROVE WInv'
  BY <1>5, SubmitLateWaits
<1>6. ASSUME NEW i \in Instances, Retry(i) PROVE WInv'
  BY <1>6, RetryWaits
<1>7. CASE Tick
  BY <1>7, TickWaits
<1> QED BY <1>1, <1>2, <1>3, <1>4, <1>5, <1>6, <1>7 DEF Next

\* The account is kept in every behaviour.
LEMMA WaitsKept == Spec => []WInv
<1>1. Init => WInv
  BY InitWaits
<1>2. WInv /\ [Next]_vars => WInv'
  BY StepWaits
<1> QED BY <1>1, <1>2, PTL DEF Spec

\* The queue is always the waiting rows, each once and in the order of their next
\* attempts, and a row that waits has an attempt left (ClaimPendingReference).
THEOREM QueueTypes == Spec => []TypeOK
<1>1. WInv => TypeOK
  <2> SUFFICES ASSUME WInv PROVE TypeOK
    OBVIOUS
  <2>1. Around /\ row \in [Operations -> RowSet] /\ Lined /\ Sorted /\ \A o \in Waiting : row[o].attempts < MaxAttempts
    BY DEF WInv, PaidFor
  <2> QED BY <2>1 DEF TypeOK, Around, RowSet, Lined, Sorted
<1> QED BY <1>1, WaitsKept, PTL

\* No operation is given up before its reference has had the whole time of the
\* configured attempts to arrive (ReferenceRetryPolicy).
THEOREM GivenUpAfterTheWindow == Spec => []WaitsFullWindow
<1>1. WInv => WaitsFullWindow
  BY DEF WInv
<1> QED BY <1>1, WaitsKept, PTL
-----------------------------------------------------------------------------
(* The timestamps of wallets.                                               *)

\* Instances whose clock lags behind that of the one that opened w.
Behind(w) == {i \in Instances : Lag[i] > Lag[Opener[w]]}

\* Old wallets are older than any lag, and only a wallet that is there is ever locked; a
\* wallet that cannot be read was opened, and there is an instance that lags behind its
\* opener.
WalletInv ==
  /\ \A w \in Opened : age[w] >= Horizon
  /\ \A w \in Wallets : lock[w] # Nil => age[w] >= 0
  /\ \A w \in broken : w \notin Opened /\ Behind(w) # {}

\* Credit and Debit break a wallet only through an instance that lags behind its opener,
\* and not later after its opening than this instance lags.
LEMMA BreaksEarly ==
  ASSUME WInv, WalletInv, NEW i \in Instances, NEW w \in Wallets, age[w] >= 0
  PROVE  \A x \in BrokenBy(i, w) \ broken :
           /\ x = w /\ x \notin Opened /\ i \in Behind(x)
           /\ age[x] < Lag[i] - Lag[Opener[x]]
<1>1. /\ Lag[i] \in Nat /\ Lag[Opener[w]] \in Nat /\ age[w] \in Int
      /\ Horizon \in Nat /\ Lag[i] <= Horizon
  BY QueueAssumption, HorizonFar DEF WInv, Around
<1> SUFFICES ASSUME NEW x \in BrokenBy(i, w) \ broken
             PROVE  /\ x = w /\ x \notin Opened /\ i \in Behind(x)
                    /\ age[x] < Lag[i] - Lag[Opener[x]]
  OBVIOUS
<1>2. x = w /\ age[w] + Lag[Opener[w]] < Lag[i]
  BY <1>1 DEF BrokenBy, InOrder
<1>3. w \notin Opened
  <2> SUFFICES ASSUME age[w] >= Horizon PROVE FALSE
    BY DEF WalletInv
  <2> HIDE DEF Horizon
  <2> QED BY <1>1, <1>2
<1> QED BY <1>1, <1>2, <1>3 DEF Behind

\* What becomes unreadable in a step, and when.
Breaking == \A w \in broken' \ broken :
              /\ w \notin Opened
              /\ \E i \in Behind(w) : age[w] < Lag[i] - Lag[Opener[w]]

\* In every step, a wallet becomes unreadable only in the time by which the instance
\* lags behind the opener.
LEMMA StepBreaks == ASSUME WInv, WalletInv, [Next]_vars PROVE Breaking
<1>1. ASSUME NEW i \in Instances, NEW w \in Wallets, age[w] >= 0, broken' = BrokenBy(i, w)
      PROVE  Breaking
  BY <1>1, BreaksEarly DEF Breaking
<1>2. CASE broken' = broken
  BY <1>2 DEF Breaking
<1>3. ASSUME NEW i \in Instances, NEW w \in Wallets, Move(i, w) PROVE Breaking
  <2>1. age[w] >= 0 /\ broken' = BrokenBy(i, w)
    BY <1>3, QueueAssumption DEF Move, Unlock, WalletInv
  <2> QED BY <1>1, <2>1
<1>4. ASSUME NEW i \in Instances, NEW o \in Operations, SubmitLate(i, o) PROVE Breaking
  <2>1. WalletOf[o] \in Wallets /\ lock[WalletOf[o]] # Nil /\ broken' = BrokenBy(i, WalletOf[o])
    BY <1>4, QueueAssumption DEF SubmitLate, Unlock
  <2>2. age[WalletOf[o]] >= 0
    BY <2>1 DEF WalletInv
  <2> QED BY <1>1, <2>1, <2>2
<1>5. ASSUME NEW i \in Instances, Retry(i) PROVE Breaking
  <2>1. CASE broken' = broken
    BY <1>2, <2>1
  <2>2. ASSUME NEW k \in Claimed, Readable(WalletOf[queue[k]]), Attempt(i, k) PROVE Breaking
    <3> DEFINE w == WalletOf[queue[k]]
    <3>1. queue[k] \in Operations
      <4>1. queue \in Seq(Operations) /\ k \in 1 .. Len(queue)
        BY <2>2 DEF WInv, Lined, Claimed
      <4> QED BY <4>1
    <3>2. w \in Wallets /\ age[w] >= 0
      BY <2>2, <3>1, QueueAssumption DEF Readable
    <3>3. broken' = broken \/ broken' = BrokenBy(i, w)
      BY <2>2 DEF Attempt, Decide, Reschedule
    <3> HIDE DEF w
    <3> QED BY <1>1, <1>2, <3>2, <3>3
  <2> QED BY <1>5, <2>1, <2>2 DEF Retry
<1> QED BY <1>2, <1>3, <1>4, <1>5 DEF Next, vars, Open, LockWallet, Release, Submit, Tick

\* Wallets grow older, and only one that is readable is locked.
LEMMA StepWallets == ASSUME WInv, WalletInv, [Next]_vars PROVE WalletInv'
<1>1. /\ Horizon \in Nat /\ age \in [Wallets -> -1 .. Horizon] /\ Opened \subseteq Wallets
      /\ lock \in [Wallets -> Instances \cup {Nil}]
  BY QueueAssumption, HorizonFar DEF WInv, Around
<1>2. \A w \in Wallets : age'[w] >= age[w]
  <2> HIDE DEF Horizon
  <2>1. CASE age' = age
    BY <1>1, <2>1
  <2>2. CASE Tick
    <3> SUFFICES ASSUME NEW w \in Wallets PROVE age'[w] >= age[w]
      OBVIOUS
    <3>1. age'[w] = Older(age[w]) /\ age[w] \in -1 .. Horizon
      BY <1>1, <2>2 DEF Tick
    <3>2. CASE age[w] \in 0 .. Horizon - 1
      BY <1>1, <3>1, <3>2 DEF Older
    <3>3. CASE age[w] \notin 0 .. Horizon - 1
      BY <1>1, <3>1, <3>3 DEF Older
    <3> QED BY <3>2, <3>3
  <2>3. ASSUME NEW v \in Wallets, Open(v) PROVE \A w \in Wallets : age'[w] >= age[w]
    BY <1>1, <2>3 DEF Open
  <2> QED BY <2>1, <2>2, <2>3 DEF Next, vars, LockWallet, Move, Release, Unlock, Submit,
                                  SubmitLate, Retry
<1>3. \A w \in Wallets : age'[w] \in Int /\ age[w] \in Int
  <2> HIDE DEF Horizon
  <2>1. WInv'
    BY StepWaits
  <2>2. age' \in [Wallets -> -1 .. Horizon]
    BY <2>1 DEF WInv, Around
  <2> QED BY <1>1, <2>2
<1>4. \A w \in Wallets : lock'[w] # Nil => lock[w] # Nil \/ age[w] >= 0
  <2>1. CASE lock' = lock
    BY <2>1
  <2>2. ASSUME NEW i \in Instances, NEW v \in Wallets, LockWallet(i, v) \/ Unlock(i, v)
        PROVE  \A w \in Wallets : lock'[w] # Nil => lock[w] # Nil \/ age[w] >= 0
    BY <1>1, <2>2 DEF LockWallet, Unlock, Readable
  <2>3. \A o \in Operations : WalletOf[o] \in Wallets
    BY QueueAssumption
  <2> QED BY <2>1, <2>2, <2>3 DEF Next, vars, Open, Move, Release, Submit, SubmitLate, Retry, Tick
<1>5. \A w \in Opened : age'[w] >= Horizon
  <2> HIDE DEF Horizon
  <2> QED BY <1>1, <1>2, <1>3 DEF WalletInv
<1>6. \A w \in Wallets : lock'[w] # Nil => age'[w] >= 0
  BY <1>2, <1>3, <1>4 DEF WalletInv
<1>7. \A w \in broken' : w \notin Opened /\ Behind(w) # {}
  BY StepBreaks DEF Breaking, WalletInv
<1>8. Horizon' = Horizon /\ \A w : Behind(w)' = Behind(w)
  BY DEF Behind
<1> QED BY <1>5, <1>6, <1>7, <1>8 DEF WalletInv

\* In the beginning the old wallets are as old as ages are counted.
LEMMA InitWallets == Init => WalletInv
<1> SUFFICES ASSUME Init PROVE WalletInv OBVIOUS
<1>1. Horizon \in Nat /\ Opened \subseteq Wallets
  BY QueueAssumption, HorizonFar
<1> HIDE DEF Horizon
<1>2. \A w \in Opened : age[w] = Horizon
  BY <1>1 DEF Init
<1>3. (\A w \in Wallets : lock[w] = Nil) /\ broken = {}
  BY DEF Init
<1> QED BY <1>1, <1>2, <1>3 DEF WalletInv

\* A wallet becomes unreadable only if it was opened while the system ran, and is moved
\* by an instance whose clock lags behind that of its opener, sooner after the opening
\* than by as much as it lags (NewWallet, Credit and Debit, RehydrateWallet).
THEOREM UnreadableOnlySoon == Spec => [][Breaking]_vars
<1>1. WInv /\ WalletInv /\ [Next]_vars => WalletInv'
  BY StepWallets
<1>2. WInv /\ WalletInv /\ [Next]_vars => [Breaking]_vars
  BY StepBreaks
<1> QED BY <1>1, <1>2, InitWallets, WaitsKept, PTL DEF Spec

\* Where no clock lags behind that of the instance that opened a wallet, every wallet that
\* was committed can be read again, however fast or slow the clocks are otherwise.
THEOREM AlignedClocksKeepWallets ==
  Spec => []((\A w \in Wallets \ Opened : Behind(w) = {}) => WalletsReadable)
<1>1. WInv /\ WalletInv => ((\A w \in Wallets \ Opened : Behind(w) = {}) => WalletsReadable)
  BY DEF WInv, Around, WalletInv, WalletsReadable
<1>2. WInv /\ WalletInv /\ [Next]_vars => WalletInv'
  BY StepWallets
<1> QED BY <1>1, <1>2, InitWallets, WaitsKept, PTL DEF Spec
=============================================================================
