--------------------------- MODULE WageringProofs ---------------------------
(***************************************************************************)
(* Theorems about Wagering for every set of calls, wallets and workers,    *)
(* every request, every retry limit, any number of faults and any choice   *)
(* of safeguards (so also for none: the Go code does not lean on them).    *)
(*                                                                         *)
(* The inductive invariant IInv has four parts: types, Control (what each  *)
(* stage of a transaction knows), LockInv (who holds a wallet, and that    *)
(* what was read under the lock is still true) and UniqueInv (no two rows, *)
(* stored or about to be stored, share an identity).                       *)
(*                                                                         *)
(* The last part is the refinement: Wagering implements ExactlyOnce.       *)
(*                                                                         *)
(* The first part is about the arithmetic below it all: money and delays,  *)
(* for every width of the machine integer.                                 *)
(***************************************************************************)
EXTENDS Wagering, Arithmetic, SumProofs

-----------------------------------------------------------------------------
(* Money.  The overflow guards are exact for every width of the machine    *)
(* integer: they refuse an operation if and only if its result does not    *)
(* fit, and what they let pass is computed without wrapping around.        *)

\* A representable integer survives the conversion to a machine integer.
LEMMA NoWrap == ASSUME NEW n \in MachineInt PROVE Wrap(n) = n
<1>1. n \in Int /\ n - MinInt >= 0 /\ n - MinInt < 2 * (MaxInt + 1)
  BY MaxIntAssumption DEF MachineInt, MinInt
<1>2. \A k, m \in Int : k >= 0 /\ k < m => k % m = k
  OBVIOUS
<1>3. (n - MinInt) % (2 * (MaxInt + 1)) = n - MinInt
  BY <1>1, <1>2, MaxIntAssumption DEF MinInt
<1> QED BY <1>1, <1>3, MaxIntAssumption DEF Wrap, MinInt

\* Money.Add returns ErrMoneyOverflow exactly when the sum does not fit in an
\* int64, and otherwise the sum; the subtraction inside its guard never wraps.
THEOREM AddExact ==
  ASSUME NEW a \in MachineInt, NEW b \in MachineInt
  PROVE  /\ AddOverflows(a, b) <=> a + b \notin MachineInt
         /\ ~AddOverflows(a, b) => Add(a, b) = a + b
         /\ b > 0 => MaxInt - b \in MachineInt
         /\ b < 0 => MinInt - b \in MachineInt
<1>1. AddOverflows(a, b) <=> a + b \notin MachineInt
  BY MaxIntAssumption DEF AddOverflows, MachineInt, MinInt
<1>2. ~AddOverflows(a, b) => Add(a, b) = a + b
  BY <1>1, NoWrap DEF Add
<1>3. (b > 0 => MaxInt - b \in MachineInt) /\ (b < 0 => MinInt - b \in MachineInt)
  BY MaxIntAssumption DEF MachineInt, MinInt
<1> QED BY <1>1, <1>2, <1>3

\* The same for Money.Sub.
THEOREM SubExact ==
  ASSUME NEW a \in MachineInt, NEW b \in MachineInt
  PROVE  /\ SubOverflows(a, b) <=> a - b \notin MachineInt
         /\ ~SubOverflows(a, b) => Sub(a, b) = a - b
         /\ b > 0 => MinInt + b \in MachineInt
         /\ b < 0 => MaxInt + b \in MachineInt
<1>1. SubOverflows(a, b) <=> a - b \notin MachineInt
  BY MaxIntAssumption DEF SubOverflows, MachineInt, MinInt
<1>2. ~SubOverflows(a, b) => Sub(a, b) = a - b
  BY <1>1, NoWrap DEF Sub
<1>3. (b > 0 => MinInt + b \in MachineInt) /\ (b < 0 => MaxInt + b \in MachineInt)
  BY MaxIntAssumption DEF MachineInt, MinInt
<1> QED BY <1>1, <1>2, <1>3

\* NewMoney accepts a decimal amount exactly when its number of cents fits, and
\* then neither the product nor the sum wraps.
THEOREM ParseExact ==
  ASSUME NEW whole \in Nat, NEW part \in 0 .. 99
  PROVE  /\ ParseOverflows(whole, part) <=> whole * 100 + part > MaxInt
         /\ ~ParseOverflows(whole, part) => Parse(whole, part) = whole * 100 + part
<1>1. ParseOverflows(whole, part) <=> whole * 100 + part > MaxInt
  BY MaxIntAssumption DEF ParseOverflows
<1>2. ASSUME ~ParseOverflows(whole, part)
      PROVE  Parse(whole, part) = whole * 100 + part
  <2>1. whole * 100 \in MachineInt /\ whole * 100 + part \in MachineInt
    BY <1>1, <1>2, MaxIntAssumption DEF MachineInt, MinInt
  <2> QED BY <2>1, NoWrap DEF Parse
<1> QED BY <1>1, <1>2

-----------------------------------------------------------------------------
(* Functions that repeat a step, such as the loops of Backoff: they exist,   *)
(* and what they yield.                                                     *)

\* Whatever holds for 0 and for the successor of each number it holds for, holds for all.
LEMMA NatSteps ==
  ASSUME NEW T \in SUBSET Nat, 0 \in T, \A n \in T : n + 1 \in T
  PROVE  T = Nat
<1> DEFINE Bad == Nat \ T
<1>1. ASSUME Bad # {} PROVE FALSE
  <2>1. PICK n \in Bad : \A m \in Bad : n <= m
    BY <1>1, Least
  <2>2. n - 1 \in Nat /\ n - 1 \notin Bad /\ n = (n - 1) + 1
    BY <2>1
  <2> QED BY <2>1, <2>2
<1> QED BY <1>1

\* g[i] is base after i applications of step, for every i up to n.
Iterates(g, n, base, step) ==
  g = [i \in 0 .. n |-> IF i = 0 THEN base ELSE step[g[i - 1]]]

\* The same for all numbers.
Repeated(f, base, step) == f = [n \in Nat |-> IF n = 0 THEN base ELSE step[f[n - 1]]]

\* Two iterations agree as far as both go.
LEMMA IteratesAgree ==
  ASSUME NEW base, NEW step, NEW n \in Nat, NEW m \in Nat, n <= m, NEW g, NEW h,
         Iterates(g, n, base, step), Iterates(h, m, base, step)
  PROVE  \A i \in 0 .. n : g[i] = h[i]
<1> DEFINE T == {i \in Nat : i <= n => g[i] = h[i]}
<1>1. 0 \in T
  BY DEF Iterates
<1>2. ASSUME NEW i \in T PROVE i + 1 \in T
  <2> SUFFICES ASSUME i + 1 <= n PROVE g[i + 1] = h[i + 1]
    OBVIOUS
  <2>1. i \in Nat /\ i + 1 \in 0 .. n /\ i + 1 \in 0 .. m /\ i + 1 # 0 /\ (i + 1) - 1 = i
    OBVIOUS
  <2>2. g[i + 1] = step[g[i]] /\ h[i + 1] = step[h[i]]
    BY <2>1 DEF Iterates
  <2> QED BY <2>1, <2>2
<1>3. T = Nat
  <2> HIDE DEF T
  <2>1. T \in SUBSET Nat
    BY DEF T
  <2> QED BY <1>1, <1>2, <2>1, NatSteps
<1> QED BY <1>3

\* Iterations exist, up to any number.
LEMMA IteratesExist ==
  ASSUME NEW base, NEW step, NEW n \in Nat
  PROVE  \E g : Iterates(g, n, base, step)
<1> DEFINE T == {m \in Nat : \E g : Iterates(g, m, base, step)}
<1>1. 0 \in T
  <2>1. Iterates([i \in 0 .. 0 |-> base], 0, base, step)
    BY DEF Iterates
  <2> QED BY <2>1
<1>2. ASSUME NEW m \in T PROVE m + 1 \in T
  <2>1. PICK g : Iterates(g, m, base, step)
    OBVIOUS
  <2> DEFINE h == [i \in 0 .. m + 1 |-> IF i <= m THEN g[i] ELSE step[g[m]]]
  <2>2. h = [i \in 0 .. m + 1 |-> IF i = 0 THEN base ELSE step[h[i - 1]]]
    <3>1. ASSUME NEW i \in 0 .. m + 1
          PROVE  h[i] = IF i = 0 THEN base ELSE step[h[i - 1]]
      <4>1. m \in Nat /\ i \in Nat /\ (i = 0 \/ i - 1 \in 0 .. m)
        OBVIOUS
      <4>2. CASE i = 0
        BY <2>1, <4>1, <4>2 DEF Iterates
      <4>3. CASE i # 0 /\ i <= m
        <5>1. i \in 0 .. m /\ i - 1 \in 0 .. m + 1 /\ i - 1 <= m
          BY <4>1, <4>3
        <5>2. g[i] = step[g[i - 1]]
          BY <2>1, <4>3, <5>1 DEF Iterates
        <5> QED BY <4>3, <5>1, <5>2
      <4>4. CASE i = m + 1
        BY <4>1, <4>4
      <4> QED BY <4>1, <4>2, <4>3, <4>4
    <3> QED BY <3>1
  <2>3. Iterates(h, m + 1, base, step)
    <3> HIDE DEF h
    <3> QED BY <2>2 DEF Iterates
  <2> QED BY <2>3
<1>3. T = Nat
  <2> HIDE DEF T
  <2>1. T \in SUBSET Nat
    BY DEF T
  <2> QED BY <1>1, <1>2, <2>1, NatSteps
<1> QED BY <1>3

\* So does the function that repeats a step any number of times.
LEMMA RepeatedExists ==
  ASSUME NEW base, NEW step
  PROVE  \E f : Repeated(f, base, step)
<1> DEFINE The(n) == CHOOSE g : Iterates(g, n, base, step)
           f == [n \in Nat |-> The(n)[n]]
<1>1. \A n \in Nat : Iterates(The(n), n, base, step)
  BY IteratesExist
<1> HIDE DEF The
<1>2. ASSUME NEW n \in Nat PROVE f[n] = IF n = 0 THEN base ELSE step[f[n - 1]]
  <2>1. CASE n = 0
    BY <1>1, <2>1 DEF Iterates
  <2>2. CASE n # 0
    <3>1. n - 1 \in Nat /\ n - 1 <= n /\ n - 1 \in 0 .. n - 1 /\ n \in 0 .. n
      BY <2>2
    <3>2. The(n)[n] = step[The(n)[n - 1]]
      BY <1>1, <2>2, <3>1 DEF Iterates
    <3>3. The(n)[n - 1] = The(n - 1)[n - 1]
      BY <1>1, <3>1, IteratesAgree
    <3> QED BY <2>2, <3>1, <3>2, <3>3
  <2> QED BY <2>1, <2>2
<1>3. Repeated(f, base, step)
  <2> HIDE DEF f
  <2>1. f = [n \in Nat |-> f[n]]
    BY DEF f
  <2> QED BY <1>2, <2>1 DEF Repeated
<1> QED BY <1>3

\* The same when the first step is the one after 1.
LEMMA RepeatedFromOne ==
  ASSUME NEW base \in Int, NEW step \in [Int -> Int]
  PROVE  \E h \in [Nat -> Int] :
           \A n \in Nat : h[n] = IF n <= 1 THEN base ELSE step[h[n - 1]]
<1>1. PICK f : Repeated(f, base, step)
  BY RepeatedExists
<1>2. \A n \in Nat : f[n] \in Int
  <2> DEFINE T == {n \in Nat : f[n] \in Int}
  <2>1. 0 \in T
    BY <1>1 DEF Repeated
  <2>2. ASSUME NEW n \in T PROVE n + 1 \in T
    <3>1. n + 1 \in Nat /\ n + 1 # 0 /\ (n + 1) - 1 = n
      OBVIOUS
    <3>2. f[n + 1] = step[f[n]]
      BY <1>1, <3>1 DEF Repeated
    <3> QED BY <3>1, <3>2
  <2>3. T \in SUBSET Nat
    OBVIOUS
  <2> HIDE DEF T
  <2>4. T = Nat
    BY <2>1, <2>2, <2>3, NatSteps
  <2> QED BY <2>4 DEF T
<1> DEFINE h == [n \in Nat |-> IF n <= 1 THEN base ELSE f[n - 1]]
<1>3. h \in [Nat -> Int]
  BY <1>2
<1>4. ASSUME NEW n \in Nat PROVE h[n] = IF n <= 1 THEN base ELSE step[h[n - 1]]
  <2>1. CASE n <= 1
    BY <2>1
  <2>2. CASE ~(n <= 1)
    <3>1. n - 1 \in Nat /\ n - 1 # 0 /\ (n - 1) - 1 \in Nat /\ (n - 1 <= 1 => (n - 1) - 1 = 0)
      BY <2>2
    <3>2. f[n - 1] = step[f[(n - 1) - 1]] /\ f[0] = base
      BY <1>1, <3>1 DEF Repeated
    <3>3. h[n - 1] = f[(n - 1) - 1]
      BY <3>1, <3>2
    <3> QED BY <2>2, <3>2, <3>3
  <2> QED BY <2>1, <2>2
<1> QED BY <1>3, <1>4

\* The powers of two are what they are meant to be.
LEMMA Powers ==
  /\ TwoTo[0] = 1
  /\ \A n \in Nat : TwoTo[n] \in Nat \ {0} /\ TwoTo[n + 1] = 2 * TwoTo[n]
<1> DEFINE step == [x \in Nat |-> 2 * x]
<1>1. PICK f : Repeated(f, 1, step)
  BY RepeatedExists
<1> DEFINE T == {n \in Nat : f[n] \in Nat \ {0}}
<1>2. 0 \in T
  BY <1>1 DEF Repeated
<1>3. ASSUME NEW n \in T PROVE n + 1 \in T /\ f[n + 1] = 2 * f[n]
  <2>1. n + 1 \in Nat /\ n + 1 # 0 /\ (n + 1) - 1 = n
    OBVIOUS
  <2>2. f[n + 1] = step[f[n]]
    BY <1>1, <2>1 DEF Repeated
  <2> QED BY <2>1, <2>2
<1>4. T = Nat
  <2>1. T \in SUBSET Nat
    OBVIOUS
  <2> HIDE DEF T, step
  <2> QED BY <1>2, <1>3, <2>1, NatSteps
<1>5. \A n \in Nat : f[n] \in Nat \ {0} /\ f[n + 1] = 2 * f[n]
  BY <1>3, <1>4
<1>6. f = [n \in Nat |-> IF n = 0 THEN 1 ELSE 2 * f[n - 1]]
  <2>1. f = [n \in Nat |-> IF n = 0 THEN 1 ELSE step[f[n - 1]]]
    BY <1>1 DEF Repeated
  <2>2. \A n \in Nat : n # 0 => step[f[n - 1]] = 2 * f[n - 1]
    BY <1>5
  <2> HIDE DEF step
  <2> QED BY <2>1, <2>2
<1> HIDE DEF step, T
<1>7. TwoTo = [n \in Nat |-> IF n = 0 THEN 1 ELSE 2 * TwoTo[n - 1]]
  BY <1>6 DEF TwoTo
<1> DEFINE S == {n \in Nat : TwoTo[n] = f[n]}
<1>8. 0 \in S
  BY <1>6, <1>7
<1>9. ASSUME NEW n \in S PROVE n + 1 \in S
  <2>1. n + 1 \in Nat /\ n + 1 # 0 /\ (n + 1) - 1 = n
    OBVIOUS
  <2>2. TwoTo[n + 1] = 2 * TwoTo[n] /\ f[n + 1] = 2 * f[n]
    BY <1>5, <1>7, <2>1
  <2> QED BY <2>1, <2>2
<1>10. S = Nat
  <2>1. S \in SUBSET Nat
    OBVIOUS
  <2> HIDE DEF S
  <2> QED BY <1>8, <1>9, <2>1, NatSteps
<1>11. \A n \in Nat : TwoTo[n] = f[n]
  BY <1>10
<1>12. f[0] = 1 /\ \A n \in Nat : n + 1 \in Nat
  BY <1>6
<1> HIDE DEF S
<1> QED BY <1>5, <1>11, <1>12

-----------------------------------------------------------------------------
(* The delays.                                                              *)

\* What the loops compute is an integer.
LEMMA Machine ==
  ASSUME NEW d \in Int, NEW max \in Int
  PROVE  Wrap(d * 2) \in Int /\ Doubled(d, max) \in Int
BY MaxIntAssumption DEF Wrap, Doubled, MinInt

\* OutboxPolicy.delay, attempt by attempt.
LEMMA OutboxDelayAt ==
  ASSUME NEW first \in Int, NEW max \in Int
  PROVE  \A n \in Nat : OutboxDelay(first, max)[n] =
           IF n <= 1 THEN first
           ELSE IF OutboxDelay(first, max)[n - 1] < max THEN Doubled(OutboxDelay(first, max)[n - 1], max)
           ELSE OutboxDelay(first, max)[n - 1]
<1> DEFINE after(d) == IF d < max THEN Doubled(d, max) ELSE d
           step == [d \in Int |-> after(d)]
<1>1. step \in [Int -> Int]
  BY Machine
<1>2. PICK h \in [Nat -> Int] : \A n \in Nat : h[n] = IF n <= 1 THEN first ELSE step[h[n - 1]]
  <2> HIDE DEF step
  <2> QED BY <1>1, RepeatedFromOne
<1>3. h = [n \in Nat |-> IF n <= 1 THEN first ELSE after(h[n - 1])]
  <2>1. \A d \in Int : step[d] = after(d)
    OBVIOUS
  <2> HIDE DEF step, after
  <2>2. \A n \in Nat : ~(n <= 1) => h[n - 1] \in Int
    OBVIOUS
  <2>3. \A n \in Nat : h[n] = IF n <= 1 THEN first ELSE after(h[n - 1])
    BY <1>2, <2>1, <2>2
  <2>4. h = [n \in Nat |-> h[n]]
    OBVIOUS
  <2> QED BY <2>3, <2>4
<1> DEFINE D == OutboxDelay(first, max)
<1>4. D = [n \in Nat |-> IF n <= 1 THEN first ELSE after(D[n - 1])]
  BY <1>3 DEF OutboxDelay
<1> HIDE DEF D
<1>5. \A n \in Nat : D[n] = IF n <= 1 THEN first ELSE after(D[n - 1])
  BY <1>4
<1> QED BY <1>5 DEF D

\* ReferenceRetryPolicy.delay, attempt by attempt.
LEMMA ReferenceDelayAt ==
  ASSUME NEW first \in Int, NEW max \in Int
  PROVE  \A n \in Nat : ReferenceDelay(first, max)[n] =
           IF n <= 1 THEN first ELSE Doubled(ReferenceDelay(first, max)[n - 1], max)
<1> DEFINE step == [d \in Int |-> Doubled(d, max)]
<1>1. step \in [Int -> Int]
  BY Machine
<1>2. PICK h \in [Nat -> Int] : \A n \in Nat : h[n] = IF n <= 1 THEN first ELSE step[h[n - 1]]
  <2> HIDE DEF step
  <2> QED BY <1>1, RepeatedFromOne
<1>3. h = [n \in Nat |-> IF n <= 1 THEN first ELSE Doubled(h[n - 1], max)]
  <2>1. \A d \in Int : step[d] = Doubled(d, max)
    OBVIOUS
  <2> HIDE DEF step
  <2>2. \A n \in Nat : ~(n <= 1) => h[n - 1] \in Int
    OBVIOUS
  <2>3. \A n \in Nat : h[n] = IF n <= 1 THEN first ELSE Doubled(h[n - 1], max)
    BY <1>2, <2>1, <2>2
  <2>4. h = [n \in Nat |-> h[n]]
    OBVIOUS
  <2> QED BY <2>3, <2>4
<1> DEFINE D == ReferenceDelay(first, max)
<1>4. D = [n \in Nat |-> IF n <= 1 THEN first ELSE Doubled(D[n - 1], max)]
  BY <1>3 DEF ReferenceDelay
<1> HIDE DEF D
<1>5. \A n \in Nat : D[n] = IF n <= 1 THEN first ELSE Doubled(D[n - 1], max)
  BY <1>4
<1> QED BY <1>5 DEF D

\* messageRetryDelay, delivery by delivery.
LEMMA MessageDoublingAt ==
  \A n \in Nat : MessageDoubling[n] =
    IF n <= 1 THEN 1
    ELSE IF MessageDoubling[n - 1] < 60 THEN Wrap(MessageDoubling[n - 1] * 2)
    ELSE MessageDoubling[n - 1]
<1> DEFINE after(d) == IF d < 60 THEN Wrap(d * 2) ELSE d
           step == [d \in Int |-> after(d)]
<1>1. step \in [Int -> Int]
  BY Machine
<1>2. PICK h \in [Nat -> Int] : \A n \in Nat : h[n] = IF n <= 1 THEN 1 ELSE step[h[n - 1]]
  <2> HIDE DEF step
  <2>1. 1 \in Int
    OBVIOUS
  <2> QED BY <1>1, <2>1, RepeatedFromOne
<1>3. h = [n \in Nat |-> IF n <= 1 THEN 1 ELSE after(h[n - 1])]
  <2>1. \A d \in Int : step[d] = after(d)
    OBVIOUS
  <2> HIDE DEF step, after
  <2>2. \A n \in Nat : ~(n <= 1) => h[n - 1] \in Int
    OBVIOUS
  <2>3. \A n \in Nat : h[n] = IF n <= 1 THEN 1 ELSE after(h[n - 1])
    BY <1>2, <2>1, <2>2
  <2>4. h = [n \in Nat |-> h[n]]
    OBVIOUS
  <2> QED BY <2>3, <2>4
<1>4. MessageDoubling = [n \in Nat |-> IF n <= 1 THEN 1 ELSE after(MessageDoubling[n - 1])]
  BY <1>3 DEF MessageDoubling
<1> QED BY <1>4

\* One round of the loop doubles and cuts off.
LEMMA DoubledExact ==
  ASSUME NEW max \in 1 .. MaxInt, NEW x \in Nat \ {0}
  PROVE  /\ Capped(x, max) \in 1 .. max
         /\ Doubled(Capped(x, max), max) = Capped(2 * x, max)
         /\ ~(Capped(x, max) < max) => Capped(2 * x, max) = Capped(x, max)
<1> DEFINE d == Capped(x, max)
<1>1. d \in 1 .. max /\ (x < max => d = x) /\ (~(x < max) => d = max)
  BY MaxIntAssumption DEF Capped
<1>2. ~(d < max) => Capped(2 * x, max) = d
  BY <1>1, MaxIntAssumption DEF Capped
<1>3. Quotient(max, 2) = max \div 2
  BY MaxIntAssumption DEF Quotient
<1>4. Doubled(d, max) = Capped(2 * x, max)
  <2>1. CASE d > max \div 2
    <3>1. 2 * d > max
      BY <1>1, <2>1, MaxIntAssumption
    <3>2. Capped(2 * x, max) = max
      BY <1>1, <3>1, MaxIntAssumption DEF Capped
    <3> QED BY <1>3, <2>1, <3>2 DEF Doubled
  <2>2. CASE ~(d > max \div 2)
    <3>1. d * 2 <= max /\ d * 2 \in MachineInt
      BY <1>1, <2>2, MaxIntAssumption DEF MachineInt, MinInt
    <3>2. Doubled(d, max) = d * 2
      BY <1>3, <2>2, <3>1, NoWrap DEF Doubled
    <3>3. x < max
      BY <1>1, <3>1, MaxIntAssumption
    <3>4. d * 2 = Capped(2 * x, max)
      BY <1>1, <3>1, <3>3, MaxIntAssumption DEF Capped
    <3> QED BY <3>2, <3>4
  <2> QED BY <2>1, <2>2
<1> QED BY <1>1, <1>2, <1>4

\* OutboxPolicy.delay and ReferenceRetryPolicy.delay are the first delay, doubled for every
\* further attempt and cut off at the longest, whatever the policy and the attempt.
THEOREM DelayExact ==
  ASSUME NEW max \in 1 .. MaxInt, NEW first \in 1 .. max, NEW n \in Nat
  PROVE  /\ OutboxDelay(first, max)[n + 1] = Capped(first * TwoTo[n], max)
         /\ ReferenceDelay(first, max)[n + 1] = Capped(first * TwoTo[n], max)
         /\ Capped(first * TwoTo[n], max) \in 1 .. max
<1> DEFINE x(m) == first * TwoTo[m]
           O == OutboxDelay(first, max)
           R == ReferenceDelay(first, max)
           T == {m \in Nat : O[m + 1] = Capped(x(m), max) /\ R[m + 1] = Capped(x(m), max)}
<1>1. first \in Nat \ {0} /\ max \in Nat /\ first <= max
  BY MaxIntAssumption
<1>2. \A m \in Nat : x(m) \in Nat \ {0} /\ x(m + 1) = 2 * x(m)
  <2>1. ASSUME NEW m \in Nat PROVE x(m) \in Nat \ {0} /\ x(m + 1) = 2 * x(m)
    <3>1. PICK p \in Nat \ {0} : TwoTo[m] = p /\ TwoTo[m + 1] = 2 * p
      BY Powers
    <3>2. first * p \in Nat \ {0} /\ first * (2 * p) = 2 * (first * p)
      BY <1>1
    <3> QED BY <3>1, <3>2
  <2> QED BY <2>1
<1>3. x(0) = first
  BY <1>1, Powers
<1>4. \A m \in Nat : /\ O[m] = IF m <= 1 THEN first
                              ELSE IF O[m - 1] < max THEN Doubled(O[m - 1], max) ELSE O[m - 1]
                     /\ R[m] = IF m <= 1 THEN first ELSE Doubled(R[m - 1], max)
  <2>1. first \in Int /\ max \in Int
    BY <1>1
  <2> QED BY <2>1, OutboxDelayAt, ReferenceDelayAt
<1> HIDE DEF x, O, R
<1>5. 0 \in T
  <2>1. O[1] = first /\ R[1] = first
    BY <1>4
  <2> QED BY <1>1, <1>3, <2>1 DEF Capped
<1>6. ASSUME NEW m \in T PROVE m + 1 \in T
  <2>1. m + 1 \in Nat /\ (m + 1) + 1 \in Nat /\ ~((m + 1) + 1 <= 1) /\ ((m + 1) + 1) - 1 = m + 1
    OBVIOUS
  <2>2. /\ O[m + 1] = Capped(x(m), max) /\ R[m + 1] = Capped(x(m), max)
        /\ x(m) \in Nat \ {0} /\ x(m + 1) = 2 * x(m)
    BY <1>2
  <2>3. /\ O[(m + 1) + 1] = IF O[m + 1] < max THEN Doubled(O[m + 1], max) ELSE O[m + 1]
        /\ R[(m + 1) + 1] = Doubled(R[m + 1], max)
    BY <1>4, <2>1
  <2>4. /\ Doubled(Capped(x(m), max), max) = Capped(2 * x(m), max)
        /\ ~(Capped(x(m), max) < max) => Capped(2 * x(m), max) = Capped(x(m), max)
    BY <2>2, DoubledExact
  <2>5. /\ O[(m + 1) + 1] = Capped(x(m + 1), max)
        /\ R[(m + 1) + 1] = Capped(x(m + 1), max)
    BY <2>2, <2>3, <2>4
  <2> QED BY <2>1, <2>5
<1>7. T = Nat
  <2>1. T \in SUBSET Nat
    OBVIOUS
  <2> HIDE DEF T
  <2> QED BY <1>5, <1>6, <2>1, NatSteps
<1>8. O[n + 1] = Capped(x(n), max) /\ R[n + 1] = Capped(x(n), max)
  BY <1>7
<1>9. Capped(x(n), max) \in 1 .. max
  BY <1>2, DoubledExact
<1> QED BY <1>8, <1>9 DEF x, O, R

\* messageRetryDelay is 1, 2, 4, ... up to 60 seconds, whatever the number of deliveries.
THEOREM MessageDelayExact ==
  ASSUME NEW n \in Nat PROVE MessageDelay(n + 1) = Capped(TwoTo[n], 60)
<1> DEFINE M(m) == MessageDoubling[m + 1]
           T == {m \in Nat : M(m) = IF TwoTo[m] < 60 THEN TwoTo[m] ELSE 64}
           Small == {1, 2, 4, 8, 16, 32}
           S == {m \in Nat : TwoTo[m] \in Small \/ TwoTo[m] >= 64}
<1>1. M(0) = 1 /\ \A m \in Nat : M(m + 1) = IF M(m) < 60 THEN Wrap(M(m) * 2) ELSE M(m)
  <2>1. MessageDoubling[1] = 1
    BY MessageDoublingAt
  <2>2. ASSUME NEW m \in Nat PROVE M(m + 1) = IF M(m) < 60 THEN Wrap(M(m) * 2) ELSE M(m)
    <3>1. (m + 1) + 1 \in Nat /\ ~((m + 1) + 1 <= 1) /\ ((m + 1) + 1) - 1 = m + 1
      OBVIOUS
    <3> QED BY <3>1, MessageDoublingAt
  <2> QED BY <2>1, <2>2
<1>2. \A m \in Small : Wrap(m * 2) = m * 2
  <2>1. \A m \in Small : m * 2 \in MachineInt
    BY MaxIntAssumption DEF MachineInt, MinInt
  <2> QED BY <2>1, NoWrap
<1>3. S = Nat
  <2>1. 0 \in S
    BY Powers
  <2>2. ASSUME NEW m \in S PROVE m + 1 \in S
    <3>1. m + 1 \in Nat /\ TwoTo[m] \in Nat /\ TwoTo[m + 1] = 2 * TwoTo[m]
      BY Powers
    <3> QED BY <3>1
  <2>3. S \in SUBSET Nat
    OBVIOUS
  <2> HIDE DEF S
  <2> QED BY <2>1, <2>2, <2>3, NatSteps
<1>4. T = Nat
  <2>1. 0 \in T
    BY <1>1, Powers
  <2>2. ASSUME NEW m \in T PROVE m + 1 \in T
    <3>1. m + 1 \in Nat /\ TwoTo[m] \in Nat /\ TwoTo[m + 1] = 2 * TwoTo[m]
      BY Powers
    <3>2. TwoTo[m] \in Small \/ TwoTo[m] >= 64
      BY <1>3
    <3>3. M(m) = IF TwoTo[m] < 60 THEN TwoTo[m] ELSE 64
      OBVIOUS
    <3>4. M(m + 1) = IF M(m) < 60 THEN Wrap(M(m) * 2) ELSE M(m)
      BY <1>1
    <3> HIDE DEF M
    <3>5. CASE TwoTo[m] \in Small
      <4>1. M(m) = TwoTo[m] /\ M(m + 1) = TwoTo[m] * 2
        BY <1>2, <3>3, <3>4, <3>5
      <4>2. TwoTo[m + 1] = 2 \/ TwoTo[m + 1] = 4 \/ TwoTo[m + 1] = 8 \/ TwoTo[m + 1] = 16
            \/ TwoTo[m + 1] = 32 \/ TwoTo[m + 1] = 64
        BY <3>1, <3>5
      <4>3. M(m + 1) = TwoTo[m + 1]
        BY <3>1, <4>1
      <4> QED BY <3>1, <4>2, <4>3
    <3>6. CASE TwoTo[m] >= 64
      <4>1. M(m + 1) = 64
        BY <3>1, <3>3, <3>4, <3>6
      <4>2. ~(TwoTo[m + 1] < 60)
        BY <3>1, <3>6
      <4> QED BY <3>1, <4>1, <4>2
    <3> QED BY <3>2, <3>5, <3>6
  <2>3. T \in SUBSET Nat
    OBVIOUS
  <2> HIDE DEF T
  <2> QED BY <2>1, <2>2, <2>3, NatSteps
<1>5. M(n) = (IF TwoTo[n] < 60 THEN TwoTo[n] ELSE 64) /\ TwoTo[n] \in Nat
  BY <1>4, Powers
<1> QED BY <1>5 DEF MessageDelay, Capped

-----------------------------------------------------------------------------
(* Money and delays, over every sequence of operations.                     *)

\* What is looked at is a machine integer, or a policy that was accepted.
Representable ==
  /\ cents \in MachineInt /\ cents = exact
  /\ attempt \in Nat /\ initial \in 1 .. MaxInt /\ longest \in initial .. MaxInt

LEMMA ValuesRepresentable == ArithmeticSpec => []Representable
<1>1. ArithmeticInit => Representable
  BY MaxIntAssumption DEF ArithmeticInit, MoneyInit, PolicyInit, Representable, MachineInt, MinInt
<1>2. Representable /\ [ArithmeticNext]_<<money, delays>> => Representable'
  <2> SUFFICES ASSUME Representable, [ArithmeticNext]_<<money, delays>> PROVE Representable'
    OBVIOUS
  <2>1. CASE UNCHANGED <<money, delays>>
    BY <2>1 DEF money, delays, Representable
  <2>2. CASE attempt > 0 /\ NextAttempt /\ UNCHANGED money
    BY <2>2 DEF NextAttempt, money, Representable
  <2>3. CASE attempt = 0 /\ MoneyNext /\ UNCHANGED delays
    <3>1. cents' \in MachineInt /\ cents' = exact'
      <4>1. ASSUME NEW b \in MachineInt, AddTo(b) PROVE cents' \in MachineInt /\ cents' = exact'
        <5>1. /\ AddOverflows(cents, b) <=> cents + b \notin MachineInt
              /\ ~AddOverflows(cents, b) => Add(cents, b) = cents + b
          BY AddExact DEF Representable
        <5> QED BY <4>1, <5>1 DEF AddTo, Becomes, money, Representable
      <4>2. ASSUME NEW b \in MachineInt, SubFrom(b) PROVE cents' \in MachineInt /\ cents' = exact'
        <5>1. /\ SubOverflows(cents, b) <=> cents - b \notin MachineInt
              /\ ~SubOverflows(cents, b) => Sub(cents, b) = cents - b
          BY SubExact DEF Representable
        <5> QED BY <4>2, <5>1 DEF SubFrom, Becomes, money, Representable
      <4>3. ASSUME NegateIt PROVE cents' \in MachineInt /\ cents' = exact'
        <5>1. ~NegateOverflows(cents) => -cents \in MachineInt
          BY MaxIntAssumption DEF Representable, NegateOverflows, MachineInt, MinInt
        <5>2. ~NegateOverflows(cents) => Negate(cents) = -cents
          BY <5>1, NoWrap DEF Negate
        <5> QED BY <4>3, <5>1, <5>2 DEF NegateIt, Becomes, money, Representable
      <4>4. ASSUME NEW whole \in Wholes, NEW part \in 0 .. 99, ParseIt(whole, part)
            PROVE  cents' \in MachineInt /\ cents' = exact'
        <5>1. whole \in Nat
          BY ArithmeticAssumption, MaxIntAssumption
        <5>2. /\ ParseOverflows(whole, part) <=> whole * 100 + part > MaxInt
              /\ ~ParseOverflows(whole, part) => Parse(whole, part) = whole * 100 + part
          BY <5>1, ParseExact
        <5>3. ~ParseOverflows(whole, part) => whole * 100 + part \in MachineInt
          BY <5>1, <5>2, MaxIntAssumption DEF MachineInt, MinInt
        <5> QED BY <4>4, <5>2, <5>3 DEF ParseIt, Becomes, money, Representable
      <4> QED BY <2>3, <4>1, <4>2, <4>3, <4>4 DEF MoneyNext
    <3> QED BY <2>3, <3>1 DEF delays, Representable
  <2> QED BY <2>1, <2>2, <2>3 DEF ArithmeticNext
<1> QED BY <1>1, <1>2, PTL DEF ArithmeticSpec

\* However many operations a value goes through, it is the exact integer, and none is refused
\* whose result fits (Add, Sub, Negate, NewMoney).
THEOREM MoneyIsExact == ArithmeticSpec => []Exact
<1>1. Representable => Exact
  <2> SUFFICES ASSUME Representable PROVE Exact
    OBVIOUS
  <2>1. ASSUME NEW b \in MachineInt
        PROVE  /\ AddOverflows(cents, b) => cents + b \notin MachineInt
               /\ SubOverflows(cents, b) => cents - b \notin MachineInt
    BY AddExact, SubExact DEF Representable
  <2>2. NegateOverflows(cents) => -cents \notin MachineInt
    BY MaxIntAssumption DEF Representable, NegateOverflows, MachineInt, MinInt
  <2>3. ASSUME NEW whole \in Wholes, NEW part \in 0 .. 99, ParseOverflows(whole, part)
        PROVE  whole * 100 + part \notin MachineInt
    <3>1. whole \in Nat
      BY ArithmeticAssumption, MaxIntAssumption
    <3>2. whole * 100 + part > MaxInt
      BY <2>3, <3>1, ParseExact
    <3> QED BY <3>1, <3>2, MaxIntAssumption DEF MachineInt, MinInt
  <2> QED BY <2>1, <2>2, <2>3 DEF Exact, Representable
<1> QED BY <1>1, ValuesRepresentable, PTL

\* A quotient and its remainder by 100.
LEMMA Hundreds ==
  ASSUME NEW m \in Nat
  PROVE  m \div 100 \in Nat /\ m - 100 * (m \div 100) \in 0 .. 99 /\ m \div 100 <= m
OBVIOUS

\* What String prints NewMoney reads back, at every value of a machine integer.
THEOREM PrintedIsRead == ArithmeticSpec => []PrintsWhatItReads
<1>1. Representable => PrintsWhatItReads
  <2> SUFFICES ASSUME Representable PROVE PrintsWhatItReads
    OBVIOUS
  <2> DEFINE d == Digits(cents)
             m == IF cents < 0 THEN -cents ELSE cents
             q == m \div 100
             r == m - 100 * q
  <2>1. cents \in Int /\ m \in Nat /\ m <= MaxInt + 1 /\ (cents >= 0 => m <= MaxInt)
    BY MaxIntAssumption DEF Representable, MachineInt, MinInt
  <2>2. q \in Nat /\ r \in 0 .. 99 /\ q <= m /\ q * 100 + r = m
    <3>1. q \in Nat /\ r \in 0 .. 99 /\ q <= m
      BY <2>1, Hundreds
    <3> HIDE DEF q, m
    <3> QED BY <2>1, <3>1
  <2>3. q \in MachineInt /\ r \in MachineInt
    <3>1. q <= MaxInt
      <4>1. 100 * q <= MaxInt + 1
        BY <2>1, <2>2, MaxIntAssumption
      <4> HIDE DEF q, m
      <4> QED BY <2>2, <4>1, MaxIntAssumption
    <3> HIDE DEF q, r, m
    <3> QED BY <2>2, <3>1, MaxIntAssumption DEF MachineInt, MinInt
  <2>4. d.negative = (cents < 0) /\ d.whole = q /\ d.cents = r
    <3>1. CASE cents < 0
      <4>1. Quotient(cents, 100) = -q /\ Remainder(cents, 100) = -r
        <5>1. Quotient(cents, 100) = -q
          BY <2>1, <3>1 DEF Quotient
        <5>2. cents = -m
          BY <2>1, <3>1
        <5> HIDE DEF q, m
        <5>3. cents - 100 * (-q) = -(m - 100 * q)
          BY <2>1, <2>2, <5>2
        <5> QED BY <5>1, <5>3 DEF Remainder
      <4>2. -(-q) = q /\ -(-r) = r
        BY <2>2
      <4>3. Wrap(-Quotient(cents, 100)) = q /\ Wrap(-Remainder(cents, 100)) = r
        BY <2>3, <4>1, <4>2, NoWrap
      <4> HIDE DEF q, r, m
      <4> QED BY <3>1, <4>3 DEF Digits
    <3>2. CASE ~(cents < 0)
      <4>1. Quotient(cents, 100) = q /\ Remainder(cents, 100) = r
        BY <2>1, <3>2 DEF Quotient, Remainder
      <4> HIDE DEF q, r, m
      <4> QED BY <3>2, <4>1 DEF Digits
    <3> QED BY <3>1, <3>2
  <2>5. /\ ParseOverflows(q, r) <=> q * 100 + r > MaxInt
        /\ ~ParseOverflows(q, r) => Parse(q, r) = q * 100 + r
    <3> HIDE DEF q, r
    <3> QED BY <2>2, ParseExact
  <2>6. m \in MachineInt <=> ~(m > MaxInt)
    BY <2>1, MaxIntAssumption DEF MachineInt, MinInt
  <2>7. /\ d.whole >= 0 /\ d.cents \in 0 .. 99
        /\ d.whole * 100 + d.cents = m
        /\ IF m \in MachineInt
           THEN ~ParseOverflows(d.whole, d.cents) /\ Parse(d.whole, d.cents) = m
           ELSE ParseOverflows(d.whole, d.cents)
    <3>1. q >= 0
      BY <2>2
    <3> HIDE DEF q, r, m, d
    <3> QED BY <2>2, <2>4, <2>5, <2>6, <3>1
  <2> QED BY <2>4, <2>7 DEF PrintsWhatItReads
<1> QED BY <1>1, ValuesRepresentable, PTL

\* The three delays are what they are meant to be, for every policy that is accepted and
\* however many attempts are made.
THEOREM DelaysAreExact == ArithmeticSpec => []DelaysExact
<1>1. Representable => DelaysExact
  <2> SUFFICES ASSUME Representable, attempt > 0 PROVE DelaysExact
    BY DEF DelaysExact
  <2> DEFINE n == attempt - 1
  <2>1. n \in Nat /\ attempt = n + 1 /\ longest \in 1 .. MaxInt /\ initial \in 1 .. longest
    BY MaxIntAssumption DEF Representable
  <2> HIDE DEF n
  <2>2. /\ OutboxDelay(initial, longest)[n + 1] = Capped(initial * TwoTo[n], longest)
        /\ ReferenceDelay(initial, longest)[n + 1] = Capped(initial * TwoTo[n], longest)
        /\ MessageDelay(n + 1) = Capped(TwoTo[n], 60)
    BY <2>1, DelayExact, MessageDelayExact
  <2>3. attempt - 1 = n
    BY DEF n
  <2> QED BY <2>1, <2>2, <2>3 DEF DelaysExact
<1> QED BY <1>1, ValuesRepresentable, PTL

-----------------------------------------------------------------------------
(* The inductive invariant.                                                 *)

\* Requests that are being processed, or have been, were admitted.
Admitted ==
  /\ \A c \in Calls : stage[c] \notin {"idle", "done"} \/ Present(c) =>
       ValidationError(Request[c]) = ""
  /\ \A o \in Openings : stage[o] = "commit" => OpeningRequest[o].balance >= 0

\* The rows and wallets a transaction works on.
Working ==
  /\ \A c \in Calls : /\ tx[c].txn \in {c, Nil}
                      /\ stage[c] = "decide" => tx[c].txn = c
                      /\ stage[c] \notin {"decide", "commit"} => tx[c].txn = Nil
                      /\ stage[c] = "insert" => tx[c].pass = "locked"
                      /\ tx[c].pass \in {"locked", "conflict"} => tx[c].wallet \in Openings
                      /\ stage[c] \notin {"claim", "claimRow"}
  /\ \A p \in RefWorkers : /\ tx[p].txn # Nil => Present(tx[p].txn)
                           /\ stage[p] = "decide" => tx[p].txn # Nil
                           /\ stage[p] \in {"idle", "claim", "claimRow"} => tx[p].txn = Nil
                           /\ stage[p] \in {"claim", "claimRow"} => tx[p].wallet \in Openings
                           /\ stage[p] \in {"idle", "claim", "claimRow", "decide", "commit"}
  /\ \A p \in Procs : tx[p].txn # Nil => tx[p].wallet \in Openings

\* A decision is made at most once and, when it moves money, within bounds.
Decided ==
  \A p \in Procs :
    /\ stage[p] # "commit" => tx[p].outcome.status = "NONE"
    /\ stage[p] = "commit" /\ tx[p].txn # Nil => tx[p].outcome.status # "NONE"
    /\ Moves(p) => /\ tx[p].outcome.direction \in Directions
                   /\ Amount(tx[p].txn) \in 1 .. MaxInt
                   /\ tx[p].base.version >= 1

Control == Admitted /\ Working /\ Decided

\* A snapshot is taken under the lock and kept true by it.
LockInv ==
  /\ \A p \in Procs : tx[p].base # NoWallet =>
       /\ tx[p].wallet \in Openings
       /\ lock[tx[p].wallet] = p
       /\ tx[p].base = wallets[tx[p].wallet]
  /\ \A p \in RefWorkers : /\ stage[p] \in {"idle", "claim"} => tx[p].base = NoWallet
                           /\ stage[p] = "claimRow" => lock[tx[p].wallet] = p
  /\ \A o \in Openings : stage[o] # "done" => wallets[o] = NoWallet

\* Identities of stored rows and of rows in open transactions.
UniqueInv ==
  /\ OneRowPerIdentity
  /\ \A c, x \in Calls : tx[c].txn = c /\ Present(x) => ~SameIdentity(Request[x], Request[c])
  /\ \A c, d \in Calls : tx[c].txn = c /\ tx[d].txn = d
                         /\ SameIdentity(Request[d], Request[c]) => c = d

TypeInv == TypeOK /\ IsFiniteSet(outbox)

IInv == TypeInv /\ Control /\ LockInv /\ UniqueInv

-----------------------------------------------------------------------------
(* The end of a unit of work.                                               *)

\* Nil differs from everything it is stored beside.
LEMMA NilApart == /\ Nil \notin Calls /\ Nil \notin Openings /\ Nil \notin RefWorkers
                  /\ Nil \notin Procs /\ Nil \notin Directions /\ Nil \notin Int
BY ProcessAssumption DEF Procs

\* The values transactions and answers start from are well typed.
LEMMA EmptyTypes == /\ NoWallet \in WalletType /\ NoRow \in RowType
                    /\ NoOutcome \in OutcomeType /\ NoReply \in ReplyType /\ NoTx \in TxType
<1>1. NoWallet \in WalletType /\ NoOutcome \in OutcomeType
  BY MaxIntAssumption DEF NoWallet, NoOutcome, WalletType, OutcomeType
<1>2. NoRow \in RowType /\ NoReply \in ReplyType
  BY DEF NoRow, NoReply, RowType, ReplyType
<1>3. NoTx \in TxType
  BY <1>1, <1>2 DEF NoTx, TxType
<1> QED BY <1>1, <1>2, <1>3

\* An error answer is an answer.
LEMMA ErrorReplyType ==
  ASSUME NEW e \in CallErrors \cup AllSafeguards PROVE ErrorReply(e) \in ReplyType
BY EmptyTypes DEF ErrorReply, NoReply, ReplyType

\* Ending a transaction with a well-typed answer keeps the types of what it touches.
LEMMA EndTypes ==
  ASSUME TypeOK, NEW p \in Actors, NEW r \in ReplyType, End(p, r)
  PROVE  /\ lock' \in [Openings -> Procs \cup {Nil}]
         /\ stage' \in [Actors -> Stages]
         /\ tx' \in [Procs -> TxType]
         /\ answer' \in [Actors -> ReplyType]
<1>1. lock' \in [Openings -> Procs \cup {Nil}]
  BY DEF End, TypeOK
<1>2. stage' \in [Actors -> Stages]
  BY DEF End, TypeOK, Rest, Stages
<1>3. tx' \in [Procs -> TxType]
  BY EmptyTypes DEF End, TypeOK
<1>4. answer' \in [Actors -> ReplyType]
  BY DEF End, TypeOK
<1> QED BY <1>1, <1>2, <1>3, <1>4

\* What End leaves in the places of p and of everybody else.
LEMMA EndPoints ==
  ASSUME TypeOK, NEW p \in Actors, NEW r, End(p, r)
  PROVE  /\ stage'[p] = Rest(p)
         /\ \A q \in Actors : q # p => stage'[q] = stage[q]
         /\ \A q \in Procs : q = p => tx'[q] = NoTx
         /\ \A q \in Procs : q # p => tx'[q] = tx[q]
         /\ \A w \in Openings, q \in Procs : q # p /\ lock[w] = q => lock'[w] = q
BY DEF End, TypeOK

\* A transaction that ends without writing keeps the invariant.
LEMMA EndKeeps ==
  ASSUME IInv, NEW p \in Actors, NEW r \in ReplyType, End(p, r), UNCHANGED store,
         faults' \in 0 .. MaxFaults
  PROVE  IInv'
<1>1. TypeOK /\ r \in ReplyType /\ End(p, r) /\ UNCHANGED store
  BY DEF IInv, TypeInv
<1>2. TypeInv'
  BY <1>1, EndTypes DEF TypeInv, TypeOK, IInv, store
<1>3. Rest(p) \in {"idle", "done"} /\ (p \in RefWorkers => Rest(p) = "idle")
      /\ (p \notin RefWorkers => Rest(p) = "done")
  BY DEF Rest
<1>4. NoTx.txn = Nil /\ NoTx.base = NoWallet /\ NoTx.outcome.status = "NONE" /\ NoTx.pass = "first"
  BY DEF NoTx, NoOutcome
<1>5. Control'
  <2>1. Admitted'
    BY <1>1, <1>3, EndPoints DEF IInv, Control, Admitted, store, Present, Actors, Procs
  <2>2. Working'
    BY <1>1, <1>3, <1>4, EndPoints, ProcessAssumption
    DEF IInv, Control, Working, store, Present, Actors, Procs
  <2>3. Decided'
    BY <1>1, <1>3, <1>4, EndPoints DEF IInv, Control, Decided, Moves, Actors, Procs
  <2> QED BY <2>1, <2>2, <2>3 DEF Control
<1>6. LockInv'
  <2>1. ASSUME NEW q \in Procs, tx'[q].base # NoWallet
        PROVE  /\ tx'[q].wallet \in Openings
               /\ lock'[tx'[q].wallet] = q
               /\ tx'[q].base = wallets'[tx'[q].wallet]
    <3>1. q # p /\ tx'[q] = tx[q]
      BY <1>1, <1>4, <2>1, EndPoints
    <3>2. tx[q].wallet \in Openings /\ lock[tx[q].wallet] = q /\ tx[q].base = wallets[tx[q].wallet]
      BY <2>1, <3>1 DEF IInv, LockInv
    <3> QED BY <1>1, <3>1, <3>2, EndPoints DEF store
  <2>2. ASSUME NEW q \in RefWorkers
        PROVE  /\ stage'[q] \in {"idle", "claim"} => tx'[q].base = NoWallet
               /\ stage'[q] = "claimRow" => lock'[tx'[q].wallet] = q
    <3>1. CASE q = p
      BY <1>1, <1>3, <1>4, <3>1, EndPoints DEF Actors, Procs
    <3>2. CASE q # p
      <4>1. stage'[q] = stage[q] /\ tx'[q] = tx[q]
        BY <1>1, <3>2, EndPoints DEF Actors, Procs
      <4>2. stage[q] = "claimRow" => tx[q].wallet \in Openings /\ lock[tx[q].wallet] = q
        BY DEF IInv, LockInv, Control, Working
      <4>3. stage[q] \in {"idle", "claim"} => tx[q].base = NoWallet
        BY DEF IInv, LockInv
      <4> QED BY <1>1, <3>2, <4>1, <4>2, <4>3, EndPoints DEF Procs
    <3> QED BY <3>1, <3>2
  <2>3. ASSUME NEW o \in Openings, stage'[o] # "done" PROVE wallets'[o] = NoWallet
    BY <1>1, <1>3, <2>3, EndPoints, ProcessAssumption DEF IInv, LockInv, store, Actors
  <2> QED BY <2>1, <2>2, <2>3 DEF LockInv
<1>7. UniqueInv'
  BY <1>1, <1>4, EndPoints, NilApart
  DEF IInv, UniqueInv, OneRowPerIdentity, Present, store, Actors, Procs
<1> QED BY <1>2, <1>5, <1>6, <1>7 DEF IInv

\* A rollback keeps the invariant.
LEMMA FailKeeps ==
  ASSUME IInv, NEW p \in Actors, NEW e \in CallErrors \cup AllSafeguards, Fail(p, e),
         faults' \in 0 .. MaxFaults
  PROVE  IInv'
BY ErrorReplyType, EndKeeps DEF Fail

-----------------------------------------------------------------------------
(* A step inside a transaction: process p goes to stage s with transaction  *)
(* record x, nothing is stored, and no lock that is held changes hands.     *)

\* The conditions of Control and LockInv for one process.
LocalOK(p, s, x) ==
  /\ x.txn # Nil => x.wallet \in Openings
  /\ s # "commit" => x.outcome.status = "NONE"
  /\ s = "commit" /\ x.txn # Nil => x.outcome.status # "NONE"
  /\ x.txn # Nil /\ x.outcome.status = "PROCESSED" /\ Kind(x.txn) # "LOSS" =>
       /\ x.outcome.direction \in Directions
       /\ Amount(x.txn) \in 1 .. MaxInt
       /\ x.base.version >= 1

CallOK(c, s, x) ==
  /\ s \in {"inbox", "findKey", "findExt", "wallet", "insert", "decide", "commit"}
  /\ ValidationError(Request[c]) = ""
  /\ x.txn \in {c, Nil}
  /\ s = "decide" => x.txn = c
  /\ s \notin {"decide", "commit"} => x.txn = Nil
  /\ s = "insert" => x.pass = "locked"
  /\ x.pass \in {"locked", "conflict"} => x.wallet \in Openings
  /\ x.txn = c => \A d \in Calls : Present(d) \/ (d # c /\ tx[d].txn = d) =>
                      ~SameIdentity(Request[d], Request[c])

WorkerOK(p, s, x) ==
  /\ s \in {"idle", "claim", "claimRow", "decide", "commit"}
  /\ x.txn # Nil => Present(x.txn)
  /\ s = "decide" => x.txn # Nil
  /\ s \in {"idle", "claim", "claimRow"} => x.txn = Nil
  /\ s \in {"claim", "claimRow"} => x.wallet \in Openings
  /\ s \in {"idle", "claim"} => x.base = NoWallet
  /\ s = "claimRow" => lock'[x.wallet] = p

SnapshotOK(p, x) == x.base # NoWallet => /\ x.wallet \in Openings
                                         /\ lock'[x.wallet] = p
                                         /\ x.base = wallets[x.wallet]

\* Sharing an identity is symmetric.
LEMMA SameIdentitySymmetric ==
  ASSUME NEW q, NEW r PROVE SameIdentity(q, r) <=> SameIdentity(r, q)
BY DEF SameIdentity, SameKey, SameExternalID

\* Such a step keeps the invariant when its own process satisfies it afterwards.
LEMMA AdvanceKeeps ==
  ASSUME IInv, NEW p \in Procs, NEW s \in Stages, NEW x \in TxType,
         stage' = [stage EXCEPT ![p] = s], tx' = [tx EXCEPT ![p] = x],
         UNCHANGED <<store, answer, faults>>,
         lock' \in [Openings -> Procs \cup {Nil}],
         \A w \in Openings : lock[w] # Nil => lock'[w] = lock[w],
         LocalOK(p, s, x), SnapshotOK(p, x),
         p \in Calls => CallOK(p, s, x), p \in RefWorkers => WorkerOK(p, s, x)
  PROVE  IInv'
<1>1. TypeOK /\ p \in Actors /\ UNCHANGED store
  BY DEF IInv, TypeInv, Actors, store
<1>2. /\ stage'[p] = s /\ tx'[p] = x
      /\ \A q \in Actors : q # p => stage'[q] = stage[q]
      /\ \A q \in Procs : q # p => tx'[q] = tx[q]
  BY <1>1 DEF TypeOK
<1>3. TypeInv'
  BY <1>1 DEF TypeInv, TypeOK, IInv, store
<1>4. Control'
  <2>1. Admitted'
    BY <1>1, <1>2, ProcessAssumption
    DEF IInv, Control, Admitted, CallOK, store, Present, Actors, Procs
  <2>2. Working'
    <3>1. ASSUME NEW c \in Calls
          PROVE  /\ tx'[c].txn \in {c, Nil}
                 /\ stage'[c] = "decide" => tx'[c].txn = c
                 /\ stage'[c] \notin {"decide", "commit"} => tx'[c].txn = Nil
                 /\ stage'[c] = "insert" => tx'[c].pass = "locked"
                 /\ tx'[c].pass \in {"locked", "conflict"} => tx'[c].wallet \in Openings
                 /\ stage'[c] \notin {"claim", "claimRow"}
      BY <1>2 DEF IInv, Control, Working, CallOK, Actors, Procs
    <3>2. ASSUME NEW q \in RefWorkers
          PROVE  /\ stage'[q] = "decide" => tx'[q].txn # Nil
                 /\ stage'[q] \in {"idle", "claim", "claimRow"} => tx'[q].txn = Nil
                 /\ stage'[q] \in {"claim", "claimRow"} => tx'[q].wallet \in Openings
                 /\ stage'[q] \in {"idle", "claim", "claimRow", "decide", "commit"}
      BY <1>1, <1>2 DEF IInv, Control, Working, WorkerOK, Actors, Procs, Present, store
    <3>3. ASSUME NEW q \in RefWorkers, tx'[q].txn # Nil PROVE Present(tx[q].txn)'
      BY <1>1, <1>2, <3>3 DEF IInv, Control, Working, WorkerOK, Actors, Procs, Present, store
    <3>4. ASSUME NEW q \in Procs, tx'[q].txn # Nil PROVE tx'[q].wallet \in Openings
      BY <1>2, <3>4 DEF IInv, Control, Working, LocalOK
    <3> QED BY <3>1, <3>2, <3>3, <3>4 DEF Working
  <2>3. Decided'
    BY <1>2 DEF IInv, Control, Decided, Moves, LocalOK, Actors
  <2> QED BY <2>1, <2>2, <2>3 DEF Control
<1>5. LockInv'
  <2>1. ASSUME NEW q \in Procs, tx'[q].base # NoWallet
        PROVE  /\ tx'[q].wallet \in Openings
               /\ lock'[tx'[q].wallet] = q
               /\ tx'[q].base = wallets'[tx'[q].wallet]
    <3>1. CASE q = p
      BY <1>1, <1>2, <2>1, <3>1 DEF SnapshotOK, store
    <3>2. CASE q # p
      BY <1>1, <1>2, <2>1, <3>2, NilApart DEF IInv, LockInv, store
    <3> QED BY <3>1, <3>2
  <2>2. ASSUME NEW q \in RefWorkers
        PROVE  /\ stage'[q] \in {"idle", "claim"} => tx'[q].base = NoWallet
               /\ stage'[q] = "claimRow" => lock'[tx'[q].wallet] = q
    <3>1. CASE q = p
      BY <1>2, <3>1 DEF WorkerOK
    <3>2. CASE q # p
      BY <1>2, <3>2, NilApart DEF IInv, LockInv, Control, Working, Actors, Procs
    <3> QED BY <3>1, <3>2
  <2>3. ASSUME NEW o \in Openings, stage'[o] # "done" PROVE wallets'[o] = NoWallet
    BY <1>1, <1>2, <2>3, ProcessAssumption DEF IInv, LockInv, store, Actors, Procs
  <2> QED BY <2>1, <2>2, <2>3 DEF LockInv
<1>6. UniqueInv'
  <2>1. OneRowPerIdentity'
    BY <1>1 DEF IInv, UniqueInv, OneRowPerIdentity, Present, store
  <2>2. ASSUME NEW c \in Calls, NEW d \in Calls, tx'[c].txn = c, Present(d)'
        PROVE  ~SameIdentity(Request[d], Request[c])
    BY <1>1, <1>2, <2>2 DEF IInv, UniqueInv, CallOK, Present, store, Procs
  <2>3. ASSUME NEW c \in Calls, NEW d \in Calls, tx'[c].txn = c, tx'[d].txn = d,
               SameIdentity(Request[d], Request[c])
        PROVE  c = d
    BY <1>2, <2>3, SameIdentitySymmetric DEF IInv, UniqueInv, CallOK, Procs
  <2> QED BY <2>1, <2>2, <2>3 DEF UniqueInv
<1> QED BY <1>3, <1>4, <1>5, <1>6 DEF IInv

-----------------------------------------------------------------------------
(* Decisions.                                                               *)

\* An admitted operation carries money unless it is a loss.
LEMMA AdmittedAmount ==
  ASSUME NEW c \in Calls, ValidationError(Request[c]) = "", Request[c].kind # "LOSS"
  PROVE  Request[c].amount \in 1 .. MaxInt
BY RequestAssumption, MaxIntAssumption DEF ValidationError, ValidAmount, MachineInt, MinInt

\* The outcomes processing is built from are well typed and have the status they are named for.
LEMMA OutcomeTypes ==
  /\ Wait \in OutcomeType /\ Wait.status = "PENDING_REFERENCE"
  /\ \A code \in FailureCodes, x \in Calls \cup {Nil} :
       Rejected(code, x) \in OutcomeType /\ Rejected(code, x).status = "REJECTED"
  /\ \A x \in Calls \cup {Nil}, d \in Directions \cup {Nil}, a \in 0 .. MaxInt :
       /\ Processed(x, d, a) \in OutcomeType
       /\ Processed(x, d, a).status = "PROCESSED"
       /\ Processed(x, d, a).direction = d
BY EmptyTypes DEF Wait, Rejected, Processed, OutcomeType, Statuses

\* What Credit and Debit let through stays between zero and the largest int64.
LEMMA MovedInRange ==
  ASSUME NEW balance \in 0 .. MaxInt, NEW amount \in 1 .. MaxInt
  PROVE  /\ ~Insufficient(balance, amount) => Moved(balance, "DEBIT", amount) \in 0 .. MaxInt
         /\ ~AddOverflows(balance, amount) => Moved(balance, "CREDIT", amount) \in 0 .. MaxInt
BY MaxIntAssumption DEF Insufficient, AddOverflows, Moved, MinInt

\* A decision that moves money does so within bounds.
Bounded(o, t, base) ==
  /\ o \in OutcomeType
  /\ o.status = "PROCESSED" /\ Kind(t) # "LOSS" =>
       /\ o.direction \in Directions
       /\ Amount(t) \in 1 .. MaxInt
       /\ base.version >= 1

\* Credit and Debit decide within bounds, for every operation, reference and wallet.
LEMMA MoveBounded ==
  ASSUME NEW t \in Calls, NEW x \in Calls \cup {Nil}, NEW base \in WalletType,
         Request[t].amount \in 1 .. MaxInt
  PROVE  Bounded(Move(Request[t], x, base), t, base)
<1> DEFINE q == Request[t]
           direction == Direction(q.kind, IF x = Nil THEN Nil ELSE Kind(x))
<1>1. base.balance \in 0 .. MaxInt /\ base.version \in Nat
  BY DEF WalletType
<1>2. direction \in {"CREDIT", "DEBIT"}
  BY DEF Direction
<1>3. Amount(t) = q.amount
  BY ProcessAssumption DEF Amount
<1>4. CASE ~Movable(base)
  BY <1>4, EmptyTypes DEF Move, Bounded, NoOutcome
<1>5. CASE Movable(base) /\ direction = "DEBIT" /\ Insufficient(base.balance, q.amount)
  BY <1>5, OutcomeTypes DEF Move, Bounded, FailureCodes
<1>6. CASE Movable(base) /\ direction = "CREDIT" /\ AddOverflows(base.balance, q.amount)
  BY <1>6, OutcomeTypes DEF Move, Bounded, FailureCodes
<1>7. CASE /\ Movable(base)
           /\ ~(direction = "DEBIT" /\ Insufficient(base.balance, q.amount))
           /\ ~(direction = "CREDIT" /\ AddOverflows(base.balance, q.amount))
  <2>1. Moved(base.balance, direction, q.amount) \in 0 .. MaxInt
    BY <1>1, <1>2, <1>7, MovedInRange
  <2>2. Move(q, x, base) = Processed(x, direction, Moved(base.balance, direction, q.amount))
    BY <1>7 DEF Move
  <2>3. base.version >= 1
    BY <1>7 DEF Movable
  <2> DEFINE o == Move(Request[t], x, base)
  <2>4. direction \in Directions
    BY <1>2 DEF Directions
  <2>5. o = Processed(x, direction, Moved(base.balance, direction, q.amount))
    BY <2>2
  <2> HIDE DEF o, direction
  <2>6. o \in OutcomeType /\ o.direction \in Directions
    BY <2>1, <2>4, <2>5, OutcomeTypes
  <2>7. Amount(t) \in 1 .. MaxInt
    BY <1>3
  <2> QED BY <2>3, <2>6, <2>7 DEF Bounded, o
<1> QED BY <1>2, <1>4, <1>5, <1>6, <1>7

\* processWager decides within bounds, whatever rows and references it finds.
LEMMA ProcessWagerBounded ==
  ASSUME NEW t \in Calls, NEW base \in WalletType, ValidationError(Request[t]) = ""
  PROVE  Bounded(ProcessWager(t, base), t, base)
<1>1. CASE ~NeedsReference(Request[t]) /\ Request[t].kind = "LOSS"
  <2>1. Kind(t) = "LOSS"
    BY <1>1, ProcessAssumption DEF Kind
  <2>2. ProcessWager(t, base) = Processed(Nil, Nil, base.balance)
    BY <1>1 DEF ProcessWager
  <2>3. base.balance \in 0 .. MaxInt
    BY DEF WalletType
  <2>4. Processed(Nil, Nil, base.balance) \in OutcomeType
    BY <2>3, OutcomeTypes
  <2> QED BY <2>1, <2>2, <2>4 DEF Bounded
<1>2. CASE ~NeedsReference(Request[t]) /\ Request[t].kind # "LOSS"
  <2>1. ProcessWager(t, base) = Move(Request[t], Nil, base)
    BY <1>2 DEF ProcessWager
  <2>2. Request[t].amount \in 1 .. MaxInt
    BY <1>2, AdmittedAmount
  <2>3. Bounded(Move(Request[t], Nil, base), t, base)
    BY <2>2, MoveBounded
  <2> QED BY <2>1, <2>3
<1>3. CASE NeedsReference(Request[t])
  <2> DEFINE x == CHOOSE y \in FindReference(t) : TRUE
  <2>1. Request[t].kind # "LOSS"
    BY <1>3 DEF NeedsReference, IsReversal
  <2>2. CASE FindReference(t) = {}
    BY <1>3, <2>2, OutcomeTypes DEF ProcessWager, Bounded
  <2>3. CASE FindReference(t) # {}
    <3>1. x \in Calls
      BY <2>3 DEF FindReference
    <3>2. ProcessWager(t, base) = WithReference(t, x, base)
      BY <1>3, <2>3 DEF ProcessWager
    <3> HIDE DEF x
    <3>3. Bounded(Move(Request[t], x, base), t, base)
      BY <2>1, <3>1, AdmittedAmount, MoveBounded
    <3>4. Bounded(Rejected("INVALID_REFERENCE", Nil), t, base)
          /\ Bounded(Rejected("REFERENCE_UNSUCCESSFUL", Nil), t, base)
          /\ Bounded(Rejected("ALREADY_REVERSED", x), t, base)
          /\ Bounded(Wait, t, base)
      BY <3>1, OutcomeTypes DEF Bounded, FailureCodes
    <3>5. ResolveReference(t, x) \in {"invalid", "notProcessed", "ok"}
      BY DEF ResolveReference, ValidateReference
    <3>6. CASE ResolveReference(t, x) = "invalid"
      BY <3>2, <3>4, <3>6 DEF WithReference
    <3>7. CASE ResolveReference(t, x) = "notProcessed"
      BY <3>2, <3>4, <3>7 DEF WithReference
    <3>8. CASE ResolveReference(t, x) = "ok"
      BY <3>2, <3>3, <3>4, <3>8 DEF WithReference
    <3> QED BY <3>5, <3>6, <3>7, <3>8
  <2> QED BY <2>2, <2>3
<1> QED BY <1>1, <1>2, <1>3

\* Counting an attempt.
LEMMA Successor == ASSUME NEW k \in Nat PROVE k + 1 \in Nat
OBVIOUS

\* The retry adds the limit and the attempt counter.
LEMMA RetryBounded ==
  ASSUME TypeOK, NEW p \in RefWorkers, NEW t \in Calls, NEW base \in WalletType,
         ValidationError(Request[t]) = ""
  PROVE  Bounded(RetryOutcome(p, t, base), t, base)
<1> DEFINE n == wagers[t].attempts
           o == ProcessWager(t, base)
           notFound == Rejected("REFERENCE_NOT_FOUND", Nil)
<1>1. n \in Nat
  <2>1. wagers[t] \in RowType
    BY DEF TypeOK, Txns
  <2> QED BY <2>1 DEF RowType
<1>2. Bounded(o, t, base)
  BY ProcessWagerBounded
<1>3. notFound \in OutcomeType /\ notFound.status = "REJECTED"
  BY OutcomeTypes DEF FailureCodes
<1>4. RetryOutcome(p, t, base) \in {[notFound EXCEPT !.attempts = n, !.due = TRUE],
                                    [notFound EXCEPT !.attempts = n + 1],
                                    [o EXCEPT !.attempts = n + 1]}
  BY DEF RetryOutcome
<1> HIDE DEF n, o, notFound
<1>5. n + 1 \in Nat
  BY <1>1, Successor
<1>6. \A m \in Nat : Bounded([notFound EXCEPT !.attempts = m], t, base)
  BY <1>3 DEF Bounded, OutcomeType
<1>7. Bounded([notFound EXCEPT !.attempts = n, !.due = TRUE], t, base)
  BY <1>1, <1>3 DEF Bounded, OutcomeType
<1>8. \A m \in Nat : Bounded([o EXCEPT !.attempts = m], t, base)
  BY <1>2 DEF Bounded, OutcomeType
<1> QED BY <1>1, <1>4, <1>5, <1>6, <1>7, <1>8

-----------------------------------------------------------------------------
(* Committing.                                                              *)

\* What a decided transaction writes is well typed.
LEMMA WritesTyped ==
  ASSUME IInv, NEW p \in Procs, stage[p] = "commit", Apply(p)
  PROVE  /\ wallets' \in [Openings -> WalletType]
         /\ wagers' \in [Txns -> RowType]
         /\ ledger' \subseteq EntryType
         /\ outbox' \subseteq EventType /\ IsFiniteSet(outbox')
         /\ inbox' \in [Messages -> {Request[c].body : c \in Calls} \cup {Nil}]
<1> DEFINE o == tx[p].outcome
           t == tx[p].txn
           w == tx[p].wallet
           base == tx[p].base
<1>1. TypeOK /\ IsFiniteSet(outbox) /\ o \in OutcomeType /\ base \in WalletType
      /\ t \in Calls \cup {Nil}
  <2>1. TypeOK /\ IsFiniteSet(outbox) /\ tx[p] \in TxType
    BY DEF IInv, TypeInv, TypeOK
  <2> QED BY <2>1 DEF TxType
<1>2. o.after \in 0 .. MaxInt /\ o.attempts \in Nat /\ o.due \in BOOLEAN
      /\ o.failure \in FailureCodes \cup {Nil} /\ o.reference \in Calls \cup {Nil}
      /\ o.status \in Statuses \cup {"NONE"}
  BY <1>1 DEF OutcomeType
<1>3. base.balance \in 0 .. MaxInt /\ base.version \in Nat /\ base.version + 1 \in Nat
  <2>1. base.balance \in 0 .. MaxInt /\ base.version \in Nat
    BY <1>1 DEF WalletType
  <2> QED BY <2>1, Successor
<1>4. Moves(p) => /\ t \in Calls /\ w \in Openings /\ o.direction \in Directions
                  /\ Amount(t) \in 1 .. MaxInt
  BY <1>1 DEF IInv, Control, Working, Decided, Moves
<1>5. NewWallet(p) \in WalletType
  BY <1>2, <1>3 DEF NewWallet, WalletType
<1>6. NewRow(p) \in RowType
  BY <1>2 DEF NewRow, RowType
<1>7. NewEntries(p) \subseteq EntryType
  BY <1>2, <1>3, <1>4 DEF NewEntries, EntryType, Txns
<1>8. \A x, type : Cardinality({e \in outbox : e.txn = x /\ e.type = type}) \in Nat
  BY <1>1, FS_Subset, FS_CardinalityType
<1>9. ASSUME NEW x \in Calls, NEW type \in EventTypes, NEW before \in 0 .. MaxInt,
             NEW after \in 0 .. MaxInt, NEW v \in Nat, NEW failure \in FailureCodes \cup {Nil}
      PROVE  NewEvent(x, type, before, after, v, failure) \in EventType
  <2>1. PICK n \in Nat : NewEvent(x, type, before, after, v, failure) =
                            Event(x, type, n, before, after, v, failure)
    BY <1>8 DEF NewEvent
  <2> QED BY <2>1 DEF Event, EventType, Txns
<1> HIDE DEF o, t, w, base
<1>10. 0 \in 0 .. MaxInt /\ 0 \in Nat /\ IsFiniteSet({}) /\ \A e : IsFiniteSet({e})
  <2>1. 0 \in 0 .. MaxInt /\ 0 \in Nat
    BY MaxIntAssumption
  <2>2. IsFiniteSet({})
    BY FS_EmptySet
  <2>3. \A e : IsFiniteSet({e})
    BY FS_Singleton
  <2> QED BY <2>1, <2>2, <2>3
<1>11. t \in Calls => StatusEvents(p) \subseteq EventType /\ IsFiniteSet(StatusEvents(p))
  <2>1. ASSUME t \in Calls
        PROVE  /\ NewEvent(t, "Processed", 0, o.after, 0, Nil) \in EventType
               /\ NewEvent(t, "Rejected", 0, 0, 0, o.failure) \in EventType
               /\ NewEvent(t, "PendingReference", 0, 0, 0, Nil) \in EventType
    BY <1>2, <1>9, <1>10, <2>1 DEF EventTypes
  <2>2. StatusEvents(p) \in {{NewEvent(t, "Processed", 0, o.after, 0, Nil)},
                             {NewEvent(t, "Rejected", 0, 0, 0, o.failure)},
                             {NewEvent(t, "PendingReference", 0, 0, 0, Nil)}, {}}
    BY DEF StatusEvents, o, t
  <2> QED BY <1>10, <2>1, <2>2
<1>12. t \in Calls => BalanceEvents(p) \subseteq EventType /\ IsFiniteSet(BalanceEvents(p))
  <2>1. NewWallet(p).version \in Nat
    BY <1>5 DEF WalletType
  <2>2. t \in Calls => NewEvent(t, "BalanceChanged", base.balance, o.after, NewWallet(p).version,
                                Nil) \in EventType
    BY <1>2, <1>3, <1>9, <2>1 DEF EventTypes
  <2>3. BalanceEvents(p) \in {{NewEvent(t, "BalanceChanged", base.balance, o.after,
                                        NewWallet(p).version, Nil)}, {}}
    BY DEF BalanceEvents, o, t, base
  <2> QED BY <1>10, <2>2, <2>3
<1>13. wallets' \in [Openings -> WalletType]
  BY <1>1, <1>4, <1>5 DEF Apply, TypeOK, w
<1>14. wagers' \in [Txns -> RowType]
  BY <1>1, <1>6 DEF Apply, TypeOK, Txns, t
<1>15. ledger' \subseteq EntryType
  BY <1>1, <1>7 DEF Apply, TypeOK
<1>16. outbox' \subseteq EventType /\ IsFiniteSet(outbox')
  <2>1. CASE t = Nil
    BY <1>1, <2>1 DEF Apply, TypeOK, t
  <2>2. CASE t # Nil
    <3>1. outbox' = outbox \cup StatusEvents(p) \cup BalanceEvents(p) /\ t \in Calls
      BY <1>1, <2>2 DEF Apply, t
    <3>2. IsFiniteSet(outbox \cup StatusEvents(p))
      BY <1>1, <1>11, <3>1, FS_Union
    <3> QED BY <1>1, <1>11, <1>12, <3>1, <3>2, FS_Union DEF TypeOK
  <2> QED BY <2>1, <2>2
<1>17. inbox' \in [Messages -> {Request[c].body : c \in Calls} \cup {Nil}]
  BY <1>1 DEF Apply, TypeOK, Registered, Messages
<1> QED BY <1>13, <1>14, <1>15, <1>16, <1>17

\* A commit that is accepted keeps the invariant, whatever its caller hears of it.
LEMMA CommitKeeps ==
  ASSUME IInv, NEW p \in Procs, NEW r \in ReplyType, stage[p] = "commit", Apply(p), End(p, r),
         faults' \in 0 .. MaxFaults
  PROVE  IInv'
<1> DEFINE t == tx[p].txn
           w == tx[p].wallet
<1>1. TypeOK /\ p \in Actors
  BY DEF IInv, TypeInv, Actors
<1>2. TypeInv'
  BY <1>1, WritesTyped, EndTypes DEF TypeInv, TypeOK
<1>3. Rest(p) \in {"idle", "done"} /\ (p \in RefWorkers => Rest(p) = "idle")
      /\ (p \notin RefWorkers => Rest(p) = "done")
  BY DEF Rest
<1>4. NoTx.txn = Nil /\ NoTx.base = NoWallet /\ NoTx.outcome.status = "NONE" /\ NoTx.pass = "first"
  BY DEF NoTx, NoOutcome
<1>5. t \in Calls \cup {Nil} /\ (p \in Calls => t \in {p, Nil})
      /\ (p \in RefWorkers /\ t # Nil => Present(t))
  <2>1. tx[p] \in TxType
    BY <1>1 DEF TypeOK
  <2> QED BY <2>1 DEF TxType, IInv, Control, Working
<1>6. \A x \in Txns : Present(x)' <=> Present(x) \/ x = t
  <2>1. t # Nil => NewRow(p).status # "NONE"
    BY DEF NewRow, IInv, Control, Decided
  <2>2. wagers \in [Txns -> RowType]
    BY <1>1 DEF TypeOK
  <2> QED BY <1>5, <2>1, <2>2, NilApart DEF Apply, Present, Txns
<1>7. Moves(p) => /\ w \in Openings /\ lock[w] = p /\ wallets[w] # NoWallet
                  /\ wallets' = [wallets EXCEPT ![w] = NewWallet(p)]
  <2>1. Moves(p) => tx[p].base # NoWallet
    BY DEF IInv, Control, Decided, NoWallet
  <2> QED BY <2>1 DEF IInv, LockInv, Apply
<1>8. ~Moves(p) => wallets' = wallets
  BY DEF Apply
<1> HIDE DEF t, w
<1>9. Control'
  <2>1. Admitted'
    <3>1. ASSUME NEW c \in Calls, stage'[c] \notin {"idle", "done"} \/ Present(c)'
          PROVE  ValidationError(Request[c]) = ""
      <4>1. CASE c = p
        BY <4>1 DEF IInv, Control, Admitted
      <4>2. CASE c # p
        <5>1. stage'[c] = stage[c]
          BY <1>1, <4>2, EndPoints DEF Actors, Procs
        <5>2. Present(c)' => Present(c)
          BY <1>5, <1>6, <4>2, NilApart DEF Procs, Txns
        <5> QED BY <3>1, <5>1, <5>2 DEF IInv, Control, Admitted
      <4> QED BY <4>1, <4>2
    <3>2. ASSUME NEW o \in Openings, stage'[o] = "commit" PROVE OpeningRequest[o].balance >= 0
      BY <1>1, <1>3, <3>2, EndPoints, ProcessAssumption DEF IInv, Control, Admitted, Actors, Procs
    <3> QED BY <3>1, <3>2 DEF Admitted
  <2>2. Working'
    <3>1. ASSUME NEW c \in Calls
          PROVE  /\ tx'[c].txn \in {c, Nil}
                 /\ stage'[c] = "decide" => tx'[c].txn = c
                 /\ stage'[c] \notin {"decide", "commit"} => tx'[c].txn = Nil
                 /\ stage'[c] = "insert" => tx'[c].pass = "locked"
                 /\ tx'[c].pass \in {"locked", "conflict"} => tx'[c].wallet \in Openings
                 /\ stage'[c] \notin {"claim", "claimRow"}
      BY <1>1, <1>3, <1>4, EndPoints DEF IInv, Control, Working, Actors, Procs
    <3>2. ASSUME NEW q \in RefWorkers
          PROVE  /\ stage'[q] = "decide" => tx'[q].txn # Nil
                 /\ stage'[q] \in {"idle", "claim", "claimRow"} => tx'[q].txn = Nil
                 /\ stage'[q] \in {"claim", "claimRow"} => tx'[q].wallet \in Openings
                 /\ stage'[q] \in {"idle", "claim", "claimRow", "decide", "commit"}
      BY <1>1, <1>3, <1>4, EndPoints DEF IInv, Control, Working, Actors, Procs
    <3>3. ASSUME NEW q \in RefWorkers, tx'[q].txn # Nil PROVE Present(tx[q].txn)'
      <4>1. tx'[q] = tx[q] /\ q # p
        BY <1>1, <1>4, <3>3, EndPoints DEF Procs
      <4>2. tx[q].txn \in Calls /\ Present(tx[q].txn)
        BY <1>1, <3>3, <4>1 DEF IInv, Control, Working, TypeOK, TxType, Procs
      <4> QED BY <1>6, <4>1, <4>2 DEF Txns, Present
    <3>4. ASSUME NEW q \in Procs, tx'[q].txn # Nil PROVE tx'[q].wallet \in Openings
      BY <1>1, <1>4, <3>4, EndPoints DEF IInv, Control, Working
    <3> QED BY <3>1, <3>2, <3>3, <3>4 DEF Working
  <2>3. Decided'
    BY <1>1, <1>3, <1>4, EndPoints DEF IInv, Control, Decided, Moves, Actors
  <2> QED BY <2>1, <2>2, <2>3 DEF Control
<1>10. LockInv'
  <2>1. ASSUME NEW q \in Procs, tx'[q].base # NoWallet
        PROVE  /\ tx'[q].wallet \in Openings
               /\ lock'[tx'[q].wallet] = q
               /\ tx'[q].base = wallets'[tx'[q].wallet]
    <3>1. q # p /\ tx'[q] = tx[q]
      BY <1>1, <1>4, <2>1, EndPoints
    <3>2. tx[q].wallet \in Openings /\ lock[tx[q].wallet] = q /\ tx[q].base = wallets[tx[q].wallet]
      BY <2>1, <3>1 DEF IInv, LockInv
    <3>3. wallets'[tx[q].wallet] = wallets[tx[q].wallet]
      BY <1>1, <1>7, <1>8, <3>1, <3>2 DEF TypeOK
    <3> QED BY <1>1, <3>1, <3>2, <3>3, EndPoints
  <2>2. ASSUME NEW q \in RefWorkers
        PROVE  /\ stage'[q] \in {"idle", "claim"} => tx'[q].base = NoWallet
               /\ stage'[q] = "claimRow" => lock'[tx'[q].wallet] = q
    <3>1. CASE q = p
      BY <1>1, <1>3, <1>4, <3>1, EndPoints DEF Actors, Procs
    <3>2. CASE q # p
      <4>1. stage'[q] = stage[q] /\ tx'[q] = tx[q]
        BY <1>1, <3>2, EndPoints DEF Actors, Procs
      <4>2. stage[q] = "claimRow" => tx[q].wallet \in Openings /\ lock[tx[q].wallet] = q
        BY DEF IInv, LockInv, Control, Working
      <4>3. stage[q] \in {"idle", "claim"} => tx[q].base = NoWallet
        BY DEF IInv, LockInv
      <4> QED BY <1>1, <3>2, <4>1, <4>2, <4>3, EndPoints DEF Procs
    <3> QED BY <3>1, <3>2
  <2>3. ASSUME NEW o \in Openings, stage'[o] # "done" PROVE wallets'[o] = NoWallet
    <3>1. stage'[o] = stage[o]
      BY <1>1, EndPoints, ProcessAssumption DEF Actors, Procs
    <3>2. wallets[o] = NoWallet
      BY <2>3, <3>1 DEF IInv, LockInv
    <3> QED BY <1>1, <1>7, <1>8, <3>2 DEF TypeOK
  <2> QED BY <2>1, <2>2, <2>3 DEF LockInv
<1>11. UniqueInv'
  <2>1. ASSUME NEW c \in Calls, NEW d \in Calls, Present(c)', Present(d)',
               SameIdentity(Request[c], Request[d])
        PROVE  c = d
    BY <1>5, <1>6, <2>1, NilApart, SameIdentitySymmetric
    DEF IInv, UniqueInv, OneRowPerIdentity, Procs, Txns, t
  <2>2. ASSUME NEW c \in Calls, NEW d \in Calls, tx'[c].txn = c, Present(d)'
        PROVE  ~SameIdentity(Request[d], Request[c])
    <3>1. c # p /\ tx[c].txn = c
      BY <1>1, <1>4, <2>2, NilApart, EndPoints DEF Procs
    <3>2. CASE Present(d)
      BY <3>1, <3>2 DEF IInv, UniqueInv
    <3>3. CASE ~Present(d)
      <4>1. d = t
        BY <1>6, <2>2, <3>3 DEF Txns
      <4>2. d = p /\ tx[d].txn = d
        BY <1>5, <3>3, <4>1, NilApart DEF Procs, t
      <4> QED BY <3>1, <4>2 DEF IInv, UniqueInv
    <3> QED BY <3>2, <3>3
  <2>3. ASSUME NEW c \in Calls, NEW d \in Calls, tx'[c].txn = c, tx'[d].txn = d,
               SameIdentity(Request[d], Request[c])
        PROVE  c = d
    BY <1>1, <1>4, <2>3, NilApart, EndPoints DEF IInv, UniqueInv, Procs
  <2> QED BY <2>1, <2>2, <2>3 DEF UniqueInv, OneRowPerIdentity
<1> QED BY <1>2, <1>9, <1>10, <1>11 DEF IInv

-----------------------------------------------------------------------------
(* Opening wallets.                                                         *)

\* What an opening with a valid balance writes is well typed.
LEMMA OpeningTypes ==
  ASSUME NEW o \in Openings, OpeningRequest[o].balance >= 0
  PROVE  /\ OpeningWallet(o) \in WalletType /\ OpeningRow(o) \in RowType
         /\ OpeningEntries(o) \subseteq EntryType
         /\ OpeningEvents(o) \subseteq EventType /\ IsFiniteSet(OpeningEvents(o))
<1>1. OpeningRequest[o].balance \in 0 .. MaxInt
  BY OpeningAssumption, MaxIntAssumption DEF MachineInt, MinInt
<1>2. OpeningRequest[o].balance # 0 => OpeningRequest[o].balance \in 1 .. MaxInt
  BY <1>1, MaxIntAssumption
<1>3. 0 \in 0 .. MaxInt /\ 0 \in Nat /\ 1 \in Nat
  BY MaxIntAssumption
<1>4. OpeningWallet(o) \in WalletType
  BY <1>1 DEF OpeningWallet, WalletType
<1>5. OpeningRow(o) \in RowType
  BY <1>1, EmptyTypes DEF OpeningRow, NoRow, RowType, Statuses
<1>6. OpeningEntries(o) \subseteq EntryType
  BY <1>1, <1>2, <1>3 DEF OpeningEntries, EntryType, Txns, Directions
<1>7. OpeningEvents(o) \subseteq EventType
  BY <1>1, <1>3 DEF OpeningEvents, Event, EventType, Txns, EventTypes
<1>8. IsFiniteSet(OpeningEvents(o))
  <2> DEFINE e == Event(o, "Processed", 0, 0, OpeningRequest[o].balance, 0, Nil)
             f == Event(o, "BalanceChanged", 0, 0, OpeningRequest[o].balance, 1, Nil)
  <2>1. OpeningEvents(o) = {} \/ OpeningEvents(o) = {e} \cup {f}
    BY DEF OpeningEvents
  <2> HIDE DEF e, f
  <2>2. IsFiniteSet({}) /\ IsFiniteSet({e}) /\ IsFiniteSet({f})
    BY FS_EmptySet, FS_Singleton
  <2> QED BY <2>1, <2>2, FS_Union
<1> QED BY <1>4, <1>5, <1>6, <1>7, <1>8

\* An opening disturbs no transaction: until it commits, nobody can have read its wallet.
LEMMA OpenKeeps ==
  ASSUME IInv, NEW o \in Openings, NEW r \in ReplyType, OpenWrites(o, r),
         faults' \in 0 .. MaxFaults
  PROVE  IInv'
<1>1. /\ TypeOK /\ IsFiniteSet(outbox) /\ o \in Actors /\ o \notin Procs /\ o \notin Calls
      /\ End(o, r) /\ Rest(o) = "done" /\ stage[o] = "commit"
  BY ProcessAssumption DEF IInv, TypeInv, Actors, Procs, OpenWrites, Rest
<1>2. /\ OpeningWallet(o) \in WalletType /\ OpeningRow(o) \in RowType
      /\ OpeningEntries(o) \subseteq EntryType
      /\ OpeningEvents(o) \subseteq EventType /\ IsFiniteSet(OpeningEvents(o))
  BY <1>1, OpeningTypes DEF IInv, Control, Admitted
<1>3. /\ stage' = [stage EXCEPT ![o] = "done"] /\ tx' = tx /\ lock' = lock
      /\ wallets' = [wallets EXCEPT ![o] = OpeningWallet(o)]
      /\ wagers' = [wagers EXCEPT ![o] = OpeningRow(o)]
  BY <1>1 DEF End, OpenWrites, TypeOK
<1>4. TypeInv'
  <2>1. IsFiniteSet(outbox')
    BY <1>1, <1>2, FS_Union DEF OpenWrites
  <2>2. wallets' \in [Openings -> WalletType] /\ wagers' \in [Txns -> RowType]
    BY <1>1, <1>2, <1>3 DEF TypeOK
  <2>3. ledger' \subseteq EntryType /\ outbox' \subseteq EventType /\ inbox' = inbox
    BY <1>1, <1>2 DEF OpenWrites, TypeOK
  <2> QED BY <1>1, <2>1, <2>2, <2>3, EndTypes DEF TypeInv, TypeOK
<1>5. \A c \in Calls : wagers'[c] = wagers[c]
  BY <1>1, <1>3 DEF TypeOK, Txns
<1>6. \A q \in Procs : stage'[q] = stage[q]
  BY <1>1, <1>3 DEF TypeOK
<1>7. \A v \in Openings : stage'[v] # "done" => v # o /\ stage'[v] = stage[v]
                                              /\ wallets'[v] = wallets[v]
  BY <1>1, <1>3 DEF TypeOK, Actors
<1>8. Control'
  <2>1. Admitted'
    BY <1>5, <1>6, <1>7 DEF IInv, Control, Admitted, Present, Procs
  <2>2. Working'
    <3>1. \A q \in RefWorkers : tx[q].txn # Nil => tx[q].txn \in Calls
      BY <1>1 DEF TypeOK, TxType, Procs
    <3> QED BY <1>3, <1>5, <1>6, <3>1 DEF IInv, Control, Working, Present, Procs
  <2>3. Decided'
    BY <1>3, <1>6 DEF IInv, Control, Decided, Moves
  <2> QED BY <2>1, <2>2, <2>3 DEF Control
<1>9. LockInv'
  <2>1. ASSUME NEW q \in Procs, tx[q].base # NoWallet
        PROVE  wallets'[tx[q].wallet] = wallets[tx[q].wallet]
    <3>1. tx[q].wallet # o
      BY <1>1, <2>1 DEF IInv, LockInv
    <3> QED BY <1>1, <1>3, <3>1, <2>1 DEF IInv, LockInv, TypeOK
  <2> QED BY <1>3, <1>6, <1>7, <2>1 DEF IInv, LockInv, Procs
<1>10. UniqueInv'
  BY <1>3, <1>5 DEF IInv, UniqueInv, OneRowPerIdentity, Present
<1> QED BY <1>4, <1>8, <1>9, <1>10 DEF IInv

\* Refusing an opening, or inserting its row, touches nothing else.
LEMMA OpenInsertKeeps == ASSUME IInv, NEW o \in Openings, OpenInsert(o) PROVE IInv'
<1>1. TypeOK /\ o \in Actors /\ o \notin Procs /\ faults' \in 0 .. MaxFaults
  BY ProcessAssumption DEF IInv, TypeInv, TypeOK, Actors, Procs, OpenInsert
<1>2. CASE Fail(o, "InvalidWallet") \/ Fail(o, "WalletConflict")
  BY <1>1, <1>2, FailKeeps DEF CallErrors
<1>3. CASE /\ OpeningRequest[o].balance >= 0 /\ stage[o] = "idle"
           /\ Goto(o, "commit") /\ UNCHANGED <<store, lock, tx, answer, faults>>
  <2>1. stage' = [stage EXCEPT ![o] = "commit"] /\ UNCHANGED <<store, lock, tx, answer, faults>>
    BY <1>3 DEF Goto
  <2>2. TypeInv'
    BY <1>1, <2>1 DEF TypeInv, TypeOK, IInv, store, Stages
  <2>3. \A q \in Procs : stage'[q] = stage[q]
    BY <1>1, <2>1 DEF TypeOK
  <2>4. \A v \in Openings : v # o => stage'[v] = stage[v]
    BY <1>1, <2>1 DEF TypeOK
  <2>5. Control'
    <3>1. Admitted'
      BY <1>3, <2>1, <2>3, <2>4 DEF IInv, Control, Admitted, Present, store, Procs
    <3>2. Working'
      BY <2>1, <2>3 DEF IInv, Control, Working, Present, store, Procs
    <3>3. Decided'
      BY <2>1, <2>3 DEF IInv, Control, Decided, Moves
    <3> QED BY <3>1, <3>2, <3>3 DEF Control
  <2>6. LockInv'
    BY <1>3, <2>1, <2>3, <2>4 DEF IInv, LockInv, store, Procs
  <2>7. UniqueInv'
    BY <2>1 DEF IInv, UniqueInv, OneRowPerIdentity, Present, store
  <2> QED BY <2>2, <2>5, <2>6, <2>7 DEF IInv
<1>4. OpeningRequest[o].balance \in Int
  BY OpeningAssumption DEF MachineInt, MinInt
<1> QED BY <1>2, <1>3, <1>4 DEF OpenInsert

-----------------------------------------------------------------------------
(* The initial states.                                                      *)

\* The invariant holds of a database with opened wallets and nothing running.
LEMMA InitKeeps == ASSUME Init PROVE IInv
<1>1. ASSUME NEW w \in Opened
      PROVE  /\ w \in Openings /\ OpeningWallet(w) \in WalletType /\ OpeningRow(w) \in RowType
             /\ OpeningEntries(w) \subseteq EntryType
             /\ OpeningEvents(w) \subseteq EventType /\ IsFiniteSet(OpeningEvents(w))
  <2>1. w \in Openings /\ OpeningRequest[w].balance >= 0
    BY OpeningAssumption
  <2> QED BY <2>1, OpeningTypes
<1>2. IsFiniteSet(outbox)
  <2> DEFINE f == [w \in Opened |-> OpeningEvents(w)]
             T == {OpeningEvents(w) : w \in Opened}
  <2>1. f \in Surjection(Opened, T)
    BY DEF Surjection
  <2>2. IsFiniteSet(T)
    BY <2>1, FS_Surjection, OpeningAssumption
  <2>3. \A S \in T : IsFiniteSet(S)
    BY <1>1
  <2> QED BY <2>2, <2>3, FS_UNION DEF Init
<1>3. TypeOK
  <2>1. wallets \in [Openings -> WalletType]
    BY <1>1, EmptyTypes DEF Init
  <2>2. wagers \in [Txns -> RowType]
    BY <1>1, EmptyTypes DEF Init
  <2>3. ledger \subseteq EntryType /\ outbox \subseteq EventType
    BY <1>1 DEF Init
  <2>4. stage \in [Actors -> Stages] /\ tx \in [Procs -> TxType] /\ answer \in [Actors -> ReplyType]
    BY EmptyTypes DEF Init, Stages
  <2>5. /\ inbox \in [Messages -> {Request[c].body : c \in Calls} \cup {Nil}]
        /\ lock \in [Openings -> Procs \cup {Nil}] /\ faults \in 0 .. MaxFaults
    BY BoundsAssumption DEF Init
  <2> QED BY <2>1, <2>2, <2>3, <2>4, <2>5 DEF TypeOK
<1>4. \A p \in Procs : p \notin Opened
  BY OpeningAssumption, ProcessAssumption DEF Procs
<1>5. \A p \in Procs : stage[p] = "idle" /\ tx[p] = NoTx
  BY <1>4 DEF Init, Actors
<1>6. \A c \in Calls : ~Present(c)
  BY <1>4 DEF Init, Present, NoRow, Txns, Procs
<1>7. \A o \in Openings : /\ stage[o] \in {"idle", "done"}
                          /\ stage[o] # "done" => wallets[o] = NoWallet
  BY DEF Init, Actors
<1>8. NoTx.txn = Nil /\ NoTx.base = NoWallet /\ NoTx.outcome.status = "NONE" /\ NoTx.pass = "first"
  BY DEF NoTx, NoOutcome
<1>9. Control
  BY <1>5, <1>6, <1>7, <1>8 DEF Control, Admitted, Working, Decided, Moves, Procs
<1>10. LockInv
  BY <1>5, <1>7, <1>8 DEF LockInv, Procs
<1>11. UniqueInv
  BY <1>5, <1>6, <1>8, NilApart DEF UniqueInv, OneRowPerIdentity, Procs
<1> QED BY <1>2, <1>3, <1>9, <1>10, <1>11 DEF IInv, TypeInv

-----------------------------------------------------------------------------
(* The steps of a call.                                                     *)

\* What every step of a running call can rely on.
LEMMA CallFacts ==
  ASSUME IInv, NEW c \in Calls
  PROVE  /\ c \in Procs /\ c \in Actors /\ c \notin RefWorkers
         /\ TypeOK /\ tx[c] \in TxType /\ faults \in 0 .. MaxFaults
         /\ stage[c] \notin {"idle", "done"} => ValidationError(Request[c]) = ""
         /\ Request[c].wallet \in Openings
         /\ tx[c].txn \in {c, Nil}
         /\ stage[c] \notin {"decide", "commit"} => tx[c].txn = Nil
         /\ stage[c] # "commit" => tx[c].outcome.status = "NONE"
         /\ tx[c].pass \in {"locked", "conflict"} => tx[c].wallet \in Openings
BY RequestAssumption, ProcessAssumption
DEF IInv, TypeInv, Control, Admitted, Working, Decided, TypeOK, Procs, Actors

\* Before the row of its own: a step that keeps what was read, or makes it a replay.
LEMMA SearchKeeps ==
  ASSUME IInv, NEW c \in Calls, NEW x \in TxType,
         NEW s \in {"inbox", "findKey", "findExt", "wallet", "insert", "commit"},
         stage[c] \notin {"decide", "commit"}, ValidationError(Request[c]) = "",
         stage' = [stage EXCEPT ![c] = s], tx' = [tx EXCEPT ![c] = x],
         UNCHANGED <<store, lock, answer, faults>>,
         x.txn = tx[c].txn, x.outcome = tx[c].outcome,
         x.base = tx[c].base, x.wallet = tx[c].wallet,
         x.pass \in {"locked", "conflict"} => x.wallet \in Openings,
         s = "insert" => x.pass = "locked"
  PROVE  IInv'
<1>1. /\ c \in Procs /\ c \notin RefWorkers /\ TypeOK /\ x.txn = Nil /\ x.txn # c
      /\ x.outcome.status = "NONE"
  BY CallFacts, NilApart
<1>2. s \in Stages
  BY DEF Stages
<1>3. lock' \in [Openings -> Procs \cup {Nil}] /\ \A w \in Openings : lock'[w] = lock[w]
  BY <1>1 DEF TypeOK
<1>4. LocalOK(c, s, x)
  BY <1>1 DEF LocalOK
<1>5. SnapshotOK(c, x)
  BY <1>1 DEF SnapshotOK, IInv, LockInv
<1>6. CallOK(c, s, x)
  BY <1>1 DEF CallOK
<1>7. UNCHANGED <<store, answer, faults>>
  OBVIOUS
<1> QED BY <1>1, <1>2, <1>3, <1>4, <1>5, <1>6, <1>7, AdvanceKeeps

\* Validation keeps the invariant: what it lets through is admitted.
LEMMA BeginKeeps == ASSUME IInv, NEW c \in Calls, Begin(c) PROVE IInv'
<1>1. /\ c \in Procs /\ c \in Actors /\ TypeOK /\ tx[c] \in TxType /\ faults' \in 0 .. MaxFaults
      /\ stage[c] = "idle" /\ (tx[c].pass \in {"locked", "conflict"} => tx[c].wallet \in Openings)
  BY CallFacts DEF Begin
<1>2. CASE ValidationError(Request[c]) # ""
  <2>1. ValidationError(Request[c]) \in CallErrors
    BY <1>2 DEF ValidationError, CallErrors
  <2> QED BY <1>1, <1>2, <2>1, FailKeeps DEF Begin
<1>3. CASE ValidationError(Request[c]) = ""
  <2>1. PICK s \in {"findKey", "inbox"} : stage' = [stage EXCEPT ![c] = s]
    BY <1>3 DEF Begin, Goto
  <2>2. tx' = [tx EXCEPT ![c] = tx[c]] /\ UNCHANGED <<store, lock, answer, faults>>
    BY <1>1, <1>3 DEF Begin, TypeOK
  <2> QED BY <1>1, <1>3, <2>1, <2>2, SearchKeeps
<1> QED BY <1>2, <1>3

\* Registering a message keeps the invariant.
LEMMA RegisterKeeps == ASSUME IInv, NEW c \in Calls, Register(c) PROVE IInv'
<1>1. /\ c \in Procs /\ c \in Actors /\ TypeOK /\ tx[c] \in TxType /\ faults' \in 0 .. MaxFaults
      /\ stage[c] = "inbox" /\ ValidationError(Request[c]) = ""
      /\ "InboxConflict" \in CallErrors
  BY CallFacts DEF Register, CallErrors
<1>2. CASE Fail(c, "InboxConflict")
  BY <1>1, <1>2, FailKeeps
<1>3. CASE ~Fail(c, "InboxConflict")
  <2>1. PICK pass \in {"first", "duplicate"} : tx' = [tx EXCEPT ![c].pass = pass]
    BY <1>3 DEF Register
  <2> DEFINE x == [tx[c] EXCEPT !.pass = pass]
  <2>2. tx' = [tx EXCEPT ![c] = x]
    BY <2>1
  <2>3. /\ x \in TxType /\ x.txn = tx[c].txn /\ x.outcome = tx[c].outcome
        /\ x.base = tx[c].base /\ x.wallet = tx[c].wallet /\ x.pass \notin {"locked", "conflict"}
    BY <1>1, <2>1 DEF TxType
  <2>4. stage' = [stage EXCEPT ![c] = "findKey"] /\ UNCHANGED <<store, lock, answer, faults>>
    BY <1>3 DEF Register, Goto
  <2> HIDE DEF x
  <2> QED BY <1>1, <2>2, <2>3, <2>4, SearchKeeps
<1> QED BY <1>2, <1>3

\* A replay ends the search.
LEMMA FoundReplayKeeps ==
  ASSUME IInv, NEW c \in Calls, NEW y \in Calls, stage[c] \in {"findKey", "findExt"},
         FoundReplay(c, y), UNCHANGED faults
  PROVE  IInv'
<1>1. /\ c \in Procs /\ c \in Actors /\ TypeOK /\ tx[c] \in TxType /\ faults' \in 0 .. MaxFaults
      /\ ValidationError(Request[c]) = "" /\ "IdempotencyConflict" \in CallErrors
      /\ (tx[c].pass \in {"locked", "conflict"} => tx[c].wallet \in Openings)
  BY CallFacts DEF CallErrors
<1>2. CASE Fail(c, "IdempotencyConflict")
  BY <1>1, <1>2, FailKeeps
<1>3. CASE ~Fail(c, "IdempotencyConflict")
  <2> DEFINE x == [tx[c] EXCEPT !.reply = Replay(y)]
  <2>1. tx' = [tx EXCEPT ![c] = x] /\ stage' = [stage EXCEPT ![c] = "commit"]
        /\ UNCHANGED <<store, lock, answer, faults>>
    BY <1>3 DEF FoundReplay, Goto
  <2>2. Replay(y) \in ReplyType
    <3>1. wagers[y] \in RowType
      BY <1>1 DEF TypeOK, Txns
    <3> QED BY <3>1 DEF Replay, ReplyType, RowType
  <2>3. /\ x \in TxType /\ x.txn = tx[c].txn /\ x.outcome = tx[c].outcome
        /\ x.base = tx[c].base /\ x.wallet = tx[c].wallet /\ x.pass = tx[c].pass
    BY <1>1, <2>2 DEF TxType
  <2> HIDE DEF x
  <2> QED BY <1>1, <2>1, <2>3, SearchKeeps
<1> QED BY <1>2, <1>3

\* A search step that keeps tx as it is.
LEMMA GotoKeeps ==
  ASSUME IInv, NEW c \in Calls, NEW s \in {"findExt", "wallet", "insert"},
         stage[c] \in {"findKey", "findExt"}, s = "insert" => tx[c].pass = "locked",
         Goto(c, s), UNCHANGED <<store, lock, tx, answer, faults>>
  PROVE  IInv'
<1>1. /\ TypeOK /\ tx[c] \in TxType /\ ValidationError(Request[c]) = "" /\ c \in Procs
      /\ (tx[c].pass \in {"locked", "conflict"} => tx[c].wallet \in Openings)
  BY CallFacts
<1>2. tx' = [tx EXCEPT ![c] = tx[c]] /\ stage' = [stage EXCEPT ![c] = s]
  BY <1>1 DEF Goto, TypeOK
<1> QED BY <1>1, <1>2, SearchKeeps

\* The search by key keeps the invariant.
LEMMA FindByIdempotencyKeyKeeps ==
  ASSUME IInv, NEW c \in Calls, FindByIdempotencyKey(c) PROVE IInv'
<1>1. stage[c] = "findKey" /\ UNCHANGED faults
  BY DEF FindByIdempotencyKey
<1>2. CASE Goto(c, "findExt") /\ UNCHANGED <<store, lock, tx, answer>>
  BY <1>1, <1>2, GotoKeeps
<1>3. CASE \E y \in Calls : FoundReplay(c, y)
  BY <1>1, <1>3, FoundReplayKeeps
<1> QED BY <1>2, <1>3 DEF FindByIdempotencyKey

\* The search by external id keeps the invariant.
LEMMA FindByExternalIDKeeps ==
  ASSUME IInv, NEW c \in Calls, FindByExternalID(c) PROVE IInv'
<1>1. /\ stage[c] = "findExt" /\ UNCHANGED faults /\ c \in Actors /\ faults' \in 0 .. MaxFaults
      /\ tx[c].pass \in {"first", "locked", "conflict", "duplicate"}
  BY CallFacts DEF FindByExternalID, TxType
<1>2. CASE \E y \in Calls : FoundReplay(c, y)
  BY <1>1, <1>2, FoundReplayKeeps
<1>3. CASE FoundNothing(c)
  <2>1. CASE tx[c].pass = "first"
    BY <1>1, <1>3, <2>1, GotoKeeps DEF FoundNothing
  <2>2. CASE tx[c].pass = "locked"
    BY <1>1, <1>3, <2>2, GotoKeeps DEF FoundNothing
  <2>3. CASE tx[c].pass \in {"conflict", "duplicate"}
    <3>1. Fail(c, "IdempotencyConflict") \/ Fail(c, "InboxIncomplete")
      BY <1>3, <2>3 DEF FoundNothing
    <3> QED BY <1>1, <3>1, FailKeeps DEF CallErrors
  <2> QED BY <1>1, <2>1, <2>2, <2>3
<1> QED BY <1>2, <1>3 DEF FindByExternalID

\* The lock is free, so the snapshot is the locked row.
LEMMA LockWalletKeeps == ASSUME IInv, NEW c \in Calls, LockWallet(c) PROVE IInv'
<1> DEFINE w == Request[c].wallet
           x == [tx[c] EXCEPT !.wallet = w, !.base = wallets[w], !.pass = "locked"]
<1>1. /\ c \in Procs /\ c \in Actors /\ c \notin RefWorkers /\ TypeOK /\ tx[c] \in TxType
      /\ faults' \in 0 .. MaxFaults /\ stage[c] = "wallet" /\ ValidationError(Request[c]) = ""
      /\ w \in Openings /\ tx[c].txn = Nil /\ tx[c].outcome.status = "NONE"
      /\ "WalletNotFound" \in CallErrors
  BY CallFacts DEF LockWallet, CallErrors
<1>2. CASE Fail(c, "WalletNotFound")
  BY <1>1, <1>2, FailKeeps
<1>3. CASE /\ lock[w] = Nil /\ lock' = [lock EXCEPT ![w] = c] /\ Goto(c, "findKey")
           /\ tx' = [tx EXCEPT ![c].wallet = w, ![c].base = wallets[w], ![c].pass = "locked"]
           /\ UNCHANGED <<store, answer, faults>>
  <2>1. stage' = [stage EXCEPT ![c] = "findKey"] /\ "findKey" \in Stages
    BY <1>3 DEF Goto, Stages
  <2>2. tx' = [tx EXCEPT ![c] = x]
    BY <1>1, <1>3 DEF TypeOK
  <2>3. /\ x \in TxType /\ x.txn = Nil /\ x.outcome.status = "NONE" /\ x.pass = "locked"
        /\ x.wallet = w /\ x.base = wallets[w]
    <3>1. wallets[w] \in WalletType
      BY <1>1 DEF TypeOK
    <3> QED BY <1>1, <3>1 DEF TxType
  <2>4. /\ lock' \in [Openings -> Procs \cup {Nil}] /\ lock'[w] = c
        /\ \A v \in Openings : lock[v] # Nil => lock'[v] = lock[v]
    BY <1>1, <1>3 DEF TypeOK
  <2> HIDE DEF x
  <2>5. LocalOK(c, "findKey", x)
    BY <1>1, <2>3 DEF LocalOK
  <2>6. SnapshotOK(c, x)
    BY <1>1, <2>3, <2>4 DEF SnapshotOK
  <2>7. CallOK(c, "findKey", x)
    BY <1>1, <2>3, NilApart DEF CallOK
  <2>8. UNCHANGED <<store, answer, faults>>
    BY <1>3
  <2> QED BY <1>1, <2>1, <2>2, <2>3, <2>4, <2>5, <2>6, <2>7, <2>8, AdvanceKeeps
<1> QED BY <1>2, <1>3 DEF LockWallet

\* Refusing a foreign wallet keeps the invariant.
LEMMA RefuseIdentityKeeps == ASSUME IInv, NEW c \in Calls, RefuseIdentity(c) PROVE IInv'
<1>1. c \in Actors /\ faults' \in 0 .. MaxFaults /\ "WalletIdentityMismatch" \in CallErrors
  BY CallFacts DEF RefuseIdentity, CallErrors
<1> QED BY <1>1, FailKeeps DEF RefuseIdentity

\* A row is inserted only beside rows, and rivals, with other identities.
LEMMA InsertKeeps == ASSUME IInv, NEW c \in Calls, Insert(c) PROVE IInv'
<1>1. /\ c \in Procs /\ c \notin RefWorkers /\ TypeOK /\ tx[c] \in TxType /\ stage[c] = "insert"
      /\ ValidationError(Request[c]) = "" /\ tx[c].txn = Nil /\ tx[c].outcome.status = "NONE"
      /\ tx[c].pass = "locked" /\ tx[c].wallet \in Openings
      /\ UNCHANGED <<store, lock, answer, faults>>
  <2>1. tx[c].pass = "locked"
    BY DEF Insert, IInv, Control, Working
  <2> QED BY <2>1, CallFacts DEF Insert
<1>2. CASE Goto(c, "findKey") /\ tx' = [tx EXCEPT ![c].pass = "conflict"]
  <2> DEFINE x == [tx[c] EXCEPT !.pass = "conflict"]
  <2>1. tx' = [tx EXCEPT ![c] = x] /\ stage' = [stage EXCEPT ![c] = "findKey"]
    BY <1>1, <1>2 DEF Goto, TypeOK
  <2>2. /\ x \in TxType /\ x.txn = tx[c].txn /\ x.outcome = tx[c].outcome
        /\ x.base = tx[c].base /\ x.wallet = tx[c].wallet
    BY <1>1 DEF TxType
  <2> HIDE DEF x
  <2> QED BY <1>1, <2>1, <2>2, SearchKeeps
<1>3. CASE /\ ~\E d \in Calls : tx[d].txn = d /\ SameIdentity(Request[d], Request[c])
           /\ ~\E y \in Calls : Present(y) /\ SameIdentity(Request[y], Request[c])
           /\ Goto(c, "decide") /\ tx' = [tx EXCEPT ![c].txn = c]
  <2> DEFINE x == [tx[c] EXCEPT !.txn = c]
  <2>1. tx' = [tx EXCEPT ![c] = x] /\ stage' = [stage EXCEPT ![c] = "decide"] /\ "decide" \in Stages
    BY <1>1, <1>3 DEF Goto, TypeOK, Stages
  <2>2. /\ x \in TxType /\ x.txn = c /\ x.outcome = tx[c].outcome
        /\ x.base = tx[c].base /\ x.wallet = tx[c].wallet
    BY <1>1 DEF TxType
  <2>3. lock' \in [Openings -> Procs \cup {Nil}] /\ \A v \in Openings : lock'[v] = lock[v]
    BY <1>1 DEF TypeOK
  <2> HIDE DEF x
  <2>4. LocalOK(c, "decide", x)
    BY <1>1, <2>2 DEF LocalOK
  <2>5. SnapshotOK(c, x)
    BY <1>1, <2>2, <2>3 DEF SnapshotOK, IInv, LockInv
  <2>6. CallOK(c, "decide", x)
    BY <1>1, <1>3, <2>2 DEF CallOK
  <2> QED BY <1>1, <2>1, <2>2, <2>3, <2>4, <2>5, <2>6, AdvanceKeeps
<1> QED BY <1>1, <1>2, <1>3 DEF Insert

\* The decision of a call keeps the invariant.
LEMMA DecideKeeps == ASSUME IInv, NEW c \in Calls, Decide(c) PROVE IInv'
<1> DEFINE d == ProcessWager(c, tx[c].base)
           o == [d EXCEPT !.due = TRUE]
           r == [error |-> Nil, txn |-> c, status |-> o.status, failure |-> o.failure,
                 balance |-> IF o.status = "PROCESSED" THEN o.after ELSE Nil, replay |-> FALSE]
           x == [tx[c] EXCEPT !.outcome = o, !.reply = r]
<1>1. /\ c \in Procs /\ c \in Actors /\ c \notin RefWorkers /\ TypeOK /\ tx[c] \in TxType
      /\ faults' \in 0 .. MaxFaults /\ stage[c] = "decide" /\ ValidationError(Request[c]) = ""
      /\ tx[c].txn = c /\ tx[c].wallet \in Openings /\ tx[c].base \in WalletType
      /\ "InvalidWallet" \in CallErrors /\ "commit" \in Stages
  <2>1. /\ c \in Procs /\ c \in Actors /\ c \notin RefWorkers /\ TypeOK /\ tx[c] \in TxType
        /\ faults' \in 0 .. MaxFaults /\ stage[c] = "decide" /\ ValidationError(Request[c]) = ""
    BY CallFacts DEF Decide
  <2>2. tx[c].txn = c /\ tx[c].wallet \in Openings
    BY <2>1, NilApart DEF IInv, Control, Working
  <2> QED BY <2>1, <2>2 DEF TxType, CallErrors, Stages
<1>2. Bounded(d, c, tx[c].base)
  BY <1>1, ProcessWagerBounded
<1> HIDE DEF d
<1>3. Bounded(o, c, tx[c].base)
  BY <1>2 DEF Bounded, OutcomeType
<1>4. o.status = d.status
  BY <1>2 DEF Bounded, OutcomeType
<1>5. CASE Fail(c, "InvalidWallet")
  BY <1>1, <1>5, FailKeeps
<1>6. CASE ~Fail(c, "InvalidWallet")
  <2>1. /\ o.status # "NONE" /\ stage' = [stage EXCEPT ![c] = "commit"]
        /\ tx' = [tx EXCEPT ![c].outcome = o, ![c].reply = r]
        /\ UNCHANGED <<store, lock, answer, faults>>
    BY <1>6 DEF Decide, Goto, d
  <2> HIDE DEF o
  <2>2. r \in ReplyType
    BY <1>1, <1>3 DEF Bounded, OutcomeType, ReplyType
  <2> HIDE DEF r
  <2>3. tx' = [tx EXCEPT ![c] = x]
    BY <1>1, <2>1 DEF TypeOK
  <2>4. /\ x \in TxType /\ x.txn = c /\ x.outcome = o /\ x.base = tx[c].base
        /\ x.wallet = tx[c].wallet /\ x.pass = tx[c].pass
    BY <1>1, <1>3, <2>2 DEF TxType, Bounded
  <2> HIDE DEF x
  <2>5. LocalOK(c, "commit", x)
    BY <1>1, <1>3, <2>1, <2>4 DEF LocalOK, Bounded
  <2>6. lock' \in [Openings -> Procs \cup {Nil}] /\ \A v \in Openings : lock'[v] = lock[v]
    BY <1>1, <2>1 DEF TypeOK
  <2>7. SnapshotOK(c, x)
    <3>1. tx[c].base # NoWallet => lock[tx[c].wallet] = c /\ tx[c].base = wallets[tx[c].wallet]
      BY <1>1 DEF IInv, LockInv
    <3> QED BY <1>1, <2>4, <2>6, <3>1 DEF SnapshotOK
  <2>8. CallOK(c, "commit", x)
    BY <1>1, <2>4 DEF CallOK, IInv, UniqueInv
  <2> QED BY <1>1, <2>1, <2>3, <2>4, <2>5, <2>6, <2>7, <2>8, AdvanceKeeps
<1> QED BY <1>5, <1>6

-----------------------------------------------------------------------------
(* The steps of a worker.                                                   *)

\* What every step of a worker can rely on.
LEMMA WorkerFacts ==
  ASSUME IInv, NEW p \in RefWorkers
  PROVE  /\ p \in Procs /\ p \in Actors /\ p \notin Calls /\ TypeOK /\ tx[p] \in TxType
         /\ faults \in 0 .. MaxFaults
         /\ tx[p].txn # Nil => /\ tx[p].txn \in Calls /\ Present(tx[p].txn)
                               /\ ValidationError(Request[tx[p].txn]) = ""
                               /\ tx[p].wallet \in Openings
         /\ stage[p] # "commit" => tx[p].outcome.status = "NONE"
<1>1. /\ p \in Procs /\ p \in Actors /\ p \notin Calls /\ TypeOK /\ tx[p] \in TxType
      /\ faults \in 0 .. MaxFaults /\ (stage[p] # "commit" => tx[p].outcome.status = "NONE")
  BY ProcessAssumption DEF IInv, TypeInv, TypeOK, Procs, Actors, Control, Decided
<1>2. ASSUME tx[p].txn # Nil
      PROVE  /\ tx[p].txn \in Calls /\ Present(tx[p].txn)
             /\ ValidationError(Request[tx[p].txn]) = "" /\ tx[p].wallet \in Openings
  BY <1>1, <1>2 DEF IInv, Control, Admitted, Working, TxType
<1> QED BY <1>1, <1>2

\* A worker's step that takes no decision.
LEMMA ClaimKeeps ==
  ASSUME IInv, NEW p \in RefWorkers, NEW x \in TxType,
         NEW s \in {"idle", "claim", "claimRow", "decide"},
         stage[p] \notin {"decide", "commit"},
         stage' = [stage EXCEPT ![p] = s], tx' = [tx EXCEPT ![p] = x],
         UNCHANGED <<store, answer, faults>>,
         lock' \in [Openings -> Procs \cup {Nil}],
         \A w \in Openings : lock[w] # Nil => lock'[w] = lock[w],
         x.outcome = tx[p].outcome, SnapshotOK(p, x), WorkerOK(p, s, x),
         x.txn # Nil => x.wallet \in Openings
  PROVE  IInv'
<1>1. p \in Procs /\ p \notin Calls /\ s \in Stages /\ x.outcome.status = "NONE"
  BY WorkerFacts DEF Stages
<1>2. LocalOK(p, s, x)
  BY <1>1 DEF LocalOK
<1> QED BY <1>1, <1>2, AdvanceKeeps

\* The scan for a due row keeps the invariant: nothing is read that could grow stale.
LEMMA ClaimScanKeeps == ASSUME IInv, NEW p \in RefWorkers, ClaimScan(p) PROVE IInv'
<1>1. /\ p \in Procs /\ TypeOK /\ tx[p] \in TxType /\ stage[p] = "idle"
      /\ stage' = [stage EXCEPT ![p] = "claim"] /\ UNCHANGED <<store, lock, answer, faults>>
  BY WorkerFacts DEF ClaimScan, Goto
<1>2. PICK w \in Openings : tx' = [tx EXCEPT ![p].wallet = w]
  BY DEF ClaimScan
<1> DEFINE x == [tx[p] EXCEPT !.wallet = w]
<1>3. /\ tx' = [tx EXCEPT ![p] = x] /\ x \in TxType /\ x.outcome = tx[p].outcome
      /\ x.base = tx[p].base /\ x.txn = tx[p].txn /\ x.wallet = w
  BY <1>1, <1>2 DEF TypeOK, TxType
<1> HIDE DEF x
<1>4. x.base = NoWallet /\ x.txn = Nil
  BY <1>1, <1>3 DEF IInv, LockInv, Control, Working
<1>5. SnapshotOK(p, x) /\ WorkerOK(p, "claim", x)
  BY <1>2, <1>3, <1>4 DEF SnapshotOK, WorkerOK
<1>6. lock' \in [Openings -> Procs \cup {Nil}] /\ \A v \in Openings : lock'[v] = lock[v]
  BY <1>1 DEF TypeOK
<1> QED BY <1>1, <1>3, <1>5, <1>6, ClaimKeeps

\* Locking the wallet, or passing it over, keeps the invariant.
LEMMA ClaimWalletKeeps == ASSUME IInv, NEW p \in RefWorkers, ClaimWallet(p) PROVE IInv'
<1> DEFINE w == tx[p].wallet
<1>1. /\ p \in Procs /\ TypeOK /\ tx[p] \in TxType /\ stage[p] = "claim" /\ w \in Openings
      /\ tx[p].base = NoWallet /\ tx[p].txn = Nil /\ UNCHANGED <<store, answer, faults>>
  BY WorkerFacts DEF ClaimWallet, IInv, LockInv, Control, Working
<1>2. CASE Goto(p, "idle") /\ tx' = [tx EXCEPT ![p].wallet = Nil] /\ UNCHANGED lock
  <2> DEFINE x == [tx[p] EXCEPT !.wallet = Nil]
  <2>1. /\ tx' = [tx EXCEPT ![p] = x] /\ x \in TxType /\ x.outcome = tx[p].outcome
        /\ x.base = NoWallet /\ x.txn = Nil /\ stage' = [stage EXCEPT ![p] = "idle"]
    BY <1>1, <1>2 DEF TypeOK, TxType, Goto
  <2> HIDE DEF x
  <2>2. SnapshotOK(p, x) /\ WorkerOK(p, "idle", x)
    BY <2>1 DEF SnapshotOK, WorkerOK
  <2>3. lock' \in [Openings -> Procs \cup {Nil}] /\ \A v \in Openings : lock'[v] = lock[v]
    BY <1>1, <1>2 DEF TypeOK
  <2> QED BY <1>1, <2>1, <2>2, <2>3, ClaimKeeps
<1>3. CASE lock[w] = Nil /\ Goto(p, "claimRow") /\ lock' = [lock EXCEPT ![w] = p] /\ UNCHANGED tx
  <2>1. tx' = [tx EXCEPT ![p] = tx[p]] /\ stage' = [stage EXCEPT ![p] = "claimRow"]
    BY <1>1, <1>3 DEF TypeOK, Goto
  <2>2. /\ lock' \in [Openings -> Procs \cup {Nil}] /\ lock'[w] = p
        /\ \A v \in Openings : lock[v] # Nil => lock'[v] = lock[v]
    BY <1>1, <1>3 DEF TypeOK
  <2>3. SnapshotOK(p, tx[p]) /\ WorkerOK(p, "claimRow", tx[p])
    BY <1>1, <2>2 DEF SnapshotOK, WorkerOK
  <2> QED BY <1>1, <2>1, <2>2, <2>3, ClaimKeeps
<1> QED BY <1>2, <1>3 DEF ClaimWallet

\* The row is chosen, and the wallet read, under the lock.
LEMMA ClaimRowKeeps == ASSUME IInv, NEW p \in RefWorkers, ClaimRow(p) PROVE IInv'
<1> DEFINE w == tx[p].wallet
<1>1. /\ p \in Procs /\ p \in Actors /\ TypeOK /\ tx[p] \in TxType /\ stage[p] = "claimRow"
      /\ w \in Openings /\ lock[w] = p /\ tx[p].txn = Nil /\ UNCHANGED faults
      /\ faults' \in 0 .. MaxFaults
  BY WorkerFacts DEF ClaimRow, IInv, LockInv, Control, Working
<1>2. CASE End(p, NoReply) /\ UNCHANGED store
  BY <1>1, <1>2, EndKeeps, EmptyTypes
<1>3. CASE Fail(p, "MetadataMissing")
  BY <1>1, <1>3, FailKeeps DEF CallErrors
<1>4. CASE \E t \in DueOn(w) : /\ Goto(p, "decide")
                              /\ tx' = [tx EXCEPT ![p].txn = t, ![p].base = wallets[w]]
                              /\ UNCHANGED <<store, lock, answer>>
  <2>1. PICK t \in DueOn(w) : tx' = [tx EXCEPT ![p].txn = t, ![p].base = wallets[w]]
    BY <1>4
  <2>2. t \in Calls /\ Present(t) /\ t # Nil /\ wallets[w] \in WalletType
    BY <1>1, NilApart DEF DueOn, Present, TypeOK
  <2> DEFINE x == [tx[p] EXCEPT !.txn = t, !.base = wallets[w]]
  <2>3. /\ tx' = [tx EXCEPT ![p] = x] /\ x \in TxType /\ x.outcome = tx[p].outcome
        /\ x.base = wallets[w] /\ x.txn = t /\ x.wallet = w
        /\ stage' = [stage EXCEPT ![p] = "decide"] /\ UNCHANGED <<store, lock, answer, faults>>
    BY <1>1, <1>4, <2>1, <2>2 DEF TypeOK, TxType, Goto
  <2> HIDE DEF x
  <2>4. lock' \in [Openings -> Procs \cup {Nil}] /\ \A v \in Openings : lock'[v] = lock[v]
    BY <1>1, <2>3 DEF TypeOK
  <2>5. SnapshotOK(p, x) /\ WorkerOK(p, "decide", x)
    BY <1>1, <2>2, <2>3, <2>4 DEF SnapshotOK, WorkerOK
  <2> QED BY <1>1, <2>3, <2>4, <2>5, ClaimKeeps
<1> QED BY <1>2, <1>3, <1>4 DEF ClaimRow

\* The decision of a worker keeps the invariant.
LEMMA RetryDecideKeeps == ASSUME IInv, NEW p \in RefWorkers, RetryDecide(p) PROVE IInv'
<1> DEFINE o == RetryOutcome(p, tx[p].txn, tx[p].base)
           x == [tx[p] EXCEPT !.outcome = o]
<1>1. /\ p \in Procs /\ p \in Actors /\ p \notin Calls /\ TypeOK /\ tx[p] \in TxType
      /\ faults' \in 0 .. MaxFaults /\ stage[p] = "decide" /\ tx[p].txn # Nil
      /\ tx[p].txn \in Calls /\ Present(tx[p].txn) /\ tx[p].wallet \in Openings
      /\ ValidationError(Request[tx[p].txn]) = "" /\ tx[p].base \in WalletType
      /\ "InvalidWallet" \in CallErrors /\ "commit" \in Stages
  <2>1. stage[p] = "decide" /\ tx[p].txn # Nil /\ UNCHANGED faults
    BY DEF RetryDecide, IInv, Control, Working
  <2> QED BY <2>1, WorkerFacts DEF TxType, CallErrors, Stages
<1>2. Bounded(o, tx[p].txn, tx[p].base)
  BY <1>1, RetryBounded
<1>3. CASE Fail(p, "InvalidWallet")
  BY <1>1, <1>3, FailKeeps
<1>4. CASE ~Fail(p, "InvalidWallet")
  <2>1. /\ o.status # "NONE" /\ stage' = [stage EXCEPT ![p] = "commit"]
        /\ tx' = [tx EXCEPT ![p].outcome = o] /\ UNCHANGED <<store, lock, answer, faults>>
    BY <1>4 DEF RetryDecide, Goto
  <2> HIDE DEF o
  <2>2. /\ tx' = [tx EXCEPT ![p] = x] /\ x \in TxType /\ x.txn = tx[p].txn /\ x.outcome = o
        /\ x.base = tx[p].base /\ x.wallet = tx[p].wallet
    BY <1>1, <1>2, <2>1 DEF TypeOK, TxType, Bounded
  <2> HIDE DEF x
  <2>3. LocalOK(p, "commit", x)
    BY <1>1, <1>2, <2>1, <2>2 DEF LocalOK, Bounded
  <2>4. lock' \in [Openings -> Procs \cup {Nil}] /\ \A v \in Openings : lock'[v] = lock[v]
    BY <1>1, <2>1 DEF TypeOK
  <2>5. SnapshotOK(p, x)
    <3>1. tx[p].base # NoWallet => lock[tx[p].wallet] = p /\ tx[p].base = wallets[tx[p].wallet]
      BY <1>1 DEF IInv, LockInv
    <3> QED BY <1>1, <2>2, <2>4, <3>1 DEF SnapshotOK
  <2>6. WorkerOK(p, "commit", x)
    BY <1>1, <2>2 DEF WorkerOK
  <2> QED BY <1>1, <2>1, <2>2, <2>3, <2>4, <2>5, <2>6, AdvanceKeeps
<1> QED BY <1>3, <1>4

\* The clock changes no status.
LEMMA TickKeeps == ASSUME IInv, NEW t \in Calls, Tick(t) PROVE IInv'
<1>1. TypeOK /\ t \in Txns /\ wagers[t] \in RowType
  BY DEF IInv, TypeInv, TypeOK, Txns
<1>2. [wagers[t] EXCEPT !.due = TRUE] \in RowType
  BY <1>1 DEF RowType
<1>3. wagers' = [wagers EXCEPT ![t] = [wagers[t] EXCEPT !.due = TRUE]]
  BY <1>1 DEF Tick, TypeOK
<1>4. TypeInv'
  BY <1>1, <1>2, <1>3 DEF Tick, TypeInv, TypeOK, IInv
<1>5. \A y \in Txns : wagers'[y].status = wagers[y].status
  BY <1>1, <1>3 DEF TypeOK, RowType
<1>6. Control'
  <2>1. \A q \in RefWorkers : tx[q].txn # Nil => tx[q].txn \in Txns
    BY <1>1 DEF TypeOK, TxType, Procs, Txns
  <2>2. Admitted'
    BY <1>5 DEF Tick, IInv, Control, Admitted, Present, Txns
  <2>3. Working'
    BY <1>5, <2>1 DEF Tick, IInv, Control, Working, Present
  <2>4. Decided'
    BY DEF Tick, IInv, Control, Decided, Moves
  <2> QED BY <2>2, <2>3, <2>4 DEF Control
<1>7. LockInv'
  BY DEF Tick, IInv, LockInv
<1>8. UniqueInv'
  BY <1>5 DEF Tick, IInv, UniqueInv, OneRowPerIdentity, Present, Txns
<1> QED BY <1>4, <1>6, <1>7, <1>8 DEF IInv

-----------------------------------------------------------------------------
(* Commits and faults.                                                      *)

\* A commit keeps the invariant, accepted or refused.
LEMMA CommitStepKeeps == ASSUME IInv, NEW p \in Procs, Commit(p) PROVE IInv'
<1>1. p \in Actors /\ faults' \in 0 .. MaxFaults /\ tx[p].reply \in ReplyType /\ stage[p] = "commit"
  <2>1. TypeOK /\ tx[p] \in TxType
    BY DEF IInv, TypeInv, TypeOK
  <2> QED BY <2>1 DEF Commit, Actors, TypeOK, TxType
<1>2. CASE Refused(p)
  <2>1. PICK e \in AllSafeguards : Fail(p, e)
    BY <1>2 DEF Commit, Refusals, Violated
  <2> QED BY <1>1, <2>1, FailKeeps
<1>3. CASE ~Refused(p)
  <2>1. Apply(p) /\ End(p, tx[p].reply)
    BY <1>3 DEF Commit
  <2> QED BY <1>1, <2>1, CommitKeeps
<1> QED BY <1>2, <1>3

\* A fault that occurs is counted within the bound.
LEMMA FaultCounted == ASSUME IInv, Fault PROVE faults' \in 0 .. MaxFaults
<1>1. faults \in 0 .. MaxFaults /\ MaxFaults \in Nat
  BY BoundsAssumption DEF IInv, TypeInv, TypeOK
<1> QED BY <1>1 DEF Fault

\* The answer of a lost call is well typed.
LEMMA UnavailableTyped == "Unavailable" \in CallErrors /\ ErrorReply("Unavailable") \in ReplyType
<1>1. "Unavailable" \in CallErrors
  BY DEF CallErrors
<1> QED BY <1>1, ErrorReplyType

\* A commit whose answer is lost keeps the invariant.
LEMMA CommitLostKeeps == ASSUME IInv, NEW p \in Procs, CommitLost(p) PROVE IInv'
BY UnavailableTyped, FaultCounted, CommitKeeps DEF CommitLost

\* A transaction that dies at any point keeps the invariant.
LEMMA AbortKeeps == ASSUME IInv, NEW p \in Actors, Abort(p) PROVE IInv'
BY UnavailableTyped, FaultCounted, FailKeeps DEF Abort

\* An opening whose answer is lost keeps the invariant.
LEMMA OpenCommitLostKeeps == ASSUME IInv, NEW o \in Openings, OpenCommitLost(o) PROVE IInv'
BY UnavailableTyped, FaultCounted, OpenKeeps DEF OpenCommitLost

\* An opening keeps the invariant.
LEMMA OpenCommitKeeps == ASSUME IInv, NEW o \in Openings, OpenCommit(o) PROVE IInv'
<1>1. faults' \in 0 .. MaxFaults /\ NoReply \in ReplyType
  BY EmptyTypes DEF OpenCommit, IInv, TypeInv, TypeOK
<1> QED BY <1>1, OpenKeeps DEF OpenCommit

-----------------------------------------------------------------------------
(* The invariant and what follows from it.                                  *)

\* Every step of the program keeps the invariant.
LEMMA StepKeeps == ASSUME IInv, [Next]_vars PROVE IInv'
<1>1. CASE UNCHANGED vars
  <2>1. TypeInv'
    BY <1>1 DEF vars, IInv, TypeInv, TypeOK
  <2>2. Control'
    BY <1>1 DEF vars, IInv, Control, Admitted, Working, Decided, Present, Moves
  <2>3. LockInv' /\ UniqueInv'
    BY <1>1 DEF vars, IInv, LockInv, UniqueInv, OneRowPerIdentity, Present
  <2> QED BY <2>1, <2>2, <2>3 DEF IInv
<1>2. ASSUME NEW o \in Openings, OpenInsert(o) \/ OpenCommit(o) \/ OpenCommitLost(o) PROVE IInv'
  BY <1>2, OpenInsertKeeps, OpenCommitKeeps, OpenCommitLostKeeps
<1>3. ASSUME NEW c \in Calls, Begin(c) \/ CallStep(c) \/ Tick(c) PROVE IInv'
  <2>1. CASE Begin(c) \/ Tick(c)
    BY <2>1, BeginKeeps, TickKeeps
  <2>2. CASE Register(c) \/ FindByIdempotencyKey(c) \/ FindByExternalID(c)
    BY <2>2, RegisterKeeps, FindByIdempotencyKeyKeeps, FindByExternalIDKeeps
  <2>3. CASE LockWallet(c) \/ RefuseIdentity(c) \/ Insert(c)
    BY <2>3, LockWalletKeeps, RefuseIdentityKeeps, InsertKeeps
  <2>4. CASE Decide(c) \/ Commit(c)
    BY <2>4, DecideKeeps, CommitStepKeeps DEF Procs
  <2> QED BY <1>3, <2>1, <2>2, <2>3, <2>4 DEF CallStep
<1>4. ASSUME NEW p \in RefWorkers, WorkerStep(p) PROVE IInv'
  <2>1. CASE ClaimScan(p) \/ ClaimWallet(p) \/ ClaimRow(p)
    BY <2>1, ClaimScanKeeps, ClaimWalletKeeps, ClaimRowKeeps
  <2>2. CASE RetryDecide(p) \/ Commit(p)
    BY <2>2, RetryDecideKeeps, CommitStepKeeps DEF Procs
  <2> QED BY <1>4, <2>1, <2>2 DEF WorkerStep
<1>5. CASE \E p \in Procs : CommitLost(p)
  BY <1>5, CommitLostKeeps
<1>6. CASE \E p \in Actors : Abort(p)
  BY <1>6, AbortKeeps
<1>7. CASE Finished
  BY <1>1, <1>7 DEF Finished
<1> QED BY <1>1, <1>2, <1>3, <1>4, <1>5, <1>6, <1>7 DEF Next

\* The inductive invariant: types, stages, locks and identities fit together at every
\* point of every interleaving of calls, workers, openings and faults.
THEOREM Invariance == Spec => []IInv
<1>1. Init => IInv
  BY InitKeeps
<1>2. IInv /\ [Next]_vars => IInv'
  BY StepKeeps
<1> QED BY <1>1, <1>2, PTL DEF Spec

\* Balances stay between zero and the largest int64, whatever runs concurrently and
\* without help from the CHECK constraints of the schema (Debit, Credit).
THEOREM TypeCorrect == Spec => []TypeOK
<1>1. IInv => TypeOK
  BY DEF IInv, TypeInv
<1> QED BY <1>1, Invariance, PTL

\* What a unit of work read by FindByIDForUpdate stays true until it ends: nobody
\* moves a wallet on a stale balance.
THEOREM SnapshotsFresh == Spec => []SnapshotFresh
<1>1. IInv => SnapshotFresh
  BY DEF IInv, LockInv, SnapshotFresh
<1> QED BY <1>1, Invariance, PTL

\* An operation is stored once, however many calls and deliveries ask for it and
\* whichever wallets they name (Wagers.Create and the replays around it).
THEOREM RowsUnique == Spec => []OneRowPerIdentity
<1>1. IInv => OneRowPerIdentity
  BY DEF IInv, UniqueInv
<1> QED BY <1>1, Invariance, PTL

-----------------------------------------------------------------------------
(* Refinement. The statements, locks and unique indexes of ProcessWager    *)
(* amount to one atomic step: Wagering implements ExactlyOnce, for every   *)
(* set of calls, wallets and workers, every request and any number of      *)
(* faults.                                                                 *)
(*                                                                         *)
(* The steps of a call are stutters of the promise, except its last one:   *)
(* a commit is Take (or TakeUnheard), a conflict is Refuse. IInv says      *)
(* that a row about to be inserted has no rival. CallInv adds what a call  *)
(* knows of its message and of the row it is going to answer with, and     *)
(* that nobody is told anything before the end.                            *)

\* Call c is past the registration of its message.
Inside(s) == s \notin {"idle", "inbox", "done"}

\* The message of c is complete if c met it, and not there if c has inserted it.
MessageFits(c, s, x) ==
  /\ s = "inbox" => Request[c].msg # Nil
  /\ Inside(s) /\ Request[c].msg # Nil =>
       inbox[Request[c].msg] = IF x.pass = "duplicate" THEN Request[c].body ELSE Nil

\* A replay after a conflict at the unique indexes finds the rival.
RivalFits(c, s, x) ==
  x.pass = "conflict" =>
    /\ s = "findKey" => \E y \in Calls : Present(y) /\ SameIdentity(Request[y], Request[c])
    /\ s = "findExt" => \E y \in Calls : Present(y) /\ SameExternalID(Request[y], Request[c])

\* A call is about to answer with its own row or with the stored row of its operation.
ReplyFits(c, s, x) ==
  s = "commit" =>
    /\ x.reply.error = Nil /\ x.reply.txn \in Calls
    /\ x.txn = c => x.reply.txn = c
    /\ x.txn # c => /\ Present(x.reply.txn)
                    /\ Request[x.reply.txn].key = Request[c].key
                    /\ PayloadHash(Request[x.reply.txn]) = PayloadHash(Request[c])

CallFits(c, s, x) ==
  /\ MessageFits(c, s, x)
  /\ s \in {"idle", "wallet"} => x.pass = "first"
  /\ RivalFits(c, s, x)
  /\ ReplyFits(c, s, x)

\* One open transaction at most has inserted a message.
MessagesApart ==
  \A c, d \in Calls : Registered(c) /\ Registered(d) /\ Request[c].msg = Request[d].msg => c = d

NothingToldEarly ==
  \A c \in Calls : stage[c] # "done" => answer[c].txn = Nil /\ answer[c].error = Nil

CallInv == /\ \A c \in Calls : CallFits(c, stage[c], tx[c])
           /\ MessagesApart
           /\ NothingToldEarly

ConflictErrors == {"InboxConflict", "IdempotencyConflict"}

-----------------------------------------------------------------------------
(* The mapping.                                                             *)

\* Nothing that the promise speaks of has changed.
LEMMA PromiseStutters ==
  ASSUME \A c \in Calls : Present(c)' <=> Present(c),
         inbox' = inbox,
         \A c \in Calls : answer'[c].txn # Nil <=> answer[c].txn # Nil,
         \A c \in Calls : answer'[c].error \in ConflictErrors <=> answer[c].error \in ConflictErrors
  PROVE  UNCHANGED Promise!vars
<1>1. {c \in Calls : Present(c)}' = {c \in Calls : Present(c)}
  OBVIOUS
<1>2. {c \in Calls : answer[c].txn # Nil}' = {c \in Calls : answer[c].txn # Nil}
  OBVIOUS
<1>3. {c \in Calls : answer[c].error \in {"InboxConflict", "IdempotencyConflict"}}'
        = {c \in Calls : answer[c].error \in {"InboxConflict", "IdempotencyConflict"}}
  BY DEF ConflictErrors
<1> QED BY <1>1, <1>2, <1>3 DEF Promise!vars

\* The conflict of the promise, in the words of the core.
LEMMA ConflictsMeans ==
  ASSUME NEW c \in Calls
  PROVE  Promise!Conflicts(c) <=>
           \/ Request[c].msg # Nil /\ inbox[Request[c].msg] \notin {Nil, Request[c].body}
           \/ \E y \in Calls : /\ Present(y)
                               /\ SameIdentity(Request[c], Request[y])
                               /\ \/ Request[c].key # Request[y].key
                                  \/ PayloadHash(Request[c]) # PayloadHash(Request[y])
BY DEF Promise!Conflicts, Promise!SameOperation, Promise!SameIdentity,
       SameIdentity, SameKey, SameExternalID

\* Likewise for the operation that is there already.
LEMMA SettledMeans ==
  ASSUME NEW c \in Calls
  PROVE  Promise!Settled(c) <=>
           \E y \in Calls : /\ Present(y)
                            /\ SameIdentity(Request[c], Request[y])
                            /\ Request[c].key = Request[y].key
                            /\ PayloadHash(Request[c]) = PayloadHash(Request[y])
BY DEF Promise!Settled, Promise!SameOperation, Promise!SameIdentity,
       SameIdentity, SameKey, SameExternalID

-----------------------------------------------------------------------------
(* What keeps CallInv.                                                      *)

\* A call that has ended, or has not begun, has nothing to fit.
LEMMA RestFits == ASSUME NEW c \in Calls PROVE CallFits(c, "done", NoTx) /\ CallFits(c, "idle", NoTx)
BY DEF CallFits, MessageFits, RivalFits, ReplyFits, Inside, NoTx

\* A step of p: rows stay, p fits, and the others see no change of what they know.
LEMMA FrameKeeps ==
  ASSUME CallInv, NEW p,
         \A c \in Calls : Present(c) => Present(c)',
         \A c \in Calls \ {p} : /\ stage'[c] = stage[c] /\ tx'[c] = tx[c] /\ answer'[c] = answer[c]
                                /\ Inside(stage[c]) /\ Request[c].msg # Nil =>
                                     inbox'[Request[c].msg] = inbox[Request[c].msg],
         p \in Calls => /\ CallFits(p, stage[p], tx[p])'
                        /\ stage'[p] # "done" => answer'[p].txn = Nil /\ answer'[p].error = Nil
                        /\ Registered(p)' => \A d \in Calls \ {p} :
                             ~(Registered(d) /\ Request[d].msg = Request[p].msg)
  PROVE  CallInv'
<1>1. ASSUME NEW c \in Calls, c # p PROVE CallFits(c, stage[c], tx[c])'
  <2>1. stage'[c] = stage[c] /\ tx'[c] = tx[c] /\ CallFits(c, stage[c], tx[c])
    BY <1>1 DEF CallInv
  <2>2. MessageFits(c, stage[c], tx[c])'
    BY <1>1, <2>1 DEF CallFits, MessageFits
  <2>3. RivalFits(c, stage[c], tx[c])'
    BY <1>1, <2>1 DEF CallFits, RivalFits
  <2>4. ReplyFits(c, stage[c], tx[c])'
    BY <1>1, <2>1 DEF CallFits, ReplyFits
  <2> QED BY <2>1, <2>2, <2>3, <2>4 DEF CallFits
<1>2. \A c \in Calls : CallFits(c, stage[c], tx[c])'
  BY <1>1
<1>3. MessagesApart'
  <2>1. \A c \in Calls \ {p} : Registered(c)' <=> Registered(c)
    BY DEF Registered
  <2> QED BY <2>1 DEF CallInv, MessagesApart
<1>4. NothingToldEarly'
  BY DEF CallInv, NothingToldEarly
<1> QED BY <1>2, <1>3, <1>4 DEF CallInv

\* What End leaves in the places of the calls.
LEMMA EndOfCall ==
  ASSUME IInv, NEW p \in Actors, NEW r, End(p, r)
  PROVE  /\ \A c \in Calls \ {p} : stage'[c] = stage[c] /\ tx'[c] = tx[c] /\ answer'[c] = answer[c]
         /\ p \in Calls => stage'[p] = "done" /\ tx'[p] = NoTx /\ answer'[p] = r
<1>1. TypeOK
  BY DEF IInv, TypeInv
<1>2. \A c \in Calls : c \in Procs /\ c \in Actors /\ c \notin RefWorkers
  BY ProcessAssumption DEF Procs, Actors
<1>3. answer \in [Actors -> ReplyType] /\ answer' = [answer EXCEPT ![p] = r]
  BY <1>1 DEF TypeOK, End
<1> QED BY <1>1, <1>2, <1>3, EndPoints DEF Rest

\* A transaction that ends without writing.
LEMMA EndFits ==
  ASSUME IInv, CallInv, NEW p \in Actors, NEW r, End(p, r), UNCHANGED store
  PROVE  CallInv'
<1>1. \A c \in Calls : Present(c) => Present(c)'
  BY DEF store, Present
<1>2. \A c \in Calls \ {p} : /\ stage'[c] = stage[c] /\ tx'[c] = tx[c] /\ answer'[c] = answer[c]
                             /\ inbox'[Request[c].msg] = inbox[Request[c].msg]
  BY EndOfCall DEF store
<1>3. p \in Calls => CallFits(p, stage[p], tx[p])' /\ stage'[p] = "done" /\ ~Registered(p)'
  <2> SUFFICES ASSUME p \in Calls PROVE CallFits(p, stage[p], tx[p])' /\ stage'[p] = "done" /\ ~Registered(p)'
    OBVIOUS
  <2>1. stage'[p] = "done" /\ tx'[p] = NoTx
    BY EndOfCall
  <2>2. CallFits(p, stage[p], tx[p])'
    BY <2>1 DEF CallFits, MessageFits, RivalFits, ReplyFits, Inside
  <2> QED BY <2>1, <2>2 DEF Registered
<1> QED BY <1>1, <1>2, <1>3, FrameKeeps

\* A failure that is not a conflict tells its caller nothing the promise speaks of.
LEMMA FailQuiet ==
  ASSUME IInv, CallInv, NEW p \in Actors, NEW e, e \notin ConflictErrors, Fail(p, e),
         stage[p] # "done"
  PROVE  CallInv' /\ UNCHANGED Promise!vars
<1>1. CallInv'
  BY EndFits DEF Fail
<1>2. \A c \in Calls : Present(c)' <=> Present(c)
  BY DEF Fail, store, Present
<1>3. inbox' = inbox
  BY DEF Fail, store
<1>4. \A c \in Calls : /\ answer'[c].txn # Nil <=> answer[c].txn # Nil
                       /\ answer'[c].error \in ConflictErrors <=> answer[c].error \in ConflictErrors
  <2>1. \A c \in Calls \ {p} : answer'[c] = answer[c]
    BY EndOfCall DEF Fail
  <2>2. p \in Calls => answer'[p].txn = Nil /\ answer'[p].error \notin ConflictErrors
    BY EndOfCall DEF Fail, ErrorReply, NoReply
  <2>3. p \in Calls => answer[p].txn = Nil /\ answer[p].error \notin ConflictErrors
    BY ErrorAssumption DEF CallInv, NothingToldEarly, ConflictErrors, CallErrors
  <2> QED BY <2>1, <2>2, <2>3
<1> QED BY <1>1, <1>2, <1>3, <1>4, PromiseStutters

\* A conflict is told.
LEMMA FailRefuses ==
  ASSUME IInv, CallInv, NEW c \in Calls, NEW e \in ConflictErrors, Fail(c, e),
         stage[c] # "done", Promise!Conflicts(c)
  PROVE  CallInv' /\ Promise!Refuse(c)
<1>1. c \in Actors
  BY DEF Actors, Procs
<1>2. CallInv'
  BY <1>1, EndFits DEF Fail
<1>3. {d \in Calls : Present(d)}' = {d \in Calls : Present(d)} /\ inbox' = inbox
  BY DEF Fail, store, Present
<1>4. /\ \A d \in Calls \ {c} : answer'[d] = answer[d]
      /\ answer'[c].txn = Nil /\ answer'[c].error = e /\ answer[c].txn = Nil
  BY <1>1, EndOfCall DEF Fail, ErrorReply, NoReply, CallInv, NothingToldEarly
<1>5. {d \in Calls : answer[d].txn # Nil}' = {d \in Calls : answer[d].txn # Nil}
  BY <1>4
<1>6. {d \in Calls : answer[d].error \in {"InboxConflict", "IdempotencyConflict"}}'
        = {d \in Calls : answer[d].error \in {"InboxConflict", "IdempotencyConflict"}} \cup {c}
  BY <1>4 DEF ConflictErrors
<1> QED BY <1>2, <1>3, <1>5, <1>6 DEF Promise!Refuse

\* A step inside the transaction of a call, which stores and tells nothing.
LEMMA AdvanceQuiet ==
  ASSUME IInv, CallInv, NEW c \in Calls, NEW s, NEW x, stage[c] # "done",
         stage' = [stage EXCEPT ![c] = s], tx' = [tx EXCEPT ![c] = x], UNCHANGED <<store, answer>>,
         CallFits(c, s, x),
         Request[c].msg # Nil /\ Inside(s) /\ x.pass # "duplicate" =>
           Registered(c) \/ ~\E d \in Calls : Registered(d) /\ Request[d].msg = Request[c].msg
  PROVE  CallInv' /\ UNCHANGED Promise!vars
<1>1. /\ c \in Actors /\ c \in Procs /\ stage \in [Actors -> Stages] /\ tx \in [Procs -> TxType]
      /\ \A d \in Calls : d \in Actors /\ d \in Procs
  BY DEF Actors, Procs, IInv, TypeInv, TypeOK
<1>2. stage'[c] = s /\ tx'[c] = x
  BY <1>1
<1>3. \A d \in Calls \ {c} : stage'[d] = stage[d] /\ tx'[d] = tx[d] /\ answer'[d] = answer[d]
                             /\ inbox'[Request[d].msg] = inbox[Request[d].msg]
  BY <1>1 DEF store
<1>4. (\A d \in Calls : Present(d)' <=> Present(d)) /\ inbox' = inbox /\ answer' = answer
  BY DEF store, Present
<1>5. CallFits(c, stage[c], tx[c])'
  BY <1>2, <1>4 DEF CallFits, MessageFits, RivalFits, ReplyFits
<1>6. answer'[c].txn = Nil /\ answer'[c].error = Nil
  BY <1>4 DEF CallInv, NothingToldEarly
<1>7. Registered(c)' => \A d \in Calls \ {c} : ~(Registered(d) /\ Request[d].msg = Request[c].msg)
  BY <1>2 DEF Registered, Inside, CallInv, MessagesApart
<1>8. CallInv'
  BY <1>3, <1>4, <1>5, <1>6, <1>7, FrameKeeps
<1> QED BY <1>4, <1>8, PromiseStutters

\* A step of somebody else that keeps the rows there are and tells no call anything.
LEMMA OthersQuiet ==
  ASSUME IInv, CallInv, inbox' = inbox, \A c \in Calls : Present(c)' <=> Present(c),
         \A c \in Calls : stage'[c] = stage[c] /\ tx'[c] = tx[c] /\ answer'[c] = answer[c]
  PROVE  CallInv' /\ UNCHANGED Promise!vars
<1>1. Nil \notin Calls
  BY NilApart
<1>2. CallInv'
  BY <1>1, FrameKeeps
<1> QED BY <1>2, PromiseStutters

-----------------------------------------------------------------------------
(* The steps of a call before its last.                                     *)

\* What every step of a call can rely on.
LEMMA CallState ==
  ASSUME IInv, CallInv, NEW c \in Calls
  PROVE  /\ c \in Actors /\ c \in Procs /\ tx \in [Procs -> TxType] /\ tx[c] \in TxType
         /\ CallFits(c, stage[c], tx[c])
         /\ stage[c] \notin {"decide", "commit"} => tx[c].txn = Nil /\ tx[c].txn # c
         /\ stage[c] = "decide" => tx[c].txn = c
         /\ stage[c] = "insert" => tx[c].pass = "locked"
BY NilApart DEF Actors, Procs, IInv, TypeInv, TypeOK, CallInv, Control, Working

\* A message that a call has met stays what it is to it for the rest of its transaction.
LEMMA MessageKept ==
  ASSUME CallInv, NEW c \in Calls, Inside(stage[c]), NEW s, s # "inbox", NEW x,
         x.pass = "duplicate" <=> tx[c].pass = "duplicate"
  PROVE  /\ MessageFits(c, s, x)
         /\ Request[c].msg # Nil /\ Inside(s) /\ x.pass # "duplicate" => Registered(c)
<1>1. MessageFits(c, stage[c], tx[c])
  BY DEF CallInv, CallFits
<1> QED BY <1>1 DEF MessageFits, Registered, Inside

\* Validation.
LEMMA BeginQuiet ==
  ASSUME IInv, CallInv, NEW c \in Calls, Begin(c) PROVE CallInv' /\ UNCHANGED Promise!vars
<1>1. stage[c] = "idle" /\ c \in Actors /\ tx[c].pass = "first"
      /\ tx \in [Procs -> TxType] /\ c \in Procs
  BY CallState DEF Begin, CallFits
<1>2. CASE ValidationError(Request[c]) # ""
  <2>1. ValidationError(Request[c]) \notin ConflictErrors
    BY DEF ValidationError, ConflictErrors
  <2> QED BY <1>1, <1>2, <2>1, FailQuiet DEF Begin
<1>3. CASE ValidationError(Request[c]) = ""
  <2> DEFINE s == IF Request[c].msg = Nil THEN "findKey" ELSE "inbox"
  <2>1. stage' = [stage EXCEPT ![c] = s] /\ tx' = [tx EXCEPT ![c] = tx[c]] /\ UNCHANGED <<store, answer>>
    BY <1>1, <1>3 DEF Begin, Goto
  <2>2. CallFits(c, s, tx[c])
    BY <1>1 DEF CallFits, MessageFits, RivalFits, ReplyFits, Inside
  <2>3. ~(Request[c].msg # Nil /\ Inside(s))
    BY DEF Inside
  <2> HIDE DEF s
  <2> QED BY <1>1, <2>1, <2>2, <2>3, AdvanceQuiet
<1> QED BY <1>2, <1>3

\* The message: new, known with the same body, or in conflict.
LEMMA RegisterRefines ==
  ASSUME IInv, CallInv, NEW c \in Calls, Register(c)
  PROVE  CallInv' /\ (Promise!Refuse(c) \/ UNCHANGED Promise!vars)
<1> DEFINE known == inbox[Request[c].msg]
<1>1. stage[c] = "inbox" /\ Request[c].msg # Nil /\ tx[c].txn = Nil
  BY CallState DEF Register, CallFits, MessageFits
<1>2. CASE known \notin {Nil, Request[c].body}
  <2>1. Promise!Conflicts(c)
    BY <1>1, <1>2, ConflictsMeans
  <2>2. Fail(c, "InboxConflict") /\ "InboxConflict" \in ConflictErrors
    BY <1>2 DEF Register, ConflictErrors
  <2> QED BY <1>1, <2>1, <2>2, FailRefuses
<1>3. CASE known \in {Nil, Request[c].body}
  <2> DEFINE pass == IF known = Nil THEN "first" ELSE "duplicate"
             x == [tx[c] EXCEPT !.pass = pass]
  <2>1. /\ stage' = [stage EXCEPT ![c] = "findKey"] /\ tx' = [tx EXCEPT ![c] = x]
        /\ UNCHANGED <<store, answer>>
        /\ ~\E d \in Calls : Registered(d) /\ Request[d].msg = Request[c].msg
    BY <1>3 DEF Register, Goto
  <2>2. x.pass = pass
    BY CallState DEF TxType
  <2>3. CallFits(c, "findKey", x)
    BY <1>3, <2>2 DEF CallFits, MessageFits, RivalFits, ReplyFits, Inside
  <2> HIDE DEF x
  <2> QED BY <1>1, <2>1, <2>3, AdvanceQuiet
<1> QED BY <1>2, <1>3

\* A stored row of the identity: a replay, or a conflict.
LEMMA FoundReplayRefines ==
  ASSUME IInv, CallInv, NEW c \in Calls, NEW y \in Calls, stage[c] \in {"findKey", "findExt"},
         Present(y), SameIdentity(Request[y], Request[c]), FoundReplay(c, y)
  PROVE  CallInv' /\ (Promise!Refuse(c) \/ UNCHANGED Promise!vars)
<1> DEFINE differs == \/ PayloadHash(Request[y]) # PayloadHash(Request[c])
                      \/ Request[y].key # Request[c].key
<1>1. CASE differs
  <2>1. Promise!Conflicts(c)
    BY <1>1, ConflictsMeans, SameIdentitySymmetric
  <2>2. Fail(c, "IdempotencyConflict") /\ "IdempotencyConflict" \in ConflictErrors
    BY <1>1 DEF FoundReplay, ConflictErrors
  <2> QED BY <2>1, <2>2, FailRefuses
<1>2. CASE ~differs
  <2> DEFINE x == [tx[c] EXCEPT !.reply = Replay(y)]
  <2>1. stage' = [stage EXCEPT ![c] = "commit"] /\ tx' = [tx EXCEPT ![c] = x] /\ UNCHANGED <<store, answer>>
    BY <1>2 DEF FoundReplay, Goto
  <2>2. x.reply = Replay(y) /\ x.pass = tx[c].pass /\ x.txn = tx[c].txn
    BY CallState DEF TxType
  <2>3. MessageFits(c, "commit", x) /\ (Request[c].msg # Nil /\ x.pass # "duplicate" => Registered(c))
    BY <2>2, MessageKept DEF Inside
  <2>4. ReplyFits(c, "commit", x)
    BY <1>2, <2>2, CallState DEF ReplyFits, Replay
  <2>5. CallFits(c, "commit", x)
    BY <2>3, <2>4 DEF CallFits, RivalFits
  <2> HIDE DEF x
  <2> QED BY <2>1, <2>3, <2>5, AdvanceQuiet
<1> QED BY <1>1, <1>2

\* A step that goes on with the search.
LEMMA GotoQuiet ==
  ASSUME IInv, CallInv, NEW c \in Calls, NEW s \in {"findExt", "wallet", "insert"},
         Inside(stage[c]), Goto(c, s), UNCHANGED <<store, tx, answer>>,
         s = "wallet" => tx[c].pass = "first", RivalFits(c, s, tx[c])
  PROVE  CallInv' /\ UNCHANGED Promise!vars
<1>1. stage' = [stage EXCEPT ![c] = s] /\ tx' = [tx EXCEPT ![c] = tx[c]] /\ UNCHANGED <<store, answer>>
  BY CallState DEF Goto
<1>2. MessageFits(c, s, tx[c]) /\ (Request[c].msg # Nil /\ tx[c].pass # "duplicate" => Registered(c))
  BY MessageKept DEF Inside
<1>3. CallFits(c, s, tx[c])
  BY <1>2 DEF CallFits, ReplyFits
<1> QED BY <1>1, <1>2, <1>3, AdvanceQuiet DEF Inside

\* The search by key.
LEMMA FindByIdempotencyKeyRefines ==
  ASSUME IInv, CallInv, NEW c \in Calls, FindByIdempotencyKey(c)
  PROVE  CallInv' /\ (Promise!Refuse(c) \/ UNCHANGED Promise!vars)
<1> DEFINE found == {x \in Calls : Present(x) /\ SameKey(Request[x], Request[c])}
<1>1. stage[c] = "findKey" /\ CallFits(c, stage[c], tx[c])
  BY CallState DEF FindByIdempotencyKey
<1>2. CASE found = {}
  <2>1. Goto(c, "findExt") /\ UNCHANGED <<store, tx, answer>>
    BY <1>2 DEF FindByIdempotencyKey
  <2>2. RivalFits(c, "findExt", tx[c])
    BY <1>1, <1>2 DEF CallFits, RivalFits, SameIdentity
  <2> QED BY <1>1, <2>1, <2>2, GotoQuiet DEF Inside
<1>3. CASE found # {}
  <2>1. PICK y \in found : FoundReplay(c, y)
    BY <1>3 DEF FindByIdempotencyKey
  <2>2. y \in Calls /\ Present(y) /\ SameIdentity(Request[y], Request[c])
    BY DEF SameIdentity
  <2> QED BY <1>1, <2>1, <2>2, FoundReplayRefines
<1> QED BY <1>2, <1>3

\* The search by external id.
LEMMA FindByExternalIDRefines ==
  ASSUME IInv, CallInv, NEW c \in Calls, FindByExternalID(c)
  PROVE  CallInv' /\ (Promise!Refuse(c) \/ UNCHANGED Promise!vars)
<1> DEFINE found == {x \in Calls : Present(x) /\ SameExternalID(Request[x], Request[c])}
<1>1. /\ stage[c] = "findExt" /\ CallFits(c, stage[c], tx[c]) /\ c \in Actors
      /\ tx[c].pass \in {"first", "locked", "conflict", "duplicate"}
  BY CallState DEF FindByExternalID, TxType
<1>2. CASE found = {}
  <2>1. FoundNothing(c) /\ tx[c].pass # "conflict"
    BY <1>1, <1>2 DEF FindByExternalID, CallFits, RivalFits
  <2>2. CASE tx[c].pass \in {"first", "locked"}
    <3>1. PICK s \in {"wallet", "insert"} : /\ Goto(c, s) /\ UNCHANGED <<store, tx, answer>>
                                            /\ s = "wallet" => tx[c].pass = "first"
      BY <2>1, <2>2 DEF FoundNothing
    <3> QED BY <1>1, <3>1, GotoQuiet DEF Inside, RivalFits
  <2>3. CASE tx[c].pass = "duplicate"
    <3>1. Fail(c, "InboxIncomplete") /\ "InboxIncomplete" \notin ConflictErrors
      BY <2>1, <2>3 DEF FoundNothing, ConflictErrors
    <3> QED BY <1>1, <3>1, FailQuiet
  <2> QED BY <1>1, <2>1, <2>2, <2>3
<1>3. CASE found # {}
  <2>1. PICK y \in found : FoundReplay(c, y)
    BY <1>3 DEF FindByExternalID
  <2>2. y \in Calls /\ Present(y) /\ SameIdentity(Request[y], Request[c])
    BY DEF SameIdentity
  <2> QED BY <1>1, <2>1, <2>2, FoundReplayRefines
<1> QED BY <1>2, <1>3

\* The row lock.
LEMMA LockWalletQuiet ==
  ASSUME IInv, CallInv, NEW c \in Calls, LockWallet(c) PROVE CallInv' /\ UNCHANGED Promise!vars
<1>1. stage[c] = "wallet" /\ c \in Actors /\ tx[c].pass = "first"
  BY CallState DEF LockWallet, CallFits
<1>2. CASE Fail(c, "WalletNotFound")
  BY <1>1, <1>2, FailQuiet DEF ConflictErrors
<1>3. CASE ~Fail(c, "WalletNotFound")
  <2> DEFINE w == Request[c].wallet
             x == [tx[c] EXCEPT !.wallet = w, !.base = wallets[w], !.pass = "locked"]
  <2>1. stage' = [stage EXCEPT ![c] = "findKey"] /\ tx' = [tx EXCEPT ![c] = x] /\ UNCHANGED <<store, answer>>
    BY <1>3, CallState DEF LockWallet, Goto, TxType
  <2>2. x.pass = "locked"
    BY CallState DEF TxType
  <2>3. MessageFits(c, "findKey", x) /\ (Request[c].msg # Nil /\ x.pass # "duplicate" => Registered(c))
    BY <1>1, <2>2, MessageKept DEF Inside
  <2>4. CallFits(c, "findKey", x)
    BY <2>2, <2>3 DEF CallFits, RivalFits, ReplyFits
  <2> HIDE DEF x
  <2> QED BY <1>1, <2>1, <2>3, <2>4, AdvanceQuiet
<1> QED BY <1>2, <1>3

\* A wallet of somebody else.
LEMMA RefuseIdentityQuiet ==
  ASSUME IInv, CallInv, NEW c \in Calls, RefuseIdentity(c) PROVE CallInv' /\ UNCHANGED Promise!vars
BY CallState, FailQuiet DEF RefuseIdentity, ConflictErrors

\* The row of its own, unless a rival has come in between.
LEMMA InsertQuiet ==
  ASSUME IInv, CallInv, NEW c \in Calls, Insert(c) PROVE CallInv' /\ UNCHANGED Promise!vars
<1> DEFINE rival == \E y \in Calls : Present(y) /\ SameIdentity(Request[y], Request[c])
<1>1. stage[c] = "insert" /\ tx[c].pass = "locked" /\ tx[c] \in TxType /\ UNCHANGED <<store, answer>>
  BY CallState DEF Insert
<1>2. CASE rival
  <2> DEFINE x == [tx[c] EXCEPT !.pass = "conflict"]
  <2>1. stage' = [stage EXCEPT ![c] = "findKey"] /\ tx' = [tx EXCEPT ![c] = x]
    BY <1>2 DEF Insert, Goto
  <2>2. x.pass = "conflict"
    BY <1>1 DEF TxType
  <2>3. MessageFits(c, "findKey", x) /\ (Request[c].msg # Nil /\ x.pass # "duplicate" => Registered(c))
    BY <1>1, <2>2, MessageKept DEF Inside
  <2>4. CallFits(c, "findKey", x)
    BY <1>2, <2>2, <2>3 DEF CallFits, RivalFits, ReplyFits
  <2> HIDE DEF x
  <2> QED BY <1>1, <2>1, <2>3, <2>4, AdvanceQuiet
<1>3. CASE ~rival
  <2> DEFINE x == [tx[c] EXCEPT !.txn = c]
  <2>1. stage' = [stage EXCEPT ![c] = "decide"] /\ tx' = [tx EXCEPT ![c] = x]
    BY <1>3 DEF Insert, Goto
  <2>2. x.pass = "locked"
    BY <1>1 DEF TxType
  <2>3. MessageFits(c, "decide", x) /\ (Request[c].msg # Nil /\ x.pass # "duplicate" => Registered(c))
    BY <1>1, <2>2, MessageKept DEF Inside
  <2>4. CallFits(c, "decide", x)
    BY <2>2, <2>3 DEF CallFits, RivalFits, ReplyFits
  <2> HIDE DEF x
  <2> QED BY <1>1, <2>1, <2>3, <2>4, AdvanceQuiet
<1> QED BY <1>2, <1>3

\* The decision, which the call will answer with.
LEMMA DecideQuiet ==
  ASSUME IInv, CallInv, NEW c \in Calls, Decide(c) PROVE CallInv' /\ UNCHANGED Promise!vars
<1>1. stage[c] = "decide" /\ c \in Actors /\ tx[c].txn = c /\ tx[c] \in TxType
  BY CallState DEF Decide
<1>2. CASE Fail(c, "InvalidWallet")
  BY <1>1, <1>2, FailQuiet DEF ConflictErrors
<1>3. CASE ~Fail(c, "InvalidWallet")
  <2> DEFINE o == [ProcessWager(c, tx[c].base) EXCEPT !.due = TRUE]
             r == [error |-> Nil, txn |-> c, status |-> o.status, failure |-> o.failure,
                   balance |-> IF o.status = "PROCESSED" THEN o.after ELSE Nil, replay |-> FALSE]
  <2>1. tx' = [tx EXCEPT ![c].outcome = o, ![c].reply = r] /\ r.error = Nil /\ r.txn = c
    BY <1>3 DEF Decide
  <2> HIDE DEF o, r
  <2> DEFINE x == [tx[c] EXCEPT !.outcome = o, !.reply = r]
  <2>2. stage' = [stage EXCEPT ![c] = "commit"] /\ tx' = [tx EXCEPT ![c] = x] /\ UNCHANGED <<store, answer>>
    BY <1>3, <2>1, CallState DEF Decide, Goto
  <2>3. x.pass = tx[c].pass /\ x.txn = c /\ x.reply = r
    BY <1>1 DEF TxType
  <2>4. MessageFits(c, "commit", x) /\ (Request[c].msg # Nil /\ x.pass # "duplicate" => Registered(c))
    BY <1>1, <2>3, MessageKept DEF Inside
  <2>5. CallFits(c, "commit", x)
    BY <2>1, <2>3, <2>4 DEF CallFits, RivalFits, ReplyFits
  <2> HIDE DEF x
  <2> QED BY <1>1, <2>2, <2>4, <2>5, AdvanceQuiet
<1> QED BY <1>2, <1>3

-----------------------------------------------------------------------------
(* The last step of a call.                                                 *)

\* Which rows a commit adds.
LEMMA CommitRows ==
  ASSUME IInv, NEW p \in Procs, stage[p] = "commit", Apply(p)
  PROVE  \A y \in Calls : Present(y)' <=> Present(y) \/ y = tx[p].txn
<1>1. wagers \in [Txns -> RowType] /\ tx[p].txn \in Calls \cup {Nil}
      /\ (tx[p].txn # Nil => NewRow(p).status # "NONE")
  BY DEF IInv, TypeInv, TypeOK, TxType, Control, Decided, NewRow
<1>2. CASE tx[p].txn = Nil
  BY <1>2, NilApart DEF Apply, Present
<1>3. CASE tx[p].txn # Nil
  BY <1>1, <1>3 DEF Apply, Present, Txns
<1> QED BY <1>2, <1>3

\* Which message a commit completes.
LEMMA CommitMessage ==
  ASSUME IInv, NEW p \in Procs, Apply(p), NEW c \in Calls, c # p, Inside(stage[c]),
         Request[c].msg # Nil, CallInv
  PROVE  inbox'[Request[c].msg] = inbox[Request[c].msg]
<1>1. CASE ~Registered(p)
  BY <1>1 DEF Apply
<1>2. CASE Registered(p)
  <2>1. p \in Calls /\ inbox[Request[p].msg] = Nil
    BY <1>2 DEF Registered, CallInv, CallFits, MessageFits, Inside
  <2>2. CASE Request[c].msg = Request[p].msg
    <3>1. tx[c].pass = "duplicate"
      BY <1>2, <2>2 DEF CallInv, MessagesApart, Registered, Inside
    <3>2. inbox[Request[c].msg] = Request[c].body /\ Request[c].body # Nil
      BY <3>1, RequestAssumption DEF CallInv, CallFits, MessageFits
    <3> QED BY <2>1, <2>2, <3>2
  <2>3. CASE Request[c].msg # Request[p].msg
    BY <1>2, <2>3 DEF Apply
  <2> QED BY <2>2, <2>3
<1> QED BY <1>1, <1>2

\* A commit keeps what the others know.
LEMMA CommitFits ==
  ASSUME IInv, CallInv, NEW p \in Procs, NEW r, stage[p] = "commit", Apply(p), End(p, r)
  PROVE  CallInv'
<1>1. p \in Actors /\ \A c \in Calls : Present(c) => Present(c)'
  BY CommitRows DEF Actors
<1>2. \A c \in Calls \ {p} : /\ stage'[c] = stage[c] /\ tx'[c] = tx[c] /\ answer'[c] = answer[c]
                             /\ Inside(stage[c]) /\ Request[c].msg # Nil =>
                                  inbox'[Request[c].msg] = inbox[Request[c].msg]
  BY <1>1, EndOfCall, CommitMessage
<1>3. p \in Calls => CallFits(p, stage[p], tx[p])' /\ stage'[p] = "done" /\ ~Registered(p)'
  <2> SUFFICES ASSUME p \in Calls PROVE CallFits(p, stage[p], tx[p])' /\ stage'[p] = "done" /\ ~Registered(p)'
    OBVIOUS
  <2>1. stage'[p] = "done" /\ tx'[p] = NoTx
    BY <1>1, EndOfCall
  <2>2. CallFits(p, stage[p], tx[p])'
    BY <2>1 DEF CallFits, MessageFits, RivalFits, ReplyFits, Inside
  <2> QED BY <2>1, <2>2 DEF Registered
<1> QED BY <1>1, <1>2, <1>3, FrameKeeps

\* What a call commits conflicts with nothing, and the row is new or the one it answers with.
LEMMA CommitAgrees ==
  ASSUME IInv, CallInv, NEW c \in Calls, stage[c] = "commit"
  PROVE  /\ ~Promise!Conflicts(c)
         /\ tx[c].txn = c => ~Promise!Settled(c)
         /\ tx[c].txn # c => Promise!Settled(c) /\ tx[c].txn = Nil
<1>1. CallFits(c, "commit", tx[c]) /\ tx[c].txn \in {c, Nil}
  BY CallState DEF IInv, Control, Working
<1>2. ~(Request[c].msg # Nil /\ inbox[Request[c].msg] \notin {Nil, Request[c].body})
  BY <1>1 DEF CallFits, MessageFits, Inside
<1>3. CASE tx[c].txn = c
  <2>1. \A y \in Calls : Present(y) => ~SameIdentity(Request[c], Request[y])
    BY <1>3, SameIdentitySymmetric DEF IInv, UniqueInv
  <2> QED BY <1>2, <1>3, <2>1, ConflictsMeans, SettledMeans
<1>4. CASE tx[c].txn # c
  <2> DEFINE x == tx[c].reply.txn
  <2>1. /\ x \in Calls /\ Present(x) /\ Request[x].key = Request[c].key
        /\ PayloadHash(Request[x]) = PayloadHash(Request[c])
    BY <1>1, <1>4 DEF CallFits, ReplyFits
  <2>2. Request[x].provider = Request[c].provider /\ Request[x].ext = Request[c].ext
    BY <2>1 DEF PayloadHash
  <2>3. SameIdentity(Request[c], Request[x])
    BY <2>1, <2>2 DEF SameIdentity, SameKey
  <2>4. ASSUME NEW y \in Calls, Present(y), SameIdentity(Request[c], Request[y]) PROVE y = x
    <3>1. SameIdentity(Request[x], Request[y])
      BY <2>1, <2>2, <2>4 DEF SameIdentity, SameKey, SameExternalID
    <3> QED BY <2>1, <2>4, <3>1 DEF IInv, UniqueInv, OneRowPerIdentity
  <2> HIDE DEF x
  <2> QED BY <1>1, <1>2, <1>4, <2>1, <2>3, <2>4, ConflictsMeans, SettledMeans
<1> QED BY <1>3, <1>4

\* The commit of a call is the commit of the promise.
LEMMA CommitRefines ==
  ASSUME IInv, CallInv, NEW c \in Calls, stage[c] = "commit", Apply(c)
  PROVE  Promise!Commit(c)
<1>1. c \in Procs /\ CallFits(c, "commit", tx[c]) /\ inbox \in [Messages -> {Request[d].body : d \in Calls} \cup {Nil}]
  BY CallState DEF IInv, TypeInv, TypeOK
<1>2. {y \in Calls : Present(y)}'
        = IF Promise!Settled(c) THEN {y \in Calls : Present(y)} ELSE {y \in Calls : Present(y)} \cup {c}
  <2>1. \A y \in Calls : Present(y)' <=> Present(y) \/ y = tx[c].txn
    BY <1>1, CommitRows
  <2>2. (tx[c].txn = c => ~Promise!Settled(c)) /\ (tx[c].txn # c => Promise!Settled(c) /\ tx[c].txn = Nil)
    BY CommitAgrees
  <2> QED BY <2>1, <2>2, NilApart
<1>3. inbox' = IF Request[c].msg = Nil THEN inbox
               ELSE [inbox EXCEPT ![Request[c].msg] = Request[c].body]
  <2>1. CASE Registered(c)
    BY <2>1 DEF Apply, Registered
  <2>2. CASE ~Registered(c) /\ Request[c].msg = Nil
    BY <2>2 DEF Apply
  <2>3. CASE ~Registered(c) /\ Request[c].msg # Nil
    <3>1. inbox[Request[c].msg] = Request[c].body
      BY <1>1, <2>3 DEF Registered, CallFits, MessageFits, Inside
    <3>2. [inbox EXCEPT ![Request[c].msg] = Request[c].body] = inbox
      BY <1>1, <3>1
    <3> QED BY <2>3, <3>2 DEF Apply
  <2> QED BY <2>1, <2>2, <2>3
<1>4. ~Promise!Conflicts(c)
  BY CommitAgrees
<1> QED BY <1>2, <1>3, <1>4 DEF Promise!Commit

\* A commit is heard of, or its answer is lost; a refused one leaves nothing behind.
LEMMA EndRefines ==
  ASSUME IInv, CallInv, NEW c \in Calls,
         \/ Commit(c) \/ CommitLost(c) \/ Abort(c)
  PROVE  CallInv' /\ (Promise!Next \/ UNCHANGED Promise!vars)
<1>1. c \in Procs /\ c \in Actors /\ answer[c].txn = Nil /\ answer[c].error = Nil /\ stage[c] # "done"
  BY CallState DEF Commit, CommitLost, Abort, CallInv, NothingToldEarly
<1>2. ASSUME NEW r, stage[c] = "commit", Apply(c), End(c, r), r.error \notin ConflictErrors
      PROVE  /\ CallInv' /\ Promise!Commit(c)
             /\ {d \in Calls : answer[d].error \in {"InboxConflict", "IdempotencyConflict"}}'
                  = {d \in Calls : answer[d].error \in {"InboxConflict", "IdempotencyConflict"}}
             /\ {d \in Calls : answer[d].txn # Nil}'
                  = IF r.txn = Nil THEN {d \in Calls : answer[d].txn # Nil}
                    ELSE {d \in Calls : answer[d].txn # Nil} \cup {c}
  <2>1. CallInv' /\ Promise!Commit(c)
    BY <1>1, <1>2, CommitFits, CommitRefines
  <2>2. answer'[c] = r /\ \A d \in Calls \ {c} : answer'[d] = answer[d]
    BY <1>1, <1>2, EndOfCall
  <2>3. answer[c].error \notin ConflictErrors
    BY <1>1, ErrorAssumption DEF ConflictErrors, CallErrors
  <2> QED BY <1>1, <1>2, <2>1, <2>2, <2>3 DEF ConflictErrors
<1>3. ASSUME NEW e, e \notin ConflictErrors, Fail(c, e) PROVE CallInv' /\ UNCHANGED Promise!vars
  BY <1>1, <1>3, FailQuiet
<1>4. CASE Commit(c) /\ Refused(c)
  <2>1. PICK e \in AllSafeguards : Fail(c, e)
    BY <1>4 DEF Commit, Refusals, Violated
  <2>2. e \notin ConflictErrors
    BY DEF AllSafeguards, ConflictErrors
  <2> QED BY <1>3, <2>1, <2>2
<1>5. CASE Commit(c) /\ ~Refused(c)
  <2>1. stage[c] = "commit" /\ Apply(c) /\ End(c, tx[c].reply)
    BY <1>5 DEF Commit
  <2>2. tx[c].reply.error = Nil /\ tx[c].reply.txn # Nil
    BY <2>1, CallState, NilApart DEF CallFits, ReplyFits
  <2>3. tx[c].reply.error \notin ConflictErrors
    BY <2>2, ErrorAssumption DEF ConflictErrors, CallErrors
  <2>4. CallInv' /\ Promise!Take(c)
    BY <1>2, <2>1, <2>2, <2>3 DEF Promise!Take
  <2> QED BY <2>4 DEF Promise!Next
<1>6. CASE CommitLost(c)
  <2>1. stage[c] = "commit" /\ Apply(c) /\ End(c, ErrorReply("Unavailable"))
    BY <1>6 DEF CommitLost
  <2>2. ErrorReply("Unavailable").txn = Nil /\ ErrorReply("Unavailable").error \notin ConflictErrors
    BY DEF ErrorReply, NoReply, ConflictErrors
  <2>3. CallInv' /\ Promise!TakeUnheard(c)
    BY <1>2, <2>1, <2>2 DEF Promise!TakeUnheard
  <2> QED BY <2>3 DEF Promise!Next
<1>7. CASE Abort(c)
  BY <1>3, <1>7 DEF Abort, ConflictErrors
<1> QED BY <1>4, <1>5, <1>6, <1>7

-----------------------------------------------------------------------------
(* The others.                                                              *)

\* Openings and workers are not calls.
LEMMA OthersApart ==
  ASSUME IInv
  PROVE  /\ \A c \in Calls : c \in Actors /\ c \in Procs /\ c \in Txns
                             /\ c \notin RefWorkers /\ c \notin Openings
         /\ stage \in [Actors -> Stages] /\ tx \in [Procs -> TxType]
         /\ answer \in [Actors -> ReplyType] /\ wagers \in [Txns -> RowType]
BY ProcessAssumption DEF Actors, Procs, Txns, IInv, TypeInv, TypeOK

\* A transaction of somebody else that fails.
LEMMA OthersFail ==
  ASSUME IInv, CallInv, NEW p \in Actors \ Calls, NEW r, End(p, r), UNCHANGED store
  PROVE  CallInv' /\ UNCHANGED Promise!vars
<1>1. \A c \in Calls : stage'[c] = stage[c] /\ tx'[c] = tx[c] /\ answer'[c] = answer[c]
  BY EndOfCall
<1>2. inbox' = inbox /\ \A c \in Calls : Present(c)' <=> Present(c)
  BY DEF store, Present
<1> QED BY <1>1, <1>2, OthersQuiet

\* An opening writes no operation of a call.
LEMMA OpeningQuiet ==
  ASSUME IInv, CallInv, NEW o \in Openings,
         OpenInsert(o) \/ OpenCommit(o) \/ OpenCommitLost(o) \/ Abort(o)
  PROVE  CallInv' /\ UNCHANGED Promise!vars
<1>1. o \in Actors \ Calls
  BY ProcessAssumption DEF Actors
<1>2. CASE \E e : Fail(o, e)
  BY <1>1, <1>2, OthersFail DEF Fail
<1>3. CASE Goto(o, "commit") /\ UNCHANGED <<store, lock, tx, answer>>
  <2>1. \A c \in Calls : stage'[c] = stage[c] /\ tx'[c] = tx[c] /\ answer'[c] = answer[c]
    BY <1>1, <1>3, OthersApart DEF Goto
  <2>2. inbox' = inbox /\ \A c \in Calls : Present(c)' <=> Present(c)
    BY <1>3 DEF store, Present
  <2> QED BY <2>1, <2>2, OthersQuiet
<1>4. CASE \E r : OpenWrites(o, r)
  <2>1. PICK r : OpenWrites(o, r)
    BY <1>4
  <2>2. End(o, r) /\ inbox' = inbox /\ wagers' = [wagers EXCEPT ![o] = OpeningRow(o)]
    BY <2>1 DEF OpenWrites
  <2>3. \A c \in Calls : stage'[c] = stage[c] /\ tx'[c] = tx[c] /\ answer'[c] = answer[c]
    BY <1>1, <2>2, EndOfCall
  <2>4. \A c \in Calls : Present(c)' <=> Present(c)
    BY <1>1, <2>2, OthersApart DEF Present
  <2> QED BY <2>2, <2>3, <2>4, OthersQuiet
<1> QED BY <1>2, <1>3, <1>4 DEF OpenInsert, OpenCommit, OpenCommitLost, Abort

\* A retry changes a row that is there.
LEMMA WorkerQuiet ==
  ASSUME IInv, CallInv, NEW p \in RefWorkers, WorkerStep(p) \/ CommitLost(p) \/ Abort(p)
  PROVE  CallInv' /\ UNCHANGED Promise!vars
<1>1. p \in Actors \ Calls /\ p \in Procs
  BY ProcessAssumption DEF Actors, Procs
<1>2. ASSUME NEW s, NEW x, Goto(p, s), tx' = [tx EXCEPT ![p] = x], UNCHANGED <<store, answer>>
      PROVE  CallInv' /\ UNCHANGED Promise!vars
  <2>1. \A c \in Calls : stage'[c] = stage[c] /\ tx'[c] = tx[c] /\ answer'[c] = answer[c]
    BY <1>1, <1>2, OthersApart DEF Goto
  <2>2. inbox' = inbox /\ \A c \in Calls : Present(c)' <=> Present(c)
    BY <1>2 DEF store, Present
  <2> QED BY <2>1, <2>2, OthersQuiet
<1>3. ASSUME NEW e, Fail(p, e) PROVE CallInv' /\ UNCHANGED Promise!vars
  BY <1>1, <1>3, OthersFail DEF Fail
<1>4. ASSUME NEW r, stage[p] = "commit", Apply(p), End(p, r) PROVE CallInv' /\ UNCHANGED Promise!vars
  <2>1. \A c \in Calls : stage'[c] = stage[c] /\ tx'[c] = tx[c] /\ answer'[c] = answer[c]
    BY <1>1, <1>4, EndOfCall
  <2>2. inbox' = inbox
    BY <1>1, <1>4 DEF Apply, Registered
  <2>3. \A c \in Calls : Present(c)' <=> Present(c)
    BY <1>1, <1>4, CommitRows, NilApart DEF IInv, Control, Working
  <2> QED BY <2>1, <2>2, <2>3, OthersQuiet
<1>5. CASE ClaimScan(p)
  <2>1. PICK w \in Openings : tx' = [tx EXCEPT ![p].wallet = w]
    BY <1>5 DEF ClaimScan
  <2> QED BY <1>2, <1>5, <2>1 DEF ClaimScan
<1>6. CASE ClaimWallet(p)
  <2>1. CASE lock[tx[p].wallet] # Nil
    <3>1. Goto(p, "idle") /\ tx' = [tx EXCEPT ![p].wallet = Nil] /\ UNCHANGED <<store, answer>>
      BY <1>6, <2>1 DEF ClaimWallet
    <3> QED BY <1>2, <3>1
  <2>2. CASE lock[tx[p].wallet] = Nil
    <3>1. Goto(p, "claimRow") /\ tx' = [tx EXCEPT ![p] = tx[p]] /\ UNCHANGED <<store, answer>>
      BY <1>6, <2>2, OthersApart DEF ClaimWallet
    <3> QED BY <1>2, <3>1
  <2> QED BY <2>1, <2>2
<1>7. CASE ClaimRow(p)
  <2>1. CASE End(p, NoReply) /\ UNCHANGED store
    BY <1>1, <2>1, OthersFail
  <2>2. CASE \E t \in DueOn(tx[p].wallet) :
               /\ Goto(p, "decide")
               /\ tx' = [tx EXCEPT ![p].txn = t, ![p].base = wallets[tx[p].wallet]]
               /\ UNCHANGED <<store, lock, answer>>
    <3>1. PICK t : tx' = [tx EXCEPT ![p].txn = t, ![p].base = wallets[tx[p].wallet]]
      BY <2>2
    <3>2. tx' = [tx EXCEPT ![p] = [tx[p] EXCEPT !.txn = t, !.base = wallets[tx[p].wallet]]]
      BY <1>1, <3>1, OthersApart
    <3> QED BY <1>2, <2>2, <3>2
  <2> QED BY <1>3, <1>7, <2>1, <2>2 DEF ClaimRow
<1>8. CASE RetryDecide(p)
  <2> DEFINE o == RetryOutcome(p, tx[p].txn, tx[p].base)
  <2>1. CASE o.status = "NONE"
    BY <1>3, <1>8, <2>1 DEF RetryDecide
  <2>2. CASE o.status # "NONE"
    <3>1. Goto(p, "commit") /\ tx' = [tx EXCEPT ![p].outcome = o] /\ UNCHANGED <<store, answer>>
      BY <1>8, <2>2 DEF RetryDecide
    <3> HIDE DEF o
    <3> QED BY <1>2, <3>1
  <2> QED BY <2>1, <2>2
<1>9. CASE Commit(p)
  <2>1. CASE Refused(p)
    BY <1>3, <1>9, <2>1 DEF Commit
  <2>2. CASE ~Refused(p)
    BY <1>4, <1>9, <2>2 DEF Commit
  <2> QED BY <2>1, <2>2
<1>10. CASE CommitLost(p)
  BY <1>4, <1>10 DEF CommitLost
<1>11. CASE Abort(p)
  BY <1>3, <1>11 DEF Abort
<1> QED BY <1>5, <1>6, <1>7, <1>8, <1>9, <1>10, <1>11 DEF WorkerStep

\* The clock makes no operation and no answer.
LEMMA TickQuiet ==
  ASSUME IInv, CallInv, NEW t \in Calls, Tick(t) PROVE CallInv' /\ UNCHANGED Promise!vars
<1>1. wagers'[t].status = wagers[t].status /\ \A c \in Calls \ {t} : wagers'[c] = wagers[c]
  BY OthersApart DEF Tick, RowType
<1>2. \A c \in Calls : Present(c)' <=> Present(c)
  BY <1>1 DEF Present
<1>3. inbox' = inbox /\ \A c \in Calls : stage'[c] = stage[c] /\ tx'[c] = tx[c] /\ answer'[c] = answer[c]
  BY DEF Tick
<1> QED BY <1>2, <1>3, OthersQuiet

-----------------------------------------------------------------------------
(* The refinement.                                                          *)

\* In the beginning nobody has asked.
LEMMA InitRefines == ASSUME Init PROVE CallInv /\ Promise!Init
<1>1. \A c \in Calls : /\ c \in Txns /\ c \in Actors /\ c \in Procs /\ c \notin Opened
  BY ProcessAssumption, OpeningAssumption DEF Txns, Actors, Procs
<1>2. \A c \in Calls : /\ ~Present(c) /\ stage[c] = "idle" /\ tx[c] = NoTx /\ answer[c] = NoReply
  BY <1>1 DEF Init, Present, NoRow
<1>3. NoReply.txn = Nil /\ NoReply.error = Nil
  BY DEF NoReply
<1>4. CallInv
  BY <1>2, <1>3, RestFits DEF CallInv, MessagesApart, Registered, NothingToldEarly
<1>5. /\ {c \in Calls : Present(c)} = {} /\ {c \in Calls : answer[c].txn # Nil} = {}
      /\ {c \in Calls : answer[c].error \in {"InboxConflict", "IdempotencyConflict"}} = {}
  BY <1>2, <1>3, ErrorAssumption DEF CallErrors
<1>6. inbox = [m \in Messages |-> Nil]
  BY DEF Init
<1> QED BY <1>4, <1>5, <1>6 DEF Promise!Init

\* Every step is a step of the promise or none.
LEMMA StepRefines ==
  ASSUME IInv, CallInv, [Next]_vars PROVE CallInv' /\ [Promise!Next]_(Promise!vars)
<1>1. CASE UNCHANGED vars
  <2>1. inbox' = inbox /\ \A c \in Calls : /\ Present(c)' <=> Present(c)
                                           /\ stage'[c] = stage[c] /\ tx'[c] = tx[c]
                                           /\ answer'[c] = answer[c]
    BY <1>1 DEF vars, Present
  <2> QED BY <2>1, OthersQuiet
<1>2. ASSUME NEW c \in Calls, Begin(c) \/ CallStep(c) \/ Tick(c) \/ CommitLost(c) \/ Abort(c)
      PROVE  CallInv' /\ [Promise!Next]_(Promise!vars)
  <2>1. CASE Register(c) \/ FindByIdempotencyKey(c) \/ FindByExternalID(c)
    BY <2>1, RegisterRefines, FindByIdempotencyKeyRefines, FindByExternalIDRefines DEF Promise!Next
  <2>2. CASE Begin(c) \/ Tick(c)
    BY <2>2, BeginQuiet, TickQuiet
  <2>3. CASE LockWallet(c) \/ RefuseIdentity(c)
    BY <2>3, LockWalletQuiet, RefuseIdentityQuiet
  <2>4. CASE Insert(c) \/ Decide(c)
    BY <2>4, InsertQuiet, DecideQuiet
  <2>5. CASE Commit(c) \/ CommitLost(c) \/ Abort(c)
    BY <2>5, EndRefines
  <2> QED BY <1>2, <2>1, <2>2, <2>3, <2>4, <2>5 DEF CallStep
<1>3. ASSUME NEW o \in Openings, OpenInsert(o) \/ OpenCommit(o) \/ OpenCommitLost(o) \/ Abort(o)
      PROVE  CallInv' /\ [Promise!Next]_(Promise!vars)
  BY <1>3, OpeningQuiet
<1>4. ASSUME NEW p \in RefWorkers, WorkerStep(p) \/ CommitLost(p) \/ Abort(p)
      PROVE  CallInv' /\ [Promise!Next]_(Promise!vars)
  BY <1>4, WorkerQuiet
<1>5. CASE Finished
  BY <1>1, <1>5 DEF Finished
<1> QED BY <1>1, <1>2, <1>3, <1>4, <1>5 DEF Next, Procs, Actors

\* ProcessWager, with all its statements, waits and faults, does to its callers what the
\* atomic specification does: an operation takes effect once, with its message, and only
\* a real conflict is told.
THEOREM ExactlyOnceImplemented == Spec => ImplementsExactlyOnce
<1>1. Init => CallInv /\ Promise!Init
  BY InitRefines
<1>2. IInv /\ CallInv /\ [Next]_vars => CallInv' /\ [Promise!Next]_(Promise!vars)
  BY StepRefines
<1> QED BY <1>1, <1>2, Invariance, PTL DEF Spec, ImplementsExactlyOnce, Promise!Spec
=============================================================================
