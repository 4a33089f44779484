----------------------------- MODULE Arithmetic -----------------------------
(***************************************************************************)
(* The arithmetic of the program.  A behaviour looks either at a Money     *)
(* value, taken through every sequence of the operations of Money next to  *)
(* the integer it should hold, or at the delays of an admitted policy,     *)
(* attempt after attempt.                                                  *)
(***************************************************************************)
EXTENDS Backoff

CONSTANTS
  Wholes,        \* whole units that a client may write before the decimal point
  LastAttempt    \* bound on the attempts looked at

ASSUME ArithmeticAssumption == Wholes \subseteq 0 .. MaxInt /\ LastAttempt \in Nat

VARIABLES cents,             \* the amount field of a Money value
          exact,             \* the same computed in mathematical integers
          initial, longest,  \* the first and the longest delay of a policy
          attempt            \* the attempt; 0 while a Money value is looked at

money == <<cents, exact>>
delays == <<initial, longest, attempt>>

\* ZeroMoney.
MoneyInit == cents = 0 /\ exact = 0

\* ReferenceRetryPolicy.Validate and OutboxPolicy.Validate: a delay is positive and
\* the longest is not shorter than the first.
PolicyInit ==
  /\ initial \in 1 .. MaxInt
  /\ longest \in initial .. MaxInt
  /\ attempt = 1

ArithmeticInit == MoneyInit /\ (PolicyInit \/ (initial = 1 /\ longest = 1 /\ attempt = 0))

Becomes(refused, machine, integer) ==
  IF refused THEN UNCHANGED money ELSE cents' = machine /\ exact' = integer

AddTo(b) == Becomes(AddOverflows(cents, b), Add(cents, b), exact + b)
SubFrom(b) == Becomes(SubOverflows(cents, b), Sub(cents, b), exact - b)
NegateIt == Becomes(NegateOverflows(cents), Negate(cents), -exact)
ParseIt(whole, part) ==
  Becomes(ParseOverflows(whole, part), Parse(whole, part), whole * 100 + part)

MoneyNext == \/ \E b \in MachineInt : AddTo(b)
             \/ \E b \in MachineInt : SubFrom(b)
             \/ NegateIt
             \/ \E whole \in Wholes, part \in 0 .. 99 : ParseIt(whole, part)

\* The counter of attempts stops at its largest value.
NextAttempt ==
  /\ attempt' = IF attempt < LastAttempt THEN attempt + 1 ELSE attempt
  /\ UNCHANGED <<initial, longest>>

ArithmeticNext == \/ attempt = 0 /\ MoneyNext /\ UNCHANGED delays
                  \/ attempt > 0 /\ NextAttempt /\ UNCHANGED money

ArithmeticSpec == ArithmeticInit /\ [][ArithmeticNext]_<<money, delays>>

-----------------------------------------------------------------------------
\* No sequence of accepted operations ever wraps around, the int64 is the integer;
\* and no operation is refused (ErrMoneyOverflow) whose result can be represented, at
\* either end of the range.
Exact ==
  /\ cents = exact
  /\ \A b \in MachineInt : /\ AddOverflows(cents, b) => cents + b \notin MachineInt
                           /\ SubOverflows(cents, b) => cents - b \notin MachineInt
  /\ NegateOverflows(cents) => -cents \notin MachineInt
  /\ \A whole \in Wholes, part \in 0 .. 99 :
       ParseOverflows(whole, part) => whole * 100 + part \notin MachineInt

\* What String prints is an amount with two digits of cents that NewMoney, which
\* takes no sign, reads back as the absolute value; the smallest int64 is printed
\* correctly too, and is the only one whose absolute value NewMoney refuses.
PrintsWhatItReads ==
  LET d == Digits(cents)
      magnitude == IF cents < 0 THEN -cents ELSE cents
  IN /\ d.negative <=> cents < 0
     /\ d.whole >= 0 /\ d.cents \in 0 .. 99
     /\ d.whole * 100 + d.cents = magnitude
     /\ IF magnitude \in MachineInt
        THEN ~ParseOverflows(d.whole, d.cents) /\ Parse(d.whole, d.cents) = magnitude
        ELSE ParseOverflows(d.whole, d.cents)

Capped(n, limit) == IF n < limit THEN n ELSE limit

\* The powers of two.
TwoTo[n \in Nat] == IF n = 0 THEN 1 ELSE 2 * TwoTo[n - 1]

\* Each delay is the first one doubled for every further attempt and cut off at the
\* longest, computed without an overflow on the way; a message is hidden for
\* 1, 2, 4, ... up to 60 seconds.
DelaysExact ==
  attempt > 0 =>
    /\ OutboxDelay(initial, longest)[attempt] = Capped(initial * TwoTo[attempt - 1], longest)
    /\ ReferenceDelay(initial, longest)[attempt] = Capped(initial * TwoTo[attempt - 1], longest)
    /\ MessageDelay(attempt) = Capped(TwoTo[attempt - 1], 60)
=============================================================================
