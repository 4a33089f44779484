------------------------------- MODULE Money -------------------------------
(***************************************************************************)
(* Amounts of money as the program keeps them: signed integers of minor    *)
(* units (cents) of a fixed width, with overflow guards in front of every  *)
(* machine operation.  MaxInt stands for math.MaxInt64; the guards are the *)
(* same for every width.  The currency part of a Money value is checked    *)
(* where two values meet and is modelled by the modules that own it.       *)
(***************************************************************************)
EXTENDS Integers

CONSTANT MaxInt

ASSUME MaxIntAssumption == MaxInt \in Nat /\ MaxInt >= 99

MinInt == -MaxInt - 1

\* The values an int64 can hold.
MachineInt == MinInt .. MaxInt

\* Two's-complement wrap-around of a mathematical integer.
Wrap(n) == ((n - MinInt) % (2 * (MaxInt + 1))) + MinInt

-----------------------------------------------------------------------------
(* The guards of Add, Sub and NewMoney, comparison for comparison.          *)

\* Variant: only an overflow upwards is looked for.
AddOverflowsUpwards(a, b) == b > 0 /\ a > MaxInt - b

AddOverflows(a, b) == \/ b > 0 /\ a > MaxInt - b
                      \/ b < 0 /\ a < MinInt - b

SubOverflows(a, b) == \/ b > 0 /\ a < MinInt + b
                      \/ b < 0 /\ a > MaxInt + b

ParseOverflows(whole, cents) == whole > (MaxInt - cents) \div 100

NegateOverflows(a) == a = MinInt

-----------------------------------------------------------------------------
(* What the accepted operations compute, on machine integers.               *)

Add(a, b) == Wrap(a + b)
Sub(a, b) == Wrap(a - b)
Parse(whole, cents) == Wrap(Wrap(whole * 100) + cents)
Negate(a) == Wrap(-a)

\* Go's integer division truncates towards zero; TLA+'s \div rounds down.
Quotient(a, b) == IF a >= 0 THEN a \div b ELSE -((-a) \div b)
Remainder(a, b) == a - b * Quotient(a, b)

\* Variant: the sign is printed, but only in front of the units.
DigitsSignedCents(a) == [negative |-> a < 0,
                         whole    |-> IF a < 0 THEN Wrap(-Quotient(a, 100)) ELSE Quotient(a, 100),
                         cents    |-> Remainder(a, 100)]

\* The two numbers String prints around the decimal point, and its sign.
Digits(a) == [negative |-> a < 0,
              whole    |-> IF a < 0 THEN Wrap(-Quotient(a, 100)) ELSE Quotient(a, 100),
              cents    |-> IF a < 0 THEN Wrap(-Remainder(a, 100)) ELSE Remainder(a, 100)]
=============================================================================
