SPECIFICATION ArithmeticSpec
CONSTANTS
  MaxInt = 127
  Wholes = {0, 1, 2, 3}
  LastAttempt = 9
INVARIANTS Exact PrintsWhatItReads DelaysExact
