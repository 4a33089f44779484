SPECIFICATION FairSpec
CONSTANTS
  p1 = p1  p2 = p2  p3 = p3
  e1 = e1  e2 = e2
  Nil = Nil
  Publishers = {p1, p2, p3}
  Events = {e1, e2}
  Tokens = {1, 2, 3, 4, 5, 6, 7}
  Config <- Policies
  MaxAttempts = 2
  MaxFaults = 2
  MaxInt = 100
INVARIANTS TypeOK AttemptOwnsEvent DuplicatesNeedFaults
PROPERTIES ImplementsDelivery EventuallyPublished
