SPECIFICATION MCFairSpec
CONSTANTS
  Nil = Nil
  c1 = c1  c2 = c2  c3 = c3  c4 = c4  c5 = c5  c6 = c6
  c7 = c7  c8 = c8  c9 = c9  c10 = c10  c11 = c11  c12 = c12  c13 = c13  c14 = c14
  w1 = w1  w2 = w2  w3 = w3  w4 = w4  w5 = w5
  r1 = r1  r2 = r2
  OpeningRequest <- Wallets
  MaxInt = 100
  Calls = {c1, c2, c3, c4}
  Openings = {w1}
  Opened = {w1}
  RefWorkers = {r1}
  MaxAttempts <- EqualLimits
  Request <- WaitingRequests
  MaxFaults = 1
  Safeguards <- AllSafeguards
  Scenarios <- WaitingScenarios
PROPERTIES EveryCallAnswered PendingResolved
