SPECIFICATION FairSpec
CONSTANTS
  r1 = r1  r2 = r2
  Requests = {r1, r2}
  Workers <- WorkerNames
  RequestTimeout = 10
  WorkerTimeout <- Rollbacks
  StopTimeout = 15
INVARIANTS PoolOutlivesUsers
PROPERTIES StopEnds
