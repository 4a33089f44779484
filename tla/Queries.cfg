SPECIFICATION Spec
CONSTANTS
  Nil = Nil
  i1 = i1  i2 = i2
  Instances = {i1, i2}
  Lag <- SecondLags
  Ids = {1, 2, 3, 4}
  MaxLimit = 2
  MaxTime = 5
INVARIANTS ListsOnce WalkIsSnapshot NoFalseAlarm
