SPECIFICATION Spec
CONSTANTS
  Nil = Nil
  i1 = i1  i2 = i2
  w1 = w1  w2 = w2
  o1 = o1  o2 = o2  o3 = o3
  Instances = {i1, i2}
  Wallets = {w1, w2}
  Operations = {o1, o2}
  WalletOf <- OneEach
  Lag <- SecondLags
  Opener <- ByFast
  Opened = {w1}
  MaxAttempts = 3
  Delay <- Delays
  MaxCalls = 4
INVARIANTS WalletsReadable
