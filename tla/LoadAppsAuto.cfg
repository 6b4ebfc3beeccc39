SPECIFICATION AppSpec
CONSTANTS
  AppUsers = {u1, u2}
  Cases <- AutoCounter
  TicksPerSecond = 2
  RateUnit = 8
  BatchSize = 2
  MaxTxs = 3
  MaxLost = 1
  UintMod = 1024
PROPERTY CutOnlyOnOverload
CHECK_DEADLOCK FALSE
