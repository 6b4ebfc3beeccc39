SPECIFICATION AppSpec
CONSTANTS
  AppUsers = {u1, u2}
  Cases <- MCCases
  TicksPerSecond = 2
  RateUnit = 8
  BatchSize = 2
  MaxTxs = 3
  MaxLost = 1
  UintMod = 1024
CHECK_DEADLOCK FALSE
INVARIANTS
  SetupIsComplete
  TriggersFollowShape
  ReceivedAtMostSent
PROPERTY
  PlainIsExecuted
