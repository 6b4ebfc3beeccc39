SPECIFICATION Spec
CONSTANTS
  Nodes = {n1}
  MaxHeight = 0
  MaxEvents = 4
  MaxTicks = 3
  MaxSamples = 1
  MaxFaults = 1
  logReplayLines = 1
  logSubscriberBuffer = 1
  PromBuffer = 1
INVARIANT TickerGoesOn
CHECK_DEADLOCK FALSE
