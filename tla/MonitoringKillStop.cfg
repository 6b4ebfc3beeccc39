SPECIFICATION Spec
CONSTANTS
  Nodes = {n1}
  MaxHeight = 0
  MaxEvents = 4
  MaxTicks = 1
  MaxSamples = 1
  MaxFaults = 0
  logReplayLines = 1
  logSubscriberBuffer = 1
  PromBuffer = 1
INVARIANT NoPanic
CHECK_DEADLOCK FALSE
