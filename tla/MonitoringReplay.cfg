SPECIFICATION Spec
CONSTANTS
  Nodes = {n1}
  MaxHeight = 2
  MaxEvents = 4
  MaxTicks = 0
  MaxSamples = 1
  MaxFaults = 0
  logReplayLines = 1
  logSubscriberBuffer = 1
  PromBuffer = 1
PROPERTY ReplaysAreExcused
CHECK_DEADLOCK FALSE
