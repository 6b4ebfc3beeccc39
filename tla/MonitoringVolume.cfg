SPECIFICATION Spec
CONSTANTS
  Nodes = {n1}
  MaxHeight = 2
  MaxEvents = 3
  MaxTicks = 0
  MaxSamples = 0
  MaxFaults = 0
  logReplayLines = 2
  logSubscriberBuffer = 2
  PromBuffer = 1
INVARIANT VolumesLoseNothing
CHECK_DEADLOCK FALSE
