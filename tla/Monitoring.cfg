SPECIFICATION Spec
CONSTANTS
  Nodes = {n1}
  MaxHeight = 2
  MaxEvents = 3
  MaxTicks = 2
  MaxSamples = 1
  MaxFaults = 1
  logReplayLines = 1
  logSubscriberBuffer = 1
  PromBuffer = 1
INVARIANTS GapsAreDrops OneReaderPerStream DumpIsFinal
PROPERTY NothingHangs
CHECK_DEADLOCK FALSE
