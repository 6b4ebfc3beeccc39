SPECIFICATION EmissionSpec
CONSTANTS
  MaxEvents = 4
  MaxEpochs = 1
  MaxFailures = 1
INVARIANTS ParentsAreFollowed
CHECK_DEADLOCK FALSE
