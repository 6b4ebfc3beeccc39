SPECIFICATION Spec
CONSTANTS
  a = a
  b = b
  c = c
  Nodes = {a, b, c}
  Validators = {a, b}
  Specs <- MCSpecs
  StartHeights <- MCHeights
  Forks <- MCForks
  MaxHeight = 3
  MaxBlocks = 3
  MaxFaults = 1
  MaxEpochs = 1
  MaxEvents = 2
  maxSampleAttempts = 2
INVARIANTS PassIsEarned FailureIsReal
PROPERTY CheckEnds
CHECK_DEADLOCK FALSE
