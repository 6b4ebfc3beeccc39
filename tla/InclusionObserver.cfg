SPECIFICATION InclusionSpec
CONSTANTS
  Nodes = {n1, n2, n3}
  Heights = {1, 2, 3, 4}
  PendingBlocks = 2
  BlockReadAttempts = 3
INVARIANTS BlockIsInOnePlace
PROPERTIES ImplementsBlockFeed
CHECK_DEADLOCK FALSE
