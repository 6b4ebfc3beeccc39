SPECIFICATION Spec
CONSTANTS
  Nodes = {n1, n2}
  Delegators = {"d"}
  Steps <- EpochSteps
  Genesis = 1
  MaxIds = 4
  MaxSeals = 1
PROPERTY AdvanceEpochSeals
