SPECIFICATION Spec
CONSTANTS
  Nodes = {n1, n2}
  Delegators = {"d"}
  Steps <- StakeSteps
  Genesis = 1
  MaxIds = 4
  MaxSeals = 1
INVARIANT AllIsUndelegated
