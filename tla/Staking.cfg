SPECIFICATION Spec
CONSTANTS
  Nodes = {n1, n2}
  Delegators = {"d"}
  Steps <- MCSteps
  Genesis = 1
  MaxIds = 4
  MaxSeals = 1
INVARIANTS StakesAreCovered ValidatorsAreActive IdsAreDistinct
