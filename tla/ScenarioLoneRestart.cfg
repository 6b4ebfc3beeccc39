SPECIFICATION Spec
CONSTANTS
  Steps <- LoneSteps
  MaxNodes = 1
  MaxFaults = 0
PROPERTY HealedNodeRestarts
