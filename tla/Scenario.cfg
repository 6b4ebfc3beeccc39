SPECIFICATION Spec
CONSTANTS
  Steps <- MCSteps
  MaxNodes = 5
  MaxFaults = 1
INVARIANTS NodesAgree OneNodePerValidator NothingIsLeft
PROPERTIES ValidatorIsKept ScenarioEnds
