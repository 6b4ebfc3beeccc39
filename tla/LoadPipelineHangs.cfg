SPECIFICATION Spec
CONSTANTS
  Users = {u1, u2}
  Nodes = {n1}
  TriggerCap = 1
  TxsCap = 1
  MaxMessages = 4
PROPERTIES ShutdownCompletes
CHECK_DEADLOCK FALSE
