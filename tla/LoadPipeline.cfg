SPECIFICATION Spec
CONSTANTS
  Users = {u1, u2}
  Nodes = {n1, n2}
  TriggerCap = 1
  TxsCap = 1
  MaxMessages = 4
INVARIANTS TypeOK NoSendOnClosedChannel EveryTxIsReported
PROPERTIES StopCompletes
CHECK_DEADLOCK FALSE
