SPECIFICATION Spec
CONSTANTS
  s1 = s1
  s2 = s2
  Senders = {s1}
  Apps = {s1}
  AppOf <- AppPerSender
  MaxNonce <- GapBeforeTwo
  MaxTracked = 4
  MaxBlocks = 2
INVARIANTS NothingBecomesEmittable
CHECK_DEADLOCK FALSE
