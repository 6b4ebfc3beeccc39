SPECIFICATION Spec
CONSTANTS
  Callers = {c1}
  MaxStarts = 3
  Bootstrap = TRUE
  DataDirs = {"empty", "unchecked"}
  Faults <- AnyFault
INVARIANTS TypeOK ExclusiveDataDir OnlyOwnExitIsUnexpected
CHECK_DEADLOCK FALSE
