SPECIFICATION Spec
CONSTANTS
  Callers = {c1, c2}
  MaxStarts = 2
  Bootstrap = TRUE
  DataDirs = {"empty", "unchecked"}
  Faults <- CrashFaults
INVARIANTS ExclusiveDataDir
CHECK_DEADLOCK FALSE
