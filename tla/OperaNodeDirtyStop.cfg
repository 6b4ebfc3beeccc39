SPECIFICATION Spec
CONSTANTS
  Callers = {c1}
  MaxStarts = 2
  Bootstrap = TRUE
  DataDirs = {"empty", "unchecked"}
  Faults <- ShutdownFaults
PROPERTIES NoStartOnDirtyDb
CHECK_DEADLOCK FALSE
