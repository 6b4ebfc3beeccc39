SPECIFICATION Spec
CONSTANTS
  Callers = {c1}
  MaxStarts = 2
  Bootstrap = TRUE
  DataDirs = {"empty", "unchecked"}
  Faults <- SignalFaults
PROPERTIES CrashIsRecorded
CHECK_DEADLOCK FALSE
