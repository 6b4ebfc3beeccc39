SPECIFICATION Spec
CONSTANTS
  Callers = {c1}
  MaxStarts = 2
  Bootstrap = TRUE
  DataDirs = {"empty", "unchecked"}
  Faults <- CrashFaults
PROPERTIES VolumesAreHealed
CHECK_DEADLOCK FALSE
