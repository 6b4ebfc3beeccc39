SPECIFICATION Spec
CONSTANTS
  Callers = {c1}
  MaxStarts = 3
  Bootstrap = TRUE
  DataDirs = {"empty", "unchecked"}
  Faults <- RecoverableFaults
INVARIANTS UnprotectedOnce
PROPERTIES NoStartOnDirtyDb CrashIsRecorded BootReleasesContainer
CHECK_DEADLOCK FALSE
