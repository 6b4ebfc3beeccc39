SPECIFICATION EmissionSpec
CONSTANTS
  MaxEvents = 4
  MaxEpochs = 2
  MaxFailures = 1
INVARIANTS ReadOnce WalkIsComplete
PROPERTIES EventIsFound
CHECK_DEADLOCK FALSE
