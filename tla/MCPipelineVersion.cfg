SPECIFICATION Spec
CONSTANTS
  MaxRuns = 2
  Faults = {"crash"}
INVARIANTS
  UnknownVersionStops
CHECK_DEADLOCK FALSE
