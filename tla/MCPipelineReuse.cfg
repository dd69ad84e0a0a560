SPECIFICATION Spec
CONSTANTS
  MaxRuns = 2
  Faults = {"crash"}
INVARIANTS
  ReusedResultsComplete
CHECK_DEADLOCK FALSE
