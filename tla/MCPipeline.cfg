SPECIFICATION FairSpec
CONSTANTS
  MaxRuns = 3
  Faults = {"crash", "tool", "mount", "source"}
INVARIANTS
  TypeOK
  UndisturbedResultsComplete
  Recoverable
PROPERTIES
  RunEnds
CHECK_DEADLOCK FALSE
