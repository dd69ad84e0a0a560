SPECIFICATION FairSpec
CONSTANTS
  BuildCmd = {c1, c2, c3, c4}
  LinkCmd = {l1, l2, l3}
  nproc = 2
  None = None
INVARIANTS
  TypeOK
  NoCommandSkipped
  AtMostNproc
PROPERTIES
  EverythingBuilt
CHECK_DEADLOCK FALSE
