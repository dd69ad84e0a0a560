SPECIFICATION Spec
CONSTANTS
  Dir = {"drivers", "net", "lib"}
  Object = {1, 2, 3, 4, 5}
  Var <- MCVar
  Expr <- MCExpr
  Input <- MCInput
INVARIANTS
  TypeOK
  PairedOnce
  LinkedTransitive
  LostOnlyLast
CHECK_DEADLOCK FALSE
