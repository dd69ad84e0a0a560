SPECIFICATION Spec
CONSTANTS
  Dir = {"drivers", "net", "lib"}
  Object = {1, 2, 3, 4, 5}
  Var <- MCVar
  Expr <- MCExpr
  Input <- MCInput
INVARIANT EveryObjectHasExpr
CHECK_DEADLOCK FALSE
