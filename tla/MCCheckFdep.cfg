SPECIFICATION FairSpec
CONSTANTS
  o1 = o1
  o2 = o2
  f = f
  g = g
  h = h
  k1 = k1
  k2 = k2
  Obj = {o1, o2}
  Ko = {k1, k2}
  Sym = {f, g, h}
  Inputs <- MCInputs
INVARIANTS
  TypeOK
  OrderIndependent
  OnlyDeadCodeReaches
PROPERTIES
  ImplementsLeastPatch
  Terminates
CHECK_DEADLOCK FALSE
