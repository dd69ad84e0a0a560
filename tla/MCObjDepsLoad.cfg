SPECIFICATION Spec
CONSTANTS
  o1 = o1
  o2 = o2
  k1 = k1
  f = f
  g = g
  h = h
  v = v
  init_module = init_module
  Obj = {o1, o2}
  Ko = {k1}
  Sym = {f, g, h, v, init_module}
  ModuleSyms = {init_module}
  ThirdParty = {o2}
  Builds <- MCBuilds
INVARIANTS
  TypeOK
  Mirrored
  WalkOrderIrrelevant
PROPERTIES
  OnlyInlinedRestored
CHECK_DEADLOCK FALSE
