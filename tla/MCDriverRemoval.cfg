SPECIFICATION Spec
CONSTANTS
  a = a
  b = b
  c = c
  dev = dev
  s1 = s1
  s2 = s2
  fa = fa
  fb = fb
  fcon = fcon
  o1 = o1
  o2 = o2
  k1 = k1
  Obj = {o1, o2}
  Ko = {k1}
  Sym = {fa, fb, fcon}
  Base = {a, b, c}
  Dev = {dev}
  Sig = {s1, s2}
  SigMatch <- MCSigMatch
  Prefixes <- MCPrefixes
  LevelLike <- MCLevelLike
  EndsWith <- MCEndsWith
  Tails <- MCTails
  Images <- MCAllImages
INVARIANTS
  UnwantedModulesDeleted
CHECK_DEADLOCK FALSE
