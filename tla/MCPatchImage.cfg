SPECIFICATION Spec
CONSTANTS
  Mod <- McMod
  Under <- McUnder
  Profile <- McProfile
  Images <- McImages
  Sizes = {28, 44, 45}
  MaxRuns = 2
  Faults = {"kill", "tool"}
INVARIANTS
  TypeOK
  DoneDisables
  OthersKept
  SomeKernelWhole
  OnlyKernelReplaced
  WholeUnlessDisturbed
  InitrdKept
PROPERTY PatchesAccumulate
CHECK_DEADLOCK FALSE
