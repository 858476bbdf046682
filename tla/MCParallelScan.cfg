CONSTANTS
  root = root
  a = a
  b = b
  c = c
  ign = ign
  f = f
  g = g
  Dirs <- MCDirs
  Files <- MCFiles
  Root = root
  Parent <- MCParent
  Skip <- MCSkip
  Slots = 2
SPECIFICATION Spec
INVARIANTS
  NothingRunsAfterHandover
  PartialTreeIsWhole
  NoSilentLoss
  IInv
PROPERTIES
  KeepsContract
