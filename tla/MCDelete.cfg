CONSTANTS
  root = root
  a = a
  b = b
  f = f
  g = g
  x = x
  y = y
  w1 = w1
  w2 = w2
  Dirs <- SmallDirs
  Files <- SmallFiles
  Root = root
  Parent <- SmallParent
  Skip <- MCSkip
  Bytes <- SmallBytes
  Rank <- SmallRank
  Workers = {w1, w2}
  Modes = {TRUE, FALSE}
  MaxRequests <- MCRequests
CHECK_DEADLOCK FALSE
SPECIFICATION Spec
INVARIANTS
  NothingHidden
  OnlyRequestedIsGone
  SizesMatchUntilFailure
  ModalKeepsTree
PROPERTIES
  AgreedUntilFailure
  QueueDrains
