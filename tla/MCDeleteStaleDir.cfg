CONSTANTS
  root = root
  a = a
  b = b
  f = f
  g = g
  x = x
  y = y
  w1 = w1
  w2 = w2
  Dirs <- MCDirs
  Files <- MCFiles
  Root = root
  Parent <- MCParent
  Skip <- MCSkip
  Bytes <- MCBytes
  Rank <- MCRank
  Workers = {w1}
  Modes = {TRUE}
  MaxRequests <- OnlyBackground
CHECK_DEADLOCK FALSE
SPECIFICATION Spec
INVARIANTS
  DeletedIsUnlinked
