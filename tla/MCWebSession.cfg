CONSTANTS
  root = root
  a = a
  b = b
  x = x
  c1 = c1
  h1 = h1
  h2 = h2
  Dirs <- MCDirs
  Files <- MCFiles
  Root = root
  Parent <- MCParent
  Skip = {}
  Bytes <- MCBytes
  Roots = 2
  Clients = {c1}
  Buffer = 2
  Handlers = {h1, h2}
  Sessions <- MCSessions
SPECIFICATION Spec
INVARIANTS
  SizesAreSums
  NothingHidden
PROPERTIES
  EndIsTold
  PollersEnd
  RequestsAreAnswered
