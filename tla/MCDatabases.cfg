CONSTANTS
  root = root
  a = a
  b = b
  f = f
  g = g
  h = h
  ino = ino
  NoInode = NoInode
  Dirs <- MCDirs
  Files <- MCFiles
  Root = root
  Parent <- MCParent
  Skip = {}
  Bytes <- MCBytes
  Inode <- MCInode
  Slots = 2
  SqliteSkip <- MCSqliteSkip
  MaxCalls = 2
  Workers = {w1, w2}
  MaxItems = 7
  SqliteRequests = 2
  StoredSkip <- MCFiles
  ReopenAt = 3
  MaxScans = 2
  StoredRequests = 3
SPECIFICATION DatabasesSpec
INVARIANTS
  TreesAreWhole
  TotalsAreSums
  NothingHidden
  ScreensAgree
  LoadsWholeScans
  ReferencesAreBalanced
PROPERTIES
  ScansReturn
CHECK_DEADLOCK FALSE
