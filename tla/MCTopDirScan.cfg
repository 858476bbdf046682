CONSTANTS
  root = root
  a = a
  b = b
  c = c
  d = d
  n = n
  f = f
  g = g
  h = h
  s = s
  t = t
  ino = ino
  NoInode = NoInode
  Dirs <- MCDirs
  Files <- MCFiles
  Root = root
  Parent <- MCParent
  Skip <- MCSkip
  Bytes <- MCBytes
  Inode <- MCInode
  Slots = 1
CHECK_DEADLOCK FALSE
SPECIFICATION Spec
INVARIANTS
  ItemsCountedOnce
  InodesCountedOnce
  GoroutinesAreCounted
  ReportIsFinal
PROPERTIES
  ScanReturns
