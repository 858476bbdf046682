CONSTANTS
  top = top
  a = a
  b = b
  c = c
  f = f
  g = g
  h = h
  k = k
  ino = ino
  NoInode = NoInode
  Dirs <- MCDirs
  Files <- MCFiles
  Root = top
  Parent <- MCParent
  Skip = {}
  Bytes <- MCBytes
  Inode <- MCInode
  Roots = 3
  RootDirs = 3
  MaxScans = 2
  Slots = 1
  ParallelSkip <- MCParallelSkip
  StableSkip <- MCStableSkip
  Place <- MCPlace
  Name <- MCName
  Rules <- MCRules
  PreviewSkip <- MCPreviewSkip
  Items = {x, y}
  ItemParts = {p1, p2}
  LastName = 2
  Tries = 1
  ArgLists <- MCArgs
  Mounts <- MCMounts
  MaxPaths = 3
  MaxChanges = 2
  Day = 4
  Width = 6
  Unit <- MCUnit
  TimeInputs <- MCTimeInputs
  Now = 9
  ModTimes <- MCModTimes
  GitInputs <- MCGitInputs
  GitPaths <- MCGitPaths
SPECIFICATION PartsSpec
INVARIANTS
  SessionIsSound
  OrderIsKept
  TrashKeepsItems
  StartIsRight
  TotalsAreExact
  ReportsAreTrue
  FiltersAreMeant
  CancelIsPrompt
PROPERTIES
  UnstoppedIsComplete
  SingleStopIsPrompt
  ContractsAreKept
  AllEnd
CHECK_DEADLOCK FALSE
