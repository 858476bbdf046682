CONSTANTS
  Roots = 2
  RootDirs = 3
  MaxScans = 2
CHECK_DEADLOCK FALSE
SPECIFICATION Spec
PROPERTIES
  StopIsPrompt
