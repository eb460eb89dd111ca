SPECIFICATION Spec
CONSTANTS
  SpliceSize = 2
  PipeCap = 3
  FdLimit = 9
  MaxUnits = 5
INVARIANTS TypeOK InOrder NothingLost
PROPERTIES StuckWhenFull
CHECK_DEADLOCK FALSE
