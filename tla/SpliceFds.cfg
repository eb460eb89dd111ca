SPECIFICATION Spec
CONSTANTS
  SpliceSize = 2
  PipeCap = 3
  FdLimit = 9
  MaxUnits = 3
INVARIANTS ConnectionServed
CHECK_DEADLOCK FALSE
