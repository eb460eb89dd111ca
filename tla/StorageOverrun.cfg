SPECIFICATION Spec
CONSTANTS
  PCount = 3
  PSizes <- MCPSizes
  WordSize = 8
  NULL = NULL
  Data = Data
  Overruns = TRUE
INVARIANTS FreeListSound
CHECK_DEADLOCK FALSE
