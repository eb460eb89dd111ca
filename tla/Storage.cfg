SPECIFICATION Spec
CONSTANTS
  PCount = 4
  PSizes <- MCPSizes
  WordSize = 8
  NULL = NULL
  Data = Data
  Overruns = FALSE
INVARIANTS TypeOK FreeListSound
PROPERTIES ImplementsPool
CHECK_DEADLOCK FALSE
