SPECIFICATION Spec
CONSTANTS
  NULL = NULL
  Log = Log
  PCount = 3
  LowByte = 16
  Fds = {1, 2, 3}
  MaxEvent = 2
  MaxMishaps = 1
INVARIANTS TypeOK FdTells RightConnection AlwaysABlock CommandsWereSent NoCrash
PROPERTIES BlocksKept
CHECK_DEADLOCK FALSE
