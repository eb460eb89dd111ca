SPECIFICATION Spec
CONSTANTS
  h1 = h1
  h2 = h2
  r1 = r1
  r2 = r2
  r3 = r3
  NULL = NULL
  Dangling = Dangling
  Handles <- TwoHandles
  Reqs <- TwoReqs
  MaxEvent = 2
  Rules <- ClosesBusy
SYMMETRY Symmetry
INVARIANTS NoFault
CHECK_DEADLOCK FALSE
