SPECIFICATION FairSpec
CONSTANTS
  h1 = h1
  h2 = h2
  r1 = r1
  r2 = r2
  r3 = r3
  NULL = NULL
  Dangling = Dangling
  Handles <- TwoHandles
  Reqs <- TwoReqs
  MaxEvent = 2
  Rules <- CarefulClient
INVARIANTS NoFault NoRequestLost
PROPERTIES ImplementsQueue RequestServed
CHECK_DEADLOCK FALSE
