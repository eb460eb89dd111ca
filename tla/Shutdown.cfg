SPECIFICATION FairSpec
CONSTANTS
  h1 = h1
  h2 = h2
  h3 = h3
  NULL = NULL
  Anchor = Anchor
  Handles <- ThreeHandles
  Nodes <- ThreeNodes
  MaxOpens = 3
  MaxSignals = 2
INVARIANTS TypeOK RingWhole ListFunctionsAgree NoCrash
PROPERTIES ClosesAll Stops
CHECK_DEADLOCK FALSE
