SPECIFICATION Spec
CONSTANTS
  h1 = h1
  h2 = h2
  r1 = r1
  r2 = r2
  r3 = r3
  NULL = NULL
  Dangling = Dangling
  Handles <- TwoHandles
  Reqs <- ThreeReqs
  MaxEvent = 2
  Rules <- AnyClient
SYMMETRY Symmetry
INVARIANTS TypeOK ArmedForWork QueuesSound CountsOpenHandles CompletesTheFirst FaultsExplained
PROPERTIES DropsOnlyTheSecond
CHECK_DEADLOCK FALSE
