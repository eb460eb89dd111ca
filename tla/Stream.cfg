SPECIFICATION Spec
CONSTANTS
  MaxWrites = 3
  MaxLen = 2
  MaxAgain = 1
  None = None
INVARIANTS TypeOK InOrderOnce TakenWhenTold InTurn
PROPERTIES NothingAfterTold
CHECK_DEADLOCK FALSE
