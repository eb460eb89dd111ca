SPECIFICATION Spec
CONSTANTS
  s1 = s1
  s2 = s2
  Subs <- TwoSubs
  SpliceSize = 2
  PipeCap = 2
  MaxUnits = 4
  Falters = TRUE
  EndsItself = FALSE
SYMMETRY Symmetry
INVARIANTS TypeOK InOrder KeptUpGotAll
PROPERTIES CutOffWhenFull
CHECK_DEADLOCK FALSE
