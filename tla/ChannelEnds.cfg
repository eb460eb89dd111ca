SPECIFICATION Spec
CONSTANTS
  s1 = s1
  s2 = s2
  Subs <- TwoSubs
  SpliceSize = 2
  PipeCap = 3
  MaxUnits = 4
  Falters = FALSE
  EndsItself = TRUE
SYMMETRY Symmetry
INVARIANTS NoFreedTask
CHECK_DEADLOCK FALSE
