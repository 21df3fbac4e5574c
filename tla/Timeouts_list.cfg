SPECIFICATION FairTimeoutsSpec
CONSTANTS
  c1 = c1
  c2 = c2
  c3 = c3
  Cells <- ThreeCells
  NULL = NULL
  Delays = {0, 2}
  MaxTime = 2
INVARIANTS
  ListSound
PROPERTIES
  ImplementsTimers
  TimersEnd
