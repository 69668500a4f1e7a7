SPECIFICATION Spec
CONSTANTS
  x = x
  y = y
  Values = {x, y}
  Counts = {2, 3}
  FailSets <- MCFailSets
  MaxCalls = 4
SYMMETRY Swaps
INVARIANTS
  SoundUnlessFailed
  NothingLeaks
CHECK_DEADLOCK FALSE
