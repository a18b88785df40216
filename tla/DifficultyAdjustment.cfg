SPECIFICATION Spec
CONSTANTS
  PartialsTarget = 3
  TimeTarget = 4
  MinDifficulty = 2
  SlowGap = 2
  Delay = 1
  Suggested = {1, 7}
  Starts = {4}
  MaxPending = 2
  MaxTime = 9
INVARIANT TypeOK
PROPERTIES AdjustedForCause AdjustmentsAreSpaced
CHECK_DEADLOCK FALSE
