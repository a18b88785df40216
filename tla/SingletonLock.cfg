SPECIFICATION Spec
CONSTANTS
  c1 = c1 c2 = c2 None = None
  Calls = {c1, c2}
  Threshold = 1
  RelativeLock = 1
  MaxPeak = 3
  MaxSpends = 2
  MaxReorgs = 1
  MaxErrors = 0
PROPERTY LeavesAfterLock
CHECK_DEADLOCK FALSE
