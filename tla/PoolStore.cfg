SPECIFICATION FairSpec
CONSTANTS
  Calls <- MCCalls
  Op <- MCOp
  Locked <- MCLocked
  Backends = {"sqlite", "mariadb"}
  PoolSize = 2
  RecentLimit = 1
  None = None
  MaxFaults = 1
INVARIANT TypeOK
INVARIANT DurableOnReturn
INVARIANT PointsHaveRows
INVARIANT HalfOnlyIfExposed
INVARIANT LoginShowsWhatItCounts
PROPERTY CallsReturn
CHECK_DEADLOCK FALSE
