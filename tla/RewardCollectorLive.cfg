SPECIFICATION FairSpec
CONSTANTS
  FarmerRows <- MCFarmerRows
  Known <- LiveKnown
  Before <- LiveBefore
  Active <- MCActive
  Coins <- LiveCoins
  Owner <- LiveOwner
  Kind <- LiveKind
  None = None
  BundleLimit = 1
  Threshold = 1
  MaxLag = 1
  MaxMoves <- LiveMaxMoves
  Faults = {"node", "drop", "reorg", "sync", "crash"}
  MaxFaults = 1
PROPERTY RewardCollected
CHECK_DEADLOCK FALSE
