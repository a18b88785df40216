SPECIFICATION Spec
CONSTANTS
  FarmerRows <- MCFarmerRows
  Known <- MCKnown
  Before <- MCBefore
  Active <- MCActive
  Coins <- MCCoins
  Owner <- MCOwner
  Kind <- MCKind
  None = None
  BundleLimit = 1
  Threshold = 1
  MaxLag = 1
  MaxMoves <- MCMaxMoves
  Faults = {"node", "store", "drop", "reorg", "sync", "crash"}
  MaxFaults = 1
INVARIANT TypeOK
INVARIANT OnlyBuriedRewards
INVARIANT PaysThisPool
CHECK_DEADLOCK FALSE
