SPECIFICATION FairSpec
CONSTANTS
  c1 = c1 c2 = c2 c3 = c3 f1 = f1 f2 = f2 f3 = f3 a = a b = b pool = pool
  Credits = {c1, c2, c3}
  Weight <- ThreeWeights
  Owner <- ThreeOwners
  FarmerRows <- Rows
  PayTo <- TwoAddresses
  PoolAddress = pool
  Reward = 4
  MinPayout = 4
  PoolFeePercent = 25
  MaxAdditions = 2
  MaxRewards = 2
  Faults = {"wallet", "sync", "format"}
  MaxFaults = 1
INVARIANTS PlanSound OneTransactionAtATime
PROPERTIES BilledIsPaid PayoutsGoOn
CHECK_DEADLOCK FALSE
