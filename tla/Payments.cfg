SPECIFICATION Spec
CONSTANTS
  c1 = c1 c2 = c2 c3 = c3 f1 = f1 f2 = f2 f3 = f3 a = a b = b pool = pool
  Credits = {c1, c2}
  Weight <- TwoWeights
  Owner <- TwoOwners
  FarmerRows <- Rows
  PayTo <- TwoAddresses
  PoolAddress = pool
  Reward = 4
  MinPayout = 4
  PoolFeePercent = 25
  MaxAdditions = 2
  MaxRewards = 2
  Faults = {"send", "wallet", "poll", "clear", "crash", "reorg", "sync", "format"}
  MaxFaults = 2
INVARIANTS TypeOK PaidTwiceOnlyIfKept EveryCreditAccounted PromisesCovered
PROPERTY LedgerSpec
CHECK_DEADLOCK FALSE
