SPECIFICATION FairSpec
CONSTANTS
  r1 = r1 r2 = r2 f1 = f1 p1 = p1 p2 = p2 s1 = s1
  Requests = {r1, r2}
  Farmers = {f1}
  Proofs = {p1, p2}
  SignagePoints = {s1}
  Difficulties = {1}
  Sender <- OneSender
  ProofOf <- TwoProofs
  SPOf <- OneSP
  Quality <- Qualities
  PartialTimeLimit = 1
  ConfirmationDelay = 4
  WakeMargin = 1
  RetryDelay = 1
  MaxHandling = 1
  RecentCapacity = 2
  MaxTime = 5
  MaxCrashes = 0
INVARIANT NothingWipedUnbilled
PROPERTIES LedgerSpec AcceptedIsResolved
CHECK_DEADLOCK FALSE
