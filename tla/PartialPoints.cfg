SPECIFICATION Spec
CONSTANTS
  r1 = r1 r2 = r2 f1 = f1 p1 = p1 p2 = p2 s1 = s1
  Requests = {r1, r2}
  Farmers = {f1}
  Proofs = {p1, p2}
  SignagePoints = {s1}
  Difficulties = {1, 3}
  Sender <- OneSender
  ProofOf <- SameProof
  SPOf <- OneSP
  Quality <- Qualities
  PartialTimeLimit = 1
  ConfirmationDelay = 4
  WakeMargin = 1
  RetryDelay = 1
  MaxHandling = 1
  RecentCapacity = 2
  MaxTime = 6
  MaxCrashes = 1
INVARIANTS TypeOK NoDoubleCredit CreditedAsValidated Inv
CHECK_DEADLOCK FALSE
