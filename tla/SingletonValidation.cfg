SPECIFICATION FairSpec
CONSTANTS
  c1 = c1 c2 = c2 None = None
  Calls = {c1, c2}
  Threshold = 1
  RelativeLock = 1
  MaxPeak = 2
  MaxSpends = 2
  MaxReorgs = 1
  MaxErrors = 1
INVARIANTS TypeOK StoredTipOnChain NoWalkLeftBehind
PROPERTIES MemberDuringCall CallsReturn
CHECK_DEADLOCK FALSE
