SPECIFICATION Spec
CONSTANTS
  k0 = k0 k1 = k1 a0 = a0 a1 = a1 None = None
  po1 = po1 po2 = po2 pu1 = pu1 pu2 = pu2 co1 = co1
  Posts = {po1}
  Puts = {pu1}
  Confirms = {}
  Keys = {k0, k1}
  Payouts = {a0, a1}
  Difficulties = {1, 2, 3}
  DefaultDifficulty = 2
  MinDifficulty = 2
  Asks <- FewAsks
  MaxTip = 0
  MaxCrashes = 0
PROPERTY OnlyMembersRegistered
CHECK_DEADLOCK FALSE
