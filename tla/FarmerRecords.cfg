SPECIFICATION FairSpec
CONSTANTS
  k0 = k0 k1 = k1 a0 = a0 a1 = a1 None = None
  po1 = po1 po2 = po2 pu1 = pu1 pu2 = pu2 co1 = co1
  Posts = {po1, po2}
  Puts = {pu1, pu2}
  Confirms = {co1}
  Keys = {k0, k1}
  Payouts = {a0, a1}
  Difficulties = {1, 2, 3}
  DefaultDifficulty = 2
  MinDifficulty = 2
  Asks <- FewAsks
  MaxTip = 1
  MaxCrashes = 1
INVARIANTS TypeOK PointsSurviveUpdates RegisteredOnce ReportedUpdatesHold OneChangeAtATime
PROPERTY BlockedIsReleased
CHECK_DEADLOCK FALSE
