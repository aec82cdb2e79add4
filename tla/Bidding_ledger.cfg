SPECIFICATION Spec
CONSTANTS
  u1 = u1
  u2 = u2
  k1 = k1
  w1 = w1
  w2 = w2
  r1 = r1
  NoKey = NoKey
  Users = {u1, u2}
  Suspects = {u1}
  Keys = {k1}
  Workers = {w1, w2}
  Readers = {}
  Amounts = {2, 4, 5}
  StartPrice = 0
  MinIncrement = 2
  FirstDeadline = 1
  ExtensionEnabled = TRUE
  Trigger = 1
  ForceSeconds = 1
  Extension = 1
  SilentShadow = TRUE
  MaxPerSecond = 1
  MinPriorRun = 2
  MaxBids = 2
  MaxTime = 3
SYMMETRY WorkerSymmetry
INVARIANTS
  OneLeader
  DeadlineAddsUp
  ExtensionsArePaidFor
  RateRespected
  ClosedAfterDeadline
  OutcomeTellsBids
  ShadowBidsStayHidden
PROPERTIES
  ReplayReturnsOriginal
  BidsLeaveTimeToAnswer
  ImplementsEnglishAuction
