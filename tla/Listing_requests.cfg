SPECIFICATION LSpec
CONSTANTS
  p1 = p1
  p2 = p2
  i1 = i1
  i2 = i2
  tight = tight
  roomy = roomy
  KeepPrice = KeepPrice
  Web = {p1, p2}
  Categories = {tight, roomy}
  FirstCategory = tight
  Items = {i1, i2}
  Assigned <- TwoAssigned
  MinImages <- TwoMin
  MaxImages <- TwoMax
  Prices = {1, 2}
  FirstPrice = 1
  MaxCrashes = 1
CHECK_DEADLOCK FALSE
SYMMETRY ListingSymmetry
INVARIANTS
  DecisionsAreLogged
  ImagesBounded
  SubmittedIsComplete
PROPERTIES
  TicksAreKept
  FollowsDiagram
  ApprovedIsChecked
  ShownIsFinal
