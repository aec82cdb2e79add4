SPECIFICATION FairPSpec
CONSTANTS
  seller = seller
  b1 = b1
  p1 = p1
  p2 = p2
  t1 = t1
  t2 = t2
  Users = {seller, b1}
  Seller = seller
  Web = {p1}
  Tasks = {t1, t2}
  LocksNeedTransaction = FALSE
  Orderly = TRUE
  MaxCrashes = 0
CHECK_DEADLOCK FALSE
INVARIANTS
  LiveIsPaid
PROPERTIES
  PaidIsLetIn
  PaidGoesLive
