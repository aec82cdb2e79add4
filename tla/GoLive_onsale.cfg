SPECIFICATION GSpec
CONSTANTS
  seller = seller
  b1 = b1
  p1 = p1
  t1 = t1
  c1 = c1
  c2 = c2
  i1 = i1
  KeepPrice = KeepPrice
  Users = {seller}
  Seller = seller
  Web = {p1}
  Tasks = {t1}
  LocksNeedTransaction = TRUE
  MaxCrashes = 0
  Clerks = {c1, c2}
  Items = {i1}
  Prices = {1}
  FirstPrice = 1
  k1 = k1
  Categories = {k1}
  FirstCategory = k1
  Assigned <- AllAssigned
  MinImages <- NoImages
  MaxImages <- NoImages
CHECK_DEADLOCK FALSE
SYMMETRY ClerkSymmetry
INVARIANTS
  OnSaleIsApprovedAndPaid
PROPERTIES
  ImplementsPayments
