SPECIFICATION PSpec
CONSTANTS
  seller = seller
  b1 = b1
  p1 = p1
  p2 = p2
  t1 = t1
  t2 = t2
  Users = {seller, b1}
  Seller = seller
  Web = {p1, p2}
  Tasks = {t1, t2}
  LocksNeedTransaction = TRUE
  Orderly = FALSE
  MaxCrashes = 1
CHECK_DEADLOCK FALSE
SYMMETRY ProcessSymmetry
INVARIANTS
  OnlyDeathStrands
PROPERTIES
  ImplementsAdmission
