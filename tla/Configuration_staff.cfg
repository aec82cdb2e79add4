SPECIFICATION CSpec
CONSTANTS
  v1 = v1
  v2 = v2
  p1 = p1
  p2 = p2
  p3 = p3
  Versions = {v1, v2}
  Items = {1, 2}
  Web = {p1, p2, p3}
  MaxCrashes = 1
SYMMETRY StaffSymmetry
INVARIANTS
  OneTermsInForce
  AssignedAloneIsExact
