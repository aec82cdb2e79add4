SPECIFICATION RSpec
CONSTANTS
  u1 = u1
  phone = phone
  p1 = p1
  p2 = p2
  j1 = j1
  NoUser = NoUser
  Users = {u1}
  Phones = {phone}
  Emails = {}
  Web = {p1, p2}
  Deliveries = {j1}
  Ttl = 0
  MaxAge = 1
  Window = 0
  Limit = 1
  Retries = 1
  MaxRows = 2
  MaxTime = 2
CHECK_DEADLOCK FALSE
SYMMETRY AccountSymmetry
INVARIANTS
  AccountsAreProven
  FlagsAreProven
  PasswordsComeByReset
PROPERTIES
  RowsMoveForward
  CodesUndoNothing
