SPECIFICATION FairSpec
CONSTANTS
  u1 = u1
  u2 = u2
  k1 = k1
  w1 = w1
  w2 = w2
  r1 = r1
  NoKey = NoKey
  Users = {u1}
  Suspects = {u1}
  Keys = {k1}
  Workers = {w1, w2}
  Readers = {r1}
  Amounts = {2, 4}
  StartPrice = 0
  MinIncrement = 2
  FirstDeadline = 1
  ExtensionEnabled = TRUE
  Trigger = 1
  ForceSeconds = 1
  Extension = 1
  SilentShadow = FALSE
  MaxPerSecond = 2
  MinPriorRun = 2
  MaxBids = 2
  MaxTime = 4
INVARIANTS
  EndIsGrounded
PROPERTIES
  DueIsClosed
  BooksShutAtClose
