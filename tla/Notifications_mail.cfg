SPECIFICATION NFairSpec
CONSTANTS
  n1 = n1
  n2 = n2
  w1 = w1
  w2 = w2
  c1 = c1
  NoNote = NoNote
  Notes = {n1, n2}
  Emails = {n1, n2}
  Addressed = {n1}
  Workers = {w1, w2}
  Clients = {c1}
  SweepLimit = 1
  MaxQueued = 2
  MaxDeaths = 1
INVARIANTS
  MailedOncePerWorker
PROPERTIES
  EveryEmailGoesOut
