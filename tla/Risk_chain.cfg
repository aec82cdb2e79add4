SPECIFICATION RSpec
CONSTANTS
  a = a
  b = b
  ip = ip
  w1 = w1
  NoUser = NoUser
  Users = {a, b}
  Ips = {ip}
  Banned = {}
  Workers = {w1}
  Modes = {"linear", "multiply"}
  Cap = 6
  ShadowAt = 2
  HardAt = 3
  SelfBump = 1
  MinPriorRun = 2
  PumpBump = 1
  PumpLength = 2
  IpBump = 1
  IpThreshold = 0
  WinBump = 1
  MinTotal = 0
  WinPercent = 80
  DecayPoints = 1
  DecayPercent = 60
  MaxRetries = 1
  StaffScores = {2}
  MaxBids = 2
  MaxEdits = 1
INVARIANTS
  SelfOutbiddingIsSeen
CHECK_DEADLOCK FALSE
