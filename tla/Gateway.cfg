SPECIFICATION Spec
CONSTANTS
  None = None
  Subjects = {s1, s2}
  Requests = {q1, q2}
  Pids = {p1, p2}
  MaxVanish = 1
  Children = {c1}
  Nonces = {n1, n2}
  TTL = 1
  MaxSignins = 2
  Other = Other
  People = {h1, h2}
  Calls = {k1, k2}
  DailyCap = 1
  MaxMints = 2
  Parts = {"pool", "sign-in", "trial", "sharing"}
  Codes = {i1}
  Files = {f1, f2, f3}
  MaxStore = 1
  MaxUnshares = 1
  MaxFails = 1
CHECK_DEADLOCK FALSE
INVARIANTS
  OneServing
  NewestReachable
  HandedLinkPending
  DeliveredOnce
  ServedWhole
PROPERTIES
  Answered
  ProfileFreed
  DemandPushed
