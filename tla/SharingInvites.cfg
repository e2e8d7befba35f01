SPECIFICATION Spec
CONSTANTS
  None = None
  Subjects = {s1, s2}
  Requests = {q1, q2}
  Pids = {p1, p2}
  MaxVanish = 1
  Children = {c1}
  Nonces = {n1, n2}
  TTL = 1
  MaxSignins = 2
  Other = Other
  People = {h1, h2}
  Calls = {k1, k2}
  DailyCap = 1
  MaxMints = 2
  Parts = {"sharing"}
  Codes = {i1, i2}
  Files = {f1, f2}
  MaxStore = 0
  MaxUnshares = 1
  MaxFails = 0
CHECK_DEADLOCK FALSE
INVARIANTS
  InvitesDie
