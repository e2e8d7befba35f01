SPECIFICATION Spec
CONSTANTS
  Pairs = {p1, p2}
  Services = {p1, p2}
  Holders <- MCHolders
  Casts <- MCCasts
  MaxNow = 3
  OVERLAP = 1
  PAIR_TTL = 2
  BREADTH = 1
  DEEP = 2
  CEILING = 2
  MaxPairs = 1
  TTL = 0
  MaxEpoch = 1
  Nobody = Nobody
  THRESHOLD = 1
  COOLDOWN = 1
  None = None
CHECK_DEADLOCK FALSE
INVARIANTS
  ClaimsHeld
  Unsubscribed
  OneProven
PROPERTIES
  CaughtUp
