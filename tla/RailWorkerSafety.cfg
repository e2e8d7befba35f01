SPECIFICATION Spec
CONSTANTS
  Homes = {h1, h2}
  Rails = {r1, r2}
  Workers = {w1, w2}
  Pids = {p1, p2, p3}
  None = None
  Cadence <- MCCadence
  Priorities = {0}
  MaxTime = 1
  MaxChildren = 2
  Followed <- MCNone
  MaxStops = 1
SYMMETRY MCSymmetry
CHECK_DEADLOCK FALSE
INVARIANTS
  SingleFlight
  ClaimsBacked
PROPERTIES
  ImplementsSlots
