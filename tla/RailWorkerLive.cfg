SPECIFICATION LiveSpec
CONSTANTS
  Homes = {h1, h2}
  Rails = {r1}
  Workers = {w1}
  Pids = {p1, p2}
  None = None
  Cadence <- MCCadence
  Priorities = {0}
  MaxTime = 0
  MaxChildren = 1
  Followed <- MCAll
  MaxStops = 1
PROPERTIES
  RequestsRun
