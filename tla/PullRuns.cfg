SPECIFICATION Spec
CONSTANTS
  Oracles = {o1, o2}
  Doubtful = {o1}
  Calls = {c1, c2}
  Deepens = {}
  Slots = {s1, s2}
  Rounds = 1
  None = None
  MaxTroubles = 1
  MaxAsks = 2
CHECK_DEADLOCK FALSE
INVARIANTS
  RosterFinished
PROPERTIES
  DismissedStays
  AskedPulled
