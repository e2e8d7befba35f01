SPECIFICATION FrontierSpec
CONSTANTS
  MaxParts = 4
  Casts <- MCCasts
  MaxTroubles = 1
  Threshold = 1
  r1 = r1
  r2 = r2
  Watches <- MCWatches
  Tiers <- MCTiers
  MaxMisses = 1
  MaxRequests = 1
  MaxWindow = 6
  Overlap = 1
  FirstPull = 2
  Openers = {"o1", "o2"}
  Rows = {"r"}
  StoresFound <- MCStores
  MaxUpsets = 2
CHECK_DEADLOCK FALSE
INVARIANTS
  PaidOnce
  GainedIsRead
  SpeedVoted
  NothingSkipped
PROPERTIES
  NotebookWhole
  QueueDrains
  SearchedAgain
  StoreOpens
