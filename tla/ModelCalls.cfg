SPECIFICATION Spec
CONSTANTS
  Services = {"openrouter", "openrouter-embed"}
  Gates = {"embed", "content", "vlm"}
  Callers = {c1, c2}
  Texts = {t1}
  Pages = {p1, p2}
  Images = {i1}
  MaxTroubles = 3
  Deadlands = {{}, {"ocr"}}
  None = None
  THRESHOLD = 2
  COOLDOWN = 1
  START = 1
  MIN_PERMITS = 1
  MAX_PERMITS = 2
  INCREASE_AFTER = 1
CHECK_DEADLOCK FALSE
INVARIANTS
  NoLostWakeup
PROPERTIES
  TrialsSpaced
  WorkSettles
