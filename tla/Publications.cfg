SPECIFICATION SourceSpec
CONSTANTS
  Parts = {"pulls", "discovery"}
  MostPosts = 2
  MaxNow = 3
  OVERLAP = 1
  TTL = 1
  COARSE = 1
  LOOKBACK = 2
  MaxMisfortunes = 1
  MaxCalls = 1
  X = {"x"}
  Substack = {"letter"}
  Blog = {"blog"}
  GitHub = {"code"}
  Scholar = {"papers"}
  MaxLinks = 2
\* The clock is bounded: nothing is due any more at its end; discovery ends.
CHECK_DEADLOCK FALSE
INVARIANTS
  StillInReach
  TrustEarned
