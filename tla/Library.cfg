SPECIFICATION Spec
CONSTANTS
  Human <- MCHuman
  Forgetters = {"forget"}
  Others = {"admission", "open"}
  Rails = {"rail", "other rail"}
  Enrichers = {"enrichment"}
  Imports = {"import"}
  Savers = {"saver", "pull"}
  ByHand = {"pull"}
  Hoppers = {"hopper"}
  Linkers = {"oracle"}
  Admitters = {"admission"}
  Openers = {"open"}
  PaperIds = {"arxiv", "openalex"}
  RepoIds = {"github"}
  MaxAttempts = 2
  MaxTroubles = 1
  MaxAsks = 3
  Casts <- MCCasts
CHECK_DEADLOCK FALSE
INVARIANTS
  Searchable
  Attested
  StaysForgotten
PROPERTIES
  SavedArrives
