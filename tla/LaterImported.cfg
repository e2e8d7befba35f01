SPECIFICATION Spec
CONSTANTS
  People = {1, 2, 3}
  SamePerson <- MCSame
  Collectors = {"x_following"}
  Maintained = "x_following"
  Saving = {"saved"}
  Rail = "rail"
  Passes = {"rail", "thread"}
  Unleased = {"hand"}
  Casts <- MCCasts
  Nobody = "nobody"
  OnX = {1, 2}
  Scholars = {3}
  Ceiling = 2
  Ttl = 2
  MaxTroubles = 2
  MaxPosts = 1
  Platforms = {"x", "substack"}
  Grandfathered = {"x"}
  Checked = {"substack"}
  Users <- MCOne
  NoRail = "none"
  Parts = {"onboarding"}
CHECK_DEADLOCK FALSE
PROPERTIES
  LaterImported
