CONSTANTS
  p1 = p1
  s1 = s1
  Pubs = {p1}
  Subs = {s1}
  Depth = 2
  LoadOrders = {"head", "tail"}
  FutexMod = 2
  MaxMsgs = 4
  MaxReleases = 1
  MaxCrashes = 1
SPECIFICATION FairSpec
PROPERTIES CatchUp Retention
CHECK_DEADLOCK FALSE
