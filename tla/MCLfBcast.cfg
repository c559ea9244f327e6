CONSTANTS
  p1 = p1
  p2 = p2
  s1 = s1
  Pubs = {p1, p2}
  Subs = {s1}
  Depth = 2
  LoadOrders = {"head", "tail"}
  FutexMod = 8
  MaxMsgs = 4
  MaxReleases = 0
  MaxCrashes = 1
SPECIFICATION Spec
SYMMETRY ProcSymmetry
CONSTRAINT OneAtATime
INVARIANTS SlotsIntact PublishedOnce NeverFullWhilePublishing NoLostWakeup StarvedOnlyIfUndersized
PROPERTIES ImplementsBcastLog
CHECK_DEADLOCK FALSE
