CONSTANTS
  p1 = p1
  p2 = p2
  p3 = p3
  Procs = {p1, p2, p3}
  Geometries <- MCGeometries
  MaxFiles = 2
  MaxCrashes = 1
  MaxFailures = 1
SYMMETRY Symmetry
SPECIFICATION Spec
INVARIANTS JoinedInitialised
PROPERTIES FinishedIsJoinable
CHECK_DEADLOCK FALSE
