CONSTANTS
  t1 = t1
  t2 = t2
  Threads = {t1, t2}
  NumElts = 2
  OpBudget = 6
SPECIFICATION FairSpec
INVARIANTS PoolInv
PROPERTIES NullMeansEmpty ImplementsPoolSpec AllCallsReturn
CHECK_DEADLOCK FALSE
