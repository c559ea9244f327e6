CONSTANTS
  u = u
  v = v
  Users = {u, v}
  Programs <- SafetyPrograms
  QueueSize = 2
  NewSize = 3
  MaxRecv = 2
SPECIFICATION Spec
INVARIANTS FifoDelivery PauseHolds NoTerminate
PROPERTIES FlushSendsAll
CHECK_DEADLOCK FALSE
