CONSTANTS
  u = u
  v = v
  Users = {u, v}
  Programs <- LivePrograms
  QueueSize = 3
  NewSize = 4
  MaxRecv = 1
SPECIFICATION LiveSpec
PROPERTIES CallsReturn RunReturns SentUnlessDisabled
CHECK_DEADLOCK FALSE
