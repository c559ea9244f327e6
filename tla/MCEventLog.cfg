CONSTANTS
  MAGIC = 99
  WordMod = 128
  ChanLimit = 4
  Chan = 50
  Payloads <- MCTwoPayloads
  Stamps <- MCStamps
  Readers = {"calls", "transport"}
  Timeout = 1
  SeekBits = 8
  MaxBuffered = 0
  MaxCrashes = 1
  MaxEnds = 1
SPECIFICATION Spec
INVARIANTS OneLostPerEnd  
CHECK_DEADLOCK FALSE
