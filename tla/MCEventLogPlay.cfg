CONSTANTS
  MAGIC = 99
  WordMod = 128
  ChanLimit = 4
  Chan = 50
  Payloads <- MCPayloads
  Stamps <- MCStamps
  Readers = {"transport"}
  Timeout = 1
  SeekBits = 8
  MaxBuffered = 0
  MaxCrashes = 0
  MaxEnds = 1
SPECIFICATION Spec
INVARIANT
  EnabledIsReceived
CHECK_DEADLOCK FALSE
