CONSTANTS
  Capacity = 13
  Base = 4
  MTU = 2
  ChanMax = 1
  LineSize = 3
  SubsMax = 3
  Patterns <- MCPatterns
  Programs <- MCPrograms
SPECIFICATION Spec
INVARIANTS SendWhole Delivery NotWedged
PROPERTIES DispatchExact Arrives
