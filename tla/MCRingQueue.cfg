CONSTANTS
  Elements = {a, b, c}
  Sizes = {1, 3, 4, 6}
  Shrink = FALSE
  Garbage = none
SPECIFICATION Spec
INVARIANTS LiveCells
PROPERTIES ImplementsFifo
