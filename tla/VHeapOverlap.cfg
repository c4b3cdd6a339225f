SPECIFICATION Spec
CONSTANTS
  HeapSize = 13
  Hdr = 2
  Width = 32
  Sizes = {1, 2}
  MaxLive = 4
CHECK_DEADLOCK FALSE
INVARIANT NoOverlap
