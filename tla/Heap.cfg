SPECIFICATION Spec
CONSTANTS
  HeapSize = 15
  Hdr = 2
  Width = 32
  Sizes = {1, 2, 31}
  MaxLive = 5
INVARIANTS HeapTypeOK HeapSound
PROPERTIES ImplementsAllocator RefusedOnlyWhenFull FreeAnswers
VIEW Seen
CONSTRAINT Intact
CHECK_DEADLOCK FALSE
