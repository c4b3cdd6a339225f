SPECIFICATION Spec
CONSTANTS
  Pcb = {p1, p2}
  Bytes = {cr, a}
  CR = cr
  MaxLen = 2
  RingSize = 2
  MaxRequests = 3
  MaxTyped = 3
INVARIANTS SerialTypeOK WireInOrder ReadsWhatWasTyped
PROPERTIES ImplementsDevice
CHECK_DEADLOCK FALSE
