SPECIFICATION Spec
CONSTANTS
  Pcb = {p1, p2, p3, p4}
  NoPcb = nopcb
  States <- SomeStates
INVARIANTS ListsTerminated
PROPERTIES ImplementsQueues
CHECK_DEADLOCK FALSE
