SPECIFICATION Spec
CONSTANTS
  Pcb = {comhand, idle, p1, p2}
  ComhandPcb = comhand
  IdlePcb = idle
  NoPcb = nopcb
  R3Names <- OneR3Name
  TimerNames <- TwoTimers
  Commands <- DispatchCommands
  UserOps <- ReadsWrites
  PriChoices <- Priorities
  MaxLen = 2
  MaxLoads = 1
  AnyInput = TRUE
INVARIANTS TypeOK QueuesSound BlockedHasRequest DeviceConsistent NoLostWakeup
PROPERTIES OnlyKnownPanics DispatchesBest SuspendedNeverRuns
CHECK_DEADLOCK FALSE
