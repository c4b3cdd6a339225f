SPECIFICATION FairSpec
CONSTANTS
  Pcb = {comhand, idle, p1}
  ComhandPcb = comhand
  IdlePcb = idle
  NoPcb = nopcb
  R3Names <- OneR3Name
  TimerNames <- OneTimer
  Commands <- FreeingCommands
  UserOps <- ReadsWrites
  PriChoices <- Priorities
  MaxLen = 2
  MaxLoads = 1
  AnyInput = TRUE
INVARIANTS NoneLost ReadySorted
PROPERTIES ImplementsLifecycle OnlyDeviceUnblocks BlockedReturns ComhandRuns
CHECK_DEADLOCK FALSE
