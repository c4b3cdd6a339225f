SPECIFICATION Spec
CONSTANTS
  Pcb = {comhand, idle, p1}
  ComhandPcb = comhand
  IdlePcb = idle
  NoPcb = nopcb
  R3Names <- OneR3Name
  TimerNames <- OneTimer
  Commands <- LoadSuspend
  UserOps <- Writes
  PriChoices <- Priorities
  MaxLen = 1
  MaxLoads = 1
  AnyInput = FALSE
INVARIANT GuaranteedReadyAtHead
CHECK_DEADLOCK FALSE
