SPECIFICATION ShowSpec
CONSTANTS
  Pcb = {comhand, idle, p1, p2}
  ComhandPcb = comhand
  IdlePcb = idle
  NoPcb = nopcb
  R3Names <- OneName
  TimerNames <- OneTimer
  Commands <- Typed
  UserOps <- ReadWrite
  PriChoices <- OnePri
  MaxLen = 1
  MaxLoads = 1
  AnyInput = FALSE
  ShowCommands <- AllShows
  Writes = 2
INVARIANT ReadyAllShown
CHECK_DEADLOCK FALSE
