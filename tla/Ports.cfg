SPECIFICATION Spec
CONSTANTS
  COM1 = com1
  COM2 = com2
  COM3 = com3
  COM4 = com4
  Ports = {com1, com2, com3, com4}
INVARIANTS PortsTypeOK NoStrayInterrupt OpenIsHeard ForgottenOnlyTogether ClosedStaysQuiet
CHECK_DEADLOCK FALSE
