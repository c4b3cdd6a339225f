------------------------------ MODULE MCKernel ------------------------------
(* Instances of the kernel for TLC: which names, commands and priorities. *)
EXTENDS KernelProperties

OneR3Name   == <<"proc1">>
OneTimer    == {"timer_0"}
TwoTimers   == {"timer_0", "timer_1"}
Writes      == {"WRITE"}
ReadsWrites == {"READ", "WRITE"}
Priorities  == {0, 5}

(* Commands that create processes, and move them between the queues. *)
DispatchCommands == {"LoadR3", "Alarm", "Suspend", "Resume"}

(* Commands that leave a pointer to a freed process behind.  Without Alarm,  *)
(* and with one loadR3, no freed PCB is used again.                          *)
FreeingCommands == {"LoadR3", "Suspend", "Resume", "Delete", "SetPriority", "Shutdown"}
=============================================================================
