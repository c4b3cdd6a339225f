---------------------------- MODULE KernelClaims ----------------------------
(* What a comment says of the running kernel, and the code does not do.      *)
EXTENDS MCKernel

LoadSuspend == {"LoadR3", "Suspend"}

(* "guaranteed ready pcb at head" (sys_call.c:84, :136): when the hlt loop   *)
(* ends, the active ready queue is not empty.                                *)
GuaranteedReadyAtHead ==
  mode = "awake" /\ Completed /\ ~CheckFaults => CheckedQueues[0] # <<>>
=============================================================================
