--------------------------- MODULE RequestDevice ---------------------------
(* A port as the kernel sees it (the dcb of Kernel): requests are queued and *)
(* served in order, one byte at a time, and nothing is known of the bytes    *)
(* but whether one was a carriage return.                                    *)
EXTENDS IoQueue

CONSTANTS Pcb, MaxLen

VARIABLE dcb

Request   == \E p \in Pcb, op \in IoOp, n \in 1..MaxLen :
               dcb' = ScheduleIo(dcb, [pcb |-> p, op |-> op, size |-> n])
Completed == dcb.event /\ dcb' = NextIo(dcb)
Byte      == ~DeviceIdle(dcb) /\ \E cr \in BOOLEAN : dcb' = InputByte(dcb, cr)
Sent      == dcb.thri /\ ~DeviceIdle(dcb) /\ dcb' = OutputDone(dcb)

Init == dcb = OpenedDcb
Next == Request \/ Completed \/ Byte \/ Sent
Spec == Init /\ [][Next]_dcb
=============================================================================
