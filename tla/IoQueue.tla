------------------------------- MODULE IoQueue -------------------------------
(* One struct dcb of kernel/serial.c at the level of requests: the iocbs     *)
(* waiting on it, the progress of the first one, and the interrupt enables   *)
(* that drive it.  The bytes themselves are left out: a request is its size, *)
(* an input byte is a carriage return or not.                                *)
EXTENDS Integers, Sequences

IoOp == {"READ", "WRITE"}

(* ops    iocb_queue_head .. iocb_queue_tail                                 *)
(* event  the first request is complete and nobody has been told             *)
(* idx    buffer_idx, how many bytes of the first request are done           *)
(* thri   bit 1 of IER: the UART interrupts when it can take another byte    *)
DcbState(Pcb, MaxLen) ==
  [open  : BOOLEAN,
   ops   : Seq([pcb : Pcb, op : IoOp, size : 1..MaxLen]),
   event : BOOLEAN,
   idx   : 0..MaxLen,
   thri  : BOOLEAN]

(* serial_open on a port: no request, only input interrupts enabled. *)
OpenedDcb == [open |-> TRUE, ops |-> <<>>, event |-> FALSE, idx |-> 0, thri |-> FALSE]

(* Nothing is queued: the interrupt handlers would follow a NULL head. *)
DeviceIdle(d) == d.ops = <<>>
Doing(d, op)  == ~DeviceIdle(d) /\ Head(d.ops).op = op

(* Mutant: a request for a busy device replaces the ones already there. *)
ScheduleIo_Replaces(d, r) ==
  [d EXCEPT !.ops = <<r>>, !.idx = 0, !.thri = r.op = "WRITE"]

(* serial_schedule_io: start the request on an idle device (serial_read and *)
(* serial_write), or leave it behind the ones already there.                *)
ScheduleIo(d, r) ==
  IF DeviceIdle(d)
  THEN [d EXCEPT !.ops = <<r>>, !.idx = 0, !.thri = @ \/ r.op = "WRITE"]
  ELSE [d EXCEPT !.ops = Append(@, r)]

(* serial_check_io after an event: drop the finished request and start the  *)
(* next one.  Write interrupts are switched off only when a READ follows a  *)
(* WRITE; with no request left the enables stay as they are.                *)
NextIo(d) ==
  LET rest == Tail(d.ops)
  IN  IF rest = <<>>
      THEN [d EXCEPT !.ops = rest, !.event = FALSE]
      ELSE [d EXCEPT !.ops = rest, !.event = FALSE, !.idx = 0,
                     !.thri = \/ Head(rest).op = "WRITE"
                              \/ @ /\ Head(d.ops).op # "WRITE"]

(* Mutant: bytes are stored past the end of a complete READ. *)
InputByte_NoEventCheck(d, cr) ==
  IF Doing(d, "READ")
  THEN [d EXCEPT !.idx = @ + 1, !.event = cr \/ d.idx + 1 = Head(d.ops).size]
  ELSE d

(* serial_input_interrupt on a device with a request.  A byte for a READ     *)
(* goes to its buffer, and the READ is complete when the buffer is full or   *)
(* the byte is a carriage return.  Once complete, further bytes are lost; a  *)
(* byte that finds a WRITE goes to the ring buffer (SerialDriver).           *)
InputByte(d, cr) ==
  IF Doing(d, "READ") /\ ~d.event
  THEN [d EXCEPT !.idx = @ + 1, !.event = cr \/ d.idx + 1 = Head(d.ops).size]
  ELSE d

(* Mutants: the write interrupt stays enabled; the last byte is not awaited. *)
OutputDone_KeepsInterrupt(d) ==
  IF Doing(d, "WRITE") /\ ~d.event
  THEN [d EXCEPT !.idx = @ + 1, !.event = d.idx + 1 = Head(d.ops).size]
  ELSE d
OutputDone_Early(d) ==
  IF Doing(d, "WRITE") /\ ~d.event
  THEN LET last == d.idx + 2 >= Head(d.ops).size
       IN  [d EXCEPT !.idx = @ + 1, !.event = last, !.thri = @ /\ ~last]
  ELSE d

(* serial_output_interrupt: the byte before is on the wire. *)
OutputDone(d) ==
  IF Doing(d, "WRITE") /\ ~d.event
  THEN LET last == d.idx + 1 = Head(d.ops).size
       IN  [d EXCEPT !.idx = @ + 1, !.event = last, !.thri = @ /\ ~last]
  ELSE d

(* The request at the head, its progress, the event flag and the write       *)
(* interrupt agree with each other.                                          *)
DcbConsistent(d) ==
  /\ d.event => ~DeviceIdle(d)
  /\ d.thri <=> Doing(d, "WRITE") /\ ~d.event
  /\ ~DeviceIdle(d) /\ ~d.event => d.idx < Head(d.ops).size
  /\ d.event => /\ d.idx \in 1..Head(d.ops).size
                /\ Doing(d, "WRITE") => d.idx = Head(d.ops).size
=============================================================================
