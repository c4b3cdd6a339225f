---------------------------- MODULE SerialDriver ----------------------------
(* The driver of one open port, kernel/serial.c, with the bytes it moves:    *)
(* the queue of iocbs and their buffers, the ring buffer for what is typed   *)
(* ahead, and the UART it writes to.  System calls and interrupt handlers    *)
(* exclude each other (both run with interrupts off), so each is a step.     *)
EXTENDS Integers, Sequences, SequencesExt

CONSTANTS
  Pcb,          \* who makes requests
  Bytes, CR,    \* the bytes that are told apart, the carriage return
  MaxLen,       \* bound: the longest buffer
  RingSize,     \* SERIAL_RBUFFER_SIZE
  MaxRequests,  \* bound: requests in a behaviour
  MaxTyped      \* bound: bytes typed in a behaviour

ASSUME SerialAssumption ==
  /\ CR \in Bytes /\ MaxLen \in Nat \ {0} /\ RingSize \in Nat \ {0}
  /\ MaxRequests \in Nat /\ MaxTyped \in Nat

(* A request; buf is what is to be written, or what was read so far. *)
Text    == UNION {[1..n -> Bytes] : n \in 1..MaxLen}
Writes  == [pcb : Pcb, op : {"WRITE"}, size : 1..MaxLen, buf : Text]
Reads   == [pcb : Pcb, op : {"READ"}, size : 1..MaxLen, buf : {<<>>}]
Request == {r \in Writes : r.size = Len(r.buf)} \cup Reads

VARIABLES
  iocbs,       \* iocb_queue_head .. iocb_queue_tail
  event, buffer_idx, rbuffer, rbuffer_idx_begin, rbuffer_idx_end,
  thri,        \* bit 1 of IER: the UART interrupts when a byte is sent
  wire,        \* the bytes given to the UART
  done,        \* the completed requests, with what was typed during a READ
  heard,       \* what was typed since the first request started
  typed        \* how much was typed

ring  == <<rbuffer, rbuffer_idx_begin, rbuffer_idx_end>>
vars  == <<iocbs, event, buffer_idx, ring, thri, wire, done, heard, typed>>

(* serial_open. *)
Init ==
  /\ iocbs = <<>> /\ event = FALSE /\ buffer_idx = 0 /\ thri = FALSE
  /\ rbuffer = [i \in 0..(RingSize - 1) |-> CR]
  /\ rbuffer_idx_begin = 0 /\ rbuffer_idx_end = 0
  /\ wire = <<>> /\ done = <<>> /\ heard = <<>> /\ typed = 0
-----------------------------------------------------------------------------
Wrap(i) == (i + 1) % RingSize

(* What a READ of n bytes copies from the ring buffer before it waits: the   *)
(* bytes from begin up to end, if begin is the smaller index, to a carriage  *)
(* return or the end of the buffer.                                          *)
FromRing(n) ==
  LET kept == IF rbuffer_idx_begin < rbuffer_idx_end
              THEN [i \in 1..(rbuffer_idx_end - rbuffer_idx_begin) |->
                      rbuffer[rbuffer_idx_begin + i - 1]]
              ELSE <<>>
      crs  == {i \in DOMAIN kept : kept[i] = CR}
  IN  SubSeq(kept, 1, Min(crs \cup {n, Len(kept)}))

(* The initial steps of the first request of queue, with the interrupt       *)
(* enables ier.  A READ that the ring buffer completes sets no event.        *)
Start(queue, ier) ==
  /\ heard' = <<>>
  /\ \/ /\ Head(queue).op = "READ"
        /\ LET copied == FromRing(Head(queue).size)
           IN  /\ iocbs' = [queue EXCEPT ![1].buf = copied]
               /\ buffer_idx' = Len(copied)
               /\ rbuffer_idx_begin' = (rbuffer_idx_begin + Len(copied)) % RingSize
        /\ thri' = ier
        /\ UNCHANGED <<rbuffer, rbuffer_idx_end, wire>>
     \/ /\ Head(queue).op = "WRITE"
        /\ iocbs' = queue /\ buffer_idx' = 0 /\ thri' = TRUE
        /\ wire' = Append(wire, Head(queue).buf[1])
        /\ UNCHANGED ring

(* serial_schedule_io of a system call, which serial_read and serial_write   *)
(* carry out on an idle port.                                                *)
Schedule(r) ==
  /\ ~event                                   \* the system call has checked
  /\ \A k \in DOMAIN iocbs : iocbs[k].pcb # r.pcb  \* a process waits for its own
  /\ Len(done) + Len(iocbs) < MaxRequests
  /\ \/ iocbs = <<>> /\ Start(<<r>>, thri)
     \/ /\ iocbs # <<>> /\ iocbs' = Append(iocbs, r)
        /\ UNCHANGED <<buffer_idx, ring, thri, wire, heard>>
  /\ UNCHANGED <<event, done, typed>>

(* serial_check_io: the first request is complete, go on to the next one.    *)
CheckIo ==
  LET rest == Tail(iocbs)
  IN  /\ event
      /\ event' = FALSE
      /\ done' = Append(done, [iocb |-> Head(iocbs), typed |-> heard])
      /\ \/ /\ rest = <<>> /\ iocbs' = rest /\ heard' = <<>>
            /\ UNCHANGED <<buffer_idx, ring, thri, wire>>
         \/ /\ rest # <<>>
            /\ Start(rest, thri /\ ~(Head(iocbs).op = "WRITE" /\ Head(rest).op # "WRITE"))
      /\ UNCHANGED typed

(* Mutant: begin stays when the ring buffer is empty. *)
KeepByte_KeepsBegin(b) ==
  /\ rbuffer' = [rbuffer EXCEPT ![rbuffer_idx_end] = b]
  /\ rbuffer_idx_end' = Wrap(rbuffer_idx_end)
  /\ UNCHANGED <<iocbs, buffer_idx, event, rbuffer_idx_begin>>

(* Into the ring buffer; begin moves on whenever it meets end, full or empty. *)
KeepByte(b) ==
  /\ rbuffer' = [rbuffer EXCEPT ![rbuffer_idx_end] = b]
  /\ rbuffer_idx_begin' = IF rbuffer_idx_end = rbuffer_idx_begin
                          THEN Wrap(rbuffer_idx_begin) ELSE rbuffer_idx_begin
  /\ rbuffer_idx_end' = Wrap(rbuffer_idx_end)
  /\ UNCHANGED <<iocbs, buffer_idx, event>>

(* Mutant: a carriage return does not end a READ. *)
StoreByte_IgnoresReturn(b) ==
  /\ iocbs' = [iocbs EXCEPT ![1].buf = Append(@, b)]
  /\ buffer_idx' = buffer_idx + 1
  /\ event' = (buffer_idx + 1 = Head(iocbs).size)
  /\ UNCHANGED ring

(* Into the buffer of the READ, which ends with it when the buffer is full   *)
(* or the byte is a carriage return.                                         *)
StoreByte(b) ==
  /\ iocbs' = [iocbs EXCEPT ![1].buf = Append(@, b)]
  /\ buffer_idx' = buffer_idx + 1
  /\ event' = (buffer_idx + 1 = Head(iocbs).size \/ b = CR)
  /\ UNCHANGED ring

(* Mutant: a READ takes bytes after its end. *)
Accepts_AfterEnd == Head(iocbs).op = "READ"
(* The READ at the head takes a byte. *)
Accepts == Head(iocbs).op = "READ" /\ ~event

(* serial_input_interrupt, on a port with a request (Kernel has the other    *)
(* case).  After the end of a READ a byte is dropped.                        *)
InputIrq(b) ==
  /\ iocbs # <<>> /\ typed < MaxTyped
  /\ typed' = typed + 1 /\ heard' = Append(heard, b)
  /\ \/ Head(iocbs).op # "READ" /\ KeepByte(b)
     \/ Accepts /\ StoreByte(b)
     \/ Head(iocbs).op = "READ" /\ ~Accepts /\ UNCHANGED <<iocbs, buffer_idx, event, ring>>
  /\ UNCHANGED <<thri, wire, done>>

(* Mutant: the byte just sent is sent again. *)
NextOut_Again(i) == i + 1
(* The byte to send once i + 1 bytes are sent. *)
NextOut(i) == i + 2

(* serial_output_interrupt: the last byte given to the UART is sent. *)
OutputIrq ==
  /\ thri /\ iocbs # <<>> /\ Head(iocbs).op = "WRITE" /\ ~event
  /\ buffer_idx' = buffer_idx + 1
  /\ \/ /\ buffer_idx + 1 = Head(iocbs).size
        /\ event' = TRUE /\ thri' = FALSE /\ UNCHANGED wire
     \/ /\ buffer_idx + 1 # Head(iocbs).size
        /\ wire' = Append(wire, Head(iocbs).buf[NextOut(buffer_idx)])
        /\ UNCHANGED <<event, thri>>
  /\ UNCHANGED <<iocbs, ring, done, heard, typed>>

Next ==
  \/ \E r \in Request : Schedule(r)
  \/ CheckIo
  \/ \E b \in Bytes : InputIrq(b)
  \/ OutputIrq

Spec == Init /\ [][Next]_vars
=============================================================================
