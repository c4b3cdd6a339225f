-------------------------- MODULE SerialProperties --------------------------
(* What the driver of a port does with the bytes.                            *)
EXTENDS SerialDriver

Min2(a, b) == IF a < b THEN a ELSE b

(* The state of the driver stays within its types: the ring indices within   *)
(* the ring, buffer_idx within the longest buffer there may be.  That no byte *)
(* goes past the buffer of its own request is ReadsWhatWasTyped's.           *)
SerialTypeOK ==
  /\ \A k \in DOMAIN iocbs : /\ iocbs[k].pcb \in Pcb /\ iocbs[k].op \in {"READ", "WRITE"}
                             /\ iocbs[k].size \in 1..MaxLen
                             /\ iocbs[k].buf \in Text \cup {<<>>}
  /\ event \in BOOLEAN /\ thri \in BOOLEAN /\ buffer_idx \in 0..MaxLen
  /\ rbuffer \in [0..(RingSize - 1) -> Bytes]
  /\ {rbuffer_idx_begin, rbuffer_idx_end} \subseteq 0..(RingSize - 1)

(* What a WRITE at the head has given to the UART: one byte more than the    *)
(* UART has confirmed, until the last.                                       *)
GivenOut ==
  IF iocbs # <<>> /\ Head(iocbs).op = "WRITE"
  THEN SubSeq(Head(iocbs).buf, 1, Min2(buffer_idx + 1, Head(iocbs).size))
  ELSE <<>>

(* The bytes of the WRITEs reach the UART once each, request after request,  *)
(* however READs, typing and system calls fall in between: no byte is lost,  *)
(* repeated or overtaken when the driver goes from one request to the next.  *)
WireInOrder ==
  wire = FlattenSeq([i \in DOMAIN done |->
                       IF done[i].iocb.op = "WRITE" THEN done[i].iocb.buf ELSE <<>>])
         \o GivenOut

(* What a READ of n bytes should hold after text was typed. *)
Line(text, n) ==
  SubSeq(text, 1, Min({i \in DOMAIN text : text[i] = CR} \cup {n, Len(text)}))

(* A READ holds exactly what was typed from its start, to the first carriage *)
(* return or the end of its buffer, whatever was typed before its start or   *)
(* between its end and the system call that notices it.                      *)
ReadsWhatWasTyped ==
  /\ iocbs # <<>> /\ Head(iocbs).op = "READ"
       => Head(iocbs).buf = Line(heard, Head(iocbs).size)
  /\ \A i \in DOMAIN done :
       LET r == done[i].iocb
       IN  r.op = "READ" => /\ r.buf = Line(done[i].typed, r.size)
                            /\ Len(r.buf) = r.size \/ Last(r.buf) = CR

(* Without its bytes the driver is the device the kernel model composes      *)
(* with: every system call and interrupt is a step of RequestDevice.         *)
Kind(r)     == [pcb |-> r.pcb, op |-> r.op, size |-> r.size]
Stripped(q) == [k \in 1..Len(q) |-> Kind(q[k])]
Dcb    == [open |-> TRUE, ops |-> Stripped(iocbs), event |-> event,
           idx |-> buffer_idx, thri |-> thri]
Device == INSTANCE RequestDevice WITH dcb <- Dcb
ImplementsDevice == Device!Spec

(* "store input byte in ring buffer for next READ request to initially copy" *)
(* (serial.c:698): a READ that follows a WRITE during which something was    *)
(* typed does not start empty.                                               *)
TypeAheadKept ==
  /\ iocbs # <<>> /\ Head(iocbs).op = "READ"
  /\ done # <<>> /\ Last(done).iocb.op = "WRITE" /\ Last(done).typed # <<>>
  => Head(iocbs).buf # <<>>
=============================================================================
