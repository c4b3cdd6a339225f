---------------------------- MODULE SerialProofs ----------------------------
(* For any number of processes, requests and bytes, and any size of buffers  *)
(* and ring: the ring buffer of serial.c is never seen with a byte in it,    *)
(* and therefore the driver of a port is the device the kernel composes with; *)
(* and the bytes that are written and read are the right ones, in order.      *)
EXTENDS SerialProperties, SequenceTheorems, WellFoundedInduction, TLAPS

Iocb == [pcb : Pcb, op : {"READ", "WRITE"}, size : 1..MaxLen, buf : Seq(Bytes)]

(* The ring buffer looks empty, whatever has been stored in it. *)
RingEmpty ==
  /\ rbuffer_idx_begin = rbuffer_idx_end
  /\ rbuffer_idx_end \in 0..(RingSize - 1)

(* The iocbs are iocbs, the flags of the port flags; a completed one is there. *)
SerialInv ==
  /\ iocbs \in Seq(Iocb)
  /\ event \in BOOLEAN /\ thri \in BOOLEAN
  /\ event => iocbs # <<>>
  /\ RingEmpty

-----------------------------------------------------------------------------
(* What a READ of n bytes finds in an empty ring: nothing. *)
LEMMA NothingInRing ==
  ASSUME RingEmpty, NEW n \in 1..MaxLen
  PROVE  FromRing(n) = <<>>
<1> DEFINE S == {} \cup {n, Len(<<>>)}
<1>1. ~(rbuffer_idx_begin < rbuffer_idx_end)  BY DEF RingEmpty
<1>2. {i \in DOMAIN <<>> : <<>>[i] = CR} = {}  OBVIOUS
<1>3. S = {n, 0}  OBVIOUS
<1>4. Min({n, 0}) = 0
  BY SMT DEF Min
<1> HIDE DEF S
<1>5. FromRing(n) = SubSeq(<<>>, 1, Min(S))
  BY <1>1, <1>2 DEF FromRing, S
<1> QED BY <1>3, <1>4, <1>5

(* An index of the ring that stays, and one that moves on. *)
LEMMA RingIndex ==
  ASSUME NEW i \in 0..(RingSize - 1)
  PROVE  (i + 0) % RingSize = i /\ Wrap(i) \in 0..(RingSize - 1)
BY SerialAssumption DEF Wrap

-----------------------------------------------------------------------------
(* What the requests are without their buffers, operation by operation. *)
Keys == [pcb : Pcb, op : {"READ", "WRITE"}, size : 1..MaxLen]

LEMMA StrippedQueue ==
  ASSUME NEW q \in Seq(Iocb)
  PROVE  /\ Stripped(q) \in Seq(Keys) /\ Len(Stripped(q)) = Len(q)
         /\ Stripped(q) = <<>> <=> q = <<>>
         /\ q # <<>> => Head(Stripped(q)) = Kind(Head(q)) /\ Head(q) \in Iocb
<1>1. Len(q) \in Nat /\ \A k \in 1..Len(q) : q[k] \in Iocb
  BY LenProperties, ElementOfSeq
<1>2. Stripped(q) \in Seq(Keys) /\ Len(Stripped(q)) = Len(q)
  <2>1. \A k \in 1..Len(q) : Kind(q[k]) \in Keys  BY <1>1 DEF Kind, Keys, Iocb
  <2>2. Stripped(q) \in [1..Len(q) -> Keys]  BY <2>1 DEF Stripped
  <2> QED BY <1>1, <2>2, SeqDef, LenProperties
<1>3. Stripped(q) = <<>> <=> q = <<>>  BY <1>1, <1>2, EmptySeq
<1>4. ASSUME q # <<>> PROVE Head(Stripped(q)) = Kind(Head(q)) /\ Head(q) \in Iocb
  <2>1. 1 \in 1..Len(q) /\ Stripped(q) # <<>>  BY <1>1, <1>3, <1>4, EmptySeq
  <2>2. Head(q) = q[1] /\ Head(Stripped(q)) = Stripped(q)[1]
    BY <1>2, <1>4, <2>1, HeadTailProperties
  <2> QED BY <1>1, <2>1, <2>2 DEF Stripped
<1> QED BY <1>2, <1>3, <1>4

LEMMA StrippedAppend ==
  ASSUME NEW q \in Seq(Iocb), NEW r \in Iocb
  PROVE  /\ Append(q, r) \in Seq(Iocb)
         /\ Stripped(Append(q, r)) = Append(Stripped(q), Kind(r))
<1>1. /\ Append(q, r) \in Seq(Iocb) /\ Len(Append(q, r)) = Len(q) + 1
      /\ Append(q, r)[Len(q) + 1] = r
      /\ \A k \in 1..Len(q) : Append(q, r)[k] = q[k]
  BY AppendProperties
<1>2. Len(q) \in Nat  BY LenProperties
<1>3. Stripped(q) \in Seq(Keys) /\ Len(Stripped(q)) = Len(q)  BY StrippedQueue
<1>4. Kind(r) \in Keys  BY DEF Kind, Keys, Iocb
<1> DEFINE A == Append(Stripped(q), Kind(r))
           B == Stripped(Append(q, r))
<1>5. /\ A \in Seq(Keys) /\ Len(A) = Len(q) + 1 /\ A[Len(q) + 1] = Kind(r)
      /\ \A k \in 1..Len(q) : A[k] = Kind(q[k])
  BY <1>3, <1>4, AppendProperties DEF Stripped
<1>6. B \in Seq(Keys) /\ Len(B) = Len(q) + 1  BY <1>1, StrippedQueue
<1>7. \A k \in 1..Len(B) : B[k] = A[k]
  BY <1>1, <1>2, <1>5, <1>6 DEF Stripped
<1> HIDE DEF A, B
<1>8. A = B  BY <1>5, <1>6, <1>7, SeqEqual
<1> QED BY <1>1, <1>8 DEF A, B

LEMMA StrippedTail ==
  ASSUME NEW q \in Seq(Iocb), q # <<>>
  PROVE  /\ Tail(q) \in Seq(Iocb)
         /\ Stripped(Tail(q)) = Tail(Stripped(q))
<1>1. /\ Tail(q) \in Seq(Iocb) /\ Len(Tail(q)) = Len(q) - 1 /\ Len(q) \in Nat \ {0}
      /\ \A k \in 1..Len(Tail(q)) : Tail(q)[k] = q[k + 1]
  BY HeadTailProperties, LenProperties, EmptySeq
<1>2. Stripped(q) \in Seq(Keys) /\ Len(Stripped(q)) = Len(q) /\ Stripped(q) # <<>>
  BY StrippedQueue
<1> DEFINE A == Tail(Stripped(q))
           B == Stripped(Tail(q))
<1>3. /\ A \in Seq(Keys) /\ Len(A) = Len(q) - 1
      /\ \A k \in 1..Len(A) : A[k] = Stripped(q)[k + 1]
  BY <1>2, HeadTailProperties
<1>4. B \in Seq(Keys) /\ Len(B) = Len(q) - 1  BY <1>1, StrippedQueue
<1>5. \A k \in 1..Len(B) : B[k] = A[k]
  BY <1>1, <1>3, <1>4 DEF Stripped
<1> HIDE DEF A, B
<1>6. A = B  BY <1>3, <1>4, <1>5, SeqEqual
<1> QED BY <1>1, <1>6 DEF A, B

LEMMA StrippedBuf ==
  ASSUME NEW q \in Seq(Iocb), q # <<>>, NEW b \in Seq(Bytes)
  PROVE  LET r == [q EXCEPT ![1].buf = b]
         IN  r \in Seq(Iocb) /\ Stripped(r) = Stripped(q)
<1> DEFINE r == [q EXCEPT ![1].buf = b]
<1>1. /\ Len(q) \in Nat /\ 1 \in 1..Len(q) /\ q \in [1..Len(q) -> Iocb]
  BY LenProperties, EmptySeq
<1>2. [q[1] EXCEPT !.buf = b] \in Iocb /\ Kind([q[1] EXCEPT !.buf = b]) = Kind(q[1])
  <2>1. q[1] \in Iocb  BY <1>1
  <2> QED BY <2>1 DEF Iocb, Kind
<1>3. /\ r \in [1..Len(q) -> Iocb]
      /\ \A k \in 1..Len(q) : Kind(r[k]) = Kind(q[k])
  BY <1>1, <1>2
<1>4. r \in Seq(Iocb) /\ Len(r) = Len(q)  BY <1>1, <1>3, SeqDef, LenProperties
<1> HIDE DEF r
<1>5. Stripped(r) = Stripped(q)  BY <1>3, <1>4 DEF Stripped
<1> QED BY <1>4, <1>5 DEF r

-----------------------------------------------------------------------------
(* The first request of a queue is started with nothing done, whether it is  *)
(* a READ, for which the ring holds nothing, or a WRITE.                     *)
LEMMA StartDone ==
  ASSUME RingEmpty, NEW q \in Seq(Iocb), q # <<>>, NEW ier \in BOOLEAN, Start(q, ier)
  PROVE  /\ iocbs' \in Seq(Iocb) /\ Stripped(iocbs') = Stripped(q)
         /\ buffer_idx' = 0 /\ thri' = (ier \/ Head(q).op = "WRITE")
         /\ RingEmpty'
<1>1. Head(q) \in Iocb  BY StrippedQueue
<1>2. CASE Head(q).op = "READ"
  <2> DEFINE copied == FromRing(Head(q).size)
  <2>1. copied = <<>>  BY <1>1, NothingInRing DEF Iocb
  <2>2. /\ iocbs' = [q EXCEPT ![1].buf = <<>>] /\ buffer_idx' = Len(<<>>)
        /\ rbuffer_idx_begin' = (rbuffer_idx_begin + Len(<<>>)) % RingSize
        /\ thri' = ier /\ rbuffer_idx_end' = rbuffer_idx_end
    BY <1>2, <2>1 DEF Start
  <2>3. Len(<<>>) = 0 /\ <<>> \in Seq(Bytes)  OBVIOUS
  <2>4. iocbs' \in Seq(Iocb) /\ Stripped(iocbs') = Stripped(q)
    BY <2>2, <2>3, StrippedBuf
  <2>5. RingEmpty'  BY <2>2, <2>3, RingIndex DEF RingEmpty
  <2> QED BY <1>2, <2>2, <2>3, <2>4, <2>5
<1>3. CASE Head(q).op = "WRITE"
  BY <1>3 DEF Start, ring, RingEmpty
<1> QED BY <1>1, <1>2, <1>3 DEF Iocb

(* What Init and each step are to the invariant and to the device. *)
LEMMA InitSerial == Init => SerialInv /\ Device!Init
<1> SUFFICES ASSUME Init PROVE SerialInv /\ Device!Init
  OBVIOUS
<1>1. iocbs = <<>> /\ Stripped(iocbs) = <<>> /\ iocbs \in Seq(Iocb)
  <2>1. <<>> \in Seq(Iocb)  OBVIOUS
  <2> QED BY <2>1, StrippedQueue DEF Init
<1>2. RingEmpty  BY SerialAssumption DEF Init, RingEmpty
<1> QED BY <1>1, <1>2 DEF Init, SerialInv, Device!Init, Device!OpenedDcb, Dcb

(* A request as Schedule takes it is an iocb. *)
LEMMA RequestIsIocb == Request \subseteq Iocb
<1>1. Text \subseteq Seq(Bytes)  BY SerialAssumption, SeqDef DEF Text
<1>2. <<>> \in Seq(Bytes)  OBVIOUS
<1> QED BY <1>1, <1>2 DEF Request, Writes, Reads, Iocb

LEMMA ScheduleSteps ==
  ASSUME SerialInv, NEW r \in Request, Schedule(r)
  PROVE  SerialInv' /\ Device!Request
<1>1. r \in Iocb  BY RequestIsIocb
<1>2. Kind(r) \in Keys  BY <1>1 DEF Kind, Keys, Iocb
<1>3. event = FALSE /\ event' = event  BY DEF Schedule, SerialInv
<1>4. Dcb' = Device!ScheduleIo(Dcb, Kind(r)) /\ SerialInv'
  <2>1. CASE iocbs = <<>>
    <3> DEFINE q == <<r>>
    <3>1. q \in Seq(Iocb) /\ q # <<>> /\ Head(q) = r /\ Stripped(q) = <<Kind(r)>>
      <4>1. q \in Seq(Iocb) /\ q # <<>> /\ Head(q) = r /\ Len(q) = 1 /\ q[1] = r
        BY <1>1
      <4> HIDE DEF q
      <4>2. Stripped(q) = [k \in 1..1 |-> Kind(r)]  BY <4>1 DEF Stripped
      <4>3. [k \in 1..1 |-> Kind(r)] = <<Kind(r)>>  OBVIOUS
      <4> QED BY <4>1, <4>2, <4>3
    <3>2. Start(q, thri)  BY <2>1 DEF Schedule
    <3> HIDE DEF q
    <3>3. /\ iocbs' \in Seq(Iocb) /\ Stripped(iocbs') = <<Kind(r)>> /\ buffer_idx' = 0
          /\ thri' = (thri \/ r.op = "WRITE") /\ RingEmpty'
      BY <3>1, <3>2, StartDone DEF SerialInv
    <3>4. SerialInv'  BY <1>3, <3>3 DEF SerialInv
    <3>5. Stripped(iocbs) = <<>>  BY <2>1, StrippedQueue DEF SerialInv
    <3>6. Kind(r).op = r.op  BY DEF Kind
    <3> QED BY <1>3, <3>3, <3>4, <3>5, <3>6 DEF Dcb, Device!ScheduleIo, Device!DeviceIdle
  <2>2. CASE iocbs # <<>>
    <3>1. /\ iocbs' = Append(iocbs, r) /\ UNCHANGED <<buffer_idx, ring, thri>>
      BY <2>2 DEF Schedule
    <3>2. iocbs' \in Seq(Iocb) /\ Stripped(iocbs') = Append(Stripped(iocbs), Kind(r))
      BY <1>1, <3>1, StrippedAppend DEF SerialInv
    <3>3. Stripped(iocbs) # <<>>  BY <2>2, StrippedQueue DEF SerialInv
    <3>4. SerialInv'  BY <1>3, <3>1, <3>2 DEF SerialInv, RingEmpty, ring
    <3> QED BY <1>3, <3>1, <3>2, <3>3, <3>4 DEF Dcb, Device!ScheduleIo, Device!DeviceIdle
  <2> QED BY <2>1, <2>2
<1> QED BY <1>1, <1>4 DEF Device!Request, Device!IoOp, Kind, Iocb

LEMMA CheckSteps ==
  ASSUME SerialInv, CheckIo
  PROVE  SerialInv' /\ Device!Completed
<1> DEFINE rest == Tail(iocbs)
<1>1. /\ iocbs \in Seq(Iocb) /\ iocbs # <<>> /\ event = TRUE /\ event' = FALSE
      /\ thri \in BOOLEAN /\ RingEmpty
  BY DEF CheckIo, SerialInv
<1>2. rest \in Seq(Iocb) /\ Stripped(rest) = Tail(Stripped(iocbs))
  BY <1>1, StrippedTail
<1>3. Stripped(iocbs) # <<>> /\ Head(Stripped(iocbs)).op = Head(iocbs).op
  BY <1>1, StrippedQueue DEF Kind
<1>4. SerialInv' /\ Dcb' = Device!NextIo(Dcb)
  <2>1. CASE rest = <<>>
    <3>1. iocbs' = rest /\ UNCHANGED <<buffer_idx, ring, thri>>
      BY <2>1 DEF CheckIo
    <3>2. Stripped(rest) = <<>>  BY <1>2, <2>1, StrippedQueue
    <3>3. SerialInv'  BY <1>1, <1>2, <3>1 DEF SerialInv, RingEmpty, ring
    <3> HIDE DEF rest
    <3> QED BY <1>1, <1>2, <3>1, <3>2, <3>3 DEF Dcb, Device!NextIo
  <2>2. CASE rest # <<>>
    <3> DEFINE ier == thri /\ ~(Head(iocbs).op = "WRITE" /\ Head(rest).op # "WRITE")
    <3>1. Start(rest, ier)  BY <2>2 DEF CheckIo
    <3>2. ier \in BOOLEAN  OBVIOUS
    <3>3. ier \/ Head(rest).op = "WRITE"
            <=> Head(rest).op = "WRITE" \/ (thri /\ Head(iocbs).op # "WRITE")
      OBVIOUS
    <3> HIDE DEF rest, ier
    <3>4. Stripped(rest) # <<>> /\ Head(Stripped(rest)).op = Head(rest).op
      <4>1. rest \in Seq(Iocb) /\ rest # <<>>  BY <1>2, <2>2
      <4>2. Stripped(rest) # <<>> /\ Head(Stripped(rest)) = Kind(Head(rest))
        BY <4>1, StrippedQueue
      <4> QED BY <4>2 DEF Kind
    <3>5. /\ iocbs' \in Seq(Iocb) /\ Stripped(iocbs') = Stripped(rest)
          /\ buffer_idx' = 0 /\ thri' = (ier \/ Head(rest).op = "WRITE") /\ RingEmpty'
      BY <1>1, <1>2, <2>2, <3>1, <3>2, StartDone
    <3>6. SerialInv'  BY <1>1, <3>2, <3>5 DEF SerialInv
    <3>7. thri' = (Head(rest).op = "WRITE" \/ (thri /\ Head(iocbs).op # "WRITE"))
      BY <3>3, <3>5
    <3> QED BY <1>1, <1>2, <1>3, <3>4, <3>5, <3>6, <3>7 DEF Dcb, Device!NextIo
  <2> QED BY <2>1, <2>2
<1> QED BY <1>1, <1>4 DEF Device!Completed, Dcb

LEMMA InputSteps ==
  ASSUME SerialInv, NEW b \in Bytes, InputIrq(b)
  PROVE  SerialInv' /\ Device!Byte
<1> DEFINE cr == b = CR
<1>1. /\ iocbs \in Seq(Iocb) /\ iocbs # <<>> /\ event \in BOOLEAN /\ thri \in BOOLEAN
      /\ RingEmpty /\ thri' = thri
  BY DEF InputIrq, SerialInv
<1>2. /\ Stripped(iocbs) # <<>> /\ Head(iocbs) \in Iocb
      /\ Head(Stripped(iocbs)).op = Head(iocbs).op
      /\ Head(Stripped(iocbs)).size = Head(iocbs).size
  BY <1>1, StrippedQueue DEF Kind
<1>3. SerialInv' /\ Dcb' = Device!InputByte(Dcb, cr)
  <2>1. CASE Head(iocbs).op # "READ" /\ KeepByte(b)
    <3>1. UNCHANGED <<iocbs, buffer_idx, event, thri>>  BY <1>1, <2>1 DEF KeepByte
    <3>2. RingEmpty'
      BY <1>1, <2>1, RingIndex DEF KeepByte, RingEmpty
    <3>3. SerialInv'  BY <1>1, <3>1, <3>2 DEF SerialInv
    <3>4. Dcb' = Dcb  BY <3>1 DEF Dcb
    <3> QED BY <1>2, <2>1, <3>3, <3>4
          DEF Dcb, Device!InputByte, Device!Doing, Device!DeviceIdle
  <2>2. CASE Head(iocbs).op = "READ" /\ ~event /\ StoreByte(b)
    <3>1. /\ iocbs' = [iocbs EXCEPT ![1].buf = Append(@, b)]
          /\ buffer_idx' = buffer_idx + 1
          /\ event' = (buffer_idx + 1 = Head(iocbs).size \/ b = CR) /\ UNCHANGED ring
      BY <2>2 DEF StoreByte
    <3>2. iocbs[1].buf \in Seq(Bytes)
      <4>1. 1 \in 1..Len(iocbs)  BY <1>1, EmptySeq
      <4>2. iocbs[1] \in Iocb  BY <1>1, <4>1, ElementOfSeq
      <4> QED BY <4>2 DEF Iocb
    <3>3. Append(iocbs[1].buf, b) \in Seq(Bytes)  BY <3>2, AppendProperties
    <3>4. iocbs' = [iocbs EXCEPT ![1].buf = Append(iocbs[1].buf, b)]  BY <3>1
    <3>5. iocbs' \in Seq(Iocb) /\ Stripped(iocbs') = Stripped(iocbs)
      BY <1>1, <3>3, <3>4, StrippedBuf
    <3>6. iocbs' # <<>>  BY <1>2, <3>5, StrippedQueue
    <3>7. RingEmpty'  BY <1>1, <3>1 DEF RingEmpty, ring
    <3>8. SerialInv'  BY <1>1, <3>1, <3>5, <3>6, <3>7 DEF SerialInv
    <3>9. event' = (cr \/ buffer_idx + 1 = Head(iocbs).size)  BY <3>1
    <3> QED BY <1>1, <1>2, <2>2, <3>1, <3>5, <3>8, <3>9
          DEF Dcb, Device!InputByte, Device!Doing, Device!DeviceIdle
  <2>3. CASE Head(iocbs).op = "READ" /\ event /\ UNCHANGED <<iocbs, buffer_idx, event, ring>>
    <3>1. SerialInv'  BY <1>1, <2>3 DEF SerialInv, RingEmpty, ring
    <3>2. Dcb' = Dcb  BY <1>1, <2>3 DEF Dcb
    <3> QED BY <1>2, <2>3, <3>1, <3>2
          DEF Dcb, Device!InputByte, Device!Doing, Device!DeviceIdle
  <2> QED BY <2>1, <2>2, <2>3 DEF InputIrq, Accepts
<1> QED BY <1>2, <1>3 DEF Device!Byte, Device!DeviceIdle, Dcb

LEMMA OutputSteps ==
  ASSUME SerialInv, OutputIrq
  PROVE  SerialInv' /\ Device!Sent
<1>1. /\ iocbs \in Seq(Iocb) /\ iocbs # <<>> /\ event = FALSE /\ thri = TRUE
      /\ RingEmpty /\ UNCHANGED <<iocbs, ring>> /\ buffer_idx' = buffer_idx + 1
      /\ Head(iocbs).op = "WRITE"
  BY DEF OutputIrq, SerialInv
<1>2. /\ Stripped(iocbs) # <<>>
      /\ Head(Stripped(iocbs)).op = Head(iocbs).op
      /\ Head(Stripped(iocbs)).size = Head(iocbs).size
  BY <1>1, StrippedQueue DEF Kind
<1> DEFINE last == buffer_idx + 1 = Head(iocbs).size
<1>3. event' = last /\ thri' = (thri /\ ~last)
  BY <1>1 DEF OutputIrq
<1>4. SerialInv'  BY <1>1, <1>3 DEF SerialInv, RingEmpty, ring
<1>5. Dcb' = Device!OutputDone(Dcb)
  BY <1>1, <1>2, <1>3 DEF Dcb, Device!OutputDone, Device!Doing, Device!DeviceIdle
<1> QED BY <1>1, <1>2, <1>4, <1>5 DEF Device!Sent, Device!DeviceIdle, Dcb

LEMMA NextSerial ==
  SerialInv /\ [Next]_vars => SerialInv' /\ [Device!Next]_Dcb
<1> SUFFICES ASSUME SerialInv, [Next]_vars PROVE SerialInv' /\ [Device!Next]_Dcb
  OBVIOUS
<1>1. ASSUME NEW r \in Request, Schedule(r) PROVE SerialInv' /\ Device!Next
  BY <1>1, ScheduleSteps DEF Device!Next
<1>2. CASE CheckIo  BY <1>2, CheckSteps DEF Device!Next
<1>3. ASSUME NEW b \in Bytes, InputIrq(b) PROVE SerialInv' /\ Device!Next
  BY <1>3, InputSteps DEF Device!Next
<1>4. CASE OutputIrq  BY <1>4, OutputSteps DEF Device!Next
<1>5. CASE UNCHANGED vars
  <2>1. UNCHANGED <<iocbs, event, buffer_idx, ring, thri>>  BY <1>5 DEF vars
  <2> QED BY <2>1 DEF SerialInv, RingEmpty, ring, Dcb
<1> QED BY <1>1, <1>2, <1>3, <1>4, <1>5 DEF Next

-----------------------------------------------------------------------------
(* The two indices of the ring buffer never differ, so that a READ, which    *)
(* copies the bytes between them, starts empty whatever was typed before it. *)
THEOREM RingStaysEmpty == Spec => []RingEmpty
<1>1. SerialInv => RingEmpty  BY DEF SerialInv
<1> QED BY <1>1, InitSerial, NextSerial, PTL DEF Spec

(* The driver, byte by byte, implements the device the kernel model composes *)
(* with: a request is served once, in order, and ends with its event.        *)
THEOREM DriverIsDevice == Spec => ImplementsDevice
<1>1. Init /\ [][Next]_vars => Device!Init /\ [][Device!Next]_Dcb
  BY InitSerial, NextSerial, PTL
<1> QED BY <1>1 DEF Spec, ImplementsDevice, Device!Spec

-----------------------------------------------------------------------------
(* The bytes. *)
(* A READ of n bytes goes on after text, and ends with the m-th byte of it.  *)
Unended(text, n) == Len(text) < n /\ \A i \in 1..Len(text) : text[i] # CR
EndsAt(text, n, m) ==
  /\ m <= n /\ (m = n \/ text[m] = CR)
  /\ \A i \in 1..(m - 1) : text[i] # CR
Ended(buf, text, n) ==
  \E m \in 1..Len(text) : EndsAt(text, n, m) /\ buf = SubSeq(text, 1, m)

(* Requests that wait are as they were made. *)
Untouched ==
  \A k \in 1..Len(iocbs) :
    IF iocbs[k].op = "WRITE" THEN Len(iocbs[k].buf) = iocbs[k].size
    ELSE k > 1 => iocbs[k].buf = <<>>

(* The READ that is served holds what was typed; the WRITE is not past its end. *)
Served ==
  iocbs # <<>> =>
    IF Head(iocbs).op = "READ"
    THEN IF event THEN Ended(Head(iocbs).buf, heard, Head(iocbs).size)
         ELSE /\ Head(iocbs).buf = heard /\ buffer_idx = Len(heard)
              /\ Unended(heard, Head(iocbs).size)
    ELSE IF event THEN buffer_idx = Head(iocbs).size ELSE buffer_idx < Head(iocbs).size

Completion == [iocb : Iocb, typed : Seq(Bytes)]

(* What the completed requests wrote, and the part of it the wire starts with. *)
Written(d) == [i \in DOMAIN d |-> IF d[i].iocb.op = "WRITE" THEN d[i].iocb.buf ELSE <<>>]

Finished ==
  \A i \in 1..Len(done) :
    done[i].iocb.op = "READ" => Ended(done[i].iocb.buf, done[i].typed, done[i].iocb.size)

BytesInv ==
  /\ SerialInv
  /\ rbuffer \in [0..(RingSize - 1) -> Bytes] /\ buffer_idx \in 0..MaxLen
  /\ heard \in Seq(Bytes) /\ done \in Seq(Completion)
  /\ FlattenSeq(Written(done)) \in Seq(Bytes)
  /\ Untouched /\ Served /\ Finished /\ WireInOrder

-----------------------------------------------------------------------------
(* A set of naturals has a least element: what induction comes down to. *)
LEMMA LeastNatural ==
  ASSUME NEW T \in SUBSET Nat, T # {}
  PROVE  \E m \in T : \A k \in T : m <= k
<1> DEFINE R == OpToRel(<, Nat)
<1>1. IsWellFoundedOn(R, Nat)  BY NatLessThanWellFounded
<1>2. \A x, y \in Nat : x < y <=> <<x, y>> \in R  BY DEF OpToRel
<1> HIDE DEF R
<1>3. \E m \in T : \A k \in T : ~(<<k, m>> \in R)  BY <1>1, WFMin
<1>4. PICK m \in T : \A k \in T : ~(<<k, m>> \in R)  BY <1>3
<1>5. ASSUME NEW k \in T PROVE m <= k
  <2>1. ~(k < m)  BY <1>2, <1>4
  <2> QED BY <2>1
<1> QED BY <1>4, <1>5

LEMMA MinIsLeast ==
  ASSUME NEW T \in SUBSET Nat, NEW m \in T, \A k \in T : m <= k
  PROVE  Min(T) = m
<1>1. \A x \in T : (\A y \in T : x =< y) => x = m  OBVIOUS
<1> QED BY <1>1 DEF Min

(* Line cuts a text where a READ of n bytes ends, and nowhere before. *)
LEMMA LineUnended ==
  ASSUME NEW text \in Seq(Bytes), NEW n \in Nat, Unended(text, n)
  PROVE  Line(text, n) = text
<1> DEFINE T == {i \in DOMAIN text : text[i] = CR} \cup {n, Len(text)}
<1>1. Len(text) \in Nat /\ DOMAIN text = 1..Len(text)  BY LenProperties
<1>2. T \in SUBSET Nat /\ Len(text) \in T /\ \A k \in T : Len(text) <= k
  BY <1>1 DEF Unended
<1> HIDE DEF T
<1>3. Min(T) = Len(text)  BY <1>2, MinIsLeast
<1> QED BY <1>3, SubSeqFull DEF Line, T

LEMMA LineEnded ==
  ASSUME NEW text \in Seq(Bytes), NEW n \in Nat, NEW buf, Ended(buf, text, n)
  PROVE  /\ Line(text, n) = buf /\ buf \in Seq(Bytes)
         /\ Len(buf) \in 1..n /\ (Len(buf) = n \/ Last(buf) = CR)
<1> DEFINE T == {i \in DOMAIN text : text[i] = CR} \cup {n, Len(text)}
<1>1. Len(text) \in Nat /\ DOMAIN text = 1..Len(text)  BY LenProperties
<1>2. PICK m \in 1..Len(text) : EndsAt(text, n, m) /\ buf = SubSeq(text, 1, m)
  BY DEF Ended
<1>3. m \in T  BY <1>1, <1>2 DEF EndsAt
<1>4. ASSUME NEW k \in T PROVE k \in Nat /\ m <= k
  <2>1. CASE k \in 1..Len(text) /\ text[k] = CR  BY <1>1, <1>2, <2>1 DEF EndsAt
  <2>2. CASE k \in {n, Len(text)}  BY <1>1, <1>2, <2>2 DEF EndsAt
  <2> QED BY <1>1, <2>1, <2>2
<1> HIDE DEF T
<1>5. Min(T) = m  BY <1>3, <1>4, MinIsLeast
<1>6. /\ buf \in Seq(Bytes) /\ Len(buf) = m /\ buf[m] = text[m]
  <2>1. \A i \in 1..m : text[i] \in Bytes  BY <1>1, ElementOfSeq
  <2>2. 1 <= m /\ m \in 1..(m - 1 + 1) /\ 1 + m - 1 = m  OBVIOUS
  <2>3. /\ SubSeq(text, 1, m) \in Seq(Bytes)
        /\ Len(SubSeq(text, 1, m)) = IF 1 <= m THEN m - 1 + 1 ELSE 0
        /\ \A i \in 1..(m - 1 + 1) : SubSeq(text, 1, m)[i] = text[1 + i - 1]
    BY <2>1, SubSeqProperties
  <2> QED BY <1>2, <2>2, <2>3
<1>7. Len(buf) \in 1..n /\ (Len(buf) = n \/ Last(buf) = CR)
  BY <1>2, <1>6 DEF EndsAt, Last
<1> QED BY <1>2, <1>5, <1>6, <1>7 DEF Line, T

(* A READ that has ended stays ended when more is typed.  *)
LEMMA EndedStays ==
  ASSUME NEW text \in Seq(Bytes), NEW n \in Nat, NEW buf, Ended(buf, text, n), NEW b \in Bytes
  PROVE  Ended(buf, Append(text, b), n)
<1> DEFINE more == Append(text, b)
<1>1. PICK m \in 1..Len(text) : EndsAt(text, n, m) /\ buf = SubSeq(text, 1, m)
  BY DEF Ended
<1>2. /\ Len(text) \in Nat /\ more \in Seq(Bytes) /\ Len(more) = Len(text) + 1
      /\ \A i \in 1..Len(text) : more[i] = text[i]
  BY LenProperties, AppendProperties
<1>3. EndsAt(more, n, m)  BY <1>1, <1>2 DEF EndsAt
<1>4. SubSeq(more, 1, m) = SubSeq(text, 1, m)
  <2>1. more = text \o <<b>> /\ <<b>> \in Seq(Bytes)  BY AppendIsConcat
  <2>2. 1 \in 1..Len(text)  BY <1>2
  <2> QED BY <2>1, <2>2, SubSeqOfConcat1
<1>5. m \in 1..Len(more)  BY <1>2
<1> HIDE DEF more
<1>6. Ended(buf, more, n)  BY <1>1, <1>3, <1>4, <1>5 DEF Ended
<1> QED BY <1>6 DEF more

(* A READ that goes on ends with the byte that fills it or a carriage return. *)
LEMMA ReadGoesOn ==
  ASSUME NEW text \in Seq(Bytes), NEW n \in Nat, Unended(text, n), NEW b \in Bytes
  PROVE  IF Len(text) + 1 = n \/ b = CR
         THEN Ended(Append(text, b), Append(text, b), n)
         ELSE Unended(Append(text, b), n)
<1> DEFINE more == Append(text, b)
<1>1. /\ Len(text) \in Nat /\ more \in Seq(Bytes) /\ Len(more) = Len(text) + 1
      /\ \A i \in 1..Len(text) : more[i] = text[i]
      /\ more[Len(text) + 1] = b
  BY LenProperties, AppendProperties
<1>2. SubSeq(more, 1, Len(more)) = more  BY <1>1, SubSeqFull
<1> HIDE DEF more
<1>3. CASE Len(text) + 1 = n \/ b = CR
  <2>1. EndsAt(more, n, Len(more))  BY <1>1, <1>3 DEF EndsAt, Unended
  <2>2. Len(more) \in 1..Len(more)  BY <1>1
  <2> QED BY <1>2, <1>3, <2>1, <2>2 DEF Ended, more
<1>4. CASE ~(Len(text) + 1 = n \/ b = CR)
  <2>1. Unended(more, n)  BY <1>1, <1>4 DEF Unended
  <2> QED BY <1>4, <2>1 DEF more
<1> QED BY <1>3, <1>4

-----------------------------------------------------------------------------
(* FlattenSeq, one sequence at a time: f holds what the first n flatten to.  *)
JoinedAt(f, ss, i) == IF i = 1 THEN ss[i] ELSE f[i - 1] \o ss[i]
Joined(f, ss, n)   == f = [i \in 1..n |-> JoinedAt(f, ss, i)]

LEMMA JoinedValues ==
  ASSUME NEW f, NEW ss, NEW n \in Nat, Joined(f, ss, n)
  PROVE  \A i \in 1..n : f[i] = JoinedAt(f, ss, i)
BY Zenon DEF Joined

LEMMA JoinedNext ==
  ASSUME NEW f, NEW g, NEW ss, NEW tt, NEW i, i = 1 \/ f[i - 1] = g[i - 1], ss[i] = tt[i]
  PROVE  JoinedAt(f, ss, i) = JoinedAt(g, tt, i)
BY Zenon DEF JoinedAt

(* There is one such f, by induction on n. *)
LEMMA JoinedExists ==
  ASSUME NEW ss, NEW n \in Nat
  PROVE  \E f : Joined(f, ss, n)
<1> DEFINE T == {k \in Nat : ~\E f : Joined(f, ss, k)}
<1>1. SUFFICES T = {}  OBVIOUS
<1>2. SUFFICES ASSUME T # {} PROVE FALSE  OBVIOUS
<1>3. PICK k \in T : \A j \in T : k <= j
  <2>1. T \in SUBSET Nat  OBVIOUS
  <2> HIDE DEF T
  <2> QED BY <1>2, <2>1, LeastNatural
<1>4. k \in Nat /\ ~\E f : Joined(f, ss, k)  OBVIOUS
<1>5. CASE k = 0
  <2> DEFINE f == [i \in 1..0 |-> ss]
  <2>1. f = [i \in 1..0 |-> JoinedAt(f, ss, i)]
    <3>1. 1..0 = {}  OBVIOUS
    <3> QED BY <3>1
  <2> QED BY <1>4, <1>5, <2>1 DEF Joined
<1>6. CASE k # 0
  <2>1. k - 1 \in Nat /\ ~(k <= k - 1)  BY <1>4, <1>6
  <2>2. PICK f : Joined(f, ss, k - 1)
    <3>1. k - 1 \notin T
      <4> HIDE DEF T
      <4> QED BY <1>3, <2>1
    <3> QED BY <2>1, <3>1
  <2> DEFINE e(i) == JoinedAt(f, ss, i)
             g == [i \in 1..k |-> e(i)]
             h(i) == JoinedAt(g, ss, i)
  <2>3. f = [i \in 1..(k - 1) |-> e(i)]  BY <2>2 DEF Joined
  <2>4. \A i \in 1..(k - 1) : g[i] = f[i]
    <3> HIDE DEF e
    <3>1. \A i \in 1..(k - 1) : i \in 1..k  BY <1>4
    <3> QED BY <2>3, <3>1
  <2>5. ASSUME NEW i \in 1..k PROVE e(i) = h(i)
    <3>1. i = 1 \/ i - 1 \in 1..(k - 1)  BY <1>4
    <3> HIDE DEF g
    <3>2. i = 1 \/ f[i - 1] = g[i - 1]  BY <2>4, <3>1
    <3> QED BY <3>2, JoinedNext
  <2>6. g = [i \in 1..k |-> h(i)]
    <3> HIDE DEF e, h
    <3>1. g = [i \in 1..k |-> e(i)]  BY DEF g
    <3> HIDE DEF g
    <3> QED BY <2>5, <3>1
  <2>7. Joined(g, ss, k)
    <3> HIDE DEF g
    <3> QED BY <2>6 DEF Joined
  <2> QED BY <1>4, <2>7
<1> QED BY <1>5, <1>6

(* tt begins with the n sequences of ss. *)
SameStart(f, g, ss, tt, n, m) ==
  /\ n \in Nat /\ m \in Nat /\ n <= m
  /\ Joined(f, ss, n) /\ Joined(g, tt, m) /\ \A i \in 1..n : ss[i] = tt[i]

LEMMA JoinedAgree ==
  ASSUME NEW f, NEW g, NEW ss, NEW tt, NEW n, NEW m, SameStart(f, g, ss, tt, n, m)
  PROVE  \A i \in 1..n : f[i] = g[i]
<1>0. /\ n \in Nat /\ m \in Nat /\ n <= m
      /\ Joined(f, ss, n) /\ Joined(g, tt, m) /\ \A i \in 1..n : ss[i] = tt[i]
  BY DEF SameStart
<1> DEFINE T == {i \in 1..n : f[i] # g[i]}
<1>1. SUFFICES T = {}  OBVIOUS
<1>2. SUFFICES ASSUME T # {} PROVE FALSE  OBVIOUS
<1>3. PICK k \in T : \A j \in T : k <= j
  <2>1. T \in SUBSET Nat  BY <1>0
  <2> HIDE DEF T
  <2> QED BY <1>2, <2>1, LeastNatural
<1>4. k \in 1..n /\ f[k] # g[k]  OBVIOUS
<1>5. k \in 1..m /\ ss[k] = tt[k]  BY <1>0, <1>4
<1>6. k = 1 \/ f[k - 1] = g[k - 1]
  <2>1. k = 1 \/ (k - 1 \in 1..n /\ ~(k <= k - 1))  BY <1>0, <1>4
  <2>2. k = 1 \/ k - 1 \notin T
    <3> HIDE DEF T
    <3> QED BY <1>3, <2>1
  <2> QED BY <2>1, <2>2
<1>7. JoinedAt(f, ss, k) = JoinedAt(g, tt, k)  BY <1>5, <1>6, JoinedNext
<1>8. f[k] = JoinedAt(f, ss, k) /\ g[k] = JoinedAt(g, tt, k)
  BY <1>0, <1>4, <1>5, JoinedValues
<1> QED BY <1>4, <1>7, <1>8

LEMMA FlattenIsJoined ==
  ASSUME NEW S, NEW ss \in Seq(S), Len(ss) # 0
  PROVE  \E f : Joined(f, ss, Len(ss)) /\ FlattenSeq(ss) = f[Len(ss)]
<1> DEFINE n == Len(ss)
           e(f) == [i \in 1..n |-> JoinedAt(f, ss, i)]
           c == CHOOSE f : f = e(f)
<1>1. n \in Nat  BY LenProperties
<1>2. \E f : f = e(f)
  <2>1. PICK f : Joined(f, ss, n)
    <3> HIDE DEF n
    <3> QED BY <1>1, JoinedExists
  <2> QED BY <2>1 DEF Joined
<1>3. c = e(c)
  <2> HIDE DEF e
  <2> QED BY <1>2
<1>4. FlattenSeq(ss) = c[n]  BY DEF FlattenSeq, JoinedAt
<1>5. Joined(c, ss, n)
  <2> HIDE DEF c
  <2> QED BY <1>3 DEF Joined
<1> QED BY <1>4, <1>5

LEMMA FlattenAppend ==
  ASSUME NEW S, NEW ss \in Seq(Seq(S)), NEW s \in Seq(S)
  PROVE  FlattenSeq(Append(ss, s)) = FlattenSeq(ss) \o s
<1> DEFINE tt == Append(ss, s)
           n  == Len(ss)
           m  == n + 1
<1>1. /\ n \in Nat /\ m \in Nat /\ m > 0 /\ n <= m /\ m - 1 = n
      /\ tt \in Seq(Seq(S)) /\ Len(tt) = m /\ tt[m] = s
      /\ \A i \in 1..n : tt[i] = ss[i]
  BY LenProperties, AppendProperties
<1>2. n = 0 => ss = <<>>  BY EmptySeq
<1>3. n # 0 => m \in 2..m /\ n \in 1..n  BY <1>1
<1>4. (m = 1 <=> n = 0) /\ m \in 1..m  BY <1>1
<1> HIDE DEF tt, m
<1>5. PICK g : Joined(g, tt, m) /\ FlattenSeq(tt) = g[m]
  BY <1>1, FlattenIsJoined
<1>6. CASE n = 0
  <2>1. g[m] = JoinedAt(g, tt, m)  BY <1>1, <1>4, <1>5, JoinedValues
  <2>4. g[m] = s  BY <1>1, <1>4, <1>6, <2>1 DEF JoinedAt
  <2>2. FlattenSeq(ss) = <<>>
    BY <1>2, <1>6 DEF FlattenSeq
  <2>3. <<>> \o s = s  BY ConcatEmptySeq
  <2> QED BY <1>5, <2>4, <2>2, <2>3 DEF tt
<1>7. CASE n # 0
  <2>1. PICK f : Joined(f, ss, n) /\ FlattenSeq(ss) = f[n]
    BY <1>7, FlattenIsJoined
  <2>2. g[m] = g[n] \o s
    <3>1. g[m] = JoinedAt(g, tt, m)  BY <1>1, <1>4, <1>5, JoinedValues
    <3>2. m # 1 /\ m - 1 = n /\ tt[m] = s  BY <1>1, <1>4, <1>7
    <3>3. JoinedAt(g, tt, m) = g[m - 1] \o tt[m]  BY <3>2 DEF JoinedAt
    <3> QED BY <3>1, <3>2, <3>3
  <2>3. f[n] = g[n]
    <3> HIDE DEF n
    <3>1. \A i \in 1..n : f[i] = g[i]
      <4>1. SameStart(f, g, ss, tt, n, m)  BY <1>1, <1>5, <2>1 DEF SameStart
      <4> QED BY <4>1, JoinedAgree
    <3>2. n \in 1..n  BY <1>3, <1>7
    <3> QED BY <3>1, <3>2
  <2> QED BY <1>5, <2>1, <2>2, <2>3 DEF tt
<1> QED BY <1>6, <1>7

-----------------------------------------------------------------------------
(* The first request of q is started: it is as it was made, nothing is typed *)
(* yet, and a WRITE has given out one byte.                                   *)
AsMade(r) ==
  IF r.op = "WRITE" THEN Len(r.buf) = r.size ELSE r.buf = <<>>

LEMMA StartServes ==
  ASSUME RingEmpty, NEW q \in Seq(Iocb), q # <<>>, NEW ier \in BOOLEAN, Start(q, ier),
         AsMade(Head(q)), event' = FALSE, wire \in Seq(Bytes)
  PROVE  /\ iocbs' = q /\ Served' /\ heard' = <<>> /\ buffer_idx' = 0 /\ rbuffer' = rbuffer
         /\ GivenOut' \in Seq(Bytes) /\ wire' = wire \o GivenOut'
<1>1. /\ Head(q) \in Iocb /\ Len(q) \in Nat /\ 1 \in 1..Len(q) /\ Head(q) = q[1]
      /\ DOMAIN q = 1..Len(q)
  BY StrippedQueue, LenProperties, EmptySeq
<1>2. heard' = <<>> /\ buffer_idx' = 0
  BY StartDone DEF Start
<1>3. CASE Head(q).op = "READ"
  <2>1. FromRing(Head(q).size) = <<>>
    BY <1>1, NothingInRing DEF Iocb
  <2>2. /\ iocbs' = [q EXCEPT ![1].buf = <<>>] /\ UNCHANGED <<rbuffer, wire>>
    BY <1>3, <2>1 DEF Start
  <2>3. q[1].buf = <<>>  BY <1>1, <1>3 DEF AsMade
  <2>4. [q[1] EXCEPT !.buf = <<>>] = q[1]
    BY <1>1, <2>3 DEF Iocb
  <2>5. iocbs' = q
    <3>1. [q EXCEPT ![1] = q[1]] = q  BY <1>1
    <3> QED BY <2>2, <2>4, <3>1
  <2>6. Served'
    <3>1. Unended(<<>>, Head(q).size) /\ Len(<<>>) = 0
      BY <1>1 DEF Unended, Iocb
    <3> QED BY <1>1, <1>2, <1>3, <2>3, <2>5, <3>1 DEF Served
  <2>7. GivenOut' = <<>>  BY <1>3, <2>5 DEF GivenOut
  <2>8. wire' = wire \o <<>> /\ <<>> \in Seq(Bytes)  BY <2>2, ConcatEmptySeq
  <2> QED BY <1>2, <2>2, <2>5, <2>6, <2>7, <2>8
<1>4. CASE Head(q).op = "WRITE"
  <2>1. /\ iocbs' = q /\ rbuffer' = rbuffer /\ wire' = Append(wire, Head(q).buf[1])
    BY <1>4 DEF Start, ring
  <2>2. /\ Head(q).size \in 1..MaxLen /\ Len(Head(q).buf) = Head(q).size
        /\ Head(q).buf \in Seq(Bytes) /\ Head(q).op # "READ"
    BY <1>1, <1>4 DEF AsMade, Iocb
  <2>3. Served'  BY <1>2, <2>1, <2>2, SerialAssumption DEF Served
  <2>4. GivenOut' = <<Head(q).buf[1]>> /\ Head(q).buf[1] \in Bytes
    <3> DEFINE w == Head(q).buf
    <3>1. 1 \in 1..Len(w)  BY <2>2, SerialAssumption
    <3>2. w[1] \in Bytes  BY <2>2, <3>1, ElementOfSeq
    <3>3. Min2(1, Head(q).size) = 1  BY <2>2, SerialAssumption DEF Min2
    <3>4. GivenOut' = SubSeq(w, 1, 1)
      <4>1. iocbs' # <<>> /\ Head(iocbs') = Head(q) /\ buffer_idx' + 1 = 1
        BY <1>2, <2>1
      <4>2. GivenOut' = SubSeq(Head(iocbs').buf, 1, Min2(buffer_idx' + 1, Head(iocbs').size))
        BY <1>4, <4>1 DEF GivenOut
      <4>3. Min2(buffer_idx' + 1, Head(iocbs').size) = 1
        BY <1>2, <3>3, <4>1 DEF Min2
      <4> QED BY <4>1, <4>2, <4>3
    <3>5. SubSeq(w, 1, 1) = <<w[1]>>
      <4> HIDE DEF w
      <4>1. SubSeq(w, 1, 1) = <<w[1]>> \o SubSeq(w, 2, 1)
        BY <2>2, <3>1, SubSeqRecursiveFirst DEF w
      <4>2. SubSeq(w, 2, 1) = <<>>  BY SubSeqEmpty
      <4>3. <<w[1]>> \in Seq(Bytes)  BY <3>2
      <4> QED BY <4>1, <4>2, <4>3, ConcatEmptySeq
    <3> QED BY <3>2, <3>4, <3>5
  <2>5. Append(wire, Head(q).buf[1]) = wire \o <<Head(q).buf[1]>>
    BY <2>4, AppendIsConcat
  <2>6. <<Head(q).buf[1]>> \in Seq(Bytes)  BY <2>4
  <2> QED BY <1>2, <2>1, <2>3, <2>4, <2>5, <2>6
<1> QED BY <1>1, <1>3, <1>4 DEF Iocb

LEMMA WrittenAppend ==
  ASSUME NEW d \in Seq(Completion), NEW c \in Completion
  PROVE  /\ Append(d, c) \in Seq(Completion)
         /\ Written(d) \in Seq(Seq(Bytes))
         /\ Written(Append(d, c))
              = Append(Written(d), IF c.iocb.op = "WRITE" THEN c.iocb.buf ELSE <<>>)
<1> DEFINE w(x) == IF x.iocb.op = "WRITE" THEN x.iocb.buf ELSE <<>>
           A == Written(Append(d, c))
           B == Append(Written(d), w(c))
<1>1. \A x \in Completion : w(x) \in Seq(Bytes)
  <2>1. <<>> \in Seq(Bytes)  OBVIOUS
  <2> QED BY <2>1 DEF Completion, Iocb
<1>2. /\ Append(d, c) \in Seq(Completion) /\ Len(Append(d, c)) = Len(d) + 1
      /\ Append(d, c)[Len(d) + 1] = c
      /\ \A k \in 1..Len(d) : Append(d, c)[k] = d[k]
  BY AppendProperties
<1>3. ASSUME NEW e \in Seq(Completion)
      PROVE  /\ Written(e) \in Seq(Seq(Bytes)) /\ Len(Written(e)) = Len(e)
             /\ \A k \in 1..Len(e) : Written(e)[k] = w(e[k])
  <2>1. Len(e) \in Nat /\ DOMAIN e = 1..Len(e) /\ \A k \in 1..Len(e) : e[k] \in Completion
    BY LenProperties, ElementOfSeq
  <2>2. Written(e) = [k \in 1..Len(e) |-> w(e[k])]  BY <2>1 DEF Written
  <2>3. \A k \in 1..Len(e) : w(e[k]) \in Seq(Bytes)  BY <1>1, <2>1
  <2> HIDE DEF w
  <2>4. Written(e) \in [1..Len(e) -> Seq(Bytes)]  BY <2>2, <2>3
  <2>5. Written(e) \in Seq(Seq(Bytes))  BY <2>1, <2>4, SeqDef
  <2>6. Len(Written(e)) = Len(e)  BY <2>1, <2>2
  <2> QED BY <2>2, <2>5, <2>6
<1>4. w(c) \in Seq(Bytes)  BY <1>1
<1> HIDE DEF w
<1>5. /\ B \in Seq(Seq(Bytes)) /\ Len(B) = Len(d) + 1 /\ B[Len(d) + 1] = w(c)
      /\ \A k \in 1..Len(d) : B[k] = w(d[k])
  <2>1. /\ B \in Seq(Seq(Bytes)) /\ Len(B) = Len(Written(d)) + 1
        /\ B[Len(Written(d)) + 1] = w(c)
        /\ \A k \in 1..Len(Written(d)) : B[k] = Written(d)[k]
    BY <1>3, <1>4, AppendProperties
  <2> QED BY <1>3, <2>1
<1>6. /\ A \in Seq(Seq(Bytes)) /\ Len(A) = Len(d) + 1
      /\ \A k \in 1..(Len(d) + 1) : A[k] = w(Append(d, c)[k])
  BY <1>2, <1>3
<1>7. Len(d) \in Nat  BY LenProperties
<1> HIDE DEF A, B
<1>8. \A k \in 1..Len(A) : A[k] = B[k]
  BY <1>2, <1>5, <1>6, <1>7
<1>9. A = B  BY <1>5, <1>6, <1>8, SeqEqual
<1> QED BY <1>2, <1>3, <1>9 DEF A, B, w

-----------------------------------------------------------------------------
(* Init and each step keep the bytes in order. *)
LEMMA InitBytes == Init => BytesInv
<1> SUFFICES ASSUME Init PROVE BytesInv  OBVIOUS
<1>1. SerialInv  BY InitSerial
<1>2. /\ iocbs = <<>> /\ wire = <<>> /\ done = <<>> /\ heard = <<>> /\ buffer_idx = 0
      /\ rbuffer = [i \in 0..(RingSize - 1) |-> CR]
  BY DEF Init
<1>3. /\ \A S : <<>> \in Seq(S)
      /\ Len(<<>>) = 0
  OBVIOUS
<1>4. rbuffer \in [0..(RingSize - 1) -> Bytes] /\ buffer_idx \in 0..MaxLen
  BY <1>2, SerialAssumption
<1>5. Written(done) = <<>>
  <2>1. DOMAIN done = {}  BY <1>2
  <2>2. Written(done) = [i \in {} |-> IF done[i].iocb.op = "WRITE" THEN done[i].iocb.buf ELSE <<>>]
    BY <2>1 DEF Written
  <2> QED BY <2>2
<1>6. FlattenSeq(Written(done)) = <<>>  BY <1>3, <1>5 DEF FlattenSeq
<1>7. Untouched /\ Served /\ Finished  BY <1>2, <1>3 DEF Untouched, Served, Finished
<1>8. WireInOrder
  <2>1. GivenOut = <<>>  BY <1>2 DEF GivenOut
  <2>2. <<>> \o <<>> = <<>>  BY <1>3, ConcatEmptySeq
  <2> QED BY <1>2, <1>6, <2>1, <2>2 DEF WireInOrder, Written
<1> QED BY <1>1, <1>2, <1>3, <1>4, <1>6, <1>7, <1>8 DEF BytesInv

(* The queue as Untouched and Served describe it. *)
LEMMA HeadOfQueue ==
  ASSUME BytesInv, iocbs # <<>>
  PROVE  /\ Head(iocbs) \in Iocb /\ Head(iocbs) = iocbs[1]
         /\ Len(iocbs) \in Nat \ {0} /\ 1 \in 1..Len(iocbs)
         /\ Head(iocbs).op = "WRITE" => Len(Head(iocbs).buf) = Head(iocbs).size
         /\ event => GivenOut = (IF Head(iocbs).op = "WRITE" THEN Head(iocbs).buf ELSE <<>>)
<1>1. iocbs \in Seq(Iocb)  BY DEF BytesInv, SerialInv
<1>2. /\ Head(iocbs) \in Iocb /\ Head(iocbs) = iocbs[1]
      /\ Len(iocbs) \in Nat \ {0} /\ 1 \in 1..Len(iocbs)
  BY <1>1, StrippedQueue, EmptySeq
<1>3. Head(iocbs).op = "WRITE" => Len(Head(iocbs).buf) = Head(iocbs).size
  BY <1>2 DEF BytesInv, Untouched
<1>4. ASSUME event, Head(iocbs).op = "WRITE" PROVE GivenOut = Head(iocbs).buf
  <2>1. buffer_idx = Head(iocbs).size /\ Head(iocbs).size \in Nat
    BY <1>2, <1>4 DEF BytesInv, Served, Iocb
  <2>2. Min2(buffer_idx + 1, Head(iocbs).size) = Len(Head(iocbs).buf)
    BY <1>3, <1>4, <2>1 DEF Min2
  <2>3. SubSeq(Head(iocbs).buf, 1, Len(Head(iocbs).buf)) = Head(iocbs).buf
    BY <1>2, SubSeqFull DEF Iocb
  <2> QED BY <1>4, <2>2, <2>3 DEF GivenOut
<1>5. Head(iocbs).op # "WRITE" => GivenOut = <<>>  BY DEF GivenOut
<1> QED BY <1>2, <1>3, <1>4, <1>5

LEMMA WireTyped ==
  ASSUME BytesInv
  PROVE  /\ GivenOut \in Seq(Bytes) /\ wire \in Seq(Bytes)
         /\ wire = FlattenSeq(Written(done)) \o GivenOut
<1>1. GivenOut \in Seq(Bytes)
  <2>1. CASE iocbs # <<>> /\ Head(iocbs).op = "WRITE"
    <3> DEFINE w == Head(iocbs).buf
               m == Min2(buffer_idx + 1, Head(iocbs).size)
    <3>1. /\ w \in Seq(Bytes) /\ Len(w) = Head(iocbs).size /\ Head(iocbs).size \in Nat
      BY <2>1, HeadOfQueue, SerialAssumption DEF Iocb
    <3>2. m \in Int /\ m <= Len(w)
      BY <3>1, SerialAssumption DEF Min2, BytesInv
    <3>3. GivenOut = SubSeq(w, 1, m)  BY <2>1 DEF GivenOut
    <3> HIDE DEF w, m
    <3>4. \A i \in 1..m : i \in 1..Len(w)  BY <3>1, <3>2
    <3>5. \A i \in 1..m : w[i] \in Bytes  BY <3>1, <3>4, ElementOfSeq
    <3> QED BY <3>2, <3>3, <3>5, SubSeqProperties
  <2>2. CASE ~(iocbs # <<>> /\ Head(iocbs).op = "WRITE")
    <3>1. <<>> \in Seq(Bytes)  OBVIOUS
    <3> QED BY <2>2, <3>1 DEF GivenOut
  <2> QED BY <2>1, <2>2
<1>2. wire = FlattenSeq(Written(done)) \o GivenOut  BY DEF BytesInv, WireInOrder, Written
<1>3. FlattenSeq(Written(done)) \o GivenOut \in Seq(Bytes)
  BY <1>1, ConcatProperties DEF BytesInv
<1> QED BY <1>1, <1>2, <1>3

(* The same completed requests and what follows them on the wire. *)
LEMMA WireFollows ==
  ASSUME BytesInv, done' = done, wire' = FlattenSeq(Written(done)) \o GivenOut'
  PROVE  WireInOrder'
BY DEF WireInOrder, Written

(* A request joins an idle port and is started, or waits its turn. *)
LEMMA ScheduleBytes ==
  ASSUME BytesInv, NEW r \in Request, Schedule(r)
  PROVE  BytesInv'
<1>1. SerialInv'  BY ScheduleSteps DEF BytesInv
<1>2. /\ r \in Iocb /\ AsMade(r) /\ r.op \in {"READ", "WRITE"}
  BY RequestIsIocb DEF AsMade, Request, Writes, Reads, Iocb
<1>3. /\ UNCHANGED <<event, done>> /\ event = FALSE /\ iocbs \in Seq(Iocb)
      /\ thri \in BOOLEAN /\ RingEmpty
  BY DEF Schedule, BytesInv, SerialInv
<1>4. wire = FlattenSeq(Written(done)) \o GivenOut /\ wire \in Seq(Bytes)
  BY WireTyped
<1>5. /\ FlattenSeq(Written(done))' \in Seq(Bytes) /\ Finished'
      /\ (done \in Seq(Completion))'
  BY <1>3 DEF BytesInv, Written, Finished
<1>6. CASE iocbs = <<>>
  <2> DEFINE q == <<r>>
  <2>1. q \in Seq(Iocb) /\ q # <<>> /\ Head(q) = r /\ Len(q) = 1 /\ q[1] = r  BY <1>2
  <2>2. Start(q, thri)  BY <1>6 DEF Schedule
  <2> HIDE DEF q
  <2>3. /\ iocbs' = q /\ Served' /\ heard' = <<>> /\ buffer_idx' = 0 /\ rbuffer' = rbuffer
        /\ GivenOut' \in Seq(Bytes) /\ wire' = wire \o GivenOut'
    BY <1>2, <1>3, <1>4, <2>1, <2>2, StartServes
  <2>4. Untouched'
    <3>1. ASSUME NEW k \in 1..Len(q)
          PROVE  IF q[k].op = "WRITE" THEN Len(q[k].buf) = q[k].size
                 ELSE k > 1 => q[k].buf = <<>>
      <4>1. k = 1 /\ q[k] = r  BY <2>1
      <4> QED BY <1>2, <4>1 DEF AsMade
    <3> QED BY <2>3, <3>1 DEF Untouched
  <2>5. WireInOrder'
    <3>1. GivenOut = <<>>  BY <1>6 DEF GivenOut
    <3>2. wire = FlattenSeq(Written(done))
      BY <1>4, <3>1, ConcatEmptySeq DEF BytesInv
    <3> QED BY <1>3, <2>3, <3>2, WireFollows
  <2>6. rbuffer' \in [0..(RingSize - 1) -> Bytes] /\ buffer_idx' \in 0..MaxLen
    BY <2>3, SerialAssumption DEF BytesInv
  <2>7. heard' \in Seq(Bytes)  BY <2>3
  <2> QED BY <1>1, <1>5, <2>3, <2>4, <2>5, <2>6, <2>7 DEF BytesInv
<1>7. CASE iocbs # <<>>
  <2>1. iocbs' = Append(iocbs, r) /\ UNCHANGED <<buffer_idx, rbuffer, wire, heard>>
    BY <1>7 DEF Schedule, ring
  <2>2. /\ Len(iocbs') = Len(iocbs) + 1 /\ iocbs'[Len(iocbs) + 1] = r
        /\ \A k \in 1..Len(iocbs) : iocbs'[k] = iocbs[k]
    BY <1>2, <1>3, <2>1, AppendProperties
  <2>3. iocbs' # <<>> /\ Head(iocbs') = Head(iocbs)
    BY <1>2, <1>3, <1>7, <2>1, AppendProperties, HeadTailAppend
  <2>4. Served'  BY <1>3, <1>7, <2>1, <2>3 DEF BytesInv, Served
  <2>5. Untouched'
    <3>1. ASSUME NEW k \in 1..Len(iocbs')
          PROVE  IF iocbs'[k].op = "WRITE" THEN Len(iocbs'[k].buf) = iocbs'[k].size
                 ELSE k > 1 => iocbs'[k].buf = <<>>
      <4>1. CASE k \in 1..Len(iocbs)
        BY <2>2, <4>1 DEF BytesInv, Untouched
      <4>2. CASE k \notin 1..Len(iocbs)
        <5>1. k = Len(iocbs) + 1  BY <1>7, <2>2, <4>2, HeadOfQueue
        <5> QED BY <1>2, <2>2, <5>1 DEF AsMade
      <4> QED BY <4>1, <4>2
    <3> QED BY <3>1 DEF Untouched
  <2>6. GivenOut' = GivenOut  BY <1>7, <2>1, <2>3 DEF GivenOut
  <2>7. WireInOrder'  BY <1>3, <1>4, <2>1, <2>6, WireFollows
  <2> QED BY <1>1, <1>5, <2>1, <2>4, <2>5, <2>7 DEF BytesInv
<1> QED BY <1>6, <1>7

(* The first request is complete: what it wrote is on the wire whole, what   *)
(* it read is kept, and the next one is started.                             *)
LEMMA CheckBytes ==
  ASSUME BytesInv, CheckIo
  PROVE  BytesInv'
<1> DEFINE rest == Tail(iocbs)
           c == [iocb |-> Head(iocbs), typed |-> heard]
           out == IF c.iocb.op = "WRITE" THEN c.iocb.buf ELSE <<>>
<1>1. SerialInv'  BY CheckSteps DEF BytesInv
<1>2. /\ iocbs \in Seq(Iocb) /\ iocbs # <<>> /\ event = TRUE /\ event' = FALSE
      /\ thri \in BOOLEAN /\ RingEmpty /\ done' = Append(done, c) /\ done \in Seq(Completion)
  BY DEF CheckIo, BytesInv, SerialInv
<1>3. c \in Completion /\ out \in Seq(Bytes) /\ GivenOut = out
  <2>1. <<>> \in Seq(Bytes)  OBVIOUS
  <2>2. Head(iocbs) \in Iocb /\ heard \in Seq(Bytes)  BY <1>2, HeadOfQueue DEF BytesInv
  <2>3. GivenOut = out  BY <1>2, HeadOfQueue
  <2> QED BY <2>1, <2>2, <2>3 DEF Completion, Iocb
<1>4. /\ (done \in Seq(Completion))'
      /\ Written(done') = Append(Written(done), out) /\ Written(done) \in Seq(Seq(Bytes))
  BY <1>2, <1>3, WrittenAppend
<1>5. FlattenSeq(Written(done')) = FlattenSeq(Written(done)) \o out
  BY <1>3, <1>4, FlattenAppend
<1>6. /\ FlattenSeq(Written(done')) = wire /\ wire \in Seq(Bytes)
  BY <1>3, <1>5, WireTyped
<1>7. Finished'
  <2>1. /\ Len(done') = Len(done) + 1 /\ done'[Len(done) + 1] = c
        /\ \A i \in 1..Len(done) : done'[i] = done[i]
        /\ Len(done) \in Nat
    BY <1>2, <1>3, AppendProperties, LenProperties
  <2>2. ASSUME NEW i \in 1..Len(done'), done'[i].iocb.op = "READ"
        PROVE  Ended(done'[i].iocb.buf, done'[i].typed, done'[i].iocb.size)
    <3>1. CASE i \in 1..Len(done)
      <4>1. done'[i] = done[i]  BY <2>1, <3>1
      <4> QED BY <2>2, <3>1, <4>1 DEF BytesInv, Finished
    <3>2. CASE i \notin 1..Len(done)
      <4>1. i = Len(done) + 1  BY <2>1, <3>2
      <4>2. done'[i] = c  BY <2>1, <4>1
      <4>3. c.iocb = Head(iocbs) /\ c.typed = heard  OBVIOUS
      <4>4. Ended(Head(iocbs).buf, heard, Head(iocbs).size)
        BY <1>2, <2>2, <4>2, <4>3 DEF BytesInv, Served
      <4> QED BY <4>2, <4>3, <4>4
    <3> QED BY <3>1, <3>2
  <2> QED BY <2>2 DEF Finished
<1>8. /\ rest \in Seq(Iocb) /\ Len(rest) = Len(iocbs) - 1
      /\ \A k \in 1..Len(rest) : rest[k] = iocbs[k + 1]
  BY <1>2, HeadTailProperties
<1>9. \A k \in 1..Len(rest) : AsMade(rest[k])
  <2> SUFFICES ASSUME NEW k \in 1..Len(rest) PROVE AsMade(rest[k])  OBVIOUS
  <2>1. k + 1 \in 1..Len(iocbs) /\ k + 1 > 1 /\ rest[k] = iocbs[k + 1]
    BY <1>2, <1>8, HeadOfQueue
  <2> HIDE DEF rest
  <2> QED BY <2>1 DEF BytesInv, Untouched, AsMade
<1> HIDE DEF rest, c, out
<1>10. CASE rest = <<>>
  <2>1. /\ iocbs' = <<>> /\ heard' = <<>>
        /\ UNCHANGED <<buffer_idx, rbuffer, wire>>
    <3>1. \/ /\ iocbs' = rest /\ heard' = <<>> /\ UNCHANGED <<buffer_idx, ring, wire>>
          \/ rest # <<>>
      BY DEF CheckIo, rest
    <3> QED BY <1>10, <3>1 DEF ring
  <2>2. Served' /\ Untouched' /\ GivenOut' = <<>>
    <3>1. Len(<<>>) = 0  OBVIOUS
    <3> QED BY <2>1, <3>1 DEF Served, Untouched, GivenOut
  <2>3. WireInOrder'
    <3>1. wire' = FlattenSeq(Written(done')) \o GivenOut'
      BY <1>6, <2>1, <2>2, ConcatEmptySeq
    <3> QED BY <3>1 DEF WireInOrder, Written
  <2>4. heard' \in Seq(Bytes)  BY <2>1
  <2> QED BY <1>1, <1>4, <1>6, <1>7, <2>1, <2>2, <2>3, <2>4 DEF BytesInv
<1>11. CASE rest # <<>>
  <2> DEFINE ier == thri /\ ~(Head(iocbs).op = "WRITE" /\ Head(rest).op # "WRITE")
  <2>1. Start(rest, ier)
    <3>1. Start(rest, ier) \/ rest = <<>>  BY DEF CheckIo, rest
    <3> QED BY <1>11, <3>1
  <2>2. ier \in BOOLEAN  OBVIOUS
  <2>3. AsMade(Head(rest))
    <3>1. 1 \in 1..Len(rest) /\ Head(rest) = rest[1]
      BY <1>8, <1>11, EmptySeq
    <3> QED BY <1>9, <3>1
  <2> HIDE DEF ier
  <2>4. /\ iocbs' = rest /\ Served' /\ heard' = <<>> /\ buffer_idx' = 0 /\ rbuffer' = rbuffer
        /\ GivenOut' \in Seq(Bytes) /\ wire' = wire \o GivenOut'
    BY <1>2, <1>6, <1>8, <1>11, <2>1, <2>2, <2>3, StartServes
  <2>5. Untouched'  BY <1>9, <2>4 DEF Untouched, AsMade
  <2>6. WireInOrder'
    <3>1. wire' = FlattenSeq(Written(done')) \o GivenOut'  BY <1>6, <2>4
    <3> QED BY <3>1 DEF WireInOrder, Written
  <2>7. rbuffer' \in [0..(RingSize - 1) -> Bytes] /\ buffer_idx' \in 0..MaxLen
    BY <2>4, SerialAssumption DEF BytesInv
  <2>8. heard' \in Seq(Bytes)  BY <2>4
  <2> QED BY <1>1, <1>4, <1>6, <1>7, <2>4, <2>5, <2>6, <2>7, <2>8 DEF BytesInv
<1> QED BY <1>10, <1>11

(* A byte is typed: into the ring buffer while a WRITE is served, into the   *)
(* buffer of a READ that goes on, nowhere after the end of one.              *)
LEMMA InputBytes ==
  ASSUME BytesInv, NEW b \in Bytes, InputIrq(b)
  PROVE  BytesInv'
<1>1. SerialInv'  BY InputSteps DEF BytesInv
<1>2. /\ iocbs \in Seq(Iocb) /\ iocbs # <<>> /\ event \in BOOLEAN
      /\ rbuffer_idx_end \in 0..(RingSize - 1)
      /\ UNCHANGED <<wire, done>> /\ heard' = Append(heard, b) /\ heard \in Seq(Bytes)
  BY DEF InputIrq, BytesInv, SerialInv, RingEmpty
<1>3. wire = FlattenSeq(Written(done)) \o GivenOut  BY WireTyped
<1>4. /\ FlattenSeq(Written(done))' \in Seq(Bytes) /\ Finished'
      /\ (done \in Seq(Completion))' /\ heard' \in Seq(Bytes)
  BY <1>2, AppendProperties DEF BytesInv, Written, Finished
<1>5. /\ Head(iocbs) \in Iocb /\ Head(iocbs) = iocbs[1] /\ Len(iocbs) \in Nat
      /\ 1 \in 1..Len(iocbs) /\ DOMAIN iocbs = 1..Len(iocbs)
  BY <1>2, HeadOfQueue, LenProperties
<1>6. CASE Head(iocbs).op # "READ" /\ KeepByte(b)
  <2>1. /\ UNCHANGED <<iocbs, event, buffer_idx>>
        /\ rbuffer' = [rbuffer EXCEPT ![rbuffer_idx_end] = b]
    BY <1>6 DEF KeepByte
  <2>2. rbuffer' \in [0..(RingSize - 1) -> Bytes]
    BY <1>2, <2>1 DEF BytesInv
  <2>3. Served'  BY <1>6, <2>1 DEF BytesInv, Served
  <2>4. Untouched'  BY <2>1 DEF BytesInv, Untouched
  <2>5. WireInOrder'
    <3>1. GivenOut' = GivenOut  BY <2>1 DEF GivenOut
    <3> QED BY <1>2, <1>3, <3>1, WireFollows
  <2> QED BY <1>1, <1>4, <2>1, <2>2, <2>3, <2>4, <2>5 DEF BytesInv
<1>7. CASE Head(iocbs).op = "READ" /\ ~event /\ StoreByte(b)
  <2> DEFINE n == Head(iocbs).size
  <2>1. /\ iocbs' = [iocbs EXCEPT ![1].buf = Append(@, b)] /\ rbuffer' = rbuffer
        /\ buffer_idx' = buffer_idx + 1 /\ event' = (buffer_idx + 1 = n \/ b = CR)
    BY <1>7 DEF StoreByte, ring
  <2>2. /\ Head(iocbs).buf = heard /\ buffer_idx = Len(heard) /\ Unended(heard, n)
        /\ n \in 1..MaxLen
    BY <1>2, <1>5, <1>7 DEF BytesInv, Served, Iocb
  <2>3. /\ Len(iocbs') = Len(iocbs) /\ iocbs'[1] = [iocbs[1] EXCEPT !.buf = heard']
        /\ \A k \in 1..Len(iocbs) : k # 1 => iocbs'[k] = iocbs[k]
    <3>1. iocbs' = [iocbs EXCEPT ![1] = [iocbs[1] EXCEPT !.buf = heard']]
      <4>1. Append(iocbs[1].buf, b) = heard'  BY <1>2, <1>5, <2>2
      <4>2. iocbs' = [iocbs EXCEPT ![1] = [iocbs[1] EXCEPT !.buf = Append(iocbs[1].buf, b)]]
        BY <2>1, Zenon
      <4> QED BY <4>1, <4>2, Zenon
    <3>2. DOMAIN iocbs' = DOMAIN iocbs  BY <3>1, Zenon
    <3>3. iocbs'[1] = [iocbs[1] EXCEPT !.buf = heard']  BY <1>5, <3>1, Zenon
    <3>4. \A k \in 1..Len(iocbs) : k # 1 => iocbs'[k] = iocbs[k]  BY <1>5, <3>1, Zenon
    <3>5. iocbs' \in Seq(Iocb)  BY <1>1 DEF SerialInv
    <3>6. Len(iocbs') = Len(iocbs)  BY <1>2, <3>2, <3>5, LenProperties
    <3> QED BY <3>3, <3>4, <3>6
  <2>4. iocbs' # <<>> /\ Head(iocbs') = iocbs'[1]
    <3>1. iocbs' \in Seq(Iocb)  BY <1>1 DEF SerialInv
    <3>2. iocbs' # <<>>  BY <1>5, <2>3, EmptySeq
    <3> QED BY <3>1, <3>2
  <2>5. Head(iocbs').op = "READ" /\ Head(iocbs').size = n /\ Head(iocbs').buf = heard'
    BY <1>5, <1>7, <2>3, <2>4 DEF Iocb
  <2>6. Len(heard') = Len(heard) + 1 /\ Len(heard) \in Nat
    BY <1>2, AppendProperties, LenProperties
  <2>7. IF event' THEN Ended(heard', heard', n) ELSE Unended(heard', n)
    <3>1. n \in Nat  BY <2>2, SerialAssumption
    <3>2. event' = (Len(heard) + 1 = n \/ b = CR)  BY <2>1, <2>2
    <3> HIDE DEF n
    <3>3. IF Len(heard) + 1 = n \/ b = CR THEN Ended(heard', heard', n) ELSE Unended(heard', n)
      BY <1>2, <2>2, <3>1, ReadGoesOn
    <3> QED BY <3>2, <3>3
  <2>8. Served'  BY <2>1, <2>2, <2>4, <2>5, <2>6, <2>7 DEF Served
  <2>9. Untouched'
    <3>1. ASSUME NEW k \in 1..Len(iocbs')
          PROVE  IF iocbs'[k].op = "WRITE" THEN Len(iocbs'[k].buf) = iocbs'[k].size
                 ELSE k > 1 => iocbs'[k].buf = <<>>
      <4>1. CASE k = 1  BY <2>4, <2>5, <4>1
      <4>2. CASE k # 1
        <5>1. iocbs'[k] = iocbs[k] /\ k \in 1..Len(iocbs)  BY <2>3, <4>2
        <5> QED BY <5>1 DEF BytesInv, Untouched
      <4> QED BY <4>1, <4>2
    <3> QED BY <3>1 DEF Untouched
  <2>10. WireInOrder'
    <3>1. GivenOut = <<>> /\ GivenOut' = <<>>  BY <1>7, <2>5 DEF GivenOut
    <3> QED BY <1>2, <1>3, <3>1, WireFollows
  <2>11. buffer_idx' \in 0..MaxLen
    BY <2>1, <2>2, <2>6, SerialAssumption DEF Unended
  <2> QED BY <1>1, <1>4, <2>1, <2>8, <2>9, <2>10, <2>11 DEF BytesInv
<1>8. CASE Head(iocbs).op = "READ" /\ event /\ UNCHANGED <<iocbs, buffer_idx, event, ring>>
  <2>1. Served'
    <3>1. Ended(Head(iocbs).buf, heard, Head(iocbs).size) /\ Head(iocbs).size \in Nat
      BY <1>2, <1>5, <1>8, SerialAssumption DEF BytesInv, Served, Iocb
    <3>2. Ended(Head(iocbs).buf, heard', Head(iocbs).size)
      BY <1>2, <3>1, EndedStays
    <3> QED BY <1>8, <3>2 DEF Served
  <2>2. Untouched'  BY <1>8 DEF BytesInv, Untouched
  <2>3. WireInOrder'
    <3>1. GivenOut' = GivenOut  BY <1>8 DEF GivenOut
    <3> QED BY <1>2, <1>3, <3>1, WireFollows
  <2> QED BY <1>1, <1>4, <1>8, <2>1, <2>2, <2>3 DEF BytesInv, ring
<1> QED BY <1>2, <1>6, <1>7, <1>8 DEF InputIrq, Accepts

(* A byte is sent: the next one of the WRITE follows it. *)
LEMMA OutputBytes ==
  ASSUME BytesInv, OutputIrq
  PROVE  BytesInv'
<1> DEFINE w == Head(iocbs).buf
           n == Head(iocbs).size
<1>1. SerialInv'  BY OutputSteps DEF BytesInv
<1>2. /\ iocbs # <<>> /\ event = FALSE /\ Head(iocbs).op = "WRITE"
      /\ UNCHANGED <<iocbs, rbuffer, done, heard>> /\ buffer_idx' = buffer_idx + 1
      /\ buffer_idx \in 0..MaxLen
  BY DEF OutputIrq, ring, BytesInv, SerialInv
<1>3. wire = FlattenSeq(Written(done)) \o GivenOut /\ wire \in Seq(Bytes)
      /\ GivenOut \in Seq(Bytes) /\ FlattenSeq(Written(done)) \in Seq(Bytes)
  BY WireTyped DEF BytesInv
<1>4. /\ FlattenSeq(Written(done))' \in Seq(Bytes) /\ Finished'
      /\ (done \in Seq(Completion))' /\ heard' \in Seq(Bytes) /\ Untouched'
  BY <1>2 DEF BytesInv, Written, Finished, Untouched
<1>5. /\ w \in Seq(Bytes) /\ Len(w) = n /\ n \in 1..MaxLen /\ buffer_idx < n
  BY <1>2, HeadOfQueue DEF Iocb, BytesInv, Served
<1>6. GivenOut = SubSeq(w, 1, buffer_idx + 1)
  <2>1. Min2(buffer_idx + 1, n) = buffer_idx + 1  BY <1>2, <1>5, SerialAssumption DEF Min2
  <2> QED BY <1>2, <2>1 DEF GivenOut
<1>7. GivenOut' = SubSeq(w, 1, Min2(buffer_idx + 2, n))
  <2>1. GivenOut' = SubSeq(w, 1, Min2(buffer_idx' + 1, n))  BY <1>2 DEF GivenOut
  <2>2. buffer_idx' + 1 = buffer_idx + 2  BY <1>2
  <2> HIDE DEF w, n
  <2> QED BY <2>1, <2>2
<1>8. buffer_idx' \in 0..MaxLen  BY <1>2, <1>5, SerialAssumption
<1> HIDE DEF w
<1>9. CASE buffer_idx + 1 = n
  <2>1. event' = TRUE /\ wire' = wire  BY <1>9 DEF OutputIrq
  <2>2. Served'  BY <1>2, <1>9, <2>1 DEF Served
  <2>3. WireInOrder'
    <3>1. Min2(buffer_idx + 2, n) = buffer_idx + 1  BY <1>2, <1>9 DEF Min2
    <3>2. GivenOut' = GivenOut  BY <1>6, <1>7, <3>1
    <3> QED BY <1>2, <1>3, <2>1, <3>2, WireFollows
  <2> QED BY <1>1, <1>2, <1>4, <1>8, <2>2, <2>3 DEF BytesInv
<1>10. CASE buffer_idx + 1 # n
  <2>1. event' = FALSE /\ wire' = Append(wire, w[buffer_idx + 2])
    BY <1>2, <1>10 DEF OutputIrq, NextOut, w
  <2>2. Served'
    <3>1. buffer_idx' < n  BY <1>2, <1>5, <1>10, SerialAssumption
    <3> QED BY <1>2, <2>1, <3>1 DEF Served
  <2>3. WireInOrder'
    <3> DEFINE m == buffer_idx + 2
    <3>1. m \in 1..Len(w) /\ 1 \in 1..Len(w) /\ m \in 1..Len(w) /\ m - 1 = buffer_idx + 1
      BY <1>2, <1>5, <1>10, SerialAssumption
    <3>2. Min2(buffer_idx + 2, n) = m  BY <1>2, <1>5, <1>10, SerialAssumption DEF Min2
    <3>3. w[m] \in Bytes  BY <1>5, <3>1, ElementOfSeq
    <3>4. SubSeq(w, 1, m) = SubSeq(w, 1, m - 1) \o <<w[m]>>
      BY <1>5, <3>1, SubSeqRecursiveSecond
    <3>5. GivenOut' = GivenOut \o <<w[m]>>  BY <1>6, <1>7, <3>1, <3>2, <3>4
    <3>6. wire' = wire \o <<w[m]>>  BY <1>3, <2>1, <3>3, AppendIsConcat
    <3>7. <<w[m]>> \in Seq(Bytes)  BY <3>3
    <3> HIDE DEF m
    <3>8. wire' = FlattenSeq(Written(done)) \o GivenOut'
      BY <1>3, <3>5, <3>6, <3>7, ConcatAssociative
    <3> QED BY <1>2, <3>8, WireFollows
  <2> QED BY <1>1, <1>2, <1>4, <1>8, <2>2, <2>3 DEF BytesInv
<1> QED BY <1>9, <1>10

LEMMA NextBytes == BytesInv /\ [Next]_vars => BytesInv'
<1> SUFFICES ASSUME BytesInv, [Next]_vars PROVE BytesInv'  OBVIOUS
<1>1. ASSUME NEW r \in Request, Schedule(r) PROVE BytesInv'  BY <1>1, ScheduleBytes
<1>2. CASE CheckIo  BY <1>2, CheckBytes
<1>3. ASSUME NEW b \in Bytes, InputIrq(b) PROVE BytesInv'  BY <1>3, InputBytes
<1>4. CASE OutputIrq  BY <1>4, OutputBytes
<1>5. CASE UNCHANGED vars
  <2>1. UNCHANGED <<iocbs, event, buffer_idx, ring, thri, wire, done, heard>>
    BY <1>5 DEF vars
  <2>2. SerialInv'  BY <2>1 DEF BytesInv, SerialInv, RingEmpty, ring
  <2>3. Untouched' /\ Served'  BY <2>1 DEF BytesInv, Untouched, Served
  <2>4. Finished' /\ FlattenSeq(Written(done))' \in Seq(Bytes)
    BY <2>1 DEF BytesInv, Finished, Written
  <2>5. GivenOut' = GivenOut  BY <2>1 DEF GivenOut
  <2>6. WireInOrder'  BY <2>1, <2>5, WireTyped, WireFollows
  <2> QED BY <2>1, <2>2, <2>3, <2>4, <2>6 DEF BytesInv, ring
<1> QED BY <1>1, <1>2, <1>3, <1>4, <1>5 DEF Next

LEMMA BytesAlways == Spec => []BytesInv
BY InitBytes, NextBytes, PTL DEF Spec

-----------------------------------------------------------------------------
(* What the invariant says of a READ, in the words of the properties. *)
LEMMA BytesRead == BytesInv => ReadsWhatWasTyped
<1> SUFFICES ASSUME BytesInv PROVE ReadsWhatWasTyped  OBVIOUS
<1>1. ASSUME iocbs # <<>>, Head(iocbs).op = "READ"
      PROVE  Head(iocbs).buf = Line(heard, Head(iocbs).size)
  <2>1. Head(iocbs).size \in Nat /\ heard \in Seq(Bytes) /\ event \in BOOLEAN
    BY <1>1, HeadOfQueue, SerialAssumption DEF Iocb, BytesInv, SerialInv
  <2>2. CASE event
    <3>1. Ended(Head(iocbs).buf, heard, Head(iocbs).size)
      BY <1>1, <2>2 DEF BytesInv, Served
    <3> QED BY <2>1, <3>1, LineEnded
  <2>3. CASE ~event
    <3>1. Head(iocbs).buf = heard /\ Unended(heard, Head(iocbs).size)
      BY <1>1, <2>3 DEF BytesInv, Served
    <3> QED BY <2>1, <3>1, LineUnended
  <2> QED BY <2>2, <2>3
<1>2. ASSUME NEW i \in DOMAIN done, done[i].iocb.op = "READ"
      PROVE  LET r == done[i].iocb
             IN  /\ r.buf = Line(done[i].typed, r.size)
                 /\ Len(r.buf) = r.size \/ Last(r.buf) = CR
  <2>1. i \in 1..Len(done) /\ done[i] \in Completion
    BY LenProperties, ElementOfSeq DEF BytesInv
  <2>2. done[i].iocb.size \in Nat /\ done[i].typed \in Seq(Bytes)
    BY <2>1, SerialAssumption DEF Completion, Iocb
  <2>3. Ended(done[i].iocb.buf, done[i].typed, done[i].iocb.size)
    BY <1>2, <2>1 DEF BytesInv, Finished
  <2> QED BY <2>2, <2>3, LineEnded
<1> QED BY <1>1, <1>2 DEF ReadsWhatWasTyped

LEMMA TextOf ==
  ASSUME NEW s \in Seq(Bytes), Len(s) <= MaxLen
  PROVE  s \in Text \cup {<<>>}
<1>1. Len(s) \in Nat /\ s \in [1..Len(s) -> Bytes]  BY LenProperties
<1>2. s = <<>> \/ Len(s) \in 1..MaxLen  BY <1>1, SerialAssumption, EmptySeq
<1> QED BY <1>1, <1>2 DEF Text

LEMMA BytesTyped == BytesInv => SerialTypeOK
<1> SUFFICES ASSUME BytesInv PROVE SerialTypeOK  OBVIOUS
<1>1. /\ iocbs \in Seq(Iocb) /\ event \in BOOLEAN /\ thri \in BOOLEAN /\ RingEmpty
      /\ DOMAIN iocbs = 1..Len(iocbs)
  BY LenProperties DEF BytesInv, SerialInv
<1>2. ASSUME NEW k \in DOMAIN iocbs PROVE iocbs[k].buf \in Text \cup {<<>>}
  <2>1. k \in 1..Len(iocbs) /\ iocbs[k] \in Iocb  BY <1>1, ElementOfSeq
  <2>2. CASE iocbs[k].op = "WRITE"
    BY <2>1, <2>2, SerialAssumption, TextOf DEF BytesInv, Untouched, Iocb
  <2>3. CASE iocbs[k].op = "READ" /\ k > 1
    BY <2>1, <2>3 DEF BytesInv, Untouched
  <2>4. CASE iocbs[k].op = "READ" /\ k = 1
    <3>1. /\ iocbs # <<>> /\ Head(iocbs) = iocbs[k] /\ heard \in Seq(Bytes)
          /\ iocbs[k].size \in 1..MaxLen /\ iocbs[k].size \in Nat
      <4>1. iocbs # <<>>  BY <2>1, EmptySeq
      <4> QED BY <2>1, <2>4, <4>1, HeadOfQueue, SerialAssumption DEF BytesInv, Iocb
    <3>2. CASE event
      <4>1. Ended(iocbs[k].buf, heard, iocbs[k].size)
        BY <2>4, <3>1, <3>2 DEF BytesInv, Served
      <4>2. iocbs[k].buf \in Seq(Bytes) /\ Len(iocbs[k].buf) \in 1..iocbs[k].size
        BY <3>1, <4>1, LineEnded
      <4>3. Len(iocbs[k].buf) <= MaxLen  BY <3>1, <4>2, SerialAssumption
      <4> QED BY <4>2, <4>3, TextOf
    <3>3. CASE ~event
      <4>1. iocbs[k].buf = heard /\ Len(heard) < iocbs[k].size
        BY <2>4, <3>1, <3>3 DEF BytesInv, Served, Unended
      <4>2. Len(heard) <= MaxLen  BY <3>1, <4>1, LenProperties, SerialAssumption
      <4> QED BY <3>1, <4>1, <4>2, TextOf
    <3> QED BY <1>1, <3>2, <3>3
  <2>5. k = 1 \/ k > 1  BY <2>1
  <2> QED BY <2>1, <2>2, <2>3, <2>4, <2>5 DEF Iocb
<1>3. \A k \in DOMAIN iocbs : iocbs[k] \in Iocb  BY <1>1, ElementOfSeq
<1> QED BY <1>1, <1>2, <1>3 DEF SerialTypeOK, BytesInv, RingEmpty, Iocb

(* The variables of the driver have their types: no index of serial.c leaves *)
(* the ring buffer or passes the end of the buffer of a request.             *)
THEOREM DriverTyped == Spec => []SerialTypeOK
BY BytesAlways, BytesTyped, PTL

(* The bytes of the WRITEs reach the UART once each, in the order of the     *)
(* requests, across every change from one request to the next.               *)
THEOREM BytesInOrder == Spec => []WireInOrder
<1>1. BytesInv => WireInOrder  BY DEF BytesInv
<1> QED BY <1>1, BytesAlways, PTL

(* A READ holds what was typed from its start on, to the first carriage      *)
(* return or the end of its buffer.                                          *)
THEOREM TypedIsRead == Spec => []ReadsWhatWasTyped
BY BytesAlways, BytesRead, PTL
=============================================================================
