---------------------------- MODULE KernelProofs ----------------------------
(* Theorems about the kernel for any number of PCBs, names, commands and     *)
(* requests.  First what holds whatever is typed: the types, the device, and *)
(* the wake-up.  Then, as long as no process exits while its priority is     *)
(* being set, the queues, and what the steps of the kernel do with them.     *)
EXTENDS KernelProperties, PcbQueuesProofs

-----------------------------------------------------------------------------
(* Every operation on a device keeps its type and leaves it consistent, for  *)
(* any number of requests and any buffer size.                               *)
Request(P, n) == [pcb : P, op : IoOp, size : 1..n]

(* A queue that is not empty has a head in it and a tail behind it. *)
LEMMA QueueParts ==
  ASSUME NEW T, NEW q \in Seq(T), q # <<>>
  PROVE  /\ Head(q) \in T /\ Tail(q) \in Seq(T) /\ Head(q) = q[1]
         /\ Len(q) \in Nat \ {0} /\ Len(Tail(q)) = Len(q) - 1
         /\ \A i \in 1..(Len(q) - 1) : Tail(q)[i] = q[i + 1]
BY HeadTailProperties, EmptySeq, LenProperties, ElementOfSeq

(* A request put behind others leaves the head where it is. *)
LEMMA QueueAppend ==
  ASSUME NEW T, NEW q \in Seq(T), NEW r \in T
  PROVE  /\ Append(q, r) \in Seq(T) /\ Append(q, r) # <<>>
         /\ q # <<>> => Head(Append(q, r)) = Head(q)
BY AppendProperties, LenProperties, EmptySeq

(* What the type and the consistency of a device say of its fields. *)
LEMMA Fields ==
  ASSUME NEW P, NEW n \in Nat, NEW d \in DcbState(P, n), DcbConsistent(d)
  PROVE  /\ d.ops \in Seq(Request(P, n)) /\ d.idx \in 0..n
         /\ d.event \in BOOLEAN /\ d.thri \in BOOLEAN
         /\ d.ops # <<>> => Head(d.ops) \in Request(P, n)
         /\ d.event => d.ops # <<>>
         /\ d.thri <=> d.ops # <<>> /\ Head(d.ops).op = "WRITE" /\ ~d.event
         /\ d.ops # <<>> /\ ~d.event => d.idx < Head(d.ops).size
         /\ d.event => /\ d.idx \in 1..Head(d.ops).size
                       /\ Head(d.ops).op = "WRITE" => d.idx = Head(d.ops).size
<1>1. d.ops \in Seq(Request(P, n))  BY DEF DcbState, Request
<1>2. d.ops # <<>> => Head(d.ops) \in Request(P, n)  BY <1>1, QueueParts
<1> QED BY <1>1, <1>2 DEF DcbState, DcbConsistent, DeviceIdle, Doing

(* serial_schedule_io, whether the device was idle or busy. *)
LEMMA ScheduleIoSafe ==
  ASSUME NEW P, NEW n \in Nat, NEW d \in DcbState(P, n), DcbConsistent(d),
         NEW r \in Request(P, n)
  PROVE  ScheduleIo(d, r) \in DcbState(P, n) /\ DcbConsistent(ScheduleIo(d, r))
<1> DEFINE D == ScheduleIo(d, r)
<1>1. CASE DeviceIdle(d)
  <2> DEFINE q == <<r>>
  <2>1. q \in Seq(Request(P, n)) /\ q # <<>> /\ Head(q) = r /\ 0 < r.size /\ 0 \in 0..n
    BY DEF Request
  <2>2. ~d.thri /\ ~d.event /\ d \in DcbState(P, n)  BY <1>1, Fields DEF DeviceIdle
  <2> HIDE DEF q
  <2>3. D.ops = q /\ D.idx = 0 /\ ~D.event /\ (D.thri <=> r.op = "WRITE")
    BY <1>1, <2>2 DEF ScheduleIo, DcbState, q
  <2>4. D \in DcbState(P, n)
    BY <1>1, <2>1, <2>2 DEF ScheduleIo, DcbState, Request, q
  <2> HIDE DEF D
  <2>5. DcbConsistent(D)  BY <2>1, <2>3 DEF DcbConsistent, DeviceIdle, Doing
  <2> QED BY <2>4, <2>5 DEF D
<1>2. CASE ~DeviceIdle(d)
  <2> DEFINE q == Append(d.ops, r)
  <2>1. q \in Seq(Request(P, n)) /\ q # <<>> /\ d.ops # <<>> /\ Head(q) = Head(d.ops)
    BY <1>2, Fields, QueueAppend DEF DeviceIdle
  <2> HIDE DEF q
  <2>2. D.ops = q /\ D.idx = d.idx /\ (D.event <=> d.event) /\ (D.thri <=> d.thri)
    BY <1>2 DEF ScheduleIo, DcbState, q
  <2>3. D \in DcbState(P, n)
    BY <1>2, <2>1 DEF ScheduleIo, DcbState, Request, q
  <2> HIDE DEF D
  <2>4. DcbConsistent(D)  BY <2>1, <2>2 DEF DcbConsistent, DeviceIdle, Doing
  <2> QED BY <2>3, <2>4 DEF D
<1> QED BY <1>1, <1>2

(* serial_check_io after an event. *)
LEMMA NextIoSafe ==
  ASSUME NEW P, NEW n \in Nat, NEW d \in DcbState(P, n), DcbConsistent(d), d.event
  PROVE  NextIo(d) \in DcbState(P, n) /\ DcbConsistent(NextIo(d))
<1> DEFINE q == Tail(d.ops)
           D == NextIo(d)
<1>1. q \in Seq(Request(P, n)) /\ (q # <<>> => Head(q) \in Request(P, n))
  BY Fields, QueueParts
<1>2. ~d.thri /\ 0 \in 0..n  BY Fields
<1> HIDE DEF q
<1>3. D.ops = q /\ ~D.event /\ (D.thri <=> q # <<>> /\ Head(q).op = "WRITE")
      /\ (q # <<>> => D.idx = 0)
  BY <1>2 DEF NextIo, DcbState, q
<1>4. D \in DcbState(P, n)
  BY <1>1, <1>2 DEF NextIo, DcbState, Request, q
<1>5. q # <<>> => 0 < Head(q).size  BY <1>1 DEF Request
<1> HIDE DEF D
<1>6. DcbConsistent(D)
  BY <1>3, <1>5 DEF DcbConsistent, DeviceIdle, Doing
<1> QED BY <1>4, <1>6 DEF D

(* serial_input_interrupt with any byte: buffer_idx stays within the buffer. *)
LEMMA InputByteSafe ==
  ASSUME NEW P, NEW n \in Nat, NEW d \in DcbState(P, n), DcbConsistent(d),
         NEW cr \in BOOLEAN
  PROVE  InputByte(d, cr) \in DcbState(P, n) /\ DcbConsistent(InputByte(d, cr))
<1> DEFINE D == InputByte(d, cr)
           k == d.idx + 1
           size == Head(d.ops).size
<1>1. CASE Doing(d, "READ") /\ ~d.event
  <2>1. /\ d.ops # <<>> /\ Head(d.ops).op = "READ" /\ ~d.thri
        /\ Head(d.ops) \in Request(P, n) /\ d.idx \in 0..n /\ d.idx < size
    BY <1>1, Fields DEF Doing, DeviceIdle
  <2>2. k \in 0..n /\ k \in 1..size /\ (k # size => k < size)  BY <2>1 DEF Request
  <2>3. D.ops = d.ops /\ D.idx = k /\ (D.event <=> cr \/ k = size) /\ ~D.thri
    BY <1>1, <2>1 DEF InputByte, DcbState
  <2>4. D \in DcbState(P, n)  BY <1>1, <2>2 DEF InputByte, DcbState
  <2> HIDE DEF D, k
  <2>5. DcbConsistent(D)
    BY <2>1, <2>2, <2>3 DEF DcbConsistent, DeviceIdle, Doing
  <2> QED BY <2>4, <2>5 DEF D
<1> QED BY <1>1 DEF InputByte

(* serial_output_interrupt: the interrupt is off with the last byte. *)
LEMMA OutputDoneSafe ==
  ASSUME NEW P, NEW n \in Nat, NEW d \in DcbState(P, n), DcbConsistent(d)
  PROVE  OutputDone(d) \in DcbState(P, n) /\ DcbConsistent(OutputDone(d))
<1> DEFINE D == OutputDone(d)
           k == d.idx + 1
           size == Head(d.ops).size
<1>1. CASE Doing(d, "WRITE") /\ ~d.event
  <2>1. /\ d.ops # <<>> /\ Head(d.ops).op = "WRITE" /\ d.thri
        /\ Head(d.ops) \in Request(P, n) /\ d.idx \in 0..n /\ d.idx < size
    BY <1>1, Fields DEF Doing, DeviceIdle
  <2>2. k \in 0..n /\ k \in 1..size /\ (k # size => k < size)  BY <2>1 DEF Request
  <2>3. D.ops = d.ops /\ D.idx = k /\ (D.event <=> k = size) /\ (D.thri <=> k # size)
    BY <1>1, <2>1 DEF OutputDone, DcbState
  <2>4. D \in DcbState(P, n)  BY <1>1, <2>2 DEF OutputDone, DcbState
  <2> HIDE DEF D, k
  <2>5. DcbConsistent(D)
    BY <2>1, <2>2, <2>3 DEF DcbConsistent, DeviceIdle, Doing
  <2> QED BY <2>4, <2>5 DEF D
<1> QED BY <1>1 DEF OutputDone

-----------------------------------------------------------------------------
(* Whose requests are on the device, and that nobody has two. *)
Owners(d) == {d.ops[k].pcb : k \in DOMAIN d.ops}
OneEach(d) == \A j, k \in DOMAIN d.ops : d.ops[j].pcb = d.ops[k].pcb => j = k

(* A process without a request gets one. *)
LEMMA ScheduleIoOwners ==
  ASSUME NEW P, NEW n \in Nat, NEW d \in DcbState(P, n), OneEach(d),
         NEW r \in Request(P, n), r.pcb \notin Owners(d)
  PROVE  /\ OneEach(ScheduleIo(d, r))
         /\ Owners(ScheduleIo(d, r)) = Owners(d) \cup {r.pcb}
<1> DEFINE q == Append(d.ops, r)
           D == ScheduleIo(d, r)
<1>1. d.ops \in Seq(Request(P, n))  BY DEF DcbState, Request
<1>2. Len(d.ops) \in Nat /\ DOMAIN d.ops = 1..Len(d.ops)  BY <1>1, LenProperties
<1>3. /\ DOMAIN q = 1..(Len(d.ops) + 1) /\ q[Len(d.ops) + 1] = r
      /\ \A k \in 1..Len(d.ops) : q[k] = d.ops[k]
  BY <1>1, <1>2, AppendProperties, LenProperties
<1>4. D.ops = q
  <2>1. CASE DeviceIdle(d)
    <3>1. D.ops = <<r>>  BY <2>1 DEF ScheduleIo, DcbState
    <3>2. q = <<r>>  BY <2>1 DEF DeviceIdle
    <3> QED BY <3>1, <3>2
  <2>2. CASE ~DeviceIdle(d)  BY <2>2 DEF ScheduleIo, DcbState
  <2> QED BY <2>1, <2>2
<1> HIDE DEF q, D
<1>5. \A k \in DOMAIN q : k = Len(d.ops) + 1 \/ k \in 1..Len(d.ops)
  BY <1>2, <1>3
<1>6. OneEach(D)
  BY <1>2, <1>3, <1>4, <1>5 DEF OneEach, Owners
<1>7. Owners(D) = Owners(d) \cup {r.pcb}
  <2>1. ASSUME NEW x \in Owners(D) PROVE x \in Owners(d) \cup {r.pcb}
    BY <1>2, <1>3, <1>4, <1>5 DEF Owners
  <2>2. ASSUME NEW x \in Owners(d) \cup {r.pcb} PROVE x \in Owners(D)
    <3>1. 1..Len(d.ops) \subseteq DOMAIN q /\ Len(d.ops) + 1 \in DOMAIN q
      BY <1>2, <1>3
    <3> QED BY <1>2, <1>3, <1>4, <3>1 DEF Owners
  <2> QED BY <2>1, <2>2
<1> QED BY <1>6, <1>7 DEF D

(* A process whose request is done is no longer an owner; the others still are. *)
LEMMA NextIoOwners ==
  ASSUME NEW P, NEW n \in Nat, NEW d \in DcbState(P, n), OneEach(d), d.ops # <<>>
  PROVE  /\ OneEach(NextIo(d))
         /\ Head(d.ops).pcb \in Owners(d)
         /\ Owners(NextIo(d)) = Owners(d) \ {Head(d.ops).pcb}
<1> DEFINE q == Tail(d.ops)
           D == NextIo(d)
<1>1. d.ops \in Seq(Request(P, n))  BY DEF DcbState, Request
<1>2. /\ q \in Seq(Request(P, n)) /\ Len(d.ops) \in Nat \ {0} /\ Len(q) = Len(d.ops) - 1
      /\ Head(d.ops) = d.ops[1]
      /\ \A i \in 1..(Len(d.ops) - 1) : q[i] = d.ops[i + 1]
  BY <1>1, QueueParts
<1>3. DOMAIN q = 1..(Len(d.ops) - 1) /\ DOMAIN d.ops = 1..Len(d.ops)
  BY <1>1, <1>2, LenProperties
<1>4. D.ops = q  BY DEF NextIo, DcbState
<1> HIDE DEF q, D
<1>5. /\ 1 \in DOMAIN d.ops
      /\ \A i \in DOMAIN q : i + 1 \in DOMAIN d.ops /\ i + 1 # 1
      /\ \A i, j \in DOMAIN q : i + 1 = j + 1 => i = j
      /\ \A i \in DOMAIN d.ops : i # 1 => i - 1 \in DOMAIN q /\ (i - 1) + 1 = i
  BY <1>2, <1>3
<1>6. OneEach(D)
  <2> SUFFICES ASSUME NEW i \in DOMAIN q, NEW j \in DOMAIN q, q[i].pcb = q[j].pcb
               PROVE  i = j
    BY <1>4 DEF OneEach
  <2>1. q[i] = d.ops[i + 1] /\ q[j] = d.ops[j + 1]  BY <1>2, <1>3
  <2>2. i + 1 = j + 1  BY <1>5, <2>1 DEF OneEach
  <2> QED BY <1>5, <2>2
<1>7. Head(d.ops).pcb \in Owners(d)  BY <1>2, <1>5 DEF Owners
<1>8. ASSUME NEW x \in Owners(D) PROVE x \in Owners(d) \ {Head(d.ops).pcb}
  <2>1. PICK i \in DOMAIN q : q[i].pcb = x  BY <1>4, <1>8 DEF Owners
  <2>2. d.ops[i + 1].pcb = x  BY <1>2, <1>3, <2>1
  <2> QED BY <1>2, <1>5, <2>1, <2>2 DEF Owners, OneEach
<1>9. ASSUME NEW x \in Owners(d) \ {Head(d.ops).pcb} PROVE x \in Owners(D)
  <2>1. PICK i \in DOMAIN d.ops : d.ops[i].pcb = x  BY <1>9 DEF Owners
  <2>2. i # 1  BY <1>2, <1>9, <2>1
  <2>3. q[i - 1] = d.ops[(i - 1) + 1] /\ i - 1 \in DOMAIN q  BY <1>2, <1>3, <1>5, <2>1, <2>2
  <2>4. q[i - 1].pcb = x  BY <1>5, <2>1, <2>2, <2>3
  <2> QED BY <1>4, <2>3, <2>4 DEF Owners
<1> QED BY <1>6, <1>7, <1>8, <1>9 DEF D

-----------------------------------------------------------------------------
(* The kernel. *)

Asleep == mode \in {"halted", "awake"}

Queues == [QueueId -> Seq(Pcb)]
States == [Pcb -> PcbState]

(* An inductive invariant of every instance, in parts a step changes together: *)
(* the types; COM1 consistent, and open until kmain closes it; the indices and *)
(* pointers of the command handler set where it uses them; and what each mode  *)
(* of the CPU rests on: in the hlt loop nobody is ready and a request is there, *)
(* and hlt itself is entered with none complete.                               *)
SchedPart == queues \in Queues /\ st \in States /\ running \in Pcb \cup {NoPcb}
HeapPart  == name \in [Pcb -> Names] /\ allocated \subseteq Pcb
DcbPart   == /\ dcb \in DcbState(Pcb, MaxLen) /\ DcbConsistent(dcb)
             /\ mode # "off" => dcb.open
CmdPart   ==
  /\ pc \in {"menu", "read", "line", "load", "pri", "priread", "priline", "clean",
            "refused", "noline"}
  /\ held \in Pcb \cup {NoPcb} /\ loading \in 0..Len(R3Names) /\ loads \in 0..MaxLoads
  /\ pc = "load" => loading # 0
  /\ pc \in {"pri", "priread", "priline"} => held # NoPcb
ModePart  ==
  /\ mode \in Mode /\ origin \in BOOLEAN
  /\ mode = "run" => running # NoPcb
  /\ mode = "boot" => queues[0] # <<>>
  /\ Asleep => running = NoPcb /\ queues[0] = <<>> /\ ~DeviceIdle(dcb)
  /\ mode = "halted" => ~dcb.event

BaseInv == SchedPart /\ HeapPart /\ DcbPart /\ CmdPart /\ ModePart

-----------------------------------------------------------------------------
(* kmain opens COM1 and starts the command handler and the idle process.     *)
LEMMA InitBase == Init => BaseInv
<1> SUFFICES ASSUME Init PROVE BaseInv
  OBVIOUS
<1>1. queues \in Queues /\ queues[0] # <<>>
  <2>1. <<ComhandPcb, IdlePcb>> \in Seq(Pcb)  BY PcbAssumption
  <2>2. <<ComhandPcb, IdlePcb>> # <<>>  OBVIOUS
  <2>3. queues = [i \in 0..3 |-> IF i = 0 THEN <<ComhandPcb, IdlePcb>> ELSE <<>>]
    BY DEF Init, QueueId
  <2> QED BY <2>1, <2>2, <2>3 DEF Queues, QueueId
<1>2. st \in States
  <2>1. Zeroed \in PcbState /\ Fresh("SYSTEM", 0) \in PcbState /\ Fresh("SYSTEM", 9) \in PcbState
    BY DEF PcbState, Exec, Dpatch, Class, Pri, Fresh, Zeroed
  <2> QED BY <2>1 DEF Init, States
<1>3. name \in [Pcb -> Names]
  <2>1. "" \in Names /\ "comhand" \in Names /\ "idle" \in Names  BY DEF Names
  <2> QED BY <2>1 DEF Init
<1>4. /\ dcb.open = TRUE /\ dcb.ops = <<>> /\ dcb.event = FALSE /\ dcb.idx = 0
      /\ dcb.thri = FALSE
  BY DEF Init, OpenedDcb
<1>5. dcb \in DcbState(Pcb, MaxLen)
  <2>1. <<>> \in Seq([pcb : Pcb, op : IoOp, size : 1..MaxLen])  OBVIOUS
  <2>2. 0 \in 0..MaxLen  BY BoundAssumption
  <2> QED BY <2>1, <2>2 DEF Init, OpenedDcb, DcbState
<1>6. 0 \in 0..Len(R3Names)
  <2>1. Len(R3Names) \in Nat  BY NameAssumption, LenProperties
  <2> QED BY <2>1
<1>7. 0 \in 0..MaxLoads  BY BoundAssumption
<1>8. SchedPart /\ HeapPart /\ CmdPart
  BY <1>1, <1>2, <1>3, <1>6, <1>7, PcbAssumption DEF SchedPart, HeapPart, CmdPart, Init
<1>9. DcbPart
  BY <1>4, <1>5 DEF DcbPart, DcbConsistent, DeviceIdle, Doing
<1>10. ModePart
  BY <1>1 DEF ModePart, Mode, Asleep, Init
<1> QED BY <1>8, <1>9, <1>10 DEF BaseInv

(* sys_check_io leaves queues, states and device well formed, and no finished *)
(* request behind.                                                            *)
LEMMA CheckedBase ==
  ASSUME BaseInv, mode # "off"
  PROVE  /\ CheckedQueues \in Queues /\ CheckedSt \in States
         /\ CheckedDcb \in DcbState(Pcb, MaxLen) /\ DcbConsistent(CheckedDcb)
         /\ CheckedDcb.open /\ ~CheckedDcb.event
         /\ Completed => Waiter \in Pcb
<1>1. /\ queues \in Queues /\ st \in States /\ dcb \in DcbState(Pcb, MaxLen)
      /\ DcbConsistent(dcb) /\ dcb.open /\ MaxLen \in Nat
  BY BoundAssumption DEF BaseInv, SchedPart, DcbPart
<1>2. CASE Completed
  <2>1. dcb.event  BY <1>2 DEF Completed
  <2>2. dcb.ops # <<>> /\ Head(dcb.ops) \in Request(Pcb, MaxLen)
    BY <1>1, <2>1, Fields
  <2>3. Waiter \in Pcb  BY <2>2 DEF Waiter, Request
  <2>4. CheckedSt \in States
    BY <1>1, <1>2, <2>3 DEF CheckedSt, States, PcbState, Exec
  <2>5. pcb_remove(queues, st, Waiter) \in Queues
    BY <1>1, <2>3, RemoveType DEF Queues, States
  <2>6. CheckedQueues \in Queues
    BY <1>2, <2>3, <2>4, <2>5, InsertType DEF CheckedQueues, Queues, States
  <2>7. CheckedDcb \in DcbState(Pcb, MaxLen) /\ DcbConsistent(CheckedDcb)
    BY <1>1, <1>2, <2>1, NextIoSafe DEF CheckedDcb
  <2>8. CheckedDcb.open /\ ~CheckedDcb.event
    BY <1>1, <1>2 DEF CheckedDcb, NextIo, DcbState
  <2> QED BY <2>3, <2>4, <2>6, <2>7, <2>8
<1>3. CASE ~Completed
  BY <1>1, <1>3 DEF CheckedSt, CheckedQueues, CheckedDcb, Completed
<1> QED BY <1>2, <1>3

(* The dispatcher takes a PCB, and only when there is one. *)
LEMMA DispatchBase ==
  ASSUME NEW qs \in Queues, NEW s \in States, qs[0] # <<>>, Dispatch(qs, s)
  PROVE  queues' \in Queues /\ st' \in States /\ running' \in Pcb /\ mode' = "run"
<1>1. Head(qs[0]) \in Pcb
  BY QueueParts DEF Queues, QueueId
<1>2. pcb_remove(qs, s, Head(qs[0])) \in Queues
  BY <1>1, RemoveType DEF Queues, States
<1> QED BY <1>1, <1>2 DEF Dispatch, States, PcbState, Exec

(* A system call leaves the command handler at a place that needs no more *)
(* than the place before.                                                 *)
LEMMA PcAfterPart ==
  ASSUME CmdPart, NEW op \in {"READ", "WRITE", "IDLE"}, Issues(op),
         pc' \in {PcAfter(op), PcRefused(op)}, UNCHANGED <<held, loading, loads>>
  PROVE  CmdPart'
BY DEF CmdPart, PcAfter, PcRefused, Issues

(* A page fault changes nothing but the mode. *)
LEMMA PanicBase == ASSUME BaseInv, mode # "off", Panic PROVE BaseInv'
<1>1. SchedPart /\ HeapPart /\ DcbPart /\ CmdPart /\ ModePart  BY DEF BaseInv
<1>2. UNCHANGED <<queues, st, running, name, allocated, origin, dcb, pc, held, loading, loads>>
      /\ mode' = "panic"
  BY DEF Panic, sched, heap, cmd
<1>3. SchedPart' /\ HeapPart' /\ CmdPart'
  BY <1>1, <1>2 DEF SchedPart, HeapPart, CmdPart
<1>4. DcbPart' /\ ModePart'
  BY <1>1, <1>2 DEF DcbPart, ModePart, Mode, Asleep
<1> QED BY <1>3, <1>4 DEF BaseInv

(* READ and WRITE: schedule, block, and dispatch or wait. *)
LEMMA SysIoBase ==
  ASSUME BaseInv, NEW op \in IoOp, NEW n \in 1..MaxLen, SysIo(op, n)
  PROVE  BaseInv'
<1>1. SchedPart /\ HeapPart /\ DcbPart /\ CmdPart /\ ModePart /\ mode = "run"
      /\ running \in Pcb
  BY DEF BaseInv, SysIo, Calling, SchedPart, ModePart
<1> DEFINE r == [pcb |-> running, op |-> op, size |-> n]
           s == [CheckedSt EXCEPT ![running].exec = "BLOCKED"]
           qs == pcb_insert(CheckedQueues, s, running)
<1>2. CheckedQueues \in Queues /\ CheckedSt \in States
      /\ CheckedDcb \in DcbState(Pcb, MaxLen) /\ DcbConsistent(CheckedDcb)
      /\ CheckedDcb.open /\ ~CheckedDcb.event
  BY <1>1, CheckedBase
<1>3. r \in Request(Pcb, MaxLen) /\ MaxLen \in Nat
  BY <1>1, BoundAssumption DEF Request
<1>4. s \in States
  BY <1>1, <1>2 DEF States, PcbState, Exec
<1>5. qs \in Queues
  BY <1>1, <1>2, <1>4, InsertType DEF Queues, States
<1>6. dcb' = ScheduleIo(CheckedDcb, r)  BY DEF SysIo
<1>7. /\ dcb' \in DcbState(Pcb, MaxLen) /\ DcbConsistent(dcb')
      /\ dcb'.open /\ ~dcb'.event /\ dcb'.ops # <<>>
  <2>1. dcb' \in DcbState(Pcb, MaxLen) /\ DcbConsistent(dcb')
    BY <1>2, <1>3, <1>6, ScheduleIoSafe
  <2>2. CheckedDcb.ops \in Seq(Request(Pcb, MaxLen))  BY <1>2, <1>3, Fields
  <2>3. Append(CheckedDcb.ops, r) # <<>> /\ <<r>> # <<>>
    BY <1>3, <2>2, QueueAppend
  <2> HIDE DEF r
  <2>4. dcb'.open /\ ~dcb'.event /\ dcb'.ops # <<>>
    BY <1>2, <1>6, <2>3 DEF ScheduleIo, DcbState
  <2> QED BY <2>1, <2>4
<1>8. /\ UNCHANGED <<name, allocated, origin, held, loading, loads>>
      /\ pc' = PcAfter(op) /\ Issues(op)
      /\ \/ qs[0] # <<>> /\ Dispatch(qs, s)
         \/ /\ qs[0] = <<>>
            /\ queues' = qs /\ st' = s /\ running' = NoPcb /\ mode' = "halted"
  BY DEF SysIo, heap
<1> HIDE DEF qs, s, r
<1>9. HeapPart' /\ CmdPart'
  BY <1>1, <1>8, PcAfterPart DEF HeapPart, IoOp
<1>10. CASE qs[0] # <<>> /\ Dispatch(qs, s)
  <2>1. queues' \in Queues /\ st' \in States /\ running' \in Pcb /\ mode' = "run"
    BY <1>4, <1>5, <1>10, DispatchBase
  <2> QED BY <1>1, <1>7, <1>8, <1>9, <2>1, PcbAssumption
          DEF BaseInv, SchedPart, DcbPart, ModePart, Mode, Asleep
<1>11. CASE /\ qs[0] = <<>>
            /\ queues' = qs /\ st' = s /\ running' = NoPcb /\ mode' = "halted"
  BY <1>1, <1>4, <1>5, <1>7, <1>8, <1>9, <1>11
     DEF BaseInv, SchedPart, DcbPart, ModePart, Mode, Asleep, DeviceIdle
<1> QED BY <1>8, <1>10, <1>11

(* A call that returns to its caller. *)
LEMMA SysReturnBase ==
  ASSUME BaseInv, NEW op \in IoOp \cup {"IDLE"}, SysReturn(op)
  PROVE  BaseInv'
<1>1. SchedPart /\ HeapPart /\ DcbPart /\ CmdPart /\ ModePart /\ mode = "run"
  BY DEF BaseInv, SysReturn, Calling
<1>2. CheckedQueues \in Queues /\ CheckedSt \in States
      /\ CheckedDcb \in DcbState(Pcb, MaxLen) /\ DcbConsistent(CheckedDcb)
      /\ CheckedDcb.open
  BY <1>1, CheckedBase
<1>3. /\ UNCHANGED <<running, mode, name, allocated, origin, held, loading, loads>>
      /\ queues' = CheckedQueues /\ st' = CheckedSt /\ dcb' = CheckedDcb
      /\ pc' = PcRefused(op) /\ Issues(op)
  BY DEF SysReturn, heap
<1>4. HeapPart' /\ CmdPart'
  BY <1>1, <1>3, PcAfterPart DEF HeapPart, IoOp
<1> QED BY <1>1, <1>2, <1>3, <1>4
        DEF BaseInv, SchedPart, DcbPart, ModePart, Asleep

(* IDLE with somebody ready. *)
LEMMA SysIdleBase == ASSUME BaseInv, SysIdle PROVE BaseInv'
<1>1. SchedPart /\ HeapPart /\ DcbPart /\ CmdPart /\ ModePart /\ mode = "run"
      /\ running \in Pcb
  BY DEF BaseInv, SysIdle, Calling, SchedPart, ModePart
<1>2. CheckedQueues \in Queues /\ CheckedSt \in States
      /\ CheckedDcb \in DcbState(Pcb, MaxLen) /\ DcbConsistent(CheckedDcb)
      /\ CheckedDcb.open
  BY <1>1, CheckedBase
<1> DEFINE next == Head(CheckedQueues[0])
           s == [CheckedSt EXCEPT ![running].exec = "READY"]
           qs == pcb_remove(CheckedQueues, CheckedSt, next)
<1>3. /\ CheckedQueues[0] # <<>>
      /\ queues' = pcb_insert(qs, s, running)
      /\ st' = [s EXCEPT ![next].exec = "RUNNING"] /\ running' = next
      /\ dcb' = CheckedDcb /\ pc' = PcAfter("IDLE") /\ Issues("IDLE")
      /\ UNCHANGED <<mode, name, allocated, origin, held, loading, loads>>
  BY DEF SysIdle, heap
<1>4. next \in Pcb  BY <1>2, <1>3, QueueParts DEF Queues, QueueId
<1>5. qs \in Queues  BY <1>2, <1>4, RemoveType DEF Queues, States
<1>6. s \in States  BY <1>1, <1>2 DEF States, PcbState, Exec
<1> HIDE DEF qs, s, next
<1>7. pcb_insert(qs, s, running) \in Queues
  BY <1>1, <1>5, <1>6, InsertType DEF Queues, States
<1>8. st' \in States  BY <1>3, <1>4, <1>6 DEF States, PcbState, Exec
<1>9. HeapPart' /\ CmdPart'
  BY <1>1, <1>3, PcAfterPart DEF HeapPart
<1> QED BY <1>1, <1>2, <1>3, <1>4, <1>7, <1>8, <1>9, PcbAssumption
        DEF BaseInv, SchedPart, DcbPart, ModePart, Asleep

(* EXIT: the next process, or kmain, or for want of both the caller again. *)
LEMMA SysExitBase == ASSUME BaseInv, SysExit PROVE BaseInv'
<1>1. SchedPart /\ HeapPart /\ DcbPart /\ CmdPart /\ ModePart /\ mode = "run"
      /\ running \in Pcb
  BY DEF BaseInv, SysExit, SchedPart, ModePart
<1>2. CheckedQueues \in Queues /\ CheckedSt \in States
      /\ CheckedDcb \in DcbState(Pcb, MaxLen) /\ DcbConsistent(CheckedDcb)
      /\ CheckedDcb.open
  BY <1>1, CheckedBase
<1> DEFINE s == [CheckedSt EXCEPT ![running] = Zeroed]
<1>3. s \in States
  BY <1>1, <1>2 DEF States, PcbState, Exec, Dpatch, Class, Pri, Zeroed
<1>4. /\ dcb' = CheckedDcb /\ UNCHANGED <<pc, held, loading, loads>>
      /\ allocated' = allocated \ {running} /\ name' = [name EXCEPT ![running] = ""]
      /\ \/ CheckedQueues[0] # <<>> /\ Dispatch(CheckedQueues, s) /\ origin' = origin
         \/ /\ queues' = CheckedQueues /\ st' = s
            /\ running' = IF origin THEN NoPcb ELSE running
            /\ mode' = IF origin THEN "closing" ELSE mode
            /\ origin' = FALSE
  BY DEF SysExit, cmd
<1> HIDE DEF s
<1>5. HeapPart' /\ CmdPart'
  BY <1>1, <1>4 DEF HeapPart, CmdPart, Names
<1>6. CASE CheckedQueues[0] # <<>> /\ Dispatch(CheckedQueues, s) /\ origin' = origin
  <2>1. queues' \in Queues /\ st' \in States /\ running' \in Pcb /\ mode' = "run"
    BY <1>2, <1>3, <1>6, DispatchBase
  <2> QED BY <1>1, <1>2, <1>4, <1>5, <1>6, <2>1, PcbAssumption
          DEF BaseInv, SchedPart, DcbPart, ModePart, Mode, Asleep
<1>7. CASE /\ queues' = CheckedQueues /\ st' = s
           /\ running' = IF origin THEN NoPcb ELSE running
           /\ mode' = IF origin THEN "closing" ELSE mode
           /\ origin' = FALSE
  BY <1>1, <1>2, <1>3, <1>4, <1>5, <1>7
     DEF BaseInv, SchedPart, DcbPart, ModePart, Mode, Asleep
<1> QED BY <1>4, <1>6, <1>7

(* The first int 0x60, the end of kmain, and a call that faults. *)
LEMMA KmainBase == ASSUME BaseInv, KmainIdle \/ KmainClose \/ SysFault PROVE BaseInv'
<1>1. SchedPart /\ HeapPart /\ DcbPart /\ CmdPart /\ ModePart
  BY DEF BaseInv
<1>2. CASE KmainIdle
  <2>1. queues[0] # <<>> /\ Dispatch(queues, st) /\ origin' = TRUE
        /\ UNCHANGED <<name, allocated, dcb, pc, held, loading, loads>> /\ mode = "boot"
    BY <1>1, <1>2 DEF KmainIdle, ModePart, heap, cmd
  <2>2. queues' \in Queues /\ st' \in States /\ running' \in Pcb /\ mode' = "run"
    BY <1>1, <2>1, DispatchBase DEF SchedPart
  <2> QED BY <1>1, <2>1, <2>2, PcbAssumption
          DEF BaseInv, SchedPart, HeapPart, DcbPart, CmdPart, ModePart, Mode, Asleep
<1>3. CASE KmainClose
  <2>1. /\ UNCHANGED <<queues, st, running, name, allocated, origin, pc, held, loading, loads>>
        /\ mode' = "off"
        /\ dcb' = IF DeviceIdle(dcb) THEN [dcb EXCEPT !.open = FALSE, !.thri = FALSE] ELSE dcb
    BY <1>3 DEF KmainClose, sched, heap, cmd
  <2>2. dcb' \in DcbState(Pcb, MaxLen) /\ DcbConsistent(dcb')
    <3>1. CASE DeviceIdle(dcb)
      <4>1. dcb' \in DcbState(Pcb, MaxLen)  BY <1>1, <2>1, <3>1 DEF DcbPart, DcbState
      <4>2. dcb'.ops = <<>> /\ ~dcb'.event /\ ~dcb'.thri
        BY <1>1, <2>1, <3>1 DEF DcbPart, DcbState, DcbConsistent, DeviceIdle
      <4> QED BY <4>1, <4>2 DEF DcbConsistent, DeviceIdle, Doing
    <3>2. CASE ~DeviceIdle(dcb)  BY <1>1, <2>1, <3>2 DEF DcbPart
    <3> QED BY <3>1, <3>2
  <2> QED BY <1>1, <2>1, <2>2
          DEF BaseInv, SchedPart, HeapPart, DcbPart, CmdPart, ModePart, Mode, Asleep
<1>4. CASE SysFault
  BY <1>4, PanicBase DEF SysFault, Calling, AtShutdownExit
<1> QED BY <1>2, <1>3, <1>4

(* The hlt loop: back to hlt, or to the process that became ready. *)
LEMMA WakeBase == ASSUME BaseInv, Wake PROVE BaseInv'
<1>1. SchedPart /\ HeapPart /\ DcbPart /\ CmdPart /\ ModePart /\ mode = "awake"
  BY DEF BaseInv, Wake
<1>2. CASE ~Completed /\ mode' = "halted" /\ UNCHANGED <<sched, heap, origin, dcb, cmd>>
  <2>1. UNCHANGED <<queues, st, running, name, allocated, origin, dcb, pc, held, loading, loads>>
    BY <1>2 DEF sched, heap, cmd
  <2>2. ~dcb.event  BY <1>1, <1>2 DEF Completed, DcbPart
  <2> QED BY <1>1, <1>2, <2>1, <2>2
          DEF BaseInv, SchedPart, HeapPart, DcbPart, CmdPart, ModePart, Mode, Asleep
<1>3. CASE /\ CheckedQueues[0] # <<>> /\ Dispatch(CheckedQueues, CheckedSt)
           /\ dcb' = CheckedDcb /\ UNCHANGED <<heap, origin, cmd>>
  <2>1. UNCHANGED <<name, allocated, origin, pc, held, loading, loads>>
    BY <1>3 DEF heap, cmd
  <2>2. CheckedQueues \in Queues /\ CheckedSt \in States
        /\ CheckedDcb \in DcbState(Pcb, MaxLen) /\ DcbConsistent(CheckedDcb)
        /\ CheckedDcb.open
    BY <1>1, CheckedBase
  <2>3. queues' \in Queues /\ st' \in States /\ running' \in Pcb /\ mode' = "run"
    BY <1>3, <2>2, DispatchBase
  <2> QED BY <1>1, <1>3, <2>1, <2>2, <2>3, PcbAssumption
          DEF BaseInv, SchedPart, HeapPart, DcbPart, CmdPart, ModePart, Mode, Asleep
<1>4. CASE Panic  BY <1>1, <1>4, PanicBase
<1> QED BY <1>2, <1>3, <1>4 DEF Wake

(* An interrupt: it moves the device on, or follows a NULL head. *)
LEMMA InterruptBase ==
  ASSUME BaseInv, Interruptible, NEW d \in DcbState(Pcb, MaxLen), DcbConsistent(d),
         d.ops = dcb.ops, d.open = dcb.open, Interrupt(d)
  PROVE  BaseInv'
<1>1. SchedPart /\ HeapPart /\ DcbPart /\ CmdPart /\ ModePart
      /\ mode \in {"boot", "run", "halted", "awake", "closing"}
  BY DEF BaseInv, Interruptible
<1>2. CASE DeviceIdle(dcb)
  BY <1>1, <1>2, PanicBase DEF Interrupt
<1>3. CASE ~DeviceIdle(dcb)
  <2>1. /\ UNCHANGED <<queues, st, running, name, allocated, origin, pc, held, loading, loads>>
        /\ dcb' = d /\ mode' = IF mode = "halted" THEN "awake" ELSE mode
    BY <1>3 DEF Interrupt, sched, heap, cmd
  <2>2. SchedPart' /\ HeapPart' /\ CmdPart'
    BY <1>1, <2>1 DEF SchedPart, HeapPart, CmdPart
  <2>3. DcbPart' /\ ModePart'
    BY <1>1, <2>1 DEF DcbPart, ModePart, Mode, Asleep, DeviceIdle
  <2> QED BY <2>2, <2>3 DEF BaseInv
<1> QED BY <1>2, <1>3

(* Both interrupt handlers keep the requests. *)
LEMMA IrqBase == ASSUME BaseInv, Irq PROVE BaseInv'
<1>1. dcb \in DcbState(Pcb, MaxLen) /\ DcbConsistent(dcb) /\ MaxLen \in Nat
  BY BoundAssumption DEF BaseInv, DcbPart
<1>2. CASE OutputIrq
  <2>1. OutputDone(dcb).ops = dcb.ops /\ OutputDone(dcb).open = dcb.open
    BY <1>1 DEF OutputDone, DcbState
  <2> QED BY <1>1, <1>2, <2>1, OutputDoneSafe, InterruptBase DEF OutputIrq
<1>3. ASSUME NEW cr \in BOOLEAN, InputIrq(cr) PROVE BaseInv'
  <2>1. InputByte(dcb, cr).ops = dcb.ops /\ InputByte(dcb, cr).open = dcb.open
    BY <1>1 DEF InputByte, DcbState
  <2> QED BY <1>1, <1>3, <2>1, InputByteSafe, InterruptBase DEF InputIrq
<1> QED BY <1>2, <1>3 DEF Irq

(* A command moves PCBs between the queues and changes the heap; the process *)
(* on the CPU and the device stay.                                           *)
LEMMA CommandBase ==
  ASSUME BaseInv, mode = "run", UNCHANGED <<running, mode, origin, dcb>>,
         queues' \in Queues, st' \in States, HeapPart', CmdPart'
  PROVE  BaseInv'
BY DEF BaseInv, SchedPart, DcbPart, ModePart, Asleep

(* pcb_setup and pcb_insert keep the queues and states well formed. *)
LEMMA CreateTypes ==
  ASSUME SchedPart, HeapPart, NEW p \in Pcb, NEW n \in Names, NEW pri \in Pri, Create(p, n, pri)
  PROVE  queues' \in Queues /\ st' \in States /\ HeapPart'
<1>1. st' \in States
  <2>1. Fresh("USER", pri) \in PcbState  BY DEF PcbState, Fresh, Exec, Dpatch, Class
  <2> QED BY <2>1 DEF Create, SchedPart, States
<1>2. queues' \in Queues
  BY <1>1, InsertType DEF Create, SchedPart, Queues, States
<1> QED BY <1>1, <1>2 DEF Create, HeapPart

(* So do pcb_remove and pcb_insert with a new state between them. *)
LEMMA RequeueTypes ==
  ASSUME SchedPart, HeapPart, NEW p \in Pcb, NEW s \in PcbState, Requeue(p, s)
  PROVE  queues' \in Queues /\ st' \in States /\ HeapPart'
<1>1. st' \in States  BY DEF Requeue, SchedPart, States
<1>2. pcb_remove(queues, st, p) \in Queues
  BY RemoveType DEF SchedPart, Queues, States
<1>3. queues' \in Queues
  BY <1>1, <1>2, InsertType DEF Requeue, Queues, States
<1> QED BY <1>1, <1>3 DEF Requeue, HeapPart, heap

(* And pcb_remove and pcb_free. *)
LEMMA FreeTypes ==
  ASSUME SchedPart, HeapPart, NEW p \in Pcb, Free(p), queues' = pcb_remove(queues, st, p)
  PROVE  queues' \in Queues /\ st' \in States /\ HeapPart'
<1>1. st' \in States
  <2>1. Zeroed \in PcbState  BY DEF PcbState, Zeroed, Exec, Dpatch, Class, Pri
  <2> QED BY <2>1 DEF Free, SchedPart, States
<1>2. queues' \in Queues  BY RemoveType DEF SchedPart, Queues, States
<1>3. "" \in Names  BY DEF Names
<1> QED BY <1>1, <1>2, <1>3 DEF Free, HeapPart

(* Every command of the command handler. *)
LEMMA ComhandBase == ASSUME BaseInv, Comhand PROVE BaseInv'
<1>1. SchedPart /\ HeapPart /\ CmdPart
  BY DEF BaseInv
<1>2. CASE LoadR3
  <2>1. 1 \in 0..Len(R3Names) /\ loads + 1 \in 0..MaxLoads
    <3>1. Len(R3Names) \in Nat \ {0}  BY NameAssumption, EmptySeq, LenProperties
    <3> QED BY <1>1, <1>2, <3>1, BoundAssumption DEF LoadR3, CmdPart
  <2>2. /\ UNCHANGED <<queues, st, running, name, allocated, mode, origin, dcb, held>>
        /\ pc' = "load" /\ loading' = 1 /\ loads' = loads + 1 /\ mode = "run"
    BY <1>2 DEF LoadR3, AtLine, sched, heap
  <2>3. HeapPart' /\ CmdPart' /\ queues' \in Queues /\ st' \in States
    BY <1>1, <2>1, <2>2 DEF SchedPart, HeapPart, CmdPart
  <2> QED BY <2>2, <2>3, CommandBase
<1>3. CASE LoadNext
  <2> DEFINE n == R3Names[loading]
  <2>1. mode = "run" /\ pc = "load"  BY <1>3 DEF LoadNext
  <2>2. Len(R3Names) \in Nat /\ loading \in 1..Len(R3Names)
    BY <1>1, <2>1, NameAssumption, LenProperties DEF CmdPart
  <2>3. n \in Names  BY <2>2, NameAssumption, LenProperties DEF Names, ToSet
  <2>4. CASE Panic  BY <2>1, <2>4, PanicBase
  <2>5. ASSUME NEW p \in Pcb, Create(p, n, 1),
               pc' = IF loading = Len(R3Names) THEN "menu" ELSE "load",
               loading' = IF loading = Len(R3Names) THEN 0 ELSE loading + 1,
               UNCHANGED <<held, loads>>
        PROVE  BaseInv'
    <3> HIDE DEF n
    <3>1. queues' \in Queues /\ st' \in States /\ HeapPart'
      BY <1>1, <2>3, <2>5, CreateTypes DEF Pri
    <3>2. CmdPart'  BY <1>1, <2>2, <2>5 DEF CmdPart
    <3> QED BY <2>1, <2>5, <3>1, <3>2, CommandBase DEF Create
  <2> QED BY <1>3, <2>4, <2>5 DEF LoadNext
<1>4. CASE Alarm
  <2>1. mode = "run"  BY <1>4 DEF Alarm, AtLine
  <2>2. CASE Panic  BY <2>1, <2>2, PanicBase
  <2>3. ASSUME NEW n \in TimerNames, NEW p \in Pcb, Create(p, n, 0),
               pc' = "menu", UNCHANGED <<held, loading, loads>>
        PROVE  BaseInv'
    <3>1. n \in Names  BY <2>3 DEF Names
    <3>2. 0 \in Pri  BY DEF Pri
    <3>3. queues' \in Queues /\ st' \in States /\ HeapPart'
      BY <1>1, <2>3, <3>1, <3>2, CreateTypes
    <3>4. CmdPart'  BY <1>1, <2>3 DEF CmdPart
    <3> QED BY <2>1, <2>3, <3>3, <3>4, CommandBase DEF Create
  <2> QED BY <1>4, <2>2, <2>3 DEF Alarm
<1>5. CASE Shutdown
  <2>1. /\ UNCHANGED <<queues, st, running, name, allocated, mode, origin, dcb>>
        /\ UNCHANGED <<held, loading, loads>> /\ pc' = "clean" /\ mode = "run"
    BY <1>5 DEF Shutdown, AtLine, sched, heap
  <2>2. HeapPart' /\ CmdPart' /\ queues' \in Queues /\ st' \in States
    BY <1>1, <2>1 DEF SchedPart, HeapPart, CmdPart
  <2> QED BY <2>1, <2>2, CommandBase
<1>6. CASE CleanNext
  <2>1. PICK i \in QueueId : /\ queues[i] # <<>>
                             /\ queues' = pcb_remove(queues, st, Head(queues[i]))
                             /\ Free(Head(queues[i]))
    BY <1>6 DEF CleanNext
  <2>2. Head(queues[i]) \in Pcb  BY <1>1, <2>1, QueueParts DEF SchedPart, Queues
  <2>3. queues' \in Queues /\ st' \in States /\ HeapPart'
    BY <1>1, <2>1, <2>2, FreeTypes
  <2>4. CmdPart'  BY <1>1, <1>6 DEF CleanNext, CmdPart, cmd
  <2> QED BY <1>6, <2>3, <2>4, CommandBase DEF CleanNext
<1>7. ASSUME NEW p \in Pcb, Suspend(p) \/ Resume(p) PROVE BaseInv'
  <2>1. PICK s \in PcbState : Requeue(p, s)
    <3>1. st[p] \in PcbState  BY <1>1 DEF SchedPart, States
    <3>2. /\ [st[p] EXCEPT !.dpatch = "SUSPENDED"] \in PcbState
          /\ [st[p] EXCEPT !.dpatch = "ACTIVE"] \in PcbState
      BY <3>1 DEF PcbState, Dpatch
    <3> QED BY <1>7, <3>2 DEF Suspend, Resume
  <2>2. queues' \in Queues /\ st' \in States /\ HeapPart'
    BY <1>1, <2>1, RequeueTypes
  <2>3. CmdPart'  BY <1>1, <1>7 DEF Suspend, Resume, CmdPart
  <2>4. mode = "run"  BY <1>7 DEF Suspend, Resume, AtLine
  <2> QED BY <2>1, <2>2, <2>3, <2>4, CommandBase DEF Requeue
<1>8. ASSUME NEW p \in Pcb, Delete(p) PROVE BaseInv'
  <2>1. queues' \in Queues /\ st' \in States /\ HeapPart'
    BY <1>1, <1>8, FreeTypes DEF Delete
  <2>2. CmdPart'  BY <1>1, <1>8 DEF Delete, CmdPart
  <2> QED BY <1>8, <2>1, <2>2, CommandBase DEF Delete, AtLine
<1>9. ASSUME NEW p \in Pcb, PriorityFind(p) PROVE BaseInv'
  <2>1. /\ UNCHANGED <<queues, st, running, name, allocated, mode, origin, dcb>>
        /\ UNCHANGED <<loading, loads>> /\ held' = p /\ pc' = "pri" /\ mode = "run"
    BY <1>9 DEF PriorityFind, AtLine, sched, heap
  <2>2. HeapPart' /\ CmdPart' /\ queues' \in Queues /\ st' \in States
    BY <1>1, <2>1, PcbAssumption DEF SchedPart, HeapPart, CmdPart
  <2> QED BY <2>1, <2>2, CommandBase
<1>10. ASSUME NEW k \in PriChoices, PrioritySet(k) PROVE BaseInv'
  <2>1. held \in Pcb  BY <1>1, <1>10 DEF PrioritySet, CmdPart
  <2>2. [st[held] EXCEPT !.pri = k] \in PcbState
    BY <1>1, <2>1, CommandAssumption DEF SchedPart, States, PcbState
  <2>3. queues' \in Queues /\ st' \in States /\ HeapPart'
    BY <1>1, <1>10, <2>1, <2>2, RequeueTypes DEF PrioritySet
  <2>4. CmdPart'  BY <1>1, <1>10 DEF PrioritySet, CmdPart
  <2> QED BY <1>10, <2>3, <2>4, CommandBase DEF PrioritySet, Requeue
<1>11. CASE ClearNoLine  BY <1>11, PanicBase DEF ClearNoLine
<1> QED BY <1>2, <1>3, <1>4, <1>5, <1>6, <1>7, <1>8, <1>9, <1>10, <1>11 DEF Comhand

(* Every step of the kernel keeps the base invariant. *)
LEMMA NextBase == BaseInv /\ [Next]_vars => BaseInv'
<1> SUFFICES ASSUME BaseInv, [Next]_vars PROVE BaseInv'
  OBVIOUS
<1>1. CASE Syscall
  BY <1>1, SysIoBase, SysReturnBase, SysIdleBase, SysExitBase, KmainBase
     DEF Syscall, Yield
<1>2. CASE Wake       BY <1>2, WakeBase
<1>3. CASE Irq        BY <1>3, IrqBase
<1>4. CASE Comhand    BY <1>4, ComhandBase
<1>5. CASE KmainClose BY <1>5, KmainBase
<1>6. CASE UNCHANGED vars
  BY <1>6 DEF vars, BaseInv, SchedPart, HeapPart, DcbPart, CmdPart, ModePart, Asleep
<1> QED BY <1>1, <1>2, <1>3, <1>4, <1>5, <1>6 DEF Next

(* The base invariant is what the runs check, and more. *)
LEMMA BaseImplies == BaseInv => TypeOK /\ DeviceConsistent /\ NoLostWakeup
BY DEF BaseInv, SchedPart, HeapPart, DcbPart, CmdPart, ModePart, Queues, States, Asleep,
       TypeOK, DeviceConsistent, NoLostWakeup

(* Whatever the commands, processes and interrupts: the kernel's state stays *)
(* in its types, buffer_idx within the buffer included.                      *)
THEOREM TypeCorrect == Spec => []TypeOK
BY InitBase, NextBase, BaseImplies, PTL DEF Spec

(* The iocb queue, the event flag, buffer_idx and the write-interrupt enable *)
(* agree in every state, also when requests of freed processes are queued.   *)
THEOREM DeviceSafe == Spec => []DeviceConsistent
BY InitBase, NextBase, BaseImplies, PTL DEF Spec

(* The sti/hlt loop of READ and WRITE never sleeps over a completion: hlt is *)
(* entered only with a request pending and not complete.                     *)
THEOREM WakeupNotLost == Spec => []NoLostWakeup
BY InitBase, NextBase, BaseImplies, PTL DEF Spec

-----------------------------------------------------------------------------
(* The rest holds as long as the process whose priority is being set has not *)
(* exited when setPcbPriorityCommand goes on with the pointer it found: its  *)
(* next use would queue freed memory.  Where the user never sets a priority, *)
(* it always holds.                                                          *)
HeldAlive == held # NoPcb => held \in allocated

InCall == mode \in {"run", "halted", "awake"}

(* QueuesSound is inductive together with who waits for the device: a process *)
(* is BLOCKED exactly when it owns the one request it has, and shutdown is    *)
(* not interrupted by any other process.                                      *)
OwnPart ==
  /\ OneEach(dcb)
  /\ \A p \in allocated : st[p].exec = "BLOCKED" <=> p \in Owners(dcb)
CallPart ==
  /\ InCall => origin
  /\ mode = "boot" => running = NoPcb /\ pc # "clean"
  /\ pc = "clean" /\ InCall => mode = "run" /\ running = ComhandPcb
QueueInv == QueuesSound /\ OwnPart /\ CallPart

(* kmain has queued the two system processes by priority. *)
LEMMA InitQueue == Init => QueueInv
<1> SUFFICES ASSUME Init PROVE QueueInv
  OBVIOUS
<1> DEFINE q == <<ComhandPcb, IdlePcb>>
<1>1. /\ queues = [i \in 0..3 |-> IF i = 0 THEN q ELSE <<>>]
      /\ allocated = {ComhandPcb, IdlePcb} /\ running = NoPcb
      /\ mode = "boot" /\ pc = "menu" /\ dcb.ops = <<>>
  BY DEF Init, QueueId, OpenedDcb
<1>2. IsInjective(q) /\ ToSet(q) = {ComhandPcb, IdlePcb}
  <2>1. DOMAIN q = {1, 2} /\ q[1] = ComhandPcb /\ q[2] = IdlePcb  OBVIOUS
  <2> HIDE DEF q
  <2> QED BY <2>1, PcbAssumption DEF IsInjective, ToSet
<1>3. IsInjective(<<>>) /\ ToSet(<<>>) = {}  BY DEF IsInjective, ToSet
<1>4. \A p \in allocated : st[p].exec = "READY" /\ Selector(st[p]) = 0
  <2>1. \A p \in allocated : st[p] \in {Fresh("SYSTEM", 0), Fresh("SYSTEM", 9)}
    BY <1>1, PcbAssumption DEF Init
  <2> QED BY <2>1 DEF Fresh, Selector
<1> HIDE DEF q
<1>5. allocated \ {running} = allocated  BY <1>1, PcbAssumption
<1>6. Holds(queues, st, allocated)
  BY <1>1, <1>2, <1>3, <1>4 DEF Holds, QueueId
<1>7. RunningRight  BY <1>1 DEF RunningRight
<1>8. OwnPart
  <2>1. DOMAIN dcb.ops = {}  BY <1>1
  <2> QED BY <1>1, <1>4, <2>1 DEF OwnPart, OneEach, Owners
<1>9. CallPart  BY <1>1 DEF CallPart, InCall
<1> QED BY <1>5, <1>6, <1>7, <1>8, <1>9 DEF QueueInv, QueuesSound

(* sys_check_io puts the process whose request is complete, and no other, *)
(* from its blocked queue into the ready queue it belongs to.             *)
LEMMA CheckedQueue ==
  ASSUME BaseInv, QueueInv, mode # "off", ~CheckFaults
  PROVE  /\ Holds(CheckedQueues, CheckedSt, allocated \ {running})
         /\ OneEach(CheckedDcb)
         /\ \A p \in allocated : CheckedSt[p].exec = "BLOCKED" <=> p \in Owners(CheckedDcb)
         /\ Owners(CheckedDcb) \subseteq Owners(dcb)
         /\ \A p \in Pcb : CheckedSt[p].dpatch = st[p].dpatch
         /\ running \in Pcb => CheckedSt[running] = st[running]
         /\ Completed => Waiter \in allocated \ {running}
<1>1. /\ queues \in [QueueId -> Seq(Pcb)] /\ st \in [Pcb -> PcbState]
      /\ allocated \subseteq Pcb /\ MaxLen \in Nat /\ dcb \in DcbState(Pcb, MaxLen)
      /\ DcbConsistent(dcb)
  BY BoundAssumption DEF BaseInv, SchedPart, HeapPart, DcbPart, Queues, States
<1>2. /\ Holds(queues, st, allocated \ {running}) /\ RunningRight /\ OneEach(dcb)
      /\ \A p \in allocated : st[p].exec = "BLOCKED" <=> p \in Owners(dcb)
  BY DEF QueueInv, QueuesSound, OwnPart
<1>3. CASE ~Completed
  BY <1>2, <1>3 DEF CheckedQueues, CheckedSt, CheckedDcb
<1>4. CASE Completed
  <2> DEFINE S == allocated \ {running}
             qs == pcb_remove(queues, st, Waiter)
  <2>1. dcb.ops # <<>>  BY <1>1, <1>4, Fields DEF Completed
  <2>2. /\ OneEach(CheckedDcb) /\ Waiter \in Owners(dcb)
        /\ Owners(CheckedDcb) = Owners(dcb) \ {Waiter}
    BY <1>1, <1>2, <1>4, <2>1, NextIoOwners DEF CheckedDcb, Waiter
  <2>3. Waiter \in allocated /\ st[Waiter].exec = "BLOCKED"
    BY <1>2, <1>4, <2>2 DEF CheckFaults
  <2>4. Waiter # running /\ Waiter \in S
    BY <1>1, <1>2, <2>3, PcbAssumption DEF RunningRight
  <2>5. /\ CheckedSt = [st EXCEPT ![Waiter].exec = "READY"]
        /\ CheckedQueues = pcb_insert(qs, CheckedSt, Waiter)
    BY <1>4 DEF CheckedSt, CheckedQueues
  <2>6. /\ CheckedSt \in [Pcb -> PcbState] /\ CheckedSt[Waiter].exec = "READY"
        /\ \A p \in Pcb : p # Waiter => CheckedSt[p] = st[p]
        /\ \A p \in Pcb : CheckedSt[p].dpatch = st[p].dpatch
    <3>1. Waiter \in Pcb /\ st[Waiter] \in PcbState /\ "READY" \in Exec
      BY <1>1, <2>3 DEF Exec
    <3>2. [st[Waiter] EXCEPT !.exec = "READY"] \in PcbState
      BY <3>1 DEF PcbState
    <3>3. CheckedSt = [st EXCEPT ![Waiter] = [st[Waiter] EXCEPT !.exec = "READY"]]
      BY <1>1, <2>5
    <3>4. CheckedSt \in [Pcb -> PcbState] /\ \A p \in Pcb : p # Waiter => CheckedSt[p] = st[p]
      BY <1>1, <3>1, <3>2, <3>3
    <3>5. CheckedSt[Waiter].exec = "READY" /\ CheckedSt[Waiter].dpatch = st[Waiter].dpatch
      BY <1>1, <3>1, <3>3 DEF PcbState
    <3>6. ASSUME NEW p \in Pcb PROVE CheckedSt[p].dpatch = st[p].dpatch
      <4>1. CASE p = Waiter  BY <3>5, <4>1
      <4>2. CASE p # Waiter  BY <3>4, <4>2
      <4> QED BY <4>1, <4>2
    <3>7. \A p \in Pcb : CheckedSt[p].dpatch = st[p].dpatch  BY ONLY <3>6, Zenon
    <3>8. CheckedSt[Waiter].exec = "READY"  BY <3>5
    <3> QED BY <3>4, <3>7, <3>8
  <2>7. qs \in [QueueId -> Seq(Pcb)] /\ Holds(qs, st, S \ {Waiter})
    BY <1>1, <1>2, <2>4, RemoveType, RemoveHolds
  <2>8. Holds(qs, CheckedSt, S \ {Waiter})
    <3> HIDE DEF qs
    <3>1. S \ {Waiter} \in SUBSET Pcb  BY <1>1
    <3>2. \A x \in S \ {Waiter} : CheckedSt[x] = st[x]  BY <2>6, <3>1
    <3> QED BY <2>7, <3>1, <3>2, ChangeHolds
  <2>9. Holds(CheckedQueues, CheckedSt, (S \ {Waiter}) \cup {Waiter})
    BY <1>1, <2>4, <2>5, <2>6, <2>7, <2>8, InsertHolds
  <2>10. (S \ {Waiter}) \cup {Waiter} = S  BY <2>4
  <2>11. \A p \in allocated : CheckedSt[p].exec = "BLOCKED" <=> p \in Owners(CheckedDcb)
    BY <1>1, <1>2, <2>2, <2>3, <2>6
  <2> QED BY <1>1, <2>2, <2>4, <2>6, <2>9, <2>10, <2>11
<1> QED BY <1>3, <1>4

(* The dispatcher takes an active READY process out of the queues. *)
LEMMA DispatchQueue ==
  ASSUME NEW qs \in Queues, NEW s \in States, NEW A \in SUBSET Pcb, Holds(qs, s, A),
         qs[0] # <<>>, Dispatch(qs, s)
  PROVE  /\ running' \in A /\ mode' = "run" /\ Holds(queues', st', A \ {running'})
         /\ st'[running'].exec = "RUNNING" /\ st'[running'].dpatch = "ACTIVE"
         /\ s[running'].exec = "READY"
         /\ \A p \in Pcb : p # running' => st'[p] = s[p]
<1> DEFINE h == Head(qs[0])
<1>1. /\ running' = h /\ mode' = "run" /\ queues' = pcb_remove(qs, s, h)
      /\ st' = [s EXCEPT ![h].exec = "RUNNING"]
  BY DEF Dispatch
<1>2. h \in A /\ Selector(s[h]) = 0
  BY HeadHolds DEF Queues, QueueId
<1> HIDE DEF h
<1>3. s[h].exec = "READY" /\ s[h].dpatch = "ACTIVE"
  BY <1>2 DEF Selector, States, PcbState, Dpatch, Exec
<1>4. /\ st'[h].exec = "RUNNING" /\ st'[h].dpatch = "ACTIVE"
      /\ \A p \in Pcb : p # h => st'[p] = s[p]
  BY <1>1, <1>2, <1>3 DEF States, PcbState
<1>5. Holds(queues', s, A \ {h}) /\ queues' \in Queues
  BY <1>1, <1>2, RemoveHolds, RemoveType DEF Queues, States
<1>6. Holds(queues', st', A \ {h})
  BY <1>4, <1>5, ChangeHolds DEF Queues
<1> QED BY <1>1, <1>2, <1>3, <1>4, <1>6

(* What every system call starts from: the caller is live, RUNNING, and in no *)
(* queue, and shutdown is not under way.                                      *)
LEMMA CallerFacts ==
  ASSUME BaseInv, QueueInv, mode = "run"
  PROVE  /\ running \in allocated /\ running \in Pcb /\ running # NoPcb
         /\ st[running].exec = "RUNNING" /\ st[running].dpatch = "ACTIVE"
         /\ running \notin Owners(dcb) /\ origin /\ allocated \subseteq Pcb
         /\ Calling => pc # "clean"
BY DEF BaseInv, SchedPart, HeapPart, ModePart, QueueInv, QueuesSound, RunningRight, OwnPart,
       CallPart, InCall, Calling

(* READ and WRITE: the caller is queued as BLOCKED and owns one request. *)
LEMMA SysIoQueue ==
  ASSUME BaseInv, QueueInv, NEW op \in IoOp, NEW n \in 1..MaxLen, SysIo(op, n)
  PROVE  QueueInv'
<1> DEFINE r == [pcb |-> running, op |-> op, size |-> n]
           s == [CheckedSt EXCEPT ![running].exec = "BLOCKED"]
           qs == pcb_insert(CheckedQueues, s, running)
<1>1. /\ mode = "run" /\ Calling /\ ~CheckFaults
      /\ dcb' = ScheduleIo(CheckedDcb, r) /\ allocated' = allocated /\ origin' = origin
      /\ pc' = PcAfter(op)
      /\ \/ qs[0] # <<>> /\ Dispatch(qs, s)
         \/ /\ qs[0] = <<>>
            /\ queues' = qs /\ st' = s /\ running' = NoPcb /\ mode' = "halted"
  BY DEF SysIo, Calling, heap
<1>2. /\ running \in allocated /\ running \in Pcb /\ running # NoPcb
      /\ st[running].exec = "RUNNING" /\ st[running].dpatch = "ACTIVE"
      /\ running \notin Owners(dcb) /\ origin /\ allocated \subseteq Pcb /\ pc # "clean"
  BY <1>1, CallerFacts
<1>3. /\ CheckedQueues \in Queues /\ CheckedSt \in States
      /\ CheckedDcb \in DcbState(Pcb, MaxLen)
  BY <1>1, CheckedBase
<1>4. /\ Holds(CheckedQueues, CheckedSt, allocated \ {running})
      /\ OneEach(CheckedDcb)
      /\ \A p \in allocated : CheckedSt[p].exec = "BLOCKED" <=> p \in Owners(CheckedDcb)
      /\ Owners(CheckedDcb) \subseteq Owners(dcb)
  BY <1>1, CheckedQueue
<1>5. s \in States /\ s[running].exec = "BLOCKED"
      /\ \A p \in Pcb : p # running => s[p] = CheckedSt[p]
  BY <1>2, <1>3 DEF States, PcbState, Exec
<1>6. r \in Request(Pcb, MaxLen) /\ r.pcb = running /\ MaxLen \in Nat
  BY <1>2, BoundAssumption DEF Request
<1> HIDE DEF r, s
<1>7. OneEach(dcb') /\ Owners(dcb') = Owners(CheckedDcb) \cup {running}
  BY <1>1, <1>2, <1>3, <1>4, <1>6, ScheduleIoOwners
<1>8. Holds(CheckedQueues, s, allocated \ {running})
  BY <1>2, <1>3, <1>4, <1>5, ChangeHolds DEF Queues
<1>9. Holds(qs, s, (allocated \ {running}) \cup {running}) /\ qs \in Queues
  BY <1>2, <1>3, <1>5, <1>8, InsertHolds, InsertType DEF Queues, States
<1>10. (allocated \ {running}) \cup {running} = allocated  BY <1>2
<1>11. \A p \in allocated : s[p].exec = "BLOCKED" <=> p \in Owners(dcb')
  BY <1>2, <1>4, <1>5, <1>7
<1>12. pc' # "clean"
  BY <1>1, <1>2 DEF PcAfter, IoOp
<1> HIDE DEF qs
<1>13. CASE qs[0] # <<>> /\ Dispatch(qs, s)
  <2>1. /\ running' \in allocated /\ mode' = "run"
        /\ Holds(queues', st', allocated \ {running'})
        /\ st'[running'].exec = "RUNNING" /\ st'[running'].dpatch = "ACTIVE"
        /\ s[running'].exec = "READY"
        /\ \A p \in Pcb : p # running' => st'[p] = s[p]
    BY <1>2, <1>5, <1>9, <1>10, <1>13, DispatchQueue
  <2>2. \A p \in allocated : st'[p].exec = "BLOCKED" <=> p \in Owners(dcb')
    BY <1>2, <1>11, <2>1
  <2> QED BY <1>1, <1>2, <1>7, <1>12, <2>1, <2>2
          DEF QueueInv, QueuesSound, RunningRight, OwnPart, CallPart, InCall
<1>14. CASE /\ queues' = qs /\ st' = s /\ running' = NoPcb /\ mode' = "halted"
  <2>1. allocated' \ {running'} = allocated  BY <1>1, <1>2, <1>14, PcbAssumption
  <2> QED BY <1>1, <1>2, <1>7, <1>9, <1>10, <1>11, <1>12, <1>14, <2>1
          DEF QueueInv, QueuesSound, RunningRight, OwnPart, CallPart, InCall
<1> QED BY <1>1, <1>13, <1>14

(* A call that returns to its caller only notices the completion. *)
LEMMA SysReturnQueue ==
  ASSUME BaseInv, QueueInv, NEW op \in IoOp \cup {"IDLE"}, SysReturn(op)
  PROVE  QueueInv'
<1>1. /\ mode = "run" /\ Calling /\ ~CheckFaults
      /\ queues' = CheckedQueues /\ st' = CheckedSt /\ dcb' = CheckedDcb
      /\ UNCHANGED <<running, mode, allocated, origin>>
      /\ pc' = PcRefused(op)
  BY DEF SysReturn, Calling, heap
<1>2. /\ running \in allocated /\ running \in Pcb
      /\ st[running].exec = "RUNNING" /\ st[running].dpatch = "ACTIVE"
      /\ origin /\ pc # "clean"
  BY <1>1, CallerFacts
<1>3. /\ Holds(CheckedQueues, CheckedSt, allocated \ {running})
      /\ OneEach(CheckedDcb)
      /\ \A p \in allocated : CheckedSt[p].exec = "BLOCKED" <=> p \in Owners(CheckedDcb)
      /\ Owners(CheckedDcb) \subseteq Owners(dcb) /\ CheckedSt[running] = st[running]
  BY <1>1, <1>2, CheckedQueue
<1>4. pc' # "clean"  BY <1>1, <1>2 DEF PcAfter, PcRefused, IoOp
<1> QED BY <1>1, <1>2, <1>3, <1>4
        DEF QueueInv, QueuesSound, RunningRight, OwnPart, CallPart, InCall

(* IDLE swaps the caller with the head of the ready queue. *)
LEMMA SysIdleQueue == ASSUME BaseInv, QueueInv, SysIdle PROVE QueueInv'
<1> DEFINE next == Head(CheckedQueues[0])
           s == [CheckedSt EXCEPT ![running].exec = "READY"]
           qs == pcb_remove(CheckedQueues, CheckedSt, next)
           S == allocated \ {running}
<1>1. /\ mode = "run" /\ Calling /\ ~CheckFaults /\ CheckedQueues[0] # <<>>
      /\ queues' = pcb_insert(qs, s, running)
      /\ st' = [s EXCEPT ![next].exec = "RUNNING"] /\ running' = next
      /\ dcb' = CheckedDcb /\ pc' = PcAfter("IDLE")
      /\ UNCHANGED <<mode, allocated, origin>>
  BY DEF SysIdle, Calling, heap
<1>2. /\ running \in allocated /\ running \in Pcb /\ running # NoPcb
      /\ st[running].exec = "RUNNING" /\ st[running].dpatch = "ACTIVE"
      /\ running \notin Owners(dcb) /\ origin /\ allocated \subseteq Pcb /\ pc # "clean"
  BY <1>1, CallerFacts
<1>3. CheckedQueues \in Queues /\ CheckedSt \in States
  BY <1>1, CheckedBase
<1>4. /\ Holds(CheckedQueues, CheckedSt, S)
      /\ OneEach(CheckedDcb)
      /\ \A p \in allocated : CheckedSt[p].exec = "BLOCKED" <=> p \in Owners(CheckedDcb)
      /\ Owners(CheckedDcb) \subseteq Owners(dcb)
  BY <1>1, CheckedQueue
<1>5. next \in S /\ Selector(CheckedSt[next]) = 0
  BY <1>1, <1>3, <1>4, HeadHolds DEF Queues, QueueId
<1> HIDE DEF next
<1>6. CheckedSt[next].exec = "READY" /\ CheckedSt[next].dpatch = "ACTIVE"
  BY <1>2, <1>3, <1>5 DEF Selector, States, PcbState, Dpatch, Exec
<1>7. /\ s \in States /\ s[running].exec = "READY"
      /\ \A p \in Pcb : p # running => s[p] = CheckedSt[p]
  BY <1>2, <1>3 DEF States, PcbState, Exec
<1> HIDE DEF s
<1>8. /\ st'[next].exec = "RUNNING" /\ st'[next].dpatch = "ACTIVE"
      /\ \A p \in Pcb : p # next => st'[p] = s[p]
  BY <1>1, <1>2, <1>5, <1>6, <1>7 DEF States, PcbState
<1>9. qs \in Queues /\ Holds(qs, CheckedSt, S \ {next})
  BY <1>2, <1>3, <1>4, <1>5, RemoveHolds, RemoveType DEF Queues, States
<1> HIDE DEF qs
<1>10. Holds(qs, s, S \ {next})
  BY <1>2, <1>7, <1>9, ChangeHolds DEF Queues
<1>11. Holds(queues', s, (S \ {next}) \cup {running}) /\ queues' \in Queues
  BY <1>1, <1>2, <1>7, <1>9, <1>10, InsertHolds, InsertType DEF Queues, States
<1>12. (S \ {next}) \cup {running} = allocated \ {next}  BY <1>2, <1>5
<1>13. Holds(queues', st', allocated \ {next})
  BY <1>2, <1>8, <1>11, <1>12, ChangeHolds DEF Queues
<1>14. \A p \in allocated : st'[p].exec = "BLOCKED" <=> p \in Owners(dcb')
  BY <1>1, <1>2, <1>4, <1>5, <1>6, <1>7, <1>8
<1>15. pc' # "clean"
  BY <1>1, <1>2 DEF PcAfter
<1> QED BY <1>1, <1>2, <1>4, <1>5, <1>8, <1>13, <1>14, <1>15
        DEF QueueInv, QueuesSound, RunningRight, OwnPart, CallPart, InCall

(* EXIT frees the caller; at shutdown nobody is left, and kmain goes on. *)
LEMMA SysExitQueue == ASSUME BaseInv, QueueInv, SysExit PROVE QueueInv'
<1> DEFINE s == [CheckedSt EXCEPT ![running] = Zeroed]
<1>1. /\ mode = "run" /\ ~CheckFaults /\ pc' = pc
      /\ running \notin {ComhandPcb, IdlePcb} \/ AtShutdownExit
      /\ dcb' = CheckedDcb /\ allocated' = allocated \ {running}
      /\ \/ CheckedQueues[0] # <<>> /\ Dispatch(CheckedQueues, s) /\ origin' = origin
         \/ /\ CheckedQueues[0] = <<>>
            /\ queues' = CheckedQueues /\ st' = s
            /\ running' = IF origin THEN NoPcb ELSE running
            /\ mode' = IF origin THEN "closing" ELSE mode
            /\ origin' = FALSE
  BY DEF SysExit, cmd
<1>2. /\ running \in allocated /\ running \in Pcb /\ running # NoPcb
      /\ st[running].exec = "RUNNING"
      /\ running \notin Owners(dcb) /\ origin /\ allocated \subseteq Pcb
  BY <1>1, CallerFacts
<1>3. CheckedQueues \in Queues /\ CheckedSt \in States
  BY <1>1, CheckedBase
<1>4. /\ Holds(CheckedQueues, CheckedSt, allocated')
      /\ OneEach(CheckedDcb)
      /\ \A p \in allocated : CheckedSt[p].exec = "BLOCKED" <=> p \in Owners(CheckedDcb)
      /\ Owners(CheckedDcb) \subseteq Owners(dcb)
      /\ Completed => Waiter \in allocated'
  BY <1>1, CheckedQueue
<1>5. s \in States /\ \A p \in Pcb : p # running => s[p] = CheckedSt[p]
  <2>1. Zeroed \in PcbState  BY DEF PcbState, Zeroed, Exec, Dpatch, Class, Pri
  <2> QED BY <1>2, <1>3, <2>1 DEF States
<1> HIDE DEF s
<1>6. Holds(CheckedQueues, s, allocated')
  BY <1>1, <1>2, <1>3, <1>4, <1>5, ChangeHolds DEF Queues
<1>7. \A p \in allocated' : s[p].exec = "BLOCKED" <=> p \in Owners(dcb')
  BY <1>1, <1>2, <1>4, <1>5
<1>9. CASE CheckedQueues[0] # <<>> /\ Dispatch(CheckedQueues, s) /\ origin' = origin
  <2>1. /\ running' \in allocated' /\ mode' = "run"
        /\ Holds(queues', st', allocated' \ {running'})
        /\ st'[running'].exec = "RUNNING" /\ st'[running'].dpatch = "ACTIVE"
        /\ s[running'].exec = "READY"
        /\ \A p \in Pcb : p # running' => st'[p] = s[p]
    BY <1>1, <1>2, <1>3, <1>5, <1>6, <1>9, DispatchQueue
  <2>2. \A p \in allocated' : st'[p].exec = "BLOCKED" <=> p \in Owners(dcb')
    BY <1>1, <1>2, <1>7, <2>1
  <2>3. pc # "clean"
    <3>1. CASE AtShutdownExit
      <4>1. \A p \in allocated' : p \in ToSet(queues[Selector(st[p])])
        BY <1>1 DEF QueueInv, QueuesSound, Holds
      <4>2. \A p \in allocated' : Selector(st[p]) \in QueueId
        BY <1>1, <1>2, SelectorType DEF BaseInv, SchedPart, States
      <4>3. ToSet(<<>>) = {}  BY DEF ToSet
      <4>4. allocated' = {}  BY <3>1, <4>1, <4>2, <4>3 DEF AtShutdownExit
      <4> QED BY <2>1, <4>4
    <3>2. CASE running \notin {ComhandPcb, IdlePcb}
      BY <1>1, <3>2 DEF QueueInv, CallPart, InCall
    <3> QED BY <1>1, <3>1, <3>2
  <2> QED BY <1>1, <1>2, <1>4, <1>9, <2>1, <2>2, <2>3
          DEF QueueInv, QueuesSound, RunningRight, OwnPart, CallPart, InCall
<1>10. CASE /\ queues' = CheckedQueues /\ st' = s
            /\ running' = IF origin THEN NoPcb ELSE running
            /\ mode' = IF origin THEN "closing" ELSE mode
  <2>1. running' = NoPcb /\ mode' = "closing"  BY <1>2, <1>10
  <2>2. allocated' \ {running'} = allocated'  BY <1>1, <1>2, <2>1, PcbAssumption
  <2> QED BY <1>1, <1>4, <1>6, <1>7, <1>10, <2>1, <2>2
          DEF QueueInv, QueuesSound, RunningRight, OwnPart, CallPart, InCall
<1> QED BY <1>1, <1>9, <1>10

(* A panic leaves everything where it was. *)
LEMMA PanicQueue == ASSUME QueueInv, Panic PROVE QueueInv'
<1>1. UNCHANGED <<queues, st, running, allocated, origin, dcb, pc>> /\ mode' = "panic"
  BY DEF Panic, sched, heap, cmd
<1> QED BY <1>1 DEF QueueInv, QueuesSound, RunningRight, OwnPart, CallPart, InCall

(* kmain's int 0x60 dispatches from its own queues; its end changes none. *)
LEMMA KmainQueue ==
  ASSUME BaseInv, QueueInv, KmainIdle \/ KmainClose \/ SysFault PROVE QueueInv'
<1>1. CASE KmainIdle
  <2>1. /\ queues[0] # <<>> /\ Dispatch(queues, st) /\ origin' = TRUE /\ mode = "boot"
        /\ UNCHANGED <<allocated, dcb, pc>> /\ queues \in Queues /\ st \in States
        /\ allocated \subseteq Pcb
    BY <1>1 DEF KmainIdle, BaseInv, SchedPart, HeapPart, ModePart, heap, cmd
  <2>2. Holds(queues, st, allocated)
    <3>1. running = NoPcb  BY <2>1 DEF QueueInv, CallPart
    <3>2. allocated \ {running} = allocated  BY <2>1, <3>1, PcbAssumption
    <3> QED BY <3>2 DEF QueueInv, QueuesSound
  <2>3. /\ running' \in allocated /\ mode' = "run"
        /\ Holds(queues', st', allocated \ {running'})
        /\ st'[running'].exec = "RUNNING" /\ st'[running'].dpatch = "ACTIVE"
        /\ st[running'].exec = "READY"
        /\ \A p \in Pcb : p # running' => st'[p] = st[p]
    BY <2>1, <2>2, DispatchQueue
  <2>4. \A p \in allocated : st'[p].exec = "BLOCKED" <=> p \in Owners(dcb)
    BY <2>1, <2>3 DEF QueueInv, OwnPart
  <2>5. pc # "clean"  BY <2>1 DEF QueueInv, CallPart
  <2> QED BY <2>1, <2>3, <2>4, <2>5
          DEF QueueInv, QueuesSound, RunningRight, OwnPart, CallPart, InCall
<1>2. CASE KmainClose
  <2>1. /\ UNCHANGED <<queues, st, running, allocated, origin, pc>> /\ mode' = "off"
        /\ dcb'.ops = dcb.ops
    BY <1>2 DEF KmainClose, BaseInv, DcbPart, DcbState, sched, heap, cmd
  <2> QED BY <2>1 DEF QueueInv, QueuesSound, RunningRight, OwnPart, OneEach, Owners,
                      CallPart, InCall
<1>3. CASE SysFault  BY <1>3, PanicQueue DEF SysFault
<1> QED BY <1>1, <1>2, <1>3

(* The hlt loop: nobody runs, so every live process is in the queues. *)
LEMMA WakeQueue == ASSUME BaseInv, QueueInv, Wake PROVE QueueInv'
<1>1. mode = "awake" /\ running = NoPcb /\ origin /\ pc # "clean" /\ allocated \subseteq Pcb
  BY DEF Wake, BaseInv, HeapPart, ModePart, Asleep, QueueInv, CallPart, InCall
<1>2. CASE ~Completed /\ mode' = "halted" /\ UNCHANGED <<sched, heap, origin, dcb, cmd>>
  <2>1. UNCHANGED <<queues, st, running, allocated, origin, dcb, pc>>
    BY <1>2 DEF sched, heap, cmd
  <2> QED BY <1>1, <1>2, <2>1
          DEF QueueInv, QueuesSound, RunningRight, OwnPart, CallPart, InCall
<1>3. CASE /\ ~CheckFaults /\ CheckedQueues[0] # <<>> /\ Dispatch(CheckedQueues, CheckedSt)
           /\ dcb' = CheckedDcb /\ UNCHANGED <<heap, origin, cmd>>
  <2>1. UNCHANGED <<allocated, origin, pc>>  BY <1>3 DEF heap, cmd
  <2>2. CheckedQueues \in Queues /\ CheckedSt \in States  BY <1>1, CheckedBase
  <2>3. /\ Holds(CheckedQueues, CheckedSt, allocated \ {running})
        /\ OneEach(CheckedDcb)
        /\ \A p \in allocated : CheckedSt[p].exec = "BLOCKED" <=> p \in Owners(CheckedDcb)
        /\ Owners(CheckedDcb) \subseteq Owners(dcb)
    BY <1>1, <1>3, CheckedQueue
  <2>4. allocated \ {running} = allocated  BY <1>1, PcbAssumption
  <2>5. /\ running' \in allocated /\ mode' = "run"
        /\ Holds(queues', st', allocated \ {running'})
        /\ st'[running'].exec = "RUNNING" /\ st'[running'].dpatch = "ACTIVE"
        /\ CheckedSt[running'].exec = "READY"
        /\ \A p \in Pcb : p # running' => st'[p] = CheckedSt[p]
    BY <1>1, <1>3, <2>2, <2>3, <2>4, DispatchQueue
  <2>6. \A p \in allocated : st'[p].exec = "BLOCKED" <=> p \in Owners(dcb')
    BY <1>1, <1>3, <2>3, <2>5
  <2> QED BY <1>1, <1>3, <2>1, <2>3, <2>5, <2>6
          DEF QueueInv, QueuesSound, RunningRight, OwnPart, CallPart, InCall
<1>4. CASE Panic  BY <1>4, PanicQueue
<1> QED BY <1>2, <1>3, <1>4 DEF Wake

(* Interrupts touch neither the queues nor who owns the requests. *)
LEMMA IrqQueue == ASSUME BaseInv, QueueInv, Irq PROVE QueueInv'
<1>1. dcb \in DcbState(Pcb, MaxLen)
  BY DEF BaseInv, DcbPart
<1>2. ASSUME NEW d, Interrupt(d), d.ops = dcb.ops PROVE QueueInv'
  <2>1. CASE DeviceIdle(dcb)  BY <1>2, <2>1, PanicQueue DEF Interrupt
  <2>2. CASE ~DeviceIdle(dcb)
    <3>1. /\ UNCHANGED <<queues, st, running, allocated, origin, pc>> /\ dcb'.ops = dcb.ops
          /\ mode' = IF mode = "halted" THEN "awake" ELSE mode
      BY <1>2, <2>2 DEF Interrupt, sched, heap, cmd
    <3> QED BY <3>1 DEF QueueInv, QueuesSound, RunningRight, OwnPart, OneEach, Owners,
                        CallPart, InCall
  <2> QED BY <2>1, <2>2
<1>3. OutputDone(dcb).ops = dcb.ops
  BY <1>1 DEF OutputDone, DcbState
<1>4. \A cr \in BOOLEAN : InputByte(dcb, cr).ops = dcb.ops
  BY <1>1 DEF InputByte, DcbState
<1> QED BY <1>2, <1>3, <1>4 DEF Irq, OutputIrq, InputIrq

(* pcb_setup and pcb_insert: a new process, whom nobody knew. *)
LEMMA CreateQueue ==
  ASSUME BaseInv, QueueInv, Owners(dcb) \subseteq allocated,
         mode = "run", pc # "clean", pc' # "clean",
         NEW p \in Pcb \ allocated, NEW n, NEW pri \in Pri, Create(p, n, pri)
  PROVE  QueueInv'
<1>1. /\ running \in allocated /\ running \in Pcb /\ running # NoPcb
      /\ st[running].exec = "RUNNING" /\ st[running].dpatch = "ACTIVE"
      /\ origin /\ allocated \subseteq Pcb
  BY CallerFacts
<1>2. /\ allocated' = allocated \cup {p} /\ st' = [st EXCEPT ![p] = Fresh("USER", pri)]
      /\ queues' = pcb_insert(queues, st', p) /\ UNCHANGED <<running, mode, origin, dcb>>
      /\ queues \in Queues /\ st \in States
  BY DEF Create, BaseInv, SchedPart
<1>3. /\ st' \in States /\ st'[p].exec = "READY"
      /\ \A x \in Pcb : x # p => st'[x] = st[x]
  <2>1. Fresh("USER", pri) \in PcbState /\ Fresh("USER", pri).exec = "READY"
    BY DEF PcbState, Fresh, Exec, Dpatch, Class
  <2> QED BY <1>2, <2>1 DEF States
<1> DEFINE S == allocated \ {running}
<1>4. Holds(queues, st', S)
  <2>1. S \in SUBSET Pcb /\ \A x \in S : st'[x] = st[x]  BY <1>1, <1>3
  <2>2. Holds(queues, st, S)  BY DEF QueueInv, QueuesSound
  <2> QED BY <1>2, <2>1, <2>2, ChangeHolds DEF Queues
<1>5. Holds(queues', st', S \cup {p})
  BY <1>1, <1>2, <1>3, <1>4, InsertHolds DEF Queues, States
<1>6. S \cup {p} = allocated' \ {running'}  BY <1>1, <1>2
<1>7. p \notin Owners(dcb)  OBVIOUS
<1>8. \A x \in allocated' : st'[x].exec = "BLOCKED" <=> x \in Owners(dcb')
  BY <1>1, <1>2, <1>3, <1>7 DEF QueueInv, OwnPart
<1> QED BY <1>1, <1>2, <1>3, <1>5, <1>6, <1>7, <1>8
        DEF QueueInv, QueuesSound, RunningRight, OwnPart, CallPart, InCall

(* suspend and resume: pcb_remove, a new state, pcb_insert. *)
LEMMA RequeueQueue ==
  ASSUME BaseInv, QueueInv, mode = "run", pc # "clean", pc' # "clean",
         NEW p \in Pcb, Queued(queues, p), NEW s \in PcbState, s.exec = st[p].exec,
         Requeue(p, s)
  PROVE  QueueInv'
<1>1. /\ running \in allocated /\ running \in Pcb /\ running # NoPcb
      /\ st[running].exec = "RUNNING" /\ st[running].dpatch = "ACTIVE"
      /\ origin /\ allocated \subseteq Pcb
  BY CallerFacts
<1>2. /\ st' = [st EXCEPT ![p] = s]
      /\ queues' = pcb_insert(pcb_remove(queues, st, p), st', p)
      /\ UNCHANGED <<running, mode, origin, dcb, allocated>>
      /\ queues \in Queues /\ st \in States
  BY DEF Requeue, BaseInv, SchedPart, heap
<1> DEFINE S == allocated \ {running}
           qs == pcb_remove(queues, st, p)
<1>3. p \in S /\ st[p].exec # "RUNNING" /\ Holds(queues, st, S)
  BY DEF QueueInv, QueuesSound, Holds, Queued
<1>4. /\ st' \in States /\ st'[p] = s
      /\ \A x \in Pcb : x # p => st'[x] = st[x]
  BY <1>2 DEF States
<1>5. qs \in Queues /\ Holds(qs, st, S \ {p})
  BY <1>1, <1>2, <1>3, RemoveHolds, RemoveType DEF Queues, States
<1> HIDE DEF qs
<1>6. Holds(qs, st', S \ {p})
  BY <1>1, <1>4, <1>5, ChangeHolds DEF Queues
<1>7. Holds(queues', st', (S \ {p}) \cup {p})
  BY <1>1, <1>2, <1>3, <1>4, <1>5, <1>6, InsertHolds DEF Queues, States, qs
<1>8. (S \ {p}) \cup {p} = allocated' \ {running'}  BY <1>2, <1>3
<1>9. \A x \in allocated' : st'[x].exec = "BLOCKED" <=> x \in Owners(dcb')
  BY <1>1, <1>2, <1>4 DEF QueueInv, OwnPart
<1> QED BY <1>1, <1>2, <1>3, <1>4, <1>7, <1>8, <1>9
        DEF QueueInv, QueuesSound, RunningRight, OwnPart, CallPart, InCall

(* delete, and the clean-up of shutdown: a PCB is taken out of its queue and  *)
(* freed, with a request it may have on the device left behind.               *)
LEMMA FreeQueue ==
  ASSUME BaseInv, QueueInv, mode = "run", pc' = "clean" => pc = "clean",
         UNCHANGED <<running, mode, origin, dcb>>,
         NEW p \in allocated \ {running}, queues' = pcb_remove(queues, st, p), Free(p)
  PROVE  QueueInv'
<1>1. /\ running \in allocated /\ running \in Pcb /\ running # NoPcb
      /\ st[running].exec = "RUNNING" /\ st[running].dpatch = "ACTIVE"
      /\ origin /\ allocated \subseteq Pcb /\ queues \in Queues /\ st \in States
  BY CallerFacts DEF BaseInv, SchedPart
<1> DEFINE S == allocated \ {running}
<1>2. Holds(queues, st, S)  BY DEF QueueInv, QueuesSound
<1>3. allocated' = allocated \ {p} /\ st' = [st EXCEPT ![p] = Zeroed]
  BY DEF Free
<1>4. \A x \in Pcb : x # p => st'[x] = st[x]  BY <1>1, <1>3 DEF States
<1>5. queues' \in Queues /\ Holds(queues', st, S \ {p})
  BY <1>1, <1>2, RemoveHolds, RemoveType DEF Queues, States
<1>6. Holds(queues', st', S \ {p})
  BY <1>1, <1>4, <1>5, ChangeHolds DEF Queues
<1>7. S \ {p} = allocated' \ {running'}  BY <1>3
<1>8. \A x \in allocated' : st'[x].exec = "BLOCKED" <=> x \in Owners(dcb')
  BY <1>1, <1>3, <1>4 DEF QueueInv, OwnPart
<1> QED BY <1>1, <1>3, <1>4, <1>6, <1>7, <1>8
        DEF QueueInv, QueuesSound, RunningRight, OwnPart, CallPart, InCall

(* The clean-up takes the head of a queue. *)
LEMMA CleanQueue == ASSUME BaseInv, QueueInv, CleanNext PROVE QueueInv'
<1>1. mode = "run" /\ pc = "clean" /\ UNCHANGED <<running, mode, origin, dcb>>
  BY DEF CleanNext
<1>2. PICK i \in QueueId : /\ queues[i] # <<>>
                           /\ queues' = pcb_remove(queues, st, Head(queues[i]))
                           /\ Free(Head(queues[i]))
  BY DEF CleanNext
<1>3. Head(queues[i]) \in allocated \ {running}
  BY <1>2, HeadHolds DEF QueueInv, QueuesSound, BaseInv, SchedPart, Queues
<1> QED BY <1>1, <1>2, <1>3, FreeQueue

-----------------------------------------------------------------------------
(* A deleted process may leave a request on the device.  The READ of the next *)
(* command comes after it, so that by the time the command is there, sys_     *)
(* check_io has faulted on the request, or there was none: a process is made  *)
(* only while all owners are live.                                            *)
Ahead(d) == \A j \in DOMAIN d.ops :
              \/ d.ops[j].pcb \in allocated
              \/ \E k \in DOMAIN d.ops : j < k /\ d.ops[k].pcb = ComhandPcb
AtWork == {"line", "load", "pri", "priread", "priline"}
StalePart ==
  /\ pc \in AtWork => Owners(dcb) \subseteq allocated
  /\ pc = "read" => Ahead(dcb)

(* Nothing is stale while the handler has no request. *)
LEMMA AllLive == ASSUME Ahead(dcb), ComhandPcb \notin Owners(dcb) PROVE Owners(dcb) \subseteq allocated
BY DEF Ahead, Owners

(* sys_check_io and serial_schedule_io treat the requests as a queue. *)
LEMMA DeviceQueue ==
  ASSUME NEW d \in DcbState(Pcb, MaxLen), NEW r
  PROVE  NextIo(d).ops = Tail(d.ops) /\ ScheduleIo(d, r).ops = Append(d.ops, r)
<1>1. NextIo(d).ops = Tail(d.ops)  BY DEF NextIo, DcbState
<1>2. CASE DeviceIdle(d)
  <2>1. ScheduleIo(d, r).ops = <<r>>  BY <1>2 DEF ScheduleIo, DcbState
  <2>2. Append(d.ops, r) = <<r>>  BY <1>2 DEF DeviceIdle
  <2> QED BY <1>1, <2>1, <2>2
<1>3. CASE ~DeviceIdle(d)  BY <1>1, <1>3 DEF ScheduleIo, DcbState
<1> QED BY <1>2, <1>3

(* A completed request of a live process is not a stale one. *)
LEMMA CheckedAhead ==
  ASSUME BaseInv, mode # "off", ~CheckFaults, Ahead(dcb)
  PROVE  Ahead(CheckedDcb)
<1>1. CASE ~Completed  BY <1>1 DEF CheckedDcb, Ahead
<1>2. CASE Completed
  <2>1. dcb \in DcbState(Pcb, MaxLen) /\ DcbConsistent(dcb) /\ MaxLen \in Nat
    BY BoundAssumption DEF BaseInv, DcbPart
  <2>2. dcb.ops # <<>> /\ dcb.ops \in Seq(Request(Pcb, MaxLen))
    BY <1>2, <2>1, Fields DEF Completed
  <2> DEFINE q == Tail(dcb.ops)
  <2>3. /\ q \in Seq(Request(Pcb, MaxLen)) /\ Len(dcb.ops) \in Nat \ {0}
        /\ Len(q) = Len(dcb.ops) - 1
        /\ \A i \in 1..(Len(dcb.ops) - 1) : q[i] = dcb.ops[i + 1]
    BY <2>2, QueueParts
  <2>4. DOMAIN q = 1..(Len(dcb.ops) - 1) /\ DOMAIN dcb.ops = 1..Len(dcb.ops)
    BY <2>2, <2>3, LenProperties
  <2>5. CheckedDcb.ops = q  BY <1>2, <2>1, DeviceQueue DEF CheckedDcb
  <2> HIDE DEF q
  <2> SUFFICES ASSUME NEW j \in 1..(Len(dcb.ops) - 1), q[j].pcb \notin allocated
               PROVE  \E k \in 1..(Len(dcb.ops) - 1) : j < k /\ q[k].pcb = ComhandPcb
    BY <2>4, <2>5 DEF Ahead
  <2>6. j + 1 \in 1..Len(dcb.ops) /\ dcb.ops[j + 1].pcb \notin allocated
    BY <2>3
  <2>7. PICK k \in 1..Len(dcb.ops) : j + 1 < k /\ dcb.ops[k].pcb = ComhandPcb
    BY <2>4, <2>6 DEF Ahead
  <2>8. k - 1 \in 1..(Len(dcb.ops) - 1) /\ j < k - 1 /\ (k - 1) + 1 = k
    BY <2>3, <2>7
  <2>9. q[k - 1] = dcb.ops[(k - 1) + 1]  BY <2>3, <2>8
  <2> QED BY <2>7, <2>8, <2>9
<1> QED BY <1>1, <1>2

(* A new request goes behind the others. *)
LEMMA ScheduleAhead ==
  ASSUME NEW d \in DcbState(Pcb, MaxLen), NEW r \in Request(Pcb, MaxLen),
         Ahead(d) \/ r.pcb = ComhandPcb, r.pcb \in allocated
  PROVE  Ahead(ScheduleIo(d, r))
<1> DEFINE q == Append(d.ops, r)
           n == Len(d.ops)
<1>1. d.ops \in Seq(Request(Pcb, MaxLen))  BY DEF DcbState, Request
<1>2. n \in Nat /\ DOMAIN d.ops = 1..n  BY <1>1, LenProperties
<1>3. DOMAIN q = 1..(n + 1) /\ q[n + 1] = r /\ \A k \in 1..n : q[k] = d.ops[k]
  BY <1>1, <1>2, AppendProperties, LenProperties
<1>4. ScheduleIo(d, r).ops = q  BY DeviceQueue
<1> HIDE DEF q, n
<1> SUFFICES ASSUME NEW j \in 1..n, q[j].pcb \notin allocated
             PROVE  \E k \in 1..(n + 1) : j < k /\ q[k].pcb = ComhandPcb
  BY <1>2, <1>3, <1>4 DEF Ahead
<1>5. CASE Ahead(d)
  <2>1. PICK k \in 1..n : j < k /\ d.ops[k].pcb = ComhandPcb
    BY <1>2, <1>3, <1>5 DEF Ahead
  <2> QED BY <1>2, <1>3, <2>1
<1>6. CASE r.pcb = ComhandPcb
  <2>1. j < n + 1 /\ n + 1 \in 1..(n + 1)  BY <1>2
  <2> QED BY <1>3, <1>6, <2>1
<1> QED BY <1>5, <1>6

(* A system call that leaves no more requests stale than it found: the        *)
(* handler gets past its READ only when it has no request any more.           *)
LEMMA StaleCall ==
  ASSUME StalePart, allocated' = allocated,
         NEW op \in {"READ", "WRITE", "IDLE"}, Issues(op), ComhandPcb # IdlePcb,
         running = ComhandPcb => ComhandPcb \notin Owners(dcb),
         Owners(dcb) \subseteq allocated => Owners(dcb') \subseteq allocated,
         Ahead(dcb) => Ahead(dcb)',
         \/ pc' = PcAfter(op) /\ (op = "READ" /\ running = ComhandPcb => Ahead(dcb)')
         \/ pc' = PcRefused(op)
  PROVE  StalePart'
<1>1. CASE running # ComhandPcb
  <2>1. pc' = pc  BY <1>1 DEF PcAfter, PcRefused
  <2> QED BY <2>1 DEF StalePart
<1>2. CASE running = ComhandPcb
  <2>1. pc = "read" => Owners(dcb) \subseteq allocated
    BY <1>2, AllLive DEF StalePart
  <2>2. pc' \in AtWork => pc \in AtWork \cup {"read"}
    BY <1>2 DEF PcAfter, PcRefused, Issues, AtWork
  <2>3. pc' \in AtWork => Owners(dcb') \subseteq allocated'
    BY <2>1, <2>2 DEF StalePart
  <2>4. pc' = "read" => Ahead(dcb)'
    BY <1>2 DEF StalePart, PcAfter, PcRefused, Issues
  <2> QED BY <2>3, <2>4 DEF StalePart
<1> QED BY <1>1, <1>2

(* The system calls. *)
LEMMA CallStale ==
  ASSUME BaseInv, QueueInv, StalePart,
         \/ \E op \in IoOp, n \in 1..MaxLen : SysIo(op, n)
         \/ \E op \in IoOp \cup {"IDLE"} : SysReturn(op)
         \/ SysIdle
  PROVE  StalePart'
<1>1. mode = "run" /\ ~CheckFaults /\ allocated' = allocated
  BY DEF SysIo, SysReturn, SysIdle, Calling, heap
<1>2. running \in allocated /\ running \in Pcb /\ running \notin Owners(dcb)
  BY <1>1, CallerFacts
<1>3. /\ CheckedDcb \in DcbState(Pcb, MaxLen) /\ OneEach(CheckedDcb)
      /\ Owners(CheckedDcb) \subseteq Owners(dcb)
      /\ Ahead(dcb) => Ahead(CheckedDcb)
  BY <1>1, CheckedBase, CheckedQueue, CheckedAhead
<1>4. CASE dcb' = CheckedDcb /\ \E op \in IoOp \cup {"IDLE"} : Issues(op) /\ pc' = PcRefused(op)
  <2>1. PICK op \in {"READ", "WRITE", "IDLE"} : Issues(op) /\ pc' = PcRefused(op)
    BY <1>4 DEF IoOp
  <2>2. Ahead(dcb) => Ahead(dcb)'  BY <1>1, <1>3, <1>4 DEF Ahead
  <2> QED BY <1>1, <1>2, <1>3, <1>4, <2>1, <2>2, StaleCall, PcbAssumption
<1>5. ASSUME NEW op \in IoOp, NEW n \in 1..MaxLen, SysIo(op, n) PROVE StalePart'
  <2> DEFINE r == [pcb |-> running, op |-> op, size |-> n]
  <2>1. r \in Request(Pcb, MaxLen) /\ r.pcb = running /\ MaxLen \in Nat
    BY <1>2, BoundAssumption DEF Request
  <2>2. dcb' = ScheduleIo(CheckedDcb, r) /\ Issues(op) /\ pc' = PcAfter(op)
    BY <1>5 DEF SysIo
  <2> HIDE DEF r
  <2>3. Owners(dcb') = Owners(CheckedDcb) \cup {running}
    BY <1>2, <1>3, <2>1, <2>2, ScheduleIoOwners
  <2>4. Ahead(dcb) \/ running = ComhandPcb => Ahead(ScheduleIo(CheckedDcb, r))
    BY <1>2, <1>3, <2>1, ScheduleAhead
  <2>5. Ahead(dcb) \/ running = ComhandPcb => Ahead(dcb)'
    BY <1>1, <2>2, <2>4 DEF Ahead
  <2>6. op \in {"READ", "WRITE", "IDLE"}  BY DEF IoOp
  <2>7. Owners(dcb) \subseteq allocated => Owners(dcb') \subseteq allocated
    BY <1>2, <1>3, <2>3
  <2> QED BY <1>1, <1>2, <2>2, <2>5, <2>6, <2>7, StaleCall, PcbAssumption
<1>6. CASE SysIdle
  <2>1. dcb' = CheckedDcb /\ Issues("IDLE") /\ pc' = PcRefused("IDLE")
    BY <1>6 DEF SysIdle, PcRefused
  <2> QED BY <1>4, <2>1
<1>7. ASSUME NEW op \in IoOp \cup {"IDLE"}, SysReturn(op) PROVE StalePart'
  BY <1>4, <1>7 DEF SysReturn
<1> QED BY <1>5, <1>6, <1>7

(* A process that exits has no request. *)
LEMMA ExitStale == ASSUME BaseInv, QueueInv, StalePart, SysExit PROVE StalePart'
<1>1. /\ mode = "run" /\ ~CheckFaults /\ allocated' = allocated \ {running}
      /\ dcb' = CheckedDcb /\ pc' = pc
  BY DEF SysExit, cmd
<1>2. running \notin Owners(dcb)  BY <1>1, CallerFacts
<1>3. Owners(CheckedDcb) \subseteq Owners(dcb) /\ (Ahead(dcb) => Ahead(CheckedDcb))
  BY <1>1, CheckedQueue, CheckedAhead
<1>4. Ahead(CheckedDcb) => Ahead(dcb)'
  <2>1. \A j \in DOMAIN CheckedDcb.ops : CheckedDcb.ops[j].pcb # running
    BY <1>2, <1>3 DEF Owners
  <2> QED BY <1>1, <2>1 DEF Ahead
<1> QED BY <1>1, <1>2, <1>3, <1>4 DEF StalePart

(* Every step. *)
LEMMA NextStale == BaseInv /\ QueueInv /\ StalePart /\ [Next]_vars => StalePart'
<1> SUFFICES ASSUME BaseInv, QueueInv, StalePart, [Next]_vars PROVE StalePart'
  OBVIOUS
<1>1. CASE UNCHANGED <<allocated, pc>> /\ dcb'.ops = dcb.ops
  BY <1>1 DEF StalePart, Ahead, Owners
<1>2. CASE Panic  BY <1>1, <1>2 DEF Panic, heap, cmd
<1>3. CASE Syscall
  BY <1>1, <1>2, <1>3, CallStale, ExitStale DEF Syscall, Yield, SysFault, KmainIdle, heap, cmd
<1>4. CASE Wake
  <2>1. CASE ~CheckFaults /\ dcb' = CheckedDcb /\ UNCHANGED <<heap, cmd>>
    <3>1. mode # "off" /\ UNCHANGED <<allocated, pc>>
      BY <1>4, <2>1 DEF Wake, heap, cmd
    <3>2. Owners(CheckedDcb) \subseteq Owners(dcb) /\ (Ahead(dcb) => Ahead(CheckedDcb))
      BY <2>1, <3>1, CheckedQueue, CheckedAhead
    <3> QED BY <2>1, <3>1, <3>2 DEF StalePart, Ahead
  <2> QED BY <1>1, <1>2, <1>4, <2>1 DEF Wake, heap, cmd
<1>5. CASE Irq
  <2>1. dcb \in DcbState(Pcb, MaxLen)  BY DEF BaseInv, DcbPart
  <2>2. OutputDone(dcb).ops = dcb.ops /\ \A cr \in BOOLEAN : InputByte(dcb, cr).ops = dcb.ops
    BY <2>1 DEF OutputDone, InputByte, DcbState
  <2> QED BY <1>1, <1>2, <1>5, <2>2 DEF Irq, OutputIrq, InputIrq, Interrupt, heap, cmd
<1>6. CASE KmainClose \/ UNCHANGED vars
  <2>1. dcb \in DcbState(Pcb, MaxLen)  BY DEF BaseInv, DcbPart
  <2> QED BY <1>1, <1>6, <2>1 DEF KmainClose, DcbState, heap, cmd, vars
<1>7. CASE Comhand
  <2>1. CASE pc' \in {"menu", "clean"}  BY <2>1 DEF StalePart, AtWork
  <2>2. CASE pc \in AtWork /\ pc' \in AtWork /\ allocated \subseteq allocated' /\ dcb' = dcb
    BY <2>2 DEF StalePart, AtWork
  <2>3. CASE LoadR3 \/ LoadNext \/ Alarm \/ Shutdown \/ CleanNext \/ ClearNoLine
    BY <1>2, <2>1, <2>2, <2>3 DEF LoadR3, LoadNext, Alarm, Shutdown, CleanNext, ClearNoLine,
       Create, AtLine, AtWork, sched, heap, cmd
  <2>4. CASE \E p \in Pcb : Suspend(p) \/ Resume(p) \/ Delete(p) \/ PriorityFind(p)
    BY <2>1, <2>2, <2>4 DEF Suspend, Resume, Delete, PriorityFind, AtLine, AtWork, heap
  <2>5. CASE \E k \in PriChoices : PrioritySet(k)
    BY <2>1, <2>5 DEF PrioritySet
  <2> QED BY <1>7, <2>3, <2>4, <2>5 DEF Comhand
<1> QED BY <1>3, <1>4, <1>5, <1>6, <1>7 DEF Next

-----------------------------------------------------------------------------
(* The process found is one of the queues, so never the command handler. *)
HeldPart == held # ComhandPcb

(* Only PriorityFind keeps a pointer. *)
LEMMA NextHeld == BaseInv /\ QueueInv /\ HeldPart /\ [Next]_vars => HeldPart'
<1> SUFFICES ASSUME BaseInv, QueueInv, HeldPart, [Next]_vars, held' # held PROVE HeldPart'
  BY DEF HeldPart
<1>1. \/ \E p \in Pcb : PriorityFind(p)
      \/ \E k \in PriChoices : PrioritySet(k)
  BY DEF Next, Syscall, Yield, KmainIdle, SysFault, Panic, SysReturn, SysIdle, SysExit, SysIo,
         Wake, Irq, OutputIrq, InputIrq, Interrupt, KmainClose, Comhand, LoadR3, LoadNext,
         Alarm, Shutdown, CleanNext, ClearNoLine, Suspend, Resume, Delete, cmd, vars
<1>2. ASSUME NEW p \in Pcb, PriorityFind(p) PROVE HeldPart'
  <2>1. held' = p /\ Queued(queues, p) /\ running = ComhandPcb
    BY <1>2 DEF PriorityFind, AtLine
  <2>2. p # running  BY <2>1 DEF Queued, QueueInv, QueuesSound, Holds
  <2> QED BY <2>1, <2>2 DEF HeldPart
<1>3. ASSUME NEW k \in PriChoices, PrioritySet(k) PROVE HeldPart'
  BY <1>3, PcbAssumption DEF PrioritySet, HeldPart
<1> QED BY <1>1, <1>2, <1>3

(* The commands.  A process is looked up, created or freed only while no      *)
(* request is stale; a priority is set of a process that is in its queue.     *)
LEMMA ComhandQueue ==
  ASSUME BaseInv, QueueInv, StalePart, HeldPart, HeldAlive, Comhand
  PROVE  QueueInv'
<1>1. st \in States  BY DEF BaseInv, SchedPart
<1>2. CASE LoadR3 \/ Shutdown
  <2>1. /\ UNCHANGED <<queues, st, running, allocated, mode, origin, dcb>>
        /\ mode = "run" /\ running = ComhandPcb /\ pc # "clean"
    BY <1>2 DEF LoadR3, Shutdown, AtLine, sched, heap
  <2> QED BY <2>1 DEF QueueInv, QueuesSound, RunningRight, OwnPart, CallPart, InCall
<1>3. CASE LoadNext
  <2>1. CASE Panic  BY <2>1, PanicQueue
  <2>2. CASE ~Panic
    <3>1. PICK p \in Pcb \ allocated : Create(p, R3Names[loading], 1)
      BY <1>3, <2>2 DEF LoadNext
    <3>2. 1 \in Pri  BY DEF Pri
    <3>3. mode = "run" /\ pc # "clean" /\ pc' # "clean" /\ Owners(dcb) \subseteq allocated
      BY <1>3, <2>2 DEF LoadNext, StalePart, AtWork
    <3> QED BY <3>1, <3>2, <3>3, CreateQueue
  <2> QED BY <2>1, <2>2
<1>4. CASE Alarm
  <2>1. CASE Panic  BY <2>1, PanicQueue
  <2>2. CASE ~Panic
    <3>1. PICK n \in TimerNames, p \in Pcb \ allocated : Create(p, n, 0)
      BY <1>4, <2>2 DEF Alarm
    <3>2. 0 \in Pri  BY DEF Pri
    <3>3. mode = "run" /\ pc # "clean" /\ pc' # "clean" /\ Owners(dcb) \subseteq allocated
      BY <1>4, <2>2 DEF Alarm, AtLine, StalePart, AtWork
    <3> QED BY <3>1, <3>2, <3>3, CreateQueue
  <2> QED BY <2>1, <2>2
<1>5. CASE CleanNext  BY <1>5, CleanQueue
<1>6. ASSUME NEW p \in Pcb, Suspend(p) \/ Resume(p) PROVE QueueInv'
  <2>1. PICK s \in PcbState : s.exec = st[p].exec /\ Requeue(p, s)
    <3>1. st[p] \in PcbState  BY <1>1 DEF States
    <3>2. /\ [st[p] EXCEPT !.dpatch = "SUSPENDED"] \in PcbState
          /\ [st[p] EXCEPT !.dpatch = "ACTIVE"] \in PcbState
          /\ [st[p] EXCEPT !.dpatch = "SUSPENDED"].exec = st[p].exec
          /\ [st[p] EXCEPT !.dpatch = "ACTIVE"].exec = st[p].exec
      BY <3>1 DEF PcbState, Dpatch
    <3> QED BY <1>6, <3>2 DEF Suspend, Resume
  <2>2. mode = "run" /\ pc # "clean" /\ pc' # "clean" /\ Queued(queues, p)
    BY <1>6 DEF Suspend, Resume, AtLine
  <2> QED BY <2>1, <2>2, RequeueQueue
<1>7. ASSUME NEW p \in Pcb, Delete(p) PROVE QueueInv'
  <2>1. /\ mode = "run" /\ pc' = "menu" /\ UNCHANGED <<running, mode, origin, dcb>>
        /\ queues' = pcb_remove(queues, st, p) /\ Free(p)
    BY <1>7 DEF Delete, AtLine
  <2>2. p \in allocated \ {running}
    BY <1>7 DEF Delete, Queued, QueueInv, QueuesSound, Holds
  <2> QED BY <2>1, <2>2, FreeQueue
<1>8. ASSUME NEW p \in Pcb, PriorityFind(p) PROVE QueueInv'
  <2>1. /\ UNCHANGED <<queues, st, running, allocated, mode, origin, dcb>>
        /\ mode = "run" /\ pc' = "pri"
    BY <1>8 DEF PriorityFind, AtLine, sched, heap
  <2> QED BY <2>1 DEF QueueInv, QueuesSound, RunningRight, OwnPart, CallPart, InCall
<1>9. ASSUME NEW k \in PriChoices, PrioritySet(k) PROVE QueueInv'
  <2>1. /\ mode = "run" /\ running = ComhandPcb /\ pc = "priline" /\ pc' = "menu"
        /\ Requeue(held, [st[held] EXCEPT !.pri = k])
    BY <1>9 DEF PrioritySet
  <2>2. held \in allocated \ {running} /\ held \in Pcb
    BY <2>1 DEF BaseInv, CmdPart, HeapPart, HeldPart, HeldAlive
  <2>3. Queued(queues, held)
    <3>1. Selector(st[held]) \in QueueId
      BY <1>1, <2>2, SelectorType DEF States
    <3> QED BY <2>2, <3>1 DEF QueueInv, QueuesSound, Holds, Queued
  <2>4. /\ [st[held] EXCEPT !.pri = k] \in PcbState
        /\ [st[held] EXCEPT !.pri = k].exec = st[held].exec
    BY <1>1, <2>2, CommandAssumption DEF States, PcbState
  <2> QED BY <2>1, <2>2, <2>3, <2>4, RequeueQueue
<1>10. CASE ClearNoLine  BY <1>10, PanicQueue DEF ClearNoLine
<1> QED BY <1>2, <1>3, <1>4, <1>5, <1>6, <1>7, <1>8, <1>9, <1>10 DEF Comhand

FullInv == BaseInv /\ QueueInv /\ StalePart /\ HeldPart

(* Every step keeps the queues. *)
LEMMA NextFull == FullInv /\ HeldAlive /\ [Next]_vars => FullInv'
<1> SUFFICES ASSUME FullInv, HeldAlive, [Next]_vars PROVE FullInv'
  OBVIOUS
<1>1. BaseInv /\ QueueInv /\ StalePart /\ HeldPart  BY DEF FullInv
<1>2. BaseInv' /\ StalePart' /\ HeldPart'  BY <1>1, NextBase, NextStale, NextHeld
<1> SUFFICES QueueInv'
  BY <1>2 DEF FullInv
<1>3. CASE Syscall
  BY <1>1, <1>3, SysIoQueue, SysReturnQueue, SysIdleQueue, SysExitQueue, KmainQueue
     DEF Syscall, Yield
<1>4. CASE Wake        BY <1>1, <1>4, WakeQueue
<1>5. CASE Irq         BY <1>1, <1>5, IrqQueue
<1>6. CASE Comhand     BY <1>1, <1>6, ComhandQueue
<1>7. CASE KmainClose  BY <1>1, <1>7, KmainQueue
<1>8. CASE UNCHANGED vars
  <2>1. UNCHANGED <<queues, st, running, allocated, origin, dcb, pc, mode>>
    BY <1>8 DEF vars
  <2> QED BY <1>1, <2>1 DEF QueueInv, QueuesSound, RunningRight, OwnPart, CallPart, InCall
<1> QED BY <1>1, <1>3, <1>4, <1>5, <1>6, <1>7, <1>8 DEF Next

(* The invariant says who waits for what in the words of the property. *)
LEMMA OwnersBlocked == OwnPart => BlockedHasRequest
BY DEF OwnPart, OneEach, Owners, BlockedHasRequest

(* kmain starts with the whole invariant. *)
LEMMA InitFull == Init => FullInv
BY InitBase, InitQueue, PcbAssumption DEF FullInv, StalePart, AtWork, HeldPart, Init

(* Every live process but the running one is in exactly one queue, once, and  *)
(* in the one its state selects; the running one is live, RUNNING and active: *)
(* for any number of processes and all commands, as long as no process exits  *)
(* while its priority is being set.                                           *)
THEOREM QueuesCorrect == Spec /\ []HeldAlive => []QueuesSound
<1>1. FullInv => QueuesSound  BY DEF FullInv, QueueInv
<1> QED BY InitFull, <1>1, NextFull, PTL DEF Spec

(* A process is BLOCKED exactly while the device holds its one request, under *)
(* the same condition.                                                        *)
THEOREM BlockedCorrect == Spec /\ []HeldAlive => []BlockedHasRequest
<1>1. FullInv => BlockedHasRequest  BY OwnersBlocked DEF FullInv, QueueInv
<1> QED BY InitFull, <1>1, NextFull, PTL DEF Spec

(* The condition holds where the user sets no priority: nothing is held then. *)
THEOREM NothingHeld ==
  ASSUME "SetPriority" \notin Commands
  PROVE  Spec => []HeldAlive
<1> DEFINE NotHeld == held = NoPcb /\ pc \notin {"pri", "priread", "priline"}
<1>1. Init => NotHeld  BY DEF Init
<1>2. ASSUME NotHeld, [Next]_vars PROVE NotHeld'
  <2>1. CASE Syscall
    <3>1. held' = held
      BY <2>1 DEF Syscall, Yield, KmainIdle, SysFault, Panic, SysReturn, SysIdle, SysExit,
                  SysIo, cmd
    <3>2. \/ pc' = pc
          \/ \E op \in {"READ", "WRITE", "IDLE"} : pc' \in {PcAfter(op), PcRefused(op)}
      BY <2>1 DEF Syscall, Yield, KmainIdle, SysFault, Panic, SysReturn, SysIdle, SysExit,
                  SysIo, IoOp, cmd
    <3> QED BY <1>2, <3>1, <3>2 DEF PcAfter, PcRefused
  <2>2. CASE Wake \/ Irq \/ KmainClose \/ UNCHANGED vars
    BY <1>2, <2>2 DEF Wake, Irq, OutputIrq, InputIrq, Interrupt, KmainClose, Panic, cmd, vars
  <2>3. CASE Comhand
    BY <1>2, <2>3 DEF Comhand, LoadR3, LoadNext, Alarm, Shutdown, CleanNext, ClearNoLine,
                      Suspend, Resume, Delete, PriorityFind, PrioritySet, AtLine, Panic, cmd
  <2> QED BY <1>2, <2>1, <2>2, <2>3 DEF Next
<1>3. NotHeld => HeldAlive  BY DEF HeldAlive
<1> QED BY <1>1, <1>2, <1>3, PTL DEF Spec

-----------------------------------------------------------------------------
(* The steps of the kernel: what makes it panic; and, as long as no process  *)
(* exits while its priority is being set, the order of the READY queues, who *)
(* is put on the CPU, who stays suspended, and who wakes a BLOCKED process.  *)

(* Priorities do not decrease along a queue. *)
InOrder(q, s) == \A j, k \in 1..Len(q) : j < k => s[q[j]].pri <= s[q[k]].pri

(* The two READY queues are in order. *)
Sorted(qs, s) == \A i \in {0, 2} : InOrder(qs[i], s)

(* Taking a PCB out leaves the others in order. *)
LEMMA RemoveInOrder ==
  ASSUME NEW P, NEW q \in Seq(P), NEW s, NEW p, InOrder(q, s)
  PROVE  InOrder(RemoveFirst(q, p), s)
<1>1. CASE p \notin ToSet(q)  BY <1>1, RemoveFirstIsRemoveAt
<1>2. CASE p \in ToSet(q)
  <2>1. PICK k \in 1..Len(q) : RemoveFirst(q, p) = RemoveAt(q, k)
    BY <1>2, RemoveFirstIsRemoveAt
  <2> DEFINE r == RemoveAt(q, k)
  <2>2. /\ Len(q) \in Nat /\ Len(r) = Len(q) - 1
        /\ \A i \in 1..(Len(q) - 1) : r[i] = IF i < k THEN q[i] ELSE q[i + 1]
    BY RemoveAtProperties, LenProperties
  <2> HIDE DEF r
  <2>3. ASSUME NEW i \in 1..Len(r), NEW j \in 1..Len(r), i < j
        PROVE  s[r[i]].pri <= s[r[j]].pri
    <3> DEFINE a == IF i < k THEN i ELSE i + 1
               b == IF j < k THEN j ELSE j + 1
    <3>1. a \in 1..Len(q) /\ b \in 1..Len(q) /\ a < b  BY <2>2, <2>3
    <3>2. r[i] = q[a] /\ r[j] = q[b]  BY <2>2
    <3> QED BY <3>1, <3>2 DEF InOrder
  <2> QED BY <2>1, <2>3 DEF InOrder, r
<1> QED BY <1>1, <1>2

(* pcb_insert looks for the first PCB of a larger priority number: all those *)
(* before that place have one that is not larger, all those from there on    *)
(* have a larger one.                                                        *)
LEMMA InsertInOrder ==
  ASSUME NEW P, NEW q \in Seq(P), NEW s \in [P -> PcbState], NEW p \in P, InOrder(q, s)
  PROVE  InOrder(InsertAt(q, InsertPos(q, s, p), p), s)
<1> DEFINE I == {i \in 1..Len(q) : s[p].pri < s[q[i]].pri} \cup {Len(q) + 1}
           k == InsertPos(q, s, p)
           r == InsertAt(q, k, p)
<1>1. Len(q) \in Nat /\ \A i \in 1..Len(q) : q[i] \in P
  BY LenProperties, ElementOfSeq
<1>2. k \in I /\ \A y \in I : k <= y
  <2>1. I \in SUBSET Nat /\ I # {}  BY <1>1
  <2> QED BY <2>1, MinIsLeast DEF InsertPos
<1>3. k \in 1..(Len(q) + 1)  BY <1>1, <1>2
<1>4. \A x \in P : s[x].pri \in Int  BY DEF PcbState, Pri
<1>5. \A i \in 1..Len(q) : i < k => s[q[i]].pri <= s[p].pri
  <2> SUFFICES ASSUME NEW i \in 1..Len(q), i < k PROVE s[q[i]].pri <= s[p].pri
    OBVIOUS
  <2>1. ~(s[p].pri < s[q[i]].pri)  BY <1>2, <1>3, <1>1
  <2>2. s[q[i]].pri \in Int /\ s[p].pri \in Int  BY <1>1, <1>4
  <2> QED BY <2>1, <2>2
<1>6. \A i \in 1..Len(q) : k <= i => s[p].pri <= s[q[i]].pri
  <2> SUFFICES ASSUME NEW i \in 1..Len(q), k <= i PROVE s[p].pri <= s[q[i]].pri
    OBVIOUS
  <2>1. k \in 1..Len(q) /\ s[p].pri < s[q[k]].pri  BY <1>1, <1>2, <1>3
  <2>2. k = i \/ s[q[k]].pri <= s[q[i]].pri  BY <2>1, <1>3 DEF InOrder
  <2>3. q[i] \in P /\ q[k] \in P  BY <1>1, <2>1
  <2>4. {s[p].pri, s[q[i]].pri, s[q[k]].pri} \subseteq Int  BY <1>4, <2>3
  <2> QED BY <2>1, <2>2, <2>4
<1> HIDE DEF I, k
<1>7. /\ Len(r) = Len(q) + 1
      /\ \A i \in 1..(Len(q) + 1) : r[i] = IF i < k THEN q[i] ELSE IF i = k THEN p ELSE q[i - 1]
  BY <1>1, <1>3, InsertAtProperties
<1> HIDE DEF r
<1>8. ASSUME NEW i \in 1..Len(r), NEW j \in 1..Len(r), i < j
      PROVE  s[r[i]].pri <= s[r[j]].pri
  <2>1. CASE j < k
    BY <1>1, <1>7, <1>8, <1>3, <2>1 DEF InOrder
  <2>2. CASE j = k
    <3>1. i \in 1..Len(q) /\ i < k /\ r[i] = q[i] /\ r[j] = p
      BY <1>1, <1>3, <1>7, <1>8, <2>2
    <3> QED BY <1>5, <3>1
  <2>3. CASE k < j
    <3>1. j - 1 \in 1..Len(q) /\ k <= j - 1 /\ r[j] = q[j - 1]
      BY <1>1, <1>3, <1>7, <1>8, <2>3
    <3>2. CASE i = k
      <4>1. r[i] = p  BY <1>1, <1>3, <1>7, <1>8, <3>2
      <4> QED BY <1>6, <3>1, <4>1
    <3>3. CASE i < k
      <4>1. i \in 1..Len(q) /\ i < j - 1 /\ r[i] = q[i]
        BY <1>1, <1>3, <1>7, <1>8, <3>1, <3>3
      <4> QED BY <3>1, <4>1 DEF InOrder
    <3>4. CASE k < i
      <4>1. i - 1 \in 1..Len(q) /\ i - 1 < j - 1 /\ r[i] = q[i - 1]
        BY <1>1, <1>3, <1>7, <1>8, <3>4
      <4> QED BY <3>1, <4>1 DEF InOrder
    <3> QED BY <1>3, <1>8, <1>7, <1>1, <3>2, <3>3, <3>4
  <2> QED BY <1>1, <1>3, <1>7, <2>1, <2>2, <2>3
<1> QED BY <1>8 DEF InOrder, k, r

(* So pcb_remove and pcb_insert keep the READY queues in order. *)
LEMMA RemoveSorted ==
  ASSUME NEW qs \in Queues, NEW s \in States, NEW p \in Pcb, Sorted(qs, s)
  PROVE  Sorted(pcb_remove(qs, s, p), s)
<1>1. \A i \in QueueId : /\ qs[i] \in Seq(Pcb)
                         /\ pcb_remove(qs, s, p)[i] \in {qs[i], RemoveFirst(qs[i], p)}
  BY DEF pcb_remove, Queues
<1>2. {0, 2} \subseteq QueueId  BY DEF QueueId
<1> QED BY <1>1, <1>2, RemoveInOrder DEF Sorted

(* Insertion by priority, in the READY queues. *)
LEMMA InsertSorted ==
  ASSUME NEW qs \in Queues, NEW s \in States, NEW p \in Pcb, Sorted(qs, s)
  PROVE  Sorted(pcb_insert(qs, s, p), s)
<1>1. \A i \in {0, 2} :
        /\ i \in QueueId /\ qs[i] \in Seq(Pcb)
        /\ pcb_insert(qs, s, p)[i] \in {qs[i], InsertAt(qs[i], InsertPos(qs[i], s, p), p)}
  BY DEF pcb_insert, Queues, QueueId, IsPriority
<1>2. \A i \in {0, 2} : InOrder(qs[i], s)
  BY DEF Sorted
<1>3. \A i \in {0, 2} : InOrder(InsertAt(qs[i], InsertPos(qs[i], s, p), p), s)
  BY <1>1, <1>2, InsertInOrder DEF States
<1> QED BY <1>1, <1>2, <1>3 DEF Sorted

(* A change of the state of PCBs outside the queues does not matter. *)
LEMMA ChangeSorted ==
  ASSUME NEW qs \in Queues, NEW s, NEW s2, NEW S \in SUBSET Pcb, Holds(qs, s, S),
         \A x \in S : s2[x].pri = s[x].pri, Sorted(qs, s)
  PROVE  Sorted(qs, s2)
<1>1. \A i \in {0, 2} : i \in QueueId /\ DOMAIN qs[i] = 1..Len(qs[i])
  BY LenProperties DEF Queues, QueueId
<1>2. \A i \in {0, 2} : \A j \in 1..Len(qs[i]) : qs[i][j] \in S
  BY <1>1 DEF Holds, ToSet
<1> QED BY <1>2 DEF Sorted, InOrder

(* Of the active READY processes the head of their queue is one of the best. *)
LEMMA HeadBest ==
  ASSUME NEW qs \in Queues, NEW s \in States, NEW S \in SUBSET Pcb, Holds(qs, s, S),
         Sorted(qs, s), NEW p \in S, s[p].exec = "READY", s[p].dpatch = "ACTIVE"
  PROVE  qs[0] # <<>> /\ s[Head(qs[0])].pri <= s[p].pri
<1>1. Selector(s[p]) = 0  BY DEF Selector
<1>2. qs[0] \in Seq(Pcb) /\ DOMAIN qs[0] = 1..Len(qs[0]) /\ Len(qs[0]) \in Nat
  BY LenProperties DEF Queues, QueueId
<1>3. PICK j \in 1..Len(qs[0]) : qs[0][j] = p
  BY <1>1, <1>2 DEF Holds, ToSet
<1>4. qs[0] # <<>>  BY <1>2, <1>3
<1>5. Head(qs[0]) = qs[0][1] /\ 1 \in 1..Len(qs[0])  BY <1>2, <1>3, <1>4
<1>6. s[p].pri \in Int  BY DEF States, PcbState, Pri
<1> QED BY <1>2, <1>3, <1>4, <1>5, <1>6 DEF Sorted, InOrder

-----------------------------------------------------------------------------
(* What makes the kernel panic, whatever the commands: loadR3 is not left    *)
(* before its last process, so that no other process is on the CPU then.     *)
LoadPart == pc = "load" => running = ComhandPcb /\ mode \in {"run", "panic"}

(* System calls do not begin inside loadR3, and nothing but LoadR3 enters it. *)
LEMMA NextLoad == LoadPart /\ [Next]_vars => LoadPart'
<1> SUFFICES ASSUME LoadPart, [Next]_vars PROVE LoadPart'
  OBVIOUS
<1>1. CASE Syscall
  <2>1. CASE Panic  BY <2>1 DEF Panic, LoadPart, sched, cmd
  <2>2. CASE pc # "load" /\ pc' = pc  BY <2>2 DEF LoadPart
  <2>3. ASSUME NEW op \in {"READ", "WRITE", "IDLE"}, pc # "load",
               pc' \in {PcAfter(op), PcRefused(op)}
        PROVE  LoadPart'
    BY <2>3 DEF PcAfter, PcRefused, LoadPart
  <2>4. (Calling \/ SysExit \/ KmainIdle) => pc # "load"
    BY DEF Calling, SysExit, AtShutdownExit, KmainIdle, LoadPart
  <2> QED BY <1>1, <2>1, <2>2, <2>3, <2>4
          DEF Syscall, Yield, SysFault, KmainIdle, SysReturn, SysIdle, SysExit, SysIo,
              IoOp, cmd
<1>2. CASE Wake \/ KmainClose
  BY <1>2 DEF Wake, KmainClose, Panic, Dispatch, sched, cmd, LoadPart
<1>3. CASE Irq
  BY <1>3 DEF Irq, OutputIrq, InputIrq, Interrupt, Panic, sched, cmd, LoadPart
<1>4. CASE Comhand
  BY <1>4 DEF Comhand, LoadR3, LoadNext, Create, Alarm, Shutdown, CleanNext, ClearNoLine,
              Suspend, Resume, Delete, PriorityFind, PrioritySet, AtLine, Panic,
              sched, cmd, LoadPart
<1>5. CASE UNCHANGED vars  BY <1>5 DEF vars, LoadPart
<1> QED BY <1>1, <1>2, <1>3, <1>4, <1>5 DEF Next

(* The completed process, unless suspended, is in the active READY queue     *)
(* afterwards: the hlt loop then has somebody to run.                        *)
LEMMA WokenIsThere ==
  ASSUME BaseInv, mode # "off", Completed, st[Waiter].dpatch # "SUSPENDED"
  PROVE  CheckedQueues[0] # <<>>
<1> DEFINE qs == pcb_remove(queues, st, Waiter)
<1>1. queues \in Queues /\ st \in States /\ Waiter \in Pcb /\ CheckedSt \in States
  BY CheckedBase DEF BaseInv, SchedPart
<1>2. /\ CheckedSt[Waiter].exec = "READY" /\ CheckedSt[Waiter].dpatch = "ACTIVE"
      /\ CheckedQueues = pcb_insert(qs, CheckedSt, Waiter)
  BY <1>1 DEF CheckedSt, CheckedQueues, States, PcbState, Dpatch
<1>3. qs \in Queues  BY <1>1, RemoveType DEF Queues, States
<1> HIDE DEF qs
<1>4. qs[0] \in Seq(Pcb)  BY <1>3 DEF Queues, QueueId
<1>5. CheckedQueues[0] = InsertAt(qs[0], InsertPos(qs[0], CheckedSt, Waiter), Waiter)
  BY <1>2, <1>3 DEF pcb_insert, Selector, IsPriority, Queues, QueueId
<1>6. Len(CheckedQueues[0]) = Len(qs[0]) + 1 /\ Len(qs[0]) \in Nat
  BY <1>1, <1>4, <1>5, InsertPosRange, InsertAtProperties, LenProperties DEF States
<1> QED BY <1>6

(* Every step into a panic is one of the five. *)
LEMMA PanicsKnownStep == BaseInv /\ LoadPart /\ [Next]_vars => PanicHasCause
<1> SUFFICES ASSUME BaseInv, LoadPart, [Next]_vars, mode # "panic", mode' = "panic"
             PROVE  \/ DeviceIdle(dcb) /\ ~dcb.thri
                    \/ CheckFaults
                    \/ mode = "awake" /\ Completed /\ st[Waiter].dpatch = "SUSPENDED"
                    \/ pc = "load" /\ Taken(R3Names[loading])
                    \/ running = ComhandPcb /\ (allocated = Pcb \/ pc = "noline")
  BY DEF PanicHasCause
<1>1. CASE Syscall
  BY <1>1 DEF Syscall, Yield, SysFault, KmainIdle, SysReturn, SysIdle, SysExit, SysIo,
              Dispatch, Calling
<1>2. CASE Wake
  BY <1>2, WokenIsThere DEF Wake, Dispatch
<1>3. CASE Irq
  <2>1. DeviceIdle(dcb)
    BY <1>3 DEF Irq, OutputIrq, InputIrq, Interrupt
  <2>2. dcb.thri => ~DeviceIdle(dcb)
    BY DEF BaseInv, DcbPart, DcbConsistent, Doing
  <2> QED BY <2>1, <2>2
<1>4. CASE Comhand
  BY <1>4 DEF Comhand, LoadR3, LoadNext, Create, Alarm, Shutdown, CleanNext, ClearNoLine,
              Suspend, Resume, Requeue, Delete, PriorityFind, PrioritySet, AtLine, LoadPart, cmd
<1>5. CASE KmainClose  BY <1>5 DEF KmainClose
<1>6. CASE UNCHANGED vars  BY <1>6 DEF vars
<1> QED BY <1>1, <1>2, <1>3, <1>4, <1>5, <1>6 DEF Next

(* The kernel panics for a key on an idle device, the completed request of a *)
(* freed process, a completion for a suspended process with nobody ready, a  *)
(* process that cannot be made, or a refused READ; and for nothing else,     *)
(* whatever the processes, commands and interrupts.                          *)
THEOREM PanicsKnown == Spec => OnlyKnownPanics
<1>1. Init => LoadPart  BY DEF Init, LoadPart
<1> QED BY InitBase, NextBase, <1>1, NextLoad, PanicsKnownStep, PTL DEF Spec, OnlyKnownPanics

-----------------------------------------------------------------------------
(* The steps of the dispatcher.  From here on HeldAlive is assumed, so that  *)
(* QueueInv holds; OrderInv adds the order of the READY queues.              *)
OrderInv == FullInv /\ Sorted(queues, st)

Runnable(s) == s.exec = "READY" /\ s.dpatch = "ACTIVE"

(* The states after sys_check_io: as before, or the owner of the completed   *)
(* request is READY.                                                         *)
Wakes(c) ==
  \/ c = st
  \/ /\ dcb.event /\ Waiter \in allocated \ {running} /\ st[Waiter].exec = "BLOCKED"
     /\ c = [st EXCEPT ![Waiter].exec = "READY"]

(* The CPU changes hands, the states being c: the best of those that can run *)
(* gets it, or nobody when there is none, and the process that had it is     *)
(* BLOCKED, READY or gone.                                                   *)
Switched(c) ==
  /\ allocated' \in {allocated, allocated \ {running}}
  /\ \A p \in allocated' \ {running, running'} : st'[p] = c[p]
  /\ running \in allocated' =>
       /\ running' # running
       /\ \/ st'[running] = [st[running] EXCEPT !.exec = "BLOCKED"]
          \/ running' # NoPcb /\ st'[running] = [st[running] EXCEPT !.exec = "READY"]
  /\ running' = NoPcb => \A p \in allocated' \ {running} : ~Runnable(c[p])
  /\ running' # NoPcb =>
       /\ running' \in allocated' \ {running} /\ Runnable(c[running'])
       /\ st'[running'] = [c[running'] EXCEPT !.exec = "RUNNING"]
       /\ \A p \in allocated' \ {running} : Runnable(c[p]) => c[running'].pri <= c[p].pri

(* sys_check_io keeps the order of the queues. *)
LEMMA CheckedOrder ==
  ASSUME OrderInv, mode # "off", ~CheckFaults
  PROVE  Wakes(CheckedSt) /\ Sorted(CheckedQueues, CheckedSt)
<1>1. BaseInv /\ QueueInv /\ Sorted(queues, st)  BY DEF OrderInv, FullInv
<1>2. /\ queues \in Queues /\ st \in States /\ allocated \subseteq Pcb
      /\ dcb \in DcbState(Pcb, MaxLen) /\ DcbConsistent(dcb) /\ MaxLen \in Nat
  BY <1>1, BoundAssumption DEF BaseInv, SchedPart, HeapPart, DcbPart
<1>3. CASE ~Completed
  BY <1>1, <1>3 DEF CheckedQueues, CheckedSt, Wakes
<1>4. CASE Completed
  <2> DEFINE qs == pcb_remove(queues, st, Waiter)
  <2>1. Waiter \in allocated \ {running} /\ Waiter \in Pcb /\ CheckedSt \in States
    BY <1>1, <1>2, <1>4, CheckedQueue, CheckedBase
  <2>2. st[Waiter].exec = "BLOCKED"
    <3>1. dcb.ops # <<>>  BY <1>2, <1>4, Fields DEF Completed
    <3>2. Waiter \in Owners(dcb)
      BY <1>1, <1>2, <3>1, NextIoOwners DEF Waiter, QueueInv, OwnPart
    <3> QED BY <1>1, <2>1, <3>2 DEF QueueInv, OwnPart
  <2>3. /\ CheckedSt = [st EXCEPT ![Waiter].exec = "READY"]
        /\ CheckedQueues = pcb_insert(qs, CheckedSt, Waiter)
    BY <1>4 DEF CheckedSt, CheckedQueues
  <2>4. \A p \in Pcb : CheckedSt[p].pri = st[p].pri
    BY <1>2, <2>3 DEF States, PcbState
  <2>5. qs \in Queues /\ Sorted(qs, st)
    BY <1>1, <1>2, <2>1, RemoveType, RemoveSorted DEF Queues, States
  <2>6. Holds(qs, st, (allocated \ {running}) \ {Waiter})
    BY <1>1, <1>2, <2>1, RemoveHolds DEF QueueInv, QueuesSound, Queues, States
  <2>7. Sorted(qs, CheckedSt)
    <3>1. (allocated \ {running}) \ {Waiter} \in SUBSET Pcb  BY <1>2
    <3>2. \A x \in (allocated \ {running}) \ {Waiter} : CheckedSt[x].pri = st[x].pri
      BY <3>1, <2>4
    <3> HIDE DEF qs
    <3> QED BY <2>5, <2>6, <3>1, <3>2, ChangeSorted
  <2>8. Sorted(CheckedQueues, CheckedSt)
    BY <2>1, <2>3, <2>5, <2>7, InsertSorted
  <2> QED BY <1>4, <2>1, <2>2, <2>3, <2>8 DEF Wakes, Completed
<1> QED BY <1>3, <1>4

(* The dispatcher takes the head of the active READY queue. *)
LEMMA DispatchOrder ==
  ASSUME NEW qs \in Queues, NEW s \in States, NEW A \in SUBSET Pcb, Holds(qs, s, A),
         Sorted(qs, s), qs[0] # <<>>, Dispatch(qs, s)
  PROVE  /\ Sorted(queues', st') /\ running' \in A /\ Runnable(s[running'])
         /\ st'[running'] = [s[running'] EXCEPT !.exec = "RUNNING"]
         /\ \A p \in Pcb : p # running' => st'[p] = s[p]
         /\ \A p \in A : Runnable(s[p]) => s[running'].pri <= s[p].pri
<1> DEFINE h == Head(qs[0])
<1>1. /\ running' = h /\ queues' = pcb_remove(qs, s, h)
      /\ st' = [s EXCEPT ![h].exec = "RUNNING"]
  BY DEF Dispatch
<1>2. h \in A /\ Selector(s[h]) = 0
  BY HeadHolds DEF Queues, QueueId
<1>3. \A p \in A : Runnable(s[p]) => s[h].pri <= s[p].pri
  BY HeadBest DEF Runnable
<1> HIDE DEF h
<1>4. Runnable(s[h])
  BY <1>2 DEF Selector, States, PcbState, Dpatch, Exec, Runnable
<1>5. /\ st'[h] = [s[h] EXCEPT !.exec = "RUNNING"]
      /\ \A p \in Pcb : p # h => st'[p] = s[p]
  BY <1>1, <1>2 DEF States
<1>6. \A p \in Pcb : st'[p].pri = s[p].pri
  BY <1>2, <1>5 DEF States, PcbState
<1>7. queues' \in Queues /\ Sorted(queues', s) /\ Holds(queues', s, A \ {h})
  BY <1>1, <1>2, RemoveType, RemoveSorted, RemoveHolds DEF Queues, States
<1>8. Sorted(queues', st')
  <2>1. A \ {h} \in SUBSET Pcb /\ \A x \in A \ {h} : st'[x].pri = s[x].pri  BY <1>6
  <2> QED BY <1>7, <2>1, ChangeSorted
<1> QED BY <1>1, <1>2, <1>3, <1>4, <1>5, <1>8

(* READ and WRITE: the caller blocks. *)
LEMMA SysIoOrder ==
  ASSUME OrderInv, NEW op \in IoOp, NEW n \in 1..MaxLen, SysIo(op, n)
  PROVE  Sorted(queues', st') /\ Wakes(CheckedSt) /\ Switched(CheckedSt)
<1> DEFINE s == [CheckedSt EXCEPT ![running].exec = "BLOCKED"]
           qs == pcb_insert(CheckedQueues, s, running)
<1>1. BaseInv /\ QueueInv  BY DEF OrderInv, FullInv
<1>2. /\ mode = "run" /\ ~CheckFaults /\ allocated' = allocated
      /\ \/ qs[0] # <<>> /\ Dispatch(qs, s)
         \/ qs[0] = <<>> /\ queues' = qs /\ st' = s /\ running' = NoPcb
  BY DEF SysIo, Calling, heap
<1>3. /\ running \in allocated /\ running \in Pcb /\ running # NoPcb
      /\ st[running].exec = "RUNNING" /\ allocated \subseteq Pcb
  BY <1>1, <1>2, CallerFacts
<1>4. /\ CheckedQueues \in Queues /\ CheckedSt \in States
      /\ Holds(CheckedQueues, CheckedSt, allocated \ {running})
      /\ CheckedSt[running] = st[running]
  BY <1>1, <1>2, <1>3, CheckedBase, CheckedQueue
<1>5. Wakes(CheckedSt) /\ Sorted(CheckedQueues, CheckedSt)
  BY <1>2, CheckedOrder
<1>6. /\ s \in States /\ s[running] = [st[running] EXCEPT !.exec = "BLOCKED"]
      /\ s[running].exec = "BLOCKED"
      /\ \A p \in Pcb : p # running => s[p] = CheckedSt[p]
      /\ \A p \in Pcb : s[p].pri = CheckedSt[p].pri
  BY <1>3, <1>4 DEF States, PcbState, Exec
<1> HIDE DEF s
<1>7. Holds(CheckedQueues, s, allocated \ {running}) /\ Sorted(CheckedQueues, s)
  <2>1. allocated \ {running} \in SUBSET Pcb  BY <1>3
  <2>2. \A x \in allocated \ {running} : s[x] = CheckedSt[x] /\ s[x].pri = CheckedSt[x].pri
    BY <1>3, <1>6
  <2> QED BY <1>4, <1>5, <2>1, <2>2, ChangeHolds, ChangeSorted DEF Queues
<1>8. qs \in Queues /\ Sorted(qs, s) /\ Holds(qs, s, (allocated \ {running}) \cup {running})
  BY <1>3, <1>4, <1>6, <1>7, InsertHolds, InsertType, InsertSorted DEF Queues, States
<1>9. (allocated \ {running}) \cup {running} = allocated  BY <1>3
<1> HIDE DEF qs
<1>10. ~Runnable(s[running])  BY <1>6 DEF Runnable
<1>11. CASE qs[0] # <<>> /\ Dispatch(qs, s)
  <2>1. /\ Sorted(queues', st') /\ running' \in allocated /\ Runnable(s[running'])
        /\ st'[running'] = [s[running'] EXCEPT !.exec = "RUNNING"]
        /\ \A p \in Pcb : p # running' => st'[p] = s[p]
        /\ \A p \in allocated : Runnable(s[p]) => s[running'].pri <= s[p].pri
    BY <1>3, <1>6, <1>8, <1>9, <1>11, DispatchOrder
  <2>2. running' # running /\ running' # NoPcb
    BY <1>3, <1>10, <2>1, PcbAssumption
  <2> QED BY <1>2, <1>3, <1>5, <1>6, <2>1, <2>2 DEF Switched
<1>12. CASE qs[0] = <<>> /\ queues' = qs /\ st' = s /\ running' = NoPcb
  <2>1. \A p \in allocated : ~Runnable(s[p])
    BY <1>3, <1>6, <1>8, <1>9, <1>12, HeadBest DEF Runnable
  <2> QED BY <1>2, <1>3, <1>5, <1>6, <1>8, <1>12, <2>1 DEF Switched
<1> QED BY <1>2, <1>11, <1>12

(* IDLE: the caller goes back among the READY ones. *)
LEMMA SysIdleOrder ==
  ASSUME OrderInv, SysIdle
  PROVE  Sorted(queues', st') /\ Wakes(CheckedSt) /\ Switched(CheckedSt)
<1> DEFINE next == Head(CheckedQueues[0])
           s == [CheckedSt EXCEPT ![running].exec = "READY"]
           qs == pcb_remove(CheckedQueues, CheckedSt, next)
           S == allocated \ {running}
<1>1. BaseInv /\ QueueInv  BY DEF OrderInv, FullInv
<1>2. /\ mode = "run" /\ ~CheckFaults /\ CheckedQueues[0] # <<>>
      /\ queues' = pcb_insert(qs, s, running)
      /\ st' = [s EXCEPT ![next].exec = "RUNNING"] /\ running' = next
      /\ allocated' = allocated
  BY DEF SysIdle, Calling, heap
<1>3. /\ running \in allocated /\ running \in Pcb /\ running # NoPcb
      /\ st[running].exec = "RUNNING" /\ allocated \subseteq Pcb
  BY <1>1, <1>2, CallerFacts
<1>4. /\ CheckedQueues \in Queues /\ CheckedSt \in States
      /\ Holds(CheckedQueues, CheckedSt, S) /\ CheckedSt[running] = st[running]
  BY <1>1, <1>2, <1>3, CheckedBase, CheckedQueue
<1>5. Wakes(CheckedSt) /\ Sorted(CheckedQueues, CheckedSt)
  BY <1>2, CheckedOrder
<1>6. next \in S /\ next \in Pcb /\ Selector(CheckedSt[next]) = 0
  BY <1>2, <1>4, HeadHolds DEF Queues, QueueId
<1>7. \A p \in S : Runnable(CheckedSt[p]) => CheckedSt[next].pri <= CheckedSt[p].pri
  BY <1>3, <1>4, <1>5, HeadBest DEF Runnable
<1> HIDE DEF next
<1>8. Runnable(CheckedSt[next])
  BY <1>4, <1>6 DEF Selector, States, PcbState, Dpatch, Exec, Runnable
<1>9. /\ s \in States /\ s[running] = [st[running] EXCEPT !.exec = "READY"]
      /\ \A p \in Pcb : p # running => s[p] = CheckedSt[p]
      /\ \A p \in Pcb : s[p].pri = CheckedSt[p].pri
      /\ s[running].exec = "READY"
  BY <1>3, <1>4 DEF States, PcbState, Exec
<1> HIDE DEF s
<1>10. /\ st'[next] = [CheckedSt[next] EXCEPT !.exec = "RUNNING"]
       /\ \A p \in Pcb : p # next => st'[p] = s[p]
       /\ \A p \in Pcb : st'[p].pri = s[p].pri
  BY <1>2, <1>6, <1>9 DEF States, PcbState
<1>11. qs \in Queues /\ Sorted(qs, CheckedSt) /\ Holds(qs, CheckedSt, S \ {next})
  BY <1>3, <1>4, <1>5, <1>6, RemoveHolds, RemoveSorted, RemoveType DEF Queues, States
<1> HIDE DEF qs
<1>12. S \ {next} \in SUBSET Pcb
       /\ \A x \in S \ {next} : s[x] = CheckedSt[x] /\ s[x].pri = CheckedSt[x].pri
  BY <1>3, <1>9
<1>13. Holds(qs, s, S \ {next}) /\ Sorted(qs, s)
  BY <1>11, <1>12, ChangeHolds, ChangeSorted DEF Queues
<1>14. /\ queues' \in Queues /\ Sorted(queues', s)
       /\ Holds(queues', s, (S \ {next}) \cup {running})
  BY <1>2, <1>3, <1>9, <1>11, <1>12, <1>13, InsertHolds, InsertType, InsertSorted
     DEF Queues, States
<1>15. Sorted(queues', st')
  <2>1. (S \ {next}) \cup {running} \in SUBSET Pcb
        /\ \A x \in (S \ {next}) \cup {running} : st'[x].pri = s[x].pri
    BY <1>3, <1>10
  <2> QED BY <1>14, <2>1, ChangeSorted
<1> QED BY <1>2, <1>3, <1>5, <1>6, <1>7, <1>8, <1>9, <1>10, <1>15, PcbAssumption DEF Switched

(* EXIT: the caller is gone. *)
LEMMA SysExitOrder ==
  ASSUME OrderInv, SysExit
  PROVE  Sorted(queues', st') /\ Wakes(CheckedSt) /\ Switched(CheckedSt)
<1> DEFINE s == [CheckedSt EXCEPT ![running] = Zeroed]
           S == allocated \ {running}
<1>1. BaseInv /\ QueueInv  BY DEF OrderInv, FullInv
<1>2. /\ mode = "run" /\ ~CheckFaults /\ allocated' = S
      /\ \/ CheckedQueues[0] # <<>> /\ Dispatch(CheckedQueues, s)
         \/ /\ CheckedQueues[0] = <<>> /\ queues' = CheckedQueues /\ st' = s
            /\ running' = IF origin THEN NoPcb ELSE running
  BY DEF SysExit
<1>3. /\ running \in allocated /\ running \in Pcb /\ running # NoPcb
      /\ allocated \subseteq Pcb /\ origin
  BY <1>1, <1>2, CallerFacts
<1>4. /\ CheckedQueues \in Queues /\ CheckedSt \in States
      /\ Holds(CheckedQueues, CheckedSt, S)
  BY <1>1, <1>2, <1>3, CheckedBase, CheckedQueue
<1>5. Wakes(CheckedSt) /\ Sorted(CheckedQueues, CheckedSt)
  BY <1>2, CheckedOrder
<1>6. s \in States /\ \A p \in Pcb : p # running => s[p] = CheckedSt[p]
  <2>1. Zeroed \in PcbState  BY DEF PcbState, Zeroed, Exec, Dpatch, Class, Pri
  <2> QED BY <1>3, <1>4, <2>1 DEF States
<1> HIDE DEF s
<1>7. S \in SUBSET Pcb /\ \A x \in S : s[x] = CheckedSt[x] /\ s[x].pri = CheckedSt[x].pri
  BY <1>3, <1>6
<1>8. Holds(CheckedQueues, s, S) /\ Sorted(CheckedQueues, s)
  BY <1>4, <1>5, <1>7, ChangeHolds, ChangeSorted DEF Queues
<1>9. CASE CheckedQueues[0] # <<>> /\ Dispatch(CheckedQueues, s)
  <2>1. /\ Sorted(queues', st') /\ running' \in S /\ Runnable(s[running'])
        /\ st'[running'] = [s[running'] EXCEPT !.exec = "RUNNING"]
        /\ \A p \in Pcb : p # running' => st'[p] = s[p]
        /\ \A p \in S : Runnable(s[p]) => s[running'].pri <= s[p].pri
    BY <1>4, <1>6, <1>7, <1>8, <1>9, DispatchOrder
  <2> QED BY <1>2, <1>3, <1>5, <1>7, <2>1, PcbAssumption DEF Switched
<1>10. CASE CheckedQueues[0] = <<>> /\ queues' = CheckedQueues /\ st' = s
            /\ running' = IF origin THEN NoPcb ELSE running
  <2>1. \A p \in S : ~Runnable(s[p])
    BY <1>4, <1>6, <1>7, <1>8, <1>10, HeadBest DEF Runnable
  <2> QED BY <1>2, <1>3, <1>5, <1>7, <1>8, <1>10, <2>1 DEF Switched
<1> QED BY <1>2, <1>9, <1>10

(* kmain's int 0x60: nobody had the CPU. *)
LEMMA KmainOrder ==
  ASSUME OrderInv, KmainIdle
  PROVE  Sorted(queues', st') /\ Switched(st)
<1>1. /\ queues[0] # <<>> /\ Dispatch(queues, st) /\ mode = "boot"
      /\ allocated' = allocated /\ Sorted(queues, st)
      /\ queues \in Queues /\ st \in States /\ allocated \subseteq Pcb
  BY DEF KmainIdle, heap, OrderInv, FullInv, BaseInv, SchedPart, HeapPart, ModePart
<1>2. running = NoPcb /\ Holds(queues, st, allocated \ {running})
  BY <1>1 DEF OrderInv, FullInv, QueueInv, QueuesSound, CallPart
<1>3. allocated \ {running} = allocated /\ NoPcb \notin allocated
  BY <1>1, <1>2, PcbAssumption
<1>4. /\ Sorted(queues', st') /\ running' \in allocated /\ Runnable(st[running'])
      /\ st'[running'] = [st[running'] EXCEPT !.exec = "RUNNING"]
      /\ \A p \in Pcb : p # running' => st'[p] = st[p]
      /\ \A p \in allocated : Runnable(st[p]) => st[running'].pri <= st[p].pri
  BY <1>1, <1>2, <1>3, DispatchOrder
<1> QED BY <1>1, <1>2, <1>3, <1>4 DEF Switched

(* The end of the hlt loop. *)
LEMMA WakeOrder ==
  ASSUME OrderInv, mode = "awake", ~CheckFaults, CheckedQueues[0] # <<>>,
         Dispatch(CheckedQueues, CheckedSt), allocated' = allocated
  PROVE  Sorted(queues', st') /\ Wakes(CheckedSt) /\ Switched(CheckedSt)
<1>1. BaseInv /\ QueueInv  BY DEF OrderInv, FullInv
<1>2. running = NoPcb /\ allocated \subseteq Pcb
  BY <1>1 DEF BaseInv, HeapPart, ModePart, Asleep
<1>3. allocated \ {running} = allocated /\ NoPcb \notin allocated
  BY <1>2, PcbAssumption
<1>4. /\ CheckedQueues \in Queues /\ CheckedSt \in States
      /\ Holds(CheckedQueues, CheckedSt, allocated \ {running})
  BY <1>1, CheckedBase, CheckedQueue
<1>5. Wakes(CheckedSt) /\ Sorted(CheckedQueues, CheckedSt)
  BY CheckedOrder
<1>6. /\ Sorted(queues', st') /\ running' \in allocated /\ Runnable(CheckedSt[running'])
      /\ st'[running'] = [CheckedSt[running'] EXCEPT !.exec = "RUNNING"]
      /\ \A p \in Pcb : p # running' => st'[p] = CheckedSt[p]
      /\ \A p \in allocated : Runnable(CheckedSt[p]) => CheckedSt[running'].pri <= CheckedSt[p].pri
  BY <1>2, <1>3, <1>4, <1>5, DispatchOrder
<1> QED BY <1>2, <1>3, <1>5, <1>6 DEF Switched

(* What a command does to the processes: nothing, or it creates one, suspends *)
(* or resumes one, sets the priority of one, or frees one, that is not on the *)
(* CPU.                                                                       *)
Managed ==
  \/ allocated' = allocated /\ \A p \in allocated : st'[p] = st[p]
  \/ \E p \in Pcb \ allocated :
       /\ allocated' = allocated \cup {p} /\ Runnable(st'[p])
       /\ \A x \in allocated : st'[x] = st[x]
  \/ \E p \in allocated \ {running}, d \in Dpatch :
       /\ allocated' = allocated /\ st'[p] = [st[p] EXCEPT !.dpatch = d]
       /\ \A x \in allocated \ {p} : st'[x] = st[x]
  \/ \E p \in allocated \ {running}, k \in Pri :
       /\ allocated' = allocated /\ st'[p] = [st[p] EXCEPT !.pri = k]
       /\ \A x \in allocated \ {p} : st'[x] = st[x]
  \/ \E p \in allocated \ {running} :
       /\ allocated' = allocated \ {p} /\ \A x \in allocated' : st'[x] = st[x]

(* pcb_setup and pcb_insert. *)
LEMMA CreateOrder ==
  ASSUME OrderInv, NEW p \in Pcb \ allocated, NEW n, NEW pri \in Pri, Create(p, n, pri)
  PROVE  Sorted(queues', st') /\ running' = running /\ Managed
<1>1. /\ queues \in Queues /\ st \in States /\ allocated \subseteq Pcb /\ Sorted(queues, st)
      /\ Holds(queues, st, allocated \ {running})
  BY DEF OrderInv, FullInv, BaseInv, SchedPart, HeapPart, QueueInv, QueuesSound
<1>2. /\ allocated' = allocated \cup {p} /\ st' = [st EXCEPT ![p] = Fresh("USER", pri)]
      /\ queues' = pcb_insert(queues, st', p) /\ running' = running
  BY DEF Create
<1>3. st' \in States /\ Runnable(st'[p]) /\ \A x \in Pcb : x # p => st'[x] = st[x]
  <2>1. Fresh("USER", pri) \in PcbState /\ Runnable(Fresh("USER", pri))
    BY DEF PcbState, Fresh, Exec, Dpatch, Class, Runnable
  <2> QED BY <1>1, <1>2, <2>1 DEF States
<1>4. /\ allocated \ {running} \in SUBSET Pcb
      /\ \A x \in allocated \ {running} : st'[x].pri = st[x].pri
  BY <1>1, <1>3
<1>5. Sorted(queues, st')  BY <1>1, <1>4, ChangeSorted
<1>6. Sorted(queues', st')  BY <1>1, <1>2, <1>3, <1>5, InsertSorted
<1> QED BY <1>1, <1>2, <1>3, <1>6 DEF Managed

(* suspend, resume and the end of setPcbPriorityCommand. *)
LEMMA RequeueOrder ==
  ASSUME OrderInv, NEW p \in allocated \ {running}, NEW s \in PcbState, Requeue(p, s),
         \/ \E d \in Dpatch : s = [st[p] EXCEPT !.dpatch = d]
         \/ \E k \in Pri : s = [st[p] EXCEPT !.pri = k]
  PROVE  Sorted(queues', st') /\ running' = running /\ Managed
<1> DEFINE S == allocated \ {running}
           qs == pcb_remove(queues, st, p)
<1>1. /\ queues \in Queues /\ st \in States /\ allocated \subseteq Pcb /\ Sorted(queues, st)
      /\ Holds(queues, st, S)
  BY DEF OrderInv, FullInv, BaseInv, SchedPart, HeapPart, QueueInv, QueuesSound
<1>2. /\ st' = [st EXCEPT ![p] = s]
      /\ queues' = pcb_insert(qs, st', p)
      /\ running' = running /\ allocated' = allocated
  BY DEF Requeue, heap
<1>3. p \in S /\ p \in Pcb  BY <1>1
<1>4. /\ st' \in States /\ st'[p] = s
      /\ \A x \in Pcb : x # p => st'[x] = st[x]
  BY <1>1, <1>2, <1>3 DEF States
<1>5. qs \in Queues /\ Sorted(qs, st) /\ Holds(qs, st, S \ {p})
  BY <1>1, <1>3, RemoveHolds, RemoveSorted, RemoveType DEF Queues, States
<1> HIDE DEF qs
<1>6. Sorted(qs, st')
  <2>1. S \ {p} \in SUBSET Pcb /\ \A x \in S \ {p} : st'[x].pri = st[x].pri
    BY <1>1, <1>4
  <2> QED BY <1>5, <2>1, ChangeSorted
<1>7. Sorted(queues', st')  BY <1>2, <1>3, <1>4, <1>5, <1>6, InsertSorted
<1>8. \A x \in allocated \ {p} : st'[x] = st[x]  BY <1>1, <1>4
<1>9. CASE \E d \in Dpatch : s = [st[p] EXCEPT !.dpatch = d]
  BY <1>2, <1>4, <1>7, <1>8, <1>9 DEF Managed
<1>10. CASE \E k \in Pri : s = [st[p] EXCEPT !.pri = k]
  BY <1>2, <1>4, <1>7, <1>8, <1>10 DEF Managed
<1> QED BY <1>9, <1>10

(* delete, and a round of shutdown's clean-up. *)
LEMMA FreeOrder ==
  ASSUME OrderInv, NEW p \in allocated \ {running}, queues' = pcb_remove(queues, st, p),
         Free(p), running' = running
  PROVE  Sorted(queues', st') /\ running' = running /\ Managed
<1> DEFINE S == allocated \ {running}
<1>1. /\ queues \in Queues /\ st \in States /\ allocated \subseteq Pcb /\ Sorted(queues, st)
      /\ Holds(queues, st, S)
  BY DEF OrderInv, FullInv, BaseInv, SchedPart, HeapPart, QueueInv, QueuesSound
<1>2. allocated' = allocated \ {p} /\ st' = [st EXCEPT ![p] = Zeroed]
  BY DEF Free
<1>3. \A x \in Pcb : x # p => st'[x] = st[x]  BY <1>1, <1>2 DEF States
<1>4. queues' \in Queues /\ Sorted(queues', st) /\ Holds(queues', st, S \ {p})
  BY <1>1, RemoveHolds, RemoveSorted, RemoveType DEF Queues, States
<1>5. Sorted(queues', st')
  <2>1. S \ {p} \in SUBSET Pcb /\ \A x \in S \ {p} : st'[x].pri = st[x].pri
    BY <1>1, <1>3
  <2> QED BY <1>4, <2>1, ChangeSorted
<1> QED BY <1>1, <1>2, <1>3, <1>5 DEF Managed

LEMMA CleanOrder ==
  ASSUME OrderInv, CleanNext
  PROVE  Sorted(queues', st') /\ running' = running /\ Managed
<1>1. PICK i \in QueueId : /\ queues[i] # <<>>
                           /\ queues' = pcb_remove(queues, st, Head(queues[i]))
                           /\ Free(Head(queues[i]))
  BY DEF CleanNext
<1>2. Head(queues[i]) \in allocated \ {running}
  BY <1>1, HeadHolds
     DEF OrderInv, FullInv, QueueInv, QueuesSound, BaseInv, SchedPart, Queues
<1>3. running' = running  BY DEF CleanNext
<1> QED BY <1>1, <1>2, <1>3, FreeOrder

(* Nothing happens to the processes. *)
LEMMA IdleOrder ==
  ASSUME OrderInv, UNCHANGED <<queues, st, running, allocated>>
  PROVE  Sorted(queues', st') /\ running' = running /\ Managed
BY DEF OrderInv, Sorted, InOrder, Managed

(* Every command. *)
LEMMA ComhandOrder ==
  ASSUME HeldAlive, OrderInv, Comhand
  PROVE  Sorted(queues', st') /\ running' = running /\ Managed
<1>0. /\ st \in States /\ allocated \subseteq Pcb
      /\ \A p \in Pcb : Queued(queues, p) => p \in allocated \ {running}
  BY DEF OrderInv, FullInv, BaseInv, SchedPart, HeapPart, QueueInv, QueuesSound, Holds, Queued
<1>1. CASE \/ LoadR3 \/ Shutdown \/ ClearNoLine \/ Panic
           \/ \E p \in Pcb : PriorityFind(p)
  <2>1. UNCHANGED <<queues, st, running, allocated>>
    BY <1>1 DEF LoadR3, Shutdown, ClearNoLine, PriorityFind, Panic, sched, heap
  <2> QED BY <2>1, IdleOrder
<1>2. CASE (LoadNext \/ Alarm) /\ ~Panic
  <2>1. 0 \in Pri /\ 1 \in Pri  BY DEF Pri
  <2>2. \E p \in Pcb \ allocated, pri \in Pri : \E n : Create(p, n, pri)
    BY <1>2, <2>1 DEF LoadNext, Alarm
  <2> QED BY <2>2, CreateOrder
<1>3. CASE CleanNext  BY <1>3, CleanOrder
<1>4. ASSUME NEW p \in Pcb, Suspend(p) \/ Resume(p)
      PROVE  Sorted(queues', st') /\ running' = running /\ Managed
  <2>1. p \in allocated \ {running} /\ st[p] \in PcbState
    BY <1>0, <1>4 DEF Suspend, Resume, States
  <2>2. PICK d \in Dpatch : Requeue(p, [st[p] EXCEPT !.dpatch = d])
    BY <1>4 DEF Suspend, Resume, Dpatch
  <2>3. [st[p] EXCEPT !.dpatch = d] \in PcbState  BY <2>1 DEF PcbState
  <2> QED BY <2>1, <2>2, <2>3, RequeueOrder
<1>5. ASSUME NEW p \in Pcb, Delete(p)
      PROVE  Sorted(queues', st') /\ running' = running /\ Managed
  <2>1. p \in allocated \ {running}  BY <1>0, <1>5 DEF Delete
  <2>2. queues' = pcb_remove(queues, st, p) /\ Free(p) /\ running' = running
    BY <1>5 DEF Delete
  <2> QED BY <2>1, <2>2, FreeOrder
<1>6. ASSUME NEW k \in PriChoices, PrioritySet(k)
      PROVE  Sorted(queues', st') /\ running' = running /\ Managed
  <2>1. running = ComhandPcb /\ pc = "priline" /\ Requeue(held, [st[held] EXCEPT !.pri = k])
    BY <1>6 DEF PrioritySet
  <2>2. held \in allocated \ {running} /\ st[held] \in PcbState /\ k \in Pri
    BY <1>0, <2>1, CommandAssumption
       DEF OrderInv, FullInv, BaseInv, CmdPart, HeldPart, HeldAlive, States
  <2>3. [st[held] EXCEPT !.pri = k] \in PcbState  BY <2>2 DEF PcbState
  <2> QED BY <2>1, <2>2, <2>3, RequeueOrder
<1> QED BY <1>1, <1>2, <1>3, <1>4, <1>5, <1>6 DEF Comhand

(* A call that returns to its caller. *)
Returned == running' = running /\ allocated' = allocated /\ Wakes(st')

LEMMA SysReturnOrder ==
  ASSUME OrderInv, NEW op \in IoOp \cup {"IDLE"}, SysReturn(op)
  PROVE  Sorted(queues', st') /\ Returned
BY CheckedOrder DEF SysReturn, Calling, Returned, heap

(* What a step of the kernel does to the processes. *)
StepKind ==
  \/ \E c \in {st, CheckedSt} : Wakes(c) /\ Switched(c)
  \/ Returned
  \/ running' = running /\ Managed

LEMMA NextKind ==
  ASSUME HeldAlive, OrderInv, [Next]_vars
  PROVE  Sorted(queues', st') /\ StepKind
<1>1. CASE UNCHANGED <<queues, st, running, allocated>>
  BY <1>1, IdleOrder DEF StepKind
<1>2. CASE Syscall
  <2>1. CASE SysFault
    BY <1>1, <2>1 DEF SysFault, Panic, sched, heap
  <2>2. CASE KmainIdle
    BY <2>2, KmainOrder DEF StepKind, Wakes
  <2>3. CASE SysIdle \/ SysExit \/ \E op \in IoOp, n \in 1..MaxLen : SysIo(op, n)
    BY <2>3, SysIdleOrder, SysExitOrder, SysIoOrder DEF StepKind
  <2>4. CASE \E op \in IoOp \cup {"IDLE"} : SysReturn(op)
    BY <2>4, SysReturnOrder DEF StepKind
  <2> QED BY <1>2, <2>1, <2>2, <2>3, <2>4 DEF Syscall, Yield
<1>3. CASE Wake
  <2>1. CASE Panic \/ UNCHANGED <<sched, heap, origin, dcb, cmd>>
    BY <1>1, <2>1 DEF Panic, sched, heap
  <2>2. CASE ~CheckFaults /\ CheckedQueues[0] # <<>> /\ Dispatch(CheckedQueues, CheckedSt)
             /\ UNCHANGED heap
    BY <1>3, <2>2, WakeOrder DEF StepKind, Wake, heap
  <2> QED BY <1>3, <2>1, <2>2 DEF Wake
<1>4. CASE Irq \/ KmainClose \/ UNCHANGED vars
  BY <1>1, <1>4 DEF Irq, OutputIrq, InputIrq, Interrupt, Panic, KmainClose, sched, heap, vars
<1>5. CASE Comhand  BY <1>5, ComhandOrder DEF StepKind
<1> QED BY <1>2, <1>3, <1>4, <1>5 DEF Next

(* The invariant with the order of the READY queues. *)
LEMMA InitOrder == Init => OrderInv
<1> SUFFICES ASSUME Init PROVE OrderInv
  OBVIOUS
<1>1. queues[0] = <<ComhandPcb, IdlePcb>> /\ queues[2] = <<>>
  <2>1. queues = [i \in 0..3 |-> IF i = 0 THEN <<ComhandPcb, IdlePcb>> ELSE <<>>]
    BY DEF Init, QueueId
  <2>2. 0 \in 0..3 /\ 2 \in 0..3 /\ 2 # 0  OBVIOUS
  <2> QED BY <2>1, <2>2
<1>2. st[ComhandPcb].pri = 0 /\ st[IdlePcb].pri = 9
  BY PcbAssumption DEF Init, Fresh
<1>3. InOrder(queues[0], st) /\ InOrder(queues[2], st)
  BY <1>1, <1>2 DEF InOrder
<1> QED BY <1>3, InitFull DEF OrderInv, Sorted

LEMMA NextOrder == HeldAlive /\ OrderInv /\ [Next]_vars => OrderInv'
<1> SUFFICES ASSUME HeldAlive, OrderInv, [Next]_vars PROVE OrderInv'
  OBVIOUS
<1>1. FullInv'  BY NextFull DEF OrderInv
<1>2. Sorted(queues', st')  BY NextKind
<1> QED BY <1>1, <1>2 DEF OrderInv, Sorted, InOrder

(* The two READY queues are always in the order of the priorities, although  *)
(* processes enter them from four system calls, an interrupt's completion    *)
(* and the commands: for any number of processes, under HeldAlive.           *)
THEOREM QueuesInOrder == Spec /\ []HeldAlive => []ReadySorted
<1>1. OrderInv => ReadySorted
  <2> SUFFICES ASSUME OrderInv PROVE ReadySorted
    OBVIOUS
  <2>1. \A i \in {0, 2} : DOMAIN queues[i] = 1..Len(queues[i])
    BY LenProperties DEF OrderInv, FullInv, BaseInv, SchedPart, Queues, QueueId
  <2> QED BY <2>1 DEF OrderInv, Sorted, InOrder, ReadySorted
<1> QED BY InitOrder, <1>1, NextOrder, PTL DEF Spec

(* No live process is lost, under HeldAlive; KernelAll checks it without. *)
THEOREM NobodyLost == Spec /\ []HeldAlive => []NoneLost
<1>1. FullInv => NoneLost  BY DEF FullInv, QueueInv, QueuesSound, Holds, NoneLost
<1> QED BY InitFull, <1>1, NextFull, PTL DEF Spec

-----------------------------------------------------------------------------
(* Who is dispatched. *)
LEMMA BestStep == HeldAlive /\ OrderInv /\ [Next]_vars => BestRuns
<1> SUFFICES ASSUME HeldAlive, OrderInv, [Next]_vars, running' \notin {running, NoPcb},
                    NEW p \in allocated' \ {running},
                    st'[p].exec = "READY" /\ st'[p].dpatch = "ACTIVE"
             PROVE  st'[running'].pri <= st'[p].pri
  BY DEF BestRuns
<1>1. PICK c \in {st, CheckedSt} : Wakes(c) /\ Switched(c)
  BY NextKind DEF StepKind, Returned
<1>2. c \in States /\ allocated' \subseteq Pcb
  <2>1. st \in States /\ allocated \subseteq Pcb
    BY DEF OrderInv, FullInv, BaseInv, SchedPart, HeapPart
  <2>2. c \in States
    BY <1>1, <2>1 DEF Wakes, States, PcbState, Exec
  <2> QED BY <1>1, <2>1, <2>2 DEF Switched
<1>3. /\ running' \in allocated' /\ st'[running'] = [c[running'] EXCEPT !.exec = "RUNNING"]
      /\ \A x \in allocated' \ {running} : Runnable(c[x]) => c[running'].pri <= c[x].pri
  BY <1>1 DEF Switched
<1>4. st'[running'].exec = "RUNNING" /\ st'[running'].pri = c[running'].pri
  BY <1>2, <1>3 DEF States, PcbState
<1>5. p # running' /\ st'[p] = c[p]
  BY <1>1, <1>4 DEF Switched
<1> QED BY <1>3, <1>4, <1>5 DEF Runnable

(* A process that is put on the CPU has the best priority of the active      *)
(* READY processes, the one that gave way apart: for any number of processes *)
(* and priorities, under HeldAlive.                                          *)
THEOREM BestDispatched == Spec /\ []HeldAlive => DispatchesBest
BY InitOrder, NextOrder, BestStep, PTL DEF Spec, DispatchesBest

(* A step either leaves the CPU where it is, or gives it to an active process. *)
LEMMA SuspendedStep == HeldAlive /\ OrderInv /\ [Next]_vars => StaysSuspended
<1> SUFFICES ASSUME HeldAlive, OrderInv, [Next]_vars,
                    NEW p \in allocated \cap allocated', st[p].dpatch = "SUSPENDED"
             PROVE  running' # p
  BY DEF StaysSuspended
<1>1. st \in States /\ allocated \subseteq Pcb /\ NoPcb \notin allocated /\ RunningRight
  BY PcbAssumption DEF OrderInv, FullInv, BaseInv, SchedPart, HeapPart, QueueInv, QueuesSound
<1>2. p # running  BY <1>1 DEF RunningRight
<1>3. CASE running' = running  BY <1>2, <1>3
<1>4. ASSUME NEW c, Wakes(c), Switched(c) PROVE running' # p
  <2>1. c[p].dpatch = "SUSPENDED"
    BY <1>1, <1>4 DEF Wakes, States, PcbState
  <2> QED BY <1>1, <1>4, <2>1 DEF Switched, Runnable
<1> QED BY <1>3, <1>4, NextKind DEF StepKind, Returned

(* A suspended process is not on the CPU before the user resumed it, whatever *)
(* completes for it meanwhile: for any number of processes, under HeldAlive.  *)
THEOREM SuspendedWaits == Spec /\ []HeldAlive => SuspendedNeverRuns
BY InitOrder, NextOrder, SuspendedStep, PTL DEF Spec, SuspendedNeverRuns

(* sys_check_io is the only one that takes a process out of BLOCKED. *)
LEMMA WokenStep == HeldAlive /\ OrderInv /\ [Next]_vars => WokenByOwnRequest
<1> SUFFICES ASSUME HeldAlive, OrderInv, [Next]_vars,
                    NEW p \in allocated \cap allocated',
                    st[p].exec = "BLOCKED", st'[p].exec # "BLOCKED"
             PROVE  /\ dcb.event /\ Waiter = p
                    /\ st'[p].exec = "READY" \/ running' = p
                    /\ dcb.idx = Head(dcb.ops).size \/ (Doing(dcb, "READ") /\ dcb.idx > 0)
  BY DEF WokenByOwnRequest
<1>1. /\ st \in States /\ allocated \subseteq Pcb /\ NoPcb \notin allocated /\ RunningRight
      /\ dcb \in DcbState(Pcb, MaxLen) /\ DcbConsistent(dcb) /\ MaxLen \in Nat
  BY PcbAssumption, BoundAssumption
     DEF OrderInv, FullInv, BaseInv, SchedPart, HeapPart, DcbPart, QueueInv, QueuesSound
<1>2. p # running  BY <1>1 DEF RunningRight
<1>3. ASSUME NEW c, Wakes(c), c[p].exec # "BLOCKED"
      PROVE  dcb.event /\ Waiter = p /\ c[p].exec = "READY"
  BY <1>1, <1>3 DEF Wakes, States, PcbState
<1>4. dcb.event /\ Waiter = p /\ (st'[p].exec = "READY" \/ running' = p)
  <2>1. ASSUME NEW c \in {st, CheckedSt}, Wakes(c), Switched(c)
        PROVE  dcb.event /\ Waiter = p /\ (st'[p].exec = "READY" \/ running' = p)
    <3>1. CASE p = running'
      <4>1. c[p].exec = "READY"  BY <1>1, <2>1, <3>1 DEF Switched, Runnable
      <4> QED BY <1>3, <2>1, <3>1, <4>1
    <3>2. CASE p # running'
      <4>1. st'[p] = c[p]  BY <1>2, <2>1, <3>2 DEF Switched
      <4> QED BY <1>3, <2>1, <4>1
    <3> QED BY <3>1, <3>2
  <2>2. CASE Returned  BY <1>3, <2>2 DEF Returned
  <2>3. CASE Managed
    <3>1. st'[p].exec = st[p].exec  BY <1>1, <2>3 DEF Managed, States, PcbState
    <3> QED BY <3>1
  <2> QED BY <2>1, <2>2, <2>3, NextKind DEF StepKind
<1>5. dcb.ops # <<>> /\ Head(dcb.ops).op \in IoOp /\ dcb.idx \in 1..Head(dcb.ops).size
      /\ (Head(dcb.ops).op = "WRITE" => dcb.idx = Head(dcb.ops).size)
  BY <1>1, <1>4, Fields DEF Request
<1>6. dcb.idx = Head(dcb.ops).size \/ (Doing(dcb, "READ") /\ dcb.idx > 0)
  BY <1>5 DEF IoOp, Doing, DeviceIdle
<1> QED BY <1>4, <1>6

(* A BLOCKED process changes only when the request at the head of the device *)
(* is its own and complete: no suspension, exit or other completion wakes    *)
(* it, for any number of processes, under HeldAlive.                         *)
THEOREM WokenByDevice == Spec /\ []HeldAlive => OnlyDeviceUnblocks
BY InitOrder, NextOrder, WokenStep, PTL DEF Spec, OnlyDeviceUnblocks

-----------------------------------------------------------------------------
(* The refinement of ProcLifecycle: which processes are READY, BLOCKED,      *)
(* suspended and on the CPU, the states being c.                             *)
In(e, c)  == {p \in allocated : c[p].exec = e}
Suspended == {p \in allocated : st[p].dpatch = "SUSPENDED"}
OnCpu     == IF running = NoPcb THEN {} ELSE {running}

(* What the invariant says of a process, in the words of the life cycle. *)
LEMMA LiveFacts ==
  ASSUME OrderInv
  PROVE  /\ st \in States /\ allocated \subseteq Pcb /\ NoPcb \notin allocated
         /\ running # NoPcb => /\ running \in allocated /\ st[running].exec = "RUNNING"
                               /\ st[running].dpatch = "ACTIVE"
         /\ \A p \in allocated \ {running} : st[p].exec \in {"READY", "BLOCKED"}
         /\ \A p \in allocated : st[p].dpatch \in {"SUSPENDED", "ACTIVE"}
<1>1. /\ queues \in Queues /\ st \in States /\ allocated \subseteq Pcb /\ NoPcb \notin allocated
      /\ RunningRight /\ Holds(queues, st, allocated \ {running})
  BY PcbAssumption DEF OrderInv, FullInv, BaseInv, SchedPart, HeapPart, QueueInv, QueuesSound
<1>2. \A p \in Pcb : st[p].exec \in Exec /\ st[p].dpatch \in Dpatch /\ st[p] \in PcbState
  BY <1>1 DEF States, PcbState
<1>3. \A p \in allocated \ {running} : st[p].exec # "RUNNING"
  <2>1. \A p \in allocated \ {running} : Selector(st[p]) \in QueueId
    BY <1>1, <1>2, SelectorType
  <2> QED BY <1>1, <2>1 DEF Holds
<1> QED BY <1>1, <1>2, <1>3 DEF RunningRight, Exec, Dpatch

(* sys_check_io wakes nobody, or one BLOCKED process. *)
LEMMA WakesIsWoken ==
  ASSUME OrderInv, NEW c, Wakes(c)
  PROVE  /\ Abstract!Woken(In("READY", c), In("BLOCKED", c))
         /\ c \in States
         /\ \A p \in allocated : c[p].dpatch = st[p].dpatch
         /\ \A p \in allocated \ {running} : c[p].exec \in {"READY", "BLOCKED"}
         /\ running # NoPcb => c[running] = st[running]
<1>1. CASE c = st
  BY <1>1, LiveFacts DEF Abstract!Woken, In, InState
<1>2. CASE /\ Waiter \in allocated \ {running} /\ st[Waiter].exec = "BLOCKED"
           /\ c = [st EXCEPT ![Waiter].exec = "READY"]
  <2>1. /\ c \in States /\ c[Waiter].exec = "READY"
        /\ \A p \in Pcb : p # Waiter => c[p] = st[p]
        /\ \A p \in Pcb : c[p].dpatch = st[p].dpatch
    BY <1>2, LiveFacts DEF States, PcbState, Exec
  <2>2. /\ In("READY", c) = InState("READY") \cup {Waiter}
        /\ In("BLOCKED", c) = InState("BLOCKED") \ {Waiter}
        /\ Waiter \in InState("BLOCKED")
    BY <1>2, <2>1, LiveFacts DEF In, InState
  <2>3. Abstract!Woken(In("READY", c), In("BLOCKED", c))
    BY <2>2 DEF Abstract!Woken
  <2> QED BY <1>2, <2>1, <2>3, LiveFacts
<1> QED BY <1>1, <1>2 DEF Wakes

(* The CPU changes hands as ProcLifecycle has it. *)
LEMMA SwitchedIsSwitch ==
  ASSUME OrderInv, NEW c, Wakes(c), Switched(c)
  PROVE  Abstract!Switch
<1> DEFINE r == In("READY", c)
           b == In("BLOCKED", c)
<1>1. /\ st \in States /\ allocated \subseteq Pcb /\ NoPcb \notin allocated
      /\ running # NoPcb => /\ running \in allocated /\ st[running].exec = "RUNNING"
                            /\ st[running].dpatch = "ACTIVE"
      /\ \A p \in allocated : st[p].dpatch \in {"SUSPENDED", "ACTIVE"}
  BY LiveFacts
<1>2. /\ Abstract!Woken(r, b) /\ c \in States
      /\ \A p \in allocated : c[p].dpatch = st[p].dpatch
      /\ running # NoPcb => c[running] = st[running]
  BY WakesIsWoken
<1>3. /\ allocated' \subseteq allocated
      /\ \A p \in allocated : p \notin allocated' => p = running
      /\ \A p \in allocated' \ {running, running'} : st'[p] = c[p]
  BY <1>1 DEF Switched
<1>4. running' # NoPcb =>
        /\ running' \in allocated' /\ running' # running /\ Runnable(c[running'])
        /\ st'[running'].exec = "RUNNING" /\ st'[running'].dpatch = "ACTIVE"
  BY <1>1, <1>2 DEF Switched, Runnable, States, PcbState
<1>5. running \in allocated' => /\ st'[running].dpatch = "ACTIVE" /\ running # running'
                                /\ st'[running].exec \in {"BLOCKED", "READY"}
                                /\ st'[running].exec = "READY" => running' # NoPcb
  BY <1>1, <1>3 DEF Switched, States, PcbState
<1>6. Suspended' = Suspended
  <2>1. \A p \in allocated' : st'[p].dpatch = st[p].dpatch
    BY <1>1, <1>2, <1>3, <1>4, <1>5 DEF Runnable
  <2> QED BY <1>1, <1>3, <2>1 DEF Suspended
<1>7. Abstract!Choose(r)
  <2>1. running' # NoPcb => running' \in r \ Suspended
    BY <1>1, <1>2, <1>3, <1>4 DEF Runnable, In, Suspended
  <2>2. running' = NoPcb => r \subseteq Suspended
    <3> SUFFICES ASSUME running' = NoPcb, NEW p \in r PROVE p \in Suspended
      OBVIOUS
    <3>1. p \in allocated /\ c[p].exec = "READY"  BY DEF In
    <3>2. p # running  BY <1>1, <1>2, <3>1
    <3>3. p \in allocated' \ {running}  BY <1>3, <3>1, <3>2
    <3>4. ~Runnable(c[p])  BY <3>3 DEF Switched
    <3> QED BY <1>1, <1>2, <3>1, <3>4 DEF Runnable, Suspended
  <2> QED BY <2>1, <2>2 DEF Abstract!Choose, Suspended
<1>8. /\ In("READY", st)' = IF running \in allocated' /\ st'[running].exec = "READY"
                            THEN (r \ OnCpu') \cup {running} ELSE r \ OnCpu'
      /\ In("BLOCKED", st)' = IF running \in allocated' /\ st'[running].exec = "BLOCKED"
                              THEN b \cup {running} ELSE b
  <2>1. \A p \in allocated' \ {running, running'} : st'[p].exec = c[p].exec
    BY <1>3
  <2>2. running \in allocated => c[running].exec = "RUNNING"
    BY <1>1, <1>2
  <2> QED BY <1>1, <1>3, <1>4, <1>5, <2>1, <2>2 DEF In, OnCpu, Runnable
<1>9. r \in SUBSET Pcb /\ b \in SUBSET Pcb  BY <1>1 DEF In
<1> HIDE DEF r, b
<1>10. \/ OnCpu' # {} /\ In("READY", st)' = (r \ OnCpu') \cup OnCpu /\ In("BLOCKED", st)' = b
       \/ In("READY", st)' = r \ OnCpu' /\ In("BLOCKED", st)' = b \cup OnCpu
       \/ In("READY", st)' = r \ OnCpu' /\ In("BLOCKED", st)' = b
  <2>1. running \in allocated' => OnCpu = {running}
    BY <1>1, <1>3 DEF OnCpu
  <2>2. running' # NoPcb => OnCpu' # {}  BY DEF OnCpu
  <2> QED BY <1>5, <1>8, <2>1, <2>2
<1> QED BY <1>2, <1>6, <1>7, <1>9, <1>10
        DEF Abstract!Switch, In, InState, OnCpu, Suspended

(* A call that returns to its caller is Return. *)
LEMMA ReturnedIsReturn == ASSUME OrderInv, Returned PROVE Abstract!Return
<1>1. /\ Abstract!Woken(In("READY", st'), In("BLOCKED", st'))
      /\ \A p \in allocated : st'[p].dpatch = st[p].dpatch
      /\ running' = running /\ allocated' = allocated
  BY WakesIsWoken DEF Returned
<1>2. In("READY", st') \in SUBSET Pcb /\ In("BLOCKED", st') \in SUBSET Pcb
  BY LiveFacts DEF In
<1>3. /\ InState("READY")' = In("READY", st') /\ InState("BLOCKED")' = In("BLOCKED", st')
      /\ Suspended' = Suspended /\ OnCpu' = OnCpu
  BY <1>1 DEF In, InState, Suspended, OnCpu
<1> QED BY <1>1, <1>2, <1>3 DEF Abstract!Return, Suspended, OnCpu

(* A command is Start, Suspension or Remove, or changes no process. *)
LEMMA ManagedIsNext ==
  ASSUME OrderInv, running' = running, Managed
  PROVE  [Abstract!Next]_(Abstract!vars)
<1>1. /\ st \in States /\ allocated \subseteq Pcb /\ OnCpu' = OnCpu
      /\ running # NoPcb => running \in allocated
      /\ \A p \in allocated \ {running} : st[p].exec \in {"READY", "BLOCKED"}
  BY LiveFacts DEF OnCpu
<1>2. CASE allocated' = allocated /\ \A p \in allocated : st'[p] = st[p]
  <2>1. /\ InState("READY")' = InState("READY") /\ InState("BLOCKED")' = InState("BLOCKED")
        /\ Suspended' = Suspended
    BY <1>2 DEF InState, Suspended
  <2> QED BY <1>1, <2>1 DEF Abstract!vars, Suspended, OnCpu
<1>3. ASSUME NEW p \in Pcb \ allocated, allocated' = allocated \cup {p}, Runnable(st'[p]),
             \A x \in allocated : st'[x] = st[x]
      PROVE  Abstract!Start
  <2>1. /\ InState("READY")' = InState("READY") \cup {p}
        /\ InState("BLOCKED")' = InState("BLOCKED") /\ Suspended' = Suspended
    BY <1>3 DEF InState, Suspended, Runnable
  <2>2. p \notin InState("READY") \cup InState("BLOCKED") \cup OnCpu
    BY <1>1, <1>3 DEF InState, OnCpu
  <2> QED BY <1>1, <2>1, <2>2 DEF Abstract!Start, Abstract!live, Suspended, OnCpu
<1>4. ASSUME NEW p \in allocated \ {running}, NEW d \in Dpatch, allocated' = allocated,
             st'[p] = [st[p] EXCEPT !.dpatch = d], \A x \in allocated \ {p} : st'[x] = st[x]
      PROVE  Abstract!Suspension
  <2>1. st'[p].exec = st[p].exec /\ st'[p].dpatch = d
    BY <1>1, <1>4 DEF States, PcbState
  <2>2. /\ InState("READY")' = InState("READY") /\ InState("BLOCKED")' = InState("BLOCKED")
        /\ p \in InState("READY") \cup InState("BLOCKED")
    <3>1. \A x \in allocated : st'[x].exec = st[x].exec
      BY <1>4, <2>1
    <3>2. \A e : InState(e)' = {x \in allocated : st'[x].exec = e}
      BY <1>4 DEF InState
    <3>3. \A e : InState(e)' = InState(e)
      BY <3>1, <3>2 DEF InState
    <3>4. p \in InState("READY") \cup InState("BLOCKED")
      BY <1>1 DEF InState
    <3> QED BY <3>3, <3>4
  <2>3. Suspended' \in {Suspended \cup {p}, Suspended \ {p}}
    BY <1>4, <2>1 DEF Suspended, Dpatch
  <2> QED BY <1>1, <2>2, <2>3 DEF Abstract!Suspension, Suspended, OnCpu
<1>5. ASSUME NEW p \in allocated \ {running}, allocated' = allocated \ {p},
             \A x \in allocated' : st'[x] = st[x]
      PROVE  Abstract!Remove
  <2>1. /\ InState("READY")' = InState("READY") \ {p}
        /\ InState("BLOCKED")' = InState("BLOCKED") \ {p}
        /\ Suspended' = Suspended \ {p}
        /\ p \in InState("READY") \cup InState("BLOCKED")
    BY <1>1, <1>5 DEF InState, Suspended
  <2> QED BY <1>1, <2>1 DEF Abstract!Remove, Suspended, OnCpu
<1>6. ASSUME NEW p \in allocated \ {running}, NEW k \in Pri, allocated' = allocated,
             st'[p] = [st[p] EXCEPT !.pri = k], \A x \in allocated \ {p} : st'[x] = st[x]
      PROVE  UNCHANGED Abstract!vars
  <2>1. \A x \in allocated : st'[x].exec = st[x].exec /\ st'[x].dpatch = st[x].dpatch
    BY <1>1, <1>6 DEF States, PcbState
  <2>2. /\ InState("READY")' = InState("READY") /\ InState("BLOCKED")' = InState("BLOCKED")
        /\ Suspended' = Suspended
    BY <1>6, <2>1 DEF InState, Suspended
  <2> QED BY <1>1, <2>2 DEF Abstract!vars, Suspended, OnCpu
<1> QED BY <1>2, <1>3, <1>4, <1>5, <1>6 DEF Managed, Abstract!Next

(* Every step of the kernel is a step of the life cycle, or none. *)
LEMMA LifecycleStep ==
  HeldAlive /\ OrderInv /\ [Next]_vars => [Abstract!Next]_(Abstract!vars)
<1> SUFFICES ASSUME HeldAlive, OrderInv, [Next]_vars
             PROVE  [Abstract!Next]_(Abstract!vars)
  OBVIOUS
<1>1. ASSUME NEW c \in {st, CheckedSt}, Wakes(c), Switched(c) PROVE Abstract!Next
  BY <1>1, SwitchedIsSwitch DEF Abstract!Next
<1>2. CASE Returned  BY <1>2, ReturnedIsReturn DEF Abstract!Next
<1>3. CASE running' = running /\ Managed  BY <1>3, ManagedIsNext
<1> QED BY <1>1, <1>2, <1>3, NextKind DEF StepKind

(* kmain starts with READY processes only. *)
LEMMA LifecycleInit == Init => Abstract!Init
<1> SUFFICES ASSUME Init PROVE Abstract!Init
  OBVIOUS
<1>1. /\ allocated = {ComhandPcb, IdlePcb} /\ running = NoPcb
      /\ \A p \in allocated : p \in Pcb /\ st[p].exec = "READY" /\ st[p].dpatch = "ACTIVE"
  BY PcbAssumption DEF Init, Fresh
<1>2. InState("READY") = allocated /\ InState("BLOCKED") = {} /\ Suspended = {}
  BY <1>1 DEF InState, Suspended
<1> QED BY <1>1, <1>2 DEF Abstract!Init, Suspended

(* The queues, priorities, requests, interrupts and commands together follow *)
(* the diagram of process states: the kernel implements ProcLifecycle for    *)
(* any number of processes, under HeldAlive.                                 *)
THEOREM KernelIsLifecycle == Spec /\ []HeldAlive => ImplementsLifecycle
BY InitOrder, LifecycleInit, NextOrder, LifecycleStep, PTL DEF Spec, ImplementsLifecycle, Abstract!Spec
=============================================================================
