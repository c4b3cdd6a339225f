------------------------------- MODULE Kernel -------------------------------
(* The MPX kernel at run time: the dispatcher (kernel/sys_call.c) over the   *)
(* process queues (kernel/pcb.c), the interrupt-driven COM1 device           *)
(* (kernel/serial.c), the process-management commands of the command handler *)
(* (kernel/comhand.c, loadR3.c) and the part of kmain around them.           *)
(*                                                                           *)
(* int 0x60 runs with interrupts off, so a system call is one step; the only *)
(* place inside it where interrupts are let in is the sti/hlt/cli loop of a  *)
(* READ or WRITE that leaves nobody to run.  Nothing preempts a process.     *)
EXTENDS PcbQueues, IoQueue

CONSTANTS
  Pcb,          \* the PCBs the heap has room for
  ComhandPcb,   \* the one kmain gives the command handler
  IdlePcb,      \* the one kmain gives the idle process
  NoPcb,        \* NULL
  R3Names,      \* the process names loadR3 uses, in order
  TimerNames,   \* the names "timer_<i>" alarmCommand chooses from
  Commands,     \* the commands the user may type
  UserOps,      \* the I/O operations user processes issue
  PriChoices,   \* the priorities the user may type
  MaxLen,       \* bound: the longest buffer of a request
  MaxLoads,     \* bound: how often loadR3 is typed
  AnyInput      \* TRUE: keys arrive at any time; FALSE: only during a READ

AllCommands == {"LoadR3", "Alarm", "Suspend", "Resume", "Delete",
                "SetPriority", "Shutdown"}

ASSUME PcbAssumption ==
  ComhandPcb \in Pcb /\ IdlePcb \in Pcb /\ ComhandPcb # IdlePcb /\ NoPcb \notin Pcb
ASSUME CommandAssumption ==
  Commands \subseteq AllCommands /\ UserOps \subseteq IoOp /\ PriChoices \subseteq Pri
ASSUME NameAssumption ==
  R3Names \in Seq(STRING) /\ R3Names # <<>> /\ TimerNames \subseteq STRING
ASSUME BoundAssumption ==
  MaxLen \in Nat \ {0} /\ MaxLoads \in Nat /\ AnyInput \in BOOLEAN

VARIABLES
  queues,     \* pcb_queues
  st,         \* the struct pcb_state of every PCB
  name,       \* the name of every PCB
  allocated,  \* the PCBs that are not free memory
  running,    \* pcb_running
  mode,       \* what the CPU is doing
  origin,     \* context_original # NULL
  dcb,        \* the dcb of COM1, the only port kmain opens
  pc,         \* where the command handler is between its reads
  held,       \* the pcb_findres setPcbPriorityCommand keeps across its reads
  loading,    \* the next index of R3Names, 0 outside loadR3
  loads       \* how often loadR3 was typed

sched == <<queues, st, running>>
heap  == <<name, allocated>>
cmd   == <<pc, held, loading, loads>>
vars  == <<queues, st, name, allocated, running, mode, origin, dcb, pc, held, loading, loads>>

(* "boot" and "closing": kmain before and after its int 0x60.  "run": a      *)
(* process.  "halted": in hlt.  "awake": past hlt, before the cli and check. *)
Mode == {"boot", "run", "halted", "awake", "closing", "panic", "off"}
Stopped == mode \in {"panic", "closing", "off"}

(* What memset leaves of a freed PCB. *)
Zeroed == [exec |-> "BLOCKED", dpatch |-> "SUSPENDED", cls |-> "SYSTEM", pri |-> 0]

(* pcb_setup: a new PCB is READY and ACTIVE. *)
Fresh(cls, pri) == [exec |-> "READY", dpatch |-> "ACTIVE", cls |-> cls, pri |-> pri]

Init ==
  /\ queues = [i \in QueueId |-> IF i = 0 THEN <<ComhandPcb, IdlePcb>> ELSE <<>>]
  /\ st = [p \in Pcb |-> CASE p = ComhandPcb -> Fresh("SYSTEM", 0)
                           [] p = IdlePcb    -> Fresh("SYSTEM", 9)
                           [] OTHER          -> Zeroed]
  /\ name = [p \in Pcb |-> CASE p = ComhandPcb -> "comhand"
                             [] p = IdlePcb    -> "idle"
                             [] OTHER          -> ""]
  /\ allocated = {ComhandPcb, IdlePcb}
  /\ running = NoPcb
  /\ mode = "boot"
  /\ origin = FALSE
  /\ dcb = OpenedDcb
  /\ pc = "menu" /\ held = NoPcb /\ loading = 0 /\ loads = 0
-----------------------------------------------------------------------------
(* sys_check_io: of the four ports only COM1 is ever open.  A completed      *)
(* request makes its process READY and the device goes on to the next one.   *)
Completed  == dcb.open /\ dcb.event
Waiter     == Head(dcb.ops).pcb
CheckedSt  == IF Completed THEN [st EXCEPT ![Waiter].exec = "READY"] ELSE st

(* Mutant: a suspended process is not put back when its request completes. *)
CheckedQueues_SkipsSuspended ==
  IF Completed
  THEN LET qs == pcb_remove(queues, st, Waiter)
       IN  IF st[Waiter].dpatch = "ACTIVE" THEN pcb_insert(qs, CheckedSt, Waiter) ELSE qs
  ELSE queues

CheckedQueues ==
  IF Completed THEN pcb_insert(pcb_remove(queues, st, Waiter), CheckedSt, Waiter)
  ELSE queues
CheckedDcb == IF Completed THEN NextIo(dcb) ELSE dcb

(* The process was freed while its request was pending: its pctxt is NULL.   *)
CheckFaults == Completed /\ Waiter \notin allocated

(* A page fault: kpanic stops the machine. *)
Panic == mode' = "panic" /\ UNCHANGED <<sched, heap, origin, dcb, cmd>>

(* Mutant: the process chosen is not marked as running. *)
Dispatch_KeepsReady(qs, s) ==
  /\ queues' = pcb_remove(qs, s, Head(qs[0]))
  /\ st' = s
  /\ running' = Head(qs[0])
  /\ mode' = "run"

(* Mutant: the process chosen stays in the queue. *)
Dispatch_KeepsQueued(qs, s) ==
  /\ queues' = qs
  /\ st' = [s EXCEPT ![Head(qs[0])].exec = "RUNNING"]
  /\ running' = Head(qs[0])
  /\ mode' = "run"

(* Take the head of the active ready queue off qs and run it. *)
Dispatch(qs, s) ==
  LET next == Head(qs[0])
  IN  /\ queues' = pcb_remove(qs, s, next)
      /\ st' = [s EXCEPT ![next].exec = "RUNNING"]
      /\ running' = next
      /\ mode' = "run"

(* Between its reads the command handler is in ordinary C code. *)
Calling ==
  /\ mode = "run"
  /\ running = ComhandPcb => pc \notin {"load", "clean", "noline"}

(* The operations a process issues.  user_input_promptread writes a line end *)
(* right after its READ, and setPcbPriorityCommand does not yield.           *)
Issues(op) ==
  \/ running = ComhandPcb /\ CASE op = "WRITE" -> TRUE
                              [] op = "READ"  -> pc \notin {"read", "priread", "refused"}
                              [] op = "IDLE"  -> pc \in {"menu", "line"}
  \/ running = IdlePcb /\ op # "READ"
  \/ running \notin {ComhandPcb, IdlePcb} /\ op \in UserOps \cup {"IDLE"}

(* Where an operation takes the command handler: a line is read once its     *)
(* READ and the WRITE after it are done; a line it does not know ends in the *)
(* IDLE at the top of its loop.                                              *)
PcAfter(op) ==
  IF running # ComhandPcb THEN pc
  ELSE CASE op = "READ"  -> IF pc = "pri" \/ pc = "priline" THEN "priread" ELSE "read"
         [] op = "WRITE" -> CASE pc = "read"    -> "line"
                              [] pc = "priread" -> "priline"
                              [] pc = "refused" -> "noline"
                              [] OTHER          -> pc
         [] op = "IDLE"  -> "menu"

(* A refused READ returns 0, and user_input_len becomes -1. *)
PcRefused(op) == IF op = "READ" /\ running = ComhandPcb THEN "refused" ELSE PcAfter(op)

(* READ and WRITE: schedule the request, block the caller, and run the head  *)
(* of the ready queue; with nobody ready, wait for an interrupt.             *)
SysIo(op, n) ==
  /\ Calling /\ Issues(op) /\ ~CheckFaults
  /\ dcb' = ScheduleIo(CheckedDcb, [pcb |-> running, op |-> op, size |-> n])
  /\ LET s  == [CheckedSt EXCEPT ![running].exec = "BLOCKED"]
         qs == pcb_insert(CheckedQueues, s, running)
     IN  \/ qs[0] # <<>> /\ Dispatch(qs, s)
         \/ /\ qs[0] = <<>>
            /\ queues' = qs /\ st' = s /\ running' = NoPcb /\ mode' = "halted"
  /\ pc' = PcAfter(op)
  /\ UNCHANGED <<heap, origin, held, loading, loads>>

(* A READ or WRITE that serial_schedule_io refuses (an empty buffer, no      *)
(* memory for the iocb), and an IDLE with nobody else ready: the completions *)
(* are noticed and the caller goes on.                                       *)
SysReturn(op) ==
  /\ Calling /\ Issues(op) /\ ~CheckFaults
  /\ op = "IDLE" => CheckedQueues[0] = <<>>
  /\ queues' = CheckedQueues /\ st' = CheckedSt /\ dcb' = CheckedDcb
  /\ pc' = PcRefused(op)
  /\ UNCHANGED <<running, mode, heap, origin, held, loading, loads>>

(* IDLE: the ready head is taken before the caller is put back, so the       *)
(* caller gives way even to a process of lower priority.                     *)
SysIdle ==
  /\ Calling /\ Issues("IDLE") /\ ~CheckFaults
  /\ CheckedQueues[0] # <<>>
  /\ LET next == Head(CheckedQueues[0])
         s    == [CheckedSt EXCEPT ![running].exec = "READY"]
     IN  /\ queues' = pcb_insert(pcb_remove(CheckedQueues, CheckedSt, next), s, running)
         /\ st' = [s EXCEPT ![next].exec = "RUNNING"]
         /\ running' = next
  /\ dcb' = CheckedDcb
  /\ pc' = PcAfter("IDLE")
  /\ UNCHANGED <<mode, heap, origin, held, loading, loads>>

(* Shutdown has emptied the queues, and its next statement is the EXIT. *)
AtShutdownExit ==
  /\ mode = "run" /\ running = ComhandPcb /\ pc = "clean"
  /\ \A i \in QueueId : queues[i] = <<>>

(* EXIT, from a user process, or from the command handler once shutdown has  *)
(* emptied the queues.  With nobody ready the context of kmain goes on.      *)
SysExit ==
  /\ mode = "run" /\ ~CheckFaults
  /\ running \notin {ComhandPcb, IdlePcb} \/ AtShutdownExit
  /\ allocated' = allocated \ {running}
  /\ name' = [name EXCEPT ![running] = ""]
  /\ dcb' = CheckedDcb
  /\ LET s == [CheckedSt EXCEPT ![running] = Zeroed]
     IN  \/ CheckedQueues[0] # <<>> /\ Dispatch(CheckedQueues, s) /\ UNCHANGED origin
         \/ /\ CheckedQueues[0] = <<>>
            /\ queues' = CheckedQueues /\ st' = s
            /\ running' = IF origin THEN NoPcb ELSE running
            /\ mode' = IF origin THEN "closing" ELSE mode
            /\ origin' = FALSE
  /\ UNCHANGED cmd

(* Any system call that finds the completed request of a freed process. *)
SysFault == (Calling \/ AtShutdownExit) /\ CheckFaults /\ Panic

(* The first int 0x60, by kmain: remember its context, run the command handler. *)
KmainIdle ==
  /\ mode = "boot"
  /\ origin' = TRUE
  /\ Dispatch(queues, st)
  /\ UNCHANGED <<heap, dcb, cmd>>

(* kmain after its context was resumed: serial_close refuses a busy device,  *)
(* and boot.s powers the machine off.                                        *)
KmainClose ==
  /\ mode = "closing"
  /\ mode' = "off"
  /\ dcb' = IF DeviceIdle(dcb) THEN [dcb EXCEPT !.open = FALSE, !.thri = FALSE] ELSE dcb
  /\ UNCHANGED <<sched, heap, origin, cmd>>

(* Mutant: hlt is repeated whatever the check found. *)
Wake_IgnoresCompletion ==
  mode = "awake" /\ mode' = "halted" /\ UNCHANGED <<sched, heap, origin, dcb, cmd>>

(* The end of the hlt loop.  An interrupt that completed nothing sends it    *)
(* back to hlt; otherwise the head of the ready queue runs, and with none    *)
(* there pcb_remove follows a NULL pointer.                                  *)
Wake ==
  /\ mode = "awake"
  /\ \/ ~Completed /\ mode' = "halted" /\ UNCHANGED <<sched, heap, origin, dcb, cmd>>
     \/ /\ Completed /\ ~CheckFaults /\ CheckedQueues[0] # <<>>
        /\ Dispatch(CheckedQueues, CheckedSt)
        /\ dcb' = CheckedDcb
        /\ UNCHANGED <<heap, origin, cmd>>
     \/ Completed /\ (CheckFaults \/ CheckedQueues[0] = <<>>) /\ Panic
-----------------------------------------------------------------------------
(* serial_interrupt.  Both handlers follow iocb_queue_head without a check.  *)
Interruptible == mode \in {"boot", "run", "halted", "awake", "closing"}

Interrupt(d) ==
  IF DeviceIdle(dcb) THEN Panic
  ELSE /\ dcb' = d
       /\ mode' = IF mode = "halted" THEN "awake" ELSE mode
       /\ UNCHANGED <<sched, heap, origin, cmd>>

InputIrq(cr) ==
  /\ Interruptible
  /\ AnyInput \/ Doing(dcb, "READ")
  /\ Interrupt(InputByte(dcb, cr))

OutputIrq ==
  /\ Interruptible
  /\ dcb.thri
  /\ Interrupt(OutputDone(dcb))
-----------------------------------------------------------------------------
(* The commands of the command handler.  They run in the handler's process   *)
(* with interrupts on; no interrupt handler touches the queues, so the part  *)
(* of a command between two of its system calls is one step, except for the  *)
(* loops of loadR3 and shutdown, which are one step per process.             *)
AtLine(c) == mode = "run" /\ running = ComhandPcb /\ pc = "line" /\ c \in Commands

(* pcb_find: the name of a process in one of the queues. *)
Taken(n) == \E p \in Pcb : Queued(queues, p) /\ name[p] = n

(* pcb_setup and pcb_insert of a user process in the memory p. *)
Create(p, n, pri) ==
  /\ allocated' = allocated \cup {p}
  /\ name' = [name EXCEPT ![p] = n]
  /\ st' = [st EXCEPT ![p] = Fresh("USER", pri)]
  /\ queues' = pcb_insert(queues, st', p)
  /\ UNCHANGED <<running, mode, origin, dcb>>

(* pcb_free. *)
Free(p) ==
  /\ allocated' = allocated \ {p}
  /\ name' = [name EXCEPT ![p] = ""]
  /\ st' = [st EXCEPT ![p] = Zeroed]

(* Every line read ends in user_input_clear: after a refused READ it clears  *)
(* (size_t) -1 bytes, up to the first page that is not there.                *)
ClearNoLine == mode = "run" /\ running = ComhandPcb /\ pc = "noline" /\ Panic

(* loadR3. *)
LoadR3 ==
  /\ AtLine("LoadR3") /\ loads < MaxLoads
  /\ pc' = "load" /\ loading' = 1 /\ loads' = loads + 1
  /\ UNCHANGED <<sched, heap, mode, origin, dcb, held>>

(* One of the five pcb_setup calls of loadR3; its result is not checked, and *)
(* pcb_context_init writes through the NULL of a failed one.                 *)
LoadNext ==
  /\ mode = "run" /\ pc = "load"
  /\ LET n == R3Names[loading]
     IN  \/ /\ ~Taken(n)
            /\ \E p \in Pcb \ allocated : Create(p, n, 1)
            /\ pc' = IF loading = Len(R3Names) THEN "menu" ELSE "load"
            /\ loading' = IF loading = Len(R3Names) THEN 0 ELSE loading + 1
            /\ UNCHANGED <<held, loads>>
         \/ (Taken(n) \/ Pcb = allocated) /\ Panic

(* alarmCommand: a process of priority 0 under a timer name not in use.  The *)
(* code has 256 names, more than the heap has PCBs: here TimerNames bounds   *)
(* the number of alarms.                                                     *)
Alarm ==
  /\ AtLine("Alarm")
  /\ \E n \in TimerNames :
       /\ ~Taken(n)
       /\ \/ /\ \E p \in Pcb \ allocated : Create(p, n, 0)
             /\ pc' = "menu" /\ UNCHANGED <<held, loading, loads>>
          \/ Pcb = allocated /\ Panic

(* Mutant: the state is changed before the process is looked for. *)
Requeue_StateFirst(p, s) ==
  /\ st' = [st EXCEPT ![p] = s]
  /\ queues' = pcb_insert(pcb_remove(queues, st', p), st', p)
  /\ UNCHANGED <<running, heap, mode, origin, dcb>>

(* Take p out of its queue, change its state to s, and put it back. *)
Requeue(p, s) ==
  /\ st' = [st EXCEPT ![p] = s]
  /\ queues' = pcb_insert(pcb_remove(queues, st, p), st', p)
  /\ UNCHANGED <<running, heap, mode, origin, dcb>>

Suspend(p) ==
  /\ AtLine("Suspend") /\ Queued(queues, p) /\ st[p].cls # "SYSTEM"
  /\ Requeue(p, [st[p] EXCEPT !.dpatch = "SUSPENDED"])
  /\ pc' = "menu" /\ UNCHANGED <<held, loading, loads>>

Resume(p) ==
  /\ AtLine("Resume") /\ Queued(queues, p)
  /\ Requeue(p, [st[p] EXCEPT !.dpatch = "ACTIVE"])
  /\ pc' = "menu" /\ UNCHANGED <<held, loading, loads>>

Delete(p) ==
  /\ AtLine("Delete") /\ Queued(queues, p) /\ st[p].cls # "SYSTEM"
  /\ queues' = pcb_remove(queues, st, p)
  /\ Free(p)
  /\ pc' = "menu"
  /\ UNCHANGED <<running, mode, origin, dcb, held, loading, loads>>

(* setPcbPriorityCommand looks the process up, reads the priority, and only *)
(* then uses the pointer it found.                                          *)
PriorityFind(p) ==
  /\ AtLine("SetPriority") /\ Queued(queues, p)
  /\ held' = p /\ pc' = "pri"
  /\ UNCHANGED <<sched, heap, mode, origin, dcb, loading, loads>>

PrioritySet(k) ==
  /\ mode = "run" /\ running = ComhandPcb /\ pc = "priline"
  /\ Requeue(held, [st[held] EXCEPT !.pri = k])
  /\ held' = NoPcb /\ pc' = "menu"
  /\ UNCHANGED <<loading, loads>>

Shutdown ==
  /\ AtLine("Shutdown")
  /\ pc' = "clean"
  /\ UNCHANGED <<sched, heap, mode, origin, dcb, held, loading, loads>>

(* One round of shutdown's clean-up: the head of the first queue not empty. *)
CleanNext ==
  /\ mode = "run" /\ pc = "clean"
  /\ \E i \in QueueId :
       /\ queues[i] # <<>> /\ \A j \in 0..(i-1) : queues[j] = <<>>
       /\ queues' = pcb_remove(queues, st, Head(queues[i]))
       /\ Free(Head(queues[i]))
  /\ UNCHANGED <<running, mode, origin, dcb, cmd>>
-----------------------------------------------------------------------------
Yield   == SysIdle \/ SysExit \/ \E op \in IoOp, n \in 1..MaxLen : SysIo(op, n)
Syscall == KmainIdle \/ Yield \/ SysFault \/ \E op \in IoOp \cup {"IDLE"} : SysReturn(op)
Comhand ==
  \/ LoadR3 \/ LoadNext \/ Alarm \/ Shutdown \/ CleanNext \/ ClearNoLine
  \/ \E p \in Pcb : Suspend(p) \/ Resume(p) \/ Delete(p) \/ PriorityFind(p)
  \/ \E k \in PriChoices : PrioritySet(k)
Irq == OutputIrq \/ \E cr \in BOOLEAN : InputIrq(cr)

Next == Syscall \/ Wake \/ Irq \/ Comhand \/ KmainClose

Spec == Init /\ [][Next]_vars

(* The UART sends what it is given, the user answers a READ, the hlt loop    *)
(* and kmain run on, a process on the CPU makes another call in the end, and *)
(* the code of loadR3, shutdown and user_input_clear goes on.                *)
Fairness ==
  /\ WF_vars(OutputIrq)
  /\ WF_vars(Doing(dcb, "READ") /\ \E cr \in BOOLEAN : InputIrq(cr))
  /\ WF_vars(Wake) /\ WF_vars(KmainIdle) /\ WF_vars(KmainClose)
  /\ WF_vars(Yield \/ SysFault) /\ WF_vars(LoadNext) /\ WF_vars(CleanNext)
  /\ WF_vars(ClearNoLine)

FairSpec == Spec /\ Fairness
=============================================================================
