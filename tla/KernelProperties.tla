-------------------------- MODULE KernelProperties --------------------------
(* What the kernel must keep true, whatever the processes, the user and the  *)
(* UART do, with the liveness properties FairSpec is meant for.              *)
EXTENDS Kernel

(* The names in use; pcb_free leaves the empty one. *)
Names == {"", "comhand", "idle"} \cup ToSet(R3Names) \cup TimerNames

(* The state of the kernel stays within its types: the queue selector within *)
(* 0..3, buffer_idx within the longest buffer there may be.  That it stays   *)
(* within the buffer of the request it is for is DeviceConsistent's.         *)
TypeOK ==
  /\ queues \in [QueueId -> Seq(Pcb)]
  /\ st \in [Pcb -> PcbState]
  /\ name \in [Pcb -> Names]
  /\ allocated \subseteq Pcb
  /\ running \in Pcb \cup {NoPcb}
  /\ mode \in Mode
  /\ origin \in BOOLEAN
  /\ dcb \in DcbState(Pcb, MaxLen)
  /\ pc \in {"menu", "read", "line", "load", "pri", "priread", "priline", "clean",
            "refused", "noline"}
  /\ held \in Pcb \cup {NoPcb}
  /\ loading \in 0..Len(R3Names)
  /\ loads \in 0..MaxLoads

-----------------------------------------------------------------------------
(* No process is lost: a live PCB that is not running is in its queue. *)
NoneLost ==
  \A p \in allocated \ {running} : p \in ToSet(queues[Selector(st[p])])

(* The process on the CPU is live, marked RUNNING and not suspended. *)
RunningRight ==
  running # NoPcb => /\ running \in allocated
                     /\ st[running].exec = "RUNNING"
                     /\ st[running].dpatch = "ACTIVE"

(* pcb_insert and pcb_remove choose the list from pcb->state, so a state     *)
(* changed between the two, or a PCB freed while queued, leaves it in a list *)
(* nobody looks in.  The queues hold exactly the allocated PCBs but the      *)
(* running one, each once and where its state says.                          *)
QueuesSound == Holds(queues, st, allocated \ {running}) /\ RunningRight

(* pcb_insert keeps the two READY queues in priority order, although         *)
(* priorities change and processes move between the queues.                  *)
ReadySorted ==
  \A i \in {0, 2} : \A j, k \in DOMAIN queues[i] :
    j < k => st[queues[i][j]].pri <= st[queues[i][k]].pri

(* A process is BLOCKED exactly while one request of it is on the device:    *)
(* nobody waits for nothing, and no completion finds a process that is not   *)
(* waiting for it (serial_check_io does not look).                           *)
BlockedHasRequest ==
  /\ \A j, k \in DOMAIN dcb.ops : dcb.ops[j].pcb = dcb.ops[k].pcb => j = k
  /\ \A p \in allocated :
       st[p].exec = "BLOCKED" <=> \E k \in DOMAIN dcb.ops : dcb.ops[k].pcb = p

(* The iocb queue, the event flag, the byte counter and the write-interrupt  *)
(* enable agree across interrupts and system calls.                          *)
DeviceConsistent == DcbConsistent(dcb)

(* In hlt nobody is ready, a request is pending, and its completion has not  *)
(* been signalled already: the wake-up cannot be missed.                     *)
NoLostWakeup ==
  mode = "halted" => /\ running = NoPcb /\ queues[0] = <<>>
                     /\ ~DeviceIdle(dcb) /\ ~dcb.event

-----------------------------------------------------------------------------
(* A process put on the CPU is one of the best: no active READY process      *)
(* left in the queue, except the one that gave way, has a better priority.   *)
BestRuns ==
  running' \notin {running, NoPcb} =>
    \A p \in allocated' \ {running} :
      st'[p].exec = "READY" /\ st'[p].dpatch = "ACTIVE"
        => st'[running'].pri <= st'[p].pri
DispatchesBest == [][BestRuns]_vars

(* A BLOCKED process changes only by the completion of its own request at    *)
(* the head of the device, which is fully written, or read up to its length  *)
(* or an earlier carriage return.                                            *)
WokenByOwnRequest ==
  \A p \in allocated \cap allocated' :
    st[p].exec = "BLOCKED" /\ st'[p].exec # "BLOCKED" =>
      /\ dcb.event /\ Waiter = p
      /\ st'[p].exec = "READY" \/ running' = p
      /\ dcb.idx = Head(dcb.ops).size \/ (Doing(dcb, "READ") /\ dcb.idx > 0)
OnlyDeviceUnblocks == [][WokenByOwnRequest]_vars

(* A suspended process gets onto the CPU only after the user resumed it. *)
StaysSuspended ==
  \A p \in allocated \cap allocated' :
    st[p].dpatch = "SUSPENDED" => running' # p
SuspendedNeverRuns == [][StaysSuspended]_vars

(* The kernel follows a NULL or freed pointer in five situations and in no   *)
(* other: a key while nothing is being read or written; the completed        *)
(* request of a freed process; a completion that leaves nobody to run, and   *)
(* that only because the process it woke is suspended; a process to be made  *)
(* whose name is taken or for which the heap has no room; a refused READ.    *)
PanicHasCause ==
  mode # "panic" /\ mode' = "panic" =>
    \/ DeviceIdle(dcb) /\ ~dcb.thri
    \/ CheckFaults
    \/ mode = "awake" /\ Completed /\ st[Waiter].dpatch = "SUSPENDED"
    \/ pc = "load" /\ Taken(R3Names[loading])
    \/ running = ComhandPcb /\ (allocated = Pcb \/ pc = "noline")
OnlyKnownPanics == [][PanicHasCause]_vars

-----------------------------------------------------------------------------
(* The process states of the kernel are those of ProcLifecycle: whichever    *)
(* lists a PCB is moved through, the dispatcher follows the state diagram.   *)
InState(e) == {p \in allocated : st[p].exec = e}
Abstract == INSTANCE ProcLifecycle WITH
  Proc      <- Pcb,
  ready     <- InState("READY"),
  blocked   <- InState("BLOCKED"),
  suspended <- {p \in allocated : st[p].dpatch = "SUSPENDED"},
  cpu       <- IF running = NoPcb THEN {} ELSE {running}
ImplementsLifecycle == Abstract!Spec

-----------------------------------------------------------------------------
(* A process that waits for the device is READY again some time, or kmain    *)
(* was resumed, or the kernel panicked.                                      *)
BlockedReturns ==
  \A p \in Pcb : (p \in allocated /\ st[p].exec = "BLOCKED")
                 ~> (p \notin allocated \/ st[p].exec # "BLOCKED" \/ Stopped)

(* The command handler comes back to its prompt: whatever priority-0         *)
(* processes there are, once READY it runs again.                            *)
ComhandRuns ==
  (st[ComhandPcb].exec = "READY") ~> (running = ComhandPcb \/ Stopped)
=============================================================================
