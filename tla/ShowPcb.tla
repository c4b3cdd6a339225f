------------------------------- MODULE ShowPcb -------------------------------
(* The commands that show processes (kernel/comhand.c), on the kernel.  They *)
(* walk the queues by p_next and print each PCB with a number of WRITEs; at  *)
(* every WRITE the command handler blocks and the others run, so the queues  *)
(* change under the walk, and so does the p_next it goes on with.            *)
EXTENDS Kernel

CONSTANTS
  ShowCommands,  \* the ones the user may type
  Writes         \* bound: WRITEs per PCB (eleven, in the code)

ASSUME ShowAssumption ==
  ShowCommands \subseteq {"ShowPcb", "ShowReady", "ShowBlocked", "ShowAll"} /\ Writes \in Nat

VARIABLES
  cmdline,  \* the command in progress, "none" between them
  todo,     \* the queues it has still to walk, the present one first
  iter,     \* proc_iter (procfound in showPcbCommand), NULL between queues
  left,     \* the WRITEs to make before the pointers are read again
  times,    \* how often the command has shown each PCB, up to 2
  still,    \* the processes that have not changed state since it began
  tidy      \* none has while it was the one being printed

walk  == <<cmdline, todo, iter, left, times>>
ghost == <<still, tidy>>
svars == <<vars, walk, ghost>>

(* The initialisers of showPcbReadyCommand and showPcbBlockedCommand have    *)
(* the execution state third, where struct pcb_state has the class, and the  *)
(* loops count exec up: both walk the queues of suspended PCBs, BLOCKED and  *)
(* then READY.                                                               *)
QueuesOf(c) ==
  LET s(e) == [exec |-> e, dpatch |-> "SUSPENDED", cls |-> "USER", pri |-> 0]
  IN  CASE c = "ShowAll" -> <<0, 1, 2, 3>>
        [] c \in {"ShowReady", "ShowBlocked"} -> <<Selector(s("BLOCKED")), Selector(s("READY"))>>
        [] OTHER -> <<>>

HeadOf(i) == IF queues[i] = <<>> THEN NoPcb ELSE Head(queues[i])

(* Mutant: the loop ends before the last PCB of a queue. *)
NextOf_NotLast(p) ==
  IF Queued(queues, p)
  THEN LET i == CHOOSE j \in QueueId : p \in ToSet(queues[j])
           k == SelectInSeq(queues[i], LAMBDA q : q = p)
       IN  IF k + 1 >= Len(queues[i]) THEN NoPcb ELSE queues[i][k+1]
  ELSE NoPcb
(* p_next of a PCB: NULL at the end of a queue and in none (PcbLists). *)
NextOf(p) ==
  IF Queued(queues, p)
  THEN LET i == CHOOSE j \in QueueId : p \in ToSet(queues[j])
           k == SelectInSeq(queues[i], LAMBDA q : q = p)
       IN  IF k = Len(queues[i]) THEN NoPcb ELSE queues[i][k+1]
  ELSE NoPcb

ShowInit ==
  /\ Init
  /\ cmdline = "none" /\ todo = <<>> /\ iter = NoPcb /\ left = 0
  /\ times = [p \in Pcb |-> 0] /\ still = {} /\ tidy = TRUE

Unmoved(p) == p \in allocated' /\ st'[p] = st[p]
Watch ==
  /\ still' = {p \in still : Unmoved(p)}
  /\ tidy' = (tidy /\ (iter # NoPcb => Unmoved(iter)))

(* The command handler is inside a show command, and on the CPU. *)
Showing == mode = "run" /\ running = ComhandPcb /\ cmdline # "none"
-----------------------------------------------------------------------------
Others == ((~Showing /\ Next) \/ (Showing /\ Irq)) /\ UNCHANGED walk /\ Watch

Begin(c, q, p, n) ==
  /\ mode = "run" /\ running = ComhandPcb /\ pc = "line" /\ cmdline = "none"
  /\ c \in ShowCommands
  /\ cmdline' = c /\ todo' = q /\ iter' = p /\ left' = n
  /\ times' = [x \in Pcb |-> 0]
  /\ still' = {x \in allocated : Queued(queues, x)} /\ tidy' = TRUE
  /\ UNCHANGED vars

(* setTerminalColor is the first WRITE. *)
ShowQueues == \E c \in ShowCommands \ {"ShowPcb"} : Begin(c, QueuesOf(c), NoPcb, 1)

(* pcb_find comes first, and its result is used until the last WRITE. *)
ShowOne == \E p \in Pcb : Queued(queues, p) /\ Begin("ShowPcb", <<>>, p, 1 + Writes)

(* One of the WRITEs.  It cannot find the request of a deleted process: that *)
(* one is ahead of the READ the command was typed for, and came out before.  *)
WriteLine ==
  /\ Showing /\ left > 0
  /\ SysReturn("WRITE") \/ \E n \in 1..MaxLen : SysIo("WRITE", n)
  /\ left' = left - 1 /\ UNCHANGED <<cmdline, todo, iter, times>> /\ Watch

Visit(p, q) ==
  /\ iter' = p /\ todo' = q
  /\ left' = IF p = NoPcb THEN 0 ELSE Writes
  /\ times' = IF p = NoPcb THEN times ELSE [times EXCEPT ![p] = IF @ = 2 THEN 2 ELSE @ + 1]
  /\ UNCHANGED <<vars, cmdline, ghost>>

(* The head of the next queue, if there is one. *)
StartQueue ==
  /\ Showing /\ left = 0 /\ iter = NoPcb /\ todo # <<>>
  /\ LET p == HeadOf(Head(todo))
     IN  IF p = NoPcb THEN Visit(NoPcb, Tail(todo)) ELSE Visit(p, todo)

(* On to p_next of the PCB just printed.  If that has been freed, its memory *)
(* says NULL, or is an iocb by now and what it says is anything.             *)
StepOn ==
  /\ Showing /\ left = 0 /\ iter # NoPcb /\ todo # <<>>
  /\ \/ iter \in allocated /\ NextOf(iter) # NoPcb /\ Visit(NextOf(iter), todo)
     \/ NextOf(iter) = NoPcb /\ Visit(NoPcb, Tail(todo))
     \/ iter \notin allocated /\ Panic /\ UNCHANGED <<walk, ghost>>

ShowEnd ==
  /\ Showing /\ left = 0 /\ todo = <<>>
  /\ cmdline' = "none" /\ iter' = NoPcb /\ times' = [p \in Pcb |-> 0]
  /\ still' = {} /\ tidy' = TRUE
  /\ pc' = "menu"
  /\ UNCHANGED <<todo, left, sched, heap, mode, origin, dcb, held, loading, loads>>

ShowNext ==
  \/ Others \/ WriteLine
  \/ ShowQueues \/ ShowOne \/ StartQueue \/ StepOn \/ ShowEnd

ShowSpec == ShowInit /\ [][ShowNext]_svars
=============================================================================
