------------------------------ MODULE QueueCalls ------------------------------
(* What pcb.h promises of pcb_insert and pcb_remove: four queues in which a  *)
(* PCB can be put and from which it can be taken, READY ones by priority.    *)
(* Its callers take a PCB out before they change its state or free it, which *)
(* QueuesSound shows of the kernel.                                          *)
EXTENDS PcbQueues

CONSTANTS
  Pcb,     \* the PCBs the heap has room for
  States   \* the states callers give them

VARIABLES
  queues,  \* the queues, as sequences
  st,      \* the state of every PCB
  live     \* the PCBs between pcb_setup and pcb_free

vars == <<queues, st, live>>

(* A PCB its owner holds: not free, and in no queue. *)
Held(p) == p \in live /\ ~Queued(queues, p)

Init ==
  /\ queues = [i \in QueueId |-> <<>>]
  /\ st \in [Pcb -> {CHOOSE s \in States : TRUE}]
  /\ live = {}

Setup(p) == p \notin live /\ live' = live \cup {p} /\ UNCHANGED <<queues, st>>
Change(p) == Held(p) /\ (\E s \in States : st' = [st EXCEPT ![p] = s]) /\ UNCHANGED <<queues, live>>
Put(p) == Held(p) /\ queues' = pcb_insert(queues, st, p) /\ UNCHANGED <<st, live>>
Take(p) == Queued(queues, p) /\ queues' = pcb_remove(queues, st, p) /\ UNCHANGED <<st, live>>
Free(p)   == Held(p) /\ live' = live \ {p} /\ UNCHANGED <<queues, st>>

Next == \E p \in Pcb : Setup(p) \/ Change(p) \/ Put(p) \/ Take(p) \/ Free(p)

Spec == Init /\ [][Next]_vars
=============================================================================
