------------------------------- MODULE PcbLists -------------------------------
(* The queues of kernel/pcb.c as they are in memory: a head and a tail       *)
(* pointer for each, and p_next in the PCBs.  pcb_insert does not set p_next *)
(* of a PCB it puts at the tail, and finds a list of one by p_next of its    *)
(* head; both rest on pcb_setup, pcb_remove and pcb_free leaving it NULL.    *)
EXTENDS PcbQueues, FiniteSets

CONSTANTS
  Pcb,     \* the PCBs the heap has room for
  NoPcb,   \* NULL
  States   \* the states callers give them

ASSUME ListAssumption ==
  NoPcb \notin Pcb /\ IsFiniteSet(Pcb) /\ States # {} /\ States \subseteq PcbState

VARIABLES
  head,    \* pcb_queues[i].pcb_head
  tail,    \* pcb_queues[i].pcb_tail
  p_next,  \* of every PCB
  st,      \* pcb->state of every PCB
  live     \* the PCBs between pcb_setup and pcb_free

list == <<head, tail, p_next>>
vars == <<head, tail, p_next, st, live>>

(* The PCBs met from queue i's head on; no more than there are. *)
Walk(i) ==
  LET from[k \in 0..Cardinality(Pcb)] ==
        [p \in Pcb \cup {NoPcb} |->
           IF k = 0 \/ p = NoPcb THEN <<>> ELSE <<p>> \o from[k-1][p_next[p]]]
  IN  from[Cardinality(Pcb)][head[i]]

(* pcb_find meets p. *)
Found(p) == \E i \in QueueId : p \in ToSet(Walk(i))

(* A PCB its owner holds. *)
Held(p) == p \in live /\ ~Found(p)

Init ==
  /\ head = [i \in QueueId |-> NoPcb] /\ tail = [i \in QueueId |-> NoPcb]
  /\ p_next = [p \in Pcb |-> NoPcb]
  /\ st \in [Pcb -> {CHOOSE s \in States : TRUE}]
  /\ live = {}
-----------------------------------------------------------------------------
(* The tail of queue i when pcb_insert appends: a list of one has its head. *)
Rear(i) == IF p_next[head[i]] = NoPcb THEN head[i] ELSE tail[i]

InsertEmpty(i, p) ==
  /\ head[i] = NoPcb
  /\ head' = [head EXCEPT ![i] = p] /\ tail' = [tail EXCEPT ![i] = p]
  /\ UNCHANGED p_next

(* The first PCB of queue i that p goes before, 0 when there is none. *)
Before(i, p) ==
  IF IsPriority(i)
  THEN SelectInSeq(Walk(i), LAMBDA q : st[p].pri < st[q].pri)
  ELSE 0

InsertTail(i, p) ==
  /\ head[i] # NoPcb /\ Before(i, p) = 0
  /\ p_next' = [p_next EXCEPT ![Rear(i)] = p] /\ tail' = [tail EXCEPT ![i] = p]
  /\ UNCHANGED head

InsertHead(i, p) ==
  /\ head[i] # NoPcb /\ Before(i, p) = 1
  /\ p_next' = [p_next EXCEPT ![p] = head[i]] /\ head' = [head EXCEPT ![i] = p]
  /\ UNCHANGED tail

(* Mutant: p is linked behind the PCB it should go before. *)
InsertBetween_After(i, p) ==
  LET k == Before(i, p)
  IN  /\ head[i] # NoPcb /\ k > 1
      /\ p_next' = [p_next EXCEPT ![Walk(i)[k]] = p, ![p] = p_next[Walk(i)[k]]]
      /\ UNCHANGED <<head, tail>>
InsertBetween(i, p) ==
  LET k == Before(i, p)
  IN  /\ head[i] # NoPcb /\ k > 1
      /\ p_next' = [p_next EXCEPT ![Walk(i)[k-1]] = p, ![p] = Walk(i)[k]]
      /\ UNCHANGED <<head, tail>>

Put(p) ==
  /\ Held(p)
  /\ LET i == Selector(st[p])
     IN  InsertEmpty(i, p) \/ InsertTail(i, p) \/ InsertHead(i, p) \/ InsertBetween(i, p)
  /\ UNCHANGED <<st, live>>

(* The head: the tail goes with the last one. *)
RemoveHead(i, p) ==
  /\ head[i] = p
  /\ tail' = [tail EXCEPT ![i] = IF @ = p THEN NoPcb ELSE @]
  /\ head' = [head EXCEPT ![i] = p_next[p]]
  /\ p_next' = [p_next EXCEPT ![p] = NoPcb]

(* Mutant: the PCB taken out keeps its p_next. *)
RemoveLater_KeepsNext(i, p) ==
  \E k \in 2..Len(Walk(i)) :
    /\ Walk(i)[k] = p
    /\ tail' = [tail EXCEPT ![i] = IF @ = p THEN Walk(i)[k-1] ELSE @]
    /\ p_next' = [p_next EXCEPT ![Walk(i)[k-1]] = p_next[p]]
    /\ UNCHANGED head
(* Mutant: the tail stays where it is. *)
RemoveLater_KeepsTail(i, p) ==
  \E k \in 2..Len(Walk(i)) :
    /\ Walk(i)[k] = p
    /\ p_next' = [p_next EXCEPT ![Walk(i)[k-1]] = p_next[p], ![p] = NoPcb]
    /\ UNCHANGED <<head, tail>>
(* A later PCB: its predecessor skips it, and is the tail if p was. *)
RemoveLater(i, p) ==
  \E k \in 2..Len(Walk(i)) :
    /\ Walk(i)[k] = p
    /\ tail' = [tail EXCEPT ![i] = IF @ = p THEN Walk(i)[k-1] ELSE @]
    /\ p_next' = [p_next EXCEPT ![Walk(i)[k-1]] = p_next[p], ![p] = NoPcb]
    /\ UNCHANGED head

Take(p) ==
  /\ Found(p)
  /\ LET i == Selector(st[p]) IN RemoveHead(i, p) \/ RemoveLater(i, p)
  /\ UNCHANGED <<st, live>>
-----------------------------------------------------------------------------
(* pcb_setup, what the callers do to the state in between, and pcb_free.     *)
Setup(p) ==
  /\ p \notin live /\ live' = live \cup {p}
  /\ p_next' = [p_next EXCEPT ![p] = NoPcb]
  /\ UNCHANGED <<head, tail, st>>

Change(p) ==
  /\ Held(p)
  /\ \E s \in States : st' = [st EXCEPT ![p] = s]
  /\ UNCHANGED <<list, live>>

(* In freed memory p_next is 0, and then what the next owner makes of it. *)
Free(p) ==
  /\ Held(p) /\ live' = live \ {p}
  /\ \E q \in Pcb \cup {NoPcb} : p_next' = [p_next EXCEPT ![p] = q]
  /\ UNCHANGED <<head, tail, st>>

Next == \E p \in Pcb : Setup(p) \/ Change(p) \/ Put(p) \/ Take(p) \/ Free(p)

Spec == Init /\ [][Next]_vars
-----------------------------------------------------------------------------
(* In memory, a live PCB in no queue has p_next NULL, and so has the last of *)
(* each queue; the tail pointer is on that last one.  Insertion at the tail, *)
(* which leaves p_next alone, depends on it.                                 *)
ListsTerminated ==
  /\ \A p \in live : ~Found(p) => p_next[p] = NoPcb
  /\ \A i \in QueueId :
       IF head[i] = NoPcb THEN tail[i] = NoPcb
       ELSE tail[i] = Last(Walk(i)) /\ p_next[tail[i]] = NoPcb

(* The lists are the queues: what one walks through from the head pointers   *)
(* changes with pcb_insert and pcb_remove as the sequences of PcbQueues do.  *)
Queues == INSTANCE QueueCalls WITH queues <- [i \in QueueId |-> Walk(i)]
ImplementsQueues == Queues!Spec
=============================================================================
