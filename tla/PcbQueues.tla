------------------------------ MODULE PcbQueues ------------------------------
(* The four process queues of kernel/pcb.c as values.  A queue is the       *)
(* sequence of PCBs its linked list holds, head first; st[p] is the         *)
(* struct pcb_state of PCB p.  pcb_insert and pcb_remove are functions from  *)
(* the queues to the queues they leave behind.                              *)
EXTENDS Integers, Sequences, SequencesExt

Exec   == {"BLOCKED", "READY", "RUNNING"}
Dpatch == {"SUSPENDED", "ACTIVE"}
Class  == {"SYSTEM", "USER"}
Pri    == 0..9

PcbState == [exec : Exec, dpatch : Dpatch, cls : Class, pri : Pri]

QueueId == 0..3

(* Mutant: a READY process is queued as active even when suspended. *)
Selector_IgnoresSuspended(s) ==
  IF s.exec = "READY" THEN 0 ELSE IF s.dpatch # "ACTIVE" THEN 3 ELSE 1

(* PSTATE_QUEUE_SELECTOR: which queue a PCB in this state belongs to. *)
Selector(s) == (IF s.exec # "READY" THEN 1 ELSE 0)
               + (IF s.dpatch # "ACTIVE" THEN 2 ELSE 0)

(* Only the two READY queues are kept in priority order. *)
IsPriority(i) == i \in {0, 2}

(* Mutants: always at the tail; before the PCBs of the same priority. *)
InsertPos_AtTail(q, st, p) == Len(q) + 1
InsertPos_BeforeEquals(q, st, p) ==
  Min({i \in 1..Len(q) : st[p].pri <= st[q[i]].pri} \cup {Len(q) + 1})

(* A PCB enters a priority queue before the first PCB of a strictly larger *)
(* priority number, so behind every PCB of its own priority.               *)
InsertPos(q, st, p) ==
  Min({i \in 1..Len(q) : st[p].pri < st[q[i]].pri} \cup {Len(q) + 1})

pcb_insert(qs, st, p) ==
  LET sel == Selector(st[p])
  IN  [qs EXCEPT ![sel] = IF IsPriority(sel)
                          THEN InsertAt(@, InsertPos(@, st, p), p)
                          ELSE Append(@, p)]

(* The PCB is looked for only in the queue its present state selects; the *)
(* queues are unchanged when it is not there (the function returns -1).   *)
pcb_remove(qs, st, p) ==
  [qs EXCEPT ![Selector(st[p])] = RemoveFirst(@, p)]

(* p is in some queue: pcb_find walks the four lists and returns it. *)
Queued(qs, p) == \E i \in QueueId : p \in ToSet(qs[i])


(* The queues hold exactly the PCBs of S, each once, in the queue its state *)
(* selects, and none of them marked as running.                            *)
Holds(qs, st, S) ==
  /\ \A i \in QueueId : IsInjective(qs[i])
  /\ \A i \in QueueId : \A p \in ToSet(qs[i]) :
       p \in S /\ st[p].exec # "RUNNING" /\ Selector(st[p]) = i
  /\ \A p \in S : p \in ToSet(qs[Selector(st[p])])
=============================================================================
