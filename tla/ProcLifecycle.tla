---------------------------- MODULE ProcLifecycle ----------------------------
(* What the dispatcher promises its processes, without queues, priorities,   *)
(* requests or interrupts: the diagram of process states.  At most one       *)
(* process has the CPU; it gets it only from the READY set and only when it  *)
(* is not suspended; only the process on the CPU blocks or exits; a BLOCKED  *)
(* process can only become READY; the CPU is left empty only when no active  *)
(* process is READY.                                                         *)
CONSTANT Proc

VARIABLES ready, blocked, suspended, cpu

vars == <<ready, blocked, suspended, cpu>>
live == ready \cup blocked \cup cpu

Init ==
  /\ ready \in SUBSET Proc /\ ready # {}
  /\ blocked = {} /\ suspended = {} /\ cpu = {}

(* A process is created READY. *)
Start ==
  \E p \in Proc \ live : /\ ready' = ready \cup {p}
                         /\ UNCHANGED <<blocked, suspended, cpu>>

(* The user suspends or resumes a process that is not on the CPU. *)
Suspension ==
  \E p \in ready \cup blocked :
    /\ suspended' \in {suspended \cup {p}, suspended \ {p}}
    /\ UNCHANGED <<ready, blocked, cpu>>

(* The user deletes a process that is not on the CPU. *)
Remove ==
  \E p \in ready \cup blocked :
    /\ ready' = ready \ {p} /\ blocked' = blocked \ {p}
    /\ suspended' = suspended \ {p}
    /\ UNCHANGED cpu

(* A request completes: at most one BLOCKED process becomes READY. *)
Woken(r, b) == \/ r = ready /\ b = blocked
               \/ \E p \in blocked : r = ready \cup {p} /\ b = blocked \ {p}

(* Who has the CPU next, once r is the set of READY processes: one of those  *)
(* that are active, or nobody when there is none.                            *)
Choose(r) ==
  IF r \subseteq suspended THEN cpu' = {}
  ELSE \E p \in r \ suspended : cpu' = {p}

(* A dispatch: the process on the CPU (if any) gives way, blocks or exits.   *)
Switch ==
  \E r, b \in SUBSET Proc :
    /\ Woken(r, b)
    /\ Choose(r)
    /\ \/ cpu' # {} /\ ready' = (r \ cpu') \cup cpu /\ blocked' = b
       \/ ready' = r \ cpu' /\ blocked' = b \cup cpu
       \/ ready' = r \ cpu' /\ blocked' = b
    /\ UNCHANGED suspended

(* A call that returns to its caller. *)
Return ==
  \E r, b \in SUBSET Proc : /\ Woken(r, b)
                            /\ ready' = r /\ blocked' = b
                            /\ UNCHANGED <<suspended, cpu>>

Next == Start \/ Suspension \/ Remove \/ Switch \/ Return
Spec == Init /\ [][Next]_vars
=============================================================================
