------------------------------ MODULE ShowProofs ------------------------------
(* Theorems about the show commands, for any number of PCBs, WRITEs, names   *)
(* and requests, as long as no process exits while its priority is being     *)
(* set.  What they rest on: no step of the kernel while a show command is in *)
(* progress changes the order in which two processes stand in a queue, as    *)
(* long as neither changes state.                                            *)
EXTENDS MCShowPcb, KernelProofs

Before(q, a, b) == \E j, k \in 1..Len(q) : j < k /\ q[j] = a /\ q[k] = b

(* The PCBs outside X keep their order. *)
KeepsOrder(qs, qs2, X) ==
  \A id \in QueueId : \A a, b \in Pcb \ X : Before(qs[id], a, b) => Before(qs2[id], a, b)

-----------------------------------------------------------------------------
(* Putting a PCB in, or taking another one out, leaves two in their order. *)
LEMMA InsertAtBefore ==
  ASSUME NEW P, NEW q \in Seq(P), NEW k \in 1..(Len(q) + 1), NEW p \in P,
         NEW a, NEW b, Before(q, a, b)
  PROVE  Before(InsertAt(q, k, p), a, b)
<1> DEFINE r == InsertAt(q, k, p)
<1>1. Len(q) \in Nat  BY LenProperties
<1>2. /\ Len(r) = Len(q) + 1
      /\ \A i \in 1..(Len(q) + 1) : r[i] = IF i < k THEN q[i] ELSE IF i = k THEN p ELSE q[i - 1]
  BY <1>1, InsertAtProperties
<1> HIDE DEF r
<1>3. PICK m \in 1..Len(q), n \in 1..Len(q) : m < n /\ q[m] = a /\ q[n] = b
  BY DEF Before
<1> DEFINE m2 == IF m < k THEN m ELSE m + 1
           n2 == IF n < k THEN n ELSE n + 1
<1>4. m2 \in 1..(Len(q) + 1) /\ r[m2] = a
  <2>1. CASE m < k  BY <1>1, <1>2, <1>3, <2>1
  <2>2. CASE ~(m < k)
    <3>1. m + 1 \in 1..(Len(q) + 1) /\ ~(m + 1 < k) /\ m + 1 # k /\ (m + 1) - 1 = m
      BY <1>1, <2>2
    <3>2. r[m + 1] = q[m]  BY <1>1, <1>2, <3>1
    <3> QED BY <1>3, <2>2, <3>1, <3>2
  <2> QED BY <2>1, <2>2
<1>5. n2 \in 1..(Len(q) + 1) /\ r[n2] = b
  <2>1. CASE n < k  BY <1>1, <1>2, <1>3, <2>1
  <2>2. CASE ~(n < k)
    <3>1. n + 1 \in 1..(Len(q) + 1) /\ ~(n + 1 < k) /\ n + 1 # k /\ (n + 1) - 1 = n
      BY <1>1, <2>2
    <3>2. r[n + 1] = q[n]  BY <1>1, <1>2, <3>1
    <3> QED BY <1>3, <2>2, <3>1, <3>2
  <2> QED BY <2>1, <2>2
<1>6. m2 < n2  BY <1>1, <1>3
<1> QED BY <1>1, <1>2, <1>4, <1>5, <1>6 DEF Before, r

LEMMA RemoveAtBefore ==
  ASSUME NEW P, NEW q \in Seq(P), NEW k \in 1..Len(q), NEW a, NEW b,
         a # q[k], b # q[k], Before(q, a, b)
  PROVE  Before(RemoveAt(q, k), a, b)
<1> DEFINE r == RemoveAt(q, k)
<1>1. /\ Len(q) \in Nat /\ Len(r) = Len(q) - 1
      /\ \A i \in 1..(Len(q) - 1) : r[i] = IF i < k THEN q[i] ELSE q[i + 1]
  BY RemoveAtProperties, LenProperties
<1> HIDE DEF r
<1>2. PICK m \in 1..Len(q), n \in 1..Len(q) : m < n /\ q[m] = a /\ q[n] = b
  BY DEF Before
<1>3. m # k /\ n # k  BY <1>2
<1> DEFINE m2 == IF m < k THEN m ELSE m - 1
           n2 == IF n < k THEN n ELSE n - 1
<1>4. m2 \in 1..(Len(q) - 1) /\ r[m2] = a
  <2>1. CASE m < k  BY <1>1, <1>2, <2>1
  <2>2. CASE k < m
    <3>1. m - 1 \in 1..(Len(q) - 1) /\ ~(m - 1 < k) /\ (m - 1) + 1 = m  BY <1>1, <2>2
    <3>2. r[m - 1] = q[m]  BY <1>1, <3>1
    <3> QED BY <1>2, <2>2, <3>1, <3>2
  <2> QED BY <1>3, <2>1, <2>2
<1>5. n2 \in 1..(Len(q) - 1) /\ r[n2] = b
  <2>1. CASE n < k  BY <1>1, <1>2, <2>1
  <2>2. CASE k < n
    <3>1. n - 1 \in 1..(Len(q) - 1) /\ ~(n - 1 < k) /\ (n - 1) + 1 = n  BY <1>1, <2>2
    <3>2. r[n - 1] = q[n]  BY <1>1, <3>1
    <3> QED BY <1>2, <2>2, <3>1, <3>2
  <2> QED BY <1>3, <2>1, <2>2
<1>6. m2 < n2  BY <1>2, <1>3
<1> QED BY <1>1, <1>4, <1>5, <1>6 DEF Before, r

(* pcb_remove and pcb_insert keep the order of the other PCBs. *)
LEMMA RemoveKeeps ==
  ASSUME NEW qs \in Queues, NEW s \in States, NEW p \in Pcb
  PROVE  KeepsOrder(qs, pcb_remove(qs, s, p), {p})
<1> SUFFICES ASSUME NEW id \in QueueId, NEW a \in Pcb \ {p}, NEW b \in Pcb \ {p},
                    Before(qs[id], a, b)
             PROVE  Before(pcb_remove(qs, s, p)[id], a, b)
  BY DEF KeepsOrder
<1>1. qs[id] \in Seq(Pcb) /\ s[p] \in PcbState  BY DEF Queues, States
<1>2. pcb_remove(qs, s, p)[id] \in {qs[id], RemoveFirst(qs[id], p)}
  BY DEF pcb_remove, Queues
<1>3. Before(RemoveFirst(qs[id], p), a, b)
  <2>1. CASE p \notin ToSet(qs[id])  BY <1>1, <2>1, RemoveFirstIsRemoveAt
  <2>2. CASE p \in ToSet(qs[id])
    <3>1. PICK k \in 1..Len(qs[id]) : qs[id][k] = p /\ RemoveFirst(qs[id], p) = RemoveAt(qs[id], k)
      BY <1>1, <2>2, RemoveFirstIsRemoveAt
    <3>2. a # qs[id][k] /\ b # qs[id][k]  BY <3>1
    <3> QED BY <1>1, <3>1, <3>2, RemoveAtBefore
  <2> QED BY <2>1, <2>2
<1> QED BY <1>2, <1>3

LEMMA InsertKeeps ==
  ASSUME NEW qs \in Queues, NEW s \in States, NEW p \in Pcb
  PROVE  KeepsOrder(qs, pcb_insert(qs, s, p), {p})
<1> DEFINE sel == Selector(s[p])
           q == qs[sel]
<1>1. sel \in QueueId /\ q \in Seq(Pcb)
  BY SelectorType DEF Queues, States
<1>2. /\ Place(q, s, p) \in 1..(Len(q) + 1)
      /\ pcb_insert(qs, s, p)[sel] = InsertAt(q, Place(q, s, p), p)
  BY <1>1, InsertPlace DEF Queues, States
<1>3. \A id \in QueueId : id # sel => pcb_insert(qs, s, p)[id] = qs[id]
  BY <1>1 DEF pcb_insert, Queues
<1> HIDE DEF sel
<1> SUFFICES ASSUME NEW id \in QueueId, NEW a, NEW b, Before(qs[id], a, b)
             PROVE  Before(pcb_insert(qs, s, p)[id], a, b)
  BY DEF KeepsOrder
<1>4. CASE id = sel  BY <1>1, <1>2, <1>4, InsertAtBefore
<1>5. CASE id # sel  BY <1>3, <1>5
<1> QED BY <1>4, <1>5

LEMMA KeepsBoth ==
  ASSUME NEW qs, NEW qs2, NEW qs3, NEW X, NEW Y, NEW Z,
         KeepsOrder(qs, qs2, X), KeepsOrder(qs2, qs3, Y), X \cap Pcb \subseteq Z, Y \cap Pcb \subseteq Z
  PROVE  KeepsOrder(qs, qs3, Z)
BY DEF KeepsOrder

-----------------------------------------------------------------------------
(* The process sys_check_io finds, if any: it was BLOCKED and is READY then. *)
Woken == IF Completed THEN {Waiter} ELSE {}

LEMMA CheckedKeeps ==
  ASSUME BaseInv, QueueInv, mode # "off", ~CheckFaults
  PROVE  /\ KeepsOrder(queues, CheckedQueues, Woken)
         /\ \A w \in Woken : w \in Pcb /\ st[w].exec = "BLOCKED" /\ CheckedSt[w].exec = "READY"
<1>1. /\ queues \in Queues /\ st \in States /\ allocated \subseteq Pcb /\ MaxLen \in Nat
      /\ dcb \in DcbState(Pcb, MaxLen) /\ DcbConsistent(dcb)
  BY BoundAssumption DEF BaseInv, SchedPart, HeapPart, DcbPart
<1>2. CASE ~Completed
  BY <1>2 DEF CheckedQueues, Woken, KeepsOrder
<1>3. CASE Completed
  <2> DEFINE w == Waiter
             qs == pcb_remove(queues, st, w)
  <2>1. w \in allocated /\ w \in Pcb
    BY <1>1, <1>3, CheckedQueue
  <2>2. st[w].exec = "BLOCKED"
    <3>1. dcb.ops # <<>>  BY <1>1, <1>3, Fields DEF Completed
    <3>2. w \in Owners(dcb)
      BY <1>1, <3>1, NextIoOwners DEF Waiter, QueueInv, OwnPart
    <3> QED BY <2>1, <3>2 DEF QueueInv, OwnPart
  <2>3. /\ CheckedSt = [st EXCEPT ![w].exec = "READY"] /\ CheckedSt \in States
        /\ CheckedQueues = pcb_insert(qs, CheckedSt, w)
    BY <1>3, CheckedBase DEF CheckedSt, CheckedQueues
  <2>4. CheckedSt[w].exec = "READY"
    BY <1>1, <2>1, <2>3 DEF States, PcbState
  <2>5. qs \in Queues
    BY <1>1, <2>1, RemoveType DEF Queues, States
  <2> HIDE DEF w
  <2>6. KeepsOrder(queues, qs, {w})  BY <1>1, <2>1, RemoveKeeps
  <2> HIDE DEF qs
  <2>7. KeepsOrder(qs, CheckedQueues, {w})  BY <2>1, <2>3, <2>5, InsertKeeps
  <2>8. KeepsOrder(queues, CheckedQueues, {w})  BY <2>6, <2>7, KeepsBoth
  <2> QED BY <1>3, <2>1, <2>2, <2>4, <2>8 DEF Woken, w
<1> QED BY <1>2, <1>3

(* The dispatcher moves the process it chooses. *)
LEMMA DispatchKeeps ==
  ASSUME NEW qs \in Queues, NEW s \in States, NEW A \in SUBSET Pcb, Holds(qs, s, A),
         qs[0] # <<>>, Dispatch(qs, s)
  PROVE  /\ KeepsOrder(qs, queues', {running'}) /\ running' \in A
         /\ \A p \in Pcb : st'[p].exec \in {s[p].exec, "RUNNING"}
         /\ st'[running'].exec = "RUNNING"
<1>1. /\ running' \in A /\ st'[running'].exec = "RUNNING"
      /\ \A p \in Pcb : p # running' => st'[p] = s[p]
  BY DispatchQueue
<1>2. queues' = pcb_remove(qs, s, running')  BY DEF Dispatch
<1>3. KeepsOrder(qs, queues', {running'})  BY <1>1, <1>2, RemoveKeeps
<1> QED BY <1>1, <1>3

(* The process on the CPU, and those whose state a step changes. *)
Moved == {p \in Pcb : p = running \/ ~Unmoved(p)}

LEMMA WokenMoved ==
  ASSUME \A w \in Woken : w \in Pcb /\ st[w].exec = "BLOCKED" /\ st'[w].exec \in {"READY", "RUNNING"}
  PROVE  Woken \cap Pcb \subseteq Moved
BY DEF Moved, Unmoved

LEMMA ChosenMoved ==
  ASSUME BaseInv, QueueInv, NEW h \in Pcb, h \in allocated, st'[h].exec = "RUNNING"
  PROVE  h \in Moved
<1>1. CASE h = running  BY <1>1 DEF Moved
<1>2. CASE h # running
  <2>1. Selector(st[h]) \in QueueId  BY SelectorType DEF BaseInv, SchedPart, States
  <2>2. st[h].exec # "RUNNING"  BY <1>2, <2>1 DEF QueueInv, QueuesSound, Holds
  <2> QED BY <2>2 DEF Moved, Unmoved
<1> QED BY <1>1, <1>2

(* READ and WRITE move the caller, the process woken and the one chosen. *)
LEMMA SysIoKeeps ==
  ASSUME FullInv, NEW op \in IoOp, NEW n \in 1..MaxLen, SysIo(op, n)
  PROVE  KeepsOrder(queues, queues', Moved)
<1> DEFINE s == [CheckedSt EXCEPT ![running].exec = "BLOCKED"]
           qs == pcb_insert(CheckedQueues, s, running)
<1>1. /\ mode = "run" /\ ~CheckFaults /\ BaseInv /\ QueueInv
      /\ \/ qs[0] # <<>> /\ Dispatch(qs, s)
         \/ queues' = qs /\ st' = s
  BY DEF SysIo, Calling, FullInv
<1>2. /\ running \in allocated /\ running \in Pcb /\ allocated \subseteq Pcb
      /\ st[running].exec = "RUNNING"
  BY <1>1, CallerFacts
<1>3. /\ CheckedQueues \in Queues /\ CheckedSt \in States
      /\ Holds(CheckedQueues, CheckedSt, allocated \ {running})
  BY <1>1, CheckedBase, CheckedQueue
<1>4. /\ s \in States /\ s[running].exec = "BLOCKED"
      /\ \A p \in Pcb : p # running => s[p] = CheckedSt[p]
  BY <1>2, <1>3 DEF States, PcbState, Exec
<1> HIDE DEF s
<1>5. qs \in Queues /\ Holds(qs, s, allocated)
  <2>1. Holds(CheckedQueues, s, allocated \ {running})
    BY <1>2, <1>3, <1>4, ChangeHolds DEF Queues
  <2>2. Holds(qs, s, (allocated \ {running}) \cup {running}) /\ qs \in Queues
    BY <1>2, <1>3, <1>4, <2>1, InsertHolds, InsertType DEF Queues, States
  <2>3. (allocated \ {running}) \cup {running} = allocated  BY <1>2
  <2> QED BY <2>2, <2>3
<1>6. /\ KeepsOrder(queues, CheckedQueues, Woken)
      /\ \A w \in Woken : w \in Pcb /\ st[w].exec = "BLOCKED" /\ CheckedSt[w].exec = "READY"
  BY <1>1, CheckedKeeps
<1>7. KeepsOrder(CheckedQueues, qs, {running})  BY <1>2, <1>3, <1>4, InsertKeeps
<1>8. running \in Moved  BY <1>2 DEF Moved
<1>9. \A w \in Woken : w \in Pcb /\ st[w].exec = "BLOCKED" /\ s[w].exec = "READY"
  BY <1>2, <1>4, <1>6
<1> HIDE DEF qs
<1>10. CASE qs[0] # <<>> /\ Dispatch(qs, s)
  <2>1. /\ KeepsOrder(qs, queues', {running'}) /\ running' \in allocated
        /\ \A p \in Pcb : st'[p].exec \in {s[p].exec, "RUNNING"}
        /\ st'[running'].exec = "RUNNING"
    BY <1>2, <1>4, <1>5, <1>10, DispatchKeeps
  <2>2. running' \in Moved  BY <1>1, <1>2, <2>1, ChosenMoved
  <2>3. Woken \cap Pcb \subseteq Moved  BY <1>9, <2>1, WokenMoved
  <2>4. KeepsOrder(queues, qs, Moved)  BY <1>6, <1>7, <1>8, <2>3, KeepsBoth
  <2> QED BY <2>1, <2>2, <2>4, KeepsBoth
<1>11. CASE queues' = qs /\ st' = s
  <2>1. Woken \cap Pcb \subseteq Moved  BY <1>9, <1>11, WokenMoved
  <2> QED BY <1>6, <1>7, <1>8, <1>11, <2>1, KeepsBoth
<1> QED BY <1>1, <1>10, <1>11

(* IDLE moves the caller, the process woken and the one chosen. *)
LEMMA SysIdleKeeps ==
  ASSUME FullInv, SysIdle
  PROVE  KeepsOrder(queues, queues', Moved)
<1> DEFINE h == Head(CheckedQueues[0])
           s == [CheckedSt EXCEPT ![running].exec = "READY"]
           qs == pcb_remove(CheckedQueues, CheckedSt, h)
<1>1. /\ mode = "run" /\ ~CheckFaults /\ BaseInv /\ QueueInv /\ CheckedQueues[0] # <<>>
      /\ queues' = pcb_insert(qs, s, running) /\ st' = [s EXCEPT ![h].exec = "RUNNING"]
  BY DEF SysIdle, Calling, FullInv
<1>2. running \in allocated /\ running \in Pcb /\ allocated \subseteq Pcb
  BY <1>1, CallerFacts
<1>3. /\ CheckedQueues \in Queues /\ CheckedSt \in States
      /\ Holds(CheckedQueues, CheckedSt, allocated \ {running})
  BY <1>1, CheckedBase, CheckedQueue
<1>4. h \in allocated \ {running}
  BY <1>1, <1>3, HeadHolds DEF Queues, QueueId
<1> HIDE DEF h
<1>5. s \in States /\ \A p \in Pcb : p # running => s[p] = CheckedSt[p]
  BY <1>2, <1>3 DEF States, PcbState, Exec
<1> HIDE DEF s
<1>6. /\ st'[h].exec = "RUNNING"
      /\ \A p \in Pcb : st'[p].exec \in {s[p].exec, "RUNNING"}
  BY <1>1, <1>2, <1>4, <1>5 DEF States, PcbState
<1>7. /\ KeepsOrder(queues, CheckedQueues, Woken)
      /\ \A w \in Woken : w \in Pcb /\ st[w].exec = "BLOCKED" /\ CheckedSt[w].exec = "READY"
  BY <1>1, CheckedKeeps
<1>8. qs \in Queues /\ KeepsOrder(CheckedQueues, qs, {h})
  BY <1>2, <1>3, <1>4, RemoveType, RemoveKeeps DEF Queues, States
<1> HIDE DEF qs
<1>9. KeepsOrder(qs, queues', {running})  BY <1>1, <1>2, <1>5, <1>8, InsertKeeps
<1>10. running \in Moved /\ h \in Moved
  BY <1>1, <1>2, <1>4, <1>6, ChosenMoved DEF Moved
<1>11. Woken \cap Pcb \subseteq Moved
  <2>1. \A w \in Woken : st'[w].exec \in {"READY", "RUNNING"}
    <3> SUFFICES ASSUME NEW w \in Woken PROVE st'[w].exec \in {"READY", "RUNNING"}
      OBVIOUS
    <3>1. w \in Pcb /\ w # running  BY <1>1, <1>7, CallerFacts
    <3> QED BY <1>5, <1>6, <1>7, <3>1
  <2> QED BY <1>7, <2>1, WokenMoved
<1>12. KeepsOrder(queues, qs, Moved)  BY <1>7, <1>8, <1>10, <1>11, KeepsBoth
<1> QED BY <1>9, <1>10, <1>12, KeepsBoth

(* EXIT moves the caller, the process woken and the one chosen. *)
LEMMA SysExitKeeps ==
  ASSUME FullInv, SysExit
  PROVE  KeepsOrder(queues, queues', Moved)
<1> DEFINE s == [CheckedSt EXCEPT ![running] = Zeroed]
           A == allocated \ {running}
<1>1. /\ mode = "run" /\ ~CheckFaults /\ BaseInv /\ QueueInv
      /\ \/ CheckedQueues[0] # <<>> /\ Dispatch(CheckedQueues, s)
         \/ queues' = CheckedQueues /\ st' = s
  BY DEF SysExit, FullInv
<1>2. running \in Pcb /\ allocated \subseteq Pcb /\ st[running].exec = "RUNNING"
  BY <1>1, CallerFacts
<1>3. /\ CheckedQueues \in Queues /\ CheckedSt \in States
      /\ Holds(CheckedQueues, CheckedSt, A)
  BY <1>1, CheckedBase, CheckedQueue
<1>4. s \in States /\ \A p \in Pcb : p # running => s[p] = CheckedSt[p]
  <2>1. Zeroed \in PcbState  BY DEF PcbState, Zeroed, Exec, Dpatch, Class, Pri
  <2> QED BY <1>2, <1>3, <2>1 DEF States
<1> HIDE DEF s
<1>5. Holds(CheckedQueues, s, A)
  BY <1>2, <1>3, <1>4, ChangeHolds DEF Queues
<1>6. /\ KeepsOrder(queues, CheckedQueues, Woken)
      /\ \A w \in Woken : w \in Pcb /\ st[w].exec = "BLOCKED" /\ CheckedSt[w].exec = "READY"
  BY <1>1, CheckedKeeps
<1>7. \A w \in Woken : w \in Pcb /\ st[w].exec = "BLOCKED" /\ s[w].exec = "READY"
  BY <1>2, <1>4, <1>6
<1>8. CASE CheckedQueues[0] # <<>> /\ Dispatch(CheckedQueues, s)
  <2>1. A \in SUBSET Pcb  BY <1>2
  <2>2. /\ KeepsOrder(CheckedQueues, queues', {running'}) /\ running' \in A
        /\ \A p \in Pcb : st'[p].exec \in {s[p].exec, "RUNNING"}
        /\ st'[running'].exec = "RUNNING"
    BY <1>3, <1>4, <1>5, <1>8, <2>1, DispatchKeeps
  <2>3. running' \in Moved  BY <1>1, <1>2, <2>2, ChosenMoved
  <2>4. Woken \cap Pcb \subseteq Moved  BY <1>7, <2>2, WokenMoved
  <2> QED BY <1>6, <2>2, <2>3, <2>4, KeepsBoth
<1>9. CASE queues' = CheckedQueues /\ st' = s
  <2>1. Woken \cap Pcb \subseteq Moved  BY <1>7, <1>9, WokenMoved
  <2> QED BY <1>6, <1>9, <2>1 DEF KeepsOrder
<1> QED BY <1>1, <1>8, <1>9

(* A call that returns to its caller moves only the process woken. *)
LEMMA SysReturnKeeps ==
  ASSUME FullInv, NEW op \in IoOp \cup {"IDLE"}, SysReturn(op)
  PROVE  KeepsOrder(queues, queues', Moved)
<1>1. /\ mode = "run" /\ ~CheckFaults /\ BaseInv /\ QueueInv
      /\ queues' = CheckedQueues /\ st' = CheckedSt
  BY DEF SysReturn, Calling, FullInv
<1>2. /\ KeepsOrder(queues, CheckedQueues, Woken)
      /\ \A w \in Woken : w \in Pcb /\ st[w].exec = "BLOCKED" /\ CheckedSt[w].exec = "READY"
  BY <1>1, CheckedKeeps
<1>3. Woken \cap Pcb \subseteq Moved  BY <1>1, <1>2, WokenMoved
<1> QED BY <1>1, <1>2, <1>3 DEF KeepsOrder

(* The end of the hlt loop, and kmain's first call, put one on the CPU. *)
LEMMA WakeKeeps ==
  ASSUME FullInv, mode = "awake", ~CheckFaults, CheckedQueues[0] # <<>>,
         Dispatch(CheckedQueues, CheckedSt)
  PROVE  KeepsOrder(queues, queues', Moved)
<1>1. BaseInv /\ QueueInv /\ allocated \subseteq Pcb
  BY DEF FullInv, BaseInv, HeapPart
<1>2. /\ CheckedQueues \in Queues /\ CheckedSt \in States
      /\ Holds(CheckedQueues, CheckedSt, allocated \ {running})
  BY <1>1, CheckedBase, CheckedQueue
<1>3. /\ KeepsOrder(queues, CheckedQueues, Woken)
      /\ \A w \in Woken : w \in Pcb /\ st[w].exec = "BLOCKED" /\ CheckedSt[w].exec = "READY"
  BY <1>1, CheckedKeeps
<1>4. allocated \ {running} \in SUBSET Pcb  BY <1>1
<1>5. /\ KeepsOrder(CheckedQueues, queues', {running'}) /\ running' \in allocated
      /\ \A p \in Pcb : st'[p].exec \in {CheckedSt[p].exec, "RUNNING"}
      /\ st'[running'].exec = "RUNNING"
  BY <1>2, <1>4, DispatchKeeps
<1>6. running' \in Moved  BY <1>1, <1>5, ChosenMoved
<1>7. Woken \cap Pcb \subseteq Moved  BY <1>3, <1>5, WokenMoved
<1> QED BY <1>3, <1>5, <1>6, <1>7, KeepsBoth

LEMMA KmainKeeps ==
  ASSUME FullInv, KmainIdle
  PROVE  KeepsOrder(queues, queues', Moved)
<1>1. /\ BaseInv /\ QueueInv /\ allocated \subseteq Pcb /\ queues \in Queues /\ st \in States
      /\ queues[0] # <<>> /\ Dispatch(queues, st) /\ mode = "boot"
  BY DEF FullInv, BaseInv, HeapPart, SchedPart, ModePart, KmainIdle
<1>2. Holds(queues, st, allocated \ {running}) /\ allocated \ {running} \in SUBSET Pcb
  BY <1>1 DEF QueueInv, QueuesSound
<1>3. /\ KeepsOrder(queues, queues', {running'}) /\ running' \in allocated
      /\ st'[running'].exec = "RUNNING"
  BY <1>1, <1>2, DispatchKeeps
<1>4. running' \in Moved  BY <1>1, <1>3, ChosenMoved
<1> QED BY <1>3, <1>4 DEF KeepsOrder

(* So two processes that stay where they were keep their order in every step *)
(* but those of the commands.                                                *)
KernelStep == Syscall \/ Wake \/ Irq \/ KmainClose

LEMMA StepKeeps ==
  ASSUME FullInv, KernelStep
  PROVE  KeepsOrder(queues, queues', Moved)
<1>1. CASE queues' = queues  BY <1>1 DEF KeepsOrder
<1>2. CASE Syscall
  <2>1. CASE SysFault  BY <1>1, <2>1 DEF SysFault, Panic, sched
  <2> QED BY <1>2, <2>1, KmainKeeps, SysIdleKeeps, SysExitKeeps, SysIoKeeps, SysReturnKeeps
          DEF Syscall, Yield
<1>3. CASE Wake  BY <1>1, <1>3, WakeKeeps DEF Wake, Panic, sched
<1>4. CASE Irq \/ KmainClose
  BY <1>1, <1>4 DEF Irq, OutputIrq, InputIrq, Interrupt, Panic, KmainClose, sched
<1> QED BY <1>2, <1>3, <1>4 DEF KernelStep

-----------------------------------------------------------------------------
(* The invariant of the show commands.  The handler stays at the line it     *)
(* read.  What is left of the queues to walk has no repetition.  A process   *)
(* that has not moved is live and not on the CPU, hence queued; as long as   *)
(* none has moved while it was being printed, the one being printed is in    *)
(* the present queue, and those shown are the ones of the queues walked and, *)
(* in the present queue, the one being printed and those before it.          *)
Walks == {"ShowReady", "ShowBlocked", "ShowAll"}

LinePart == cmdline # "none" => pc = "line"
TodoPart ==
  /\ cmdline \in Walks \cup {"none", "ShowPcb"}
  /\ todo \in Seq(QueueId) /\ IsInjective(todo) /\ ToSet(todo) \subseteq ToSet(QueuesOf(cmdline))
  /\ iter \in Pcb \cup {NoPcb} /\ times \in [Pcb -> 0..2]
  /\ still \in SUBSET Pcb /\ tidy \in BOOLEAN

InQueue(p) == p \in allocated /\ st[p].exec # "RUNNING"
StillPart  == \A p \in still : InQueue(p)

Shown(p) ==
  \/ Selector(st[p]) \in ToSet(QueuesOf(cmdline)) \ ToSet(todo)
  \/ /\ iter # NoPcb /\ Selector(st[p]) = Head(todo)
     /\ p = iter \/ Before(queues[Head(todo)], p, iter)

WalkPart ==
  cmdline \in Walks /\ tidy =>
    /\ iter # NoPcb => todo # <<>> /\ InQueue(iter) /\ Selector(st[iter]) = Head(todo)
    /\ \A p \in still : times[p] = IF Shown(p) THEN 1 ELSE 0

ShowInv == FullInv /\ LinePart /\ TodoPart /\ HandlerNotShown /\ StillPart /\ WalkPart

-----------------------------------------------------------------------------
(* The order of a queue without repetition. *)
LEMMA OneOrder ==
  ASSUME NEW P, NEW q \in Seq(P), IsInjective(q), NEW a \in ToSet(q), NEW b \in ToSet(q)
  PROVE  /\ a # b => Before(q, a, b) \/ Before(q, b, a)
         /\ ~(Before(q, a, b) /\ Before(q, b, a))
<1>1. Len(q) \in Nat /\ DOMAIN q = 1..Len(q)  BY LenProperties
<1>2. PICK j \in 1..Len(q), k \in 1..Len(q) : q[j] = a /\ q[k] = b
  BY <1>1 DEF ToSet
<1>3. \A m, n \in 1..Len(q) : q[m] = q[n] => m = n  BY <1>1 DEF IsInjective
<1>4. a # b => j < k \/ k < j  BY <1>2
<1>5. ASSUME Before(q, a, b) PROVE j < k
  <2>1. PICK m \in 1..Len(q), n \in 1..Len(q) : m < n /\ q[m] = a /\ q[n] = b
    BY <1>5 DEF Before
  <2> QED BY <1>2, <1>3, <2>1
<1>6. ASSUME Before(q, b, a) PROVE k < j
  <2>1. PICK m \in 1..Len(q), n \in 1..Len(q) : m < n /\ q[m] = b /\ q[n] = a
    BY <1>6 DEF Before
  <2> QED BY <1>2, <1>3, <2>1
<1> QED BY <1>1, <1>2, <1>4, <1>5, <1>6 DEF Before

(* Nothing is before the head. *)
LEMMA HeadFirst ==
  ASSUME NEW P, NEW q \in Seq(P), IsInjective(q), q # <<>>, NEW a
  PROVE  Head(q) \in ToSet(q) /\ ~Before(q, a, Head(q))
<1>1. Len(q) \in Nat \ {0} /\ DOMAIN q = 1..Len(q)  BY EmptySeq, LenProperties
<1>2. Head(q) = q[1] /\ 1 \in 1..Len(q)  BY <1>1
<1>3. \A m, n \in 1..Len(q) : q[m] = q[n] => m = n  BY <1>1 DEF IsInjective
<1>4. ASSUME Before(q, a, Head(q)) PROVE FALSE
  <2>1. PICK m \in 1..Len(q), n \in 1..Len(q) : m < n /\ q[m] = a /\ q[n] = q[1]
    BY <1>2, <1>4 DEF Before
  <2>2. n = 1  BY <1>2, <1>3, <2>1
  <2> QED BY <1>1, <2>1, <2>2
<1> QED BY <1>1, <1>2, <1>4 DEF ToSet

(* Going on by one. *)
LEMMA NextFirst ==
  ASSUME NEW P, NEW q \in Seq(P), IsInjective(q), NEW k \in 1..Len(q)
  PROVE  /\ k = Len(q) => \A a \in ToSet(q) : a = q[k] \/ Before(q, a, q[k])
         /\ k # Len(q) => /\ q[k + 1] \in ToSet(q) /\ q[k + 1] # q[k]
                          /\ ~Before(q, q[k + 1], q[k])
                          /\ \A a : Before(q, a, q[k + 1]) <=> a = q[k] \/ Before(q, a, q[k])
<1>1. Len(q) \in Nat /\ DOMAIN q = 1..Len(q)  BY LenProperties
<1>2. \A m, n \in 1..Len(q) : q[m] = q[n] => m = n  BY <1>1 DEF IsInjective
<1>3. ASSUME k = Len(q), NEW a \in ToSet(q), a # q[k] PROVE Before(q, a, q[k])
  <2>1. PICK m \in 1..Len(q) : q[m] = a  BY <1>1 DEF ToSet
  <2>2. m < k  BY <1>1, <1>3, <2>1
  <2> QED BY <2>1, <2>2 DEF Before
<1>4. ASSUME k # Len(q)
      PROVE  /\ q[k + 1] \in ToSet(q) /\ q[k + 1] # q[k] /\ ~Before(q, q[k + 1], q[k])
             /\ \A a : Before(q, a, q[k + 1]) <=> a = q[k] \/ Before(q, a, q[k])
  <2>1. k + 1 \in 1..Len(q) /\ k < k + 1
    <3>1. Len(q) \in Nat /\ k \in 1..Len(q)  BY <1>1
    <3> QED BY ONLY <3>1, <1>4
  <2>2. q[k + 1] \in ToSet(q) /\ q[k + 1] # q[k]
    <3>1. k + 1 # k  BY <2>1
    <3> QED BY <1>1, <1>2, <2>1, <3>1 DEF ToSet
  <2>3. ASSUME Before(q, q[k + 1], q[k]) PROVE FALSE
    <3>1. PICK m \in 1..Len(q), n \in 1..Len(q) : m < n /\ q[m] = q[k + 1] /\ q[n] = q[k]
      BY <2>3 DEF Before
    <3>2. m = k + 1 /\ n = k  BY <1>2, <2>1, <3>1
    <3> QED BY <1>1, <2>1, <3>1, <3>2
  <2>4. ASSUME NEW a, Before(q, a, q[k + 1]) PROVE a = q[k] \/ Before(q, a, q[k])
    <3>1. PICK m \in 1..Len(q), n \in 1..Len(q) : m < n /\ q[m] = a /\ q[n] = q[k + 1]
      BY <2>4 DEF Before
    <3>2. n = k + 1  BY <1>2, <2>1, <3>1
    <3>3. CASE m = k  BY <3>1, <3>3
    <3>4. CASE m < k  BY <3>1, <3>4 DEF Before
    <3> QED BY <1>1, <3>1, <3>2, <3>3, <3>4
  <2>5. Before(q, q[k], q[k + 1])  BY <2>1 DEF Before
  <2>6. ASSUME NEW a, Before(q, a, q[k]) PROVE Before(q, a, q[k + 1])
    <3>1. PICK m \in 1..Len(q), n \in 1..Len(q) : m < n /\ q[m] = a /\ q[n] = q[k]
      BY <2>6 DEF Before
    <3>2. n = k  BY <1>2, <3>1
    <3>3. m < k + 1  BY <1>1, <3>1, <3>2
    <3> QED BY <2>1, <3>1, <3>3 DEF Before
  <2> QED BY <2>2, <2>3, <2>4, <2>5, <2>6
<1> QED BY <1>3, <1>4

-----------------------------------------------------------------------------
(* A live process that is not on the CPU is in the queue of its state. *)
QueuesRight ==
  /\ queues \in Queues /\ st \in States /\ allocated \subseteq Pcb
  /\ \A id \in QueueId : IsInjective(queues[id]) /\ queues[id] \in Seq(Pcb)
  /\ \A id \in QueueId : \A p \in ToSet(queues[id]) :
       p \in Pcb /\ p # running /\ InQueue(p) /\ Selector(st[p]) = id
  /\ \A p \in allocated : InQueue(p) => /\ p \in Pcb /\ p # running
                                        /\ Selector(st[p]) \in QueueId
                                        /\ p \in ToSet(queues[Selector(st[p])])

LEMMA QueuedFacts == FullInv => QueuesRight
<1> SUFFICES ASSUME FullInv PROVE QueuesRight
  OBVIOUS
<1>1. queues \in Queues /\ st \in States /\ allocated \subseteq Pcb
  BY DEF FullInv, BaseInv, SchedPart, HeapPart
<1>2. Holds(queues, st, allocated \ {running}) /\ RunningRight
  BY DEF FullInv, QueueInv, QueuesSound
<1>3. \A id \in QueueId : IsInjective(queues[id]) /\ queues[id] \in Seq(Pcb)
  BY <1>1, <1>2 DEF Holds, Queues
<1>4. \A id \in QueueId : \A p \in ToSet(queues[id]) :
        p \in Pcb /\ p # running /\ InQueue(p) /\ Selector(st[p]) = id
  BY <1>1, <1>2 DEF Holds, InQueue
<1>5. ASSUME NEW p \in allocated, InQueue(p)
      PROVE  /\ p \in Pcb /\ p # running /\ Selector(st[p]) \in QueueId
             /\ p \in ToSet(queues[Selector(st[p])])
  <2>1. p \in allocated /\ p \in Pcb /\ st[p].exec # "RUNNING"  BY <1>1, <1>5 DEF InQueue
  <2>2. p # running  BY <1>2, <2>1, PcbAssumption DEF RunningRight
  <2>3. Selector(st[p]) \in QueueId  BY <1>1, <2>1, SelectorType DEF States
  <2> QED BY <1>2, <2>1, <2>2, <2>3 DEF Holds
<1> QED BY <1>1, <1>3, <1>4, <1>5 DEF QueuesRight

(* Processes that stay where they are keep their order. *)
LEMMA SameOrder ==
  ASSUME FullInv, FullInv', KernelStep, NEW id \in QueueId, NEW a, NEW b,
         InQueue(a), InQueue(b), Unmoved(a), Unmoved(b),
         Selector(st[a]) = id, Selector(st[b]) = id
  PROVE  Before(queues'[id], a, b) <=> Before(queues[id], a, b)
<1>1. /\ a \in Pcb /\ a # running /\ a \in ToSet(queues[id])
      /\ b \in Pcb /\ b # running /\ b \in ToSet(queues[id])
      /\ IsInjective(queues[id]) /\ queues[id] \in Seq(Pcb)
  BY QueuedFacts DEF QueuesRight, InQueue
<1>2. a \in Pcb \ Moved /\ b \in Pcb \ Moved  BY <1>1 DEF Moved
<1>3. InQueue(a)' /\ InQueue(b)'  BY DEF InQueue, Unmoved
<1>4. st'[a] = st[a] /\ st'[b] = st[b]  BY DEF Unmoved
<1>5. /\ a \in ToSet(queues'[id]) /\ b \in ToSet(queues'[id])
      /\ IsInjective(queues'[id]) /\ queues'[id] \in Seq(Pcb)
  <2>1. QueuesRight'  BY QueuedFacts, PTL
  <2> QED BY <1>3, <1>4, <2>1 DEF QueuesRight, InQueue
<1>6. /\ Before(queues[id], a, b) => Before(queues'[id], a, b)
      /\ Before(queues[id], b, a) => Before(queues'[id], b, a)
  BY <1>2, StepKeeps DEF KeepsOrder
<1>7. /\ ~(Before(queues[id], a, b) /\ Before(queues[id], b, a))
      /\ a # b => Before(queues[id], a, b) \/ Before(queues[id], b, a)
  BY <1>1, OneOrder
<1>8. ~(Before(queues'[id], a, b) /\ Before(queues'[id], b, a))
  BY <1>5, OneOrder
<1> QED BY <1>6, <1>7, <1>8

(* p_next of a PCB in a queue. *)
LEMMA NextOfPlace ==
  ASSUME FullInv, NEW id \in QueueId, NEW k \in 1..Len(queues[id])
  PROVE  NextOf(queues[id][k]) = IF k = Len(queues[id]) THEN NoPcb ELSE queues[id][k + 1]
<1> DEFINE q == queues[id]
           p == q[k]
<1>1. IsInjective(q) /\ q \in Seq(Pcb)  BY QueuedFacts DEF QueuesRight
<1>2. Len(q) \in Nat /\ DOMAIN q = 1..Len(q)  BY <1>1, LenProperties
<1>3. p \in ToSet(q)  BY <1>2 DEF ToSet
<1>4. \A n \in QueueId : p \in ToSet(queues[n]) => n = id
  BY <1>3, QueuedFacts DEF QueuesRight
<1> DEFINE c == CHOOSE j \in QueueId : p \in ToSet(queues[j])
<1>5. c = id  BY <1>3, <1>4
<1>6. SelectInSeq(q, LAMBDA x : x = p) = k
  <2> DEFINE I == {m \in 1..Len(q) : q[m] = p}
  <2>1. I = {k}  BY <1>1, <1>2 DEF IsInjective
  <2>2. I \in SUBSET Nat /\ I # {}  BY <1>2, <2>1
  <2>3. Min(I) = k  BY <2>1, <2>2, MinIsLeast
  <2> QED BY <2>2, <2>3 DEF SelectInSeq
<1>7. Queued(queues, p)  BY <1>3 DEF Queued
<1> HIDE DEF p
<1>8. NextOf(p) = IF SelectInSeq(queues[c], LAMBDA x : x = p) = Len(queues[c]) THEN NoPcb
                  ELSE queues[c][SelectInSeq(queues[c], LAMBDA x : x = p) + 1]
  BY <1>7, Zenon DEF NextOf
<1> HIDE DEF c
<1>9. NextOf(p) = IF SelectInSeq(q, LAMBDA x : x = p) = Len(q) THEN NoPcb
                  ELSE q[SelectInSeq(q, LAMBDA x : x = p) + 1]
  BY <1>5, <1>8, Zenon
<1> QED BY <1>6, <1>9, Zenon DEF p

-----------------------------------------------------------------------------
(* The steps of the kernel under a show command. *)
LEMMA ShowIsNext == ASSUME Others \/ WriteLine PROVE Next
<1>1. CASE Others  BY <1>1 DEF Others, Next
<1>2. CASE WriteLine
  BY <1>2 DEF WriteLine, Next, Syscall, Yield, IoOp
<1> QED BY <1>1, <1>2

(* While a show command is in progress only the kernel and the other         *)
(* processes make steps, and the handler stays at its line.                  *)
LEMMA ShowIsKernel ==
  ASSUME LinePart, cmdline # "none", Others \/ WriteLine
  PROVE  KernelStep /\ pc' = "line"
<1>1. pc = "line"  BY DEF LinePart
<1>2. CASE Irq
  BY <1>1, <1>2 DEF KernelStep, Irq, OutputIrq, InputIrq, Interrupt, Panic, cmd
<1>3. CASE Wake \/ KmainClose
  BY <1>1, <1>3 DEF KernelStep, Wake, KmainClose, Panic, cmd
<1>4. CASE Syscall /\ (mode # "run" \/ running # ComhandPcb)
  <2>1. CASE \/ SysIdle
             \/ \E op \in IoOp, n \in 1..MaxLen : SysIo(op, n)
             \/ \E op \in IoOp \cup {"IDLE"} : SysReturn(op)
    BY <1>1, <1>4, <2>1 DEF KernelStep, SysIdle, SysIo, SysReturn, Calling, PcAfter, PcRefused
  <2>2. CASE KmainIdle \/ SysExit \/ SysFault
    BY <1>1, <1>4, <2>2 DEF KernelStep, KmainIdle, SysExit, SysFault, Panic, cmd
  <2> QED BY <1>4, <2>1, <2>2 DEF Syscall, Yield
<1>5. CASE WriteLine
  <2>1. Syscall  BY <1>5 DEF WriteLine, Syscall, Yield, IoOp
  <2>2. pc' \in {PcAfter("WRITE"), PcRefused("WRITE")} /\ running = ComhandPcb
    BY <1>5 DEF WriteLine, SysIo, SysReturn, Showing
  <2> QED BY <1>1, <2>1, <2>2 DEF KernelStep, PcAfter, PcRefused
<1>6. CASE ~Showing /\ Next
  <2>1. mode # "run" \/ running # ComhandPcb  BY <1>6 DEF Showing
  <2>2. ~Comhand
    BY <1>1, <2>1 DEF Comhand, LoadR3, LoadNext, Alarm, Shutdown, CleanNext, ClearNoLine,
                      Suspend, Resume, Delete, PriorityFind, PrioritySet, AtLine
  <2> QED BY <1>2, <1>3, <1>4, <1>6, <2>1, <2>2 DEF Next
<1> QED BY <1>2, <1>5, <1>6 DEF Others

(* What they do to the walk: nothing but to move processes under it. *)
LEMMA KernelKeepsWalk ==
  ASSUME ShowInv, FullInv', KernelStep, Watch, UNCHANGED <<cmdline, todo, iter, times>>
  PROVE  WalkPart'
<1>1. /\ UNCHANGED <<cmdline, todo, iter, times>>
      /\ still' = {p \in still : Unmoved(p)}
      /\ tidy' = (tidy /\ (iter # NoPcb => Unmoved(iter)))
  BY DEF Watch
<1> SUFFICES ASSUME cmdline \in Walks, tidy, iter # NoPcb => Unmoved(iter)
             PROVE  /\ iter # NoPcb => /\ todo # <<>> /\ InQueue(iter)'
                                       /\ Selector(st'[iter]) = Head(todo)
                    /\ \A p \in still' : times[p] = IF Shown(p)' THEN 1 ELSE 0
  BY <1>1 DEF WalkPart, InQueue, TodoPart, ShowInv
<1>2. iter # NoPcb => todo # <<>> /\ InQueue(iter) /\ Selector(st[iter]) = Head(todo)
  BY DEF ShowInv, WalkPart
<1>3. iter # NoPcb => InQueue(iter)' /\ st'[iter] = st[iter]
  BY <1>1, <1>2 DEF InQueue, Unmoved
<1>4. ASSUME NEW p \in still'
      PROVE  times[p] = IF Shown(p)' THEN 1 ELSE 0
  <2>1. p \in still /\ Unmoved(p) /\ InQueue(p) /\ st'[p] = st[p]
    BY <1>1 DEF Unmoved, ShowInv, StillPart
  <2>2. times[p] = IF Shown(p) THEN 1 ELSE 0  BY <2>1 DEF ShowInv, WalkPart
  <2>3. ASSUME iter # NoPcb, Selector(st[p]) = Head(todo)
        PROVE  Before(queues'[Head(todo)], p, iter) <=> Before(queues[Head(todo)], p, iter)
    <3>1. Head(todo) \in QueueId
      BY <1>2, <2>3, HeadTailProperties DEF ShowInv, TodoPart
    <3> QED BY <1>2, <2>1, <2>3, <3>1, SameOrder DEF ShowInv
  <2>4. Shown(p)' <=> Shown(p)  BY <1>1, <2>1, <2>3 DEF Shown
  <2> QED BY <2>2, <2>4
<1> QED BY <1>2, <1>3, <1>4

LEMMA KernelShow ==
  ASSUME ShowInv, HeldAlive, Others \/ WriteLine
  PROVE  ShowInv'
<1>1. /\ UNCHANGED <<cmdline, todo, iter, times>> /\ Watch
      /\ still' = {p \in still : Unmoved(p)} /\ tidy' \in BOOLEAN
  BY DEF Others, WriteLine, Watch, walk, ShowInv, TodoPart
<1>2. FullInv'  BY ShowIsNext, NextFull DEF ShowInv
<1>3. TodoPart'  BY <1>1 DEF ShowInv, TodoPart
<1>4. HandlerNotShown'  BY <1>1 DEF ShowInv, HandlerNotShown
<1>5. StillPart'  BY <1>1 DEF ShowInv, StillPart, InQueue, Unmoved
<1>6. CASE cmdline = "none"
  <2>1. LinePart' /\ WalkPart'  BY <1>1, <1>6 DEF LinePart, WalkPart, Walks
  <2> QED BY <1>2, <1>3, <1>4, <1>5, <2>1 DEF ShowInv
<1>7. CASE cmdline # "none"
  <2>1. KernelStep /\ pc' = "line"  BY <1>7, ShowIsKernel DEF ShowInv
  <2>2. LinePart'  BY <2>1 DEF LinePart
  <2>3. WalkPart'  BY <1>1, <1>2, <2>1, KernelKeepsWalk
  <2> QED BY <1>2, <1>3, <1>4, <1>5, <2>2, <2>3 DEF ShowInv
<1> QED BY <1>6, <1>7

-----------------------------------------------------------------------------
(* The queues each command walks. *)
LEMMA QueuesOfFacts ==
  /\ \A c \in {"none", "ShowPcb"} : QueuesOf(c) = <<>>
  /\ QueuesOf("ShowAll") = <<0, 1, 2, 3>>
  /\ \A c \in {"ShowReady", "ShowBlocked"} : QueuesOf(c) = <<3, 2>>
BY DEF QueuesOf, Selector

LEMMA QueuesOfSets ==
  ASSUME NEW c \in Walks \cup {"none", "ShowPcb"}
  PROVE  /\ QueuesOf(c) \in Seq(QueueId) /\ IsInjective(QueuesOf(c))
         /\ c = "ShowAll" => ToSet(QueuesOf(c)) = QueueId
         /\ c \in {"ShowReady", "ShowBlocked"} => ToSet(QueuesOf(c)) = {2, 3}
<1>1. CASE c \in {"none", "ShowPcb"}
  <2>1. IsInjective(<<>>)  BY DEF IsInjective
  <2>2. <<>> \in Seq(QueueId)  OBVIOUS
  <2>3. QueuesOf(c) = <<>>  BY <1>1, QueuesOfFacts
  <2> QED BY <1>1, <2>1, <2>2, <2>3
<1>2. CASE c = "ShowAll"
  <2> DEFINE q == <<0, 1, 2, 3>>
  <2>1. DOMAIN q = 1..4 /\ \A n \in 1..4 : q[n] = n - 1  OBVIOUS
  <2>2. q \in Seq(QueueId)  BY DEF QueueId
  <2> HIDE DEF q
  <2>3. IsInjective(q)  BY <2>1 DEF IsInjective
  <2>4. ToSet(q) = QueueId
    <3>1. \A x \in ToSet(q) : x \in QueueId  BY <2>1 DEF ToSet, QueueId
    <3>2. ASSUME NEW x \in QueueId PROVE x \in ToSet(q)
      <4>1. x + 1 \in 1..4 /\ q[x + 1] = x  BY <2>1 DEF QueueId
      <4> QED BY <2>1, <4>1 DEF ToSet
    <3> QED BY <3>1, <3>2
  <2> QED BY <1>2, <2>2, <2>3, <2>4, QueuesOfFacts DEF q
<1>3. CASE c \in {"ShowReady", "ShowBlocked"}
  <2> DEFINE q == <<3, 2>>
  <2>1. DOMAIN q = {1, 2} /\ q[1] = 3 /\ q[2] = 2  OBVIOUS
  <2>2. q \in Seq(QueueId)  BY DEF QueueId
  <2> HIDE DEF q
  <2>3. IsInjective(q) /\ ToSet(q) = {2, 3}  BY <2>1 DEF IsInjective, ToSet
  <2> QED BY <1>3, <2>2, <2>3, QueuesOfFacts DEF q
<1> QED BY <1>1, <1>2, <1>3 DEF Walks

LEMMA TailOfSet ==
  ASSUME NEW S, NEW q \in Seq(S), IsInjective(q), q # <<>>
  PROVE  /\ Head(q) \in ToSet(q) /\ Head(q) \in S /\ Tail(q) \in Seq(S)
         /\ IsInjective(Tail(q)) /\ ToSet(Tail(q)) = ToSet(q) \ {Head(q)}
<1>1. Len(q) \in Nat \ {0} /\ DOMAIN q = 1..Len(q)  BY EmptySeq, LenProperties
<1>2. Head(q) = q[1] /\ 1 \in 1..Len(q) /\ Head(q) \in S  BY <1>1, HeadTailProperties
<1> DEFINE t == Tail(q)
<1>3. t \in Seq(S) /\ Len(t) = Len(q) - 1 /\ \A k \in 1..Len(t) : t[k] = q[k + 1]
  BY HeadTailProperties
<1>4. DOMAIN t = 1..Len(t)  BY <1>3, LenProperties
<1> HIDE DEF t
<1>5. \A m, n \in 1..Len(q) : q[m] = q[n] => m = n  BY <1>1 DEF IsInjective
<1>6. IsInjective(t)
  <2> SUFFICES ASSUME NEW m \in 1..Len(t), NEW n \in 1..Len(t), t[m] = t[n] PROVE m = n
    BY <1>4 DEF IsInjective
  <2>1. m + 1 \in 1..Len(q) /\ n + 1 \in 1..Len(q)  BY <1>1, <1>3
  <2>2. q[m + 1] = q[n + 1]  BY <1>3
  <2>3. m + 1 = n + 1  BY <1>5, <2>1, <2>2
  <2> QED BY <2>3
<1>7. ASSUME NEW x \in ToSet(t) PROVE x \in ToSet(q) \ {Head(q)}
  <2>1. PICK m \in 1..Len(t) : t[m] = x  BY <1>4 DEF ToSet
  <2>2. m + 1 \in 1..Len(q) /\ m + 1 # 1 /\ q[m + 1] = x  BY <1>1, <1>3, <2>1
  <2>3. x # q[1]  BY <1>2, <1>5, <2>2
  <2> QED BY <1>1, <1>2, <2>2, <2>3 DEF ToSet
<1>8. ASSUME NEW x \in ToSet(q), x # Head(q) PROVE x \in ToSet(t)
  <2>1. PICK m \in 1..Len(q) : q[m] = x  BY <1>1 DEF ToSet
  <2>2. m # 1  BY <1>2, <1>8, <2>1
  <2>3. m - 1 \in 1..Len(t) /\ (m - 1) + 1 = m  BY <1>1, <1>3, <2>2
  <2>4. t[m - 1] = x  BY <1>3, <2>1, <2>3
  <2> QED BY <1>4, <2>3, <2>4 DEF ToSet
<1>9. Head(q) \in ToSet(q)  BY <1>1, <1>2 DEF ToSet
<1> QED BY <1>2, <1>3, <1>6, <1>7, <1>8, <1>9 DEF t

-----------------------------------------------------------------------------
(* The walk goes on only to PCBs in a queue, so never to the running one. *)
LEMMA NextQueued ==
  ASSUME FullInv, NEW p, NextOf(p) # NoPcb
  PROVE  \E id \in QueueId : NextOf(p) \in ToSet(queues[id])
<1>1. Queued(queues, p)  BY Zenon DEF NextOf
<1>2. PICK id \in QueueId : p \in ToSet(queues[id])  BY <1>1 DEF Queued
<1> DEFINE q == queues[id]
<1>3. q \in Seq(Pcb)  BY QueuedFacts DEF QueuesRight
<1>4. Len(q) \in Nat /\ DOMAIN q = 1..Len(q)  BY <1>3, LenProperties
<1>5. PICK k \in 1..Len(q) : q[k] = p  BY <1>2, <1>4 DEF ToSet
<1>6. NextOf(p) = IF k = Len(q) THEN NoPcb ELSE q[k + 1]  BY <1>5, NextOfPlace
<1>7. k # Len(q) /\ NextOf(p) = q[k + 1]  BY <1>6
<1>8. k + 1 \in 1..Len(q)
  <2>1. Len(q) \in Nat /\ k \in 1..Len(q)  BY <1>4
  <2> QED BY ONLY <2>1, <1>7
<1> QED BY <1>4, <1>7, <1>8 DEF ToSet

(* The end of a queue: every process of it that stayed has been shown. *)
LEMMA EndQueue ==
  ASSUME ShowInv, HeldAlive, todo # <<>>, Visit(NoPcb, Tail(todo)),
         cmdline \in Walks /\ tidy =>
           \A p \in still : Selector(st[p]) = Head(todo) => Shown(p)
  PROVE  ShowInv'
<1>1. /\ iter' = NoPcb /\ todo' = Tail(todo) /\ times' = times /\ UNCHANGED vars
      /\ UNCHANGED <<cmdline, still, tidy, queues, st, allocated, running, pc>>
  BY DEF Visit, vars, ghost
<1>2. FullInv'  BY <1>1, NextFull DEF ShowInv
<1>3. /\ todo \in Seq(QueueId) /\ IsInjective(todo) /\ ToSet(todo) \subseteq ToSet(QueuesOf(cmdline))
  BY DEF ShowInv, TodoPart
<1>4. /\ Head(todo) \in ToSet(todo) /\ todo' \in Seq(QueueId) /\ IsInjective(todo')
      /\ ToSet(todo') = ToSet(todo) \ {Head(todo)}
  BY <1>1, <1>3, TailOfSet
<1>5. TodoPart'  BY <1>1, <1>3, <1>4 DEF ShowInv, TodoPart
<1>6. LinePart' /\ HandlerNotShown' /\ StillPart'
  BY <1>1, PcbAssumption DEF ShowInv, LinePart, HandlerNotShown, StillPart, InQueue
<1>7. WalkPart'
  <2> SUFFICES ASSUME cmdline \in Walks, tidy, NEW p \in still
               PROVE  times[p] = IF Shown(p)' THEN 1 ELSE 0
    BY <1>1 DEF WalkPart
  <2>1. Shown(p)' <=> Selector(st[p]) \in ToSet(QueuesOf(cmdline)) \ ToSet(todo')
    BY <1>1 DEF Shown
  <2>2. CASE Selector(st[p]) = Head(todo)  BY <1>3, <1>4, <2>1, <2>2
                                           DEF ShowInv, WalkPart
  <2>3. CASE Selector(st[p]) # Head(todo)
    <3>1. Shown(p) <=> Shown(p)'  BY <1>4, <2>1, <2>3 DEF Shown
    <3> QED BY <3>1 DEF ShowInv, WalkPart
  <2> QED BY <2>2, <2>3
<1> QED BY <1>2, <1>5, <1>6, <1>7 DEF ShowInv

(* The next PCB of a queue: it has not been shown, and all before it have. *)
LEMMA OnePcb ==
  ASSUME ShowInv, HeldAlive, todo # <<>>, NEW n, Visit(n, todo),
         \E id \in QueueId : n \in ToSet(queues[id]), running = ComhandPcb,
         cmdline \in Walks /\ tidy =>
           /\ n \in ToSet(queues[Head(todo)]) /\ ~Shown(n)
           /\ \A p \in still : p # n /\ Selector(st[p]) = Head(todo) =>
                (Before(queues[Head(todo)], p, n) <=> Shown(p))
  PROVE  ShowInv'
<1>1. n \in Pcb /\ n # ComhandPcb /\ n # NoPcb
  BY QueuedFacts, PcbAssumption DEF ShowInv, QueuesRight
<1>2. /\ iter' = n /\ todo' = todo /\ UNCHANGED vars
      /\ times' = [times EXCEPT ![n] = IF @ = 2 THEN 2 ELSE @ + 1]
      /\ UNCHANGED <<cmdline, still, tidy, queues, st, allocated, running, pc>>
  BY <1>1 DEF Visit, vars, ghost
<1>3. FullInv'  BY <1>2, NextFull DEF ShowInv
<1>4. times' \in [Pcb -> 0..2]  BY <1>1, <1>2 DEF ShowInv, TodoPart
<1>5. TodoPart'  BY <1>1, <1>2, <1>4 DEF ShowInv, TodoPart
<1>6. LinePart' /\ HandlerNotShown' /\ StillPart'
  BY <1>1, <1>2 DEF ShowInv, LinePart, HandlerNotShown, StillPart, InQueue
<1>7. WalkPart'
  <2> SUFFICES ASSUME cmdline \in Walks, tidy
               PROVE  /\ InQueue(n) /\ Selector(st[n]) = Head(todo)
                      /\ \A p \in still : times'[p] = IF Shown(p)' THEN 1 ELSE 0
    BY <1>2 DEF WalkPart, InQueue
  <2>1. Head(todo) \in ToSet(todo) /\ Head(todo) \in QueueId
    BY TailOfSet DEF ShowInv, TodoPart
  <2>2. InQueue(n) /\ Selector(st[n]) = Head(todo)
    BY <2>1, QueuedFacts DEF ShowInv, QueuesRight
  <2>3. ASSUME NEW p \in still PROVE times'[p] = IF Shown(p)' THEN 1 ELSE 0
    <3>1. p \in Pcb /\ times[p] = IF Shown(p) THEN 1 ELSE 0
      BY <2>3 DEF ShowInv, TodoPart, WalkPart
    <3>2. Shown(p)' <=> \/ Selector(st[p]) \in ToSet(QueuesOf(cmdline)) \ ToSet(todo)
                        \/ /\ Selector(st[p]) = Head(todo)
                           /\ p = n \/ Before(queues[Head(todo)], p, n)
      BY <1>1, <1>2 DEF Shown
    <3>3. CASE p = n
      <4>1. times[p] = 0 /\ Shown(p)'  BY <2>2, <3>1, <3>2, <3>3
      <4>2. times'[p] = 1  BY <1>2, <3>1, <3>3, <4>1 DEF ShowInv, TodoPart
      <4> QED BY <4>1, <4>2
    <3>4. CASE p # n
      <4>1. times'[p] = times[p]  BY <1>2, <3>1, <3>4 DEF ShowInv, TodoPart
      <4>2. Shown(p)' <=> Shown(p)
        <5>1. CASE Selector(st[p]) = Head(todo)  BY <2>1, <3>2, <3>4, <5>1
        <5>2. CASE Selector(st[p]) # Head(todo)  BY <3>2, <5>2 DEF Shown
        <5> QED BY <5>1, <5>2
      <4> QED BY <3>1, <4>1, <4>2
    <3> QED BY <3>3, <3>4
  <2> QED BY <2>2, <2>3
<1> QED BY <1>3, <1>5, <1>6, <1>7 DEF ShowInv

-----------------------------------------------------------------------------
(* One lemma for each step of the commands. *)
LEMMA StartQueueKeeps == ASSUME ShowInv, HeldAlive, StartQueue PROVE ShowInv'
<1> DEFINE q == queues[Head(todo)]
<1>1. /\ running = ComhandPcb /\ iter = NoPcb /\ todo # <<>>
      /\ IF HeadOf(Head(todo)) = NoPcb THEN Visit(NoPcb, Tail(todo))
                                       ELSE Visit(HeadOf(Head(todo)), todo)
  BY DEF StartQueue, Showing
<1>2. Head(todo) \in ToSet(todo) /\ Head(todo) \in QueueId
  BY <1>1, TailOfSet DEF ShowInv, TodoPart
<1>3. QueuesRight  BY QueuedFacts DEF ShowInv
<1>4. IsInjective(q) /\ q \in Seq(Pcb)  BY <1>2, <1>3 DEF QueuesRight
<1>5. \A p : Selector(st[p]) = Head(todo) => ~Shown(p)  BY <1>1, <1>2 DEF Shown
<1>6. CASE q = <<>>
  <2>1. \A p \in still : Selector(st[p]) # Head(todo)
    <3> SUFFICES ASSUME NEW p \in still, Selector(st[p]) = Head(todo) PROVE FALSE
      OBVIOUS
    <3>1. p \in allocated /\ InQueue(p)  BY DEF ShowInv, StillPart, InQueue
    <3>2. p \in ToSet(q)  BY <1>3, <3>1 DEF QueuesRight
    <3> QED BY <1>6, <3>2 DEF ToSet
  <2>2. Visit(NoPcb, Tail(todo))  BY <1>1, <1>6 DEF HeadOf
  <2> QED BY <1>1, <2>1, <2>2, EndQueue
<1>7. CASE q # <<>>
  <2>1. Head(q) \in ToSet(q) /\ \A a : ~Before(q, a, Head(q))  BY <1>4, <1>7, HeadFirst
  <2> DEFINE n == Head(q)
  <2>2. n \in Pcb /\ n # NoPcb /\ Selector(st[n]) = Head(todo)
    BY <1>2, <1>3, <2>1, PcbAssumption DEF QueuesRight
  <2>3. Visit(n, todo)  BY <1>1, <1>7, <2>2 DEF HeadOf
  <2>4. ~Shown(n)  BY <1>5, <2>2
  <2>5. \E id \in QueueId : n \in ToSet(queues[id])  BY <1>2, <2>1
  <2> HIDE DEF n
  <2>6. n \in ToSet(q) /\ \A a : ~Before(q, a, n)  BY <2>1 DEF n
  <2> QED BY <1>1, <1>5, <2>3, <2>4, <2>5, <2>6, OnePcb
<1> QED BY <1>6, <1>7

(* A walk that went on from its own queue stays in it. *)
LEMMA StepOnKeeps == ASSUME ShowInv, HeldAlive, StepOn PROVE ShowInv'
<1> DEFINE q == queues[Head(todo)]
<1>1. /\ running = ComhandPcb /\ iter # NoPcb /\ todo # <<>> /\ mode = "run"
      /\ \/ NextOf(iter) # NoPcb /\ Visit(NextOf(iter), todo)
         \/ NextOf(iter) = NoPcb /\ Visit(NoPcb, Tail(todo))
         \/ Panic /\ UNCHANGED <<walk, ghost>>
  BY DEF StepOn, Showing
<1>2. Head(todo) \in ToSet(todo) /\ Head(todo) \in QueueId
  BY <1>1, TailOfSet DEF ShowInv, TodoPart
<1>3. QueuesRight  BY QueuedFacts DEF ShowInv
<1>4. IsInjective(q) /\ q \in Seq(Pcb)  BY <1>2, <1>3 DEF QueuesRight
<1>5. Len(q) \in Nat /\ DOMAIN q = 1..Len(q)  BY <1>4, LenProperties
<1>6. \A p : Selector(st[p]) = Head(todo) =>
             (Shown(p) <=> p = iter \/ Before(q, p, iter))
  BY <1>1, <1>2 DEF Shown
<1>7. ASSUME cmdline \in Walks, tidy
      PROVE  \E k \in 1..Len(q) : /\ q[k] = iter
                                  /\ NextOf(iter) = IF k = Len(q) THEN NoPcb ELSE q[k + 1]
  <2>1. iter \in allocated /\ InQueue(iter) /\ Selector(st[iter]) = Head(todo)
    BY <1>1, <1>7 DEF ShowInv, WalkPart, InQueue
  <2>2. iter \in ToSet(q)  BY <1>3, <2>1 DEF QueuesRight
  <2>3. PICK k \in 1..Len(q) : q[k] = iter  BY <1>5, <2>2 DEF ToSet
  <2>4. NextOf(q[k]) = IF k = Len(q) THEN NoPcb ELSE q[k + 1]
    BY <1>2, NextOfPlace DEF ShowInv
  <2> QED BY <2>3, <2>4
<1>8. CASE NextOf(iter) # NoPcb /\ Visit(NextOf(iter), todo)
  <2> DEFINE n == NextOf(iter)
  <2>1. \E id \in QueueId : n \in ToSet(queues[id])  BY <1>8, NextQueued DEF ShowInv
  <2>2. ASSUME cmdline \in Walks, tidy
        PROVE  /\ n \in ToSet(q) /\ ~Shown(n)
               /\ \A p \in still : p # n /\ Selector(st[p]) = Head(todo) =>
                    (Before(q, p, n) <=> Shown(p))
    <3>1. PICK k \in 1..Len(q) : /\ q[k] = iter
                                 /\ n = IF k = Len(q) THEN NoPcb ELSE q[k + 1]
      BY <1>7, <2>2
    <3>2. k # Len(q) /\ n = q[k + 1]  BY <1>8, <3>1
    <3>3. /\ n \in ToSet(q) /\ n # iter /\ ~Before(q, n, iter)
          /\ \A a : Before(q, a, n) <=> a = iter \/ Before(q, a, iter)
      <4>1. /\ q[k + 1] \in ToSet(q) /\ q[k + 1] # q[k] /\ ~Before(q, q[k + 1], q[k])
            /\ \A a : Before(q, a, q[k + 1]) <=> a = q[k] \/ Before(q, a, q[k])
        BY <1>4, <3>2, NextFirst
      <4>2. q[k] = iter /\ n = q[k + 1]  BY <3>1, <3>2
      <4> QED BY ONLY <4>1, <4>2
    <3>4. Selector(st[n]) = Head(todo)  BY <1>2, <1>3, <3>3 DEF QueuesRight
    <3> QED BY <1>6, <3>3, <3>4
  <2> HIDE DEF n
  <2>3. Visit(n, todo)  BY <1>8 DEF n
  <2> QED BY <1>1, <2>1, <2>2, <2>3, OnePcb
<1>9. CASE NextOf(iter) = NoPcb /\ Visit(NoPcb, Tail(todo))
  <2>1. ASSUME cmdline \in Walks, tidy, NEW p \in still, Selector(st[p]) = Head(todo)
        PROVE  Shown(p)
    <3>1. PICK k \in 1..Len(q) : /\ q[k] = iter
                                 /\ NextOf(iter) = IF k = Len(q) THEN NoPcb ELSE q[k + 1]
      BY <1>7, <2>1
    <3>2. k = Len(q)
      <4> SUFFICES ASSUME k # Len(q) PROVE FALSE  OBVIOUS
      <4>1. q[k + 1] = NoPcb  BY <1>9, <3>1
      <4>2. q[k + 1] \in ToSet(q)  BY <1>4, NextFirst
      <4> QED BY <1>2, <1>3, <4>1, <4>2, PcbAssumption DEF QueuesRight
    <3>3. p \in ToSet(q)
      <4>1. p \in allocated /\ InQueue(p)  BY <2>1 DEF ShowInv, StillPart, InQueue
      <4> QED BY <1>3, <2>1, <4>1 DEF QueuesRight
    <3>4. p = iter \/ Before(q, p, iter)  BY <1>4, <3>1, <3>2, <3>3, NextFirst
    <3> QED BY <1>6, <2>1, <3>4
  <2> QED BY <1>1, <1>9, <2>1, EndQueue
<1>10. CASE Panic /\ UNCHANGED <<walk, ghost>>
  <2>1. UNCHANGED <<queues, st, allocated, pc, cmdline, todo, iter, times, still, tidy, dcb, held>>
    BY <1>10 DEF Panic, sched, heap, cmd, walk, ghost
  <2>2. FullInv'
    <3>1. BaseInv' /\ QueueInv'
      BY <1>1, <1>10, PanicBase, PanicQueue DEF ShowInv, FullInv
    <3>2. StalePart' /\ HeldPart'
      BY <2>1 DEF ShowInv, FullInv, StalePart, HeldPart, Ahead
    <3> QED BY <3>1, <3>2 DEF FullInv
  <2>3. LinePart' /\ TodoPart' /\ HandlerNotShown' /\ StillPart'
    BY <2>1 DEF ShowInv, LinePart, TodoPart, HandlerNotShown, StillPart, InQueue
  <2>4. WalkPart'  BY <2>1 DEF ShowInv, WalkPart, Shown, InQueue
  <2> QED BY <2>2, <2>3, <2>4 DEF ShowInv
<1> QED BY <1>1, <1>8, <1>9, <1>10

(* A command begins with all of its queues to walk. *)
LEMMA BeginKeeps == ASSUME ShowInv, HeldAlive, ShowQueues \/ ShowOne PROVE ShowInv'
<1>1. PICK c \in ShowCommands, p \in Pcb \cup {NoPcb}, n \in {1, 1 + Writes} :
        /\ Begin(c, QueuesOf(c), p, n)
        /\ c # "ShowPcb" => p = NoPcb
        /\ p # NoPcb => Queued(queues, p)
  <2>1. CASE ShowQueues  BY <2>1 DEF ShowQueues
  <2>2. CASE ShowOne
    <3>1. PICK p \in Pcb : Queued(queues, p) /\ Begin("ShowPcb", <<>>, p, 1 + Writes)
      BY <2>2 DEF ShowOne
    <3>2. "ShowPcb" \in ShowCommands  BY <3>1 DEF Begin
    <3> QED BY <3>1, <3>2, QueuesOfFacts
  <2> QED BY <2>1, <2>2
<1>2. /\ cmdline' = c /\ todo' = QueuesOf(c) /\ iter' = p /\ pc = "line" /\ running = ComhandPcb
      /\ times' = [x \in Pcb |-> 0] /\ still' = {x \in allocated : Queued(queues, x)}
      /\ tidy' = TRUE /\ UNCHANGED vars
      /\ UNCHANGED <<queues, st, allocated, running, pc>>
  BY <1>1 DEF Begin, vars
<1>3. c \in Walks \cup {"ShowPcb"} /\ (c \in Walks => p = NoPcb)
  BY <1>1, ShowAssumption DEF Walks
<1>4. QueuesRight  BY QueuedFacts DEF ShowInv
<1>5. FullInv'  BY <1>2, NextFull DEF ShowInv
<1>6. LinePart'  BY <1>2 DEF LinePart
<1>7. TodoPart'
  <2>1. QueuesOf(c) \in Seq(QueueId) /\ IsInjective(QueuesOf(c))  BY <1>3, QueuesOfSets
  <2>2. still' \in SUBSET Pcb  BY <1>2, <1>4 DEF QueuesRight
  <2> QED BY <1>2, <1>3, <2>1, <2>2 DEF TodoPart
<1>8. HandlerNotShown'
  <2>1. p # ComhandPcb
    BY <1>1, <1>2, <1>4, PcbAssumption DEF QueuesRight, Queued
  <2> QED BY <1>2, <2>1 DEF HandlerNotShown
<1>9. StillPart'
  <2>1. \A x \in still' : InQueue(x)  BY <1>2, <1>4 DEF QueuesRight, Queued
  <2> QED BY <1>2, <2>1 DEF StillPart, InQueue
<1>10. WalkPart'
  <2>1. c \in Walks => \A x \in still' : ~Shown(x)'  BY <1>2, <1>3 DEF Shown
  <2>2. \A x \in still' : times'[x] = 0  BY <1>2, <1>4 DEF QueuesRight
  <2> QED BY <1>2, <1>3, <2>1, <2>2 DEF WalkPart
<1> QED BY <1>5, <1>6, <1>7, <1>8, <1>9, <1>10 DEF ShowInv

(* The end of a command: back to the menu. *)
LEMMA ShowEndKeeps == ASSUME ShowInv, ShowEnd PROVE ShowInv'
<1>1. /\ mode = "run" /\ cmdline # "none" /\ todo = <<>> /\ todo' = <<>> /\ cmdline' = "none"
      /\ iter' = NoPcb /\ times' = [p \in Pcb |-> 0] /\ still' = {} /\ tidy' = TRUE
      /\ pc = "line" /\ pc' = "menu"
      /\ UNCHANGED <<queues, st, running, name, allocated, mode, origin, dcb, held, loading, loads>>
  BY DEF ShowEnd, Showing, sched, heap, ShowInv, LinePart
<1>2. BaseInv'
  BY <1>1 DEF ShowInv, FullInv, BaseInv, SchedPart, HeapPart, DcbPart, CmdPart, ModePart, Asleep
<1>3. QueueInv'
  BY <1>1 DEF ShowInv, FullInv, QueueInv, QueuesSound, RunningRight, OwnPart, CallPart, InCall
<1>4. StalePart' /\ HeldPart'
  BY <1>1 DEF ShowInv, FullInv, StalePart, HeldPart, AtWork
<1>5. TodoPart'
  BY <1>1, QueuesOfFacts DEF ShowInv, TodoPart
<1>6. LinePart' /\ HandlerNotShown' /\ StillPart' /\ WalkPart'
  BY <1>1, PcbAssumption DEF LinePart, HandlerNotShown, StillPart, WalkPart, Walks
<1> QED BY <1>2, <1>3, <1>4, <1>5, <1>6 DEF ShowInv, FullInv

-----------------------------------------------------------------------------
LEMMA InitShow == ShowInit => ShowInv
<1> SUFFICES ASSUME ShowInit PROVE ShowInv
  OBVIOUS
<1>1. /\ cmdline = "none" /\ todo = <<>> /\ iter = NoPcb /\ times = [p \in Pcb |-> 0]
      /\ still = {} /\ tidy = TRUE /\ FullInv
  BY InitFull DEF ShowInit
<1>2. TodoPart
  <2>1. <<>> \in Seq(QueueId) /\ QueuesOf("none") = <<>>  BY QueuesOfFacts
  <2>2. IsInjective(<<>>)  BY DEF IsInjective
  <2> QED BY <1>1, <2>1, <2>2 DEF TodoPart, ToSet
<1>3. LinePart /\ HandlerNotShown /\ StillPart /\ WalkPart
  BY <1>1, PcbAssumption DEF LinePart, HandlerNotShown, StillPart, WalkPart, Walks
<1> QED BY <1>1, <1>2, <1>3 DEF ShowInv

LEMMA NextShow == ShowInv /\ HeldAlive /\ [ShowNext]_svars => ShowInv'
<1> SUFFICES ASSUME ShowInv, HeldAlive, [ShowNext]_svars PROVE ShowInv'
  OBVIOUS
<1>1. CASE ShowNext
  BY <1>1, KernelShow, BeginKeeps, StartQueueKeeps, StepOnKeeps, ShowEndKeeps DEF ShowNext
<1>2. CASE UNCHANGED svars
  <2>1. FullInv'  BY <1>2, NextFull DEF ShowInv, svars
  <2>2. LinePart' /\ TodoPart' /\ HandlerNotShown' /\ StillPart' /\ WalkPart'
    BY <1>2 DEF ShowInv, svars, vars, walk, ghost, LinePart, TodoPart, HandlerNotShown,
                StillPart, WalkPart, InQueue, Shown
  <2> QED BY <2>1, <2>2 DEF ShowInv
<1> QED BY <1>1, <1>2

(* The command handler never shows itself, nor goes on from its own PCB,     *)
(* whatever the processes do during its WRITEs: it follows the queues only   *)
(* while it is the running process.                                          *)
THEOREM HandlerHidden == ShowSpec /\ []HeldAlive => []HandlerNotShown
<1>1. ShowInv => HandlerNotShown  BY DEF ShowInv
<1> QED BY InitShow, <1>1, NextShow, PTL DEF ShowSpec

LEMMA ShowsOnce == ShowInv => RestShownOnce
<1> SUFFICES ASSUME ShowInv, cmdline \notin {"none", "ShowPcb"}, todo = <<>>, tidy, NEW p \in still
             PROVE  times[p] <= 1 /\ (cmdline = "ShowAll" => times[p] = 1)
  BY DEF RestShownOnce
<1>1. cmdline \in Walks  BY DEF ShowInv, TodoPart
<1>2. iter = NoPcb /\ times[p] = IF Shown(p) THEN 1 ELSE 0
  BY <1>1 DEF ShowInv, WalkPart
<1>3. Shown(p) <=> Selector(st[p]) \in ToSet(QueuesOf(cmdline))
  BY <1>2 DEF Shown, ToSet
<1>4. p \in allocated /\ InQueue(p)  BY DEF ShowInv, StillPart, InQueue
<1>5. Selector(st[p]) \in QueueId
  BY <1>4, QueuedFacts DEF ShowInv, QueuesRight, States
<1>6. times[p] <= 1  BY <1>2
<1>7. ASSUME cmdline = "ShowAll" PROVE times[p] = 1
  <2>1. ToSet(QueuesOf(cmdline)) = QueueId  BY <1>1, <1>7, QueuesOfSets
  <2> QED BY <1>2, <1>3, <1>5, <2>1
<1> QED BY <1>6, <1>7

(* A walk over all queues that is not disturbed at the PCB it stands on      *)
(* shows every process that stayed in its queue exactly once, though at each *)
(* of its WRITEs the others enter and leave the queues it follows; a walk    *)
(* over some of them shows none twice.                                       *)
THEOREM EachShownOnce == ShowSpec /\ []HeldAlive => []RestShownOnce
BY InitShow, ShowsOnce, NextShow, PTL DEF ShowSpec
=============================================================================
