-------------------------- MODULE PcbQueuesProofs --------------------------
(* What pcb_insert and pcb_remove do to the contents of the four queues, for *)
(* queues of every length.                                                   *)
EXTENDS PcbQueues, SequenceTheorems, FiniteSetTheorems, WellFoundedInduction, TLAPS

(* A set of numbers that is not empty has its minimum (Min is a CHOOSE): the *)
(* intervals from 0 to its members are well-founded under strict inclusion.  *)
LEMMA MinIsLeast ==
  ASSUME NEW S \in SUBSET Nat, S # {}
  PROVE  Min(S) \in S /\ \A y \in S : Min(S) <= y
<1> DEFINE T == {0..x : x \in S}
<1>1. T \subseteq FiniteSubsetsOf(Nat) /\ T # {}
  <2>1. \A x \in S : IsFiniteSet(0..x) /\ 0..x \subseteq Nat
    BY FS_Interval
  <2> QED BY <2>1 DEF FiniteSubsetsOf
<1>2. \E I \in T : \A J \in T : <<J, I>> \notin StrictSubsetOrdering(Nat)
  BY <1>1, FS_StrictSubsetOrderingWellFounded, WFMin
<1>3. PICK x \in S : \A y \in S : <<0..y, 0..x>> \notin StrictSubsetOrdering(Nat)
  BY <1>2
<1>4. \A y \in S : x <= y
  <2> SUFFICES ASSUME NEW y \in S, y < x PROVE FALSE
    OBVIOUS
  <2>1. 0..y \subseteq 0..x /\ x \in 0..x /\ x \notin 0..y  OBVIOUS
  <2>2. 0..y \in SUBSET Nat /\ 0..x \in SUBSET Nat  OBVIOUS
  <2>3. 0..y # 0..x  BY <2>1
  <2> QED BY <1>3, <2>1, <2>2, <2>3 DEF StrictSubsetOrdering
<1> QED BY <1>4 DEF Min

(* RemoveAt drops the element at k and keeps the others in order. *)
LEMMA RemoveAtProperties ==
  ASSUME NEW T, NEW q \in Seq(T), NEW k \in 1..Len(q)
  PROVE  /\ RemoveAt(q, k) \in Seq(T)
         /\ Len(RemoveAt(q, k)) = Len(q) - 1
         /\ \A i \in 1..(Len(q) - 1) :
              RemoveAt(q, k)[i] = IF i < k THEN q[i] ELSE q[i + 1]
<1> DEFINE a == SubSeq(q, 1, k - 1)
           b == SubSeq(q, k + 1, Len(q))
<1>0. Len(q) \in Nat /\ \A i \in 1..Len(q) : q[i] \in T
  BY LenProperties, ElementOfSeq
<1>1. /\ a \in Seq(T) /\ Len(a) = k - 1
      /\ \A i \in 1..(k - 1) : a[i] = q[i]
  BY <1>0, SubSeqProperties
<1>2. /\ b \in Seq(T) /\ Len(b) = Len(q) - k
      /\ \A i \in 1..(Len(q) - k) : b[i] = q[k + i]
  <2>1. \A i \in (k + 1)..Len(q) : q[i] \in T  BY <1>0
  <2>2. /\ b \in Seq(T)
        /\ Len(b) = IF k + 1 <= Len(q) THEN Len(q) - (k + 1) + 1 ELSE 0
        /\ \A i \in 1..(Len(q) - (k + 1) + 1) : b[i] = q[(k + 1) + i - 1]
    BY <1>0, <2>1, SubSeqProperties
  <2> QED BY <1>0, <2>2
<1>3. /\ a \o b \in Seq(T)
      /\ Len(a \o b) = Len(a) + Len(b)
      /\ \A i \in 1..(Len(a) + Len(b)) :
           (a \o b)[i] = IF i <= Len(a) THEN a[i] ELSE b[i - Len(a)]
  BY <1>1, <1>2, ConcatProperties
<1> HIDE DEF a, b
<1>4. RemoveAt(q, k) = a \o b  BY DEF RemoveAt, a, b
<1>5. \A i \in 1..(Len(q) - 1) : (a \o b)[i] = IF i < k THEN q[i] ELSE q[i + 1]
  <2> SUFFICES ASSUME NEW i \in 1..(Len(q) - 1)
               PROVE  (a \o b)[i] = IF i < k THEN q[i] ELSE q[i + 1]
    OBVIOUS
  <2>1. CASE i < k  BY <2>1, <1>0, <1>1, <1>2, <1>3
  <2>2. CASE ~(i < k)
    <3>1. i - (k - 1) \in 1..(Len(q) - k)  BY <2>2, <1>0
    <3>2. k + (i - (k - 1)) = i + 1  BY <1>0
    <3>3. (a \o b)[i] = b[i - (k - 1)]  BY <2>2, <1>0, <1>1, <1>2, <1>3
    <3>4. b[i - (k - 1)] = q[k + (i - (k - 1))]  BY <3>1, <1>2
    <3> QED BY <2>2, <3>2, <3>3, <3>4
  <2> QED BY <2>1, <2>2
<1>6. Len(a \o b) = Len(q) - 1  BY <1>0, <1>1, <1>2, <1>3
<1> QED BY <1>3, <1>4, <1>5, <1>6

(* InsertAt puts e at position k and moves the later elements up. *)
LEMMA InsertAtProperties ==
  ASSUME NEW T, NEW q \in Seq(T), NEW k \in 1..(Len(q) + 1), NEW e \in T
  PROVE  /\ InsertAt(q, k, e) \in Seq(T)
         /\ Len(InsertAt(q, k, e)) = Len(q) + 1
         /\ \A i \in 1..(Len(q) + 1) :
              InsertAt(q, k, e)[i] =
                IF i < k THEN q[i] ELSE IF i = k THEN e ELSE q[i - 1]
<1> DEFINE a == SubSeq(q, 1, k - 1)
           c == a \o <<e>>
           b == SubSeq(q, k, Len(q))
<1>0. Len(q) \in Nat /\ \A i \in 1..Len(q) : q[i] \in T
  BY LenProperties, ElementOfSeq
<1>1. /\ a \in Seq(T) /\ Len(a) = k - 1
      /\ \A i \in 1..(k - 1) : a[i] = q[i]
  BY <1>0, SubSeqProperties
<1>2. /\ b \in Seq(T) /\ Len(b) = Len(q) - k + 1
      /\ \A i \in 1..(Len(q) - k + 1) : b[i] = q[k + i - 1]
  <2>1. \A i \in k..Len(q) : q[i] \in T  BY <1>0
  <2>2. /\ b \in Seq(T)
        /\ Len(b) = IF k <= Len(q) THEN Len(q) - k + 1 ELSE 0
        /\ \A i \in 1..(Len(q) - k + 1) : b[i] = q[k + i - 1]
    BY <1>0, <2>1, SubSeqProperties
  <2> QED BY <1>0, <2>2
<1>3. <<e>> \in Seq(T) /\ Len(<<e>>) = 1 /\ <<e>>[1] = e
  OBVIOUS
<1> HIDE DEF a
<1>4. /\ c \in Seq(T) /\ Len(c) = k
      /\ \A i \in 1..k : c[i] = IF i < k THEN q[i] ELSE e
  <2>1. /\ c \in Seq(T) /\ Len(c) = Len(a) + Len(<<e>>)
        /\ \A i \in 1..(Len(a) + Len(<<e>>)) :
             c[i] = IF i <= Len(a) THEN a[i] ELSE <<e>>[i - Len(a)]
    BY <1>1, <1>3, ConcatProperties
  <2> QED BY <1>0, <1>1, <1>3, <2>1
<1> HIDE DEF b, c
<1>5. /\ c \o b \in Seq(T)
      /\ Len(c \o b) = Len(c) + Len(b)
      /\ \A i \in 1..(Len(c) + Len(b)) :
           (c \o b)[i] = IF i <= Len(c) THEN c[i] ELSE b[i - Len(c)]
  BY <1>2, <1>4, ConcatProperties
<1>6. InsertAt(q, k, e) = c \o b  BY DEF InsertAt, a, b, c
<1>7. \A i \in 1..(Len(q) + 1) :
        (c \o b)[i] = IF i < k THEN q[i] ELSE IF i = k THEN e ELSE q[i - 1]
  <2> SUFFICES ASSUME NEW i \in 1..(Len(q) + 1)
               PROVE  (c \o b)[i] = IF i < k THEN q[i]
                                     ELSE IF i = k THEN e ELSE q[i - 1]
    OBVIOUS
  <2>1. CASE i <= k  BY <2>1, <1>0, <1>2, <1>4, <1>5
  <2>2. CASE ~(i <= k)
    <3>1. i - k \in 1..(Len(q) - k + 1)  BY <2>2, <1>0
    <3>2. k + (i - k) - 1 = i - 1  BY <1>0
    <3>3. (c \o b)[i] = b[i - k]  BY <2>2, <1>0, <1>2, <1>4, <1>5
    <3>4. b[i - k] = q[k + (i - k) - 1]  BY <3>1, <1>2
    <3> QED BY <2>2, <3>2, <3>3, <3>4
  <2> QED BY <2>1, <2>2
<1>8. Len(c \o b) = Len(q) + 1  BY <1>0, <1>2, <1>4, <1>5
<1> QED BY <1>5, <1>6, <1>7, <1>8

(* RemoveFirst takes out one element, at the first place it has. *)
LEMMA RemoveFirstIsRemoveAt ==
  ASSUME NEW T, NEW q \in Seq(T), NEW e
  PROVE  /\ e \notin ToSet(q) => RemoveFirst(q, e) = q
         /\ e \in ToSet(q) => \E k \in 1..Len(q) :
                                q[k] = e /\ RemoveFirst(q, e) = RemoveAt(q, k)
<1>0. Len(q) \in Nat /\ DOMAIN q = 1..Len(q)
  BY LenProperties
<1>1. CASE e \notin ToSet(q)
  <2>1. ~\E i \in 1..Len(q) : q[i] = e  BY <1>0, <1>1 DEF ToSet
  <2> QED BY <1>1, <2>1 DEF RemoveFirst
<1>2. CASE e \in ToSet(q)
  <2> DEFINE I == {i \in 1..Len(q) : q[i] = e}
  <2>1. I \in SUBSET Nat /\ I # {}  BY <1>0, <1>2 DEF ToSet
  <2>2. Min(I) \in I  BY <2>1, MinIsLeast
  <2>3. \E i \in 1..Len(q) : q[i] = e  BY <2>1
  <2>4. SelectInSeq(q, LAMBDA v : v = e) = Min(I)  BY <2>1 DEF SelectInSeq
  <2>5. RemoveFirst(q, e) = RemoveAt(q, Min(I))  BY <2>3, <2>4 DEF RemoveFirst
  <2> QED BY <1>2, <2>2, <2>5
<1> QED BY <1>1, <1>2

(* What is left is a queue of the same PCBs. *)
LEMMA RemoveFirstType ==
  ASSUME NEW T, NEW q \in Seq(T), NEW e
  PROVE  RemoveFirst(q, e) \in Seq(T)
BY RemoveFirstIsRemoveAt, RemoveAtProperties

(* Of a queue without repetition, exactly e is removed. *)
LEMMA RemoveFirstSet ==
  ASSUME NEW T, NEW q \in Seq(T), IsInjective(q), NEW e
  PROVE  /\ IsInjective(RemoveFirst(q, e))
         /\ ToSet(RemoveFirst(q, e)) = ToSet(q) \ {e}
<1>0. Len(q) \in Nat /\ DOMAIN q = 1..Len(q)
  BY LenProperties
<1>1. CASE e \notin ToSet(q)
  BY <1>1, RemoveFirstIsRemoveAt
<1>2. CASE e \in ToSet(q)
  <2>1. PICK k \in 1..Len(q) : q[k] = e /\ RemoveFirst(q, e) = RemoveAt(q, k)
    BY <1>2, RemoveFirstIsRemoveAt
  <2> DEFINE r == RemoveAt(q, k)
  <2>2. /\ r \in Seq(T) /\ Len(r) = Len(q) - 1
        /\ \A i \in 1..(Len(q) - 1) : r[i] = IF i < k THEN q[i] ELSE q[i + 1]
    BY RemoveAtProperties
  <2>3. DOMAIN r = 1..(Len(q) - 1)  BY <2>2, LenProperties
  <2> HIDE DEF r
  <2>4. \A i, j \in 1..Len(q) : q[i] = q[j] => i = j
    BY <1>0 DEF IsInjective
  <2>5. IsInjective(r)
    <3> SUFFICES ASSUME NEW i \in 1..(Len(q) - 1), NEW j \in 1..(Len(q) - 1), r[i] = r[j]
                 PROVE  i = j
      BY <2>3 DEF IsInjective
    <3>1. i \in 1..Len(q) /\ i + 1 \in 1..Len(q) /\ j \in 1..Len(q) /\ j + 1 \in 1..Len(q)
      BY <1>0
    <3> QED BY <1>0, <2>2, <2>4, <3>1
  <2>6. ASSUME NEW x \in ToSet(r) PROVE x \in ToSet(q) \ {e}
    <3>1. PICK i \in 1..(Len(q) - 1) : r[i] = x  BY <2>3 DEF ToSet
    <3>2. PICK j \in 1..Len(q) : j # k /\ q[j] = x
      <4>1. CASE i < k  BY <4>1, <3>1, <2>2, <1>0
      <4>2. CASE ~(i < k)  BY <4>2, <3>1, <2>2, <1>0
      <4> QED BY <4>1, <4>2
    <3>3. x # e  BY <2>1, <2>4, <3>2
    <3> QED BY <1>0, <3>2, <3>3 DEF ToSet
  <2>7. ASSUME NEW x \in ToSet(q) \ {e} PROVE x \in ToSet(r)
    <3>1. PICK j \in 1..Len(q) : q[j] = x  BY <1>0 DEF ToSet
    <3>2. j # k  BY <2>1, <3>1
    <3>3. PICK i \in 1..(Len(q) - 1) : r[i] = x
      <4>1. CASE j < k  BY <4>1, <3>1, <2>2, <1>0
      <4>2. CASE ~(j < k)
        <5>1. j - 1 \in 1..(Len(q) - 1) /\ ~(j - 1 < k) /\ (j - 1) + 1 = j
          BY <4>2, <3>2, <1>0
        <5>2. r[j - 1] = q[(j - 1) + 1]  BY <5>1, <2>2
        <5> QED BY <3>1, <5>1, <5>2
      <4> QED BY <4>1, <4>2
    <3> QED BY <2>3, <3>3 DEF ToSet
  <2>8. ToSet(r) = ToSet(q) \ {e}  BY <2>6, <2>7
  <2> QED BY <2>1, <2>5, <2>8 DEF r
<1> QED BY <1>1, <1>2

(* A queue without repetition keeps that when a new element is put in. *)
LEMMA InsertAtSet ==
  ASSUME NEW T, NEW q \in Seq(T), IsInjective(q), NEW k \in 1..(Len(q) + 1),
         NEW e \in T, e \notin ToSet(q)
  PROVE  /\ IsInjective(InsertAt(q, k, e))
         /\ ToSet(InsertAt(q, k, e)) = ToSet(q) \cup {e}
<1>0. Len(q) \in Nat /\ DOMAIN q = 1..Len(q)
  BY LenProperties
<1> DEFINE r == InsertAt(q, k, e)
<1>1. /\ r \in Seq(T) /\ Len(r) = Len(q) + 1
      /\ \A i \in 1..(Len(q) + 1) :
           r[i] = IF i < k THEN q[i] ELSE IF i = k THEN e ELSE q[i - 1]
  BY InsertAtProperties
<1>2. DOMAIN r = 1..(Len(q) + 1)  BY <1>1, LenProperties
<1> HIDE DEF r
<1>3. \A i, j \in 1..Len(q) : q[i] = q[j] => i = j
  BY <1>0 DEF IsInjective
<1>4. \A i \in 1..Len(q) : q[i] # e  BY <1>0 DEF ToSet
<1>5. IsInjective(r)
  <2> SUFFICES ASSUME NEW i \in 1..(Len(q) + 1), NEW j \in 1..(Len(q) + 1),
                      r[i] = r[j]
               PROVE  i = j
    BY <1>2 DEF IsInjective
  <2>1. i < k => i \in 1..Len(q)  BY <1>0
  <2>2. i > k => i - 1 \in 1..Len(q)  BY <1>0
  <2>3. j < k => j \in 1..Len(q)  BY <1>0
  <2>4. j > k => j - 1 \in 1..Len(q)  BY <1>0
  <2> QED BY <1>0, <1>1, <1>3, <1>4, <2>1, <2>2, <2>3, <2>4
<1>6. ASSUME NEW x \in ToSet(r) PROVE x \in ToSet(q) \cup {e}
  <2>1. PICK i \in 1..(Len(q) + 1) : r[i] = x  BY <1>2 DEF ToSet
  <2>2. CASE i < k  BY <2>1, <2>2, <1>0, <1>1 DEF ToSet
  <2>3. CASE i = k  BY <2>1, <2>3, <1>1
  <2>4. CASE i > k
    <3>1. i - 1 \in 1..Len(q)  BY <2>4, <1>0
    <3>2. q[i - 1] = x  BY <2>1, <2>4, <1>0, <1>1
    <3> QED BY <1>0, <3>1, <3>2 DEF ToSet
  <2> QED BY <2>2, <2>3, <2>4, <1>0
<1>7. ASSUME NEW x \in ToSet(q) \cup {e} PROVE x \in ToSet(r)
  <2>1. CASE x = e
    <3>1. r[k] = e /\ k \in 1..(Len(q) + 1)  BY <1>0, <1>1
    <3> QED BY <1>2, <2>1, <3>1 DEF ToSet
  <2>2. CASE x \in ToSet(q)
    <3>1. PICK j \in 1..Len(q) : q[j] = x  BY <2>2, <1>0 DEF ToSet
    <3>2. CASE j < k
      <4>1. j \in 1..(Len(q) + 1) /\ r[j] = x  BY <3>1, <3>2, <1>0, <1>1
      <4> QED BY <1>2, <4>1 DEF ToSet
    <3>3. CASE ~(j < k)
      <4>1. j + 1 \in 1..(Len(q) + 1) /\ ~(j + 1 < k) /\ j + 1 # k /\ (j + 1) - 1 = j
        BY <3>3, <1>0
      <4>2. r[j + 1] = q[(j + 1) - 1]  BY <4>1, <1>1
      <4> QED BY <1>2, <3>1, <4>1, <4>2 DEF ToSet
    <3> QED BY <3>2, <3>3
  <2> QED BY <2>1, <2>2
<1>8. ToSet(r) = ToSet(q) \cup {e}  BY <1>6, <1>7
<1> QED BY <1>5, <1>8 DEF r

-----------------------------------------------------------------------------
(* The queues as a whole, for any set P of PCBs.  PSTATE_QUEUE_SELECTOR is  *)
(* an index into pcb_queues for every state.                                *)
LEMMA SelectorType ==
  ASSUME NEW s \in PcbState
  PROVE  Selector(s) \in QueueId
BY DEF PcbState, Exec, Dpatch, Selector, QueueId

(* The place pcb_insert finds is in the list or right behind it. *)
LEMMA InsertPosRange ==
  ASSUME NEW P, NEW q \in Seq(P), NEW st \in [P -> PcbState], NEW p \in P
  PROVE  InsertPos(q, st, p) \in 1..(Len(q) + 1)
<1> DEFINE I == {i \in 1..Len(q) : st[p].pri < st[q[i]].pri} \cup {Len(q) + 1}
<1>1. Len(q) \in Nat  BY LenProperties
<1>2. I \in SUBSET Nat /\ I # {} /\ I \subseteq 1..(Len(q) + 1)  BY <1>1
<1>3. Min(I) \in I  BY <1>2, MinIsLeast
<1> QED BY <1>2, <1>3 DEF InsertPos

(* pcb_insert keeps the four queues well formed. *)
LEMMA InsertType ==
  ASSUME NEW P, NEW qs \in [QueueId -> Seq(P)], NEW st \in [P -> PcbState], NEW p \in P
  PROVE  pcb_insert(qs, st, p) \in [QueueId -> Seq(P)]
<1> DEFINE sel == Selector(st[p])
<1>1. sel \in QueueId  BY SelectorType
<1> HIDE DEF sel
<1>2. qs[sel] \in Seq(P)  BY <1>1
<1>3. InsertPos(qs[sel], st, p) \in 1..(Len(qs[sel]) + 1)  BY <1>2, InsertPosRange
<1>4. InsertAt(qs[sel], InsertPos(qs[sel], st, p), p) \in Seq(P)
  BY <1>2, <1>3, InsertAtProperties
<1>5. Append(qs[sel], p) \in Seq(P)  BY <1>2, AppendProperties
<1>6. pcb_insert(qs, st, p) =
        [qs EXCEPT ![sel] = IF IsPriority(sel)
                            THEN InsertAt(qs[sel], InsertPos(qs[sel], st, p), p)
                            ELSE Append(qs[sel], p)]
  BY <1>1 DEF pcb_insert, sel
<1> QED BY <1>4, <1>5, <1>6

(* pcb_remove keeps the four queues well formed. *)
LEMMA RemoveType ==
  ASSUME NEW P, NEW qs \in [QueueId -> Seq(P)], NEW st \in [P -> PcbState], NEW p \in P
  PROVE  pcb_remove(qs, st, p) \in [QueueId -> Seq(P)]
<1>1. Selector(st[p]) \in QueueId  BY SelectorType
<1>2. RemoveFirst(qs[Selector(st[p])], p) \in Seq(P)  BY <1>1, RemoveFirstType
<1> QED BY <1>1, <1>2 DEF pcb_remove

(* Removing a PCB in its queue, by the state it was queued with, takes out *)
(* that PCB and nothing else.                                              *)
LEMMA RemoveHolds ==
  ASSUME NEW P, NEW qs \in [QueueId -> Seq(P)], NEW st \in [P -> PcbState],
         NEW S \in SUBSET P, Holds(qs, st, S), NEW p \in S
  PROVE  Holds(pcb_remove(qs, st, p), st, S \ {p})
<1> DEFINE sel == Selector(st[p])
           r == pcb_remove(qs, st, p)
<1>1. sel \in QueueId  BY SelectorType
<1>2. /\ r \in [QueueId -> Seq(P)]
      /\ r[sel] = RemoveFirst(qs[sel], p)
      /\ \A i \in QueueId : i # sel => r[i] = qs[i]
  BY <1>1, RemoveType DEF pcb_remove
<1>3. IsInjective(r[sel]) /\ ToSet(r[sel]) = ToSet(qs[sel]) \ {p}
  BY <1>1, <1>2, RemoveFirstSet DEF Holds
<1>4. \A i \in QueueId : IsInjective(r[i])
  BY <1>2, <1>3 DEF Holds
<1>5. \A i \in QueueId : ToSet(r[i]) = ToSet(qs[i]) \ {p}
  <2>1. \A i \in QueueId : i # sel => p \notin ToSet(qs[i])
    BY DEF Holds
  <2> QED BY <1>2, <1>3, <2>1
<1> HIDE DEF r
<1>6. \A x \in S : Selector(st[x]) \in QueueId  BY SelectorType
<1> QED BY <1>4, <1>5, <1>6 DEF Holds, r

(* The queue a PCB enters gets it at one place; the others stay as they are. *)
Place(q, st, p) == IF IsPriority(Selector(st[p])) THEN InsertPos(q, st, p) ELSE Len(q) + 1

LEMMA InsertPlace ==
  ASSUME NEW P, NEW qs \in [QueueId -> Seq(P)], NEW st \in [P -> PcbState], NEW p \in P
  PROVE  LET sel == Selector(st[p])
             q   == qs[sel]
         IN  /\ Place(q, st, p) \in 1..(Len(q) + 1)
             /\ pcb_insert(qs, st, p)[sel] = InsertAt(q, Place(q, st, p), p)
             /\ \A i \in QueueId : i # sel => pcb_insert(qs, st, p)[i] = qs[i]
<1> DEFINE sel == Selector(st[p])
           q == qs[sel]
<1>1. sel \in QueueId /\ q \in Seq(P)  BY SelectorType
<1>2. /\ pcb_insert(qs, st, p)[sel] = IF IsPriority(sel) THEN InsertAt(q, InsertPos(q, st, p), p)
                                                        ELSE Append(q, p)
      /\ \A i \in QueueId : i # sel => pcb_insert(qs, st, p)[i] = qs[i]
  BY <1>1 DEF pcb_insert
<1> HIDE DEF q
<1>3. InsertPos(q, st, p) \in 1..(Len(q) + 1)  BY <1>1, InsertPosRange
<1>4. Append(q, p) = InsertAt(q, Len(q) + 1, p)
  <2>1. Len(q) \in Nat  BY <1>1, LenProperties
  <2>2. Append(q, p) = q \o <<p>>  BY <1>1, AppendIsConcat
  <2>3. SubSeq(q, 1, (Len(q) + 1) - 1) = q  BY <1>1, <2>1, SubSeqFull
  <2>4. SubSeq(q, Len(q) + 1, Len(q)) = <<>>  BY <2>1, SubSeqEmpty
  <2>5. q \o <<p>> \in Seq(P)  BY <1>1, ConcatProperties
  <2>6. (q \o <<p>>) \o <<>> = q \o <<p>>  BY <2>5, ConcatEmptySeq
  <2> QED BY <2>2, <2>3, <2>4, <2>6 DEF InsertAt
<1>5. Len(q) + 1 \in 1..(Len(q) + 1)  BY <1>1, LenProperties
<1>6. /\ Place(q, st, p) \in 1..(Len(q) + 1)
      /\ pcb_insert(qs, st, p)[sel] = InsertAt(q, Place(q, st, p), p)
  BY <1>2, <1>3, <1>4, <1>5 DEF Place
<1> QED BY <1>2, <1>6 DEF q

(* Inserting a PCB that is in no queue puts it in the queue of its state. *)
LEMMA InsertHolds ==
  ASSUME NEW P, NEW qs \in [QueueId -> Seq(P)], NEW st \in [P -> PcbState],
         NEW S \in SUBSET P, Holds(qs, st, S),
         NEW p \in P, p \notin S, st[p].exec # "RUNNING"
  PROVE  Holds(pcb_insert(qs, st, p), st, S \cup {p})
<1> DEFINE sel == Selector(st[p])
           q == qs[sel]
           r == pcb_insert(qs, st, p)
<1>1. sel \in QueueId  BY SelectorType
<1>2. q \in Seq(P) /\ IsInjective(q) /\ p \notin ToSet(q)
  BY <1>1 DEF Holds
<1>3. /\ Place(q, st, p) \in 1..(Len(q) + 1) /\ r[sel] = InsertAt(q, Place(q, st, p), p)
      /\ \A i \in QueueId : i # sel => r[i] = qs[i]
  BY InsertPlace
<1> HIDE DEF q, sel, r
<1>4. IsInjective(r[sel]) /\ ToSet(r[sel]) = ToSet(q) \cup {p}
  BY <1>2, <1>3, InsertAtSet
<1>5. \A i \in QueueId : IsInjective(r[i])
  BY <1>3, <1>4 DEF Holds
<1>6. \A i \in QueueId : ToSet(r[i]) = IF i = sel THEN ToSet(qs[i]) \cup {p} ELSE ToSet(qs[i])
  BY <1>3, <1>4 DEF q
<1>7. \A x \in S \cup {p} : Selector(st[x]) \in QueueId  BY SelectorType
<1>8. ASSUME NEW i \in QueueId, NEW x \in ToSet(r[i])
       PROVE  x \in S \cup {p} /\ st[x].exec # "RUNNING" /\ Selector(st[x]) = i
  <2>1. CASE x \in ToSet(qs[i])
    BY <2>1 DEF Holds
  <2>2. CASE i = sel /\ x = p
    BY <1>1, <2>2 DEF sel
  <2> QED BY <1>6, <1>8, <2>1, <2>2
<1>9. \A x \in S \cup {p} : x \in ToSet(r[Selector(st[x])])
  BY <1>6, <1>7 DEF Holds, sel
<1> QED BY <1>5, <1>8, <1>9 DEF Holds, r, sel

(* The state of a PCB outside the queues may change freely. *)
LEMMA ChangeHolds ==
  ASSUME NEW P, NEW qs \in [QueueId -> Seq(P)], NEW st, NEW st2,
         NEW S \in SUBSET P, Holds(qs, st, S), \A x \in S : st2[x] = st[x]
  PROVE  Holds(qs, st2, S)
BY DEF Holds

(* The head of a queue is one of the PCBs the queues hold. *)
LEMMA HeadHolds ==
  ASSUME NEW P, NEW qs \in [QueueId -> Seq(P)], NEW st, NEW S,
         Holds(qs, st, S), NEW i \in QueueId, qs[i] # <<>>
  PROVE  /\ Head(qs[i]) \in S \cap P
         /\ Selector(st[Head(qs[i])]) = i
         /\ st[Head(qs[i])].exec # "RUNNING"
<1>1. Head(qs[i]) \in P /\ Head(qs[i]) \in ToSet(qs[i])
  <2>1. Len(qs[i]) \in Nat \ {0} /\ DOMAIN qs[i] = 1..Len(qs[i])
    BY EmptySeq, LenProperties
  <2>2. Head(qs[i]) = qs[i][1]  BY <2>1
  <2>3. 1 \in 1..Len(qs[i])  BY <2>1
  <2> QED BY <2>1, <2>2, <2>3, ElementOfSeq DEF ToSet
<1> QED BY <1>1 DEF Holds
=============================================================================
