---------------------------- MODULE PcbListsProofs ----------------------------
(* The lists of pcb.c in memory, for any finite number of PCBs: the pointers *)
(* spell the queues of QueueCalls, and insertion and removal change them as  *)
(* they change those.                                                        *)
EXTENDS PcbLists, PcbQueuesProofs

(* q is what p_next leads through from h on. *)
Spells(q, h, next) ==
  /\ IsInjective(q)
  /\ h = IF q = <<>> THEN NoPcb ELSE q[1]
  /\ \A k \in 1..Len(q) : next[q[k]] = IF k = Len(q) THEN NoPcb ELSE q[k + 1]

-----------------------------------------------------------------------------
(* The lists of at most n PCBs from p on, as Walk computes them from the     *)
(* shorter ones.  There is one such function, by induction on n.             *)
Longer(f, next, k) ==
  [p \in Pcb \cup {NoPcb} |->
     IF k = 0 \/ p = NoPcb THEN <<>> ELSE <<p>> \o f[k-1][next[p]]]
Walked(f, next, n) == f = [k \in 0..n |-> Longer(f, next, k)]

LEMMA LongerNext ==
  ASSUME NEW f, NEW g, NEW next, NEW k, k = 0 \/ f[k-1] = g[k-1]
  PROVE  Longer(f, next, k) = Longer(g, next, k)
<1> DEFINE e(p) == IF k = 0 \/ p = NoPcb THEN <<>> ELSE <<p>> \o f[k-1][next[p]]
           h(p) == IF k = 0 \/ p = NoPcb THEN <<>> ELSE <<p>> \o g[k-1][next[p]]
<1>1. \A p : e(p) = h(p)  BY Zenon
<1>2. /\ Longer(f, next, k) = [p \in Pcb \cup {NoPcb} |-> e(p)]
      /\ Longer(g, next, k) = [p \in Pcb \cup {NoPcb} |-> h(p)]
  BY Zenon DEF Longer
<1> HIDE DEF e, h
<1> QED BY <1>1, <1>2

LEMMA WalkedExists ==
  ASSUME NEW next, NEW n \in Nat
  PROVE  \E f : Walked(f, next, n)
<1> DEFINE T == {k \in Nat : ~\E f : Walked(f, next, k)}
<1>1. SUFFICES ASSUME T # {} PROVE FALSE  OBVIOUS
<1>2. Min(T) \in T /\ \A j \in T : Min(T) <= j
  <2>1. T \in SUBSET Nat  OBVIOUS
  <2> HIDE DEF T
  <2> QED BY <1>1, <2>1, MinIsLeast
<1> DEFINE k == Min(T)
<1>3. k \in Nat /\ ~\E f : Walked(f, next, k)  BY <1>2
<1>4. \A j \in T : k <= j  BY <1>2
<1> HIDE DEF k
<1>5. CASE k = 0
  <2> DEFINE e(j) == Longer(next, next, j)
             g == [j \in 0..0 |-> e(j)]
             h(j) == Longer(g, next, j)
  <2>1. \A j \in 0..0 : e(j) = h(j)
    <3> SUFFICES ASSUME NEW j \in 0..0 PROVE e(j) = h(j)
      OBVIOUS
    <3>1. j = 0  OBVIOUS
    <3> HIDE DEF g
    <3> QED BY <3>1, LongerNext
  <2>2. g = [j \in 0..0 |-> h(j)]
    <3> HIDE DEF e, h
    <3>1. g = [j \in 0..0 |-> e(j)]  BY DEF g
    <3> HIDE DEF g
    <3> QED BY <2>1, <3>1
  <2>3. Walked(g, next, 0)
    <3> HIDE DEF g
    <3> QED BY <2>2 DEF Walked
  <2> HIDE DEF g
  <2> QED BY <1>3, <1>5, <2>3
<1>6. CASE k # 0
  <2>1. k - 1 \in Nat /\ ~(k <= k - 1)  BY <1>3, <1>6
  <2>2. PICK f : Walked(f, next, k - 1)
    <3>1. k - 1 \notin T
      <4> HIDE DEF T
      <4> QED BY <1>4, <2>1
    <3> QED BY <2>1, <3>1
  <2> DEFINE e(j) == Longer(f, next, j)
             g == [j \in 0..k |-> e(j)]
             h(j) == Longer(g, next, j)
  <2>3. f = [j \in 0..(k - 1) |-> e(j)]  BY <2>2 DEF Walked
  <2>4. \A j \in 0..(k - 1) : g[j] = f[j]
    <3> HIDE DEF e
    <3>1. \A j \in 0..(k - 1) : j \in 0..k  BY <1>3
    <3> QED BY <2>3, <3>1
  <2>5. ASSUME NEW j \in 0..k PROVE e(j) = h(j)
    <3>1. j = 0 \/ j - 1 \in 0..(k - 1)  BY <1>3
    <3> HIDE DEF g
    <3>2. j = 0 \/ f[j - 1] = g[j - 1]  BY <2>4, <3>1
    <3> QED BY <3>2, LongerNext
  <2>6. g = [j \in 0..k |-> h(j)]
    <3> HIDE DEF e, h
    <3>1. g = [j \in 0..k |-> e(j)]  BY DEF g
    <3> HIDE DEF g
    <3> QED BY <2>5, <3>1
  <2>7. Walked(g, next, k)
    <3> HIDE DEF g
    <3> QED BY <2>6 DEF Walked
  <2> HIDE DEF g
  <2> QED BY <1>3, <2>7
<1> QED BY <1>5, <1>6

(* Walk reads such a function. *)
LEMMA WalkReads ==
  \A id \in QueueId : \E f : /\ Walked(f, p_next, Cardinality(Pcb))
                             /\ Walk(id) = f[Cardinality(Pcb)][head[id]]
<1> SUFFICES ASSUME NEW id \in QueueId
             PROVE  \E f : /\ Walked(f, p_next, Cardinality(Pcb))
                           /\ Walk(id) = f[Cardinality(Pcb)][head[id]]
  OBVIOUS
<1> DEFINE n == Cardinality(Pcb)
           e(f) == [k \in 0..n |-> Longer(f, p_next, k)]
           c == CHOOSE f : f = e(f)
<1>1. n \in Nat  BY FS_CardinalityType, ListAssumption
<1>2. \E f : f = e(f)
  <2>1. PICK f : Walked(f, p_next, n)
    <3> HIDE DEF n
    <3> QED BY <1>1, WalkedExists
  <2> QED BY <2>1 DEF Walked
<1>3. c = e(c)
  <2> HIDE DEF e
  <2> QED BY <1>2
<1>4. Walk(id) = c[n][head[id]]  BY DEF Walk, Longer
<1>5. Walked(c, p_next, n)
  <2> HIDE DEF c
  <2> QED BY <1>3 DEF Walked
<1> HIDE DEF c
<1> QED BY <1>4, <1>5

(* The list with p in front. *)
Ahead(p, q) == <<p>> \o q

(* What it says of each PCB, and of NULL. *)
LEMMA WalkedAt ==
  ASSUME NEW f, NEW next, NEW n \in Nat, Walked(f, next, n), NEW k \in 0..n
  PROVE  /\ f[k][NoPcb] = <<>>
         /\ \A p \in Pcb : k # 0 => f[k][p] = Ahead(p, f[k-1][next[p]])
<1> DEFINE e(j) == Longer(f, next, j)
<1>1. f[k] = e(k)
  <2>1. f = [j \in 0..n |-> e(j)]  BY DEF Walked
  <2> HIDE DEF e
  <2> QED BY <2>1
<1>2. f[k] = Longer(f, next, k)  BY <1>1
<1> HIDE DEF e
<1>3. Longer(f, next, k)[NoPcb] = <<>>
  <2> DEFINE d(p) == IF k = 0 \/ p = NoPcb THEN <<>> ELSE <<p>> \o f[k-1][next[p]]
  <2>1. Longer(f, next, k) = [p \in Pcb \cup {NoPcb} |-> d(p)]  BY Zenon DEF Longer
  <2>2. d(NoPcb) = <<>>  BY Zenon
  <2> HIDE DEF d
  <2> QED BY <2>1, <2>2
<1>4. ASSUME NEW p \in Pcb, k # 0
      PROVE  Longer(f, next, k)[p] = Ahead(p, f[k-1][next[p]])
  <2> DEFINE d(x) == IF k = 0 \/ x = NoPcb THEN <<>> ELSE <<x>> \o f[k-1][next[x]]
  <2>1. Longer(f, next, k) = [x \in Pcb \cup {NoPcb} |-> d(x)]  BY Zenon DEF Longer
  <2>2. p # NoPcb  BY ListAssumption
  <2>3. d(p) = Ahead(p, f[k-1][next[p]])  BY <1>4, <2>2, Zenon DEF Ahead
  <2> HIDE DEF d
  <2>4. Longer(f, next, k)[p] = d(p)  BY <2>1
  <2> QED BY <2>3, <2>4
<1> QED BY <1>2, <1>3, <1>4

(* A list that does not come back to a PCB is no longer than there are PCBs. *)
LEMMA ShortLists ==
  ASSUME NEW q \in Seq(Pcb), IsInjective(q)
  PROVE  Len(q) \in Nat /\ Len(q) <= Cardinality(Pcb)
<1>1. Len(q) \in Nat /\ q \in [1..Len(q) -> Pcb]  BY LenProperties
<1>2. q \in Injection(1..Len(q), Pcb)  BY <1>1 DEF Injection, IsInjective
<1>3. Cardinality(1..Len(q)) <= Cardinality(Pcb)  BY <1>2, FS_Injection, ListAssumption
<1>4. Cardinality(1..Len(q)) = Len(q)
  <2>1. 1 \in Int /\ Len(q) \in Int  BY <1>1
  <2>2. Cardinality(1..Len(q)) = IF 1 > Len(q) THEN 0 ELSE Len(q) - 1 + 1
    BY <2>1, FS_Interval
  <2> QED BY <1>1, <2>2
<1> QED BY <1>1, <1>3, <1>4

(* A list from its k-th PCB on. *)
LEMMA RestOfList ==
  ASSUME NEW S, NEW q \in Seq(S)
  PROVE  /\ SubSeq(q, Len(q) + 1, Len(q)) = <<>>
         /\ \A k \in 1..Len(q) : SubSeq(q, k, Len(q)) = <<q[k]>> \o SubSeq(q, k + 1, Len(q))
         /\ SubSeq(q, 1, Len(q)) = q
<1>1. Len(q) \in Nat /\ \A j \in 1..Len(q) : q[j] \in S  BY LenProperties, ElementOfSeq
<1>2. SubSeq(q, Len(q) + 1, Len(q)) = <<>>  BY <1>1, SubSeqEmpty
<1>3. ASSUME NEW k \in 1..Len(q)
      PROVE  SubSeq(q, k, Len(q)) = <<q[k]>> \o SubSeq(q, k + 1, Len(q))
  <2> DEFINE a == SubSeq(q, k, Len(q))
             b == SubSeq(q, k + 1, Len(q))
             c == <<q[k]>> \o b
  <2>1. /\ a \in Seq(S) /\ Len(a) = Len(q) - k + 1
        /\ \A j \in 1..(Len(q) - k + 1) : a[j] = q[k + j - 1]
    <3>1. \A j \in k..Len(q) : q[j] \in S  BY <1>1
    <3> QED BY <1>1, <3>1, SubSeqProperties
  <2>2. /\ b \in Seq(S) /\ Len(b) = Len(q) - k
        /\ \A j \in 1..(Len(q) - k) : b[j] = q[k + j]
    <3>1. \A j \in (k + 1)..Len(q) : q[j] \in S  BY <1>1
    <3>2. /\ b \in Seq(S)
          /\ Len(b) = IF k + 1 <= Len(q) THEN Len(q) - (k + 1) + 1 ELSE 0
          /\ \A j \in 1..(Len(q) - (k + 1) + 1) : b[j] = q[(k + 1) + j - 1]
      BY <1>1, <3>1, SubSeqProperties
    <3> QED BY <1>1, <3>2
  <2>3. <<q[k]>> \in Seq(S) /\ Len(<<q[k]>>) = 1 /\ <<q[k]>>[1] = q[k]  BY <1>1
  <2> HIDE DEF a, b
  <2>4. /\ c \in Seq(S) /\ Len(c) = 1 + Len(b)
        /\ \A j \in 1..(1 + Len(b)) : c[j] = IF j <= 1 THEN <<q[k]>>[j] ELSE b[j - 1]
    BY <2>2, <2>3, ConcatProperties
  <2> HIDE DEF c
  <2>5. Len(c) = Len(a) /\ Len(a) \in Nat  BY <1>1, <2>1, <2>2, <2>4
  <2>6. ASSUME NEW j \in 1..Len(a) PROVE a[j] = c[j]
    <3>1. CASE j = 1  BY <1>1, <2>1, <2>2, <2>3, <2>4, <3>1
    <3>2. CASE j # 1
      <4>1. j - 1 \in 1..(Len(q) - k) /\ k + (j - 1) = k + j - 1
        BY <1>1, <2>1, <3>2
      <4>2. c[j] = b[j - 1]  BY <1>1, <2>1, <2>2, <2>4, <3>2
      <4>3. b[j - 1] = q[k + (j - 1)]  BY <2>2, <4>1
      <4>4. a[j] = q[k + j - 1]  BY <2>1
      <4> QED BY <4>1, <4>2, <4>3, <4>4
    <3> QED BY <3>1, <3>2
  <2>7. a = c  BY <2>1, <2>4, <2>5, <2>6, SeqEqual
  <2> QED BY <2>7 DEF a, c, b
<1>4. SubSeq(q, 1, Len(q)) = q  BY SubSeqFull
<1> QED BY <1>2, <1>3, <1>4

(* So Walk finds what the pointers spell. *)
LEMMA WalkSpells ==
  \A id \in QueueId, q \in Seq(Pcb) : Spells(q, head[id], p_next) => Walk(id) = q
<1> SUFFICES ASSUME NEW id \in QueueId, NEW q \in Seq(Pcb), Spells(q, head[id], p_next)
             PROVE  Walk(id) = q
  OBVIOUS
<1> DEFINE n == Cardinality(Pcb)
           at(j) == IF j = Len(q) + 1 THEN NoPcb ELSE q[j]
<1>1. n \in Nat  BY FS_CardinalityType, ListAssumption
<1>2. Len(q) \in Nat /\ Len(q) <= n /\ \A j \in 1..Len(q) : q[j] \in Pcb
  BY ShortLists, ElementOfSeq DEF Spells
<1>3. PICK f : Walked(f, p_next, n) /\ Walk(id) = f[n][head[id]]  BY WalkReads
<1> HIDE DEF n
<1>4. \A j \in 1..Len(q) : j # Len(q) + 1  BY <1>2
<1>5. \A j \in 1..Len(q) : at(j) = q[j] /\ p_next[q[j]] = at(j + 1)
  BY <1>2, <1>4 DEF Spells
<1>6. at(Len(q) + 1) = NoPcb  OBVIOUS
<1>7. head[id] = at(1)
  <2>1. CASE q = <<>>  BY <2>1 DEF Spells
  <2>2. CASE q # <<>>
    <3>1. 1 \in 1..Len(q)  BY <1>2, <2>2, EmptySeq
    <3> QED BY <1>5, <2>2, <3>1 DEF Spells
  <2> QED BY <2>1, <2>2
<1> HIDE DEF at
<1> DEFINE Right(k) == \A j \in 1..(Len(q) + 1) :
                         Len(q) + 1 - j <= k => f[k][at(j)] = SubSeq(q, j, Len(q))
           T == {k \in 0..n : ~Right(k)}
<1>8. T = {}
  <2> SUFFICES ASSUME T # {} PROVE FALSE
    OBVIOUS
  <2>1. Min(T) \in T /\ \A j \in T : Min(T) <= j
    <3>1. T \in SUBSET Nat  BY <1>1
    <3> HIDE DEF T
    <3> QED BY <3>1, MinIsLeast
  <2> DEFINE k == Min(T)
  <2>2. k \in 0..n /\ ~Right(k)  BY <2>1
  <2>3. \A j \in T : k <= j  BY <2>1
  <2> HIDE DEF k
  <2>4. k # 0 => Right(k - 1)
    <3> HIDE DEF Right
    <3> SUFFICES ASSUME k # 0, ~Right(k - 1) PROVE FALSE
      OBVIOUS
    <3>1. k - 1 \in 0..n /\ ~(k <= k - 1)  BY <1>1, <2>2
    <3>2. k - 1 \in T  BY <3>1
    <3> QED BY <2>3, <3>1, <3>2
  <2> HIDE DEF T
  <2>5. PICK j \in 1..(Len(q) + 1) :
          Len(q) + 1 - j <= k /\ f[k][at(j)] # SubSeq(q, j, Len(q))
    BY <2>2
  <2>6. CASE j = Len(q) + 1
    <3>1. f[k][NoPcb] = <<>>  BY <1>1, <1>3, <2>2, WalkedAt
    <3> QED BY <1>6, <2>5, <2>6, <3>1, RestOfList
  <2>7. CASE j # Len(q) + 1
    <3>1. j \in 1..Len(q) /\ j + 1 \in 1..(Len(q) + 1) /\ k # 0
          /\ Len(q) + 1 - (j + 1) <= k - 1
      BY <1>2, <2>2, <2>5, <2>7
    <3>2. f[k][q[j]] = Ahead(q[j], f[k-1][p_next[q[j]]])
      <4>1. q[j] \in Pcb /\ k \in 0..n /\ Walked(f, p_next, n)
        BY <1>2, <1>3, <2>2, <3>1
      <4>2. \A p \in Pcb : k # 0 => f[k][p] = Ahead(p, f[k-1][p_next[p]])
        BY <1>1, <4>1, WalkedAt
      <4> QED BY <3>1, <4>1, <4>2
    <3>3. f[k-1][at(j + 1)] = SubSeq(q, j + 1, Len(q))  BY <2>4, <3>1
    <3>4. f[k][at(j)] = Ahead(q[j], SubSeq(q, j + 1, Len(q)))  BY <1>5, <3>1, <3>2, <3>3
    <3>5. SubSeq(q, j, Len(q)) = Ahead(q[j], SubSeq(q, j + 1, Len(q)))
      BY <3>1, RestOfList DEF Ahead
    <3> QED BY <2>5, <3>4, <3>5
  <2> QED BY <2>6, <2>7
<1>9. Right(n)
  <2> HIDE DEF Right
  <2>1. n \in 0..n  BY <1>1
  <2> QED BY <1>8, <2>1
<1>10. f[n][at(1)] = SubSeq(q, 1, Len(q))
  <2>1. 1 \in 1..(Len(q) + 1) /\ Len(q) + 1 - 1 <= n  BY <1>1, <1>2
  <2> QED BY <1>9, <2>1
<1> QED BY <1>3, <1>7, <1>10, RestOfList

-----------------------------------------------------------------------------
(* The pointers h, t and next hold the queues Q of the live PCBs lv, each in *)
(* the queue its state in s selects; a live PCB in none has p_next NULL.     *)
ListsAre(Q, h, t, next, s, lv) ==
  /\ Q \in [QueueId -> Seq(Pcb)]
  /\ \A id \in QueueId : /\ Spells(Q[id], h[id], next)
                         /\ t[id] = IF Q[id] = <<>> THEN NoPcb ELSE Q[id][Len(Q[id])]
  /\ \A id \in QueueId : \A p \in ToSet(Q[id]) : p \in lv /\ Selector(s[p]) = id
  /\ \A p \in lv : (\A id \in QueueId : p \notin ToSet(Q[id])) => next[p] = NoPcb

ListTypes(h, t, next, s, lv) ==
  /\ h \in [QueueId -> Pcb \cup {NoPcb}] /\ t \in [QueueId -> Pcb \cup {NoPcb}]
  /\ next \in [Pcb -> Pcb \cup {NoPcb}] /\ s \in [Pcb -> PcbState] /\ lv \subseteq Pcb

(* What the pointers become when p enters at place k of queue i. *)
PutHead(h, i, p, k) == [h EXCEPT ![i] = IF k = 1 THEN p ELSE h[i]]
PutTail(t, i, p, k, len) == [t EXCEPT ![i] = IF k = len + 1 THEN p ELSE t[i]]
PutNext(next, q, p, k) ==
  [x \in Pcb |-> IF x = p THEN IF k = Len(q) + 1 THEN NoPcb ELSE q[k]
                 ELSE IF k > 1 /\ x = q[k - 1] THEN p ELSE next[x]]

(* Linking p in at place k spells the queue with p inserted there. *)
LEMMA PutSpells ==
  ASSUME NEW q \in Seq(Pcb), NEW next \in [Pcb -> Pcb \cup {NoPcb}],
         NEW z, Spells(q, z, next),
         NEW p \in Pcb, p \notin ToSet(q), NEW k \in 1..(Len(q) + 1)
  PROVE  Spells(InsertAt(q, k, p), IF k = 1 THEN p ELSE z, PutNext(next, q, p, k))
<1> DEFINE r == InsertAt(q, k, p)
           g == PutNext(next, q, p, k)
           y == IF k = 1 THEN p ELSE z
<1>1. Len(q) \in Nat /\ DOMAIN q = 1..Len(q) /\ \A j \in 1..Len(q) : q[j] \in Pcb
  BY LenProperties, ElementOfSeq
<1>2. /\ r \in Seq(Pcb) /\ Len(r) = Len(q) + 1
      /\ \A j \in 1..(Len(q) + 1) :
           r[j] = IF j < k THEN q[j] ELSE IF j = k THEN p ELSE q[j - 1]
  BY InsertAtProperties
<1>3. IsInjective(q) /\ IsInjective(r)
  <2>1. IsInjective(q)  BY DEF Spells
  <2> HIDE DEF r
  <2>2. r = InsertAt(q, k, p)  BY DEF r
  <2> QED BY <2>1, <2>2, InsertAtSet
<1>4. \A j, m \in 1..Len(q) : q[j] = q[m] => j = m  BY <1>1, <1>3 DEF IsInjective
<1>5. \A j \in 1..Len(q) : q[j] # p  BY <1>1 DEF ToSet
<1>6. \A j \in 1..Len(q) : next[q[j]] = IF j = Len(q) THEN NoPcb ELSE q[j + 1]
  BY DEF Spells
<1>7. \A x \in Pcb : g[x] = IF x = p THEN IF k = Len(q) + 1 THEN NoPcb ELSE q[k]
                            ELSE IF k > 1 /\ x = q[k - 1] THEN p ELSE next[x]
  BY DEF PutNext
<1> HIDE DEF r, g
<1>8. r # <<>>  BY <1>1, <1>2, EmptySeq
<1>9. y = r[1]
  <2>1. CASE k = 1  BY <1>1, <1>2, <2>1
  <2>2. CASE k # 1
    <3>1. Len(q) # 0 /\ 1 < k  BY <1>1, <2>2
    <3>2. z = q[1]  BY <3>1, EmptySeq DEF Spells
    <3> QED BY <1>1, <1>2, <2>2, <3>1, <3>2
  <2> QED BY <2>1, <2>2
<1>10. ASSUME NEW j \in 1..(Len(q) + 1)
       PROVE  g[r[j]] = IF j = Len(q) + 1 THEN NoPcb ELSE r[j + 1]
  <2>1. CASE j < k - 1
    <3>1. j \in 1..Len(q) /\ k - 1 \in 1..Len(q) /\ j # k - 1 /\ j # Len(q)
          /\ j + 1 \in 1..(Len(q) + 1) /\ j + 1 < k /\ j < k /\ j # Len(q) + 1
      <4>1. Len(q) \in Nat /\ j \in 1..(Len(q) + 1) /\ k \in 1..(Len(q) + 1)  BY <1>1
      <4> QED BY ONLY <2>1, <4>1
    <3>2. r[j] = q[j] /\ r[j + 1] = q[j + 1]  BY <1>2, <3>1
    <3>3. q[j] # p /\ q[j] # q[k - 1] /\ q[j] \in Pcb  BY <1>1, <1>4, <1>5, <3>1
    <3>4. g[q[j]] = next[q[j]]  BY <1>7, <3>3
    <3>5. next[q[j]] = q[j + 1]  BY <1>6, <3>1
    <3> QED BY <3>1, <3>2, <3>4, <3>5
  <2>2. CASE j = k - 1
    <3>1. j \in 1..Len(q) /\ j < k /\ k > 1 /\ j + 1 = k /\ j # Len(q) + 1  BY <1>1, <2>2
    <3>2. r[j] = q[j] /\ r[j + 1] = p  BY <1>2, <3>1
    <3>3. q[j] # p /\ q[j] = q[k - 1] /\ q[j] \in Pcb  BY <1>1, <1>5, <2>2, <3>1
    <3>4. g[q[j]] = p  BY <1>7, <3>1, <3>3
    <3> QED BY <3>1, <3>2, <3>4
  <2>3. CASE j = k
    <3>1. r[j] = p  BY <1>2, <2>3
    <3>2. g[p] = IF j = Len(q) + 1 THEN NoPcb ELSE q[j]  BY <1>7, <2>3
    <3>3. CASE j = Len(q) + 1  BY <3>1, <3>2, <3>3
    <3>4. CASE j # Len(q) + 1
      <4>1. j + 1 \in 1..(Len(q) + 1) /\ ~(j + 1 < k) /\ j + 1 # k /\ (j + 1) - 1 = j
        BY <1>1, <2>3, <3>4
      <4>2. r[j + 1] = q[(j + 1) - 1]  BY <1>2, <4>1
      <4> QED BY <3>1, <3>2, <3>4, <4>1, <4>2
    <3> QED BY <3>3, <3>4
  <2>4. CASE j > k
    <3>1. /\ j - 1 \in 1..Len(q) /\ ~(j < k) /\ j # k
          /\ (j = Len(q) + 1 <=> j - 1 = Len(q)) /\ (j - 1) + 1 = j
          /\ (k > 1 => k - 1 \in 1..Len(q) /\ j - 1 # k - 1)
      BY <1>1, <2>4
    <3>2. r[j] = q[j - 1]  BY <1>2, <3>1
    <3>3. q[j - 1] # p /\ q[j - 1] \in Pcb  BY <1>1, <1>5, <3>1
    <3>4. ~(k > 1 /\ q[j - 1] = q[k - 1])  BY <1>4, <3>1
    <3>5. g[q[j - 1]] = next[q[j - 1]]  BY <1>7, <3>3, <3>4
    <3>6. next[q[j - 1]] = IF j = Len(q) + 1 THEN NoPcb ELSE q[j]  BY <1>6, <3>1
    <3>7. j # Len(q) + 1 => r[j + 1] = q[j]
      <4> SUFFICES ASSUME j # Len(q) + 1 PROVE r[j + 1] = q[j]
        OBVIOUS
      <4>1. j + 1 \in 1..(Len(q) + 1) /\ ~(j + 1 < k) /\ j + 1 # k /\ (j + 1) - 1 = j
        BY <1>1, <2>4
      <4>2. r[j + 1] = q[(j + 1) - 1]  BY <1>2, <4>1
      <4> QED BY <4>1, <4>2
    <3> QED BY <3>2, <3>5, <3>6, <3>7
  <2>5. j < k - 1 \/ j = k - 1 \/ j = k \/ j > k  BY <1>1
  <2> QED BY <2>1, <2>2, <2>3, <2>4, <2>5
<1>11. \A j \in 1..Len(r) : g[r[j]] = IF j = Len(r) THEN NoPcb ELSE r[j + 1]
  BY <1>2, <1>10
<1>12. Spells(r, y, g)
  <2> HIDE DEF y
  <2> QED BY <1>3, <1>8, <1>9, <1>11 DEF Spells
<1> QED BY <1>12 DEF r, g

(* What they become when p, at place k of queue i, is taken out. *)
TakeHead(h, next, i, p, k) == [h EXCEPT ![i] = IF k = 1 THEN next[p] ELSE h[i]]
TakeTail(t, q, i, p, k) ==
  [t EXCEPT ![i] = IF t[i] = p THEN IF k = 1 THEN NoPcb ELSE q[k - 1] ELSE t[i]]
TakeNext(next, q, p, k) ==
  [x \in Pcb |-> IF x = p THEN NoPcb
                 ELSE IF k > 1 /\ x = q[k - 1] THEN next[p] ELSE next[x]]

(* Letting its predecessor skip the k-th PCB spells the queue without it. *)
LEMMA TakeSpells ==
  ASSUME NEW q \in Seq(Pcb), NEW next \in [Pcb -> Pcb \cup {NoPcb}],
         NEW z, Spells(q, z, next), NEW k \in 1..Len(q), NEW p, p = q[k]
  PROVE  Spells(RemoveAt(q, k), IF k = 1 THEN next[p] ELSE z, TakeNext(next, q, p, k))
<1> DEFINE r == RemoveAt(q, k)
           g == TakeNext(next, q, p, k)
           y == IF k = 1 THEN next[p] ELSE z
<1>1. Len(q) \in Nat /\ DOMAIN q = 1..Len(q) /\ \A j \in 1..Len(q) : q[j] \in Pcb
  BY LenProperties, ElementOfSeq
<1>2. /\ r \in Seq(Pcb) /\ Len(r) = Len(q) - 1
      /\ \A j \in 1..(Len(q) - 1) : r[j] = IF j < k THEN q[j] ELSE q[j + 1]
  BY RemoveAtProperties
<1>3. IsInjective(q)  BY DEF Spells
<1>4. \A j, m \in 1..Len(q) : q[j] = q[m] => j = m  BY <1>1, <1>3 DEF IsInjective
<1>5. \A j \in 1..Len(q) : next[q[j]] = IF j = Len(q) THEN NoPcb ELSE q[j + 1]
  BY DEF Spells
<1>6. \A x \in Pcb : g[x] = IF x = p THEN NoPcb
                            ELSE IF k > 1 /\ x = q[k - 1] THEN next[p] ELSE next[x]
  BY DEF TakeNext
<1> HIDE DEF r, g
<1>7. DOMAIN r = 1..(Len(q) - 1)  BY <1>2, LenProperties
<1>8. IsInjective(r)
  <2> SUFFICES ASSUME NEW j \in 1..(Len(q) - 1), NEW m \in 1..(Len(q) - 1), r[j] = r[m]
               PROVE  j = m
    BY <1>7 DEF IsInjective
  <2>1. j \in 1..Len(q) /\ j + 1 \in 1..Len(q) /\ m \in 1..Len(q) /\ m + 1 \in 1..Len(q)
    BY <1>1
  <2> QED BY <1>1, <1>2, <1>4, <2>1
<1>9. y = IF r = <<>> THEN NoPcb ELSE r[1]
  <2>1. z = q[1]
    <3>1. q # <<>>  BY <1>1, EmptySeq
    <3> QED BY <3>1 DEF Spells
  <2>2. CASE Len(q) = 1
    <3>1. r = <<>> /\ k = 1
      <4>1. Len(r) = 0  BY <1>2, <2>2
      <4> QED BY <1>2, <2>2, <4>1, EmptySeq
    <3>2. next[p] = NoPcb  BY <1>1, <1>5, <2>2, <3>1
    <3> QED BY <3>1, <3>2
  <2>3. CASE Len(q) # 1
    <3>1. /\ 1 \in 1..(Len(q) - 1) /\ 1 \in 1..Len(q) /\ Len(q) - 1 # 0 /\ 1 # Len(q)
          /\ (k = 1 => ~(1 < k)) /\ (k # 1 => 1 < k) /\ 1 + 1 = 2
      BY <1>1, <2>3
    <3>2. r # <<>>  BY <1>2, <3>1, EmptySeq
    <3>3. r[1] = IF k = 1 THEN q[2] ELSE q[1]  BY <1>2, <3>1
    <3>4. k = 1 => next[p] = q[2]  BY <1>5, <3>1
    <3> QED BY <2>1, <3>2, <3>3, <3>4
  <2> QED BY <2>2, <2>3
<1>10. ASSUME NEW j \in 1..(Len(q) - 1)
       PROVE  g[r[j]] = IF j = Len(q) - 1 THEN NoPcb ELSE r[j + 1]
  <2>0. Len(q) \in Nat /\ j \in 1..(Len(q) - 1) /\ k \in 1..Len(q)  BY <1>1
  <2>1. CASE j < k - 1
    <3>1. j \in 1..Len(q) /\ k - 1 \in 1..Len(q) /\ j # k - 1 /\ j # k /\ j # Len(q)
          /\ j + 1 \in 1..(Len(q) - 1) /\ j + 1 < k /\ j < k /\ j # Len(q) - 1
      BY ONLY <2>0, <2>1
    <3>2. r[j] = q[j] /\ r[j + 1] = q[j + 1]  BY <1>2, <3>1
    <3>3. q[j] # p /\ q[j] # q[k - 1] /\ q[j] \in Pcb  BY <1>1, <1>4, <3>1
    <3>4. g[q[j]] = next[q[j]]  BY <1>6, <3>3
    <3>5. next[q[j]] = q[j + 1]  BY <1>5, <3>1
    <3> QED BY <3>1, <3>2, <3>4, <3>5
  <2>2. CASE j = k - 1
    <3>1. j \in 1..Len(q) /\ j < k /\ k > 1 /\ j # k /\ (j = Len(q) - 1 <=> k = Len(q))
          /\ j + 1 = k /\ ~(k < k)
      BY ONLY <2>0, <2>2
    <3>2. r[j] = q[j]  BY <1>2, <3>1
    <3>3. q[j] # p /\ q[j] = q[k - 1] /\ q[j] \in Pcb  BY <1>1, <1>4, <2>2, <3>1
    <3>4. g[q[j]] = next[p]  BY <1>6, <3>1, <3>3
    <3>5. next[p] = IF k = Len(q) THEN NoPcb ELSE q[k + 1]  BY <1>5
    <3>6. k # Len(q) => r[k] = q[k + 1]
      <4>1. k # Len(q) => k \in 1..(Len(q) - 1)  BY ONLY <2>0
      <4> QED BY <1>2, <3>1, <4>1
    <3> QED BY <3>1, <3>2, <3>4, <3>5, <3>6
  <2>3. CASE j >= k
    <3>1. /\ j + 1 \in 1..Len(q) /\ ~(j < k) /\ j + 1 # k
          /\ (j + 1 = Len(q) <=> j = Len(q) - 1)
          /\ (k > 1 => k - 1 \in 1..Len(q) /\ j + 1 # k - 1)
      BY ONLY <2>0, <2>3
    <3>2. r[j] = q[j + 1]  BY <1>2, <3>1
    <3>3. q[j + 1] # p /\ q[j + 1] \in Pcb  BY <1>1, <1>4, <3>1
    <3>4. ~(k > 1 /\ q[j + 1] = q[k - 1])  BY <1>4, <3>1
    <3>5. g[q[j + 1]] = next[q[j + 1]]  BY <1>6, <3>3, <3>4
    <3>6. next[q[j + 1]] = IF j = Len(q) - 1 THEN NoPcb ELSE q[(j + 1) + 1]  BY <1>5, <3>1
    <3>7. j # Len(q) - 1 => r[j + 1] = q[(j + 1) + 1]
      <4>1. j # Len(q) - 1 => j + 1 \in 1..(Len(q) - 1) /\ ~(j + 1 < k)
        BY ONLY <2>0, <2>3
      <4> QED BY <1>2, <4>1
    <3> QED BY <3>2, <3>5, <3>6, <3>7
  <2>4. j < k - 1 \/ j = k - 1 \/ j >= k  BY ONLY <2>0
  <2> QED BY <2>1, <2>2, <2>3, <2>4
<1>11. \A j \in 1..Len(r) : g[r[j]] = IF j = Len(r) THEN NoPcb ELSE r[j + 1]
  BY <1>2, <1>10
<1>12. Spells(r, y, g)
  <2> HIDE DEF y
  <2> QED BY <1>8, <1>9, <1>11 DEF Spells
<1> QED BY <1>12 DEF r, g

-----------------------------------------------------------------------------
(* A list none of whose p_next changes stays as it is. *)
LEMMA OtherSpells ==
  ASSUME NEW q \in Seq(Pcb), NEW z, NEW next, Spells(q, z, next),
         NEW g, \A x \in ToSet(q) : g[x] = next[x]
  PROVE  Spells(q, z, g)
<1>1. \A j \in 1..Len(q) : q[j] \in ToSet(q)  BY LenProperties DEF ToSet
<1> QED BY <1>1 DEF Spells

(* pcb_insert in memory is pcb_insert of the queues. *)
LEMMA PutLists ==
  ASSUME NEW Q, NEW h, NEW t, NEW next, NEW s, NEW lv,
         ListTypes(h, t, next, s, lv), ListsAre(Q, h, t, next, s, lv),
         NEW p \in lv, \A id \in QueueId : p \notin ToSet(Q[id]),
         NEW i, i = Selector(s[p]), NEW k, k = Place(Q[i], s, p)
  PROVE  /\ ListTypes(PutHead(h, i, p, k), PutTail(t, i, p, k, Len(Q[i])),
                      PutNext(next, Q[i], p, k), s, lv)
         /\ ListsAre(pcb_insert(Q, s, p), PutHead(h, i, p, k),
                     PutTail(t, i, p, k, Len(Q[i])), PutNext(next, Q[i], p, k), s, lv)
<1> DEFINE q == Q[i]
           R == pcb_insert(Q, s, p)
           h2 == PutHead(h, i, p, k)
           t2 == PutTail(t, i, p, k, Len(q))
           g == PutNext(next, q, p, k)
<1>1. /\ h \in [QueueId -> Pcb \cup {NoPcb}] /\ t \in [QueueId -> Pcb \cup {NoPcb}]
      /\ next \in [Pcb -> Pcb \cup {NoPcb}] /\ s \in [Pcb -> PcbState] /\ lv \subseteq Pcb
  BY DEF ListTypes
<1>2. /\ Q \in [QueueId -> Seq(Pcb)]
      /\ \A id \in QueueId : Spells(Q[id], h[id], next)
      /\ \A id \in QueueId : t[id] = IF Q[id] = <<>> THEN NoPcb ELSE Q[id][Len(Q[id])]
      /\ \A id \in QueueId : \A x \in ToSet(Q[id]) : x \in lv /\ Selector(s[x]) = id
      /\ \A x \in lv : (\A id \in QueueId : x \notin ToSet(Q[id])) => next[x] = NoPcb
  BY DEF ListsAre
<1>3. p \in Pcb /\ i \in QueueId /\ q \in Seq(Pcb) /\ p \notin ToSet(q)
  <2>1. p \in Pcb /\ s[p] \in PcbState  BY <1>1
  <2> QED BY <1>2, <2>1, SelectorType
<1>4. /\ k \in 1..(Len(q) + 1) /\ R[i] = InsertAt(q, k, p)
      /\ \A id \in QueueId : id # i => R[id] = Q[id]
  <2> HIDE DEF q, R
  <2>1. /\ Place(Q[Selector(s[p])], s, p) \in 1..(Len(Q[Selector(s[p])]) + 1)
        /\ pcb_insert(Q, s, p)[Selector(s[p])] =
             InsertAt(Q[Selector(s[p])], Place(Q[Selector(s[p])], s, p), p)
        /\ \A id \in QueueId : id # Selector(s[p]) => pcb_insert(Q, s, p)[id] = Q[id]
    <3>1. Q \in [QueueId -> Seq(Pcb)] /\ s \in [Pcb -> PcbState] /\ p \in Pcb
      BY <1>1, <1>2, <1>3
    <3> QED BY ONLY <3>1, InsertPlace
  <2> QED BY <2>1, Zenon DEF q, R
<1>5. R \in [QueueId -> Seq(Pcb)]  BY <1>1, <1>2, <1>3, InsertType
<1>6. /\ h2 \in [QueueId -> Pcb \cup {NoPcb}]
      /\ h2[i] = IF k = 1 THEN p ELSE h[i]
      /\ \A id \in QueueId : id # i => h2[id] = h[id]
  BY <1>1, <1>3 DEF PutHead
<1>7. /\ t2 \in [QueueId -> Pcb \cup {NoPcb}]
      /\ t2[i] = IF k = Len(q) + 1 THEN p ELSE t[i]
      /\ \A id \in QueueId : id # i => t2[id] = t[id]
  BY <1>1, <1>3 DEF PutTail
<1>8. Len(q) \in Nat /\ DOMAIN q = 1..Len(q) /\ \A j \in 1..Len(q) : q[j] \in Pcb /\ q[j] \in ToSet(q)
  <2>1. Len(q) \in Nat /\ DOMAIN q = 1..Len(q)  BY <1>3, LenProperties
  <2>2. \A j \in 1..Len(q) : q[j] \in Pcb  BY <1>3, ElementOfSeq
  <2> QED BY <2>1, <2>2 DEF ToSet
<1>9. \A x \in Pcb : g[x] = IF x = p THEN IF k = Len(q) + 1 THEN NoPcb ELSE q[k]
                            ELSE IF k > 1 /\ x = q[k - 1] THEN p ELSE next[x]
  BY DEF PutNext
<1>10. g \in [Pcb -> Pcb \cup {NoPcb}]
  <2>1. k # Len(q) + 1 => q[k] \in Pcb
    <3>1. k # Len(q) + 1 => k \in 1..Len(q)  BY <1>4, <1>8
    <3> QED BY <1>8, <3>1
  <2> HIDE DEF q
  <2> QED BY <1>1, <1>3, <2>1 DEF PutNext
<1> HIDE DEF q, R, h2, t2, g
<1>11. ListTypes(h2, t2, g, s, lv)  BY <1>1, <1>6, <1>7, <1>10 DEF ListTypes
<1>12. Spells(R[i], h2[i], g)
  <2>1. Spells(q, h[i], next)  BY <1>2, <1>3 DEF q
  <2>2. Spells(InsertAt(q, k, p), IF k = 1 THEN p ELSE h[i], PutNext(next, q, p, k))
    BY <1>1, <1>3, <1>4, <2>1, PutSpells
  <2> QED BY <1>4, <1>6, <2>2, Zenon DEF g
<1>13. ToSet(R[i]) = ToSet(q) \cup {p}
  <2>1. IsInjective(q)  BY <1>2, <1>3 DEF Spells, q
  <2> QED BY <1>3, <1>4, <2>1, InsertAtSet
<1>14. k > 1 => q[k - 1] \in ToSet(q)  BY <1>4, <1>8
<1>15. ASSUME NEW id \in QueueId, id # i
       PROVE  Spells(R[id], h2[id], g)
  <2>1. \A x \in ToSet(Q[id]) : x \in Pcb /\ x # p /\ ~(k > 1 /\ x = q[k - 1])
    <3>1. \A x \in ToSet(Q[id]) : x \in lv /\ x # p /\ Selector(s[x]) = id  BY <1>2
    <3>2. \A x \in ToSet(q) : Selector(s[x]) = i  BY <1>2, <1>3 DEF q
    <3> QED BY <1>1, <1>14, <1>15, <3>1, <3>2
  <2>2. \A x \in ToSet(Q[id]) : g[x] = next[x]  BY <1>9, <2>1
  <2>3. Q[id] \in Seq(Pcb) /\ Spells(Q[id], h[id], next)  BY <1>2
  <2>4. Spells(Q[id], h[id], g)  BY <2>2, <2>3, OtherSpells
  <2> QED BY <1>4, <1>6, <1>15, <2>4
<1>16. t2[i] = R[i][Len(R[i])] /\ R[i] # <<>>
  <2>1. /\ R[i] \in Seq(Pcb) /\ Len(R[i]) = Len(q) + 1
        /\ \A j \in 1..(Len(q) + 1) :
             R[i][j] = IF j < k THEN q[j] ELSE IF j = k THEN p ELSE q[j - 1]
    <3>1. q \in Seq(Pcb) /\ p \in Pcb /\ k \in 1..(Len(q) + 1) /\ R[i] = InsertAt(q, k, p)
      BY <1>3, <1>4
    <3> QED BY ONLY <3>1, InsertAtProperties
  <2>2. R[i] # <<>>  BY <1>8, <2>1, EmptySeq
  <2>3. CASE k = Len(q) + 1
    <3>1. R[i][Len(q) + 1] = p  BY <1>4, <2>1, <2>3
    <3> QED BY <1>7, <2>1, <2>2, <2>3, <3>1
  <2>4. CASE k # Len(q) + 1
    <3>1. /\ Len(q) + 1 \in 1..(Len(q) + 1) /\ ~(Len(q) + 1 < k) /\ Len(q) + 1 # k
          /\ (Len(q) + 1) - 1 = Len(q) /\ Len(q) # 0
      BY <1>4, <1>8, <2>4
    <3>2. R[i][Len(q) + 1] = q[Len(q)]  BY <2>1, <3>1
    <3>3. q # <<>>  BY <1>3, <3>1, EmptySeq
    <3>4. t[i] = q[Len(q)]  BY <1>2, <1>3, <3>3 DEF q
    <3> QED BY <1>7, <2>1, <2>2, <2>4, <3>2, <3>4
  <2> QED BY <2>3, <2>4
<1>17. ASSUME NEW id \in QueueId
       PROVE  /\ Spells(R[id], h2[id], g)
              /\ t2[id] = IF R[id] = <<>> THEN NoPcb ELSE R[id][Len(R[id])]
  <2>1. CASE id = i  BY <1>12, <1>16, <2>1
  <2>2. CASE id # i  BY <1>2, <1>4, <1>7, <1>15, <2>2
  <2> QED BY <2>1, <2>2
<1>18. ASSUME NEW id \in QueueId, NEW x \in ToSet(R[id])
       PROVE  x \in lv /\ Selector(s[x]) = id
  <2>1. CASE id = i /\ x = p  BY <2>1
  <2>2. CASE x \in ToSet(Q[id])  BY <1>2, <2>2
  <2>3. x \in ToSet(Q[id]) \/ (id = i /\ x = p)
    <3>1. CASE id = i  BY <1>13, <1>18, <3>1 DEF q
    <3>2. CASE id # i  BY <1>4, <1>18, <3>2
    <3> QED BY <3>1, <3>2
  <2> QED BY <2>1, <2>2, <2>3
<1>19. ASSUME NEW x \in lv, \A id \in QueueId : x \notin ToSet(R[id])
       PROVE  g[x] = NoPcb
  <2>1. x # p /\ x \notin ToSet(q)  BY <1>3, <1>13, <1>19
  <2>2. \A id \in QueueId : x \notin ToSet(Q[id])  BY <1>4, <1>19, <2>1 DEF q
  <2>3. next[x] = NoPcb  BY <1>2, <2>2
  <2>4. ~(k > 1 /\ x = q[k - 1])  BY <1>14, <2>1
  <2>5. x \in Pcb  BY <1>1
  <2> QED BY <1>9, <2>1, <2>3, <2>4, <2>5
<1>20. ListsAre(R, h2, t2, g, s, lv)  BY <1>5, <1>17, <1>18, <1>19 DEF ListsAre
<1> QED BY <1>11, <1>20 DEF R, h2, t2, g, q

(* pcb_remove in memory is pcb_remove of the queues. *)
LEMMA TakeLists ==
  ASSUME NEW Q, NEW h, NEW t, NEW next, NEW s, NEW lv,
         ListTypes(h, t, next, s, lv), ListsAre(Q, h, t, next, s, lv),
         NEW i \in QueueId, NEW p, NEW k \in 1..Len(Q[i]), p = Q[i][k], i = Selector(s[p])
  PROVE  /\ ListTypes(TakeHead(h, next, i, p, k), TakeTail(t, Q[i], i, p, k),
                      TakeNext(next, Q[i], p, k), s, lv)
         /\ ListsAre(pcb_remove(Q, s, p), TakeHead(h, next, i, p, k),
                     TakeTail(t, Q[i], i, p, k), TakeNext(next, Q[i], p, k), s, lv)
<1> DEFINE q == Q[i]
           R == pcb_remove(Q, s, p)
           h2 == TakeHead(h, next, i, p, k)
           t2 == TakeTail(t, q, i, p, k)
           g == TakeNext(next, q, p, k)
<1>1. /\ h \in [QueueId -> Pcb \cup {NoPcb}] /\ t \in [QueueId -> Pcb \cup {NoPcb}]
      /\ next \in [Pcb -> Pcb \cup {NoPcb}] /\ s \in [Pcb -> PcbState] /\ lv \subseteq Pcb
  BY DEF ListTypes
<1>2. /\ Q \in [QueueId -> Seq(Pcb)]
      /\ \A id \in QueueId : Spells(Q[id], h[id], next)
      /\ \A id \in QueueId : t[id] = IF Q[id] = <<>> THEN NoPcb ELSE Q[id][Len(Q[id])]
      /\ \A id \in QueueId : \A x \in ToSet(Q[id]) : x \in lv /\ Selector(s[x]) = id
      /\ \A x \in lv : (\A id \in QueueId : x \notin ToSet(Q[id])) => next[x] = NoPcb
  BY DEF ListsAre
<1>3. q \in Seq(Pcb) /\ IsInjective(q) /\ p = q[k]  BY <1>2 DEF Spells
<1> HIDE DEF q
<1>4. Len(q) \in Nat /\ DOMAIN q = 1..Len(q) /\ \A j \in 1..Len(q) : q[j] \in Pcb /\ q[j] \in ToSet(q)
  <2>1. Len(q) \in Nat /\ DOMAIN q = 1..Len(q)  BY <1>3, LenProperties
  <2>2. \A j \in 1..Len(q) : q[j] \in Pcb  BY <1>3, ElementOfSeq
  <2> QED BY <2>1, <2>2 DEF ToSet
<1>5. k \in 1..Len(q)  BY DEF q
<1>6. p \in Pcb /\ p \in ToSet(q) /\ \A j \in 1..Len(q) : q[j] = p => j = k
  BY <1>3, <1>4, <1>5 DEF IsInjective
<1>7. R = [Q EXCEPT ![i] = RemoveFirst(q, p)]  BY Zenon DEF pcb_remove, q
<1>8. /\ RemoveFirst(q, p) = RemoveAt(q, k) /\ RemoveFirst(q, p) \in Seq(Pcb)
      /\ ToSet(RemoveFirst(q, p)) = ToSet(q) \ {p}
  <2>1. PICK j \in 1..Len(q) : q[j] = p /\ RemoveFirst(q, p) = RemoveAt(q, j)
    BY <1>3, <1>6, RemoveFirstIsRemoveAt
  <2>2. j = k  BY <1>6, <2>1
  <2> QED BY <1>3, <2>1, <2>2, RemoveFirstType, RemoveFirstSet
<1>9. /\ R \in [QueueId -> Seq(Pcb)] /\ R[i] = RemoveAt(q, k) /\ ToSet(R[i]) = ToSet(q) \ {p}
      /\ \A id \in QueueId : id # i => R[id] = Q[id]
  <2> HIDE DEF R
  <2> QED BY <1>2, <1>7, <1>8
<1>10. \A j \in 1..Len(q) : next[q[j]] = IF j = Len(q) THEN NoPcb ELSE q[j + 1]
  BY <1>2 DEF Spells, q
<1>11. k > 1 => k - 1 \in 1..Len(q) /\ q[k - 1] \in Pcb /\ q[k - 1] \in ToSet(q)
  <2>1. k > 1 => k - 1 \in 1..Len(q)  BY <1>4, <1>5
  <2> QED BY <1>4, <2>1
<1>12. next[p] \in Pcb \cup {NoPcb}  BY <1>1, <1>6
<1>13. k # 1 => k > 1  BY <1>5
<1>14. /\ h2 \in [QueueId -> Pcb \cup {NoPcb}]
       /\ h2[i] = IF k = 1 THEN next[p] ELSE h[i]
       /\ \A id \in QueueId : id # i => h2[id] = h[id]
  BY <1>1, <1>12 DEF TakeHead
<1>15. /\ t2 \in [QueueId -> Pcb \cup {NoPcb}]
       /\ t2[i] = IF t[i] = p THEN IF k = 1 THEN NoPcb ELSE q[k - 1] ELSE t[i]
       /\ \A id \in QueueId : id # i => t2[id] = t[id]
  BY <1>1, <1>11, <1>13 DEF TakeTail
<1>16. \A x \in Pcb : g[x] = IF x = p THEN NoPcb
                             ELSE IF k > 1 /\ x = q[k - 1] THEN next[p] ELSE next[x]
  BY DEF TakeNext
<1>17. g \in [Pcb -> Pcb \cup {NoPcb}]  BY <1>1, <1>12 DEF TakeNext
<1> HIDE DEF R, h2, t2, g
<1>18. ListTypes(h2, t2, g, s, lv)  BY <1>1, <1>14, <1>15, <1>17 DEF ListTypes
<1>19. Spells(R[i], h2[i], g)
  <2>1. Spells(q, h[i], next)  BY <1>2 DEF q
  <2>2. Spells(RemoveAt(q, k), IF k = 1 THEN next[p] ELSE h[i], TakeNext(next, q, p, k))
    BY <1>1, <1>3, <1>5, <2>1, TakeSpells
  <2> QED BY <1>9, <1>14, <2>2, Zenon DEF g
<1>20. ASSUME NEW id \in QueueId, id # i
       PROVE  Spells(R[id], h2[id], g)
  <2>1. \A x \in ToSet(Q[id]) : x \in Pcb /\ x # p /\ ~(k > 1 /\ x = q[k - 1])
    <3>1. \A x \in ToSet(Q[id]) : x \in lv /\ Selector(s[x]) = id  BY <1>2
    <3>2. \A x \in ToSet(q) : Selector(s[x]) = i  BY <1>2 DEF q
    <3> QED BY <1>1, <1>6, <1>11, <1>20, <3>1, <3>2
  <2>2. \A x \in ToSet(Q[id]) : g[x] = next[x]  BY <1>16, <2>1
  <2>3. Q[id] \in Seq(Pcb) /\ Spells(Q[id], h[id], next)  BY <1>2
  <2>4. Spells(Q[id], h[id], g)  BY <2>2, <2>3, OtherSpells
  <2> QED BY <1>9, <1>14, <1>20, <2>4
<1>21. t2[i] = IF R[i] = <<>> THEN NoPcb ELSE R[i][Len(R[i])]
  <2>1. /\ R[i] \in Seq(Pcb) /\ Len(R[i]) = Len(q) - 1
        /\ \A j \in 1..(Len(q) - 1) : R[i][j] = IF j < k THEN q[j] ELSE q[j + 1]
    BY <1>3, <1>5, <1>9, RemoveAtProperties
  <2>2. q # <<>>  BY <1>3, <1>4, <1>5, EmptySeq
  <2>3. t[i] = q[Len(q)]  BY <1>2, <2>2 DEF q
  <2>4. CASE Len(q) = 1
    <3>1. Len(R[i]) = 0 /\ k = 1  BY <1>5, <2>1, <2>4
    <3>2. R[i] = <<>>  BY <2>1, <3>1, EmptySeq
    <3> QED BY <1>3, <1>15, <2>3, <2>4, <3>1, <3>2
  <2>5. CASE Len(q) # 1
    <3>1. /\ Len(q) - 1 \in 1..(Len(q) - 1) /\ Len(q) - 1 # 0 /\ Len(q) \in 1..Len(q)
          /\ (Len(q) - 1) + 1 = Len(q)
      BY <1>4, <1>5, <2>5
    <3>2. R[i] # <<>>  BY <2>1, <3>1, EmptySeq
    <3>3. CASE k = Len(q)
      <4>1. Len(q) - 1 < k /\ k # 1 /\ Len(q) - 1 = k - 1  BY <1>4, <2>5, <3>3
      <4>2. R[i][Len(R[i])] = q[k - 1]  BY <2>1, <3>1, <4>1
      <4> QED BY <1>3, <1>15, <2>3, <3>2, <3>3, <4>1, <4>2
    <3>4. CASE k # Len(q)
      <4>1. ~(Len(q) - 1 < k)
        <5>1. Len(q) \in Nat /\ k \in 1..Len(q)  BY <1>4, <1>5
        <5> QED BY ONLY <3>4, <5>1
      <4>2. R[i][Len(R[i])] = q[Len(q)]  BY <2>1, <3>1, <4>1
      <4>3. t[i] # p  BY <1>6, <2>3, <3>1, <3>4
      <4> QED BY <1>15, <2>3, <3>2, <4>2, <4>3
    <3> QED BY <3>3, <3>4
  <2> QED BY <2>4, <2>5
<1>22. ASSUME NEW id \in QueueId
       PROVE  /\ Spells(R[id], h2[id], g)
              /\ t2[id] = IF R[id] = <<>> THEN NoPcb ELSE R[id][Len(R[id])]
  <2>1. CASE id = i  BY <1>19, <1>21, <2>1
  <2>2. CASE id # i  BY <1>2, <1>9, <1>15, <1>20, <2>2
  <2> QED BY <2>1, <2>2
<1>23. ASSUME NEW id \in QueueId, NEW x \in ToSet(R[id])
       PROVE  x \in lv /\ Selector(s[x]) = id
  <2>1. x \in ToSet(Q[id])
    <3>1. CASE id = i  BY <1>9, <1>23, <3>1 DEF q
    <3>2. CASE id # i  BY <1>9, <1>23, <3>2
    <3> QED BY <3>1, <3>2
  <2> QED BY <1>2, <2>1
<1>24. ASSUME NEW x \in lv, \A id \in QueueId : x \notin ToSet(R[id])
       PROVE  g[x] = NoPcb
  <2>1. x \in Pcb  BY <1>1
  <2>2. CASE x = p  BY <1>16, <2>1, <2>2
  <2>3. CASE x # p
    <3>1. x \notin ToSet(q)  BY <1>9, <1>24, <2>3
    <3>2. \A id \in QueueId : x \notin ToSet(Q[id])  BY <1>9, <1>24, <3>1 DEF q
    <3>3. next[x] = NoPcb  BY <1>2, <3>2
    <3>4. ~(k > 1 /\ x = q[k - 1])  BY <1>11, <3>1
    <3> QED BY <1>16, <2>1, <2>3, <3>3, <3>4
  <2> QED BY <2>2, <2>3
<1>25. ListsAre(R, h2, t2, g, s, lv)  BY <1>9, <1>22, <1>23, <1>24 DEF ListsAre
<1> QED BY <1>18, <1>25 DEF R, h2, t2, g, q

(* A PCB in no queue may change, and come and go, with the queues as they are. *)
LEMMA AsideLists ==
  ASSUME NEW Q, NEW h, NEW t, NEW next, NEW s, NEW lv,
         ListTypes(h, t, next, s, lv), ListsAre(Q, h, t, next, s, lv),
         NEW p \in Pcb, \A id \in QueueId : p \notin ToSet(Q[id]),
         NEW g \in [Pcb -> Pcb \cup {NoPcb}], NEW s2 \in [Pcb -> PcbState], NEW lv2 \in SUBSET Pcb,
         \A x \in Pcb \ {p} : g[x] = next[x] /\ s2[x] = s[x] /\ (x \in lv2 <=> x \in lv),
         p \in lv2 => g[p] = NoPcb
  PROVE  ListTypes(h, t, g, s2, lv2) /\ ListsAre(Q, h, t, g, s2, lv2)
<1>1. ListTypes(h, t, g, s2, lv2)  BY DEF ListTypes
<1>2. /\ Q \in [QueueId -> Seq(Pcb)] /\ lv \subseteq Pcb
      /\ \A id \in QueueId : Spells(Q[id], h[id], next)
      /\ \A id \in QueueId : t[id] = IF Q[id] = <<>> THEN NoPcb ELSE Q[id][Len(Q[id])]
      /\ \A id \in QueueId : \A x \in ToSet(Q[id]) : x \in lv /\ Selector(s[x]) = id
      /\ \A x \in lv : (\A id \in QueueId : x \notin ToSet(Q[id])) => next[x] = NoPcb
  BY DEF ListsAre, ListTypes
<1>3. \A id \in QueueId : \A x \in ToSet(Q[id]) : x \in Pcb \ {p}  BY <1>2
<1>4. \A id \in QueueId : Spells(Q[id], h[id], g)
  <2> SUFFICES ASSUME NEW id \in QueueId PROVE Spells(Q[id], h[id], g)
    OBVIOUS
  <2>1. \A x \in ToSet(Q[id]) : g[x] = next[x]  BY <1>3
  <2>2. Q[id] \in Seq(Pcb) /\ Spells(Q[id], h[id], next)  BY <1>2
  <2> QED BY <2>1, <2>2, OtherSpells
<1>5. \A id \in QueueId : \A x \in ToSet(Q[id]) : x \in lv2 /\ Selector(s2[x]) = id
  BY <1>2, <1>3
<1>6. \A x \in lv2 : (\A id \in QueueId : x \notin ToSet(Q[id])) => g[x] = NoPcb
  <2> SUFFICES ASSUME NEW x \in lv2, \A id \in QueueId : x \notin ToSet(Q[id])
               PROVE  g[x] = NoPcb
    OBVIOUS
  <2>1. CASE x = p  BY <2>1
  <2>2. CASE x # p  BY <1>2, <2>2
  <2> QED BY <2>1, <2>2
<1> QED BY <1>1, <1>2, <1>4, <1>5, <1>6 DEF ListsAre

-----------------------------------------------------------------------------
(* The queues one finds in memory. *)
walks == [i \in QueueId |-> Walk(i)]

LInv == /\ ListTypes(head, tail, p_next, st, live)
        /\ ListsAre(walks, head, tail, p_next, st, live)

(* They are the queues the pointers hold, now and after each step. *)
WalksFound ==
  \A Q \in [QueueId -> Seq(Pcb)] :
    (\A id \in QueueId : Spells(Q[id], head[id], p_next)) => walks = Q

LEMMA WalksAre == WalksFound
<1> SUFFICES ASSUME NEW Q \in [QueueId -> Seq(Pcb)],
                    \A id \in QueueId : Spells(Q[id], head[id], p_next)
             PROVE  walks = Q
  BY DEF WalksFound
<1>1. \A id \in QueueId : Walk(id) = Q[id]
  <2> SUFFICES ASSUME NEW id \in QueueId PROVE Walk(id) = Q[id]
    OBVIOUS
  <2>1. Q[id] \in Seq(Pcb) /\ Spells(Q[id], head[id], p_next)  OBVIOUS
  <2> QED BY <2>1, WalkSpells
<1> QED BY <1>1 DEF walks

(* So it is enough to know what queues the pointers hold after a step. *)
LEMMA HoldLists ==
  ASSUME NEW Q, ListTypes(head', tail', p_next', st', live'),
         ListsAre(Q, head', tail', p_next', st', live')
  PROVE  LInv' /\ walks' = Q
<1>1. WalksFound'  BY WalksAre, PTL
<1>2. /\ Q \in [QueueId -> Seq(Pcb)]
      /\ \A id \in QueueId : Spells(Q[id], head'[id], p_next')
  BY DEF ListsAre
<1>3. walks' = Q
  <2> HIDE DEF walks
  <2>1. \A R \in [QueueId -> Seq(Pcb)] :
          (\A id \in QueueId : Spells(R[id], head'[id], p_next')) => walks' = R
    BY <1>1 DEF WalksFound, Spells
  <2> QED BY <1>2, <2>1
<1> QED BY <1>3 DEF LInv, ListTypes, ListsAre, Spells

(* Where pcb_insert links p in is where the queue has its place. *)
LEMMA BeforeIsPlace ==
  ASSUME LInv, NEW p \in Pcb, NEW i, i = Selector(st[p])
  PROVE  /\ Place(walks[i], st, p) = IF Before(i, p) = 0 THEN Len(walks[i]) + 1 ELSE Before(i, p)
         /\ Before(i, p) # 0 => Before(i, p) \in 1..Len(walks[i])
<1> DEFINE q == Walk(i)
           I == {j \in 1..Len(q) : st[p].pri < st[q[j]].pri}
<1>1. i \in QueueId
  <2>1. st[p] \in PcbState  BY DEF LInv, ListTypes
  <2> QED BY <2>1, SelectorType
<1>2. walks[i] = q /\ Len(q) \in Nat
  <2>1. walks[i] = q  BY <1>1 DEF walks
  <2>2. walks[i] \in Seq(Pcb)  BY <1>1 DEF LInv, ListsAre
  <2> QED BY <2>1, <2>2, LenProperties
<1>3. CASE ~IsPriority(i)  BY <1>2, <1>3 DEF Place, Before
<1>4. CASE IsPriority(i)
  <2>1. Place(walks[i], st, p) = Min(I \cup {Len(q) + 1})  BY <1>2, <1>4 DEF Place, InsertPos
  <2>2. Before(i, p) = IF I # {} THEN Min(I) ELSE 0  BY <1>4, Zenon DEF Before, SelectInSeq
  <2>3. I \in SUBSET Nat /\ \A j \in I : j # 0 /\ j < Len(q) + 1 /\ j \in 1..Len(q)
    <3> HIDE DEF q
    <3> QED BY <1>2
  <2> HIDE DEF I, q
  <2>4. I \cup {Len(q) + 1} \in SUBSET Nat /\ I \cup {Len(q) + 1} # {}
    <3>1. Len(q) + 1 \in Nat  BY <1>2
    <3>2. I \subseteq Nat  BY <2>3
    <3> QED BY ONLY <3>1, <3>2
  <2> DEFINE m == Min(I \cup {Len(q) + 1})
  <2>5. m \in I \cup {Len(q) + 1} /\ \A j \in I \cup {Len(q) + 1} : m <= j
    BY <2>4, MinIsLeast
  <2> HIDE DEF m
  <2>6. CASE I = {}
    <3>1. m = Len(q) + 1 /\ Before(i, p) = 0  BY <2>2, <2>5, <2>6
    <3> QED BY <1>2, <2>1, <3>1 DEF m
  <2>7. CASE I # {}
    <3> DEFINE n == Min(I)
    <3>1. n \in I /\ \A j \in I : n <= j  BY <2>3, <2>7, MinIsLeast
    <3> HIDE DEF n
    <3>2. n \in Nat /\ n # 0 /\ n < Len(q) + 1 /\ m <= n /\ n \in 1..Len(q)
      BY <2>3, <2>5, <3>1
    <3>3. m \in Nat /\ m # Len(q) + 1  BY <1>2, <2>4, <2>5, <3>2
    <3>4. m = n  BY <2>5, <3>1, <3>2, <3>3
    <3> QED BY <1>2, <2>1, <2>2, <2>7, <3>2, <3>4 DEF m, n
  <2> QED BY <2>6, <2>7
<1> QED BY <1>3, <1>4

-----------------------------------------------------------------------------
(* One step of the lists: what it leaves and what it does to the queues.     *)
LEMMA ElementsQueued ==
  ASSUME LInv
  PROVE  /\ \A p \in Pcb : Found(p) <=> \E id \in QueueId : p \in ToSet(walks[id])
         /\ \A id \in QueueId : walks[id] = Walk(id) /\ walks[id] \in Seq(Pcb)
<1>1. \A id \in QueueId : walks[id] = Walk(id)  BY DEF walks
<1>2. walks \in [QueueId -> Seq(Pcb)]  BY DEF LInv, ListsAre
<1> HIDE DEF walks
<1> QED BY <1>1, <1>2 DEF Found

LEMMA InitLists == Init => LInv /\ walks = [id \in QueueId |-> <<>>]
<1> SUFFICES ASSUME Init PROVE LInv /\ walks = [id \in QueueId |-> <<>>]
  OBVIOUS
<1> DEFINE Q == [id \in QueueId |-> <<>>]
<1>1. ListTypes(head, tail, p_next, st, live)
  <2>1. (CHOOSE s \in States : TRUE) \in PcbState
    <3>1. \E s : s \in States  BY ListAssumption
    <3>2. (CHOOSE s : s \in States) \in States  BY <3>1
    <3>3. (CHOOSE s \in States : TRUE) \in States  BY <3>1
    <3> QED BY <3>3, ListAssumption
  <2> QED BY <2>1 DEF Init, ListTypes
<1>2. ListsAre(Q, head, tail, p_next, st, live)
  <2>1. Spells(<<>>, NoPcb, p_next)  BY DEF Spells, IsInjective
  <2>2. ToSet(<<>>) = {}  BY DEF ToSet
  <2>3. Q \in [QueueId -> Seq(Pcb)]  OBVIOUS
  <2>4. \A id \in QueueId : Q[id] = <<>>  OBVIOUS
  <2> HIDE DEF Q
  <2> QED BY <2>1, <2>2, <2>3, <2>4 DEF Init, ListsAre
<1>3. walks = Q
  <2> HIDE DEF Q
  <2> QED BY <1>2, WalksAre DEF WalksFound, ListsAre
<1> QED BY <1>1, <1>2, <1>3 DEF LInv

(* pcb_setup, the callers' changes and pcb_free are of a PCB in no queue. *)
LEMMA SetupLists ==
  ASSUME LInv, NEW p \in Pcb, Setup(p)
  PROVE  LInv' /\ walks' = walks
<1>1. PICK Q : Q = walks  OBVIOUS
<1>2. ListTypes(head, tail, p_next, st, live) /\ ListsAre(Q, head, tail, p_next, st, live)
  BY <1>1 DEF LInv
<1>3. \A id \in QueueId : p \notin ToSet(Q[id])  BY <1>2 DEF ListsAre, Setup
<1>4. /\ p_next' \in [Pcb -> Pcb \cup {NoPcb}] /\ live' \in SUBSET Pcb
      /\ p_next'[p] = NoPcb /\ st' = st /\ head' = head /\ tail' = tail /\ st \in [Pcb -> PcbState]
      /\ \A x \in Pcb \ {p} : p_next'[x] = p_next[x] /\ (x \in live' <=> x \in live)
  BY <1>2 DEF ListTypes, Setup
<1>5. ListTypes(head', tail', p_next', st', live') /\ ListsAre(Q, head', tail', p_next', st', live')
  <2>1. ListTypes(head, tail, p_next', st, live') /\ ListsAre(Q, head, tail, p_next', st, live')
    BY <1>2, <1>3, <1>4, AsideLists
  <2> QED BY <1>4, <2>1
<1> QED BY <1>1, <1>5, HoldLists

LEMMA ChangeLists ==
  ASSUME LInv, NEW p \in Pcb, Change(p)
  PROVE  LInv' /\ walks' = walks
<1>1. PICK Q : Q = walks  OBVIOUS
<1>2. ListTypes(head, tail, p_next, st, live) /\ ListsAre(Q, head, tail, p_next, st, live)
  BY <1>1 DEF LInv
<1>3. \A id \in QueueId : p \notin ToSet(Q[id])
  BY <1>1, ElementsQueued DEF Change, Held
<1>4. /\ st' \in [Pcb -> PcbState] /\ p_next \in [Pcb -> Pcb \cup {NoPcb}] /\ live \in SUBSET Pcb
      /\ p_next' = p_next /\ live' = live /\ head' = head /\ tail' = tail
      /\ \A x \in Pcb \ {p} : st'[x] = st[x]
  BY <1>2, ListAssumption DEF ListTypes, Change, list
<1>5. p_next[p] = NoPcb  BY <1>2, <1>3 DEF ListsAre, Change, Held
<1>6. ListTypes(head', tail', p_next', st', live') /\ ListsAre(Q, head', tail', p_next', st', live')
  <2>1. ListTypes(head, tail, p_next, st', live) /\ ListsAre(Q, head, tail, p_next, st', live)
    BY <1>2, <1>3, <1>4, <1>5, AsideLists
  <2> QED BY <1>4, <2>1
<1> QED BY <1>1, <1>6, HoldLists

LEMMA FreeLists ==
  ASSUME LInv, NEW p \in Pcb, Free(p)
  PROVE  LInv' /\ walks' = walks
<1>1. PICK Q : Q = walks  OBVIOUS
<1>2. ListTypes(head, tail, p_next, st, live) /\ ListsAre(Q, head, tail, p_next, st, live)
  BY <1>1 DEF LInv
<1>3. \A id \in QueueId : p \notin ToSet(Q[id])
  BY <1>1, ElementsQueued DEF Free, Held
<1>4. /\ p_next' \in [Pcb -> Pcb \cup {NoPcb}] /\ live' \in SUBSET Pcb /\ p \notin live'
      /\ st' = st /\ head' = head /\ tail' = tail /\ st \in [Pcb -> PcbState]
      /\ \A x \in Pcb \ {p} : p_next'[x] = p_next[x] /\ (x \in live' <=> x \in live)
  BY <1>2 DEF ListTypes, Free
<1>5. ListTypes(head', tail', p_next', st', live') /\ ListsAre(Q, head', tail', p_next', st', live')
  <2>1. ListTypes(head, tail, p_next', st, live') /\ ListsAre(Q, head, tail, p_next', st, live')
    BY <1>2, <1>3, <1>4, AsideLists
  <2> QED BY <1>4, <2>1
<1> QED BY <1>1, <1>5, HoldLists

(* pcb_insert, whichever of its ways through the list it takes. *)
LEMMA PutStep ==
  ASSUME LInv, NEW p \in Pcb, Put(p)
  PROVE  LInv' /\ walks' = pcb_insert(walks, st, p)
<1>1. PICK Q : Q = walks  OBVIOUS
<1>2. ListTypes(head, tail, p_next, st, live) /\ ListsAre(Q, head, tail, p_next, st, live)
  BY <1>1 DEF LInv
<1> DEFINE i == Selector(st[p])
           q == Q[i]
           k == Place(q, st, p)
<1>3. /\ \A id \in QueueId : p \notin ToSet(Q[id])
      /\ p \in live /\ i \in QueueId /\ st \in [Pcb -> PcbState]
  <2>1. st \in [Pcb -> PcbState] /\ st[p] \in PcbState  BY <1>2 DEF ListTypes
  <2>2. i \in QueueId  BY <2>1, SelectorType
  <2>3. p \in live /\ \A id \in QueueId : p \notin ToSet(Q[id])
    BY <1>1, ElementsQueued DEF Put, Held
  <2> QED BY <2>1, <2>2, <2>3
<1>4. q = Walk(i) /\ q \in Seq(Pcb)  BY <1>1, <1>3, ElementsQueued
<1>5. k \in 1..(Len(q) + 1)
  <2>1. k = IF IsPriority(i) THEN InsertPos(q, st, p) ELSE Len(q) + 1  BY DEF Place
  <2>2. InsertPos(q, st, p) \in 1..(Len(q) + 1)  BY <1>3, <1>4, InsertPosRange
  <2>3. Len(q) + 1 \in 1..(Len(q) + 1)  BY <1>4, LenProperties
  <2> QED BY <2>1, <2>2, <2>3
<1>6. /\ k = IF Before(i, p) = 0 THEN Len(q) + 1 ELSE Before(i, p)
      /\ Before(i, p) # 0 => Before(i, p) \in 1..Len(q)
  BY <1>1, BeforeIsPlace
<1>7. Spells(q, head[i], p_next) /\ tail[i] = IF q = <<>> THEN NoPcb ELSE q[Len(q)]
  BY <1>2, <1>3 DEF ListsAre
<1>8. p_next[p] = NoPcb  BY <1>2, <1>3 DEF ListsAre
<1>9. /\ InsertEmpty(i, p) \/ InsertTail(i, p) \/ InsertHead(i, p) \/ InsertBetween(i, p)
      /\ st' = st /\ live' = live
  BY DEF Put
<1>10. /\ head \in [QueueId -> Pcb \cup {NoPcb}] /\ tail \in [QueueId -> Pcb \cup {NoPcb}]
       /\ p_next \in [Pcb -> Pcb \cup {NoPcb}]
  BY <1>2 DEF ListTypes
<1> HIDE DEF i, q, k
<1>11. Len(q) \in Nat /\ \A j \in 1..Len(q) : q[j] \in Pcb /\ q[j] # NoPcb /\ q[j] # p
  <2>1. Len(q) \in Nat /\ DOMAIN q = 1..Len(q)  BY <1>4, LenProperties
  <2>2. \A j \in 1..Len(q) : q[j] \in Pcb  BY <1>4, ElementOfSeq
  <2>3. \A j \in 1..Len(q) : q[j] \in ToSet(q)  BY <2>1 DEF ToSet
  <2>4. p \notin ToSet(q)  BY <1>3 DEF q
  <2> QED BY <2>1, <2>2, <2>3, <2>4, ListAssumption
<1>12. (q = <<>> <=> Len(q) = 0) /\ (q # <<>> => 1 \in 1..Len(q) /\ Len(q) \in 1..Len(q))
  <2>1. q = <<>> <=> Len(q) = 0  BY <1>4, EmptySeq
  <2> QED BY <1>11, <2>1
<1>13. head[i] = NoPcb <=> q = <<>>
  <2>1. head[i] = IF q = <<>> THEN NoPcb ELSE q[1]  BY <1>7 DEF Spells
  <2> QED BY <1>11, <1>12, <2>1
<1>14. /\ head' = PutHead(head, i, p, k) /\ tail' = PutTail(tail, i, p, k, Len(q))
       /\ p_next' = PutNext(p_next, q, p, k)
  <2>1. CASE InsertEmpty(i, p)
    <3>1. Len(q) = 0 /\ k = 1 /\ k = Len(q) + 1 /\ ~(k > 1)
      BY <1>5, <1>12, <1>13, <2>1 DEF InsertEmpty
    <3>2. /\ head' = [head EXCEPT ![i] = p] /\ tail' = [tail EXCEPT ![i] = p]
          /\ p_next' = p_next
      BY <2>1 DEF InsertEmpty
    <3>3. PutNext(p_next, q, p, k) = p_next  BY <1>8, <1>10, <3>1 DEF PutNext
    <3> QED BY <3>1, <3>2, <3>3 DEF PutHead, PutTail
  <2>2. CASE InsertTail(i, p)
    <3>1. q # <<>> /\ k = Len(q) + 1 /\ k # 1 /\ k > 1 /\ k - 1 = Len(q)
      BY <1>6, <1>11, <1>12, <1>13, <2>2 DEF InsertTail
    <3>2. /\ head' = head /\ tail' = [tail EXCEPT ![i] = p]
          /\ p_next' = [p_next EXCEPT ![Rear(i)] = p]
      BY <2>2 DEF InsertTail
    <3>3. Rear(i) = q[Len(q)]
      <4>1. head[i] = q[1] /\ tail[i] = q[Len(q)]  BY <1>7, <3>1 DEF Spells
      <4>2. p_next[q[1]] = IF 1 = Len(q) THEN NoPcb ELSE q[1 + 1]
        BY <1>7, <1>12, <3>1 DEF Spells
      <4>3. 1 # Len(q) => p_next[q[1]] # NoPcb
        <5>1. 1 # Len(q) => 1 + 1 \in 1..Len(q)  BY <1>11, <1>12, <3>1
        <5> QED BY <1>11, <4>2, <5>1
      <4> QED BY <4>1, <4>2, <4>3 DEF Rear
    <3>4. PutHead(head, i, p, k) = head  BY <1>10, <3>1 DEF PutHead
    <3>5. q[Len(q)] \in Pcb /\ q[Len(q)] # p  BY <1>11, <1>12, <3>1
    <3>6. p_next' = PutNext(p_next, q, p, k)
      BY <1>8, <1>10, <3>1, <3>2, <3>3, <3>5 DEF PutNext
    <3> QED BY <3>1, <3>2, <3>4, <3>6 DEF PutTail
  <2>3. CASE InsertHead(i, p)
    <3>1. q # <<>> /\ k = 1 /\ k # Len(q) + 1 /\ ~(k > 1)
      BY <1>6, <1>11, <1>12, <1>13, <2>3 DEF InsertHead
    <3>2. /\ head' = [head EXCEPT ![i] = p] /\ tail' = tail
          /\ p_next' = [p_next EXCEPT ![p] = head[i]]
      BY <2>3 DEF InsertHead
    <3>3. head[i] = q[k]  BY <1>7, <3>1 DEF Spells
    <3>4. PutTail(tail, i, p, k, Len(q)) = tail  BY <1>10, <3>1 DEF PutTail
    <3>5. p_next' = PutNext(p_next, q, p, k)  BY <1>10, <3>1, <3>2, <3>3 DEF PutNext
    <3> QED BY <3>1, <3>2, <3>4, <3>5 DEF PutHead
  <2>4. CASE InsertBetween(i, p)
    <3>1. /\ k = Before(i, p) /\ k > 1 /\ k # 1
          /\ p_next' = [p_next EXCEPT ![q[k-1]] = p, ![p] = q[k]]
          /\ head' = head /\ tail' = tail
      <4>1. /\ Before(i, p) > 1 /\ head' = head /\ tail' = tail
            /\ p_next' = [p_next EXCEPT ![q[Before(i, p) - 1]] = p, ![p] = q[Before(i, p)]]
        BY <1>4, <2>4 DEF InsertBetween
      <4>2. Before(i, p) # 0
        <5>1. Before(i, p) = 0 => ~(Before(i, p) > 1)  OBVIOUS
        <5> QED BY <4>1, <5>1
      <4>3. k = Before(i, p)  BY <1>6, <4>2
      <4> QED BY <1>5, <4>1, <4>3
    <3>2. k # Len(q) + 1
      <4>1. k # 0 /\ k = Before(i, p)  BY <1>5, <3>1
      <4>2. k \in 1..Len(q)  BY <1>6, <4>1
      <4> QED BY <1>11, <4>2
    <3>3. PutHead(head, i, p, k) = head /\ PutTail(tail, i, p, k, Len(q)) = tail
      BY <1>10, <3>1, <3>2 DEF PutHead, PutTail
    <3>4. q[k-1] \in Pcb /\ q[k-1] # p
      <4>1. k - 1 \in 1..Len(q)  BY <1>5, <1>11, <3>1
      <4> QED BY <1>11, <4>1
    <3>5. p_next' = PutNext(p_next, q, p, k)  BY <1>10, <3>1, <3>2, <3>4 DEF PutNext
    <3> QED BY <3>1, <3>3, <3>5
  <2> QED BY <1>9, <2>1, <2>2, <2>3, <2>4
<1>15. /\ ListTypes(head', tail', p_next', st', live')
       /\ ListsAre(pcb_insert(Q, st, p), head', tail', p_next', st', live')
  BY <1>2, <1>3, <1>9, <1>14, PutLists DEF i, q, k
<1> QED BY <1>1, <1>15, HoldLists

(* pcb_remove, of the head or of a later PCB. *)
LEMMA TakeStep ==
  ASSUME LInv, NEW p \in Pcb, Take(p)
  PROVE  LInv' /\ walks' = pcb_remove(walks, st, p)
<1>1. PICK Q : Q = walks  OBVIOUS
<1>2. ListTypes(head, tail, p_next, st, live) /\ ListsAre(Q, head, tail, p_next, st, live)
  BY <1>1 DEF LInv
<1> DEFINE i == Selector(st[p])
           q == Q[i]
<1>3. i \in QueueId /\ p \in ToSet(q)
  <2>1. PICK id \in QueueId : p \in ToSet(Q[id])  BY <1>1, ElementsQueued DEF Take
  <2>2. Selector(st[p]) = id  BY <1>2, <2>1 DEF ListsAre
  <2> QED BY <2>1, <2>2
<1>4. q = Walk(i) /\ q \in Seq(Pcb)  BY <1>1, <1>3, ElementsQueued
<1>5. Spells(q, head[i], p_next)  BY <1>2, <1>3 DEF ListsAre
<1>6. RemoveHead(i, p) \/ RemoveLater(i, p)  BY DEF Take
<1>7. st' = st /\ live' = live  BY DEF Take
<1>8. /\ head \in [QueueId -> Pcb \cup {NoPcb}] /\ tail \in [QueueId -> Pcb \cup {NoPcb}]
      /\ p_next \in [Pcb -> Pcb \cup {NoPcb}]
  BY <1>2 DEF ListTypes
<1> HIDE DEF i, q
<1>9. Len(q) \in Nat /\ DOMAIN q = 1..Len(q) /\ \A j \in 1..Len(q) : q[j] \in ToSet(q)
  <2>1. Len(q) \in Nat /\ DOMAIN q = 1..Len(q)  BY <1>4, LenProperties
  <2> QED BY <2>1 DEF ToSet
<1>10. \A j, m \in 1..Len(q) : q[j] = q[m] => j = m  BY <1>5, <1>9 DEF Spells, IsInjective
<1>11. \E k \in 1..Len(q) :
          /\ q[k] = p
          /\ head' = TakeHead(head, p_next, i, p, k) /\ tail' = TakeTail(tail, q, i, p, k)
          /\ p_next' = TakeNext(p_next, q, p, k)
  <2>1. CASE RemoveHead(i, p)
    <3>1. 1 \in 1..Len(q) /\ q # <<>>
      <4>1. PICK j \in 1..Len(q) : q[j] = p  BY <1>3, <1>9 DEF ToSet
      <4>2. 1 \in 1..Len(q) /\ Len(q) # 0  BY <1>9
      <4>3. q # <<>>  BY <1>4, <4>2, EmptySeq
      <4> QED BY <4>2, <4>3
    <3>2. q[1] = p  BY <1>5, <2>1, <3>1 DEF RemoveHead, Spells
    <3>3. /\ head' = [head EXCEPT ![i] = p_next[p]]
          /\ tail' = [tail EXCEPT ![i] = IF tail[i] = p THEN NoPcb ELSE tail[i]]
          /\ p_next' = [p_next EXCEPT ![p] = NoPcb]
      BY <2>1 DEF RemoveHead
    <3>4. head' = TakeHead(head, p_next, i, p, 1)  BY <3>3 DEF TakeHead
    <3>5. tail' = TakeTail(tail, q, i, p, 1)  BY <3>3 DEF TakeTail
    <3>6. p_next' = TakeNext(p_next, q, p, 1)
      <4>1. ~(1 > 1)  OBVIOUS
      <4> QED BY <1>8, <3>3, <4>1 DEF TakeNext
    <3> QED BY <3>1, <3>2, <3>4, <3>5, <3>6
  <2>2. CASE RemoveLater(i, p)
    <3>1. PICK k \in 2..Len(q) :
            /\ q[k] = p /\ head' = head
            /\ tail' = [tail EXCEPT ![i] = IF tail[i] = p THEN q[k-1] ELSE tail[i]]
            /\ p_next' = [p_next EXCEPT ![q[k-1]] = p_next[p], ![p] = NoPcb]
      BY <1>4, <2>2 DEF RemoveLater
    <3>2. k \in 1..Len(q) /\ k > 1 /\ k # 1 /\ k - 1 \in 1..Len(q) /\ k - 1 # k
      BY <1>9, <3>1
    <3>3. q[k-1] # p  BY <1>10, <3>1, <3>2
    <3>4. head' = TakeHead(head, p_next, i, p, k)  BY <1>8, <3>1, <3>2 DEF TakeHead
    <3>5. tail' = TakeTail(tail, q, i, p, k)  BY <3>1, <3>2 DEF TakeTail
    <3>6. q[k-1] \in Pcb  BY <1>4, <3>2, ElementOfSeq
    <3>7. p_next' = TakeNext(p_next, q, p, k)
      BY <1>8, <3>1, <3>2, <3>3, <3>6 DEF TakeNext
    <3> QED BY <3>1, <3>2, <3>4, <3>5, <3>7
  <2> QED BY <1>6, <2>1, <2>2
<1>12. /\ ListTypes(head', tail', p_next', st', live')
       /\ ListsAre(pcb_remove(Q, st, p), head', tail', p_next', st', live')
  <2>1. PICK k \in 1..Len(q) :
          /\ q[k] = p
          /\ head' = TakeHead(head, p_next, i, p, k) /\ tail' = TakeTail(tail, q, i, p, k)
          /\ p_next' = TakeNext(p_next, q, p, k)
    BY <1>11
  <2> QED BY <1>2, <1>3, <1>7, <2>1, TakeLists DEF i, q
<1> QED BY <1>1, <1>12, HoldLists

-----------------------------------------------------------------------------
LEMMA NextLists ==
  ASSUME LInv, [Next]_vars
  PROVE  LInv'
<1>1. CASE UNCHANGED vars
  <2>1. PICK Q : Q = walks  OBVIOUS
  <2>2. /\ ListTypes(head', tail', p_next', st', live')
        /\ ListsAre(Q, head', tail', p_next', st', live')
    BY <1>1, <2>1 DEF LInv, vars
  <2> QED BY <2>2, HoldLists
<1>2. CASE Next
  <2>1. PICK p \in Pcb : Setup(p) \/ Change(p) \/ Put(p) \/ Take(p) \/ Free(p)
    BY <1>2 DEF Next
  <2> QED BY <2>1, SetupLists, ChangeLists, PutStep, TakeStep, FreeLists
<1> QED BY <1>1, <1>2

LEMMA ListsInvariant == Spec => []LInv
<1>1. Init => LInv  BY InitLists
<1>2. LInv /\ [Next]_vars => LInv'  BY NextLists
<1> QED BY <1>1, <1>2, PTL DEF Spec

LEMMA LInvTerminates == LInv => ListsTerminated
<1> SUFFICES ASSUME LInv PROVE ListsTerminated
  OBVIOUS
<1>1. \A p \in live : ~Found(p) => p_next[p] = NoPcb
  <2> SUFFICES ASSUME NEW p \in live, ~Found(p) PROVE p_next[p] = NoPcb
    OBVIOUS
  <2>1. p \in Pcb  BY DEF LInv, ListTypes
  <2>2. \A id \in QueueId : p \notin ToSet(walks[id])  BY <2>1, ElementsQueued
  <2> QED BY <2>2 DEF LInv, ListsAre
<1>2. ASSUME NEW id \in QueueId
      PROVE  IF head[id] = NoPcb THEN tail[id] = NoPcb
             ELSE tail[id] = Last(Walk(id)) /\ p_next[tail[id]] = NoPcb
  <2> DEFINE q == Walk(id)
  <2>1. q = walks[id] /\ q \in Seq(Pcb)  BY ElementsQueued
  <2>2. Spells(q, head[id], p_next) /\ tail[id] = IF q = <<>> THEN NoPcb ELSE q[Len(q)]
    BY <2>1 DEF LInv, ListsAre
  <2> HIDE DEF q
  <2>3. CASE q = <<>>  BY <2>2, <2>3 DEF Spells
  <2>4. CASE q # <<>>
    <3>1. Len(q) # 0 /\ Len(q) \in Nat  BY <2>1, <2>4, EmptySeq, LenProperties
    <3>2. 1 \in 1..Len(q) /\ Len(q) \in 1..Len(q)  BY <3>1
    <3>3. q[1] \in Pcb /\ q[1] # NoPcb  BY <2>1, <3>2, ElementOfSeq, ListAssumption
    <3>4. head[id] = q[1] /\ p_next[q[Len(q)]] = NoPcb  BY <2>2, <2>4, <3>2 DEF Spells
    <3>5. tail[id] = q[Len(q)]  BY <2>2, <2>4
    <3> QED BY <3>3, <3>4, <3>5 DEF q, Last
  <2> QED BY <2>3, <2>4
<1> QED BY <1>1, <1>2 DEF ListsTerminated

(* In memory, after every call of pcb_setup, pcb_insert, pcb_remove and      *)
(* pcb_free, the tail pointer of a queue is on its last PCB and p_next of    *)
(* that PCB, and of every live PCB in no queue, is NULL: what the insertion  *)
(* at the tail, which does not write p_next, relies on.                      *)
THEOREM LinksTerminated == Spec => []ListsTerminated
BY ListsInvariant, LInvTerminates, PTL

-----------------------------------------------------------------------------
(* QueueCalls speaks of the same queues and the same two functions.          *)
LEMMA SameInsert ==
  ASSUME NEW qs, NEW s, NEW p
  PROVE  Queues!pcb_insert(qs, s, p) = pcb_insert(qs, s, p)
BY Zenon DEF Queues!pcb_insert, Queues!Selector, Queues!IsPriority, Queues!InsertPos,
       Queues!InsertAt, Queues!Min, pcb_insert, Selector, IsPriority, InsertPos, InsertAt, Min

LEMMA SameRemove ==
  ASSUME NEW qs, NEW s, NEW p
  PROVE  Queues!pcb_remove(qs, s, p) = pcb_remove(qs, s, p)
BY Zenon DEF Queues!pcb_remove, Queues!Selector, Queues!RemoveFirst, Queues!SelectInSeq,
       Queues!RemoveAt, Queues!Min, pcb_remove, Selector, RemoveFirst, SelectInSeq, RemoveAt, Min

LEMMA SameHeld ==
  ASSUME LInv, NEW p \in Pcb
  PROVE  /\ Queues!Queued(walks, p) <=> Found(p)
         /\ (p \in live /\ ~Queues!Queued(walks, p)) <=> Held(p)
<1>1. Found(p) <=> \E id \in QueueId : p \in ToSet(walks[id])  BY ElementsQueued
<1>2. Queues!Queued(walks, p) <=> \E id \in QueueId : p \in ToSet(walks[id])
  BY Zenon DEF Queues!Queued, Queues!QueueId, Queues!ToSet, QueueId, ToSet
<1> QED BY <1>1, <1>2 DEF Held

LEMMA InitQueues == Init => Queues!Init
<1> SUFFICES ASSUME Init PROVE Queues!Init
  OBVIOUS
<1>1. walks = [id \in QueueId |-> <<>>]  BY InitLists
<1>2. [i \in QueueId |-> Walk(i)] = [id \in QueueId |-> <<>>]  BY <1>1, Zenon DEF walks
<1>3. QueueId = Queues!QueueId  BY DEF QueueId, Queues!QueueId
<1> QED BY <1>2, <1>3, Zenon DEF Queues!Init, Init

LEMMA NextQueues ==
  ASSUME LInv, [Next]_vars
  PROVE  [Queues!Next]_(Queues!vars)
<1>1. [i \in QueueId |-> Walk(i)] = walks /\ [i \in QueueId |-> Walk(i)]' = walks'
  BY Zenon DEF walks
<1>2. CASE UNCHANGED vars
  <2>1. walks' = walks
    <3>1. PICK Q : Q = walks  OBVIOUS
    <3>2. /\ ListTypes(head', tail', p_next', st', live')
          /\ ListsAre(Q, head', tail', p_next', st', live')
      BY <1>2, <3>1 DEF LInv, vars
    <3> QED BY <3>1, <3>2, HoldLists
  <2>2. st' = st /\ live' = live  BY <1>2 DEF vars
  <2> QED BY <1>1, <2>1, <2>2, Zenon DEF Queues!vars
<1>3. CASE Next
  <2>1. PICK p \in Pcb : Setup(p) \/ Change(p) \/ Put(p) \/ Take(p) \/ Free(p)
    BY <1>3 DEF Next
  <2>2. CASE Setup(p)
    <3>1. walks' = walks  BY <2>2, SetupLists
    <3>2. Queues!Setup(p)  BY <1>1, <2>2, <3>1, Zenon DEF Setup, Queues!Setup
    <3> QED BY <3>2, Zenon DEF Queues!Next
  <2>3. CASE Change(p)
    <3>1. walks' = walks  BY <2>3, ChangeLists
    <3>2. Queues!Held(p)
      BY <1>1, <2>3, SameHeld, Zenon DEF Change, Queues!Held
    <3>3. live' = live /\ \E s \in States : st' = [st EXCEPT ![p] = s]
      BY <2>3, Zenon DEF Change
    <3>4. Queues!Change(p)  BY <1>1, <3>1, <3>2, <3>3, Zenon DEF Queues!Change
    <3> QED BY <3>4, Zenon DEF Queues!Next
  <2>4. CASE Put(p)
    <3>1. walks' = Queues!pcb_insert(walks, st, p)  BY <2>4, PutStep, SameInsert, Zenon
    <3>2. Queues!Held(p)
      BY <1>1, <2>4, SameHeld, Zenon DEF Put, Queues!Held
    <3>3. st' = st /\ live' = live  BY <2>4 DEF Put
    <3>4. Queues!Put(p)  BY <1>1, <3>1, <3>2, <3>3, Zenon DEF Queues!Put
    <3> QED BY <3>4, Zenon DEF Queues!Next
  <2>5. CASE Take(p)
    <3>1. walks' = Queues!pcb_remove(walks, st, p)  BY <2>5, TakeStep, SameRemove, Zenon
    <3>2. Queues!Queued(walks, p)  BY <2>5, SameHeld, Zenon DEF Take
    <3>3. st' = st /\ live' = live  BY <2>5 DEF Take
    <3>4. Queues!Take(p)  BY <1>1, <3>1, <3>2, <3>3, Zenon DEF Queues!Take
    <3> QED BY <3>4, Zenon DEF Queues!Next
  <2>6. CASE Free(p)
    <3>1. walks' = walks  BY <2>6, FreeLists
    <3>2. Queues!Held(p)
      BY <1>1, <2>6, SameHeld, Zenon DEF Free, Queues!Held
    <3>3. st' = st /\ live' = live \ {p}  BY <2>6 DEF Free
    <3>4. Queues!Free(p)  BY <1>1, <3>1, <3>2, <3>3, Zenon DEF Queues!Free
    <3> QED BY <3>4, Zenon DEF Queues!Next
  <2> QED BY <2>1, <2>2, <2>3, <2>4, <2>5, <2>6
<1> QED BY <1>2, <1>3

(* The lists in memory are the queues pcb.h promises: from the head pointers *)
(* one walks through queues which pcb_insert and pcb_remove change exactly   *)
(* as QueueCalls does, and no other call changes them.                       *)
THEOREM ListsAreQueues == Spec => ImplementsQueues
<1>1. LInv /\ [Next]_vars => [Queues!Next]_(Queues!vars)  BY NextQueues
<1> QED BY InitQueues, <1>1, ListsInvariant, PTL DEF Spec, ImplementsQueues, Queues!Spec
=============================================================================
