------------------------------ MODULE HeapProofs ------------------------------
(* The heap for every size of it, of the control block and of the requests,  *)
(* with blocks given back in any order: the state keeps its types for ever;  *)
(* until the lists are damaged they are lists, the blocks do not overlap,    *)
(* and what is handed out is what an Allocator would.                        *)
EXTENDS HeapProperties, PcbQueuesProofs

MayNull == Addr \cup {NULL}

LEMMA NotNull == NULL \notin Addr /\ HeapSize \in Nat /\ Hdr \in Nat /\ 0 < Hdr /\ 0 \in Addr
                 /\ Addr \subseteq Nat
BY HeapAssumption DEF NULL, Addr

-----------------------------------------------------------------------------
(* ListFrom as a function of the number of steps. *)
NodeAt(f, m, h, k) == IF k = 0 THEN h ELSE IF f[k-1] = NULL THEN NULL ELSE m[f[k-1]].p_next
Noded(f, m, h, n)  == f = [k \in 0..n |-> NodeAt(f, m, h, k)]

LEMMA NodedAt ==
  ASSUME NEW f, NEW m, NEW h, NEW n, Noded(f, m, h, n), NEW k \in 0..n
  PROVE  f[k] = NodeAt(f, m, h, k)
<1> DEFINE e(j) == NodeAt(f, m, h, j)
<1>1. f = [j \in 0..n |-> e(j)]  BY DEF Noded
<1> HIDE DEF e
<1>2. f[k] = e(k)  BY <1>1
<1> QED BY <1>2 DEF e

(* One step more. *)
LEMMA NodedMore ==
  ASSUME NEW f, NEW m, NEW h, NEW n \in Nat, Noded(f, m, h, n)
  PROVE  \E g : Noded(g, m, h, n + 1)
<1> DEFINE v == IF f[n] = NULL THEN NULL ELSE m[f[n]].p_next
           g == [k \in 0..(n + 1) |-> IF k = n + 1 THEN v ELSE f[k]]
           e(k) == NodeAt(g, m, h, k)
<1>1. ASSUME NEW k \in 0..(n + 1) PROVE g[k] = e(k)
  <2>1. CASE k = n + 1
    <3>1. k # 0 /\ k - 1 = n /\ n \in 0..(n + 1) /\ n # n + 1  BY <2>1
    <3> HIDE DEF v
    <3>2. g[n] = f[n] /\ g[k] = v  BY <2>1, <3>1
    <3> HIDE DEF g
    <3> QED BY <3>1, <3>2 DEF NodeAt, v
  <2>2. CASE k # n + 1
    <3>1. k \in 0..n /\ (k # 0 => k - 1 \in 0..(n + 1) /\ k - 1 # n + 1)  BY <2>2
    <3> HIDE DEF v
    <3>2. g[k] = f[k] /\ (k # 0 => g[k - 1] = f[k - 1])  BY <2>2, <3>1
    <3> HIDE DEF g
    <3>3. f[k] = NodeAt(f, m, h, k)  BY <3>1, NodedAt
    <3> QED BY <3>2, <3>3 DEF NodeAt
  <2> QED BY <2>1, <2>2
<1> HIDE DEF v
<1>2. g = [k \in 0..(n + 1) |-> g[k]]  OBVIOUS
<1> HIDE DEF g, e
<1>3. g = [k \in 0..(n + 1) |-> e(k)]  BY <1>1, <1>2
<1> QED BY <1>3 DEF Noded, e

LEMMA NodedExists ==
  ASSUME NEW m, NEW h, NEW n \in Nat
  PROVE  \E f : Noded(f, m, h, n)
<1> DEFINE T == {i \in Nat : ~\E f : Noded(f, m, h, i)}
<1> SUFFICES T = {}
  BY DEF T
<1> SUFFICES ASSUME T # {} PROVE FALSE
  OBVIOUS
<1>1. Min(T) \in T /\ \A j \in T : Min(T) <= j
  <2>1. T \in SUBSET Nat  OBVIOUS
  <2> HIDE DEF T
  <2> QED BY <2>1, MinIsLeast
<1> DEFINE k == Min(T)
<1>2. k \in Nat /\ ~\E f : Noded(f, m, h, k)  BY <1>1
<1>3. \A j \in T : k <= j  BY <1>1
<1> HIDE DEF k
<1>4. CASE k = 0
  <2> DEFINE g == [j \in 0..0 |-> h]
             e(j) == NodeAt(g, m, h, j)
  <2>1. \A j \in 0..0 : e(j) = h  BY DEF NodeAt
  <2>2. g = [j \in 0..0 |-> e(j)]
    <3> HIDE DEF e
    <3> QED BY <2>1
  <2> HIDE DEF g
  <2>3. Noded(g, m, h, 0)  BY <2>2 DEF Noded
  <2> QED BY <1>2, <1>4, <2>3
<1>5. CASE k # 0
  <2>1. k - 1 \in Nat /\ ~(k <= k - 1) /\ (k - 1) + 1 = k  BY <1>2, <1>5
  <2>2. k - 1 \notin T
    <3> HIDE DEF T
    <3> QED BY <1>3, <2>1
  <2>3. PICK f : Noded(f, m, h, k - 1)  BY <2>1, <2>2
  <2>4. \E g : Noded(g, m, h, (k - 1) + 1)  BY <2>1, <2>3, NodedMore
  <2> QED BY <1>2, <2>1, <2>4
<1> QED BY <1>4, <1>5

(* What ListFrom goes through, and where it ends. *)
Stops(f, n, q) ==
  /\ q = [i \in 1..n |-> f[i - 1]]
  /\ n \in Nat /\ n <= HeapSize + 1
  /\ n > HeapSize => \A k \in 0..HeapSize : f[k] # NULL
  /\ n <= HeapSize => f[n] = NULL
  /\ \A i \in 1..n : f[i - 1] # NULL

LEMMA ListNodes ==
  ASSUME NEW m, NEW h
  PROVE  \E f, n : /\ \A k \in 0..HeapSize : f[k] = NodeAt(f, m, h, k)
                   /\ Stops(f, n, ListFrom(m, h))
<1> DEFINE e(f) == [k \in 0..HeapSize |-> NodeAt(f, m, h, k)]
           c == CHOOSE f : f = e(f)
           ends == {k \in 0..HeapSize : c[k] = NULL}
           n == IF ends = {} THEN HeapSize + 1 ELSE Min(ends)
<1>1. \E f : f = e(f)
  <2>1. PICK f : Noded(f, m, h, HeapSize)  BY NodedExists, NotNull
  <2> QED BY <2>1 DEF Noded
<1>2. c = e(c)
  <2> HIDE DEF e
  <2> QED BY <1>1
<1>3. ListFrom(m, h) = [i \in 1..n |-> c[i - 1]]  BY DEF ListFrom, NodeAt
<1>4. Noded(c, m, h, HeapSize)
  <2> HIDE DEF c
  <2> QED BY <1>2 DEF Noded
<1> HIDE DEF c
<1>5. \A k \in 0..HeapSize : c[k] = NodeAt(c, m, h, k)  BY <1>4, NodedAt
<1>6. /\ n \in Nat /\ n <= HeapSize + 1
      /\ (n > HeapSize => \A k \in 0..HeapSize : c[k] # NULL)
      /\ (n <= HeapSize => c[n] = NULL)
      /\ \A i \in 1..n : c[i - 1] # NULL
  <2>1. CASE ends = {}
    <3>1. n = HeapSize + 1  BY <2>1
    <3>2. \A k \in 0..HeapSize : c[k] # NULL  BY <2>1
    <3> HIDE DEF n, ends
    <3>3. \A i \in 1..n : i - 1 \in 0..HeapSize  BY <3>1, NotNull
    <3> QED BY <2>1, <3>1, <3>2, <3>3, NotNull
  <2>2. CASE ends # {}
    <3>1. ends \in SUBSET Nat  BY NotNull
    <3>2. n = Min(ends)  BY <2>2
    <3>3. n \in ends /\ \A j \in ends : n <= j
      <4> HIDE DEF ends, n
      <4> QED BY <2>2, <3>1, <3>2, MinIsLeast
    <3>4. n \in 0..HeapSize /\ c[n] = NULL  BY <3>3
    <3>5. \A j \in 0..HeapSize : c[j] = NULL => n <= j  BY <3>3
    <3> HIDE DEF n, ends
    <3>6. \A i \in 1..n : i - 1 \in 0..HeapSize /\ ~(n <= i - 1)  BY <3>4, NotNull
    <3> QED BY <3>4, <3>5, <3>6, NotNull
  <2> QED BY <2>1, <2>2
<1> HIDE DEF n
<1>7. Stops(c, n, ListFrom(m, h))  BY <1>3, <1>6 DEF Stops
<1> QED BY <1>5, <1>7

-----------------------------------------------------------------------------
(* A list by what is on it: S is linked from h on, in the order of addresses *)
(* and both ways, but for the p_prev of the first.                           *)
First(S, v)     == \/ v = NULL /\ S = {}
                   \/ v \in S /\ \A b \in S : v <= b
After(S, a, v)  == \/ v = NULL /\ \A b \in S : b <= a
                   \/ v \in S /\ a < v /\ \A b \in S : b <= a \/ v <= b
Before(S, a, v) == \/ v = NULL /\ \A b \in S : a <= b
                   \/ v \in S /\ v < a /\ \A b \in S : a <= b \/ b <= v

Ordered(S, h, m) ==
  /\ S \in SUBSET Addr /\ First(S, h)
  /\ \A a \in S : After(S, a, m[a].p_next) /\ (a # h => Before(S, a, m[a].p_prev))

(* The k-th step of ListFrom is at a block of S, further on with each step.  *)
LEMMA OrderedNodes ==
  ASSUME NEW S, NEW h, NEW m, Ordered(S, h, m),
         NEW f, \A k \in 0..HeapSize : f[k] = NodeAt(f, m, h, k)
  PROVE  /\ \A k \in 0..HeapSize :
              /\ f[k] = NULL \/ (f[k] \in S /\ k <= f[k])
              /\ k # 0 /\ f[k] # NULL => f[k - 1] \in S
              /\ k # 0 /\ f[k - 1] \in S => After(S, f[k - 1], f[k])
         /\ f[0] = h /\ f[HeapSize] = NULL
<1> DEFINE P(k) == /\ f[k] = NULL \/ (f[k] \in S /\ k <= f[k])
                   /\ k # 0 /\ f[k] # NULL => f[k - 1] \in S
                   /\ k # 0 /\ f[k - 1] \in S => After(S, f[k - 1], f[k])
           T == {k \in 0..HeapSize : ~P(k)}
<1>0. S \in SUBSET Addr /\ NULL \notin S /\ S \subseteq Nat /\ First(S, h)
  BY NotNull DEF Ordered
<1>1. P(0) /\ f[0] = h
  <2>1. 0 \in 0..HeapSize  BY NotNull
  <2>2. f[0] = h  BY <2>1 DEF NodeAt
  <2>3. h \in S => h \in Nat  BY <1>0
  <2>4. h = NULL \/ (h \in S /\ 0 <= h)  BY <1>0, <2>3 DEF First
  <2> QED BY <2>2, <2>4
<1>2. ASSUME NEW k \in 0..HeapSize, k # 0, P(k - 1) PROVE P(k)
  <2>1. k - 1 \in 0..HeapSize /\ k - 1 \in Nat /\ k \in Nat  BY <1>2, NotNull
  <2>2. f[k] = IF f[k - 1] = NULL THEN NULL ELSE m[f[k - 1]].p_next
    BY <1>2 DEF NodeAt
  <2>3. CASE f[k - 1] = NULL
    <3>1. f[k] = NULL /\ f[k - 1] \notin S  BY <1>0, <2>2, <2>3
    <3> QED BY <3>1
  <2>4. CASE f[k - 1] # NULL
    <3>1. f[k - 1] \in S /\ k - 1 <= f[k - 1] /\ f[k - 1] \in Nat  BY <1>0, <1>2, <2>4
    <3>2. After(S, f[k - 1], f[k])  BY <2>2, <2>4, <3>1 DEF Ordered
    <3>3. f[k] = NULL \/ (f[k] \in S /\ f[k - 1] < f[k] /\ f[k] \in Nat)
      BY <1>0, <3>2 DEF After
    <3>4. f[k] = NULL \/ (f[k] \in S /\ k <= f[k])
      <4> DEFINE x == f[k - 1]
                 y == f[k]
      <4>1. x \in Nat /\ k - 1 <= x /\ (y = NULL \/ (y \in S /\ x < y /\ y \in Nat))
        BY <3>1, <3>3
      <4> HIDE DEF x, y
      <4>2. y = NULL \/ (y \in S /\ k <= y)  BY ONLY <2>1, <4>1
      <4> QED BY <4>2 DEF y
    <3> QED BY <3>1, <3>2, <3>4
  <2> QED BY <2>3, <2>4
<1>3. T = {}
  <2> SUFFICES ASSUME T # {} PROVE FALSE
    OBVIOUS
  <2> DEFINE k == Min(T)
  <2>1. k \in T /\ \A j \in T : k <= j
    <3>1. T \in SUBSET Nat  BY NotNull
    <3> HIDE DEF T
    <3> QED BY <3>1, MinIsLeast
  <2> HIDE DEF k
  <2>2. k \in 0..HeapSize /\ ~P(k)  BY <2>1
  <2> HIDE DEF P
  <2>3. k # 0  BY <1>1, <2>2
  <2>4. k - 1 \in 0..HeapSize /\ ~(k <= k - 1)  BY <2>2, <2>3, NotNull
  <2>5. P(k - 1)  BY <2>1, <2>4
  <2> QED BY <1>2, <2>2, <2>3, <2>5
<1>4. \A k \in 0..HeapSize : P(k)  BY <1>3
<1>5. f[HeapSize] = NULL
  <2>1. HeapSize \in 0..HeapSize  BY NotNull
  <2>2. f[HeapSize] = NULL \/ (f[HeapSize] \in Addr /\ HeapSize <= f[HeapSize])
    BY <1>0, <1>4, <2>1
  <2> QED BY <2>2, NotNull DEF Addr
<1> QED BY <1>1, <1>4, <1>5

(* So the list from h is S in the order of addresses. *)
LEMMA OrderedList ==
  ASSUME NEW S, NEW h, NEW m, Ordered(S, h, m)
  PROVE  LET q == ListFrom(m, h)
         IN  /\ Len(q) \in Nat /\ Len(q) <= HeapSize /\ DOMAIN q = 1..Len(q)
             /\ \A i \in 1..Len(q) : q[i] \in S
             /\ \A b \in S : \E i \in 1..Len(q) : q[i] = b
             /\ \A i \in 1..Len(q) : i # 1 => i - 1 \in 1..Len(q) /\ After(S, q[i - 1], q[i])
             /\ 1 \in 1..Len(q) => q[1] = h
             /\ Len(q) \in 1..Len(q) => After(S, q[Len(q)], NULL)
<1> DEFINE q == ListFrom(m, h)
<1>1. PICK f, n : /\ \A k \in 0..HeapSize : f[k] = NodeAt(f, m, h, k)
                  /\ Stops(f, n, q)
  BY ListNodes
<1>2. /\ \A k \in 0..HeapSize :
           /\ f[k] = NULL \/ (f[k] \in S /\ k <= f[k])
           /\ k # 0 /\ f[k] # NULL => f[k - 1] \in S
           /\ k # 0 /\ f[k - 1] \in S => After(S, f[k - 1], f[k])
      /\ f[0] = h /\ f[HeapSize] = NULL
  BY <1>1, OrderedNodes
<1> HIDE DEF q
<1>3. /\ q = [i \in 1..n |-> f[i - 1]]
      /\ n \in Nat /\ n <= HeapSize + 1
      /\ n > HeapSize => \A k \in 0..HeapSize : f[k] # NULL
      /\ n <= HeapSize => f[n] = NULL
      /\ \A i \in 1..n : f[i - 1] # NULL
  BY <1>1 DEF Stops
<1>5. n <= HeapSize  BY <1>2, <1>3, NotNull
<1>6. Len(q) = n /\ DOMAIN q = 1..n /\ \A i \in 1..n : q[i] = f[i - 1]
  BY <1>3, LenProperties
<1>7. \A i \in 1..n : i - 1 \in 0..HeapSize  BY <1>3, <1>5, NotNull
<1>8. \A i \in 1..n : q[i] \in S  BY <1>2, <1>3, <1>6, <1>7
<1>9. ASSUME NEW i \in 1..n, i # 1 PROVE i - 1 \in 1..n /\ After(S, q[i - 1], q[i])
  <2>1. i - 1 \in 1..n /\ i - 1 # 0 /\ (i - 1) - 1 \in Int  BY <1>3, <1>9
  <2>2. q[i] = f[i - 1] /\ q[i - 1] = f[(i - 1) - 1] /\ q[i - 1] \in S
    BY <1>6, <1>8, <2>1
  <2> QED BY <1>2, <1>7, <2>1, <2>2
<1>10. 1 \in 1..n => q[1] = h  BY <1>2, <1>6
<1>11. ASSUME NEW b \in S PROVE \E i \in 1..n : q[i] = b
  <2> DEFINE T == {k \in 0..HeapSize : f[k] = NULL \/ b <= f[k]}
             k == Min(T)
  <2>0. S \in SUBSET Nat /\ NULL \notin S  BY NotNull DEF Ordered
  <2>1. k \in T /\ \A j \in T : k <= j
    <3>1. T \in SUBSET Nat  BY NotNull
    <3>2. T # {}  BY <1>2, NotNull
    <3> HIDE DEF T
    <3> QED BY <3>1, <3>2, MinIsLeast
  <2> HIDE DEF k
  <2>2. k \in 0..HeapSize /\ (f[k] = NULL \/ b <= f[k])  BY <2>1
  <2>3. f[k] = b
    <3>1. CASE k = 0
      <4>1. First(S, f[k])  BY <1>2, <3>1 DEF Ordered
      <4>2. f[k] \in S /\ f[k] <= b  BY <4>1 DEF First
      <4>3. b <= f[k] /\ f[k] \in Nat /\ b \in Nat  BY <2>0, <2>2, <4>2
      <4> QED BY <4>2, <4>3
    <3>2. CASE k # 0
      <4>1. k - 1 \in 0..HeapSize /\ ~(k <= k - 1)  BY <2>2, <3>2, NotNull
      <4>2. f[k - 1] # NULL /\ ~(b <= f[k - 1])  BY <2>1, <4>1
      <4>3. f[k - 1] \in S /\ f[k - 1] \in Nat  BY <1>2, <2>0, <4>1, <4>2
      <4>4. After(S, f[k - 1], f[k])  BY <1>2, <2>2, <3>2, <4>3
      <4>5. ~(b <= f[k - 1]) /\ b \in Nat  BY <2>0, <4>2
      <4>6. f[k] \in S /\ f[k] <= b  BY <2>0, <4>3, <4>4, <4>5 DEF After
      <4>7. b <= f[k] /\ f[k] \in Nat  BY <2>0, <2>2, <4>6
      <4> QED BY <4>5, <4>6, <4>7
    <3> QED BY <3>1, <3>2
  <2>4. k < n
    <3> SUFFICES ASSUME ~(k < n) PROVE FALSE
      OBVIOUS
    <3>1. f[n] = NULL  BY <1>3, <1>5
    <3>2. n \in 0..HeapSize  BY <1>3, <1>5, NotNull
    <3>3. n \in T  BY <3>1, <3>2
    <3>4. k <= n /\ k \in Nat  BY <2>1, <2>2, <3>3, NotNull
    <3>5. k = n  BY <1>3, <3>4
    <3> QED BY <2>0, <2>3, <3>1, <3>5
  <2>5. k + 1 \in 1..n /\ (k + 1) - 1 = k  BY <1>3, <2>2, <2>4, NotNull
  <2>6. q[k + 1] = b  BY <1>6, <2>3, <2>5
  <2> QED BY <2>5, <2>6
<1>12. Len(q) <= HeapSize  BY <1>5, <1>6
<1>13. ASSUME n \in 1..n PROVE After(S, q[n], NULL)
  <2>1. f[n] = NULL /\ n \in 0..HeapSize /\ n # 0  BY <1>3, <1>5, <1>13
  <2>2. q[n] = f[n - 1] /\ q[n] \in S  BY <1>6, <1>8, <1>13
  <2> QED BY <1>2, <2>1, <2>2
<1> QED BY <1>3, <1>6, <1>8, <1>9, <1>10, <1>11, <1>12, <1>13 DEF q

LEMMA OrderedSet ==
  ASSUME NEW S, NEW h, NEW m, Ordered(S, h, m)
  PROVE  ToSet(ListFrom(m, h)) = S
<1> DEFINE q == ListFrom(m, h)
<1>1. /\ DOMAIN q = 1..Len(q) /\ \A i \in 1..Len(q) : q[i] \in S
      /\ \A b \in S : \E i \in 1..Len(q) : q[i] = b
  BY OrderedList
<1>2. ToSet(q) = {q[i] : i \in DOMAIN q}  BY DEF ToSet
<1> HIDE DEF q
<1>3. ToSet(q) = S  BY <1>1, <1>2
<1> QED BY <1>3 DEF q

(* Where a search for an address that is not on the list stops. *)
LEMMA Around ==
  ASSUME NEW S, NEW h, NEW m, Ordered(S, h, m), NEW a \in Addr, a \notin S
  PROVE  LET q == ListFrom(m, h)
         IN  /\ ~Stuck(q, a) /\ ~Endless(q)
             /\ After(S, a, At(q, Behind(q, a)))
             /\ Before(S, a, At(q, Behind(q, a) - 1))
<1> DEFINE q == ListFrom(m, h)
           n == Len(q)
           T == {i \in DOMAIN q : q[i] > a} \cup {n + 1}
           k == Behind(q, a)
<1>1. /\ n \in Nat /\ n <= HeapSize /\ DOMAIN q = 1..n
      /\ \A i \in 1..n : q[i] \in S
      /\ \A b \in S : \E i \in 1..n : q[i] = b
      /\ \A i \in 1..n : i # 1 => i - 1 \in 1..n /\ After(S, q[i - 1], q[i])
      /\ 1 \in 1..n => q[1] = h
      /\ n \in 1..n => After(S, q[n], NULL)
  BY OrderedList
<1>2. S \subseteq Nat /\ a \in Nat /\ NULL \notin S /\ First(S, h)  BY NotNull DEF Ordered
<1> HIDE DEF q
<1>3. ~Stuck(q, a) /\ ~Endless(q)
  <2>1. ~(n > HeapSize)  BY <1>1, NotNull
  <2> QED BY <2>1 DEF Stuck, Endless
<1>4. k \in T /\ \A i \in T : k <= i
  <2>1. T \in SUBSET Nat /\ T # {}  BY <1>1
  <2>2. k = Min(T)  BY DEF Behind
  <2> HIDE DEF T, k
  <2> QED BY <2>1, <2>2, MinIsLeast
<1>5. k \in 1..(n + 1) /\ (k \in 1..n => a < q[k]) /\ (k \notin 1..n => k = n + 1)
  <2>1. k \in 1..n \/ k = n + 1  BY <1>1, <1>4
  <2>2. k \in 1..n => q[k] > a
    <3>1. k # n + 1 \/ k \notin 1..n  BY <1>1
    <3> QED BY <1>1, <1>4, <3>1
  <2>3. k \in 1..n => a < q[k]
    <3> HAVE k \in 1..n
    <3>1. q[k] \in Nat  BY <1>1, <1>2
    <3> QED BY <1>2, <2>2, <3>1
  <2> HIDE DEF k
  <2> QED BY <1>1, <2>1, <2>3
<1>6. \A i \in 1..n : i < k => q[i] < a
  <2> SUFFICES ASSUME NEW i \in 1..n, i < k PROVE q[i] < a
    OBVIOUS
  <2>1. i \notin T
    <3>1. ~(k <= i)  BY <1>1, <1>5
    <3> HIDE DEF T, k
    <3> QED BY <1>4, <3>1
  <2>2. ~(q[i] > a)  BY <1>1, <2>1
  <2>3. q[i] \in Nat /\ q[i] # a  BY <1>1, <1>2
  <2> QED BY <1>2, <2>2, <2>3
<1> HIDE DEF k, T
<1>7. At(q, k) = (IF k \in 1..n THEN q[k] ELSE NULL)
      /\ At(q, k - 1) = (IF k - 1 \in 1..n THEN q[k - 1] ELSE NULL)
  BY <1>1 DEF At
<1>8. CASE k = 1
  <2>1. k - 1 \notin 1..n  BY <1>8
  <2>2. CASE n = 0
    <3>1. S = {} /\ k \notin 1..n  BY <1>1, <1>8, <2>2
    <3> QED BY <1>3, <1>7, <2>1, <3>1 DEF After, Before, k, q
  <2>3. CASE n # 0
    <3>1. 1 \in 1..n  BY <1>1, <2>3
    <3>2. q[1] = h /\ h \in S /\ a < h /\ \A b \in S : h <= b
      BY <1>1, <1>2, <1>5, <1>8, <3>1 DEF First
    <3>3. After(S, a, q[1])  BY <3>2 DEF After
    <3>4. \A b \in S : a <= b  BY <1>2, <3>2
    <3> QED BY <1>3, <1>7, <1>8, <2>1, <3>1, <3>3, <3>4 DEF Before, k, q
  <2> QED BY <2>2, <2>3
<1>9. CASE k # 1
  <2>1. k - 1 \in 1..n /\ k - 1 < k /\ (k - 1) + 1 = k  BY <1>1, <1>5, <1>9
  <2> DEFINE v == q[k - 1]
  <2>2. v \in S /\ v < a /\ v \in Nat  BY <1>1, <1>2, <1>6, <2>1
  <2>3. CASE k \in 1..n
    <3> DEFINE w == q[k]
    <3>1. w \in S /\ a < w /\ w \in Nat /\ After(S, v, w)  BY <1>1, <1>2, <1>5, <1>9, <2>3
    <3>2. \A b \in S : b <= v \/ w <= b  BY <1>2, <3>1 DEF After
    <3> HIDE DEF v, w
    <3>3. \A b \in S : (b <= a \/ w <= b) /\ (a <= b \/ b <= v)  BY <1>2, <2>2, <3>1, <3>2
    <3>4. After(S, a, w) /\ Before(S, a, v)  BY <2>2, <3>1, <3>3 DEF After, Before
    <3> QED BY <1>3, <1>7, <2>1, <2>3, <3>4 DEF v, w, k, q
  <2>4. CASE k \notin 1..n
    <3>1. k - 1 = n /\ n \in 1..n  BY <1>1, <1>5, <2>1, <2>4
    <3>2. \A b \in S : b <= v  BY <1>1, <1>2, <3>1 DEF After
    <3> HIDE DEF v
    <3>3. \A b \in S : b <= a  BY <1>2, <2>2, <3>2
    <3>4. After(S, a, NULL) /\ Before(S, a, v)  BY <2>2, <3>2, <3>3 DEF After, Before
    <3> QED BY <1>3, <1>7, <2>1, <2>4, <3>4 DEF v, k, q
  <2> QED BY <2>3, <2>4
<1> QED BY <1>8, <1>9

(* The blocks in front of and behind an address. *)
LEMMA Neighbours ==
  ASSUME NEW S \in SUBSET Nat, NEW a \in Nat, NEW v, NEW w
  PROVE  /\ After(S, a, v) /\ After(S, a, w) => v = w
         /\ Before(S, a, v) /\ Before(S, a, w) => v = w
         /\ After(S, a, v) => (v = NULL <=> \A b \in S : b <= a)
         /\ Before(S, a, v) => (v = NULL <=> \A b \in S : a <= b)
         /\ a \in S /\ v \in S /\ After(S, a, v) => Before(S, v, a)
<1>1. NULL \notin S
  <2>1. NULL \notin Nat  BY DEF NULL
  <2> QED BY <2>1
<1>2. ASSUME After(S, a, v) PROVE v = NULL <=> \A b \in S : b <= a
  <2>1. v \in S /\ a < v => v \in Nat /\ ~(v <= a)  OBVIOUS
  <2> QED BY <1>1, <1>2, <2>1 DEF After
<1>3. ASSUME Before(S, a, v) PROVE v = NULL <=> \A b \in S : a <= b
  <2>1. v \in S /\ v < a => v \in Nat /\ ~(a <= v)  OBVIOUS
  <2> QED BY <1>1, <1>3, <2>1 DEF Before
<1>4. ASSUME After(S, a, v), After(S, a, w) PROVE v = w
  <2>1. CASE \A b \in S : b <= a
    <3>1. v \in S => v \in Nat /\ v <= a  BY <2>1
    <3>2. w \in S => w \in Nat /\ w <= a  BY <2>1
    <3> QED BY <1>1, <1>4, <3>1, <3>2 DEF After
  <2>2. CASE ~\A b \in S : b <= a
    <3>1. v \in S /\ w \in S /\ a < v /\ a < w  BY <1>4, <2>2 DEF After
    <3>2. v <= w /\ w <= v /\ v \in Nat /\ w \in Nat  BY <1>1, <1>4, <3>1 DEF After
    <3> QED BY <3>2
  <2> QED BY <2>1, <2>2
<1>5. ASSUME Before(S, a, v), Before(S, a, w) PROVE v = w
  <2>1. CASE \A b \in S : a <= b
    <3>1. v \in S => v \in Nat /\ a <= v  BY <2>1
    <3>2. w \in S => w \in Nat /\ a <= w  BY <2>1
    <3> QED BY <1>1, <1>5, <3>1, <3>2 DEF Before
  <2>2. CASE ~\A b \in S : a <= b
    <3>1. v \in S /\ w \in S /\ v < a /\ w < a  BY <1>5, <2>2 DEF Before
    <3>2. v <= w /\ w <= v /\ v \in Nat /\ w \in Nat  BY <1>1, <1>5, <3>1 DEF Before
    <3> QED BY <3>2
  <2> QED BY <2>1, <2>2
<1>6. ASSUME a \in S, v \in S, After(S, a, v) PROVE Before(S, v, a)
  <2>1. a < v /\ \A b \in S : b <= a \/ v <= b  BY <1>1, <1>6 DEF After
  <2> QED BY <1>6, <2>1 DEF Before
<1> QED BY <1>2, <1>3, <1>4, <1>5, <1>6

LEMMA OneAfter ==
  ASSUME NEW S \in SUBSET Nat, NEW a \in Nat, NEW v, NEW w, After(S, a, v), After(S, a, w)
  PROVE  v = w
BY Neighbours

LEMMA OneBefore ==
  ASSUME NEW S \in SUBSET Nat, NEW a \in Nat, NEW v, NEW w, Before(S, a, v), Before(S, a, w)
  PROVE  v = w
BY Neighbours

LEMMA OrderedLinked ==
  ASSUME NEW S, NEW h, Ordered(S, h, mcb)
  PROVE  Linked(h)
<1> DEFINE q == ListFrom(mcb, h)
<1>1. /\ DOMAIN q = 1..Len(q) /\ Len(q) \in Nat
      /\ \A i \in 1..Len(q) : q[i] \in S
      /\ \A i \in 1..Len(q) : i # 1 => i - 1 \in 1..Len(q) /\ After(S, q[i - 1], q[i])
  BY OrderedList
<1>2. S \in SUBSET Nat /\ NULL \notin S /\ First(S, h)  BY NotNull DEF Ordered
<1> HIDE DEF q
<1>3. ASSUME NEW i \in 1..Len(q), i > 1
      PROVE  mcb[q[i]].p_prev = q[i - 1] /\ q[i - 1] < q[i]
  <2> DEFINE a == q[i - 1]
             b == q[i]
  <2>1. a \in S /\ b \in S /\ After(S, a, b)  BY <1>1, <1>3
  <2> HIDE DEF a, b
  <2>2. a < b /\ a \in Nat /\ b \in Nat /\ b # NULL  BY <1>2, <2>1 DEF After
  <2>3. b # h  BY <1>2, <2>1, <2>2 DEF First
  <2>4. Before(S, b, mcb[b].p_prev) /\ Before(S, b, a)
    BY <1>2, <2>1, <2>2, <2>3, Neighbours DEF Ordered
  <2>5. mcb[b].p_prev = a  BY <1>2, <2>2, <2>4, OneBefore
  <2> QED BY <2>2, <2>5 DEF a, b
<1> QED BY <1>1, <1>3 DEF Linked, q

LEMMA Kept ==
  ASSUME NEW S, NEW h, NEW m, Ordered(S, h, m), NEW m2,
         \A x \in S : /\ m2[x].p_next = m[x].p_next
                      /\ x # h => m2[x].p_prev = m[x].p_prev
  PROVE  Ordered(S, h, m2)
BY DEF Ordered

(* A block more on the list, behind v and in front of w. *)
Between(S, m, a, v, w, m2) ==
  /\ Before(S, a, v) /\ After(S, a, w)
  /\ m2[a].p_next = w /\ (v # NULL => m2[a].p_prev = v)
  /\ \A x \in S : /\ m2[x].p_next = IF x = v THEN a ELSE m[x].p_next
                  /\ m2[x].p_prev = IF x = w THEN a ELSE m[x].p_prev

LEMMA Inserted ==
  ASSUME NEW S, NEW h, NEW m, Ordered(S, h, m), NEW a \in Addr, a \notin S,
         NEW v, NEW w, NEW m2, Between(S, m, a, v, w, m2)
  PROVE  Ordered(S \cup {a}, IF v = NULL THEN a ELSE h, m2)
<1> USE DEF Between
<1> DEFINE S2 == S \cup {a}
           h2 == IF v = NULL THEN a ELSE h
<1>1. S \in SUBSET Nat /\ a \in Nat /\ NULL \notin S /\ First(S, h) /\ S2 \in SUBSET Addr
      /\ NULL # a
  BY NotNull DEF Ordered
<1>2. First(S2, h2)
  <2>1. CASE v = NULL
    <3>1. \A b \in S : a <= b  BY <1>1, <2>1 DEF Before
    <3> QED BY <1>1, <2>1, <3>1 DEF First
  <2>2. CASE v # NULL
    <3>1. v \in S /\ v < a /\ v \in Nat  BY <1>1, <2>2 DEF Before
    <3>2. h \in S /\ \A b \in S : h <= b  BY <3>1 DEF Ordered, First
    <3>3. h <= v /\ h \in Nat  BY <1>1, <3>1, <3>2
    <3>4. h <= a  BY <1>1, <3>1, <3>3
    <3> QED BY <2>2, <3>2, <3>4 DEF First
  <2> QED BY <2>1, <2>2
<1>3. After(S2, a, w) /\ Before(S2, a, v)  BY <1>1 DEF After, Before
<1>4. ASSUME NEW x \in S PROVE After(S2, x, m2[x].p_next)
  <2>1. After(S, x, m[x].p_next) /\ x \in Nat /\ x # a  BY <1>1 DEF Ordered
  <2>2. CASE x = v
    <3>1. m2[x].p_next = a /\ x < a /\ \A b \in S : a <= b \/ b <= x
      BY <1>1, <2>2 DEF Before
    <3>2. \A b \in S2 : b <= x \/ a <= b  BY <1>1, <3>1
    <3> QED BY <3>1, <3>2 DEF After
  <2>3. CASE x # v
    <3> DEFINE y == m[x].p_next
    <3>1. m2[x].p_next = y  BY <2>3
    <3>2. After(S, x, y)  BY <2>1
    <3> HIDE DEF y
    <3>3. a <= x \/ (y \in S /\ x < y /\ y <= a)
      <4> SUFFICES ASSUME ~(a <= x) PROVE y \in S /\ x < y /\ y <= a
        OBVIOUS
      <4>1. x < a  BY <1>1, <2>1
      <4>2. v \in S /\ v < a /\ \A b \in S : a <= b \/ b <= v  BY <1>1, <4>1 DEF Before
      <4>3. x < v /\ v \in Nat
        <5>1. x <= v /\ v \in Nat  BY <1>1, <4>1, <4>2
        <5> QED BY <2>1, <2>3, <5>1
      <4>4. y \in S /\ x < y /\ y <= v
        <5>1. ~(v <= x)  BY <2>1, <4>3
        <5> QED BY <3>2, <4>2, <5>1 DEF After
      <4> QED BY <1>1, <4>2, <4>3, <4>4
    <3>4. After(S2, x, y)
      <4>1. CASE y = NULL
        <5>1. \A b \in S : b <= x  BY <1>1, <3>2, <4>1 DEF After
        <5>2. a <= x  BY <1>1, <3>3, <4>1
        <5> QED BY <4>1, <5>1, <5>2 DEF After
      <4>2. CASE y # NULL
        <5>1. y \in S /\ x < y /\ \A b \in S : b <= x \/ y <= b  BY <3>2, <4>2 DEF After
        <5> QED BY <3>3, <5>1 DEF After
      <4> QED BY <4>1, <4>2
    <3> QED BY <3>1, <3>4
  <2> QED BY <2>2, <2>3
<1>5. ASSUME NEW x \in S, x # h2 PROVE Before(S2, x, m2[x].p_prev)
  <2>1. x \in Nat /\ x # a  BY <1>1
  <2>2. CASE x = w
    <3>1. m2[x].p_prev = a /\ a < x /\ \A b \in S : b <= a \/ x <= b
      BY <1>1, <2>2 DEF After
    <3>2. \A b \in S2 : x <= b \/ b <= a  BY <1>1, <3>1
    <3> QED BY <3>1, <3>2 DEF Before
  <2>3. CASE x # w
    <3> DEFINE y == m[x].p_prev
    <3>1. x # h
      <4> SUFFICES ASSUME x = h PROVE FALSE
        OBVIOUS
      <4>1. v = NULL  BY <1>5
      <4>2. \A b \in S : a <= b  BY <1>1, <4>1 DEF Before
      <4>3. \A b \in S : x <= b  BY <1>1 DEF First
      <4>4. a < x  BY <1>1, <2>1, <4>2
      <4>5. After(S, a, x)  BY <4>3, <4>4 DEF After
      <4>6. w = x  BY <1>1, <4>5, OneAfter
      <4> QED BY <2>3, <4>6
    <3>2. m2[x].p_prev = y /\ Before(S, x, y)  BY <2>3, <3>1 DEF Ordered
    <3> HIDE DEF y
    <3>3. x <= a \/ (y \in S /\ y < x /\ a <= y)
      <4> SUFFICES ASSUME ~(x <= a) PROVE y \in S /\ y < x /\ a <= y
        OBVIOUS
      <4>1. a < x  BY <1>1, <2>1
      <4>2. w \in S /\ a < w /\ \A b \in S : b <= a \/ w <= b  BY <1>1, <2>1, <4>1 DEF After
      <4>3. w < x /\ w \in Nat
        <5>1. w <= x /\ w \in Nat  BY <1>1, <2>1, <4>1, <4>2
        <5> QED BY <2>1, <2>3, <5>1
      <4>4. y \in S /\ y < x /\ w <= y
        <5>1. ~(x <= w)  BY <2>1, <4>3
        <5> QED BY <3>2, <4>2, <5>1 DEF Before
      <4> QED BY <1>1, <4>2, <4>3, <4>4
    <3>4. Before(S2, x, y)
      <4>1. CASE y = NULL
        <5>1. \A b \in S : x <= b  BY <1>1, <3>2, <4>1 DEF Before
        <5>2. x <= a  BY <1>1, <3>3, <4>1
        <5> QED BY <4>1, <5>1, <5>2 DEF Before
      <4>2. CASE y # NULL
        <5>1. y \in S /\ y < x /\ \A b \in S : x <= b \/ b <= y  BY <3>2, <4>2 DEF Before
        <5> QED BY <3>3, <5>1 DEF Before
      <4> QED BY <4>1, <4>2
    <3> QED BY <3>2, <3>4
  <2> QED BY <2>2, <2>3
<1>6. a # h2 => v # NULL  OBVIOUS
<1> HIDE DEF h2
<1>7. \A x \in S2 : After(S2, x, m2[x].p_next) /\ (x # h2 => Before(S2, x, m2[x].p_prev))
  BY <1>3, <1>4, <1>5, <1>6
<1>8. Ordered(S2, h2, m2)  BY <1>1, <1>2, <1>7 DEF Ordered
<1> QED BY <1>8 DEF h2

(* A block less on the list; nobody resets p_prev of a new first block. *)
Dropped(S, h, m, a, m2) ==
  \A x \in S \ {a} :
    /\ m2[x].p_next = IF a # h /\ x = m[a].p_prev THEN m[a].p_next ELSE m[x].p_next
    /\ x # m[a].p_next => m2[x].p_prev = m[x].p_prev
    /\ x = m[a].p_next /\ a # h => m2[x].p_prev = m[a].p_prev

LEMMA Removed ==
  ASSUME NEW S, NEW h, NEW m, Ordered(S, h, m), NEW a \in S, NEW m2, Dropped(S, h, m, a, m2)
  PROVE  Ordered(S \ {a}, IF a = h THEN m[a].p_next ELSE h, m2)
<1> USE DEF Dropped
<1> DEFINE S2 == S \ {a}
           h2 == IF a = h THEN m[a].p_next ELSE h
           w == m[a].p_next
           v == m[a].p_prev
<1>1. S \in SUBSET Nat /\ a \in Nat /\ NULL \notin S /\ First(S, h) /\ S2 \in SUBSET Addr
  BY NotNull DEF Ordered
<1>2. After(S, a, w) /\ (a # h => Before(S, a, v))  BY DEF Ordered
<1> HIDE DEF v, w
<1>3. First(S2, h2)
  <2>0. h \in S /\ \A b \in S : h <= b  BY <1>1 DEF First
  <2>1. CASE a = h
    <3>1. h2 = w  BY <2>1 DEF w
    <3>2. CASE w = NULL
      <4>1. \A b \in S : b <= a /\ a <= b  BY <1>1, <1>2, <2>0, <2>1, <3>2 DEF After
      <4>2. \A b \in S : b = a  BY <1>1, <4>1
      <4> QED BY <3>1, <3>2, <4>2 DEF First
    <3>3. CASE w # NULL
      <4>1. w \in S /\ a < w /\ \A b \in S : b <= a \/ w <= b  BY <1>2, <3>3 DEF After
      <4>2. \A b \in S2 : ~(b <= a)
        <5> SUFFICES ASSUME NEW b \in S2, b <= a PROVE FALSE
          OBVIOUS
        <5>1. b \in Nat /\ a <= b /\ b # a  BY <1>1, <2>0, <2>1
        <5> QED BY <1>1, <5>1
      <4> QED BY <1>1, <3>1, <4>1, <4>2 DEF First
    <3> QED BY <3>2, <3>3
  <2>2. CASE a # h  BY <2>0, <2>2 DEF First
  <2> QED BY <2>1, <2>2
<1>4. ASSUME NEW x \in S2 PROVE After(S2, x, m2[x].p_next)
  <2>1. After(S, x, m[x].p_next) /\ x \in Nat /\ x # a /\ x \in S  BY <1>1 DEF Ordered
  <2>2. CASE a # h /\ x = v
    <3>1. m2[x].p_next = w  BY <2>2 DEF v, w
    <3>2. x < a /\ \A b \in S : a <= b \/ b <= x  BY <1>1, <1>2, <2>1, <2>2 DEF Before
    <3>3. CASE w = NULL
      <4>1. \A b \in S : b <= a  BY <1>1, <1>2, <3>3 DEF After
      <4>2. \A b \in S2 : b <= x
        <5> SUFFICES ASSUME NEW b \in S2 PROVE b <= x
          OBVIOUS
        <5>1. b \in Nat /\ b <= a /\ b # a  BY <1>1, <4>1
        <5>2. ~(a <= b)  BY <1>1, <5>1
        <5> QED BY <3>2, <5>2
      <4> QED BY <3>1, <3>3, <4>2 DEF After
    <3>4. CASE w # NULL
      <4>1. w \in S /\ a < w /\ w \in Nat /\ \A b \in S : b <= a \/ w <= b
        BY <1>1, <1>2, <3>4 DEF After
      <4>2. \A b \in S2 : b <= x \/ w <= b
        <5> SUFFICES ASSUME NEW b \in S2, ~(w <= b) PROVE b <= x
          OBVIOUS
        <5>1. b \in Nat /\ b <= a /\ b # a  BY <1>1, <4>1
        <5>2. ~(a <= b)  BY <1>1, <5>1
        <5> QED BY <3>2, <5>2
      <4>3. x < w /\ w \in S2  BY <1>1, <2>1, <3>2, <4>1
      <4> QED BY <3>1, <4>2, <4>3 DEF After
    <3> QED BY <3>3, <3>4
  <2>3. CASE ~(a # h /\ x = v)
    <3>1. m2[x].p_next = m[x].p_next  BY <2>3 DEF v
    <3>2. m[x].p_next # a
      <4> SUFFICES ASSUME m[x].p_next = a PROVE FALSE
        OBVIOUS
      <4>1. Before(S, a, x) /\ x < a
        <5>1. a # NULL  BY <1>1
        <5> QED BY <1>1, <2>1, <5>1, Neighbours DEF After
      <4>2. a # h  BY <1>1, <2>1, <4>1 DEF First
      <4>3. x = v  BY <1>1, <1>2, <4>1, <4>2, Neighbours
      <4> QED BY <2>3, <4>2, <4>3
    <3> QED BY <2>1, <3>1, <3>2 DEF After
  <2> QED BY <2>2, <2>3
<1>5. ASSUME NEW x \in S2, x # h2 PROVE Before(S2, x, m2[x].p_prev)
  <2>1. x \in Nat /\ x # a /\ x \in S /\ x # h
    <3>1. x \in Nat /\ x # a /\ x \in S  BY <1>1
    <3> QED BY <1>5, <3>1
  <2>2. CASE x = w
    <3>1. a # h  BY <1>5, <2>2 DEF w
    <3>2. m2[x].p_prev = v  BY <2>2, <3>1 DEF v, w
    <3>3. a < x /\ \A b \in S : b <= a \/ x <= b  BY <1>1, <1>2, <2>1, <2>2 DEF After
    <3>4. Before(S, a, v)  BY <1>2, <3>1
    <3>5. CASE v = NULL
      <4>1. \A b \in S : a <= b  BY <1>1, <3>4, <3>5 DEF Before
      <4>2. \A b \in S2 : x <= b
        <5> SUFFICES ASSUME NEW b \in S2 PROVE x <= b
          OBVIOUS
        <5>1. b \in Nat /\ a <= b /\ b # a  BY <1>1, <4>1
        <5>2. ~(b <= a)  BY <1>1, <5>1
        <5> QED BY <3>3, <5>2
      <4> QED BY <3>2, <3>5, <4>2 DEF Before
    <3>6. CASE v # NULL
      <4>1. v \in S /\ v < a /\ v \in Nat /\ \A b \in S : a <= b \/ b <= v
        BY <1>1, <3>4, <3>6 DEF Before
      <4>2. \A b \in S2 : x <= b \/ b <= v
        <5> SUFFICES ASSUME NEW b \in S2, ~(b <= v) PROVE x <= b
          OBVIOUS
        <5>1. b \in Nat /\ a <= b /\ b # a  BY <1>1, <4>1
        <5>2. ~(b <= a)  BY <1>1, <5>1
        <5> QED BY <3>3, <5>2
      <4>3. v < x /\ v \in S2  BY <1>1, <2>1, <3>3, <4>1
      <4> QED BY <3>2, <4>2, <4>3 DEF Before
    <3> QED BY <3>5, <3>6
  <2>3. CASE x # w
    <3>1. m2[x].p_prev = m[x].p_prev /\ Before(S, x, m[x].p_prev)
      BY <2>1, <2>3 DEF w, Ordered
    <3>2. m[x].p_prev # a
      <4> SUFFICES ASSUME m[x].p_prev = a PROVE FALSE
        OBVIOUS
      <4>1. a < x /\ \A b \in S : x <= b \/ b <= a
        <5>1. a # NULL  BY <1>1
        <5> QED BY <3>1, <5>1 DEF Before
      <4>2. After(S, a, x)  BY <2>1, <4>1 DEF After
      <4>3. After(S, a, w)  BY <1>2
      <4> HIDE DEF Dropped
      <4>4. x = w  BY <1>1, <4>2, <4>3, Neighbours
      <4> QED BY <2>3, <4>4
    <3> QED BY <3>1, <3>2 DEF Before
  <2> QED BY <2>2, <2>3
<1> HIDE DEF h2
<1>6. Ordered(S2, h2, m2)  BY <1>1, <1>3, <1>4, <1>5 DEF Ordered
<1> QED BY <1>6 DEF h2

(* A block of the list with another address, between the same neighbours. *)
Moved(S, h, m, a, c, m2) ==
  /\ \A x \in S \ {a} : x < a <=> x < c
  /\ m2[c].p_next = m[a].p_next /\ (a # h => m2[c].p_prev = m[a].p_prev)
  /\ \A x \in S \ {a} :
       /\ m2[x].p_next = IF a # h /\ x = m[a].p_prev THEN c ELSE m[x].p_next
       /\ m2[x].p_prev = IF x = m[a].p_next THEN c ELSE m[x].p_prev

LEMMA Replaced ==
  ASSUME NEW S, NEW h, NEW m, Ordered(S, h, m), NEW a \in S, NEW c \in Addr, c \notin S,
         NEW m2, Moved(S, h, m, a, c, m2)
  PROVE  Ordered((S \ {a}) \cup {c}, IF a = h THEN c ELSE h, m2)
<1> USE DEF Moved
<1> DEFINE S2 == (S \ {a}) \cup {c}
           h2 == IF a = h THEN c ELSE h
           w == m[a].p_next
           v == m[a].p_prev
<1>1. S \in SUBSET Nat /\ a \in Nat /\ c \in Nat /\ NULL \notin S /\ NULL # c /\ First(S, h)
      /\ S2 \in SUBSET Addr /\ a # NULL
  BY NotNull DEF Ordered
<1>2. After(S, a, w) /\ (a # h => Before(S, a, v))  BY DEF Ordered
<1>3. \A x \in S \ {a} : /\ x \in Nat /\ x # a /\ x # c
                         /\ (x < a <=> x < c) /\ (a < x <=> c < x)
  <2>1. ASSUME NEW x \in S \ {a} PROVE a < x <=> c < x
    <3>1. x \in Nat /\ x # a /\ x # c /\ (x < a <=> x < c)  BY <1>1
    <3> QED BY <1>1, <3>1
  <2> QED BY <1>1, <2>1
<1> HIDE DEF v, w
<1>4. First(S2, h2)
  <2>0. h \in S /\ \A b \in S : h <= b  BY <1>1 DEF First
  <2>1. CASE a = h
    <3>1. \A b \in S \ {a} : c <= b
      <4> SUFFICES ASSUME NEW b \in S \ {a} PROVE c <= b
        OBVIOUS
      <4>1. a <= b /\ b \in Nat /\ b # a /\ (a < b <=> c < b)  BY <1>3, <2>0, <2>1
      <4> QED BY <1>1, <4>1
    <3>2. c <= c  BY <1>1
    <3> QED BY <2>1, <3>1, <3>2 DEF First
  <2>2. CASE a # h
    <3>1. h <= a /\ h \in S \ {a} /\ h \in Nat  BY <1>1, <2>0, <2>2
    <3>2. h < a /\ h < c
      <4>1. h < a  BY <1>1, <2>2, <3>1
      <4> QED BY <1>3, <3>1, <4>1
    <3>3. h <= c  BY <1>1, <3>1, <3>2
    <3> QED BY <2>0, <2>2, <3>1, <3>3 DEF First
  <2> QED BY <2>1, <2>2
<1>5. After(S2, c, m2[c].p_next)
  <2>1. m2[c].p_next = w  BY DEF w
  <2>2. CASE w = NULL
    <3>1. \A b \in S : b <= a  BY <1>1, <1>2, <2>2 DEF After
    <3>2. \A b \in S \ {a} : b <= c
      <4> SUFFICES ASSUME NEW b \in S \ {a} PROVE b <= c
        OBVIOUS
      <4>1. b <= a /\ b \in Nat /\ b # a /\ (b < a <=> b < c)  BY <1>3, <3>1
      <4> QED BY <1>1, <4>1
    <3>3. c <= c  BY <1>1
    <3> QED BY <2>1, <2>2, <3>2, <3>3 DEF After
  <2>3. CASE w # NULL
    <3>1. w \in S /\ a < w /\ \A b \in S : b <= a \/ w <= b  BY <1>2, <2>3 DEF After
    <3>2. w \in S \ {a} /\ c < w
      <4>1. w # a  BY <1>1, <3>1
      <4> QED BY <1>3, <3>1, <4>1
    <3>3. \A b \in S \ {a} : b <= c \/ w <= b
      <4> SUFFICES ASSUME NEW b \in S \ {a}, ~(w <= b) PROVE b <= c
        OBVIOUS
      <4>1. b <= a /\ b \in Nat /\ b # a /\ (b < a <=> b < c)  BY <1>3, <3>1
      <4> QED BY <1>1, <4>1
    <3>4. c <= c  BY <1>1
    <3> QED BY <2>1, <3>2, <3>3, <3>4 DEF After
  <2> QED BY <2>2, <2>3
<1>6. c # h2 => Before(S2, c, m2[c].p_prev)
  <2> HAVE c # h2
  <2>0. a # h  OBVIOUS
  <2>1. m2[c].p_prev = v /\ Before(S, a, v)  BY <1>2, <2>0 DEF v
  <2>2. CASE v = NULL
    <3>1. \A b \in S : a <= b  BY <1>1, <2>1, <2>2 DEF Before
    <3>2. \A b \in S \ {a} : c <= b
      <4> SUFFICES ASSUME NEW b \in S \ {a} PROVE c <= b
        OBVIOUS
      <4>1. a <= b /\ b \in Nat /\ b # a /\ (a < b <=> c < b)  BY <1>3, <3>1
      <4> QED BY <1>1, <4>1
    <3>3. c <= c  BY <1>1
    <3> QED BY <2>1, <2>2, <3>2, <3>3 DEF Before
  <2>3. CASE v # NULL
    <3>1. v \in S /\ v < a /\ \A b \in S : a <= b \/ b <= v  BY <2>1, <2>3 DEF Before
    <3>2. v \in S \ {a} /\ v < c
      <4>1. v # a  BY <1>1, <3>1
      <4> QED BY <1>3, <3>1, <4>1
    <3>3. \A b \in S \ {a} : c <= b \/ b <= v
      <4> SUFFICES ASSUME NEW b \in S \ {a}, ~(b <= v) PROVE c <= b
        OBVIOUS
      <4>1. a <= b /\ b \in Nat /\ b # a /\ (a < b <=> c < b)  BY <1>3, <3>1
      <4> QED BY <1>1, <4>1
    <3>4. c <= c  BY <1>1
    <3> QED BY <2>1, <3>2, <3>3, <3>4 DEF Before
  <2> QED BY <2>2, <2>3
<1>7. ASSUME NEW x \in S \ {a} PROVE After(S2, x, m2[x].p_next)
  <2>1. After(S, x, m[x].p_next) /\ x \in Nat /\ x \in S  BY <1>1 DEF Ordered
  <2>2. CASE a # h /\ x = v
    <3>1. m2[x].p_next = c  BY <2>2 DEF v
    <3>2. x < a /\ \A b \in S : a <= b \/ b <= x  BY <1>1, <1>2, <2>2 DEF Before
    <3>3. \A b \in S \ {a} : b <= x \/ c <= b
      <4> SUFFICES ASSUME NEW b \in S \ {a}, ~(b <= x) PROVE c <= b
        OBVIOUS
      <4>1. a <= b /\ b \in Nat /\ b # a /\ (a < b <=> c < b)  BY <1>3, <3>2
      <4> QED BY <1>1, <4>1
    <3>4. x < c /\ c <= c  BY <1>1, <1>3, <3>2
    <3> QED BY <3>1, <3>3, <3>4 DEF After
  <2>3. CASE ~(a # h /\ x = v)
    <3> DEFINE y == m[x].p_next
    <3>1. m2[x].p_next = y /\ After(S, x, y)  BY <2>1, <2>3 DEF v
    <3> HIDE DEF y
    <3>2. y # a
      <4> SUFFICES ASSUME y = a PROVE FALSE
        OBVIOUS
      <4>1. Before(S, a, x) /\ x < a  BY <1>1, <2>1, <3>1, Neighbours DEF After
      <4>2. a # h
        <5>1. h <= x /\ h \in Nat  BY <1>1, <2>1 DEF First
        <5> QED BY <1>1, <2>1, <4>1, <5>1
      <4>3. x = v  BY <1>1, <1>2, <4>1, <4>2, OneBefore
      <4> QED BY <2>3, <4>2, <4>3
    <3>3. c <= x \/ (y \in S /\ x < y /\ y <= c)
      <4> SUFFICES ASSUME ~(c <= x) PROVE y \in S /\ x < y /\ y <= c
        OBVIOUS
      <4>1. x < a /\ ~(a <= x)
        <5>1. x < c  BY <1>1, <2>1
        <5>2. x < a  BY <1>3, <5>1
        <5> QED BY <1>1, <2>1, <5>2
      <4>2. y \in S /\ x < y /\ y <= a  BY <1>1, <3>1, <4>1 DEF After
      <4>3. y \in S \ {a} /\ y < a /\ y \in Nat
        <5>1. y \in Nat  BY <1>1, <4>2
        <5> QED BY <1>1, <3>2, <4>2, <5>1
      <4>4. y < c  BY <1>3, <4>3
      <4> QED BY <1>1, <4>2, <4>3, <4>4
    <3>4. CASE y = NULL
      <4>1. \A b \in S : b <= x  BY <1>1, <3>1, <3>4 DEF After
      <4>2. c <= x  BY <1>1, <3>3, <3>4
      <4> QED BY <3>1, <3>4, <4>1, <4>2 DEF After
    <3>5. CASE y # NULL
      <4>1. y \in S /\ x < y /\ \A b \in S : b <= x \/ y <= b  BY <3>1, <3>5 DEF After
      <4> QED BY <3>1, <3>2, <3>3, <4>1 DEF After
    <3> QED BY <3>4, <3>5
  <2> QED BY <2>2, <2>3
<1>8. ASSUME NEW x \in S \ {a}, x # h2 PROVE Before(S2, x, m2[x].p_prev)
  <2>1. x \in Nat /\ x \in S /\ x # h
    <3>1. First(S, h)  BY <1>1
    <3> QED BY <1>1, <1>8
  <2>2. CASE x = w
    <3>1. m2[x].p_prev = c  BY <2>2 DEF w
    <3>2. a < x /\ \A b \in S : b <= a \/ x <= b  BY <1>1, <1>2, <2>1, <2>2 DEF After
    <3>3. \A b \in S \ {a} : x <= b \/ b <= c
      <4> SUFFICES ASSUME NEW b \in S \ {a}, ~(x <= b) PROVE b <= c
        OBVIOUS
      <4>1. b <= a /\ b \in Nat /\ b # a /\ (b < a <=> b < c)  BY <1>3, <3>2
      <4> QED BY <1>1, <4>1
    <3>4. c < x /\ c <= c  BY <1>1, <1>3, <3>2
    <3> QED BY <3>1, <3>3, <3>4 DEF Before
  <2>3. CASE x # w
    <3> DEFINE y == m[x].p_prev
    <3>1. m2[x].p_prev = y /\ Before(S, x, y)  BY <2>1, <2>3 DEF w, Ordered
    <3> HIDE DEF y
    <3>2. y # a
      <4> SUFFICES ASSUME y = a PROVE FALSE
        OBVIOUS
      <4>1. a < x /\ \A b \in S : x <= b \/ b <= a  BY <1>1, <3>1 DEF Before
      <4>2. After(S, a, x)  BY <2>1, <4>1 DEF After
      <4>3. x = w  BY <1>1, <1>2, <4>2, OneAfter
      <4> QED BY <2>3, <4>3
    <3>3. x <= c \/ (y \in S /\ y < x /\ c <= y)
      <4> SUFFICES ASSUME ~(x <= c) PROVE y \in S /\ y < x /\ c <= y
        OBVIOUS
      <4>1. a < x /\ ~(x <= a)
        <5>1. c < x  BY <1>1, <2>1
        <5>2. a < x  BY <1>3, <5>1
        <5> QED BY <1>1, <2>1, <5>2
      <4>2. y \in S /\ y < x /\ a <= y  BY <1>1, <3>1, <4>1 DEF Before
      <4>3. y \in S \ {a} /\ a < y /\ y \in Nat
        <5>1. y \in Nat  BY <1>1, <4>2
        <5> QED BY <1>1, <3>2, <4>2, <5>1
      <4>4. c < y  BY <1>3, <4>3
      <4> QED BY <1>1, <4>2, <4>3, <4>4
    <3>4. CASE y = NULL
      <4>1. \A b \in S : x <= b  BY <1>1, <3>1, <3>4 DEF Before
      <4>2. x <= c  BY <1>1, <3>3, <3>4
      <4> QED BY <3>1, <3>4, <4>1, <4>2 DEF Before
    <3>5. CASE y # NULL
      <4>1. y \in S /\ y < x /\ \A b \in S : x <= b \/ b <= y  BY <3>1, <3>5 DEF Before
      <4> QED BY <3>1, <3>2, <3>3, <4>1 DEF Before
    <3> QED BY <3>4, <3>5
  <2> QED BY <2>2, <2>3
<1> HIDE DEF h2
<1>9. Ordered(S2, h2, m2)  BY <1>1, <1>4, <1>5, <1>6, <1>7, <1>8 DEF Ordered
<1> QED BY <1>9 DEF h2
-----------------------------------------------------------------------------
(* What writing a control block leaves of the memory. *)
LEMMA McbFields ==
  ASSUME NEW m \in [Addr -> Mcb], NEW x \in Addr
  PROVE  m[x].p_next \in MayNull /\ m[x].p_prev \in MayNull /\ m[x].blk_size \in Nat
<1>1. m[x] \in Mcb  OBVIOUS
<1>2. m[x].blk_size \in 0..(Width - 1)  BY <1>1 DEF Mcb
<1>3. m[x].blk_size \in Nat  BY <1>2
<1> QED BY <1>1, <1>3 DEF Mcb, MayNull

LEMMA SetNextIs ==
  ASSUME NEW m \in [Addr -> Mcb], NEW a \in MayNull, NEW v \in MayNull
  PROVE  /\ SetNext(m, a, v) \in [Addr -> Mcb]
         /\ \A x \in Addr : /\ SetNext(m, a, v)[x].p_next = IF x = a THEN v ELSE m[x].p_next
                            /\ SetNext(m, a, v)[x].p_prev = m[x].p_prev
                            /\ SetNext(m, a, v)[x].blk_size = m[x].blk_size
<1>1. CASE a = NULL  BY <1>1, NotNull DEF SetNext
<1>2. CASE a # NULL
  <2>1. a \in Addr  BY <1>2 DEF MayNull
  <2>2. SetNext(m, a, v) = [m EXCEPT ![a] = [m[a] EXCEPT !.p_next = v]]
    BY <1>2 DEF SetNext
  <2>3. m[a] \in Mcb  BY <2>1
  <2>4. /\ [m[a] EXCEPT !.p_next = v] \in Mcb /\ [m[a] EXCEPT !.p_next = v].p_next = v
        /\ [m[a] EXCEPT !.p_next = v].p_prev = m[a].p_prev
        /\ [m[a] EXCEPT !.p_next = v].blk_size = m[a].blk_size
    BY <2>3 DEF Mcb, MayNull
  <2> QED BY <2>1, <2>2, <2>4
<1> QED BY <1>1, <1>2

LEMMA SetPrevIs ==
  ASSUME NEW m \in [Addr -> Mcb], NEW a \in MayNull, NEW v \in MayNull
  PROVE  /\ SetPrev(m, a, v) \in [Addr -> Mcb]
         /\ \A x \in Addr : /\ SetPrev(m, a, v)[x].p_prev = IF x = a THEN v ELSE m[x].p_prev
                            /\ SetPrev(m, a, v)[x].p_next = m[x].p_next
                            /\ SetPrev(m, a, v)[x].blk_size = m[x].blk_size
<1>1. CASE a = NULL  BY <1>1, NotNull DEF SetPrev
<1>2. CASE a # NULL
  <2>1. a \in Addr  BY <1>2 DEF MayNull
  <2>2. SetPrev(m, a, v) = [m EXCEPT ![a] = [m[a] EXCEPT !.p_prev = v]]
    BY <1>2 DEF SetPrev
  <2>3. m[a] \in Mcb  BY <2>1
  <2>4. /\ [m[a] EXCEPT !.p_prev = v] \in Mcb /\ [m[a] EXCEPT !.p_prev = v].p_prev = v
        /\ [m[a] EXCEPT !.p_prev = v].p_next = m[a].p_next
        /\ [m[a] EXCEPT !.p_prev = v].blk_size = m[a].blk_size
    BY <2>3 DEF Mcb, MayNull
  <2> QED BY <2>1, <2>2, <2>4
<1> QED BY <1>1, <1>2

SetSize(m, a, n) == [m EXCEPT ![a].blk_size = n]

LEMMA SetSizeIs ==
  ASSUME NEW m \in [Addr -> Mcb], NEW a \in Addr, NEW n \in 0..(Width - 1)
  PROVE  /\ SetSize(m, a, n) \in [Addr -> Mcb]
         /\ \A x \in Addr : /\ SetSize(m, a, n)[x].blk_size = IF x = a THEN n ELSE m[x].blk_size
                            /\ SetSize(m, a, n)[x].p_next = m[x].p_next
                            /\ SetSize(m, a, n)[x].p_prev = m[x].p_prev
<1>1. SetSize(m, a, n) = [m EXCEPT ![a] = [m[a] EXCEPT !.blk_size = n]]
  BY DEF SetSize
<1>2. m[a] \in Mcb  OBVIOUS
<1>3. /\ [m[a] EXCEPT !.blk_size = n] \in Mcb /\ [m[a] EXCEPT !.blk_size = n].blk_size = n
      /\ [m[a] EXCEPT !.blk_size = n].p_next = m[a].p_next
      /\ [m[a] EXCEPT !.blk_size = n].p_prev = m[a].p_prev
  BY <1>2 DEF Mcb
<1> QED BY <1>1, <1>3

LEMMA SetBlockIs ==
  ASSUME NEW m \in [Addr -> Mcb], NEW a \in Addr, NEW b \in Mcb
  PROVE  /\ [m EXCEPT ![a] = b] \in [Addr -> Mcb]
         /\ \A x \in Addr : [m EXCEPT ![a] = b][x] = IF x = a THEN b ELSE m[x]
OBVIOUS


(* Whatever is done to the lists, an address in a control block is that of a *)
(* block which ends in the heap: its size is never too large for its place.  *)
Real(m)      == {a \in Addr : a + Hdr + m[a].blk_size <= HeapSize}
RealOrNull(m) == Real(m) \cup {NULL}
Linking(m)   == /\ m \in [Addr -> Mcb]
                /\ \A x \in Addr : m[x].p_next \in RealOrNull(m) /\ m[x].p_prev \in RealOrNull(m)

LEMMA RealNext ==
  ASSUME NEW m, Linking(m), NEW a \in MayNull, NEW v \in RealOrNull(m)
  PROVE  Linking(SetNext(m, a, v)) /\ Real(SetNext(m, a, v)) = Real(m)
<1> DEFINE m2 == SetNext(m, a, v)
<1>1. m \in [Addr -> Mcb] /\ v \in MayNull  BY DEF Linking, RealOrNull, Real, MayNull
<1>2. /\ m2 \in [Addr -> Mcb]
      /\ \A x \in Addr : /\ m2[x].p_next = IF x = a THEN v ELSE m[x].p_next
                         /\ m2[x].p_prev = m[x].p_prev
                         /\ m2[x].blk_size = m[x].blk_size
  BY <1>1, SetNextIs
<1> HIDE DEF m2
<1>3. Real(m2) = Real(m)  BY <1>2 DEF Real
<1>4. Linking(m2)  BY <1>2, <1>3 DEF Linking, RealOrNull
<1> QED BY <1>3, <1>4 DEF m2

LEMMA RealPrev ==
  ASSUME NEW m, Linking(m), NEW a \in MayNull, NEW v \in RealOrNull(m)
  PROVE  Linking(SetPrev(m, a, v)) /\ Real(SetPrev(m, a, v)) = Real(m)
<1> DEFINE m2 == SetPrev(m, a, v)
<1>1. m \in [Addr -> Mcb] /\ v \in MayNull  BY DEF Linking, RealOrNull, Real, MayNull
<1>2. /\ m2 \in [Addr -> Mcb]
      /\ \A x \in Addr : /\ m2[x].p_prev = IF x = a THEN v ELSE m[x].p_prev
                         /\ m2[x].p_next = m[x].p_next
                         /\ m2[x].blk_size = m[x].blk_size
  BY <1>1, SetPrevIs
<1> HIDE DEF m2
<1>3. Real(m2) = Real(m)  BY <1>2 DEF Real
<1>4. Linking(m2)  BY <1>2, <1>3 DEF Linking, RealOrNull
<1> QED BY <1>3, <1>4 DEF m2

LEMMA RealSize ==
  ASSUME NEW m, Linking(m), NEW a \in Addr, NEW n \in Nat, a + Hdr + n <= HeapSize
  PROVE  /\ Linking(SetSize(m, a, n)) /\ Real(m) \subseteq Real(SetSize(m, a, n))
         /\ a \in Real(SetSize(m, a, n))
<1> DEFINE m2 == SetSize(m, a, n)
<1>0. n \in 0..(Width - 1)  BY NotNull, HeapAssumption DEF Addr
<1>1. m \in [Addr -> Mcb]  BY DEF Linking
<1>2. /\ m2 \in [Addr -> Mcb]
      /\ \A x \in Addr : /\ m2[x].blk_size = IF x = a THEN n ELSE m[x].blk_size
                         /\ m2[x].p_next = m[x].p_next
                         /\ m2[x].p_prev = m[x].p_prev
  BY <1>0, <1>1, SetSizeIs
<1> HIDE DEF m2
<1>3. Real(m) \subseteq Real(m2) /\ a \in Real(m2)  BY <1>2 DEF Real
<1>4. Linking(m2)  BY <1>2, <1>3 DEF Linking, RealOrNull
<1> QED BY <1>3, <1>4 DEF m2

LEMMA RealBlock ==
  ASSUME NEW m, Linking(m), NEW a \in Addr, NEW v \in RealOrNull(m), NEW w \in RealOrNull(m),
         NEW n \in Nat, a + Hdr + n <= HeapSize
  PROVE  LET b  == [p_prev |-> v, p_next |-> w, blk_size |-> n]
             m2 == [m EXCEPT ![a] = b]
         IN  Linking(m2) /\ Real(m) \subseteq Real(m2) /\ a \in Real(m2)
<1> DEFINE b  == [p_prev |-> v, p_next |-> w, blk_size |-> n]
           m2 == [m EXCEPT ![a] = b]
<1>0. n \in 0..(Width - 1)  BY NotNull, HeapAssumption DEF Addr
<1>1. m \in [Addr -> Mcb] /\ b \in Mcb /\ b.p_prev = v /\ b.p_next = w /\ b.blk_size = n
  BY <1>0 DEF Linking, Mcb, RealOrNull, Real
<1> HIDE DEF b
<1>2. m2 \in [Addr -> Mcb] /\ \A x \in Addr : m2[x] = IF x = a THEN b ELSE m[x]
  BY <1>1, SetBlockIs
<1> HIDE DEF m2
<1>3. Real(m) \subseteq Real(m2) /\ a \in Real(m2)  BY <1>1, <1>2 DEF Real
<1>4. Linking(m2)  BY <1>1, <1>2, <1>3 DEF Linking, RealOrNull
<1> QED BY <1>3, <1>4 DEF m2, b

(* The addresses a list goes through. *)
LEMMA RealList ==
  ASSUME NEW m, Linking(m), NEW h \in RealOrNull(m)
  PROVE  LET q == ListFrom(m, h)
         IN  /\ DOMAIN q = 1..Len(q) /\ Len(q) \in Nat
             /\ \A i \in DOMAIN q : q[i] \in Real(m)
             /\ \A i : At(q, i) \in RealOrNull(m)
<1> DEFINE q == ListFrom(m, h)
<1>1. PICK f, n : /\ \A k \in 0..HeapSize : f[k] = NodeAt(f, m, h, k)
                  /\ Stops(f, n, q)
  BY ListNodes
<1> HIDE DEF q
<1>2. q = [i \in 1..n |-> f[i - 1]] /\ n \in Nat /\ n <= HeapSize + 1 /\ \A i \in 1..n : f[i - 1] # NULL
  BY <1>1 DEF Stops
<1>3. Len(q) = n /\ DOMAIN q = 1..n /\ \A i \in 1..n : q[i] = f[i - 1]
  BY <1>2, LenProperties
<1> DEFINE T == {k \in 0..HeapSize : f[k] \notin RealOrNull(m)}
<1>4. T = {}
  <2> SUFFICES ASSUME T # {} PROVE FALSE
    OBVIOUS
  <2> DEFINE k == Min(T)
  <2>1. k \in T /\ \A j \in T : k <= j
    <3>1. T \in SUBSET Nat  BY NotNull
    <3> HIDE DEF T
    <3> QED BY <3>1, MinIsLeast
  <2> HIDE DEF k
  <2>2. k \in 0..HeapSize /\ f[k] \notin RealOrNull(m)  BY <2>1
  <2>3. f[k] = NodeAt(f, m, h, k)  BY <1>1, <2>2
  <2>4. k # 0  BY <2>2, <2>3 DEF NodeAt
  <2>5. k - 1 \in 0..HeapSize /\ ~(k <= k - 1)  BY <2>2, <2>4, NotNull
  <2>6. f[k - 1] \in RealOrNull(m)  BY <2>1, <2>5
  <2>7. f[k - 1] = NULL \/ f[k - 1] \in Addr  BY <2>6 DEF RealOrNull, Real
  <2> QED BY <2>2, <2>3, <2>4, <2>7 DEF NodeAt, Linking, RealOrNull
<1>5. \A i \in 1..n : i - 1 \in 0..HeapSize  BY <1>2, NotNull
<1>6. \A i \in 1..n : q[i] \in Real(m)  BY <1>2, <1>3, <1>4, <1>5 DEF RealOrNull
<1>7. \A i : At(q, i) \in RealOrNull(m)  BY <1>3, <1>6 DEF At, RealOrNull
<1> QED BY <1>2, <1>3, <1>6, <1>7 DEF q

-----------------------------------------------------------------------------
(* What a request comes to: when the size of the block with its control      *)
(* block is not less than the size, it did not wrap around.                  *)
LEMMA FullIs ==
  ASSUME NEW size \in Sizes
  PROVE  /\ size \in 0..(Width - 1) /\ size \in Nat /\ FullSize(size) \in Nat
         /\ ~(FullSize(size) < size) => FullSize(size) = size + Hdr
<1>1. size \in Nat /\ size < Width /\ Hdr \in Nat /\ Hdr < Width /\ Width \in Nat /\ 0 < Width
      /\ size \in 0..(Width - 1)
  BY HeapAssumption
<1> DEFINE x == size + Hdr
           y == x - Width
<1>2. x \in Nat /\ (x < Width \/ (y \in Nat /\ y < Width /\ y < size /\ y + Width = x))
  BY <1>1
<1>3. FullSize(size) = x % Width  BY DEF FullSize
<1>4. x = size + Hdr  OBVIOUS
<1> HIDE DEF x, y
<1>5. CASE x < Width
  <2>1. x % Width = x  BY ONLY <1>1, <1>2, <1>5
  <2> QED BY <1>1, <1>2, <1>3, <1>4, <2>1
<1>6. CASE ~(x < Width)
  <2>1. y \in Nat /\ y < Width /\ y < size /\ y + Width = x  BY <1>2, <1>6
  <2>2. Width <= x /\ x < 2 * Width /\ y = x - Width  BY ONLY <1>1, <1>2, <2>1
  <2>3. x % Width = x - Width  BY ONLY <1>1, <1>2, <2>2
  <2>4. FullSize(size) = y  BY <1>3, <2>2, <2>3
  <2> QED BY <1>1, <2>1, <2>4
<1> QED BY <1>5, <1>6

(* What is left behind the block at a when it is split. *)
LEMMA SplitIs ==
  ASSUME Linking(mcb), NEW a \in Real(mcb), NEW size \in Sizes,
         FullSize(size) = size + Hdr, mcb[a].blk_size > size + Hdr
  PROVE  LET m2   == Split(a, size)
             rest == a + size + Hdr
         IN  /\ Linking(m2) /\ Real(mcb) \subseteq Real(m2) /\ rest \in Real(m2)
             /\ rest + Hdr <= End(a) /\ a + Hdr + size <= HeapSize
             /\ \A x \in Addr :
                  /\ m2[x].blk_size = IF x = rest THEN mcb[a].blk_size - size - Hdr
                                                  ELSE mcb[x].blk_size
                  /\ m2[x].p_next = IF x = mcb[a].p_prev THEN rest
                                    ELSE IF x = rest THEN mcb[a].p_next ELSE mcb[x].p_next
                  /\ m2[x].p_prev = IF x = mcb[a].p_next THEN rest
                                    ELSE IF x = rest THEN mcb[a].p_prev ELSE mcb[x].p_prev
<1> DEFINE rest == a + size + Hdr
           n == mcb[a].blk_size - size - Hdr
           v == mcb[a].p_prev
           w == mcb[a].p_next
           b == [p_prev |-> v, p_next |-> w, blk_size |-> n]
           m1 == [mcb EXCEPT ![rest] = b]
           m3 == SetNext(m1, v, rest)
           m2 == SetPrev(m3, w, rest)
<1>1. a \in Addr /\ mcb \in [Addr -> Mcb] /\ mcb[a] \in Mcb /\ mcb[a].blk_size \in Nat
      /\ a + Hdr + mcb[a].blk_size <= HeapSize
  BY McbFields DEF Real, Linking
<1>2. v \in RealOrNull(mcb) /\ w \in RealOrNull(mcb)  BY <1>1 DEF Linking
<1>3. size \in Nat  BY FullIs
<1>4. rest \in Addr /\ n \in Nat /\ rest + Hdr + n <= HeapSize /\ rest + Hdr <= End(a)
      /\ a + Hdr + size <= HeapSize
  <2> DEFINE k == mcb[a].blk_size
  <2>1. k \in Nat /\ a + Hdr + k <= HeapSize /\ k > size + Hdr /\ End(a) = a + Hdr + k
        /\ n = k - size - Hdr
    BY <1>1 DEF End
  <2>2. a \in Nat  BY <1>1, NotNull
  <2> HIDE DEF k, n
  <2>3. n \in Nat /\ rest + Hdr + n <= HeapSize /\ rest \in Nat /\ rest < HeapSize
        /\ rest + Hdr <= End(a) /\ a + Hdr + size <= HeapSize
    BY <2>1, <2>2, <1>3, NotNull
  <2> QED BY <2>3, NotNull DEF Addr
<1>5. Split(a, size) = m2
  <2>1. [mcb[a] EXCEPT !.blk_size = @ - FullSize(size)] = b
    <3>1. mcb[a].blk_size - (size + Hdr) = n  BY <1>1, <1>3, NotNull
    <3>2. [mcb[a] EXCEPT !.blk_size = n] = b  BY <1>1 DEF Mcb
    <3> QED BY <3>1, <3>2
  <2>2. a + FullSize(size) = rest  BY <1>1, <1>3, NotNull
  <2> HIDE DEF b, rest
  <2> QED BY <2>1, <2>2 DEF Split
<1>6. Linking(m1) /\ Real(mcb) \subseteq Real(m1) /\ rest \in Real(m1)
  <2> HIDE DEF v, w, n, rest
  <2> QED BY <1>2, <1>4, RealBlock
<1>7. \A x \in Addr : m1[x] = IF x = rest THEN b ELSE mcb[x]  BY <1>1
<1>8. b.p_prev = v /\ b.p_next = w /\ b.blk_size = n  OBVIOUS
<1>9. v \in MayNull /\ w \in MayNull /\ rest \in MayNull /\ rest \in RealOrNull(m1)
      /\ m1 \in [Addr -> Mcb]
  BY <1>2, <1>4, <1>6 DEF RealOrNull, Real, MayNull, Linking
<1> HIDE DEF b, m1, rest, v, w, n
<1>10. Linking(m3) /\ Real(m3) = Real(m1)  BY <1>6, <1>9, RealNext
<1>11. /\ m3 \in [Addr -> Mcb]
       /\ \A x \in Addr : /\ m3[x].p_next = IF x = v THEN rest ELSE m1[x].p_next
                          /\ m3[x].p_prev = m1[x].p_prev
                          /\ m3[x].blk_size = m1[x].blk_size
  BY <1>9, SetNextIs
<1>12. rest \in RealOrNull(m3)  BY <1>9, <1>10 DEF RealOrNull
<1> HIDE DEF m3
<1>13. Linking(m2) /\ Real(m2) = Real(m3)  BY <1>9, <1>10, <1>12, RealPrev
<1>14. \A x \in Addr : /\ m2[x].p_prev = IF x = w THEN rest ELSE m3[x].p_prev
                       /\ m2[x].p_next = m3[x].p_next
                       /\ m2[x].blk_size = m3[x].blk_size
  BY <1>9, <1>11, SetPrevIs
<1> HIDE DEF m2
<1>15. \A x \in Addr :
         /\ m2[x].blk_size = IF x = rest THEN n ELSE mcb[x].blk_size
         /\ m2[x].p_next = IF x = v THEN rest ELSE IF x = rest THEN w ELSE mcb[x].p_next
         /\ m2[x].p_prev = IF x = w THEN rest ELSE IF x = rest THEN v ELSE mcb[x].p_prev
  BY <1>7, <1>8, <1>11, <1>14
<1>16. Linking(m2) /\ Real(mcb) \subseteq Real(m2) /\ rest \in Real(m2)
  BY <1>6, <1>10, <1>13
<1> QED BY <1>4, <1>5, <1>15, <1>16 DEF rest, v, w, n

(* A block put in between two others. *)
Put(m, a, v, w, n) ==
  SetPrev(SetNext([m EXCEPT ![a] = [p_prev |-> v, p_next |-> w, blk_size |-> n]], v, a), w, a)

LEMMA PutIs ==
  ASSUME NEW m, Linking(m), NEW a \in Addr, NEW v \in RealOrNull(m), NEW w \in RealOrNull(m),
         NEW n \in Nat, a + Hdr + n <= HeapSize
  PROVE  LET m2 == Put(m, a, v, w, n)
         IN  /\ Linking(m2) /\ Real(m) \subseteq Real(m2) /\ a \in Real(m2)
             /\ \A x \in Addr :
                  /\ m2[x].blk_size = IF x = a THEN n ELSE m[x].blk_size
                  /\ m2[x].p_next = IF x = v THEN a ELSE IF x = a THEN w ELSE m[x].p_next
                  /\ m2[x].p_prev = IF x = w THEN a ELSE IF x = a THEN v ELSE m[x].p_prev
<1> DEFINE b == [p_prev |-> v, p_next |-> w, blk_size |-> n]
           m1 == [m EXCEPT ![a] = b]
           m3 == SetNext(m1, v, a)
           m2 == SetPrev(m3, w, a)
<1>1. m \in [Addr -> Mcb]  BY DEF Linking
<1>6. Linking(m1) /\ Real(m) \subseteq Real(m1) /\ a \in Real(m1)  BY RealBlock
<1>7. \A x \in Addr : m1[x] = IF x = a THEN b ELSE m[x]  BY <1>1
<1>8. b.p_prev = v /\ b.p_next = w /\ b.blk_size = n  OBVIOUS
<1>9. v \in MayNull /\ w \in MayNull /\ a \in MayNull /\ a \in RealOrNull(m1)
      /\ m1 \in [Addr -> Mcb]
  BY <1>6 DEF RealOrNull, Real, MayNull, Linking
<1>5. Put(m, a, v, w, n) = m2  BY DEF Put
<1> HIDE DEF b, m1
<1>10. Linking(m3) /\ Real(m3) = Real(m1)  BY <1>6, <1>9, RealNext
<1>11. /\ m3 \in [Addr -> Mcb]
       /\ \A x \in Addr : /\ m3[x].p_next = IF x = v THEN a ELSE m1[x].p_next
                          /\ m3[x].p_prev = m1[x].p_prev
                          /\ m3[x].blk_size = m1[x].blk_size
  BY <1>9, SetNextIs
<1>12. a \in RealOrNull(m3)  BY <1>9, <1>10 DEF RealOrNull
<1> HIDE DEF m3
<1>13. Linking(m2) /\ Real(m2) = Real(m3)  BY <1>9, <1>10, <1>12, RealPrev
<1>14. \A x \in Addr : /\ m2[x].p_prev = IF x = w THEN a ELSE m3[x].p_prev
                       /\ m2[x].p_next = m3[x].p_next
                       /\ m2[x].blk_size = m3[x].blk_size
  BY <1>9, <1>11, SetPrevIs
<1> HIDE DEF m2
<1>15. \A x \in Addr :
         /\ m2[x].blk_size = IF x = a THEN n ELSE m[x].blk_size
         /\ m2[x].p_next = IF x = v THEN a ELSE IF x = a THEN w ELSE m[x].p_next
         /\ m2[x].p_prev = IF x = w THEN a ELSE IF x = a THEN v ELSE m[x].p_prev
  BY <1>7, <1>8, <1>11, <1>14
<1>16. Linking(m2) /\ Real(m) \subseteq Real(m2) /\ a \in Real(m2)
  BY <1>6, <1>10, <1>13
<1> QED BY <1>5, <1>15, <1>16

LEMMA FitsIs ==
  ASSUME NEW size \in Sizes, NEW b, b.blk_size \in Nat
  PROVE  /\ size <= b.blk_size => Fits(b, size)
         /\ ~(FullSize(size) < size) => /\ FullSize(size) = size + Hdr
                                        /\ Fits(b, size) => size <= b.blk_size
                                        /\ TakenWhole(b, size) => b.blk_size <= size + Hdr
                                        /\ Fits(b, size) /\ ~TakenWhole(b, size) => b.blk_size > size + Hdr
<1> DEFINE n == b.blk_size
           k == FullSize(size)
<1>1. size \in Nat /\ k \in Nat /\ Hdr \in Nat /\ n \in Nat
      /\ (~(k < size) => k = size + Hdr)
  BY FullIs, NotNull
<1>2. /\ TakenWhole(b, size) <=> (size <= n /\ n <= k)
      /\ Fits(b, size) <=> (n >= k \/ TakenWhole(b, size))
  BY DEF TakenWhole, Fits
<1> HIDE DEF n, k
<1>3. size <= n => Fits(b, size)  BY <1>1, <1>2
<1>4. ~(k < size) => /\ k = size + Hdr
                     /\ Fits(b, size) => size <= n
                     /\ TakenWhole(b, size) => n <= size + Hdr
                     /\ Fits(b, size) /\ ~TakenWhole(b, size) => n > size + Hdr
  BY <1>1, <1>2
<1> QED BY <1>3, <1>4 DEF n, k

-----------------------------------------------------------------------------
(* The types, with what they rest on: whatever has been done to the lists,   *)
(* they lead to control blocks of the heap.                                  *)
Typed == /\ HeapTypeOK /\ Linking(mcb)
         /\ free_head \in RealOrNull(mcb) /\ alloc_head \in RealOrNull(mcb)

(* The neighbours of a new block on the list of those in use. *)
BeforeIt(a) == At(ListFrom(mcb, alloc_head), Behind(ListFrom(mcb, alloc_head), a) - 1)
AfterIt(a)  == At(ListFrom(mcb, alloc_head), Behind(ListFrom(mcb, alloc_head), a))

(* Take, in terms of Put. *)
LEMMA TakeIs ==
  ASSUME NEW a, NEW size, Take(a, size)
  PROVE  LET whole == TakenWhole(mcb[a], size)
             m == IF whole THEN mcb ELSE Split(a, size)
             n == IF whole THEN mcb[a].blk_size ELSE size
         IN  /\ mcb' = Put(m, a, BeforeIt(a), AfterIt(a), n)
             /\ free_head' = IF a # free_head THEN free_head
                             ELSE IF whole THEN mcb[a].p_next ELSE a + FullSize(size)
             /\ alloc_head' = IF alloc_head = NULL THEN a ELSE alloc_head
             /\ live' = [live EXCEPT ![a + Hdr] = Append(@, size)]
             /\ harm' = harm \cup TakeHarm(a, whole)
             /\ outcome' = "ok"
BY DEF Take, Put, BeforeIt, AfterIt, Return

LEMMA TakeTyped ==
  ASSUME Typed, NEW size \in Sizes, NEW a \in Real(mcb), Fits(mcb[a], size),
         ~(FullSize(size) < size), Take(a, size)
  PROVE  Typed'
<1> DEFINE whole == TakenWhole(mcb[a], size)
           m == IF whole THEN mcb ELSE Split(a, size)
           n == IF whole THEN mcb[a].blk_size ELSE size
           v == BeforeIt(a)
           w == AfterIt(a)
           h == IF a # free_head THEN free_head
                ELSE IF whole THEN mcb[a].p_next ELSE a + FullSize(size)
<1>1. /\ mcb' = Put(m, a, v, w, n) /\ free_head' = h
      /\ alloc_head' = IF alloc_head = NULL THEN a ELSE alloc_head
      /\ live' = [live EXCEPT ![a + Hdr] = Append(@, size)]
      /\ harm' = harm \cup TakeHarm(a, whole) /\ outcome' = "ok"
  BY TakeIs
<1>2. /\ a \in Addr /\ a \in Nat /\ mcb \in [Addr -> Mcb] /\ mcb[a].blk_size \in Nat
      /\ a + Hdr + mcb[a].blk_size <= HeapSize /\ Linking(mcb)
  BY NotNull, McbFields DEF Real, Linking, Typed
<1>3. v \in RealOrNull(mcb) /\ w \in RealOrNull(mcb)
  BY RealList DEF Typed, BeforeIt, AfterIt
<1>4. size \in Nat /\ FullSize(size) = size + Hdr /\ (~whole => mcb[a].blk_size > size + Hdr)
  BY <1>2, FullIs, FitsIs
<1>5. /\ Linking(m) /\ Real(mcb) \subseteq Real(m)
      /\ n \in Nat /\ a + Hdr + n <= HeapSize
      /\ h \in RealOrNull(m)
  <2>1. CASE whole
    <3>1. m = mcb /\ n = mcb[a].blk_size /\ (h = free_head \/ h = mcb[a].p_next)  BY <2>1
    <3>2. mcb[a].p_next \in RealOrNull(mcb)  BY <1>2 DEF Linking
    <3> QED BY <1>2, <3>1, <3>2 DEF Typed
  <2>2. CASE ~whole
    <3>1. m = Split(a, size) /\ n = size /\ (h = free_head \/ h = a + FullSize(size))  BY <2>2
    <3>2. /\ Linking(Split(a, size)) /\ Real(mcb) \subseteq Real(Split(a, size))
          /\ a + size + Hdr \in Real(Split(a, size)) /\ a + Hdr + size <= HeapSize
      BY <1>2, <1>4, <2>2, SplitIs
    <3>3. a + FullSize(size) = a + size + Hdr  BY <1>2, <1>4, NotNull
    <3>4. free_head \in RealOrNull(m)  BY <3>1, <3>2 DEF Typed, RealOrNull
    <3> QED BY <1>4, <3>1, <3>2, <3>3, <3>4 DEF RealOrNull
  <2> QED BY <2>1, <2>2
<1>6. v \in RealOrNull(m) /\ w \in RealOrNull(m)  BY <1>3, <1>5 DEF RealOrNull
<1> HIDE DEF m, n, v, w, h
<1>7. Linking(mcb') /\ Real(m) \subseteq Real(mcb') /\ a \in Real(mcb')
  BY <1>1, <1>2, <1>5, <1>6, PutIs
<1>8. free_head' \in RealOrNull(mcb')  BY <1>1, <1>5, <1>7 DEF RealOrNull
<1>9. alloc_head' \in RealOrNull(mcb')  BY <1>1, <1>5, <1>7 DEF RealOrNull, Typed
<1>10. live' \in [Ptr -> Seq(Sizes)]
  <2>1. a + Hdr \in Ptr  BY <1>2, NotNull DEF Ptr
  <2>2. live \in [Ptr -> Seq(Sizes)]  BY DEF Typed, HeapTypeOK
  <2>3. Append(live[a + Hdr], size) \in Seq(Sizes)  BY <2>1, <2>2, AppendProperties
  <2> QED BY <1>1, <2>1, <2>2, <2>3
<1>11. harm' \subseteq Harms  BY <1>1 DEF TakeHarm, Typed, HeapTypeOK
<1>12. free_head' \in Addr \cup {NULL} /\ alloc_head' \in Addr \cup {NULL} /\ mcb' \in [Addr -> Mcb]
  BY <1>7, <1>8, <1>9 DEF RealOrNull, Real, Linking
<1> QED BY <1>1, <1>7, <1>8, <1>9, <1>10, <1>11, <1>12 DEF Typed, HeapTypeOK, Linking, RealOrNull, Real

-----------------------------------------------------------------------------
(* What free_memory does to the control blocks. *)
LEMMA UnlinkedIs ==
  ASSUME Linking(mcb), NEW a \in Addr
  PROVE  LET m2 == Unlinked(a)
         IN  /\ Linking(m2) /\ Real(m2) = Real(mcb)
             /\ \A x \in Addr :
                  /\ m2[x].blk_size = mcb[x].blk_size
                  /\ m2[x].p_next = IF a # alloc_head /\ x = mcb[a].p_prev
                                    THEN mcb[a].p_next ELSE mcb[x].p_next
                  /\ m2[x].p_prev = IF x = mcb[a].p_next THEN mcb[a].p_prev ELSE mcb[x].p_prev
<1> DEFINE v == mcb[a].p_prev
           w == mcb[a].p_next
           m == IF a = alloc_head THEN mcb ELSE SetNext(mcb, v, w)
           m2 == SetPrev(m, w, v)
<1>1. Unlinked(a) = m2  BY DEF Unlinked
<1>2. v \in RealOrNull(mcb) /\ w \in RealOrNull(mcb) /\ mcb \in [Addr -> Mcb]
      /\ v \in MayNull /\ w \in MayNull
  BY DEF Linking, RealOrNull, Real, MayNull
<1> HIDE DEF v, w
<1>3. /\ Linking(m) /\ Real(m) = Real(mcb) /\ m \in [Addr -> Mcb]
      /\ \A x \in Addr : /\ m[x].p_next = IF a # alloc_head /\ x = v THEN w ELSE mcb[x].p_next
                         /\ m[x].p_prev = mcb[x].p_prev
                         /\ m[x].blk_size = mcb[x].blk_size
  <2>1. CASE a = alloc_head  BY <1>2, <2>1
  <2>2. CASE a # alloc_head
    <3>1. m = SetNext(mcb, v, w)  BY <2>2
    <3>2. Linking(m) /\ Real(m) = Real(mcb)  BY <1>2, <3>1, RealNext
    <3> QED BY <1>2, <2>2, <3>1, <3>2, SetNextIs
  <2> QED BY <2>1, <2>2
<1>4. v \in RealOrNull(m)  BY <1>2, <1>3 DEF RealOrNull
<1> HIDE DEF m
<1>5. Linking(m2) /\ Real(m2) = Real(m)  BY <1>2, <1>3, <1>4, RealPrev
<1>6. \A x \in Addr : /\ m2[x].p_prev = IF x = w THEN v ELSE m[x].p_prev
                      /\ m2[x].p_next = m[x].p_next
                      /\ m2[x].blk_size = m[x].blk_size
  BY <1>2, <1>3, SetPrevIs
<1> HIDE DEF m2
<1> QED BY <1>1, <1>3, <1>5, <1>6 DEF v, w

(* The free block at b is taken over by the block at a that touches it. *)
LEMMA AbsorbIs ==
  ASSUME NEW m, Linking(m), NEW a \in Addr, NEW b \in Real(m), Touches(m, a, b)
  PROVE  LET m2 == Absorb(m, a, b)
         IN  /\ Linking(m2) /\ Real(m) \subseteq Real(m2)
             /\ \A x \in Addr :
                  /\ m2[x].blk_size = IF x = a THEN m[a].blk_size + m[b].blk_size + Hdr
                                               ELSE m[x].blk_size
                  /\ m2[x].p_next = IF x = a THEN m[b].p_next ELSE m[x].p_next
                  /\ m2[x].p_prev = IF x = m[b].p_next THEN a ELSE m[x].p_prev
<1> DEFINE n == m[a].blk_size + m[b].blk_size + Hdr
           w == m[b].p_next
           m1 == SetSize(m, a, n)
           m3 == SetNext(m1, a, w)
           m2 == SetPrev(m3, w, a)
<1>1. b \in Addr /\ m \in [Addr -> Mcb] /\ m[a] \in Mcb
      /\ m[a].blk_size \in Nat /\ m[b].blk_size \in Nat
      /\ b + Hdr + m[b].blk_size <= HeapSize /\ a + Hdr + m[a].blk_size = b
  BY McbFields DEF Real, Linking, Touches
<1>2. n \in Nat /\ a + Hdr + n <= HeapSize
  <2>1. a \in Nat /\ b \in Nat  BY <1>1, NotNull
  <2> DEFINE y == m[a].blk_size
             z == m[b].blk_size
  <2>2. y \in Nat /\ z \in Nat /\ b + Hdr + z <= HeapSize /\ a + Hdr + y = b /\ n = y + z + Hdr
    BY <1>1
  <2> HIDE DEF y, z, n
  <2> QED BY <2>1, <2>2, NotNull
<1>3. w \in RealOrNull(m) /\ w \in MayNull /\ a \in MayNull
  BY <1>1 DEF Linking, RealOrNull, Real, MayNull
<1>4. Absorb(m, a, b) = m2
  <2>1. [m EXCEPT ![a].blk_size = @ + m[b].blk_size + Hdr, ![a].p_next = w] = m3
    <3>1. a # NULL  BY NotNull
    <3>2. m[a].blk_size + m[b].blk_size + Hdr = n  OBVIOUS
    <3> HIDE DEF n, w
    <3>3. m3 = [[m EXCEPT ![a].blk_size = n] EXCEPT ![a].p_next = w]
      BY <3>1 DEF SetNext, SetSize
    <3>4. [[m EXCEPT ![a].blk_size = n] EXCEPT ![a].p_next = w]
            = [m EXCEPT ![a].blk_size = n, ![a].p_next = w]
      BY <1>1
    <3> HIDE DEF m3
    <3>5. [m EXCEPT ![a].blk_size = @ + m[b].blk_size + Hdr, ![a].p_next = w]
            = [m EXCEPT ![a].blk_size = n, ![a].p_next = w]
      BY <1>1, <3>2
    <3> QED BY <3>3, <3>4, <3>5
  <2> HIDE DEF m3
  <2> QED BY <2>1 DEF Absorb
<1> HIDE DEF n, w
<1>5. Linking(m1) /\ Real(m) \subseteq Real(m1) /\ a \in Real(m1)  BY <1>2, RealSize
<1>6. /\ m1 \in [Addr -> Mcb]
      /\ \A x \in Addr : /\ m1[x].blk_size = IF x = a THEN n ELSE m[x].blk_size
                         /\ m1[x].p_next = m[x].p_next
                         /\ m1[x].p_prev = m[x].p_prev
  <2>1. n \in 0..(Width - 1)  BY <1>2, NotNull, HeapAssumption
  <2> QED BY <1>1, <2>1, SetSizeIs
<1>7. w \in RealOrNull(m1) /\ a \in RealOrNull(m1)  BY <1>3, <1>5 DEF RealOrNull
<1> HIDE DEF m1
<1>8. Linking(m3) /\ Real(m3) = Real(m1)  BY <1>3, <1>5, <1>7, RealNext
<1>9. /\ m3 \in [Addr -> Mcb]
      /\ \A x \in Addr : /\ m3[x].p_next = IF x = a THEN w ELSE m1[x].p_next
                         /\ m3[x].p_prev = m1[x].p_prev
                         /\ m3[x].blk_size = m1[x].blk_size
  BY <1>3, <1>6, SetNextIs
<1>10. a \in RealOrNull(m3)  BY <1>7, <1>8 DEF RealOrNull
<1> HIDE DEF m3
<1>11. Linking(m2) /\ Real(m2) = Real(m3)  BY <1>3, <1>8, <1>10, RealPrev
<1>12. \A x \in Addr : /\ m2[x].p_prev = IF x = w THEN a ELSE m3[x].p_prev
                       /\ m2[x].p_next = m3[x].p_next
                       /\ m2[x].blk_size = m3[x].blk_size
  BY <1>3, <1>9, SetPrevIs
<1> HIDE DEF m2
<1>13. \A x \in Addr :
         /\ m2[x].blk_size = IF x = a THEN n ELSE m[x].blk_size
         /\ m2[x].p_next = IF x = a THEN w ELSE m[x].p_next
         /\ m2[x].p_prev = IF x = w THEN a ELSE m[x].p_prev
  BY <1>6, <1>9, <1>12
<1>14. Linking(m2) /\ Real(m) \subseteq Real(m2)  BY <1>5, <1>8, <1>11
<1> QED BY <1>4, <1>13, <1>14 DEF n, w

LEMMA JoinNextIs ==
  ASSUME NEW m, Linking(m), NEW a \in Real(m), NEW b \in RealOrNull(m)
  PROVE  LET m2 == JoinNext(m, a, b)
         IN  /\ Linking(m2) /\ Real(m) \subseteq Real(m2)
             /\ Touches(m, a, b) => b \in Real(m) /\ m2 = Absorb(m, a, b)
             /\ ~Touches(m, a, b) =>
                  \A x \in Addr : /\ m2[x].p_next = IF x = a THEN b ELSE m[x].p_next
                                  /\ m2[x].p_prev = IF x = b THEN a ELSE m[x].p_prev
                                  /\ m2[x].blk_size = m[x].blk_size
<1> DEFINE m2 == JoinNext(m, a, b)
<1>1. a \in Addr /\ m \in [Addr -> Mcb] /\ m[a].blk_size \in Nat
      /\ a \in MayNull /\ b \in MayNull /\ a \in RealOrNull(m)
  BY McbFields DEF Real, RealOrNull, MayNull, Linking
<1>2. CASE Touches(m, a, b)
  <2>1. b # NULL
    <3>1. a + Hdr + m[a].blk_size \in Nat  BY <1>1, NotNull
    <3> QED BY <1>2, <3>1 DEF Touches, NULL
  <2>2. b \in Real(m)  BY <2>1 DEF RealOrNull
  <2>3. m2 = Absorb(m, a, b)  BY <1>2 DEF JoinNext
  <2> HIDE DEF m2
  <2>4. Linking(m2) /\ Real(m) \subseteq Real(m2)  BY <1>1, <1>2, <2>2, <2>3, AbsorbIs
  <2> QED BY <1>2, <2>2, <2>3, <2>4 DEF m2
<1>3. CASE ~Touches(m, a, b)
  <2> DEFINE m1 == SetNext(m, a, b)
  <2>1. m2 = SetPrev(m1, b, a)  BY <1>3 DEF JoinNext
  <2>2. Linking(m1) /\ Real(m1) = Real(m)  BY <1>1, RealNext
  <2>3. /\ m1 \in [Addr -> Mcb]
        /\ \A x \in Addr : /\ m1[x].p_next = IF x = a THEN b ELSE m[x].p_next
                           /\ m1[x].p_prev = m[x].p_prev
                           /\ m1[x].blk_size = m[x].blk_size
    BY <1>1, SetNextIs
  <2>4. a \in RealOrNull(m1)  BY <1>1, <2>2 DEF RealOrNull
  <2> HIDE DEF m1, m2
  <2>5. Linking(m2) /\ Real(m2) = Real(m1)  BY <1>1, <2>1, <2>2, <2>4, RealPrev
  <2>6. \A x \in Addr : /\ m2[x].p_prev = IF x = b THEN a ELSE m1[x].p_prev
                        /\ m2[x].p_next = m1[x].p_next
                        /\ m2[x].blk_size = m1[x].blk_size
    BY <1>1, <2>1, <2>3, SetPrevIs
  <2> QED BY <1>3, <2>2, <2>3, <2>5, <2>6 DEF m2
<1> QED BY <1>2, <1>3

LEMMA JoinPreviousIs ==
  ASSUME NEW m, Linking(m), NEW v \in Real(m), NEW a \in Real(m), NEW w \in RealOrNull(m),
         Touches(m, v, a)
  PROVE  LET m2 == JoinPrevious(m, v, a, w)
             n  == m[v].blk_size + m[a].blk_size + Hdr
         IN  /\ Linking(m2) /\ Real(m) \subseteq Real(m2)
             /\ Touches(m, a, w) => w \in Real(m)
             /\ \A x \in Addr :
                  /\ m2[x].blk_size =
                       IF x # v THEN m[x].blk_size
                       ELSE IF Touches(m, a, w) THEN n + m[w].blk_size + Hdr ELSE n
                  /\ m2[x].p_next = IF x = v /\ w = NULL THEN NULL
                                    ELSE IF x = v /\ Touches(m, a, w) THEN m[w].p_next
                                    ELSE m[x].p_next
                  /\ m2[x].p_prev = IF Touches(m, a, w) /\ x = m[w].p_next THEN v
                                    ELSE m[x].p_prev
<1> DEFINE n == m[v].blk_size + m[a].blk_size + Hdr
           m1 == SetSize(m, v, n)
           m2 == JoinPrevious(m, v, a, w)
<1>1. /\ v \in Addr /\ a \in Addr /\ v \in Nat /\ a \in Nat /\ m \in [Addr -> Mcb]
      /\ m[a].blk_size \in Nat /\ m[v].blk_size \in Nat /\ v \in MayNull /\ w \in MayNull
      /\ a + Hdr + m[a].blk_size <= HeapSize /\ v + Hdr + m[v].blk_size = a
  BY McbFields, NotNull DEF Real, RealOrNull, MayNull, Linking, Touches
<1>2. n \in Nat /\ v + Hdr + n <= HeapSize /\ v + Hdr + n = a + Hdr + m[a].blk_size
  <2> DEFINE y == m[v].blk_size
             z == m[a].blk_size
  <2>1. y \in Nat /\ z \in Nat /\ a + Hdr + z <= HeapSize /\ v + Hdr + y = a /\ n = y + z + Hdr
    BY <1>1
  <2> HIDE DEF y, z, n
  <2>2. n \in Nat /\ v + Hdr + n <= HeapSize /\ v + Hdr + n = a + Hdr + z
    BY <1>1, <2>1, NotNull
  <2> QED BY <2>2 DEF z
<1>3. m2 = IF w = NULL THEN SetNext(m1, v, NULL)
           ELSE IF Touches(m, a, w) THEN Absorb(m1, v, w) ELSE m1
  BY DEF JoinPrevious, SetSize
<1>4. Touches(m, a, w) => w \in Real(m) /\ w # NULL /\ w # v
  <2> HAVE Touches(m, a, w)
  <2>1. w = a + Hdr + m[a].blk_size  BY DEF Touches
  <2>2. w \in Nat /\ v < w
    <3> DEFINE y == m[v].blk_size
               z == m[a].blk_size
    <3>1. y \in Nat /\ z \in Nat /\ v + Hdr + y = a /\ w = a + Hdr + z  BY <1>1, <2>1
    <3> HIDE DEF y, z
    <3> QED BY <1>1, <3>1, NotNull
  <2> QED BY <1>1, <2>2 DEF RealOrNull, NULL
<1> HIDE DEF m2, n
<1>5. Linking(m1) /\ Real(m) \subseteq Real(m1) /\ v \in Real(m1)  BY <1>1, <1>2, RealSize
<1>6. /\ m1 \in [Addr -> Mcb]
      /\ \A x \in Addr : /\ m1[x].blk_size = IF x = v THEN n ELSE m[x].blk_size
                         /\ m1[x].p_next = m[x].p_next
                         /\ m1[x].p_prev = m[x].p_prev
  <2>1. n \in 0..(Width - 1)  BY <1>1, <1>2, NotNull, HeapAssumption
  <2> QED BY <1>1, <2>1, SetSizeIs
<1> HIDE DEF m1
<1>7. CASE w = NULL
  <2>1. ~Touches(m, a, w)  BY <1>4, <1>7
  <2>2. NULL \in RealOrNull(m1) /\ NULL \in MayNull  BY DEF RealOrNull, MayNull
  <2>3. m2 = SetNext(m1, v, NULL)  BY <1>3, <1>7
  <2>4. Linking(m2) /\ Real(m2) = Real(m1)  BY <1>1, <1>5, <2>2, <2>3, RealNext
  <2>5. \A x \in Addr : /\ m2[x].p_next = IF x = v THEN NULL ELSE m1[x].p_next
                        /\ m2[x].p_prev = m1[x].p_prev
                        /\ m2[x].blk_size = m1[x].blk_size
    BY <1>1, <1>6, <2>2, <2>3, SetNextIs
  <2> QED BY <1>5, <1>6, <1>7, <2>1, <2>4, <2>5 DEF m2, n
<1>8. CASE w # NULL /\ ~Touches(m, a, w)
  <2>1. m2 = m1  BY <1>3, <1>8
  <2> QED BY <1>5, <1>6, <1>8, <2>1 DEF m2, n
<1>9. CASE Touches(m, a, w)
  <2>1. w \in Real(m) /\ w # NULL /\ w # v /\ w \in Addr /\ w \in Real(m1)
    BY <1>4, <1>5, <1>9 DEF Real
  <2>2. m2 = Absorb(m1, v, w)  BY <1>3, <1>9, <2>1
  <2>3. m1[v].blk_size = n /\ m1[w].blk_size = m[w].blk_size /\ m1[w].p_next = m[w].p_next
    BY <1>1, <1>6, <2>1
  <2>4. Touches(m1, v, w)
    <3>1. a + Hdr + m[a].blk_size = w  BY <1>9 DEF Touches
    <3> QED BY <1>2, <2>3, <3>1 DEF Touches
  <2>5. /\ Linking(m2) /\ Real(m1) \subseteq Real(m2)
        /\ \A x \in Addr :
             /\ m2[x].blk_size = IF x = v THEN n + m[w].blk_size + Hdr ELSE m1[x].blk_size
             /\ m2[x].p_next = IF x = v THEN m[w].p_next ELSE m1[x].p_next
             /\ m2[x].p_prev = IF x = m[w].p_next THEN v ELSE m1[x].p_prev
    BY <1>1, <1>5, <2>1, <2>2, <2>3, <2>4, AbsorbIs
  <2> QED BY <1>5, <1>6, <1>9, <2>1, <2>5 DEF m2, n
<1> QED BY <1>7, <1>8, <1>9

LEMMA InsertTyped ==
  ASSUME Linking(mcb), free_head \in RealOrNull(mcb), NEW a \in Real(mcb)
  PROVE  Linking(Insert(a)) /\ Real(mcb) \subseteq Real(Insert(a))
<1> DEFINE m == Unlinked(a)
           w == FreeAround(a).next
           v == FreeAround(a).prev
           m2 == Insert(a)
<1>1. a \in Addr /\ Linking(m) /\ Real(m) = Real(mcb)  BY UnlinkedIs DEF Real
<1>2. v \in RealOrNull(m) /\ w \in RealOrNull(m)
  <2>1. free_head \in RealOrNull(m)  BY <1>1 DEF RealOrNull
  <2>2. \A i : At(ListFrom(m, free_head), i) \in RealOrNull(m)  BY <1>1, <2>1, RealList
  <2> QED BY <2>2 DEF FreeAround
<1>3. a \in MayNull /\ NULL \in MayNull /\ NULL \in RealOrNull(m) /\ v \in MayNull
  BY <1>1, <1>2 DEF MayNull, RealOrNull, Real
<1>4. \/ m2 = SetPrev(SetNext(m, a, NULL), a, NULL)
      \/ m2 = JoinNext([m EXCEPT ![a].p_prev = NULL], a, w)
      \/ v # NULL /\ Touches(m, v, a) /\ m2 = JoinPrevious(m, v, a, w)
      \/ m2 = JoinBehind(m, v, a, w)
  BY DEF Insert
<1> HIDE DEF m, v, w, m2
<1>5. CASE m2 = SetPrev(SetNext(m, a, NULL), a, NULL)
  <2> DEFINE m1 == SetNext(m, a, NULL)
  <2>1. Linking(m1) /\ Real(m1) = Real(m)  BY <1>1, <1>3, RealNext
  <2>2. NULL \in RealOrNull(m1)  BY DEF RealOrNull
  <2>3. m2 = SetPrev(m1, a, NULL)  BY <1>5
  <2> HIDE DEF m1
  <2>4. Linking(m2) /\ Real(m2) = Real(m1)  BY <1>3, <2>1, <2>2, <2>3, RealPrev
  <2> QED BY <1>1, <2>1, <2>4 DEF m2
<1> DEFINE m1(u) == SetPrev(m, a, u)
<1>6. ASSUME NEW u \in RealOrNull(m)
      PROVE  /\ Linking(m1(u)) /\ Real(m1(u)) = Real(m) /\ m1(u) = [m EXCEPT ![a].p_prev = u]
             /\ LET m3 == JoinNext(m1(u), a, w)
                IN  Linking(m3) /\ Real(m) \subseteq Real(m3)
  <2>1. Linking(m1(u)) /\ Real(m1(u)) = Real(m)  BY <1>1, <1>3, <1>6, RealPrev
  <2>2. m1(u) = [m EXCEPT ![a].p_prev = u]  BY <1>1, NotNull DEF SetPrev
  <2>3. a \in Real(m1(u)) /\ w \in RealOrNull(m1(u))  BY <1>1, <1>2, <2>1 DEF RealOrNull
  <2> HIDE DEF m1
  <2>4. LET m3 == JoinNext(m1(u), a, w)
        IN  Linking(m3) /\ Real(m1(u)) \subseteq Real(m3)
    BY <2>1, <2>3, JoinNextIs
  <2> QED BY <2>1, <2>2, <2>4
<1>7. CASE m2 = JoinNext([m EXCEPT ![a].p_prev = NULL], a, w)
  <2>1. m2 = JoinNext(m1(NULL), a, w)  BY <1>3, <1>6, <1>7
  <2> HIDE DEF m1
  <2>2. Linking(m2) /\ Real(m) \subseteq Real(m2)  BY <1>3, <1>6, <2>1
  <2> QED BY <1>1, <2>2 DEF m2
<1>8. CASE v # NULL /\ Touches(m, v, a) /\ m2 = JoinPrevious(m, v, a, w)
  <2>1. v \in Real(m) /\ a \in Real(m)  BY <1>1, <1>2, <1>8 DEF RealOrNull
  <2>2. Linking(m2) /\ Real(m) \subseteq Real(m2)  BY <1>1, <1>2, <1>8, <2>1, JoinPreviousIs
  <2> QED BY <1>1, <2>2 DEF m2
<1>9. CASE m2 = JoinBehind(m, v, a, w)
  <2> DEFINE k == m1(v)
  <2>1. k = [m EXCEPT ![a].p_prev = v]  BY <1>2, <1>6
  <2> HIDE DEF k
  <2>2. m2 = k \/ m2 = JoinNext(k, a, w)  BY <1>9, <2>1 DEF JoinBehind
  <2>3. Linking(k) /\ Real(k) = Real(m)  BY <1>2, <1>6 DEF k
  <2>4. LET m3 == JoinNext(k, a, w)
        IN  Linking(m3) /\ Real(m) \subseteq Real(m3)
    BY <1>2, <1>6 DEF k
  <2>5. Linking(m2) /\ Real(m) \subseteq Real(m2)  BY <2>2, <2>3, <2>4
  <2> QED BY <1>1, <2>5 DEF m2
<1> QED BY <1>4, <1>5, <1>7, <1>8, <1>9

-----------------------------------------------------------------------------
(* What the two calls come to. *)
Unchanged == UNCHANGED <<free_head, alloc_head, mcb, live, harm>>

LEMMA AllocateIs ==
  ASSUME Typed, NEW size \in Sizes, Allocate(size)
  PROVE  \/ Unchanged /\ outcome' \in {"hung", "wild"}
         \/ /\ Unchanged /\ outcome' = "refused"
            /\ \A b \in Blocks(free_head) : ~Fits(mcb[b], size)
         \/ \E a \in Blocks(free_head) \cap Real(mcb) :
               Fits(mcb[a], size) /\ ~(FullSize(size) < size) /\ Take(a, size)
<1> DEFINE list == ListFrom(mcb, free_head)
           fits == {i \in DOMAIN list : Fits(mcb[list[i]], size)}
           first == list[Min(fits)]
<1>1. DOMAIN list = 1..Len(list) /\ Len(list) \in Nat /\ \A i \in DOMAIN list : list[i] \in Real(mcb)
  BY RealList DEF Typed
<1>2. IF fits = {} THEN Refuse(IF Endless(list) THEN "hung" ELSE "refused")
      ELSE IF Stuck(ListFrom(mcb, alloc_head), first) THEN Refuse("hung")
      ELSE IF FullSize(size) < size THEN Refuse("wild")
      ELSE Take(first, size)
  BY DEF Allocate
<1>3. Blocks(free_head) = {list[i] : i \in DOMAIN list}  BY DEF Blocks, ToSet
<1> HIDE DEF list
<1>4. CASE fits = {}
  <2>1. Unchanged /\ outcome' \in {"hung", "refused"}
    BY <1>2, <1>4 DEF Refuse, Return, Unchanged
  <2>2. \A b \in Blocks(free_head) : ~Fits(mcb[b], size)  BY <1>3, <1>4
  <2> QED BY <2>1, <2>2
<1>5. CASE fits # {}
  <2>1. Min(fits) \in fits
    <3>1. fits \in SUBSET Nat  BY <1>1
    <3> HIDE DEF fits
    <3> QED BY <1>5, <3>1, MinIsLeast
  <2>2. first \in Blocks(free_head) \cap Real(mcb) /\ Fits(mcb[first], size)
    BY <1>1, <1>3, <2>1
  <2> HIDE DEF fits, first
  <2>3. Refuse("hung") \/ Refuse("wild") \/ (~(FullSize(size) < size) /\ Take(first, size))
    BY <1>2, <1>5
  <2>4. (Refuse("hung") \/ Refuse("wild")) => Unchanged /\ outcome' \in {"hung", "wild"}
    BY DEF Refuse, Return, Unchanged
  <2> QED BY <2>2, <2>3, <2>4
<1> QED BY <1>4, <1>5

LEMMA FreeIs ==
  ASSUME NEW p, Free(p)
  PROVE  LET a == p - Hdr
         IN  \/ /\ Unchanged /\ outcome' = "hung"
                /\ \/ Endless(ListFrom(mcb, alloc_head))
                   \/ Listed(a) /\ Stuck(ListFrom(Unlinked(a), free_head), a)
             \/ Unchanged /\ outcome' = "refused" /\ ~Listed(a)
             \/ Unchanged /\ outcome' = "fault" /\ Listed(a) /\ a # alloc_head
                  /\ mcb[a].p_prev = NULL
             \/ /\ Listed(a) /\ mcb' = Insert(a)
                /\ free_head' = IF free_head = NULL \/ a < free_head THEN a ELSE free_head
                /\ alloc_head' = IF a = alloc_head THEN mcb[a].p_next ELSE alloc_head
                /\ live' = [live EXCEPT ![p] = SubSeq(@, 2, Len(@))]
                /\ harm' = harm \cup FreeHarm(a) /\ outcome' = "ok"
<1> DEFINE a == p - Hdr
<1>1. \/ ~Listed(a) /\ Refuse("hung") /\ Endless(ListFrom(mcb, alloc_head))
      \/ ~Listed(a) /\ Refuse("refused")
      \/ Listed(a) /\ a # alloc_head /\ mcb[a].p_prev = NULL /\ Refuse("fault")
      \/ Listed(a) /\ Stuck(ListFrom(Unlinked(a), free_head), a) /\ Refuse("hung")
      \/ /\ Listed(a) /\ mcb' = Insert(a)
         /\ free_head' = IF free_head = NULL \/ a < free_head THEN a ELSE free_head
         /\ alloc_head' = IF a = alloc_head THEN mcb[a].p_next ELSE alloc_head
         /\ live' = [live EXCEPT ![p] = SubSeq(@, 2, Len(@))]
         /\ harm' = harm \cup FreeHarm(a) /\ outcome' = "ok"
  <2> HIDE DEF a
  <2> QED BY DEF Free, Return, a
<1>2. \A o : Refuse(o) => Unchanged /\ outcome' = o  BY DEF Refuse, Return, Unchanged
<1> HIDE DEF a
<1>3. \/ ~Listed(a) /\ Unchanged /\ outcome' = "hung" /\ Endless(ListFrom(mcb, alloc_head))
      \/ ~Listed(a) /\ Unchanged /\ outcome' = "refused"
      \/ Listed(a) /\ a # alloc_head /\ mcb[a].p_prev = NULL /\ Unchanged /\ outcome' = "fault"
      \/ Listed(a) /\ Stuck(ListFrom(Unlinked(a), free_head), a) /\ Unchanged /\ outcome' = "hung"
      \/ /\ Listed(a) /\ mcb' = Insert(a)
         /\ free_head' = IF free_head = NULL \/ a < free_head THEN a ELSE free_head
         /\ alloc_head' = IF a = alloc_head THEN mcb[a].p_next ELSE alloc_head
         /\ live' = [live EXCEPT ![p] = SubSeq(@, 2, Len(@))]
         /\ harm' = harm \cup FreeHarm(a) /\ outcome' = "ok"
  BY <1>1, <1>2
<1>4. \/ /\ Unchanged /\ outcome' = "hung"
         /\ \/ Endless(ListFrom(mcb, alloc_head))
            \/ Listed(a) /\ Stuck(ListFrom(Unlinked(a), free_head), a)
      \/ Unchanged /\ outcome' = "refused" /\ ~Listed(a)
      \/ Unchanged /\ outcome' = "fault" /\ Listed(a) /\ a # alloc_head /\ mcb[a].p_prev = NULL
      \/ /\ Listed(a) /\ mcb' = Insert(a)
         /\ free_head' = IF free_head = NULL \/ a < free_head THEN a ELSE free_head
         /\ alloc_head' = IF a = alloc_head THEN mcb[a].p_next ELSE alloc_head
         /\ live' = [live EXCEPT ![p] = SubSeq(@, 2, Len(@))]
         /\ harm' = harm \cup FreeHarm(a) /\ outcome' = "ok"
  BY <1>3
<1> QED BY <1>4 DEF a

LEMMA InitTyped == Init => Typed
<1> SUFFICES ASSUME Init PROVE Typed
  OBVIOUS
<1> DEFINE b == [Empty EXCEPT !.blk_size = HeapSize - Hdr]
<1>1. /\ 0 \in Addr /\ 0 \in Nat /\ HeapSize - Hdr \in 0..(Width - 1) /\ 0 \in 0..(Width - 1)
      /\ HeapSize - Hdr \in Nat
  BY HeapAssumption DEF Addr
<1>2. /\ Empty \in Mcb /\ b \in Mcb /\ Empty.p_next = NULL /\ Empty.p_prev = NULL
      /\ b.p_next = NULL /\ b.p_prev = NULL /\ b.blk_size = HeapSize - Hdr
  BY <1>1 DEF Empty, Mcb
<1> HIDE DEF b
<1>3. mcb = [a \in Addr |-> IF a = 0 THEN b ELSE Empty] /\ free_head = 0 /\ alloc_head = NULL
      /\ live = [p \in Ptr |-> <<>>] /\ outcome = "ok" /\ harm = {}
  BY DEF Init, b
<1>4. mcb \in [Addr -> Mcb] /\ mcb[0] = b
      /\ \A x \in Addr : mcb[x].p_next = NULL /\ mcb[x].p_prev = NULL
  BY <1>1, <1>2, <1>3
<1>5. Linking(mcb)  BY <1>4 DEF Linking, RealOrNull
<1>6. free_head \in RealOrNull(mcb)
  <2>1. 0 + Hdr + (HeapSize - Hdr) <= HeapSize  BY NotNull
  <2> QED BY <1>1, <1>2, <1>3, <1>4, <2>1 DEF RealOrNull, Real
<1>7. alloc_head \in RealOrNull(mcb)  BY <1>3 DEF RealOrNull
<1>8. live \in [Ptr -> Seq(Sizes)]  BY <1>3
<1>9. HeapTypeOK  BY <1>1, <1>3, <1>4, <1>8 DEF HeapTypeOK
<1> QED BY <1>5, <1>6, <1>7, <1>9 DEF Typed

LEMMA UnchangedTyped ==
  ASSUME Typed, Unchanged, outcome' \in {"ok", "refused", "fault", "hung", "wild"}
  PROVE  Typed'
BY DEF Typed, HeapTypeOK, Unchanged, Linking, Real, RealOrNull

LEMMA ListedReal ==
  ASSUME Typed, NEW a, Listed(a)
  PROVE  a \in Real(mcb)
<1> DEFINE q == ListFrom(mcb, alloc_head)
<1>1. \A i \in DOMAIN q : q[i] \in Real(mcb)  BY RealList DEF Typed
<1>2. a \in {q[i] : i \in DOMAIN q}  BY DEF Listed, ToSet
<1> HIDE DEF q
<1> QED BY <1>1, <1>2

LEMMA FreeTyped ==
  ASSUME Typed, NEW p \in Hdr..(HeapSize - 1), Free(p)
  PROVE  Typed'
<1> DEFINE a == p - Hdr
<1>1. CASE Unchanged /\ outcome' \in {"hung", "refused", "fault"}
  BY <1>1, UnchangedTyped
<1>2. CASE /\ Listed(a) /\ mcb' = Insert(a)
           /\ free_head' = IF free_head = NULL \/ a < free_head THEN a ELSE free_head
           /\ alloc_head' = IF a = alloc_head THEN mcb[a].p_next ELSE alloc_head
           /\ live' = [live EXCEPT ![p] = SubSeq(@, 2, Len(@))]
           /\ harm' = harm \cup FreeHarm(a) /\ outcome' = "ok"
  <2> HIDE DEF a
  <2>1. a \in Real(mcb) /\ a \in Addr  BY <1>2, ListedReal DEF Real
  <2>2. Linking(mcb') /\ Real(mcb) \subseteq Real(mcb')
    BY <1>2, <2>1, InsertTyped DEF Typed
  <2>3. free_head' \in RealOrNull(mcb) /\ alloc_head' \in RealOrNull(mcb)
    BY <1>2, <2>1 DEF Typed, RealOrNull, Linking
  <2>4. free_head' \in RealOrNull(mcb') /\ alloc_head' \in RealOrNull(mcb')
    BY <2>2, <2>3 DEF RealOrNull
  <2>5. live' \in [Ptr -> Seq(Sizes)]
    <3>1. live \in [Ptr -> Seq(Sizes)]  BY DEF Typed, HeapTypeOK
    <3>2. p \in Ptr  BY NotNull DEF Ptr
    <3>3. live[p] \in Seq(Sizes)  BY <3>1, <3>2
    <3> DEFINE s == live[p]
    <3>4. s \in Seq(Sizes)  BY <3>3
    <3> HIDE DEF s
    <3>5. SubSeq(s, 2, Len(s)) \in Seq(Sizes)
      <4>1. Len(s) \in Nat /\ \A i \in 1..Len(s) : s[i] \in Sizes  BY <3>4, ElementOfSeq
      <4>2. \A i \in 2..Len(s) : s[i] \in Sizes  BY <4>1
      <4> QED BY <4>1, <4>2, SubSeqProperties
    <3>6. SubSeq(live[p], 2, Len(live[p])) \in Seq(Sizes)  BY <3>5 DEF s
    <3> QED BY <1>2, <3>1, <3>2, <3>6
  <2>6. harm' \subseteq Harms
    <3>1. FreeHarm(a) \subseteq Harms  BY DEF FreeHarm, Harms
    <3> QED BY <1>2, <3>1 DEF Typed, HeapTypeOK
  <2>7. free_head' \in Addr \cup {NULL} /\ alloc_head' \in Addr \cup {NULL} /\ mcb' \in [Addr -> Mcb]
    BY <2>2, <2>4 DEF RealOrNull, Real, Linking
  <2> QED BY <1>2, <2>2, <2>4, <2>5, <2>6, <2>7 DEF Typed, HeapTypeOK, Linking, RealOrNull, Real
<1> QED BY <1>1, <1>2, FreeIs

LEMMA TypedStep ==
  ASSUME Typed, [Next]_vars
  PROVE  Typed'
<1>1. CASE UNCHANGED vars
  BY <1>1 DEF vars, Typed, HeapTypeOK, Linking, Real, RealOrNull
<1>2. ASSUME NEW size \in Sizes, Allocate(size) PROVE Typed'
  <2>1. CASE Unchanged /\ outcome' \in {"hung", "wild", "refused"}  BY <2>1, UnchangedTyped
  <2>2. ASSUME NEW a \in Blocks(free_head) \cap Real(mcb), Fits(mcb[a], size),
               ~(FullSize(size) < size), Take(a, size)
        PROVE  Typed'
    BY <2>2, TakeTyped
  <2> QED BY <1>2, <2>1, <2>2, AllocateIs
<1>3. ASSUME NEW p \in Hdr..(HeapSize - 1), Free(p) PROVE Typed'
  BY <1>3, FreeTyped
<1> QED BY <1>1, <1>2, <1>3 DEF Next

(* However the blocks are given back, and whatever becomes of the lists, the *)
(* links and the sizes in the control blocks keep their types: a block of    *)
(* either list ends in the heap, so no size outgrows its width.              *)
THEOREM HeapWellTyped == Spec => []HeapTypeOK
<1>1. Typed => HeapTypeOK  BY DEF Typed
<1> QED BY InitTyped, TypedStep, <1>1, PTL DEF Spec

-----------------------------------------------------------------------------
(* The blocks of the heap: B lie in it, one behind the other, and cover it   *)
(* when each ends where another or the end of the heap is.                   *)
E(m, a)       == a + Hdr + m[a].blk_size
Layout(B, m)  == /\ B \in SUBSET Addr
                 /\ \A a \in B : /\ E(m, a) \in Nat /\ a + Hdr <= E(m, a) /\ E(m, a) <= HeapSize
                                 /\ \A b \in B : a < b => E(m, a) <= b
Covered(B, m) == 0 \in B /\ \A a \in B : E(m, a) \in B \cup {HeapSize}

LEMMA LayoutSame ==
  ASSUME NEW B, NEW m, Layout(B, m), NEW C \in SUBSET B, NEW m2, \A x \in C : E(m2, x) = E(m, x)
  PROVE  Layout(C, m2) /\ (C = B /\ Covered(B, m) => Covered(C, m2))
BY DEF Layout, Covered

LEMMA LayoutSplit ==
  ASSUME NEW B, NEW m, Layout(B, m), NEW a \in B, NEW c \in Addr,
         a + Hdr <= c, c + Hdr <= E(m, a), NEW m2, E(m2, a) = c, E(m2, c) = E(m, a),
         \A x \in B \ {a} : E(m2, x) = E(m, x)
  PROVE  c \notin B /\ Layout(B \cup {c}, m2) /\ (Covered(B, m) => Covered(B \cup {c}, m2))
<1>1. a \in Nat /\ c \in Nat /\ a < c /\ E(m, a) \in Nat /\ c < E(m, a) /\ E(m, a) <= HeapSize
  BY NotNull DEF Layout
<1>2. c \notin B  BY <1>1 DEF Layout
<1>3. \A x \in B : x \in Nat /\ x # c  BY <1>2, NotNull DEF Layout
<1>4. ASSUME NEW x \in B \cup {c}
      PROVE  /\ E(m2, x) \in Nat /\ x + Hdr <= E(m2, x) /\ E(m2, x) <= HeapSize
             /\ \A b \in B \cup {c} : x < b => E(m2, x) <= b
  <2>1. CASE x = c
    <3>1. \A b \in B : c < b => E(m, a) <= b
      <4> SUFFICES ASSUME NEW b \in B, c < b PROVE E(m, a) <= b
        OBVIOUS
      <4>1. a < b  BY <1>1, <1>3
      <4> QED BY <4>1 DEF Layout
    <3> QED BY <1>1, <2>1, <3>1
  <2>2. CASE x = a
    <3>1. \A b \in B : a < b => c <= b
      <4> SUFFICES ASSUME NEW b \in B, a < b PROVE c <= b
        OBVIOUS
      <4>1. E(m, a) <= b /\ b \in Nat  BY <1>3 DEF Layout
      <4> QED BY <1>1, <4>1
    <3>2. c <= c /\ c <= HeapSize  BY <1>1, NotNull
    <3> QED BY <1>1, <2>2, <3>1, <3>2
  <2>3. CASE x \in B /\ x # a
    <3>1. E(m2, x) = E(m, x)  BY <2>3
    <3>2. x < c => E(m, x) <= c
      <4> HAVE x < c
      <4>1. ~(a < x)
        <5> SUFFICES ASSUME a < x PROVE FALSE
          OBVIOUS
        <5>1. E(m, a) <= x /\ x \in Nat  BY <1>3, <2>3 DEF Layout
        <5> QED BY <1>1, <5>1
      <4>2. x < a  BY <1>1, <1>3, <2>3, <4>1
      <4>3. E(m, x) <= a /\ E(m, x) \in Nat  BY <2>3, <4>2 DEF Layout
      <4> QED BY <1>1, <4>3
    <3> QED BY <2>3, <3>1, <3>2 DEF Layout
  <2> QED BY <2>1, <2>2, <2>3
<1>5. Layout(B \cup {c}, m2)  BY <1>4 DEF Layout
<1>6. ASSUME Covered(B, m) PROVE Covered(B \cup {c}, m2)
  <2>1. 0 \in B /\ \A x \in B : E(m, x) \in B \cup {HeapSize}  BY <1>6 DEF Covered
  <2>2. \A x \in B \cup {c} : E(m2, x) \in (B \cup {c}) \cup {HeapSize}
    BY <1>2, <2>1
  <2> QED BY <2>1, <2>2 DEF Covered
<1> QED BY <1>2, <1>5, <1>6

LEMMA LayoutMerge ==
  ASSUME NEW B, NEW m, Layout(B, m), NEW a \in B, NEW c \in B, E(m, a) = c,
         NEW m2, E(m2, a) = E(m, c), \A x \in B \ {a, c} : E(m2, x) = E(m, x)
  PROVE  Layout(B \ {c}, m2) /\ (Covered(B, m) => Covered(B \ {c}, m2))
<1>1. /\ a \in Nat /\ c \in Nat /\ a < c /\ E(m, c) \in Nat /\ c < E(m, c) /\ E(m, c) <= HeapSize
      /\ a + Hdr <= E(m, c)
  <2>1. a \in Nat /\ c \in Nat /\ E(m, c) \in Nat /\ a + Hdr <= c /\ c + Hdr <= E(m, c)
        /\ E(m, c) <= HeapSize
    BY NotNull DEF Layout
  <2> QED BY <2>1, NotNull
<1>2. \A x \in B : x \in Nat  BY NotNull DEF Layout
<1>3. ASSUME NEW x \in B \ {c}
      PROVE  /\ E(m2, x) \in Nat /\ x + Hdr <= E(m2, x) /\ E(m2, x) <= HeapSize
             /\ \A b \in B \ {c} : x < b => E(m2, x) <= b
  <2>1. CASE x = a
    <3>1. \A b \in B \ {c} : a < b => E(m, c) <= b
      <4> SUFFICES ASSUME NEW b \in B \ {c}, a < b PROVE E(m, c) <= b
        OBVIOUS
      <4>1. c <= b /\ b \in Nat  BY <1>2 DEF Layout
      <4>2. c < b  BY <1>1, <4>1
      <4> QED BY <4>2 DEF Layout
    <3> QED BY <1>1, <2>1, <3>1
  <2>2. CASE x # a
    <3>1. E(m2, x) = E(m, x)  BY <2>2
    <3> QED BY <3>1 DEF Layout
  <2> QED BY <2>1, <2>2
<1>4. Layout(B \ {c}, m2)  BY <1>3 DEF Layout
<1>5. ASSUME Covered(B, m) PROVE Covered(B \ {c}, m2)
  <2>1. 0 \in B /\ \A x \in B : E(m, x) \in B \cup {HeapSize}  BY <1>5 DEF Covered
  <2>2. 0 # c  BY <1>1
  <2>3. ASSUME NEW x \in B \ {c} PROVE E(m2, x) \in (B \ {c}) \cup {HeapSize}
    <3>1. CASE x = a
      <4>1. E(m, c) # c  BY <1>1
      <4> QED BY <2>1, <3>1, <4>1
    <3>2. CASE x # a
      <4>1. E(m2, x) = E(m, x)  BY <3>2
      <4>2. E(m, x) # c
        <5> SUFFICES ASSUME E(m, x) = c PROVE FALSE
          OBVIOUS
        <5>1. x \in Nat /\ x + Hdr <= c  BY <1>2 DEF Layout
        <5>2. x < c  BY <1>1, <5>1, NotNull
        <5>3. ~(x < a)
          <6> SUFFICES ASSUME x < a PROVE FALSE
            OBVIOUS
          <6>1. c <= a  BY DEF Layout
          <6> QED BY <1>1, <6>1
        <5>4. ~(a < x)
          <6> SUFFICES ASSUME a < x PROVE FALSE
            OBVIOUS
          <6>1. c <= x  BY DEF Layout
          <6> QED BY <1>1, <5>1, <5>2, <6>1
        <5> QED BY <1>1, <3>2, <5>1, <5>3, <5>4
      <4> QED BY <2>1, <4>1, <4>2
    <3> QED BY <3>1, <3>2
  <2> QED BY <2>1, <2>2, <2>3 DEF Covered
<1> QED BY <1>4, <1>5

-----------------------------------------------------------------------------
(* The heap as long as it is intact: F is what is on the free list, Q what   *)
(* is on the other one.                                                      *)
NoTwoTouch(F, m) == \A a \in F : E(m, a) \notin F
Given1(p)        == Len(live[p]) = 1 /\ mcb[p - Hdr].blk_size - live[p][1] \in 0..Hdr

Sound(F, Q) ==
  /\ Ordered(F, free_head, mcb) /\ Ordered(Q, alloc_head, mcb)
  /\ Q \subseteq InUseAt /\ ("hidden" \notin harm => InUseAt \subseteq Q)
  /\ \A p \in InUse : Given1(p)
  /\ F \cap InUseAt = {} /\ NoTwoTouch(F, mcb)
  /\ Layout(F \cup InUseAt, mcb)
  /\ "leaked" \notin harm => Covered(F \cup InUseAt, mcb)

(* A block on the free list is taken: what remains free, and the list of     *)
(* those in use, on which it is put.                                         *)
LEMMA TakeFree ==
  ASSUME Typed, NEW F, NEW Q, Sound(F, Q), NEW a \in F, NEW size \in Sizes,
         Fits(mcb[a], size), ~(FullSize(size) < size), Take(a, size), Intact'
  PROVE  \E F2 : /\ Ordered(F2, free_head', mcb')
                 /\ F2 \cap (InUseAt \cup {a}) = {} /\ NoTwoTouch(F2, mcb')
                 /\ Layout(F2 \cup (InUseAt \cup {a}), mcb')
                 /\ Covered(F \cup InUseAt, mcb) => Covered(F2 \cup (InUseAt \cup {a}), mcb')
<1> DEFINE U == InUseAt
           whole == TakenWhole(mcb[a], size)
           m == IF whole THEN mcb ELSE Split(a, size)
           n == IF whole THEN mcb[a].blk_size ELSE size
           v == BeforeIt(a)
           w == AfterIt(a)
           rest == a + size + Hdr
<1>1. /\ mcb' = Put(m, a, v, w, n)
      /\ free_head' = IF a # free_head THEN free_head
                      ELSE IF whole THEN mcb[a].p_next ELSE a + FullSize(size)
      /\ harm' = harm \cup TakeHarm(a, whole)
  BY TakeIs
<1>2. /\ F \cap U = {} /\ Q \subseteq U /\ Ordered(F, free_head, mcb) /\ Ordered(Q, alloc_head, mcb)
      /\ Layout(F \cup U, mcb) /\ NoTwoTouch(F, mcb)
  BY DEF Sound
<1>3. F \in SUBSET Addr /\ F \in SUBSET Nat /\ NULL \notin F /\ a \in Addr /\ a \in Nat
      /\ U \in SUBSET Addr /\ NULL \notin Q /\ NULL \notin U
  BY <1>2, NotNull DEF Ordered, Layout
<1>4. After(Q, a, w) /\ Before(Q, a, v)
  <2>1. a \notin Q  BY <1>2
  <2> QED BY <1>2, <1>3, <2>1, Around DEF BeforeIt, AfterIt
<1>5. (v = NULL \/ v \in Q) /\ (w = NULL \/ w \in Q)  BY <1>4 DEF After, Before
<1>6. (whole => a = free_head) /\ (~whole /\ a = free_head => mcb[a].p_prev = NULL)
  <2>1. TakeHarm(a, whole) \subseteq {"leaked", "hidden"}
    <3>1. harm' \subseteq {"leaked", "hidden"}  BY DEF Intact
    <3> QED BY <1>1, <3>1
  <2>2. "kept" \notin TakeHarm(a, whole) /\ "strayed" \notin TakeHarm(a, whole)  BY <2>1
  <2>3. "kept" \in Harms /\ "strayed" \in Harms  BY DEF Harms
  <2> HIDE DEF whole
  <2> QED BY <2>2, <2>3 DEF TakeHarm
<1>7. /\ Linking(mcb) /\ mcb \in [Addr -> Mcb] /\ mcb[a].blk_size \in Nat /\ E(mcb, a) <= HeapSize
      /\ a \in Real(mcb)
  <2>1. Linking(mcb) /\ mcb \in [Addr -> Mcb]  BY DEF Typed, Linking
  <2>2. E(mcb, a) <= HeapSize  BY <1>2 DEF Layout
  <2> QED BY <1>3, <2>1, <2>2, McbFields DEF E, Real
<1>8. /\ size \in Nat /\ FullSize(size) = size + Hdr /\ size <= mcb[a].blk_size
      /\ (~whole => mcb[a].blk_size > size + Hdr)
  BY <1>7, FullIs, FitsIs
<1>9. v \in RealOrNull(mcb) /\ w \in RealOrNull(mcb)
  BY RealList DEF Typed, BeforeIt, AfterIt
<1> HIDE DEF v, w
<1>10. CASE whole
  <2>1. m = mcb /\ n = mcb[a].blk_size /\ a = free_head /\ free_head' = mcb[a].p_next
    BY <1>1, <1>6, <1>10
  <2>2. a + Hdr + n <= HeapSize  BY <1>7, <2>1 DEF E
  <2> HIDE DEF m, n
  <2>3. \A x \in Addr : /\ mcb'[x].blk_size = IF x = a THEN n ELSE mcb[x].blk_size
                        /\ mcb'[x].p_next = IF x = v THEN a ELSE IF x = a THEN w ELSE mcb[x].p_next
                        /\ mcb'[x].p_prev = IF x = w THEN a ELSE IF x = a THEN v ELSE mcb[x].p_prev
    BY <1>1, <1>3, <1>7, <1>9, <2>1, <2>2, PutIs
  <2>4. \A x \in F \ {a} : x \in Addr /\ x # v /\ x # w /\ x # a  BY <1>2, <1>3, <1>5
  <2>5. \A x \in F \ {a} : mcb'[x].p_next = mcb[x].p_next /\ mcb'[x].p_prev = mcb[x].p_prev
    BY <2>3, <2>4
  <2>6. Ordered(F \ {a}, mcb[a].p_next, mcb')
    <3>1. Dropped(F, free_head, mcb, a, mcb')  BY <2>1, <2>5 DEF Dropped
    <3>2. Ordered(F \ {a}, IF a = free_head THEN mcb[a].p_next ELSE free_head, mcb')
      BY <1>2, <3>1, Removed
    <3> QED BY <2>1, <3>2
  <2>7. \A x \in F \cup U : E(mcb', x) = E(mcb, x)
    <3>1. \A x \in F \cup U : x \in Addr /\ mcb'[x].blk_size = mcb[x].blk_size
      BY <1>3, <2>1, <2>3
    <3> QED BY <3>1 DEF E
  <2>8. (F \ {a}) \cup (U \cup {a}) = F \cup U  OBVIOUS
  <2>9. Layout(F \cup U, mcb') /\ (Covered(F \cup U, mcb) => Covered(F \cup U, mcb'))
    BY <1>2, <2>7, LayoutSame
  <2>10. NoTwoTouch(F \ {a}, mcb')  BY <1>2, <2>7 DEF NoTwoTouch
  <2>11. (F \ {a}) \cap (U \cup {a}) = {}  BY <1>2
  <2> QED BY <2>1, <2>6, <2>8, <2>9, <2>10, <2>11
<1>11. CASE ~whole
  <2>1. m = Split(a, size) /\ n = size  BY <1>11
  <2>2. a + FullSize(size) = rest  BY <1>3, <1>8, NotNull
  <2>3. free_head' = IF a = free_head THEN rest ELSE free_head  BY <1>1, <1>11, <2>2
  <2>4. mcb[a].blk_size > size + Hdr  BY <1>8, <1>11
  <2>5. /\ Linking(m) /\ Real(mcb) \subseteq Real(m) /\ rest \in Real(m)
        /\ rest + Hdr <= E(mcb, a) /\ a + Hdr + n <= HeapSize
        /\ \A x \in Addr :
             /\ m[x].blk_size = IF x = rest THEN mcb[a].blk_size - size - Hdr ELSE mcb[x].blk_size
             /\ m[x].p_next = IF x = mcb[a].p_prev THEN rest
                              ELSE IF x = rest THEN mcb[a].p_next ELSE mcb[x].p_next
             /\ m[x].p_prev = IF x = mcb[a].p_next THEN rest
                              ELSE IF x = rest THEN mcb[a].p_prev ELSE mcb[x].p_prev
    BY <1>7, <1>8, <2>1, <2>4, SplitIs DEF E, End
  <2> HIDE DEF m, n
  <2>6. v \in RealOrNull(m) /\ w \in RealOrNull(m)  BY <1>9, <2>5 DEF RealOrNull
  <2>7. \A x \in Addr : /\ mcb'[x].blk_size = IF x = a THEN n ELSE m[x].blk_size
                        /\ mcb'[x].p_next = IF x = v THEN a ELSE IF x = a THEN w ELSE m[x].p_next
                        /\ mcb'[x].p_prev = IF x = w THEN a ELSE IF x = a THEN v ELSE m[x].p_prev
    BY <1>1, <1>3, <1>8, <2>1, <2>5, <2>6, PutIs
  <2>8. rest \in Addr /\ a + Hdr <= rest /\ a < rest /\ rest \in Nat
    <3>1. rest \in Addr  BY <2>5 DEF Real
    <3> QED BY <1>3, <1>8, <3>1, NotNull
  <2>9. E(mcb', a) = rest /\ E(mcb', rest) = E(mcb, a)
    <3>1. mcb'[a].blk_size = size  BY <1>3, <2>1, <2>7
    <3>2. mcb'[rest].blk_size = mcb[a].blk_size - size - Hdr  BY <2>5, <2>7, <2>8, <1>3
    <3>3. a + Hdr + size = rest  BY <1>3, <1>8, NotNull
    <3>4. rest + Hdr + (mcb[a].blk_size - size - Hdr) = a + Hdr + mcb[a].blk_size
      BY <1>3, <1>7, <1>8, NotNull
    <3> QED BY <3>1, <3>2, <3>3, <3>4 DEF E
  <2> HIDE DEF rest
  <2>10. \A x \in (F \cup U) \ {a} : x = rest \/ E(mcb', x) = E(mcb, x)
    <3>1. \A x \in (F \cup U) \ {a} : x \in Addr  BY <1>3
    <3>2. \A x \in (F \cup U) \ {a} : x = rest \/ mcb'[x].blk_size = mcb[x].blk_size
      BY <2>5, <2>7, <3>1
    <3> QED BY <3>2 DEF E
  <2>11. rest \notin F \cup U
    <3> SUFFICES ASSUME rest \in F \cup U PROVE FALSE
      OBVIOUS
    <3>1. E(mcb, a) <= rest /\ E(mcb, a) \in Nat  BY <1>2, <2>8 DEF Layout
    <3> QED BY <2>5, <2>8, <3>1, NotNull
  <2>12. \A x \in (F \cup U) \ {a} : E(mcb', x) = E(mcb, x)  BY <2>10, <2>11
  <2>13. /\ Layout((F \cup U) \cup {rest}, mcb')
         /\ Covered(F \cup U, mcb) => Covered((F \cup U) \cup {rest}, mcb')
    <3>1. a \in F \cup U  OBVIOUS
    <3> QED BY <1>2, <2>5, <2>8, <2>9, <2>12, <3>1, LayoutSplit
  <2> DEFINE F2 == (F \ {a}) \cup {rest}
             h2 == IF a = free_head THEN rest ELSE free_head
  <2>14. Ordered(F2, h2, mcb')
    <3>1. \A x \in F \ {a} : x < a <=> x < rest
      <4> SUFFICES ASSUME NEW x \in F \ {a}, x < rest PROVE x < a
        BY <1>3, <2>8
      <4>1. ~(a < x)
        <5> SUFFICES ASSUME a < x PROVE FALSE
          OBVIOUS
        <5>1. E(mcb, a) <= x /\ E(mcb, a) \in Nat  BY <1>2 DEF Layout
        <5>2. rest + Hdr <= E(mcb, a)  BY <2>5
        <5>3. x \in Nat /\ x < rest  BY <1>3
        <5> QED BY <2>8, <5>1, <5>2, <5>3, NotNull
      <4> QED BY <1>3, <4>1
    <3>2. \A x \in F2 : x \in Addr /\ x # v /\ x # w /\ x # a /\ x # NULL
      BY <1>2, <1>3, <1>5, <2>8, <2>11, NotNull
    <3>3. \A x \in F2 : mcb'[x].p_next = m[x].p_next /\ mcb'[x].p_prev = m[x].p_prev
      BY <2>7, <3>2
    <3>4. mcb[a].p_next # rest /\ (a # free_head => mcb[a].p_prev # rest)
          /\ (a = free_head => mcb[a].p_prev = NULL)
      <4>1. After(F, a, mcb[a].p_next) /\ (a # free_head => Before(F, a, mcb[a].p_prev))
        BY <1>2 DEF Ordered
      <4> QED BY <1>6, <1>11, <2>8, <2>11, <4>1, NotNull DEF After, Before
    <3>5. mcb'[rest].p_next = mcb[a].p_next /\ (a # free_head => mcb'[rest].p_prev = mcb[a].p_prev)
      <4>1. rest \in F2 /\ rest # NULL  BY <2>8, NotNull
      <4>2. m[rest].p_next = IF rest = mcb[a].p_prev THEN rest ELSE mcb[a].p_next  BY <2>5, <2>8
      <4>3. m[rest].p_prev = IF rest = mcb[a].p_next THEN rest ELSE mcb[a].p_prev  BY <2>5, <2>8
      <4> QED BY <3>3, <3>4, <4>1, <4>2, <4>3
    <3>6. \A x \in F \ {a} :
            /\ mcb'[x].p_next = IF a # free_head /\ x = mcb[a].p_prev THEN rest ELSE mcb[x].p_next
            /\ mcb'[x].p_prev = IF x = mcb[a].p_next THEN rest ELSE mcb[x].p_prev
      BY <2>5, <2>11, <3>2, <3>3, <3>4
    <3> HIDE DEF h2
    <3>7. Moved(F, free_head, mcb, a, rest, mcb')  BY <3>1, <3>5, <3>6 DEF Moved
    <3>8. Ordered((F \ {a}) \cup {rest}, IF a = free_head THEN rest ELSE free_head, mcb')
      BY <1>2, <2>8, <2>11, <3>7, Replaced
    <3> QED BY <3>8 DEF h2
  <2>15. F2 \cup (U \cup {a}) = (F \cup U) \cup {rest}  OBVIOUS
  <2>16. F2 \cap (U \cup {a}) = {}  BY <1>2, <1>3, <2>8, <2>11
  <2>17. NoTwoTouch(F2, mcb')
    <3>1. E(mcb, a) \notin F2
      <4>1. E(mcb, a) \notin F  BY <1>2 DEF NoTwoTouch
      <4>2. E(mcb, a) # rest
        <5>1. E(mcb, a) \in Nat  BY <1>2 DEF Layout
        <5> QED BY <2>5, <2>8, <5>1, NotNull
      <4> QED BY <4>1, <4>2
    <3>2. ASSUME NEW x \in F \ {a} PROVE E(mcb', x) \notin F2
      <4>1. E(mcb', x) = E(mcb, x) /\ E(mcb, x) \notin F  BY <1>2, <2>12 DEF NoTwoTouch
      <4>2. E(mcb, x) # rest
        <5> SUFFICES ASSUME E(mcb, x) = rest PROVE FALSE
          OBVIOUS
        <5>1. x \in Nat /\ a \in Nat /\ x # a  BY <1>3
        <5>2. x < a => rest <= a  BY <1>2 DEF Layout
        <5>3. a < x => E(mcb, a) <= x /\ E(mcb, a) \in Nat /\ x + Hdr <= rest  BY <1>2 DEF Layout
        <5> QED BY <2>5, <2>8, <5>1, <5>2, <5>3, NotNull
      <4> QED BY <4>1, <4>2
    <3> QED BY <2>9, <3>1, <3>2 DEF NoTwoTouch
  <2> HIDE DEF F2
  <2> QED BY <2>3, <2>13, <2>14, <2>15, <2>16, <2>17
<1> QED BY <1>10, <1>11

LEMMA TakeUsed ==
  ASSUME Typed, NEW F, NEW Q, Sound(F, Q), NEW a \in F, NEW size \in Sizes,
         Fits(mcb[a], size), ~(FullSize(size) < size), Take(a, size), Intact'
  PROVE  /\ \E Q2 : /\ Ordered(Q2, alloc_head', mcb') /\ Q2 \subseteq InUseAt \cup {a}
                    /\ "hidden" \notin harm' => InUseAt \cup {a} \subseteq Q2
         /\ \A x \in InUseAt : mcb'[x].blk_size = mcb[x].blk_size
         /\ mcb'[a].blk_size - size \in 0..Hdr
<1> DEFINE U == InUseAt
           whole == TakenWhole(mcb[a], size)
           m == IF whole THEN mcb ELSE Split(a, size)
           n == IF whole THEN mcb[a].blk_size ELSE size
           v == BeforeIt(a)
           w == AfterIt(a)
           rest == a + size + Hdr
<1>1. /\ mcb' = Put(m, a, v, w, n)
      /\ alloc_head' = IF alloc_head = NULL THEN a ELSE alloc_head
      /\ harm' = harm \cup TakeHarm(a, whole)
  BY TakeIs
<1>2. /\ F \cap U = {} /\ Q \subseteq U /\ Ordered(F, free_head, mcb) /\ Ordered(Q, alloc_head, mcb)
      /\ Layout(F \cup U, mcb) /\ ("hidden" \notin harm => U \subseteq Q)
  BY DEF Sound
<1>3. F \in SUBSET Addr /\ F \in SUBSET Nat /\ NULL \notin F /\ a \in Addr /\ a \in Nat
      /\ U \in SUBSET Addr /\ NULL \notin Q /\ NULL \notin U /\ a \notin Q /\ a \notin U
  BY <1>2, NotNull DEF Ordered, Layout
<1>4. After(Q, a, w) /\ Before(Q, a, v)
  BY <1>2, <1>3, Around DEF BeforeIt, AfterIt
<1>5. (v = NULL \/ v \in Q) /\ (w = NULL \/ w \in Q)  BY <1>4 DEF After, Before
<1>6. /\ ~whole /\ a = free_head => mcb[a].p_prev = NULL
      /\ alloc_head # NULL /\ a < alloc_head => "hidden" \in harm'
  <2>1. TakeHarm(a, whole) \subseteq {"leaked", "hidden"}
    <3>1. harm' \subseteq {"leaked", "hidden"}  BY DEF Intact
    <3> QED BY <1>1, <3>1
  <2>2. "strayed" \notin TakeHarm(a, whole)  BY <2>1
  <2>3. "hidden" \in Harms /\ "strayed" \in Harms  BY DEF Harms
  <2> HIDE DEF whole
  <2> QED BY <1>1, <2>2, <2>3 DEF TakeHarm
<1>7. /\ Linking(mcb) /\ mcb \in [Addr -> Mcb] /\ mcb[a].blk_size \in Nat /\ E(mcb, a) <= HeapSize
      /\ a \in Real(mcb)
  <2>1. Linking(mcb) /\ mcb \in [Addr -> Mcb]  BY DEF Typed, Linking
  <2>2. E(mcb, a) <= HeapSize  BY <1>2 DEF Layout
  <2> QED BY <1>3, <2>1, <2>2, McbFields DEF E, Real
<1>8. /\ size \in Nat /\ FullSize(size) = size + Hdr /\ size <= mcb[a].blk_size
      /\ (~whole => mcb[a].blk_size > size + Hdr) /\ (whole => mcb[a].blk_size <= size + Hdr)
  BY <1>7, FullIs, FitsIs
<1>9. v \in RealOrNull(mcb) /\ w \in RealOrNull(mcb)
  BY RealList DEF Typed, BeforeIt, AfterIt
<1>10. n \in Nat /\ n - size \in 0..Hdr
  <2>1. CASE whole
    <3> DEFINE k == mcb[a].blk_size
    <3>1. n = k /\ k \in Nat /\ size <= k /\ k <= size + Hdr  BY <1>7, <1>8, <2>1
    <3> HIDE DEF k, n
    <3> QED BY <1>8, <3>1, NotNull
  <2>2. CASE ~whole
    <3>1. n = size  BY <2>2
    <3> HIDE DEF n
    <3> QED BY <1>8, <3>1, NotNull
  <2> QED BY <2>1, <2>2
<1>11. /\ Linking(m) /\ Real(mcb) \subseteq Real(m) /\ a + Hdr + n <= HeapSize
       /\ \A x \in U : /\ m[x].blk_size = mcb[x].blk_size
                       /\ m[x].p_next = mcb[x].p_next /\ m[x].p_prev = mcb[x].p_prev
  <2>1. CASE whole
    <3>1. m = mcb /\ n = mcb[a].blk_size  BY <2>1
    <3> HIDE DEF m, n
    <3> QED BY <1>7, <3>1 DEF E
  <2>2. CASE ~whole
    <3>1. m = Split(a, size) /\ n = size /\ mcb[a].blk_size > size + Hdr  BY <1>8, <2>2
    <3> HIDE DEF m, n
    <3>2. /\ Linking(m) /\ Real(mcb) \subseteq Real(m) /\ rest \in Real(m)
          /\ rest + Hdr <= E(mcb, a) /\ a + Hdr + size <= HeapSize
          /\ \A x \in Addr :
               /\ m[x].blk_size = IF x = rest THEN mcb[a].blk_size - size - Hdr ELSE mcb[x].blk_size
               /\ m[x].p_next = IF x = mcb[a].p_prev THEN rest
                                ELSE IF x = rest THEN mcb[a].p_next ELSE mcb[x].p_next
               /\ m[x].p_prev = IF x = mcb[a].p_next THEN rest
                                ELSE IF x = rest THEN mcb[a].p_prev ELSE mcb[x].p_prev
      BY <1>7, <1>8, <3>1, SplitIs DEF E, End
    <3>3. rest \in Nat /\ a < rest
      <4>1. rest \in Addr  BY <3>2 DEF Real
      <4> QED BY <1>3, <1>8, <4>1, NotNull
    <3> HIDE DEF rest
    <3>4. rest \notin U
      <4> SUFFICES ASSUME rest \in U PROVE FALSE
        OBVIOUS
      <4>1. E(mcb, a) <= rest /\ E(mcb, a) \in Nat  BY <1>2, <3>3 DEF Layout
      <4> QED BY <3>2, <3>3, <4>1, NotNull
    <3>5. mcb[a].p_next \notin U /\ mcb[a].p_prev \notin U
      <4>1. After(F, a, mcb[a].p_next) /\ (a # free_head => Before(F, a, mcb[a].p_prev))
        BY <1>2 DEF Ordered
      <4> QED BY <1>2, <1>3, <1>6, <2>2, <4>1 DEF After, Before
    <3>6. \A x \in U : x \in Addr /\ x # rest /\ x # mcb[a].p_next /\ x # mcb[a].p_prev
      BY <1>3, <3>4, <3>5
    <3>7. \A x \in U : /\ m[x].blk_size = mcb[x].blk_size
                       /\ m[x].p_next = mcb[x].p_next /\ m[x].p_prev = mcb[x].p_prev
      BY <3>2, <3>6
    <3> QED BY <3>1, <3>2, <3>7
  <2> QED BY <2>1, <2>2
<1> HIDE DEF v, w, m, n
<1>12. v \in RealOrNull(m) /\ w \in RealOrNull(m)  BY <1>9, <1>11 DEF RealOrNull
<1>13. \A x \in Addr : /\ mcb'[x].blk_size = IF x = a THEN n ELSE m[x].blk_size
                       /\ mcb'[x].p_next = IF x = v THEN a ELSE IF x = a THEN w ELSE m[x].p_next
                       /\ mcb'[x].p_prev = IF x = w THEN a ELSE IF x = a THEN v ELSE m[x].p_prev
  BY <1>1, <1>3, <1>10, <1>11, <1>12, PutIs
<1>14. \A x \in U : x \in Addr /\ x # a  BY <1>3
<1>15. \A x \in U : /\ mcb'[x].blk_size = mcb[x].blk_size
                    /\ mcb'[x].p_next = IF x = v THEN a ELSE mcb[x].p_next
                    /\ mcb'[x].p_prev = IF x = w THEN a ELSE mcb[x].p_prev
  BY <1>11, <1>13, <1>14
<1>16. mcb'[a].blk_size = n /\ mcb'[a].p_next = w /\ mcb'[a].p_prev = v
  <2>1. a # v /\ a # w  BY <1>3, <1>5, NotNull
  <2> QED BY <1>3, <1>13, <2>1
<1>17. \A x \in Q : /\ mcb'[x].p_next = IF x = v THEN a ELSE mcb[x].p_next
                    /\ mcb'[x].p_prev = IF x = w THEN a ELSE mcb[x].p_prev
  BY <1>2, <1>15
<1>18. Q \in SUBSET Addr /\ Q \in SUBSET Nat /\ First(Q, alloc_head)
  BY <1>2, NotNull DEF Ordered
<1>19. CASE v = NULL /\ alloc_head # NULL
  <2>1. \A b \in Q : a <= b  BY <1>3, <1>4, <1>19 DEF Before
  <2>2. alloc_head \in Q  BY <1>18, <1>19 DEF First
  <2>3. a < alloc_head
    <3>1. a <= alloc_head /\ alloc_head \in Nat /\ alloc_head # a  BY <1>3, <1>18, <2>1, <2>2
    <3> QED BY <1>3, <3>1
  <2>4. "hidden" \in harm' /\ alloc_head' = alloc_head  BY <1>1, <1>6, <1>19, <2>3
  <2>5. w = alloc_head
    <3>1. ~(w = NULL)
      <4> SUFFICES ASSUME w = NULL PROVE FALSE
        OBVIOUS
      <4>1. alloc_head <= a  BY <1>3, <1>4, <2>2 DEF After
      <4> QED BY <1>3, <1>18, <2>2, <2>3, <4>1
    <3>2. w \in Q /\ (alloc_head <= a \/ w <= alloc_head)  BY <1>4, <2>2, <3>1 DEF After
    <3>3. alloc_head <= w  BY <1>18, <2>2, <3>2, NotNull DEF First
    <3> QED BY <1>3, <1>18, <2>2, <2>3, <3>2, <3>3
  <2>6. \A x \in Q : /\ mcb'[x].p_next = mcb[x].p_next
                     /\ x # alloc_head => mcb'[x].p_prev = mcb[x].p_prev
    BY <1>3, <1>17, <1>19, <2>5
  <2>7. Ordered(Q, alloc_head', mcb')  BY <1>2, <2>4, <2>6, Kept
  <2> QED BY <1>2, <1>10, <1>15, <1>16, <2>4, <2>7
<1>20. CASE ~(v = NULL /\ alloc_head # NULL)
  <2>1. Ordered(Q \cup {a}, IF v = NULL THEN a ELSE alloc_head, mcb')
    <3>1. Ordered(Q, alloc_head, mcb) /\ a \in Addr /\ a \notin Q /\ Before(Q, a, v) /\ After(Q, a, w)
      BY <1>2, <1>3, <1>4
    <3>2. mcb'[a].p_next = w /\ (v # NULL => mcb'[a].p_prev = v)  BY <1>16
    <3>3. Between(Q, mcb, a, v, w, mcb')  BY <1>17, <3>1, <3>2 DEF Between
    <3> QED BY <3>1, <3>3, Inserted
  <2>2. alloc_head' = IF v = NULL THEN a ELSE alloc_head
    <3>1. v # NULL => alloc_head # NULL
      <4> HAVE v # NULL
      <4>1. v \in Q  BY <1>5
      <4> QED BY <1>3, <1>18, <4>1 DEF First
    <3> QED BY <1>1, <1>20, <3>1
  <2>3. Ordered(Q \cup {a}, alloc_head', mcb')  BY <2>1, <2>2
  <2>4. Q \cup {a} \subseteq U \cup {a} /\ ("hidden" \notin harm' => U \cup {a} \subseteq Q \cup {a})
    BY <1>1, <1>2
  <2> QED BY <1>10, <1>15, <1>16, <2>3, <2>4
<1> QED BY <1>19, <1>20

LEMMA TakeSound ==
  ASSUME Typed, NEW F, NEW Q, Sound(F, Q), NEW a \in F, NEW size \in Sizes,
         Fits(mcb[a], size), ~(FullSize(size) < size), Take(a, size), Intact'
  PROVE  /\ \E F2, Q2 : Sound(F2, Q2)'
         /\ a + Hdr \in Ptr \ InUse /\ InUse' = InUse \cup {a + Hdr}
         /\ live' = [live EXCEPT ![a + Hdr] = <<size>>]
<1>1. PICK F2 : /\ Ordered(F2, free_head', mcb')
                /\ F2 \cap (InUseAt \cup {a}) = {} /\ NoTwoTouch(F2, mcb')
                /\ Layout(F2 \cup (InUseAt \cup {a}), mcb')
                /\ Covered(F \cup InUseAt, mcb) => Covered(F2 \cup (InUseAt \cup {a}), mcb')
  BY TakeFree
<1>2. PICK Q2 : /\ Ordered(Q2, alloc_head', mcb') /\ Q2 \subseteq InUseAt \cup {a}
                /\ "hidden" \notin harm' => InUseAt \cup {a} \subseteq Q2
  BY TakeUsed
<1>3. /\ \A x \in InUseAt : mcb'[x].blk_size = mcb[x].blk_size
      /\ mcb'[a].blk_size - size \in 0..Hdr
  BY TakeUsed
<1>4. live' = [live EXCEPT ![a + Hdr] = Append(@, size)] /\ harm \subseteq harm'
  BY TakeIs
<1>5. /\ F \cap InUseAt = {} /\ Layout(F \cup InUseAt, mcb) /\ Ordered(F, free_head, mcb)
      /\ \A p \in InUse : Given1(p)
      /\ "leaked" \notin harm => Covered(F \cup InUseAt, mcb)
  BY DEF Sound
<1>6. a \in Addr /\ a \in Nat /\ a \notin InUseAt /\ a + Hdr \in Ptr
  <2>1. a \in Addr /\ a \in Nat /\ a \notin InUseAt  BY <1>5, NotNull DEF Ordered
  <2>2. E(mcb, a) \in Nat /\ a + Hdr <= E(mcb, a) /\ E(mcb, a) <= HeapSize  BY <1>5 DEF Layout
  <2> QED BY <2>1, <2>2, NotNull DEF Ptr
<1>7. live \in [Ptr -> Seq(Sizes)]  BY DEF Typed, HeapTypeOK
<1>8. a + Hdr \notin InUse /\ live[a + Hdr] = <<>>
  <2>1. (a + Hdr) - Hdr = a  BY <1>6, NotNull
  <2>2. a + Hdr \notin InUse  BY <1>6, <2>1 DEF InUseAt
  <2> QED BY <1>6, <2>2 DEF InUse
<1>9. live' = [live EXCEPT ![a + Hdr] = <<size>>]
  <2>1. Append(<<>>, size) = <<size>>  OBVIOUS
  <2> QED BY <1>4, <1>8, <2>1
<1>10. InUse' = InUse \cup {a + Hdr}
  <2>1. \A p \in Ptr : live'[p] # <<>> <=> p = a + Hdr \/ live[p] # <<>>
    BY <1>6, <1>7, <1>9
  <2>2. InUse' = {p \in Ptr : live'[p] # <<>>}  BY DEF InUse
  <2>3. InUse' \subseteq InUse \cup {a + Hdr}  BY <2>1, <2>2 DEF InUse
  <2>4. InUse \cup {a + Hdr} \subseteq InUse'  BY <1>6, <2>1, <2>2 DEF InUse
  <2> QED BY <2>3, <2>4
<1>11. InUseAt' = InUseAt \cup {a}
  <2>1. (a + Hdr) - Hdr = a  BY <1>6, NotNull
  <2>2. InUseAt' = {p - Hdr : p \in InUse'}  BY DEF InUseAt
  <2>3. InUseAt' \subseteq InUseAt \cup {a}  BY <1>10, <2>1, <2>2 DEF InUseAt
  <2>4. InUseAt \cup {a} \subseteq InUseAt'  BY <1>10, <2>1, <2>2 DEF InUseAt
  <2> QED BY <2>3, <2>4
<1>12. ASSUME NEW p \in InUse' PROVE Given1(p)'
  <2>1. CASE p = a + Hdr
    <3>1. live'[p] = <<size>>  BY <1>6, <1>7, <1>9, <2>1
    <3>2. p - Hdr = a  BY <1>6, <2>1, NotNull
    <3>3. Len(<<size>>) = 1 /\ <<size>>[1] = size  OBVIOUS
    <3> QED BY <1>3, <3>1, <3>2, <3>3 DEF Given1
  <2>2. CASE p # a + Hdr
    <3>1. p \in InUse  BY <1>10, <2>2
    <3>2. p \in Ptr /\ p - Hdr \in InUseAt  BY <3>1 DEF InUse, InUseAt
    <3>3. live'[p] = live[p]  BY <1>7, <1>9, <2>2, <3>2
    <3>4. mcb'[p - Hdr].blk_size = mcb[p - Hdr].blk_size  BY <1>3, <3>2
    <3> QED BY <1>5, <3>1, <3>3, <3>4 DEF Given1
  <2> QED BY <2>1, <2>2
<1>13. "leaked" \notin harm' => Covered(F2 \cup InUseAt', mcb')
  BY <1>1, <1>4, <1>5, <1>11
<1>14. Sound(F2, Q2)'
  BY <1>1, <1>2, <1>11, <1>12, <1>13 DEF Sound
<1> QED BY <1>6, <1>8, <1>9, <1>10, <1>14

-----------------------------------------------------------------------------
(* The block at a, in use, off its list: F are the free blocks of the memory *)
(* m, from h on, and v and w the ones around it.                             *)
Freeing(F, U, a, m, h, v, w) ==
  /\ Linking(m) /\ Ordered(F, h, m) /\ NoTwoTouch(F, m)
  /\ F \cap U = {} /\ a \in U /\ Layout(F \cup U, m)
  /\ After(F, a, w) /\ Before(F, a, v)

(* The same block, free in the memory m2; covered unless it is lost. *)
Freed(F, U, a, m, h, m2, lost) ==
  /\ \E F2 : /\ Ordered(F2, IF h = NULL \/ a < h THEN a ELSE h, m2)
             /\ F2 \cap (U \ {a}) = {} /\ NoTwoTouch(F2, m2)
             /\ Layout(F2 \cup (U \ {a}), m2)
             /\ ~lost /\ Covered(F \cup U, m) => Covered(F2 \cup (U \ {a}), m2)
  /\ \A x \in U \ {a} : /\ m2[x].blk_size = m[x].blk_size
                        /\ m2[x].p_next = m[x].p_next /\ m2[x].p_prev = m[x].p_prev

LEMMA FreeingIs ==
  ASSUME NEW F, NEW U, NEW a, NEW m, NEW h, NEW v, NEW w, Freeing(F, U, a, m, h, v, w)
  PROVE  /\ a \in Addr /\ a \in Nat /\ a # NULL /\ a \notin F /\ U \in SUBSET Addr /\ F \in SUBSET Addr
         /\ F \in SUBSET Nat /\ NULL \notin F /\ NULL \notin U
         /\ v = NULL \/ (v \in F /\ v < a /\ v \in Addr /\ v \in Nat)
         /\ w = NULL \/ (w \in F /\ a < w /\ w \in Addr /\ w \in Nat)
         /\ v = NULL => h = NULL \/ a < h
         /\ v # NULL => ~(h = NULL \/ a < h) /\ h \in F /\ h <= v
         /\ E(m, a) # w => E(m, a) \notin F
         /\ E(m, a) \in Nat /\ a < E(m, a)
<1>1. a \in Addr /\ a \in Nat /\ a # NULL /\ a \notin F /\ U \in SUBSET Addr /\ F \in SUBSET Addr
      /\ F \in SUBSET Nat /\ NULL \notin F /\ NULL \notin U /\ First(F, h)
  BY NotNull DEF Freeing, Layout, Ordered
<1>2. v = NULL \/ (v \in F /\ v < a /\ v \in Addr /\ v \in Nat)  BY <1>1 DEF Freeing, Before
<1>3. w = NULL \/ (w \in F /\ a < w /\ w \in Addr /\ w \in Nat)  BY <1>1 DEF Freeing, After
<1>4. v = NULL => h = NULL \/ a < h
  <2> HAVE v = NULL
  <2>1. \A b \in F : a <= b  BY <1>1 DEF Freeing, Before
  <2>2. h = NULL \/ (h \in F /\ h \in Nat /\ h # a)  BY <1>1 DEF First
  <2> QED BY <1>1, <2>1, <2>2
<1>5. v # NULL => ~(h = NULL \/ a < h) /\ h \in F /\ h <= v
  <2> HAVE v # NULL
  <2>1. h \in F /\ h \in Nat /\ h <= v  BY <1>1, <1>2 DEF First
  <2> QED BY <1>1, <1>2, <2>1
<1>6. Layout(F \cup U, m) /\ After(F, a, w) /\ a \in F \cup U  BY DEF Freeing
<1>7. E(m, a) \in Nat /\ a < E(m, a)
  <2>1. E(m, a) \in Nat /\ a + Hdr <= E(m, a)  BY <1>6 DEF Layout
  <2> QED BY <1>1, <2>1, NotNull
<1>8. ASSUME E(m, a) \in F PROVE E(m, a) = w
  <2>1. ~(E(m, a) <= a)  BY <1>1, <1>7
  <2>2. w \in F /\ a < w /\ w <= E(m, a)  BY <1>6, <1>8, <2>1 DEF After
  <2>3. E(m, a) <= w  BY <1>6, <2>2 DEF Layout
  <2>4. w \in Nat  BY <1>1, <2>2
  <2> QED BY <1>7, <2>2, <2>3, <2>4
<1> QED BY <1>1, <1>2, <1>3, <1>4, <1>5, <1>7, <1>8

(* In front of all free blocks, and not touching the first. *)
InFront(m, a, w, m2) ==
  /\ m2[a].p_next = w
  /\ \A x \in Addr : /\ m2[x].blk_size = m[x].blk_size
                     /\ x # a => m2[x].p_next = m[x].p_next
                     /\ x # a => m2[x].p_prev = IF x = w THEN a ELSE m[x].p_prev

LEMMA FreedApart ==
  ASSUME NEW F, NEW U, NEW a, NEW m, NEW h, NEW w, Freeing(F, U, a, m, h, NULL, w),
         E(m, a) # w, NEW m2, InFront(m, a, w, m2)
  PROVE  Freed(F, U, a, m, h, m2, FALSE)
<1>0. /\ m2[a].p_next = w
      /\ \A x \in Addr : /\ m2[x].blk_size = m[x].blk_size
                         /\ x # a => m2[x].p_next = m[x].p_next
                         /\ x # a => m2[x].p_prev = IF x = w THEN a ELSE m[x].p_prev
  BY DEF InFront
<1>1. /\ a \in Addr /\ a \in Nat /\ a \notin F /\ U \in SUBSET Addr /\ F \in SUBSET Addr
      /\ F \in SUBSET Nat /\ NULL \notin F /\ NULL \notin U
      /\ w = NULL \/ (w \in F /\ a < w)
      /\ h = NULL \/ a < h
      /\ E(m, a) \notin F /\ E(m, a) \in Nat /\ a < E(m, a)
  BY FreeingIs
<1>2. /\ Ordered(F, h, m) /\ NoTwoTouch(F, m) /\ F \cap U = {} /\ a \in U /\ Layout(F \cup U, m)
      /\ After(F, a, w) /\ Before(F, a, NULL)
  BY DEF Freeing
<1>3. Ordered(F \cup {a}, a, m2)
  <2>1. \A x \in F : x \in Addr /\ x # a /\ x # NULL  BY <1>1
  <2>2. Between(F, m, a, NULL, w, m2)  BY <1>0, <1>2, <2>1 DEF Between
  <2>3. Ordered(F \cup {a}, IF NULL = NULL THEN a ELSE h, m2)  BY <1>1, <1>2, <2>2, Inserted
  <2> QED BY <2>3
<1>4. \A x \in F \cup U : E(m2, x) = E(m, x)
  <2>1. \A x \in F \cup U : m2[x].blk_size = m[x].blk_size  BY <1>0, <1>1
  <2> QED BY <2>1 DEF E
<1>5. (F \cup {a}) \cup (U \ {a}) = F \cup U  BY <1>2
<1>6. Layout(F \cup U, m2) /\ (Covered(F \cup U, m) => Covered(F \cup U, m2))
  BY <1>2, <1>4, LayoutSame
<1>7. NoTwoTouch(F \cup {a}, m2)
  <2>1. E(m2, a) \notin F \cup {a}  BY <1>1, <1>2, <1>4
  <2>2. ASSUME NEW b \in F PROVE E(m2, b) \notin F \cup {a}
    <3>1. E(m2, b) = E(m, b) /\ E(m, b) \notin F  BY <1>2, <1>4 DEF NoTwoTouch
    <3>2. a <= b /\ b \in Nat  BY <1>1, <1>2 DEF Before
    <3>3. b + Hdr <= E(m, b)  BY <1>2 DEF Layout
    <3>4. E(m, b) # a  BY <1>1, <3>2, <3>3, NotNull
    <3> QED BY <3>1, <3>4
  <2> QED BY <2>1, <2>2 DEF NoTwoTouch
<1>8. (F \cup {a}) \cap (U \ {a}) = {}  BY <1>2
<1>9. \A x \in U \ {a} : x \in Addr /\ x # a /\ x # w  BY <1>1, <1>2
<1>10. \A x \in U \ {a} : /\ m2[x].blk_size = m[x].blk_size
                          /\ m2[x].p_next = m[x].p_next /\ m2[x].p_prev = m[x].p_prev
  BY <1>0, <1>9
<1> DEFINE F2 == F \cup {a}
<1>11. /\ Ordered(F2, IF h = NULL \/ a < h THEN a ELSE h, m2)
       /\ F2 \cap (U \ {a}) = {} /\ NoTwoTouch(F2, m2)
       /\ Layout(F2 \cup (U \ {a}), m2)
       /\ Covered(F \cup U, m) => Covered(F2 \cup (U \ {a}), m2)
  BY <1>1, <1>3, <1>5, <1>6, <1>7, <1>8
<1> HIDE DEF F2
<1> QED BY <1>10, <1>11 DEF Freed

(* In front of all free blocks, with the first of them. *)
LEMMA FreedBefore ==
  ASSUME NEW F, NEW U, NEW a, NEW m, NEW h, NEW w, Freeing(F, U, a, m, h, NULL, w),
         E(m, a) = w, w # NULL, NEW m2,
         m2[a].p_next = m[w].p_next, m2[a].blk_size = m[a].blk_size + m[w].blk_size + Hdr,
         \A x \in Addr \ {a} : /\ m2[x].blk_size = m[x].blk_size
                               /\ m2[x].p_next = m[x].p_next
                               /\ m2[x].p_prev = IF x = m[w].p_next THEN a ELSE m[x].p_prev
  PROVE  Freed(F, U, a, m, h, m2, FALSE)
<1>1. /\ a \in Addr /\ a \in Nat /\ a \notin F /\ U \in SUBSET Addr /\ F \in SUBSET Addr
      /\ F \in SUBSET Nat /\ NULL \notin F /\ NULL \notin U
      /\ w \in F /\ a < w /\ w \in Addr /\ w \in Nat
      /\ h = NULL \/ a < h
  BY FreeingIs
<1>2. /\ Ordered(F, h, m) /\ NoTwoTouch(F, m) /\ F \cap U = {} /\ a \in U /\ Layout(F \cup U, m)
      /\ After(F, a, w) /\ Before(F, a, NULL) /\ First(F, h) /\ m \in [Addr -> Mcb]
  BY DEF Freeing, Ordered, Linking
<1>3. w = h
  <2>1. h \in F /\ h <= w /\ h \in Nat  BY <1>1, <1>2 DEF First
  <2>2. a <= h /\ h # a  BY <1>1, <1>2, <2>1 DEF Before
  <2>3. ~(h <= a)  BY <1>1, <2>1, <2>2
  <2>4. w <= h  BY <1>1, <1>2, <2>1, <2>3 DEF After
  <2> QED BY <1>1, <2>1, <2>4
<1> DEFINE F2 == (F \ {w}) \cup {a}
<1>4. Ordered(F2, a, m2)
  <2>1. \A x \in F \ {w} : x < w <=> x < a
    <3> SUFFICES ASSUME NEW x \in F \ {w} PROVE ~(x < w) /\ ~(x < a)
      OBVIOUS
    <3>1. x \in Nat /\ a <= x /\ x # a /\ w <= x  BY <1>1, <1>2, <1>3 DEF Before, First
    <3> QED BY <1>1, <3>1
  <2>2. \A x \in F \ {w} : x \in Addr \ {a}  BY <1>1
  <2>3. \A x \in F \ {w} :
          /\ m2[x].p_next = IF w # h /\ x = m[w].p_prev THEN a ELSE m[x].p_next
          /\ m2[x].p_prev = IF x = m[w].p_next THEN a ELSE m[x].p_prev
    BY <1>3, <2>2
  <2>4. Moved(F, h, m, w, a, m2)  BY <1>3, <2>1, <2>3 DEF Moved
  <2>5. Ordered((F \ {w}) \cup {a}, IF w = h THEN a ELSE h, m2)
    BY <1>1, <1>2, <2>4, Replaced
  <2> QED BY <1>3, <2>5
<1>5. E(m2, a) = E(m, w)
  <2>1. m[a].blk_size \in Nat /\ m[w].blk_size \in Nat  BY <1>1, <1>2, McbFields
  <2>2. a + Hdr + m[a].blk_size = w  BY DEF E
  <2>3. a + Hdr + (m[a].blk_size + m[w].blk_size + Hdr) = w + Hdr + m[w].blk_size
    BY <1>1, <2>1, <2>2, NotNull
  <2> QED BY <2>3 DEF E
<1>6. \A x \in (F \cup U) \ {a, w} : E(m2, x) = E(m, x)
  <2>1. \A x \in (F \cup U) \ {a, w} : m2[x].blk_size = m[x].blk_size  BY <1>1
  <2> QED BY <2>1 DEF E
<1>7. /\ Layout((F \cup U) \ {w}, m2)
      /\ Covered(F \cup U, m) => Covered((F \cup U) \ {w}, m2)
  <2>1. a \in F \cup U /\ w \in F \cup U  BY <1>1, <1>2
  <2> QED BY <1>2, <1>5, <1>6, <2>1, LayoutMerge
<1>8. F2 \cup (U \ {a}) = (F \cup U) \ {w}  BY <1>1, <1>2
<1>9. NoTwoTouch(F2, m2)
  <2>1. E(m, w) \notin F /\ E(m, w) # a
    <3>1. E(m, w) \notin F  BY <1>1, <1>2 DEF NoTwoTouch
    <3>2. w + Hdr <= E(m, w)  BY <1>1, <1>2 DEF Layout
    <3> QED BY <1>1, <3>1, <3>2, NotNull
  <2>2. ASSUME NEW b \in F \ {w} PROVE E(m2, b) \notin F2
    <3>1. E(m2, b) = E(m, b) /\ E(m, b) \notin F  BY <1>1, <1>2, <1>6 DEF NoTwoTouch
    <3>2. a <= b /\ b \in Nat  BY <1>1, <1>2 DEF Before
    <3>3. b + Hdr <= E(m, b)  BY <1>2 DEF Layout
    <3>4. E(m, b) # a  BY <1>1, <3>2, <3>3, NotNull
    <3> QED BY <3>1, <3>4
  <2> QED BY <1>5, <2>1, <2>2 DEF NoTwoTouch
<1>10. F2 \cap (U \ {a}) = {}  BY <1>2
<1>11. m[w].p_next \notin U
  <2>1. After(F, w, m[w].p_next)  BY <1>1, <1>2 DEF Ordered
  <2> QED BY <1>1, <1>2, <2>1 DEF After
<1>12. \A x \in U \ {a} : x \in Addr \ {a} /\ x # m[w].p_next  BY <1>1, <1>11
<1>13. \A x \in U \ {a} : /\ m2[x].blk_size = m[x].blk_size
                          /\ m2[x].p_next = m[x].p_next /\ m2[x].p_prev = m[x].p_prev
  BY <1>12
<1> HIDE DEF F2
<1>14. /\ Ordered(F2, IF h = NULL \/ a < h THEN a ELSE h, m2)
       /\ F2 \cap (U \ {a}) = {} /\ NoTwoTouch(F2, m2)
       /\ Layout(F2 \cup (U \ {a}), m2)
       /\ Covered(F \cup U, m) => Covered(F2 \cup (U \ {a}), m2)
  BY <1>1, <1>4, <1>7, <1>8, <1>9, <1>10
<1> QED BY <1>13, <1>14 DEF Freed

(* Behind a free block that it touches, and with the next if it touches that *)
(* one too.                                                                  *)
LEMMA FreedBehind ==
  ASSUME NEW F, NEW U, NEW a, NEW m, NEW h, NEW v, NEW w, Freeing(F, U, a, m, h, v, w),
         v # NULL, E(m, v) = a
  PROVE  Freed(F, U, a, m, h, JoinPrevious(m, v, a, w), FALSE)
<1> DEFINE m2 == JoinPrevious(m, v, a, w)
           n == m[v].blk_size + m[a].blk_size + Hdr
           m1 == SetSize(m, v, n)
<1>1. /\ a \in Addr /\ a \in Nat /\ a \notin F /\ U \in SUBSET Addr /\ F \in SUBSET Addr
      /\ F \in SUBSET Nat /\ NULL \notin F /\ NULL \notin U
      /\ v \in F /\ v < a /\ v \in Addr /\ v \in Nat
      /\ w = NULL \/ (w \in F /\ a < w /\ w \in Addr /\ w \in Nat)
      /\ ~(h = NULL \/ a < h) /\ h \in F /\ h <= v
      /\ E(m, a) # w => E(m, a) \notin F
      /\ E(m, a) \in Nat /\ a < E(m, a)
  BY FreeingIs
<1>2. /\ Ordered(F, h, m) /\ NoTwoTouch(F, m) /\ F \cap U = {} /\ a \in U /\ Layout(F \cup U, m)
      /\ After(F, a, w) /\ Before(F, a, v) /\ m \in [Addr -> Mcb] /\ Linking(m)
  BY DEF Freeing, Linking
<1>3. /\ v \in Real(m) /\ a \in Real(m) /\ w \in RealOrNull(m)
  <2>1. \A x \in F \cup U : x \in Addr /\ E(m, x) <= HeapSize  BY <1>2 DEF Layout
  <2>2. \A x \in F \cup U : x \in Real(m)  BY <2>1 DEF E, Real
  <2> QED BY <1>1, <1>2, <2>2 DEF RealOrNull
<1>4. Touches(m, v, a) /\ (Touches(m, a, w) <=> E(m, a) = w)  BY DEF Touches, E
<1>5. /\ m2 \in [Addr -> Mcb]
      /\ \A x \in Addr :
           /\ m2[x].blk_size = IF x # v THEN m[x].blk_size
                               ELSE IF E(m, a) = w THEN n + m[w].blk_size + Hdr ELSE n
           /\ m2[x].p_next = IF x = v /\ w = NULL THEN NULL
                             ELSE IF x = v /\ E(m, a) = w THEN m[w].p_next ELSE m[x].p_next
           /\ m2[x].p_prev = IF E(m, a) = w /\ x = m[w].p_next THEN v ELSE m[x].p_prev
  <2>1. /\ Linking(m2)
        /\ \A x \in Addr :
             /\ m2[x].blk_size = IF x # v THEN m[x].blk_size
                                 ELSE IF Touches(m, a, w) THEN n + m[w].blk_size + Hdr ELSE n
             /\ m2[x].p_next = IF x = v /\ w = NULL THEN NULL
                               ELSE IF x = v /\ Touches(m, a, w) THEN m[w].p_next ELSE m[x].p_next
             /\ m2[x].p_prev = IF Touches(m, a, w) /\ x = m[w].p_next THEN v ELSE m[x].p_prev
    BY <1>2, <1>3, <1>4, JoinPreviousIs
  <2> HIDE DEF m2, n
  <2> QED BY <1>4, <2>1 DEF Linking
<1> HIDE DEF m2
<1>6. m[v].blk_size \in Nat /\ m[a].blk_size \in Nat /\ n \in Nat /\ v + Hdr + n = E(m, a)
      /\ n \in 0..(Width - 1)
  <2>1. m[v].blk_size \in Nat /\ m[a].blk_size \in Nat  BY <1>1, <1>2, McbFields
  <2>2. v + Hdr + m[v].blk_size = a  BY DEF E
  <2> DEFINE y == m[v].blk_size
             z == m[a].blk_size
  <2>3. y \in Nat /\ z \in Nat /\ v + Hdr + y = a /\ n = y + z + Hdr /\ E(m, a) = a + Hdr + z
    BY <2>1, <2>2 DEF E
  <2>4. E(m, a) <= HeapSize  BY <1>2 DEF Layout
  <2>5. E(m, a) <= HeapSize /\ HeapSize < Width /\ Width \in Nat  BY <2>4, HeapAssumption
  <2> HIDE DEF y, z, n
  <2>6. n \in Nat /\ v + Hdr + n = E(m, a)  BY <1>1, <2>3, NotNull
  <2>7. n \in 0..(Width - 1)  BY <1>1, <2>5, <2>6, NotNull
  <2> QED BY <2>1, <2>6, <2>7
<1> HIDE DEF n
<1>7. v # a /\ v \in F \cup U /\ a \in F \cup U  BY <1>1, <1>2
<1>8. \A x \in U \ {a} : x \in Addr /\ x # v /\ x # w  BY <1>1, <1>2
<1>9. CASE E(m, a) # w
  <2>1. \A x \in Addr : /\ m2[x].blk_size = IF x = v THEN n ELSE m[x].blk_size
                        /\ m2[x].p_next = IF x = v /\ w = NULL THEN NULL ELSE m[x].p_next
                        /\ m2[x].p_prev = m[x].p_prev
    BY <1>5, <1>9
  <2>2. w = NULL => m[v].p_next = NULL
    <3> HAVE w = NULL
    <3>1. \A b \in F : b <= a  BY <1>1, <1>2 DEF After
    <3>2. \A b \in F : b <= v
      <4> SUFFICES ASSUME NEW b \in F PROVE b <= v
        OBVIOUS
      <4>1. b <= a /\ b # a /\ b \in Nat  BY <1>1, <3>1
      <4>2. ~(a <= b)  BY <1>1, <4>1
      <4> QED BY <1>1, <1>2, <4>2 DEF Before
    <3>3. After(F, v, m[v].p_next)  BY <1>1, <1>2 DEF Ordered
    <3> QED BY <1>1, <3>2, <3>3, Neighbours
  <2>3. Ordered(F, h, m2)
    <3>1. \A x \in F : m2[x].p_next = m[x].p_next /\ m2[x].p_prev = m[x].p_prev
      BY <1>1, <2>1, <2>2
    <3> QED BY <1>2, <3>1, Kept
  <2>4. E(m2, v) = E(m, a)  BY <1>1, <1>6, <2>1 DEF E
  <2>5. \A x \in (F \cup U) \ {v, a} : E(m2, x) = E(m, x)
    <3>1. \A x \in (F \cup U) \ {v, a} : m2[x].blk_size = m[x].blk_size  BY <1>1, <2>1
    <3> QED BY <3>1 DEF E
  <2>6. Layout((F \cup U) \ {a}, m2) /\ (Covered(F \cup U, m) => Covered((F \cup U) \ {a}, m2))
    BY <1>2, <1>7, <2>4, <2>5, LayoutMerge
  <2>7. F \cup (U \ {a}) = (F \cup U) \ {a} /\ F \cap (U \ {a}) = {}  BY <1>1, <1>2
  <2>8. NoTwoTouch(F, m2)
    <3>1. E(m2, v) \notin F  BY <1>1, <1>9, <2>4
    <3>2. \A b \in F \ {v} : E(m2, b) \notin F  BY <1>1, <1>2, <2>5 DEF NoTwoTouch
    <3> QED BY <3>1, <3>2 DEF NoTwoTouch
  <2>9. \A x \in U \ {a} : /\ m2[x].blk_size = m[x].blk_size
                           /\ m2[x].p_next = m[x].p_next /\ m2[x].p_prev = m[x].p_prev
    BY <1>8, <2>1
  <2>10. /\ Ordered(F, IF h = NULL \/ a < h THEN a ELSE h, m2)
         /\ F \cap (U \ {a}) = {} /\ NoTwoTouch(F, m2)
         /\ Layout(F \cup (U \ {a}), m2)
         /\ Covered(F \cup U, m) => Covered(F \cup (U \ {a}), m2)
    BY <1>1, <2>3, <2>6, <2>7, <2>8
  <2> QED BY <2>9, <2>10 DEF Freed, m2
<1>10. CASE E(m, a) = w
  <2>0. w \in F /\ a < w /\ w \in Addr /\ w \in Nat /\ w # NULL /\ w # v
    <3>1. w # NULL  BY <1>1, <1>10 DEF NULL
    <3> QED BY <1>1, <3>1
  <2>1. \A x \in Addr : /\ m2[x].blk_size = IF x = v THEN n + m[w].blk_size + Hdr ELSE m[x].blk_size
                        /\ m2[x].p_next = IF x = v THEN m[w].p_next ELSE m[x].p_next
                        /\ m2[x].p_prev = IF x = m[w].p_next THEN v ELSE m[x].p_prev
    BY <1>5, <1>10, <2>0
  <2>2. w # h /\ m[w].p_prev = v
    <3>1. w # h  BY <1>1, <2>0
    <3>2. Before(F, w, m[w].p_prev)  BY <1>2, <2>0, <3>1 DEF Ordered
    <3>3. Before(F, w, v)
      <4>1. v < w  BY <1>1, <2>0
      <4>2. ASSUME NEW b \in F PROVE w <= b \/ b <= v
        <5>1. (b <= a \/ w <= b) /\ (a <= b \/ b <= v) /\ b \in Nat /\ b # a
          BY <1>1, <1>2, <2>0 DEF After, Before
        <5> QED BY <1>1, <5>1
      <4> QED BY <1>1, <4>1, <4>2 DEF Before
    <3>4. m[w].p_prev = v  BY <1>1, <2>0, <3>2, <3>3, OneBefore
    <3> QED BY <3>1, <3>4
  <2>3. Ordered(F \ {w}, h, m2)
    <3>1. Dropped(F, h, m, w, m2)  BY <1>1, <2>1, <2>2 DEF Dropped
    <3>2. Ordered(F \ {w}, IF w = h THEN m[w].p_next ELSE h, m2)  BY <1>2, <2>0, <3>1, Removed
    <3> QED BY <2>2, <3>2
  <2>4. /\ m1 \in [Addr -> Mcb]
        /\ \A x \in Addr : m1[x].blk_size = IF x = v THEN n ELSE m[x].blk_size
    BY <1>1, <1>2, <1>6, SetSizeIs
  <2> HIDE DEF m1
  <2>5. E(m1, v) = E(m, a)  BY <1>1, <1>6, <2>4 DEF E
  <2>6. \A x \in (F \cup U) \ {v} : E(m1, x) = E(m, x)
    <3>1. \A x \in (F \cup U) \ {v} : m1[x].blk_size = m[x].blk_size  BY <1>1, <2>4
    <3> QED BY <3>1 DEF E
  <2> DEFINE B == (F \cup U) \ {a}
  <2>7. Layout(B, m1) /\ (Covered(F \cup U, m) => Covered(B, m1))
    BY <1>2, <1>7, <2>5, <2>6, LayoutMerge
  <2>8. E(m2, v) = E(m, w)
    <3>1. m[w].blk_size \in Nat  BY <1>2, <2>0, McbFields
    <3>2. v + Hdr + (n + m[w].blk_size + Hdr) = w + Hdr + m[w].blk_size
      BY <1>1, <1>6, <1>10, <2>0, <3>1, NotNull
    <3> QED BY <1>1, <2>1, <3>2 DEF E
  <2>9. \A x \in (F \cup U) \ {v} : E(m2, x) = E(m, x)
    <3>1. \A x \in (F \cup U) \ {v} : m2[x].blk_size = m[x].blk_size  BY <1>1, <2>1
    <3> QED BY <3>1 DEF E
  <2>10. /\ v \in B /\ w \in B /\ E(m1, v) = w /\ E(m2, v) = E(m1, w)
         /\ \A x \in B \ {v, w} : E(m2, x) = E(m1, x)
    BY <1>1, <1>10, <2>0, <2>5, <2>6, <2>8, <2>9
  <2> HIDE DEF B
  <2>11. Layout(B \ {w}, m2) /\ (Covered(B, m1) => Covered(B \ {w}, m2))
    BY <2>7, <2>10, LayoutMerge
  <2> DEFINE F2 == F \ {w}
  <2>12. F2 \cup (U \ {a}) = B \ {w} /\ F2 \cap (U \ {a}) = {}  BY <1>1, <1>2, <2>0 DEF B
  <2>13. NoTwoTouch(F2, m2)
    <3>1. E(m2, v) \notin F  BY <1>2, <2>0, <2>8 DEF NoTwoTouch
    <3>2. \A b \in F \ {v} : E(m2, b) \notin F  BY <1>2, <2>9 DEF NoTwoTouch
    <3> QED BY <3>1, <3>2 DEF NoTwoTouch
  <2>14. m[w].p_next \notin U
    <3>1. After(F, w, m[w].p_next)  BY <1>2, <2>0 DEF Ordered
    <3> QED BY <1>1, <1>2, <3>1 DEF After
  <2>15. \A x \in U \ {a} : x # m[w].p_next  BY <2>14
  <2>16. \A x \in U \ {a} : /\ m2[x].blk_size = m[x].blk_size
                            /\ m2[x].p_next = m[x].p_next /\ m2[x].p_prev = m[x].p_prev
    BY <1>8, <2>1, <2>15
  <2> HIDE DEF F2
  <2>17. /\ Ordered(F2, IF h = NULL \/ a < h THEN a ELSE h, m2)
         /\ F2 \cap (U \ {a}) = {} /\ NoTwoTouch(F2, m2)
         /\ Layout(F2 \cup (U \ {a}), m2)
         /\ Covered(F \cup U, m) => Covered(F2 \cup (U \ {a}), m2)
    BY <1>1, <2>3, <2>7, <2>11, <2>12, <2>13 DEF F2
  <2> QED BY <2>16, <2>17 DEF Freed, m2
<1> QED BY <1>9, <1>10

(* Behind the last free block, which it does not touch: it is not linked.    *)
LEMMA FreedLost ==
  ASSUME NEW F, NEW U, NEW a, NEW m, NEW h, NEW v, NEW w, Freeing(F, U, a, m, h, v, w),
         v # NULL, NEW m2,
         \A x \in Addr : /\ m2[x].blk_size = m[x].blk_size /\ m2[x].p_next = m[x].p_next
                         /\ x # a => m2[x].p_prev = m[x].p_prev
  PROVE  Freed(F, U, a, m, h, m2, TRUE)
<1>1. a \notin F /\ U \in SUBSET Addr /\ F \in SUBSET Addr /\ ~(h = NULL \/ a < h)
  BY FreeingIs
<1>2. Ordered(F, h, m) /\ NoTwoTouch(F, m) /\ F \cap U = {} /\ Layout(F \cup U, m)
  BY DEF Freeing
<1>3. \A x \in F : x \in Addr /\ x # a  BY <1>1
<1>4. Ordered(F, h, m2)  BY <1>2, <1>3, Kept
<1>5. \A x \in F \cup U : E(m2, x) = E(m, x)
  <2>1. \A x \in F \cup U : m2[x].blk_size = m[x].blk_size  BY <1>1
  <2> QED BY <2>1 DEF E
<1>6. Layout(F \cup (U \ {a}), m2)
  <2>1. F \cup (U \ {a}) \in SUBSET (F \cup U)  OBVIOUS
  <2> QED BY <1>2, <1>5, <2>1, LayoutSame
<1>7. NoTwoTouch(F, m2)  BY <1>2, <1>5 DEF NoTwoTouch
<1>8. \A x \in U \ {a} : x \in Addr /\ x # a  BY <1>1
<1>9. \A x \in U \ {a} : /\ m2[x].blk_size = m[x].blk_size
                         /\ m2[x].p_next = m[x].p_next /\ m2[x].p_prev = m[x].p_prev
  BY <1>8
<1>10. /\ Ordered(F, IF h = NULL \/ a < h THEN a ELSE h, m2)
       /\ F \cap (U \ {a}) = {} /\ NoTwoTouch(F, m2) /\ Layout(F \cup (U \ {a}), m2)
  BY <1>1, <1>2, <1>4, <1>6, <1>7
<1> QED BY <1>9, <1>10 DEF Freed

(* free_memory first takes the block off the list of those in use. *)
LEMMA UnlinkedSound ==
  ASSUME Typed, NEW F, NEW Q, Sound(F, Q), NEW a \in Q
  PROVE  LET m == Unlinked(a)
         IN  /\ Freeing(F, InUseAt, a, m, free_head, FreeAround(a).prev, FreeAround(a).next)
             /\ Ordered(Q \ {a}, IF a = alloc_head THEN mcb[a].p_next ELSE alloc_head, m)
             /\ \A x \in Addr : m[x].blk_size = mcb[x].blk_size
             /\ ~Stuck(ListFrom(m, free_head), a)
             /\ Covered(F \cup InUseAt, mcb) => Covered(F \cup InUseAt, m)
<1> DEFINE m == Unlinked(a)
           U == InUseAt
           v == mcb[a].p_prev
           w == mcb[a].p_next
<1>1. /\ Ordered(F, free_head, mcb) /\ Ordered(Q, alloc_head, mcb) /\ Q \subseteq U
      /\ F \cap U = {} /\ NoTwoTouch(F, mcb) /\ Layout(F \cup U, mcb)
  BY DEF Sound
<1>2. Q \in SUBSET Addr /\ F \in SUBSET Addr /\ U \in SUBSET Addr /\ NULL \notin F /\ a \in Addr
      /\ a \notin F /\ a \in U
  BY <1>1, NotNull DEF Ordered, Layout
<1>3. /\ Linking(m)
      /\ \A x \in Addr :
           /\ m[x].blk_size = mcb[x].blk_size
           /\ m[x].p_next = IF a # alloc_head /\ x = v THEN w ELSE mcb[x].p_next
           /\ m[x].p_prev = IF x = w THEN v ELSE mcb[x].p_prev
  BY <1>2, UnlinkedIs DEF Typed
<1>4. ListFrom(m, free_head) = ListFrom(Unlinked(a), free_head)  OBVIOUS
<1> DEFINE list == ListFrom(m, free_head)
<1>5. FreeAround(a).next = At(list, Behind(list, a))
      /\ FreeAround(a).prev = At(list, Behind(list, a) - 1)
  BY DEF FreeAround
<1> HIDE DEF m
<1>6. After(Q, a, w) /\ (a # alloc_head => Before(Q, a, v))  BY <1>1 DEF Ordered
<1>7. w \notin F /\ (a # alloc_head => v \notin F)
  <2>1. (w = NULL \/ w \in Q) /\ (a # alloc_head => v = NULL \/ v \in Q)
    BY <1>6 DEF After, Before
  <2> QED BY <1>1, <1>2, <2>1
<1> HIDE DEF v, w
<1>8. Dropped(Q, alloc_head, mcb, a, m)  BY <1>2, <1>3 DEF Dropped, v, w
<1>9. Ordered(Q \ {a}, IF a = alloc_head THEN mcb[a].p_next ELSE alloc_head, m)
  BY <1>1, <1>8, Removed
<1>10. Ordered(F, free_head, m)
  <2>1. \A x \in F : x \in Addr /\ x # w /\ (a # alloc_head => x # v)  BY <1>2, <1>7
  <2>2. \A x \in F : m[x].p_next = mcb[x].p_next /\ m[x].p_prev = mcb[x].p_prev
    BY <1>3, <2>1
  <2> QED BY <1>1, <2>2, Kept
<1>11. \A x \in F \cup U : E(m, x) = E(mcb, x)
  <2>1. \A x \in F \cup U : m[x].blk_size = mcb[x].blk_size  BY <1>2, <1>3
  <2> QED BY <2>1 DEF E
<1>12. Layout(F \cup U, m) /\ (Covered(F \cup U, mcb) => Covered(F \cup U, m))
  BY <1>1, <1>11, LayoutSame
<1>13. NoTwoTouch(F, m)  BY <1>1, <1>11 DEF NoTwoTouch
<1>14. ~Stuck(list, a) /\ After(F, a, At(list, Behind(list, a)))
       /\ Before(F, a, At(list, Behind(list, a) - 1))
  BY <1>2, <1>10, Around
<1>15. Freeing(F, U, a, m, free_head, FreeAround(a).prev, FreeAround(a).next)
  <2> HIDE DEF list
  <2> QED BY <1>1, <1>2, <1>3, <1>5, <1>10, <1>12, <1>13, <1>14 DEF Freeing
<1> QED BY <1>3, <1>9, <1>12, <1>14, <1>15 DEF m

(* Then it becomes free. *)
LEMMA InsertFreed ==
  ASSUME NEW F, NEW U, NEW a,
         Freeing(F, U, a, Unlinked(a), free_head, FreeAround(a).prev, FreeAround(a).next),
         "skipped" \notin FreeHarm(a)
  PROVE  Freed(F, U, a, Unlinked(a), free_head, Insert(a), "leaked" \in FreeHarm(a))
<1> DEFINE m == Unlinked(a)
           w == FreeAround(a).next
           v == FreeAround(a).prev
           h == free_head
           m2 == Insert(a)
<1>1. m2 = CASE h = NULL -> SetPrev(SetNext(m, a, NULL), a, NULL)
             [] h # NULL /\ v = NULL -> JoinNext([m EXCEPT ![a].p_prev = NULL], a, w)
             [] h # NULL /\ v # NULL /\ Touches(m, v, a) -> JoinPrevious(m, v, a, w)
             [] OTHER -> JoinBehind(m, v, a, w)
  BY DEF Insert
<1>2. FreeHarm(a) = IF v = NULL \/ Touches(m, v, a) THEN {}
                    ELSE IF w = NULL THEN {"leaked"} ELSE {"skipped"}
  BY DEF FreeHarm
<1>3. Freeing(F, U, a, m, h, v, w)  OBVIOUS
<1> HIDE DEF m, w, v, h, m2
<1>4. /\ a \in Addr /\ a \in Nat /\ NULL \notin F /\ F \in SUBSET Addr
      /\ v = NULL \/ (v \in F /\ v \in Addr)
      /\ w = NULL \/ (w \in F /\ w \in Addr)
      /\ v # NULL => h \in F
      /\ E(m, a) \in Nat
  BY <1>3, FreeingIs
<1>5. /\ Linking(m) /\ m \in [Addr -> Mcb] /\ First(F, h) /\ After(F, a, w) /\ Before(F, a, v)
      /\ Layout(F \cup U, m) /\ a \in U
  BY <1>3 DEF Freeing, Linking, Ordered
<1>6. a \in MayNull /\ NULL \in MayNull /\ v \in MayNull /\ w \in MayNull
  BY <1>4 DEF MayNull
<1>7. E(m, a) # NULL  BY <1>4 DEF NULL
<1>8. \A x, y : Touches(m, x, y) <=> E(m, x) = y  BY DEF Touches, E
<1>9. CASE h = NULL
  <2>1. m2 = SetPrev(SetNext(m, a, NULL), a, NULL)  BY <1>1, <1>9
  <2>2. F = {} /\ v = NULL /\ w = NULL  BY <1>4, <1>5, <1>9 DEF First
  <2> DEFINE m1 == SetNext(m, a, NULL)
  <2>3. /\ m1 \in [Addr -> Mcb]
        /\ \A x \in Addr : /\ m1[x].p_next = IF x = a THEN NULL ELSE m[x].p_next
                           /\ m1[x].p_prev = m[x].p_prev
                           /\ m1[x].blk_size = m[x].blk_size
    BY <1>5, <1>6, SetNextIs
  <2> HIDE DEF m1
  <2>4. \A x \in Addr : /\ m2[x].p_prev = IF x = a THEN NULL ELSE m1[x].p_prev
                        /\ m2[x].p_next = m1[x].p_next
                        /\ m2[x].blk_size = m1[x].blk_size
    BY <1>6, <2>1, <2>3, SetPrevIs DEF m1
  <2>5. /\ m2[a].p_next = w
        /\ \A x \in Addr : /\ m2[x].blk_size = m[x].blk_size
                           /\ x # a => m2[x].p_next = m[x].p_next
                           /\ x # a => m2[x].p_prev = IF x = w THEN a ELSE m[x].p_prev
    BY <1>4, <2>2, <2>3, <2>4, NotNull
  <2>6. Freeing(F, U, a, m, h, NULL, w)  BY <1>3, <2>2
  <2>7. Freed(F, U, a, m, h, m2, FALSE)  
    <3>1. InFront(m, a, w, m2)  BY <2>5 DEF InFront
    <3>2. E(m, a) # w  BY <1>7, <2>2
    <3> QED BY <2>6, <3>1, <3>2, FreedApart
  <2>8. ~("leaked" \in FreeHarm(a))  BY <1>2, <2>2
  <2>9. ("leaked" \in FreeHarm(a)) = FALSE  BY <2>8
  <2> QED BY <2>7, <2>9 DEF m, m2, h
<1>10. CASE h # NULL /\ v = NULL
  <2> DEFINE m1 == SetPrev(m, a, NULL)
  <2>1. m1 = [m EXCEPT ![a].p_prev = NULL]  BY <1>4, NotNull DEF SetPrev
  <2>2. /\ m1 \in [Addr -> Mcb]
        /\ \A x \in Addr : /\ m1[x].p_prev = IF x = a THEN NULL ELSE m[x].p_prev
                           /\ m1[x].p_next = m[x].p_next
                           /\ m1[x].blk_size = m[x].blk_size
    BY <1>5, <1>6, SetPrevIs
  <2>3. Linking(m1) /\ Real(m1) = Real(m)
    <3>1. NULL \in RealOrNull(m)  BY DEF RealOrNull
    <3> QED BY <1>5, <1>6, <3>1, RealPrev
  <2> HIDE DEF m1
  <2>4. m2 = JoinNext(m1, a, w)
    <3>1. m2 = JoinNext([m EXCEPT ![a].p_prev = NULL], a, w)  BY <1>1, <1>10
    <3> QED BY <2>1, <3>1
  <2>5. a \in Real(m1) /\ w \in RealOrNull(m1)
    <3>1. \A x \in F \cup U : x \in Addr /\ E(m, x) <= HeapSize  BY <1>5 DEF Layout
    <3>2. \A x \in F \cup U : x \in Real(m)  BY <3>1 DEF E, Real
    <3> QED BY <1>4, <1>5, <2>3, <3>2 DEF RealOrNull
  <2>6. Touches(m1, a, w) <=> E(m, a) = w
    <3>1. m1[a].blk_size = m[a].blk_size  BY <1>4, <2>2
    <3> QED BY <3>1 DEF Touches, E
  <2>7. Freeing(F, U, a, m, h, NULL, w)  BY <1>3, <1>10
  <2>8. Freed(F, U, a, m, h, m2, FALSE)
    <3>1. CASE E(m, a) # w
      <4>1. \A x \in Addr : /\ m2[x].p_next = IF x = a THEN w ELSE m1[x].p_next
                            /\ m2[x].p_prev = IF x = w THEN a ELSE m1[x].p_prev
                            /\ m2[x].blk_size = m1[x].blk_size
        BY <2>3, <2>4, <2>5, <2>6, <3>1, JoinNextIs
      <4>2. /\ m2[a].p_next = w
            /\ \A x \in Addr : /\ m2[x].blk_size = m[x].blk_size
                               /\ x # a => m2[x].p_next = m[x].p_next
                               /\ x # a => m2[x].p_prev = IF x = w THEN a ELSE m[x].p_prev
        BY <1>4, <2>2, <4>1
      <4>3. InFront(m, a, w, m2)  BY <4>2 DEF InFront
      <4> QED BY <2>7, <3>1, <4>3, FreedApart
    <3>2. CASE E(m, a) = w
      <4>1. w # NULL /\ w \in Addr /\ w # a
        <5>1. w # NULL  BY <1>7, <3>2
        <5>2. w \in F  BY <1>4, <5>1
        <5>3. a \notin F  BY <1>3, FreeingIs
        <5> QED BY <1>4, <5>1, <5>2, <5>3
      <4>2. w \in Real(m1) /\ m2 = Absorb(m1, a, w)  BY <2>3, <2>4, <2>5, <2>6, <3>2, JoinNextIs
      <4>3. Touches(m1, a, w)  BY <2>6, <3>2
      <4>4. \A x \in Addr :
              /\ m2[x].blk_size = IF x = a THEN m1[a].blk_size + m1[w].blk_size + Hdr
                                           ELSE m1[x].blk_size
              /\ m2[x].p_next = IF x = a THEN m1[w].p_next ELSE m1[x].p_next
              /\ m2[x].p_prev = IF x = m1[w].p_next THEN a ELSE m1[x].p_prev
        BY <1>4, <2>3, <4>2, <4>3, AbsorbIs
      <4>5. /\ m1[a].blk_size = m[a].blk_size /\ m1[w].blk_size = m[w].blk_size
            /\ m1[w].p_next = m[w].p_next
        BY <1>4, <2>2, <4>1
      <4>6. /\ m2[a].p_next = m[w].p_next /\ m2[a].blk_size = m[a].blk_size + m[w].blk_size + Hdr
            /\ \A x \in Addr \ {a} :
                 /\ m2[x].blk_size = m[x].blk_size
                 /\ m2[x].p_next = m[x].p_next
                 /\ m2[x].p_prev = IF x = m[w].p_next THEN a ELSE m[x].p_prev
        BY <1>4, <2>2, <4>4, <4>5
      <4> QED BY <2>7, <3>2, <4>1, <4>6, FreedBefore
    <3> QED BY <3>1, <3>2
  <2>9. ("leaked" \in FreeHarm(a)) = FALSE  BY <1>2, <1>10
  <2> QED BY <2>8, <2>9 DEF m, m2, h
<1>11. CASE v # NULL /\ Touches(m, v, a)
  <2>1. h # NULL  BY <1>4, <1>11
  <2>2. m2 = JoinPrevious(m, v, a, w)  BY <1>1, <1>11, <2>1
  <2>3. E(m, v) = a  BY <1>8, <1>11
  <2>4. Freed(F, U, a, m, h, m2, FALSE)  BY <1>3, <1>11, <2>2, <2>3, FreedBehind
  <2>5. ("leaked" \in FreeHarm(a)) = FALSE  BY <1>2, <1>11
  <2> QED BY <2>4, <2>5 DEF m, m2, h
<1>12. CASE v # NULL /\ ~Touches(m, v, a)
  <2>1. h # NULL  BY <1>4, <1>12
  <2>2. w = NULL /\ ("leaked" \in FreeHarm(a)) = TRUE  BY <1>2, <1>12
  <2>3. m2 = [m EXCEPT ![a].p_prev = v]
    <3>1. m2 = JoinBehind(m, v, a, w)  BY <1>1, <1>12, <2>1
    <3> QED BY <2>2, <3>1 DEF JoinBehind
  <2>4. m2 = SetPrev(m, a, v)  BY <1>4, <2>3, NotNull DEF SetPrev
  <2>5. \A x \in Addr : /\ m2[x].blk_size = m[x].blk_size /\ m2[x].p_next = m[x].p_next
                        /\ x # a => m2[x].p_prev = m[x].p_prev
    BY <1>5, <1>6, <2>4, SetPrevIs
  <2>6. Freed(F, U, a, m, h, m2, TRUE)  BY <1>3, <1>12, <2>5, FreedLost
  <2> QED BY <2>2, <2>6 DEF m, m2, h
<1> QED BY <1>9, <1>10, <1>11, <1>12

LEMMA FreeSound ==
  ASSUME Typed, NEW F, NEW Q, Sound(F, Q), NEW p \in Ptr, NEW a, a = p - Hdr, a \in Q,
         mcb' = Insert(a),
         free_head' = IF free_head = NULL \/ a < free_head THEN a ELSE free_head,
         alloc_head' = IF a = alloc_head THEN mcb[a].p_next ELSE alloc_head,
         live' = [live EXCEPT ![p] = SubSeq(@, 2, Len(@))],
         harm' = harm \cup FreeHarm(a), Intact'
  PROVE  /\ \E F2, Q2 : Sound(F2, Q2)'
         /\ p \in InUse /\ InUse' = InUse \ {p} /\ live' = [live EXCEPT ![p] = <<>>]
<1> DEFINE U == InUseAt
           m == Unlinked(a)
<1>1. /\ Freeing(F, U, a, m, free_head, FreeAround(a).prev, FreeAround(a).next)
      /\ Ordered(Q \ {a}, IF a = alloc_head THEN mcb[a].p_next ELSE alloc_head, m)
      /\ \A x \in Addr : m[x].blk_size = mcb[x].blk_size
      /\ Covered(F \cup U, mcb) => Covered(F \cup U, m)
  BY UnlinkedSound
<1>2. "skipped" \notin FreeHarm(a)
  <2>1. harm' \subseteq {"leaked", "hidden"}  BY DEF Intact
  <2> QED BY <2>1
<1>3. Freed(F, U, a, m, free_head, mcb', "leaked" \in FreeHarm(a))
  BY <1>1, <1>2, InsertFreed
<1>4. /\ Q \subseteq U /\ ("hidden" \notin harm => U \subseteq Q) /\ \A y \in InUse : Given1(y)
      /\ ("leaked" \notin harm => Covered(F \cup U, mcb)) /\ Layout(F \cup U, mcb)
  BY DEF Sound
<1>5. p \in Int /\ \A y \in InUse : y \in Ptr /\ y \in Int /\ y - Hdr \in U
  BY NotNull DEF Ptr, InUse, InUseAt
<1>6. p \in InUse
  <2>1. PICK y \in InUse : a = y - Hdr  BY <1>4 DEF InUseAt
  <2>2. y = p  BY <1>5, <2>1, NotNull
  <2> QED BY <2>1, <2>2
<1>7. live \in [Ptr -> Seq(Sizes)]  BY DEF Typed, HeapTypeOK
<1>8. live' = [live EXCEPT ![p] = <<>>]
  <2> DEFINE s == live[p]
  <2>1. s \in Seq(Sizes) /\ Len(s) = 1  BY <1>4, <1>6, <1>7 DEF Given1
  <2>2. SubSeq(live[p], 2, Len(live[p])) = SubSeq(s, 2, 1)  BY <2>1
  <2> HIDE DEF s
  <2>3. SubSeq(s, 2, 1) = <<>>
    <3>1. Len(SubSeq(s, 2, 1)) = 0 /\ SubSeq(s, 2, 1) \in Seq(Sizes)
      <4>1. \A i \in 2..1 : s[i] \in Sizes  OBVIOUS
      <4> QED BY <4>1, SubSeqProperties
    <3> QED BY <3>1, EmptySeq
  <2> QED BY <2>2, <2>3
<1>9. InUse' = InUse \ {p}
  <2>1. \A y \in Ptr : live'[y] # <<>> <=> y # p /\ live[y] # <<>>  BY <1>7, <1>8
  <2>2. InUse' = {y \in Ptr : live'[y] # <<>>}  BY DEF InUse
  <2>3. InUse' \subseteq InUse \ {p}  BY <2>1, <2>2 DEF InUse
  <2>4. InUse \ {p} \subseteq InUse'  BY <2>1, <2>2 DEF InUse
  <2> QED BY <2>3, <2>4
<1>10. InUseAt' = U \ {a}
  <2>1. InUseAt' = {y - Hdr : y \in InUse'}  BY DEF InUseAt
  <2>2. \A y \in InUse : y - Hdr = a <=> y = p  BY <1>5, NotNull
  <2>3. InUseAt' \subseteq U \ {a}  BY <1>9, <2>1, <2>2 DEF InUseAt
  <2>4. U \ {a} \subseteq InUseAt'  BY <1>9, <2>1, <2>2 DEF InUseAt
  <2> QED BY <2>3, <2>4
<1>11. \A x \in U \ {a} : /\ mcb'[x].blk_size = m[x].blk_size
                          /\ mcb'[x].p_next = m[x].p_next /\ mcb'[x].p_prev = m[x].p_prev
  BY <1>3 DEF Freed
<1>12. PICK F2 : /\ Ordered(F2, IF free_head = NULL \/ a < free_head THEN a ELSE free_head, mcb')
                 /\ F2 \cap (U \ {a}) = {} /\ NoTwoTouch(F2, mcb')
                 /\ Layout(F2 \cup (U \ {a}), mcb')
                 /\ "leaked" \notin FreeHarm(a) /\ Covered(F \cup U, m)
                      => Covered(F2 \cup (U \ {a}), mcb')
  BY <1>3 DEF Freed
<1> HIDE DEF m
<1> DEFINE Q2 == Q \ {a}
<1>13. Ordered(Q2, alloc_head', mcb')
  <2>1. \A x \in Q2 : mcb'[x].p_next = m[x].p_next /\ mcb'[x].p_prev = m[x].p_prev
    BY <1>4, <1>11
  <2>2. Ordered(Q2, alloc_head', m)  BY <1>1
  <2> HIDE DEF Q2, U
  <2> QED BY ONLY <2>1, <2>2, Kept
<1>14. ASSUME NEW y \in InUse' PROVE Given1(y)'
  <2>1. y \in InUse /\ y # p  BY <1>9
  <2>2. y - Hdr \in U \ {a} /\ y \in Ptr
    <3>1. y - Hdr # a  BY <1>5, <2>1, NotNull
    <3> QED BY <1>5, <2>1, <3>1
  <2>3. y - Hdr \in Addr  BY <1>4, <2>2 DEF Layout
  <2>4. mcb'[y - Hdr].blk_size = mcb[y - Hdr].blk_size  BY <1>1, <1>11, <2>2, <2>3
  <2>5. live'[y] = live[y]  BY <1>7, <1>8, <2>1, <2>2
  <2> QED BY <1>4, <2>1, <2>4, <2>5 DEF Given1
<1>15. /\ Q \ {a} \subseteq InUseAt'
       /\ "hidden" \notin harm' => InUseAt' \subseteq Q \ {a}
       /\ "leaked" \notin harm' => Covered(F2 \cup InUseAt', mcb')
  BY <1>1, <1>4, <1>10, <1>12
<1>16. /\ Ordered(F2, free_head', mcb') /\ F2 \cap InUseAt' = {} /\ NoTwoTouch(F2, mcb')
       /\ Layout(F2 \cup InUseAt', mcb')
  BY <1>10, <1>12
<1> HIDE DEF Q2
<1>17. Sound(F2, Q2)'
  BY <1>13, <1>14, <1>15, <1>16 DEF Sound, Q2
<1> QED BY <1>6, <1>8, <1>9, <1>17

-----------------------------------------------------------------------------
(* The inductive invariant. *)
IInv == Typed /\ (Intact => \E F, Q : Sound(F, Q))

LEMMA InitSound == Init => IInv
<1> SUFFICES ASSUME Init PROVE \E F, Q : Sound(F, Q)
  BY InitTyped DEF IInv
<1>1. Typed  BY InitTyped
<1> DEFINE b == [Empty EXCEPT !.blk_size = HeapSize - Hdr]
<1>2. free_head = 0 /\ alloc_head = NULL /\ live = [p \in Ptr |-> <<>>] /\ harm = {}
      /\ mcb = [a \in Addr |-> IF a = 0 THEN b ELSE Empty]
  BY DEF Init
<1>3. b.p_next = NULL /\ b.blk_size = HeapSize - Hdr  BY DEF Empty
<1> HIDE DEF b
<1>4. 0 \in Addr /\ mcb[0].p_next = NULL /\ mcb[0].blk_size = HeapSize - Hdr
  BY <1>2, <1>3, NotNull
<1>5. InUse = {} /\ InUseAt = {}
  <2>1. InUse = {}  BY <1>2 DEF InUse
  <2> QED BY <2>1 DEF InUseAt
<1>6. E(mcb, 0) = HeapSize
  <2>1. 0 + Hdr + (HeapSize - Hdr) = HeapSize  BY NotNull
  <2> QED BY <1>4, <2>1 DEF E
<1>7. HeapSize \in Nat /\ Hdr <= HeapSize /\ HeapSize \notin Addr /\ HeapSize # 0
  BY HeapAssumption DEF Addr
<1>8. Ordered({0}, free_head, mcb)
  <2>1. After({0}, 0, mcb[0].p_next)  BY <1>4 DEF After
  <2>2. First({0}, free_head)  BY <1>2 DEF First
  <2> QED BY <1>2, <1>4, <2>1, <2>2 DEF Ordered
<1>9. Ordered({}, alloc_head, mcb)  BY <1>2 DEF Ordered, First
<1>10. Layout({0}, mcb) /\ Covered({0}, mcb) /\ NoTwoTouch({0}, mcb)
  <2>1. 0 + Hdr <= HeapSize  BY <1>7, NotNull
  <2> QED BY <1>4, <1>6, <1>7, <2>1 DEF Layout, Covered, NoTwoTouch
<1>11. {0} \cup InUseAt = {0} /\ {0} \cap InUseAt = {}  BY <1>5
<1>12. Sound({0}, {})  BY <1>5, <1>8, <1>9, <1>10, <1>11 DEF Sound
<1> QED BY <1>12

LEMMA UnchangedSound ==
  ASSUME NEW F, NEW Q, Sound(F, Q), Unchanged
  PROVE  Sound(F, Q)'
BY DEF Sound, Unchanged, InUseAt, InUse, Given1, Ordered, NoTwoTouch, Layout, Covered, E

(* What a step does while the heap is intact, and stays so. *)
LEMMA SoundAllocate ==
  ASSUME Typed, NEW F, NEW Q, Sound(F, Q), NEW size \in Sizes, Allocate(size), Intact'
  PROVE  /\ \E F2, Q2 : Sound(F2, Q2)'
         /\ \/ Unchanged
            \/ \E a \in F : /\ a + Hdr \in Ptr \ InUse /\ InUse' = InUse \cup {a + Hdr}
                            /\ live' = [live EXCEPT ![a + Hdr] = <<size>>]
<1>1. CASE Unchanged  BY <1>1, UnchangedSound
<1>2. ASSUME NEW a \in Blocks(free_head) \cap Real(mcb),
             Fits(mcb[a], size), ~(FullSize(size) < size), Take(a, size)
      PROVE  /\ \E F2, Q2 : Sound(F2, Q2)'
             /\ \E b \in F : /\ b + Hdr \in Ptr \ InUse /\ InUse' = InUse \cup {b + Hdr}
                             /\ live' = [live EXCEPT ![b + Hdr] = <<size>>]
  <2>1. Blocks(free_head) = F  BY OrderedSet DEF Sound, Blocks
  <2>2. a \in F  BY <2>1
  <2>3. /\ \E F2, Q2 : Sound(F2, Q2)'
        /\ a + Hdr \in Ptr \ InUse /\ InUse' = InUse \cup {a + Hdr}
        /\ live' = [live EXCEPT ![a + Hdr] = <<size>>]
    BY <1>2, <2>2, TakeSound
  <2> QED BY <2>2, <2>3
<1> QED BY <1>1, <1>2, AllocateIs

LEMMA SoundFree ==
  ASSUME Typed, NEW F, NEW Q, Sound(F, Q), NEW p \in Hdr..(HeapSize - 1), Free(p), Intact'
  PROVE  /\ \E F2, Q2 : Sound(F2, Q2)'
         /\ \/ Unchanged
            \/ p \in InUse /\ InUse' = InUse \ {p} /\ live' = [live EXCEPT ![p] = <<>>]
<1> DEFINE a == p - Hdr
<1>1. CASE Unchanged  BY <1>1, UnchangedSound
<1>2. CASE /\ Listed(a) /\ mcb' = Insert(a)
           /\ free_head' = IF free_head = NULL \/ a < free_head THEN a ELSE free_head
           /\ alloc_head' = IF a = alloc_head THEN mcb[a].p_next ELSE alloc_head
           /\ live' = [live EXCEPT ![p] = SubSeq(@, 2, Len(@))]
           /\ harm' = harm \cup FreeHarm(a) /\ outcome' = "ok"
  <2>1. p \in Ptr  BY NotNull DEF Ptr
  <2>2. a = p - Hdr  OBVIOUS
  <2> HIDE DEF a
  <2>3. a \in Q  BY <1>2, OrderedSet DEF Sound, Listed
  <2> QED BY <1>2, <2>1, <2>2, <2>3, FreeSound
<1> QED BY <1>1, <1>2, FreeIs

LEMMA HarmGrows ==
  ASSUME Typed, Next
  PROVE  harm \subseteq harm' /\ outcome # "wild"
<1>1. outcome # "wild"  BY DEF Next
<1>2. ASSUME NEW size \in Sizes, Allocate(size) PROVE harm \subseteq harm'
  <2>1. CASE Unchanged  BY <2>1 DEF Unchanged
  <2>2. ASSUME NEW a, Take(a, size) PROVE harm \subseteq harm'
    BY <2>2, TakeIs
  <2> QED BY <1>2, <2>1, <2>2, AllocateIs
<1>3. ASSUME NEW p \in Hdr..(HeapSize - 1), Free(p) PROVE harm \subseteq harm'
  <2>1. CASE Unchanged  BY <2>1 DEF Unchanged
  <2>2. CASE harm' = harm \cup FreeHarm(p - Hdr)  BY <2>2
  <2> QED BY <1>3, <2>1, <2>2, FreeIs
<1> QED BY <1>1, <1>2, <1>3 DEF Next

LEMMA WasIntact ==
  ASSUME Typed, [Next]_vars, Intact'
  PROVE  Intact
<1>1. CASE UNCHANGED vars  BY <1>1 DEF vars, Intact
<1>2. CASE Next  BY <1>2, HarmGrows DEF Intact
<1> QED BY <1>1, <1>2

LEMMA SoundStep ==
  ASSUME IInv, [Next]_vars
  PROVE  IInv'
<1>1. Typed'  BY TypedStep DEF IInv
<1> SUFFICES ASSUME Intact' PROVE \E F, Q : Sound(F, Q)'
  BY <1>1 DEF IInv
<1>2. Typed /\ Intact  BY WasIntact DEF IInv
<1>3. PICK F, Q : Sound(F, Q)  BY <1>2 DEF IInv
<1>4. CASE UNCHANGED vars
  <2>1. Unchanged  BY <1>4 DEF vars, Unchanged
  <2> QED BY <1>3, <2>1, UnchangedSound
<1>5. ASSUME NEW size \in Sizes, Allocate(size) PROVE \E F2, Q2 : Sound(F2, Q2)'
  BY <1>2, <1>3, <1>5, SoundAllocate
<1>6. ASSUME NEW p \in Hdr..(HeapSize - 1), Free(p) PROVE \E F2, Q2 : Sound(F2, Q2)'
  BY <1>2, <1>3, <1>6, SoundFree
<1> QED BY <1>4, <1>5, <1>6 DEF Next

LEMMA SoundIs ==
  ASSUME Typed, NEW F, NEW Q, Sound(F, Q)
  PROVE  HeapSound
<1>1. /\ Ordered(F, free_head, mcb) /\ Ordered(Q, alloc_head, mcb)
      /\ Q \subseteq InUseAt /\ ("hidden" \notin harm => InUseAt \subseteq Q)
      /\ \A p \in InUse : Given1(p)
      /\ F \cap InUseAt = {} /\ NoTwoTouch(F, mcb) /\ Layout(F \cup InUseAt, mcb)
      /\ "leaked" \notin harm => Covered(F \cup InUseAt, mcb)
  BY DEF Sound
<1>2. Blocks(free_head) = F /\ Blocks(alloc_head) = Q  BY <1>1, OrderedSet DEF Blocks
<1>3. Linked(free_head) /\ Linked(alloc_head)  BY <1>1, OrderedLinked
<1>4. \A a : End(a) = E(mcb, a)  BY DEF End, E
<1>5. \A p \in InUse : /\ Len(live[p]) = 1
                       /\ mcb[p - Hdr].blk_size - live[p][1] \in 0..Hdr
  BY <1>1 DEF Given1
<1>6. \A a \in F : End(a) \notin F  BY <1>1, <1>4 DEF NoTwoTouch
<1>7. \A a \in F \cup InUseAt : End(a) <= HeapSize
                                  /\ \A b \in F \cup InUseAt : a < b => End(a) <= b
  BY <1>1, <1>4 DEF Layout
<1>8. "leaked" \notin harm =>
         0 \in F \cup InUseAt
           /\ \A a \in F \cup InUseAt : End(a) \in (F \cup InUseAt) \cup {HeapSize}
  BY <1>1, <1>4 DEF Covered
<1> QED BY <1>1, <1>2, <1>3, <1>5, <1>6, <1>7, <1>8 DEF HeapSound

(* However the blocks are given back, the heap is sound until the lists are  *)
(* damaged: linked both ways in the order of addresses, no two blocks        *)
(* overlapping or reaching out of it, no two free ones left unmerged.        *)
THEOREM HeapStaysSound == Spec => []HeapSound
<1>1. IInv => HeapSound
  <2>1. ~Intact => HeapSound  BY DEF HeapSound
  <2>2. IInv /\ Intact => HeapSound  BY SoundIs DEF IInv
  <2> QED BY <2>1, <2>2
<1> QED BY InitSound, SoundStep, <1>1, PTL DEF Spec

-----------------------------------------------------------------------------
(* What a call to give a block back comes to while the heap is intact. *)
LEMMA FreeTells ==
  ASSUME Typed, NEW F, NEW Q, Sound(F, Q), NEW p \in Hdr..(HeapSize - 1), Free(p)
  PROVE  \/ outcome' = "ok" /\ p \in InUse
         \/ outcome' = "refused" /\ p \notin InUse
         \/ outcome' = "refused" /\ "hidden" \in harm
<1> DEFINE a == p - Hdr
           q == ListFrom(mcb, alloc_head)
<1>1. /\ Ordered(Q, alloc_head, mcb) /\ Q \subseteq InUseAt
      /\ "hidden" \notin harm => InUseAt \subseteq Q
  BY DEF Sound
<1>2. Listed(a) <=> a \in Q
  <2>1. ToSet(q) = Q  BY <1>1, OrderedSet
  <2> QED BY <2>1 DEF Listed
<1>3. p \in InUse <=> a \in InUseAt
  <2>1. p \in Int /\ \A y \in InUse : y \in Int  BY NotNull DEF Ptr, InUse
  <2>2. \A y \in InUse : a = y - Hdr => y = p  BY <2>1, NotNull
  <2> QED BY <2>2 DEF InUseAt
<1>4. ~Endless(q)
  <2>1. Len(q) \in Nat /\ Len(q) <= HeapSize  BY <1>1, OrderedList
  <2> HIDE DEF q
  <2> QED BY <2>1, NotNull DEF Endless
<1>5. a \in Q => ~Stuck(ListFrom(Unlinked(a), free_head), a)  BY UnlinkedSound
<1>6. a \in Q /\ a # alloc_head => mcb[a].p_prev # NULL
  <2> SUFFICES ASSUME a \in Q, mcb[a].p_prev = NULL PROVE a = alloc_head
    OBVIOUS
  <2>1. Q \in SUBSET Addr /\ First(Q, alloc_head)  BY <1>1 DEF Ordered
  <2>2. NULL \notin Q  BY <2>1, NotNull
  <2>3. CASE a # alloc_head
    <3>1. \A b \in Q : a <= b  BY <1>1, <2>2, <2>3 DEF Ordered, Before
    <3>2. alloc_head \in Q /\ \A b \in Q : alloc_head <= b  BY <2>1 DEF First
    <3>3. a \in Int /\ alloc_head \in Int
      <4>1. a \in Addr /\ alloc_head \in Addr  BY <2>1, <3>2
      <4> HIDE DEF a
      <4> QED BY <4>1 DEF Addr
    <3>4. a <= alloc_head /\ alloc_head <= a  BY <3>1, <3>2
    <3> HIDE DEF a
    <3> QED BY ONLY <3>3, <3>4
  <2> QED BY <2>3
<1>7. \/ /\ outcome' = "hung"
         /\ \/ Endless(q)
            \/ Listed(a) /\ Stuck(ListFrom(Unlinked(a), free_head), a)
      \/ outcome' = "refused" /\ ~Listed(a)
      \/ Listed(a) /\ a # alloc_head /\ mcb[a].p_prev = NULL
      \/ Listed(a) /\ outcome' = "ok"
  BY FreeIs
<1> HIDE DEF a, q
<1>8. CASE Listed(a) /\ outcome' = "ok"
  BY <1>1, <1>2, <1>3, <1>8
<1>9. CASE outcome' = "refused" /\ ~Listed(a)
  BY <1>1, <1>2, <1>3, <1>9
<1> QED BY <1>2, <1>4, <1>5, <1>6, <1>7, <1>8, <1>9

(* As long as the heap is intact, whatever address is given back, in any     *)
(* order: a block in use is taken back unless it was hidden from the list,   *)
(* anything else is refused, and no call faults or hangs.                    *)
THEOREM FreeTellsRight == Spec => FreeAnswers
<1>1. ASSUME IInv, [Next]_vars, Intact, NEW p \in Hdr..(HeapSize - 1), Free(p)
      PROVE  \/ outcome' = "ok" /\ p \in InUse
             \/ outcome' = "refused" /\ p \notin InUse
             \/ outcome' = "refused" /\ "hidden" \in harm
  <2>1. PICK F, Q : Sound(F, Q)  BY <1>1 DEF IInv
  <2> QED BY <1>1, <2>1, FreeTells DEF IInv
<1>2. IInv /\ [Next]_vars
      => [Intact =>
           \A p \in Hdr..(HeapSize - 1) :
             ~(outcome' = "ok" /\ p \in InUse) /\ ~(outcome' = "refused" /\ p \notin InUse)
               /\ ~(outcome' = "refused" /\ "hidden" \in harm) => ~Free(p)]_vars
  BY <1>1
<1> QED BY InitSound, SoundStep, <1>2, PTL DEF Spec, FreeAnswers

-----------------------------------------------------------------------------
(* A covered heap has the address x in one of its blocks. *)
LEMMA CoveredAt ==
  ASSUME NEW B, NEW m, Layout(B, m), Covered(B, m), NEW x \in Addr
  PROVE  \E b \in B : b <= x /\ x < E(m, b)
<1> DEFINE T == {x - b : b \in {c \in B : c <= x}}
<1>1. x \in Nat /\ x < HeapSize /\ HeapSize \in Nat /\ B \in SUBSET Nat
  BY NotNull DEF Addr, Layout
<1>2. T \in SUBSET Nat  BY <1>1
<1>3. T # {}
  <2>1. 0 \in {c \in B : c <= x}  BY <1>1 DEF Covered
  <2> QED BY <2>1
<1>4. Min(T) \in T /\ \A t \in T : Min(T) <= t
  <2> HIDE DEF T
  <2> QED BY <1>2, <1>3, MinIsLeast
<1>5. PICK b \in B : b <= x /\ Min(T) = x - b  BY <1>4
<1>6. \A c \in B : c <= x => x - b <= x - c  BY <1>4, <1>5
<1> HIDE DEF T
<1>7. \A c \in B : c <= x => c <= b  BY <1>1, <1>5, <1>6
<1> DEFINE e == E(m, b)
<1>8. e \in Nat /\ b + Hdr <= e /\ e \in B \cup {HeapSize}  BY DEF Layout, Covered
<1> HIDE DEF e
<1>9. b < e  BY <1>1, <1>8, NotNull
<1>10. x < e
  <2>1. CASE e = HeapSize  BY <1>1, <2>1
  <2>2. CASE e \in B
    <3>1. b \in Nat /\ (e <= x => e <= b)  BY <1>1, <1>7, <2>2
    <3> QED BY <1>1, <1>8, <1>9, <3>1
  <2> QED BY <1>8, <2>1, <2>2
<1> QED BY <1>5, <1>10 DEF e

(* Where there is a place, a free block is large enough for it. *)
LEMMA VacantFits ==
  ASSUME Typed, NEW F, NEW Q, Sound(F, Q), "leaked" \notin harm,
         NEW p \in Hdr..HeapSize, NEW size \in Sizes, Vacant(p, size)
  PROVE  \E b \in F : Fits(mcb[b], size)
<1> DEFINE x == p - Hdr
           y == p + size - 1
           U == InUseAt
<1>1. /\ NoTwoTouch(F, mcb) /\ Layout(F \cup U, mcb) /\ Covered(F \cup U, mcb)
  BY DEF Sound
<1>2. /\ x \in Nat /\ y \in Nat /\ x + Hdr + size = y + 1 /\ x <= y /\ size \in Nat
      /\ Hdr \in Nat /\ 0 < Hdr /\ HeapSize \in Nat
  BY HeapAssumption
<1>3. x..y \subseteq 0..(HeapSize - 1) /\ \A c \in U : x..y \cap c..(E(mcb, c) - 1) = {}
  BY DEF Vacant, Given, End, E
<1> HIDE DEF x, y, U
<1>4. x \in x..y /\ y \in x..y  BY <1>2
<1>5. x \in Addr /\ y < HeapSize
  <2>1. x \in 0..(HeapSize - 1) /\ y \in 0..(HeapSize - 1)  BY <1>3, <1>4
  <2> QED BY <1>2, <2>1 DEF Addr
<1>6. PICK b \in F \cup U : b <= x /\ x < E(mcb, b)  BY <1>1, <1>5, CoveredAt
<1> DEFINE e == E(mcb, b)
<1>7. b \in Nat /\ e \in Nat /\ e \in F \cup U \cup {HeapSize}
  BY <1>1, NotNull DEF Layout, Covered
<1>8. b \in F
  <2> SUFFICES ASSUME b \in U PROVE FALSE
    BY <1>6
  <2>1. x..y \cap b..(e - 1) = {}  BY <1>3
  <2>2. x < e /\ b <= x  BY <1>6
  <2> HIDE DEF e
  <2>3. x \in b..(e - 1)  BY <1>2, <1>7, <2>2
  <2> QED BY <1>4, <2>1, <2>3
<1>9. x < e  BY <1>6
<1>10. y < e
  <2>1. CASE e = HeapSize  BY <1>5, <2>1
  <2>2. CASE e \in F \cup U
    <3>1. e \in U  BY <1>1, <1>8, <2>2 DEF NoTwoTouch
    <3> DEFINE f == E(mcb, e)
    <3>2. f \in Nat /\ e + Hdr <= f  BY <1>1, <2>2 DEF Layout
    <3>3. x..y \cap e..(f - 1) = {}  BY <1>3, <3>1
    <3> HIDE DEF e, f
    <3>4. e \in e..(f - 1)  BY <1>2, <1>7, <3>2
    <3>5. e \notin x..y  BY <3>3, <3>4
    <3> QED BY <1>2, <1>7, <1>9, <3>5
  <2> QED BY <1>7, <2>1, <2>2
<1>11. mcb[b].blk_size \in Nat
  <2>1. b \in Addr /\ mcb \in [Addr -> Mcb]  BY <1>1, <1>8 DEF Layout, Typed, Linking
  <2> QED BY <2>1, McbFields
<1> DEFINE n == mcb[b].blk_size
<1>12. e = b + Hdr + n  BY DEF E
<1>13. b <= x /\ n \in Nat  BY <1>6, <1>11
<1> HIDE DEF e, n
<1>14. size <= n  BY <1>2, <1>7, <1>10, <1>12, <1>13
<1> QED BY <1>8, <1>11, <1>14, FitsIs DEF n

LEMMA RefusedWhenFull ==
  ASSUME Typed, NEW F, NEW Q, Sound(F, Q), "leaked" \notin harm,
         NEW size \in Sizes, outcome' = "refused", Allocate(size), NEW p \in Hdr..HeapSize
  PROVE  ~Vacant(p, size)
<1>1. \A b \in Blocks(free_head) : ~Fits(mcb[b], size)
  <2>1. ASSUME NEW a \in Real(mcb), Take(a, size) PROVE FALSE
    <3>1. outcome' = "ok"  BY <2>1 DEF Take, Return
    <3> QED BY <3>1
  <2> QED BY <2>1, AllocateIs
<1>2. Blocks(free_head) = F  BY OrderedSet DEF Sound, Blocks
<1> QED BY <1>1, <1>2, VacantFits

(* As long as the heap is intact and no block was lost, memory is refused    *)
(* only when there is no place for it: first fit searches all there is, and  *)
(* neighbours that are free have been merged.                                *)
THEOREM OnlyFullRefuses == Spec => RefusedOnlyWhenFull
<1>1. ASSUME IInv, Intact, "leaked" \notin harm, NEW size \in Sizes, outcome' = "refused",
             Allocate(size), NEW p \in Hdr..HeapSize
      PROVE  ~Vacant(p, size)
  <2>1. PICK F, Q : Sound(F, Q)  BY <1>1 DEF IInv
  <2> QED BY <1>1, <2>1, RefusedWhenFull DEF IInv
<1>2. IInv /\ [Next]_vars
      => [Intact /\ "leaked" \notin harm =>
           \A size \in Sizes : outcome' = "refused" /\ Allocate(size) =>
             \A p \in Hdr..HeapSize : ~Vacant(p, size)]_vars
  BY <1>1
<1> QED BY InitSound, SoundStep, <1>2, PTL DEF Spec, RefusedOnlyWhenFull

-----------------------------------------------------------------------------
(* The blocks in use lie apart from each other, inside the heap. *)
UnitsOf(p, n) == (p - Hdr)..(p + n - 1)
Got(p)        == live[p][1]
HandedApart   ==
  \A p \in InUse :
    /\ p \in Hdr..HeapSize /\ Got(p) \in 0..HeapSize
    /\ UnitsOf(p, Got(p)) \subseteq 0..(HeapSize - 1)
    /\ \A q \in InUse : q # p => UnitsOf(p, Got(p)) \cap UnitsOf(q, Got(q)) = {}

LEMMA SoundInUse ==
  ASSUME Typed, NEW F, NEW Q, Sound(F, Q), NEW p \in InUse
  PROVE  LET a == p - Hdr
             e == E(mcb, a)
         IN  /\ p \in Hdr..HeapSize /\ a \in F \cup InUseAt /\ a \in Nat /\ e \in Nat
             /\ Got(p) \in Nat /\ p + Got(p) <= e /\ e <= HeapSize
             /\ \A b \in F \cup InUseAt : a < b => e <= b
<1> DEFINE a == p - Hdr
           e == E(mcb, a)
           n == mcb[a].blk_size
           s == Got(p)
<1>1. p \in Hdr..HeapSize /\ a \in F \cup InUseAt  BY DEF InUse, InUseAt, Ptr
<1>2. /\ Layout(F \cup InUseAt, mcb) /\ Given1(p)  BY DEF Sound
<1>3. a \in Addr /\ e \in Nat /\ e <= HeapSize /\ \A b \in F \cup InUseAt : a < b => e <= b
  BY <1>1, <1>2 DEF Layout
<1>4. a \in Nat /\ n \in Nat
  <2>1. mcb \in [Addr -> Mcb]  BY DEF Typed, Linking
  <2> HIDE DEF a
  <2> QED BY <1>3, <2>1, McbFields, NotNull
<1>5. s \in Nat /\ s <= n
  <2>1. live[p] \in Seq(Sizes) /\ Len(live[p]) = 1
    <3>1. live \in [Ptr -> Seq(Sizes)] /\ p \in Ptr  BY DEF Typed, HeapTypeOK, InUse
    <3> QED BY <1>2, <3>1 DEF Given1
  <2>2. live[p][1] \in Sizes  BY <2>1, ElementOfSeq
  <2>3. s \in Nat  BY <2>2, FullIs DEF Got
  <2>4. n - s \in 0..Hdr  BY <1>2 DEF Given1, Got
  <2> HIDE DEF n, s
  <2> QED BY <1>4, <2>3, <2>4, NotNull
<1>6. e = a + Hdr + n /\ a + Hdr = p  BY <1>1, NotNull DEF E
<1> HIDE DEF n, s, e
<1>7. p + s <= e
  <2> HIDE DEF a
  <2> QED BY <1>4, <1>5, <1>6, NotNull
<1> QED BY <1>1, <1>3, <1>4, <1>5, <1>7 DEF e, s

LEMMA SoundApart == IInv /\ Intact => HandedApart
<1> SUFFICES ASSUME IInv, Intact, NEW p \in InUse
             PROVE  /\ p \in Hdr..HeapSize /\ Got(p) \in 0..HeapSize
                    /\ UnitsOf(p, Got(p)) \subseteq 0..(HeapSize - 1)
                    /\ \A q \in InUse : q # p => UnitsOf(p, Got(p)) \cap UnitsOf(q, Got(q)) = {}
  BY DEF HandedApart
<1>1. Typed  BY DEF IInv
<1>2. PICK F, Q : Sound(F, Q)  BY DEF IInv
<1> DEFINE B == F \cup InUseAt
           Apart(q) == /\ q \in Hdr..HeapSize /\ q - Hdr \in B /\ E(mcb, q - Hdr) \in Nat
                       /\ Got(q) \in Nat /\ q + Got(q) <= E(mcb, q - Hdr)
                       /\ E(mcb, q - Hdr) <= HeapSize
                       /\ \A b \in B : q - Hdr < b => E(mcb, q - Hdr) <= b
<1>3. \A q \in InUse : Apart(q)  BY <1>1, <1>2, SoundInUse
<1> HIDE DEF B
<1>4. ASSUME NEW q, Apart(q), NEW r, Apart(r), q < r
      PROVE  UnitsOf(q, Got(q)) \cap UnitsOf(r, Got(r)) = {}
  <2> DEFINE k == Got(q)
             n == Got(r)
  <2>1. q \in Nat /\ r \in Nat /\ k \in Nat /\ n \in Nat /\ Hdr \in Nat  BY <1>4, NotNull
  <2>2. E(mcb, q - Hdr) <= r - Hdr
    <3>1. q - Hdr < r - Hdr  BY <1>4, <2>1
    <3> QED BY <1>4, <3>1
  <2> DEFINE e == E(mcb, q - Hdr)
  <2>3. e \in Nat /\ q + k <= e /\ e <= r - Hdr  BY <1>4, <2>2
  <2> HIDE DEF e, k, n
  <2>4. (q - Hdr)..(q + k - 1) \cap (r - Hdr)..(r + n - 1) = {}  BY <2>1, <2>3
  <2> QED BY <2>4 DEF UnitsOf, k, n
<1>5. Apart(p)  BY <1>3
<1>6. Got(p) \in 0..HeapSize /\ UnitsOf(p, Got(p)) \subseteq 0..(HeapSize - 1)
  <2> DEFINE s == Got(p)
             e == E(mcb, p - Hdr)
  <2>1. p \in Hdr..HeapSize /\ s \in Nat /\ e \in Nat /\ p + s <= e /\ e <= HeapSize  BY <1>5
  <2> HIDE DEF s, e
  <2>2. s \in 0..HeapSize /\ (p - Hdr)..(p + s - 1) \subseteq 0..(HeapSize - 1)
    BY <2>1, NotNull
  <2> QED BY <2>2 DEF UnitsOf, s
<1>7. ASSUME NEW q \in InUse, q # p
      PROVE  UnitsOf(p, Got(p)) \cap UnitsOf(q, Got(q)) = {}
  <2>1. Apart(q)  BY <1>3
  <2>2. p < q \/ q < p  BY <1>5, <1>7, <2>1, NotNull
  <2>3. UnitsOf(q, Got(q)) \cap UnitsOf(p, Got(p)) = UnitsOf(p, Got(p)) \cap UnitsOf(q, Got(q))
    OBVIOUS
  <2> HIDE DEF Apart
  <2> QED BY <1>4, <1>5, <2>1, <2>2, <2>3
<1> QED BY <1>5, <1>6, <1>7

-----------------------------------------------------------------------------
(* A step while the heap is intact, as the step of an Allocator. *)
Block(p, n) == [ptr |-> p, size |-> n]

LEMMA HandedIs == Handed = {Block(p, Got(p)) : p \in InUse}
BY DEF Handed, Block, Got

LEMMA GotIs ==
  ASSUME Typed, NEW p \in Ptr, NEW s, live' = [live EXCEPT ![p] = s]
  PROVE  /\ Got(p)' = s[1] /\ \A q \in Ptr : q # p => Got(q)' = Got(q)
<1>1. live \in [Ptr -> Seq(Sizes)]  BY DEF Typed, HeapTypeOK
<1>2. live'[p] = s /\ \A q \in Ptr : q # p => live'[q] = live[q]  BY <1>1
<1> QED BY <1>2 DEF Got

LEMMA GivesBlock ==
  ASSUME Typed, NEW p \in Ptr \ InUse, InUse' = InUse \cup {p}, NEW size,
         live' = [live EXCEPT ![p] = <<size>>], HandedApart'
  PROVE  Abstract!Allocate
<1> DEFINE b == Block(p, size)
<1>1. Got(p)' = size /\ \A q \in InUse : Got(q)' = Got(q)
  <2>1. Got(p)' = <<size>>[1] /\ \A q \in Ptr : q # p => Got(q)' = Got(q)  BY GotIs
  <2> QED BY <2>1 DEF InUse
<1>2. Handed' = Handed \cup {b}
  <2>1. Handed' = {Block(q, Got(q)') : q \in InUse'}  BY DEF Handed, Block, Got
  <2> QED BY <1>1, <2>1, HandedIs
<1>3. /\ p \in Hdr..HeapSize /\ size \in 0..HeapSize
      /\ UnitsOf(p, size) \subseteq 0..(HeapSize - 1)
      /\ \A q \in InUse : UnitsOf(p, size) \cap UnitsOf(q, Got(q)) = {}
  <2>1. \A x \in InUse' :
           /\ x \in Hdr..HeapSize /\ Got(x)' \in 0..HeapSize
           /\ UnitsOf(x, Got(x)') \subseteq 0..(HeapSize - 1)
           /\ \A q \in InUse' : q # x => UnitsOf(x, Got(x)') \cap UnitsOf(q, Got(q)') = {}
    BY DEF HandedApart, UnitsOf, Got
  <2>2. p \in InUse' /\ \A q \in InUse : q \in InUse' /\ q # p  OBVIOUS
  <2> QED BY <1>1, <2>1, <2>2
<1>4. \A q, n : Abstract!Units(Block(q, n)) = UnitsOf(q, n)
  BY DEF Abstract!Units, UnitsOf, Block
<1>5. Abstract!Room(b)
  <2>1. \A c \in Handed : \E q \in InUse : c = Block(q, Got(q))  BY HandedIs
  <2> QED BY <1>3, <1>4, <2>1 DEF Abstract!Room
<1> QED BY <1>2, <1>3, <1>5 DEF Abstract!Allocate, Block

LEMMA TakesBlock ==
  ASSUME Typed, NEW p \in InUse, InUse' = InUse \ {p}, live' = [live EXCEPT ![p] = <<>>]
  PROVE  Abstract!Free
<1> DEFINE b == Block(p, Got(p))
<1>1. b \in Handed  BY HandedIs
<1>2. \A q \in InUse' : Got(q)' = Got(q)
  <2>1. p \in Ptr  BY DEF InUse
  <2>2. \A q \in Ptr : q # p => Got(q)' = Got(q)  BY <2>1, GotIs
  <2> QED BY <2>2 DEF InUse
<1>3. Handed' = {Block(q, Got(q)) : q \in InUse'}
  <2>1. Handed' = {Block(q, Got(q)') : q \in InUse'}  BY DEF Handed, Block, Got
  <2> QED BY <1>2, <2>1
<1>4. \A q : q # p => Block(q, Got(q)) # b
  <2>1. \A q : Block(q, Got(q)).ptr = q  BY DEF Block
  <2> QED BY <2>1
<1>5. Handed' = Handed \ {b}
  <2> HIDE DEF b
  <2>1. b = Block(p, Got(p))  BY DEF b
  <2> QED BY <1>3, <1>4, <2>1, HandedIs
<1> QED BY <1>1, <1>5 DEF Abstract!Free

LEMMA AllocatorStep ==
  ASSUME IInv, [Next]_vars, IInv', Intact' => HandedApart'
  PROVE  [Abstract!Next]_(Abstract!avars)
<1>1. CASE ~Intact'
  <2>1. Intact' = FALSE  BY <1>1
  <2> QED BY <2>1 DEF Abstract!Next, Abstract!Break
<1>2. CASE Intact'
  <2>1. Typed /\ Intact /\ HandedApart'  BY <1>2, WasIntact DEF IInv
  <2>2. PICK F, Q : Sound(F, Q)  BY <2>1 DEF IInv
  <2>3. Intact' = Intact
    <3>1. Intact \in BOOLEAN /\ Intact' \in BOOLEAN  BY DEF Intact
    <3> QED BY <1>2, <2>1, <3>1
  <2>4. ASSUME UNCHANGED live PROVE UNCHANGED Abstract!avars
    <3>1. Handed' = Handed  BY <2>4 DEF Handed, InUse
    <3> QED BY <2>3, <3>1 DEF Abstract!avars
  <2>5. ASSUME Abstract!Allocate \/ Abstract!Free PROVE Abstract!Next
    BY <2>1, <2>3, <2>5 DEF Abstract!Next
  <2>6. ASSUME NEW size \in Sizes, Allocate(size)
        PROVE  UNCHANGED live \/ Abstract!Allocate
    <3>1. CASE Unchanged  BY <3>1 DEF Unchanged
    <3>2. CASE \E a \in F : /\ a + Hdr \in Ptr \ InUse /\ InUse' = InUse \cup {a + Hdr}
                            /\ live' = [live EXCEPT ![a + Hdr] = <<size>>]
      BY <2>1, <3>2, GivesBlock
    <3> QED BY <1>2, <2>1, <2>2, <2>6, <3>1, <3>2, SoundAllocate
  <2>7. ASSUME NEW p \in Hdr..(HeapSize - 1), Free(p)
        PROVE  UNCHANGED live \/ Abstract!Free
    <3>1. CASE Unchanged  BY <3>1 DEF Unchanged
    <3>2. CASE p \in InUse /\ InUse' = InUse \ {p} /\ live' = [live EXCEPT ![p] = <<>>]
      BY <2>1, <3>2, TakesBlock
    <3> QED BY <1>2, <2>1, <2>2, <2>7, <3>1, <3>2, SoundFree
  <2>8. UNCHANGED vars => UNCHANGED live  BY DEF vars
  <2> QED BY <2>4, <2>5, <2>6, <2>7, <2>8 DEF Next
<1> QED BY <1>1, <1>2

(* However the blocks are given back, the heap is an Allocator until its     *)
(* lists are damaged: what is handed out lies in the heap with its control   *)
(* block, apart from all that is in use, and stays so until it is given back.*)
THEOREM HeapIsAllocator == Spec => ImplementsAllocator
<1>1. Init => Abstract!Init
  <2> SUFFICES ASSUME Init PROVE Handed = {} /\ Intact = TRUE
    BY DEF Abstract!Init
  <2>1. InUse = {}  BY DEF Init, InUse
  <2>2. Handed = {}  BY <2>1 DEF Handed
  <2>3. Intact  BY DEF Init, Intact
  <2> QED BY <2>2, <2>3 DEF Intact
<1>2. IInv /\ Intact => HandedApart  BY SoundApart
<1>3. IInv /\ [Next]_vars /\ IInv' /\ (Intact' => HandedApart') => [Abstract!Next]_(Abstract!avars)
  BY AllocatorStep
<1> QED BY InitSound, SoundStep, <1>1, <1>2, <1>3, PTL DEF Spec, ImplementsAllocator, Abstract!Spec
=============================================================================
