-------------------------------- MODULE Heap --------------------------------
(* The heap manager of kernel/memory.c: memory control blocks (struct mcb)   *)
(* on two doubly linked lists, the free and the allocated ones, in the order *)
(* of their addresses.  An address counts units from the start of the heap;  *)
(* mcb[a] is what the memory at a holds when it is read as an mcb, and stays *)
(* there when the block is gone.                                             *)
EXTENDS Integers, Sequences, SequencesExt, FiniteSets

CONSTANTS
  HeapSize,   \* units of the heap
  Hdr,        \* sizeof(struct mcb)
  Width,      \* size_t counts modulo Width
  Sizes,      \* the sizes asked for
  MaxLive     \* bound: blocks in use at a time

ASSUME HeapAssumption ==
  /\ HeapSize \in Nat /\ Hdr \in Nat \ {0} /\ Hdr < HeapSize
  /\ Width \in Nat /\ HeapSize < Width /\ Sizes \subseteq 0..(Width - 1)
  /\ MaxLive \in Nat

NULL == -1
Addr == 0..(HeapSize - 1)
Ptr  == Hdr..HeapSize
Mcb  == [p_prev : Addr \cup {NULL}, p_next : Addr \cup {NULL}, blk_size : 0..(Width - 1)]

VARIABLES
  free_head, alloc_head,
  mcb,      \* the memory, read as control blocks
  live,     \* of each pointer, the sizes of the blocks handed out there and in use
  outcome,  \* of the last call: "ok", "refused" (NULL or 1), "fault", "hung", "wild"
  harm      \* history: what the calls have done to the lists

vars == <<free_head, alloc_head, mcb, live, outcome, harm>>

(* A free block behind the head that is taken whole is "kept" in the free    *)
(* list.  The block behind a head that is taken whole keeps its p_prev, and  *)
(* when it is split the rest is linked to a block that is not free:          *)
(* "strayed".  A block freed behind a free one that it does not touch is not *)
(* linked from that one: "skipped", or "leaked" when no free one follows.  A *)
(* block allocated before alloc_head is "hidden" from the list.              *)
Harms == {"kept", "strayed", "skipped", "leaked", "hidden"}

Empty == [p_prev |-> NULL, p_next |-> NULL, blk_size |-> 0]

(* initialize_heap: one free block. *)
Init ==
  /\ free_head = 0 /\ alloc_head = NULL
  /\ mcb = [a \in Addr |-> IF a = 0 THEN [Empty EXCEPT !.blk_size = HeapSize - Hdr]
                           ELSE Empty]
  /\ live = [p \in Ptr |-> <<>>] /\ outcome = "ok" /\ harm = {}
-----------------------------------------------------------------------------
(* The blocks a loop over p_next comes by; a list longer than the heap has   *)
(* addresses is a loop that does not end.                                    *)
ListFrom(m, head) ==
  LET node[k \in 0..HeapSize] ==
        LET last == node[k - 1]
        IN  IF k = 0 THEN head ELSE IF last = NULL THEN NULL ELSE m[last].p_next
      ends == {k \in 0..HeapSize : node[k] = NULL}
  IN  [i \in 1..(IF ends = {} THEN HeapSize + 1 ELSE Min(ends)) |-> node[i - 1]]

Endless(list) == Len(list) > HeapSize

(* Mutant: a block goes in front of every list. *)
Behind_First(list, a) == 1

(* Where the search for the first block of the list behind address a stops,  *)
(* and whether it goes on forever.                                           *)
Behind(list, a) == Min({i \in DOMAIN list : list[i] > a} \cup {Len(list) + 1})
Stuck(list, a)  == Endless(list) /\ \A i \in DOMAIN list : list[i] <= a
At(list, i)     == IF i \in DOMAIN list THEN list[i] ELSE NULL

SetNext(m, a, v) == IF a = NULL THEN m ELSE [m EXCEPT ![a].p_next = v]
SetPrev(m, a, v) == IF a = NULL THEN m ELSE [m EXCEPT ![a].p_prev = v]

(* Mutant: no place is kept for the control block of the allocation. *)
FullSize_NoHeader(size) == size
FullSize(size) == (size + Hdr) % Width

(* Mutant: a block is taken whole only when it has exactly the size. *)
TakenWhole_Exact(b, size) == b.blk_size = size

(* What is left of the block would not hold a control block and a unit. *)
TakenWhole(b, size) == size <= b.blk_size /\ b.blk_size <= FullSize(size)

(* Mutant: the first free block is taken, however small. *)
Fits_Unchecked(b, size) == TRUE
Fits(b, size) == b.blk_size >= FullSize(size) \/ TakenWhole(b, size)

InUse == {p \in Ptr : live[p] # <<>>}

Return(o) == outcome' = o
Refuse(o) == Return(o) /\ UNCHANGED <<free_head, alloc_head, mcb, live, harm>>

(* The free block at a moves up by what is allocated in front of it. *)
Split(a, size) ==
  LET rest == a + FullSize(size)
      m    == [mcb EXCEPT ![rest] = [mcb[a] EXCEPT !.blk_size = @ - FullSize(size)]]
  IN  SetPrev(SetNext(m, mcb[a].p_prev, rest), mcb[a].p_next, rest)

TakeHarm(a, whole) ==
  {h \in Harms : \/ h = "kept" /\ whole /\ a # free_head
                 \/ h = "strayed" /\ ~whole /\ a = free_head /\ mcb[a].p_prev # NULL
                 \/ h = "hidden" /\ alloc_head # NULL /\ a < alloc_head}

(* allocate_memory once the free block at a is chosen.  alloc_head changes   *)
(* only when nothing was allocated, and a free block that is taken whole     *)
(* leaves the free list only when it is the head of it.                      *)
Take(a, size) ==
  LET whole  == TakenWhole(mcb[a], size)
      list   == ListFrom(mcb, alloc_head)
      before == At(list, Behind(list, a) - 1)
      after  == At(list, Behind(list, a))
      m      == [(IF whole THEN mcb ELSE Split(a, size)) EXCEPT
                   ![a] = [p_prev |-> before, p_next |-> after,
                           blk_size |-> IF whole THEN mcb[a].blk_size ELSE size]]
  IN  /\ mcb' = SetPrev(SetNext(m, before, a), after, a)
      /\ free_head' = IF a # free_head THEN free_head
                      ELSE IF whole THEN mcb[a].p_next ELSE a + FullSize(size)
      /\ alloc_head' = IF alloc_head = NULL THEN a ELSE alloc_head
      /\ live' = [live EXCEPT ![a + Hdr] = Append(@, size)]
      /\ harm' = harm \cup TakeHarm(a, whole)
      /\ Return("ok")

(* allocate_memory: first fit.  When size + sizeof(struct mcb) wraps around, *)
(* a free block is found that cannot hold it, and the control block of the   *)
(* rest is written over the one of the block: "wild", and nothing is known   *)
(* of the heap any more.                                                     *)
Allocate(size) ==
  LET list  == ListFrom(mcb, free_head)
      fits  == {i \in DOMAIN list : Fits(mcb[list[i]], size)}
      first == list[Min(fits)]
  IN  /\ Cardinality(InUse) < MaxLive
      /\ IF fits = {} THEN Refuse(IF Endless(list) THEN "hung" ELSE "refused")
         ELSE IF Stuck(ListFrom(mcb, alloc_head), first) THEN Refuse("hung")
         ELSE IF FullSize(size) < size THEN Refuse("wild")
         ELSE Take(first, size)
-----------------------------------------------------------------------------
Touches(m, a, b) == a + Hdr + m[a].blk_size = b

(* The block at a takes over the free block at b that follows it. *)
Absorb(m, a, b) ==
  SetPrev([m EXCEPT ![a].blk_size = @ + m[b].blk_size + Hdr,
                    ![a].p_next = m[b].p_next],
          m[b].p_next, a)

(* Mutant: neighbours are linked, but never merged. *)
JoinNext_NoMerge(m, a, b) == SetPrev(SetNext(m, a, b), b, a)

(* The block at a becomes free in front of the free block at b. *)
JoinNext(m, a, b) ==
  IF Touches(m, a, b) THEN Absorb(m, a, b) ELSE SetPrev(SetNext(m, a, b), b, a)

(* Behind a free block that touches it: a merges into that one. *)
JoinPrevious(m, prev, a, next) ==
  LET m1 == [m EXCEPT ![prev].blk_size = @ + m[a].blk_size + Hdr]
  IN  IF next = NULL THEN SetNext(m1, prev, NULL)
      ELSE IF Touches(m, a, next) THEN Absorb(m1, prev, next) ELSE m1

(* Behind a free block that does not touch it; that block keeps its p_next. *)
JoinBehind(m, prev, a, next) ==
  LET m1 == [m EXCEPT ![a].p_prev = prev]
  IN  IF next = NULL THEN m1 ELSE JoinNext(m1, a, next)

(* The list of allocated blocks without the block at a. *)
Unlinked(a) ==
  LET m == IF a = alloc_head THEN mcb ELSE SetNext(mcb, mcb[a].p_prev, mcb[a].p_next)
  IN  SetPrev(m, mcb[a].p_next, mcb[a].p_prev)

(* The free blocks around the block at a. *)
FreeAround(a) ==
  LET list == ListFrom(Unlinked(a), free_head)
  IN  [next |-> At(list, Behind(list, a)), prev |-> At(list, Behind(list, a) - 1)]

FreeHarm(a) ==
  LET next == FreeAround(a).next
      prev == FreeAround(a).prev
  IN  IF prev = NULL \/ Touches(Unlinked(a), prev, a) THEN {}
      ELSE IF next = NULL THEN {"leaked"} ELSE {"skipped"}

(* free_memory once the block at a is unlinked. *)
Insert(a) ==
  LET m    == Unlinked(a)
      next == FreeAround(a).next
      prev == FreeAround(a).prev
  IN  CASE free_head = NULL -> SetPrev(SetNext(m, a, NULL), a, NULL)
        [] free_head # NULL /\ prev = NULL -> JoinNext([m EXCEPT ![a].p_prev = NULL], a, next)
        [] free_head # NULL /\ prev # NULL /\ Touches(m, prev, a) ->
             JoinPrevious(m, prev, a, next)
        [] OTHER -> JoinBehind(m, prev, a, next)

(* Mutant: whatever is given back is taken for a block. *)
Listed_Any(a) == TRUE
Listed(a) == a \in ToSet(ListFrom(mcb, alloc_head))

(* free_memory of any address, as the Free Memory command gives it what the  *)
(* user types: a block must be on the list, and behind the head its p_prev   *)
(* is followed without a check.                                              *)
Free(p) ==
  LET a == p - Hdr
  IN  IF ~Listed(a) THEN Refuse(IF Endless(ListFrom(mcb, alloc_head)) THEN "hung" ELSE "refused")
      ELSE IF a # alloc_head /\ mcb[a].p_prev = NULL THEN Refuse("fault")
      ELSE IF Stuck(ListFrom(Unlinked(a), free_head), a) THEN Refuse("hung")
      ELSE /\ mcb' = Insert(a)
           /\ free_head' = IF free_head = NULL \/ a < free_head THEN a ELSE free_head
           /\ alloc_head' = IF a = alloc_head THEN mcb[a].p_next ELSE alloc_head
           /\ live' = [live EXCEPT ![p] = SubSeq(@, 2, Len(@))]
           /\ harm' = harm \cup FreeHarm(a)
           /\ Return("ok")

Next ==
  /\ outcome \notin {"hung", "fault", "wild"}
  /\ \/ \E size \in Sizes : Allocate(size)
     \/ \E p \in Hdr..(HeapSize - 1) : Free(p)

Spec == Init /\ [][Next]_vars
=============================================================================
