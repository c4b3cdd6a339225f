--------------------------- MODULE HeapProperties ---------------------------
(* What the heap manager keeps true, for blocks given back in any order, and *)
(* what its comments promise.                                                *)
EXTENDS Heap

HeapTypeOK ==
  /\ free_head \in Addr \cup {NULL} /\ alloc_head \in Addr \cup {NULL}
  /\ mcb \in [Addr -> Mcb]
  /\ live \in [Ptr -> Seq(Sizes)]
  /\ outcome \in {"ok", "refused", "fault", "hung", "wild"}
  /\ harm \subseteq Harms

(* Nothing worse has happened than that blocks were lost. *)
Intact == harm \subseteq {"leaked", "hidden"} /\ outcome # "wild"

Blocks(head) == ToSet(ListFrom(mcb, head))
End(a)       == a + Hdr + mcb[a].blk_size
InUseAt      == {p - Hdr : p \in InUse}

(* A list from head, in the order of addresses, linked both ways but for the *)
(* p_prev of the first block, which nobody resets.                           *)
Linked(head) ==
  LET list == ListFrom(mcb, head)
  IN  \A i \in DOMAIN list : i > 1 => /\ mcb[list[i]].p_prev = list[i - 1]
                                      /\ list[i - 1] < list[i]

(* As long as the heap is intact, the two lists survive every splitting and  *)
(* merging: linked both ways in address order, the allocated blocks are in   *)
(* use and hardly larger than asked for, no two blocks overlap or reach out  *)
(* of the heap, and no two free ones touch.  Unless one was lost, the blocks *)
(* cover the heap, and the blocks in use are on the list.                    *)
HeapSound ==
  LET free == Blocks(free_head)
      all  == free \cup InUseAt
  IN  Intact =>
      /\ Linked(free_head) /\ Linked(alloc_head)
      /\ Blocks(alloc_head) \subseteq InUseAt
      /\ "hidden" \notin harm => InUseAt \subseteq Blocks(alloc_head)
      /\ \A p \in InUse : /\ Len(live[p]) = 1
                          /\ mcb[p - Hdr].blk_size - live[p][1] \in 0..Hdr
      /\ free \cap InUseAt = {} /\ \A a \in free : End(a) \notin free
      /\ \A a \in all : End(a) <= HeapSize /\ \A b \in all : a < b => End(a) <= b
      /\ "leaked" \notin harm => 0 \in all /\ \A a \in all : End(a) \in all \cup {HeapSize}

(* As long as the heap is intact, blocks are handed out and taken back as an *)
(* Allocator does it: apart from each other, inside the heap.                *)
Handed   == {[ptr |-> p, size |-> live[p][1]] : p \in InUse}
Abstract == INSTANCE Allocator WITH used <- Handed, intact <- Intact
ImplementsAllocator == Abstract!Spec

(* A request is refused only when no place is left for it beside the blocks  *)
(* in use, with the units that were handed out along with them.              *)
Given(a)        == a..(End(a) - 1)
Vacant(p, size) == /\ (p - Hdr)..(p + size - 1) \subseteq 0..(HeapSize - 1)
                   /\ \A a \in InUseAt : (p - Hdr)..(p + size - 1) \cap Given(a) = {}
RefusedOnlyWhenFull ==
  [][Intact /\ "leaked" \notin harm =>
       \A size \in Sizes : outcome' = "refused" /\ Allocate(size) =>
         \A p \in Hdr..HeapSize : ~Vacant(p, size)]_vars

(* "0 on success, non-zero on error" (include/memory.h:21): as long as the   *)
(* heap is intact, a block in use can be given back unless one was hidden,   *)
(* and nothing else can: no block given back before, no address that was     *)
(* never handed out.                                                         *)
FreeAnswers ==
  [][Intact =>
       \A p \in Hdr..(HeapSize - 1) :
         ~(outcome' = "ok" /\ p \in InUse) /\ ~(outcome' = "refused" /\ p \notin InUse)
           /\ ~(outcome' = "refused" /\ "hidden" \in harm) => ~Free(p)]_vars

(* "NULL on error, otherwise the address of the newly allocated memory"      *)
(* (include/memory.h:14): no unit belongs to two blocks in use.              *)
NoOverlap ==
  /\ \A p \in InUse : Len(live[p]) = 1
  /\ \A b, c \in Handed : b # c => Abstract!Units(b) \cap Abstract!Units(c) = {}
=============================================================================
