------------------------------- MODULE MCHeap -------------------------------
(* An instance of the heap for TLC. *)
EXTENDS HeapProperties

(* While the heap is intact, nothing but the blocks is read as control       *)
(* blocks: states that differ in what else the memory holds are taken as one.*)
Seen ==
  LET blocks == Blocks(free_head) \cup Blocks(alloc_head) \cup InUseAt
  IN  <<free_head, alloc_head, [a \in blocks |-> mcb[a]], live, outcome, harm>>
=============================================================================
