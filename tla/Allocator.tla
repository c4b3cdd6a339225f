----------------------------- MODULE Allocator -----------------------------
(* What a heap promises its users, whatever it keeps: a block handed out     *)
(* lies in the heap with its control block, apart from all the blocks in     *)
(* use, and stays in use until it is given back, as long as it is intact.    *)
EXTENDS Integers

CONSTANTS HeapSize, Hdr

VARIABLES
  used,    \* the blocks in use: [ptr, size]
  intact   \* the promise holds; once it does not, nothing is promised

avars == <<used, intact>>

(* The units of a block, its control block included. *)
Units(b)  == (b.ptr - Hdr)..(b.ptr + b.size - 1)
Room(b)   == Units(b) \subseteq 0..(HeapSize - 1) /\ \A c \in used : Units(b) \cap Units(c) = {}

Init == used = {} /\ intact = TRUE

Allocate == \E p \in Hdr..HeapSize, n \in 0..HeapSize :
              LET b == [ptr |-> p, size |-> n]
              IN  Room(b) /\ used' = used \cup {b}
Free     == \E b \in used : used' = used \ {b}
Break    == intact' = FALSE

Next == (intact /\ (Allocate \/ Free) /\ UNCHANGED intact) \/ Break
Spec == Init /\ [][Next]_avars
=============================================================================
