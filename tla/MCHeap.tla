------------------------------- MODULE MCHeap -------------------------------
(* Small instances of Heap for TLC. *)
EXTENDS Heap

CONSTANTS o1, o2, o3

(* Right behind the stack, in the middle, and at or near the end of memory, *)
(* the last two a header or less apart.                                     *)
SomeRegions == {<<8, 12>>, <<10, 14>>, <<20, 24>>, <<27, 32>>, <<34, 38>>, <<34, 40>>}
Symmetry == Permutations(Object)
=============================================================================
