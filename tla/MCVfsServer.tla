---------------------------- MODULE MCVfsServer -----------------------------
(* Small instances of VfsServer for TLC. *)
EXTENDS VfsServer

CONSTANTS p2, p3
(* Processes other than the first are alike. *)
Symmetry == Permutations({p2, p3})

(* Two inodes, one per bucket. *)
HashByInode == [i \in Inode |-> i]

(* The state without what the last message left for the properties of      *)
(* steps only: no step reads it.                                           *)
LiveState == <<[vfs EXCEPT !.replies = <<>>, !.met = {}], held>>
=============================================================================
