--------------------------- MODULE MCCapabilities ---------------------------
(* Small instances of Capabilities for TLC. *)
EXTENDS Capabilities, TLC

CONSTANTS n1, n2, p1, p2, p3, r1, r2

Symmetry == Permutations(Resource) \cup Permutations(Node) \cup Permutations(Place)

(* The state without the contents of slots that hold no capability, which  *)
(* are overwritten before they are read unless an empty slot is copied or  *)
(* moved.                                                                  *)
Live(f) == [s \in Slot |-> IF handlers[s] THEN f[s] ELSE NULL]
LiveList(f) == <<Live(f.start), Live(f.end), Live(f.prev), Live(f.next)>>
LiveState == <<handlers, Live(resource), Live(flags), LiveList(resource_list),
               LiveList(derivation_list), Live(derived_from), Live(derivation),
               [r \in Resource |-> IF r \in allocated THEN owner[r] ELSE NULL],
               allocated, place, hung>>
=============================================================================
