------------------------- MODULE CapabilitiesProofs -------------------------
(***************************************************************************)
(* Proofs about Capabilities, for any number of nodes, places, slots and   *)
(* resources, as long as a capability is only copied when it is the only   *)
(* one to its resource: then the lists stay exact.  Longer lists, which a  *)
(* copy of one of several makes, are left to the model checker.            *)
(*                                                                         *)
(* No list has more than two capabilities, so the capabilities to a        *)
(* resource are one, or a pair in a fixed order: a parent and the          *)
(* capability derived from it, or two that were derived from a capability  *)
(* that is gone.  A call changes one such group and leaves all others      *)
(* alone.                                                                  *)
(***************************************************************************)
EXTENDS Capabilities, LinkedListProofs, NatLemmas, SequenceTheorems, FiniteSetTheorems

(* The calls that leave the lists wrong or put a third capability in one,  *)
(* see the README.                                                         *)
UnsoundCalls == {"copy_shared", "copy_stale", "copy_empty", "move_empty",
                 "relocate_linked", "reuse_parent"}

-----------------------------------------------------------------------------
(* The macros on lists of one and of two items.                            *)

(* The list that holds only c. *)
Single(f, c) == /\ f.start[c] = c /\ f.end[c] = c
                /\ f.prev[c] = NULL /\ f.next[c] = NULL

(* The list of c and then d. *)
Pair(f, c, d) == /\ c # d
                 /\ f.start[c] = c /\ f.start[d] = c /\ f.end[c] = d /\ f.end[d] = d
                 /\ f.prev[c] = NULL /\ f.next[c] = d /\ f.prev[d] = c /\ f.next[d] = NULL

(* The links of s are the same in f and g. *)
LinksSame(f, g, s) == /\ g.start[s] = f.start[s] /\ g.end[s] = f.end[s]
                      /\ g.prev[s] = f.prev[s] /\ g.next[s] = f.next[s]

(* What is on a list whose first item has no successor. *)
LEMMA MembersOfOne ==
  ASSUME NEW Item, NULL \notin Item, NEW c \in Item,
         NEW next \in [Item -> Item \cup {NULL}], next[c] = NULL
  PROVE  Members(Item, c, next) = {c}
<1>1. ClosedFrom({c}, c, next)
  BY DEF ClosedFrom
<1>2. Members(Item, c, next) \subseteq {c}
  BY <1>1, MembersLeast
<1>3. c \in Members(Item, c, next)
  BY MembersLeast DEF ClosedFrom
<1> QED
  BY <1>2, <1>3

(* What is on a list of two. *)
LEMMA MembersOfTwo ==
  ASSUME NEW Item, NULL \notin Item, NEW c \in Item, NEW d \in Item,
         NEW next \in [Item -> Item \cup {NULL}], next[c] = d, next[d] = NULL
  PROVE  Members(Item, c, next) = {c, d}
<1>1. ClosedFrom({c, d}, c, next)
  BY DEF ClosedFrom
<1>2. Members(Item, c, next) \subseteq {c, d}
  BY <1>1, MembersLeast
<1>3. c \in Members(Item, c, next) /\ d \in Members(Item, c, next)
  BY MembersLeast DEF ClosedFrom
<1> QED
  BY <1>2, <1>3

(* A list field keeps its type when its parts do.                          *)
LEMMA ListFieldIntro ==
  ASSUME NEW Item,
         NEW a \in [Item -> Item \cup {NULL}], NEW b \in [Item -> Item \cup {NULL}],
         NEW p \in [Item -> Item \cup {NULL}], NEW n \in [Item -> Item \cup {NULL}]
  PROVE  [start |-> a, end |-> b, prev |-> p, next |-> n] \in ListField(Item)
BY DEF ListField

(* SetAlong keeps the type of what it writes.                              *)
LEMMA SetAlongType ==
  ASSUME NEW Item, NEW g \in [Item -> Item \cup {NULL}], NEW first, NEW next,
         NEW v \in Item \cup {NULL}
  PROVE  SetAlong(Item, g, first, next, v) \in [Item -> Item \cup {NULL}]
BY DEF SetAlong

(* So does a guarded write.                                                *)
LEMMA SetUnlessNullType ==
  ASSUME NEW Item, NEW g \in [Item -> Item \cup {NULL}], NEW i \in Item \cup {NULL},
         NEW v \in Item \cup {NULL}
  PROVE  SetUnlessNull(g, i, v) \in [Item -> Item \cup {NULL}]
BY DEF SetUnlessNull

(* The parts of a list field. *)
LEMMA ListFieldParts ==
  ASSUME NEW Item, NEW f \in ListField(Item)
  PROVE  /\ f.start \in [Item -> Item \cup {NULL}] /\ f.end \in [Item -> Item \cup {NULL}]
         /\ f.prev \in [Item -> Item \cup {NULL}] /\ f.next \in [Item -> Item \cup {NULL}]
BY DEF ListField

(* LIST_UPDATE_ADDRESS_NO_CONTAINER keeps the type, whatever the links.    *)
LEMMA UpdateType ==
  ASSUME NEW Item, NULL \notin Item, NEW f \in ListField(Item), NEW c \in Item
  PROVE  LIST_UPDATE_ADDRESS_NO_CONTAINER(Item, f, c) \in ListField(Item)
<1> DEFINE next == SetUnlessNull(f.next, f.prev[c], c)
           prev == SetUnlessNull(f.prev, f.next[c], c)
           start == IF prev[c] # NULL THEN f.start ELSE SetAlong(Item, f.start, c, next, c)
           end == IF next[c] # NULL THEN f.end ELSE SetAlong(Item, f.end, c, prev, c)
<1>0. /\ f.start \in [Item -> Item \cup {NULL}] /\ f.end \in [Item -> Item \cup {NULL}]
      /\ f.prev \in [Item -> Item \cup {NULL}] /\ f.next \in [Item -> Item \cup {NULL}]
      /\ f.prev[c] \in Item \cup {NULL} /\ f.next[c] \in Item \cup {NULL}
      /\ c \in Item \cup {NULL}
  BY ListFieldParts
<1>1. next \in [Item -> Item \cup {NULL}] /\ prev \in [Item -> Item \cup {NULL}]
  BY <1>0, SetUnlessNullType
<1>2. LIST_UPDATE_ADDRESS_NO_CONTAINER(Item, f, c)
        = [start |-> start, end |-> end, prev |-> prev, next |-> next]
  BY DEF LIST_UPDATE_ADDRESS_NO_CONTAINER
<1> HIDE DEF next, prev
<1>3. SetAlong(Item, f.start, c, next, c) \in [Item -> Item \cup {NULL}]
  BY <1>0, SetAlongType
<1>4. SetAlong(Item, f.end, c, prev, c) \in [Item -> Item \cup {NULL}]
  BY <1>0, SetAlongType
<1>5. start \in [Item -> Item \cup {NULL}] /\ end \in [Item -> Item \cup {NULL}]
  BY <1>0, <1>3, <1>4
<1> HIDE DEF start, end
<1> QED
  BY <1>1, <1>2, <1>5, ListFieldIntro

(* LIST_UPDATE_ADDRESS_NO_CONTAINER of an item without neighbours.         *)
LEMMA UpdateSingle ==
  ASSUME NEW Item, NULL \notin Item, NEW f \in ListField(Item), NEW c \in Item,
         f.prev[c] = NULL, f.next[c] = NULL,
         NEW g, g = LIST_UPDATE_ADDRESS_NO_CONTAINER(Item, f, c)
  PROVE  /\ Single(g, c)
         /\ \A s \in Item : s # c => LinksSame(f, g, s)
<1>0. /\ f.start \in [Item -> Item \cup {NULL}] /\ f.end \in [Item -> Item \cup {NULL}]
      /\ f.prev \in [Item -> Item \cup {NULL}] /\ f.next \in [Item -> Item \cup {NULL}]
  BY ListFieldParts
<1>1. Members(Item, c, f.next) = {c} /\ Members(Item, c, f.prev) = {c}
  BY <1>0, MembersOfOne
<1>2. SetUnlessNull(f.next, f.prev[c], c) = f.next /\ SetUnlessNull(f.prev, f.next[c], c) = f.prev
  BY DEF SetUnlessNull
<1>3. /\ g.prev = f.prev /\ g.next = f.next
      /\ g.start = SetAlong(Item, f.start, c, f.next, c)
      /\ g.end = SetAlong(Item, f.end, c, f.prev, c)
  BY <1>2 DEF LIST_UPDATE_ADDRESS_NO_CONTAINER
<1>4. \A s \in Item : /\ g.start[s] = IF s = c THEN c ELSE f.start[s]
                      /\ g.end[s] = IF s = c THEN c ELSE f.end[s]
  BY <1>1, <1>3 DEF SetAlong
<1> QED
  BY <1>3, <1>4 DEF Single, LinksSame

(* Of the first of two, whose old address was c.                           *)
LEMMA UpdateFirst ==
  ASSUME NEW Item, NULL \notin Item, NEW f \in ListField(Item), NEW e \in Item, NEW d \in Item,
         e # d, f.prev[e] = NULL, f.next[e] = d, f.end[e] = d, f.next[d] = NULL, f.end[d] = d,
         NEW g, g = LIST_UPDATE_ADDRESS_NO_CONTAINER(Item, f, e)
  PROVE  /\ Pair(g, e, d)
         /\ \A s \in Item : s # e /\ s # d => LinksSame(f, g, s)
<1>0. /\ f.start \in [Item -> Item \cup {NULL}] /\ f.end \in [Item -> Item \cup {NULL}]
      /\ f.prev \in [Item -> Item \cup {NULL}] /\ f.next \in [Item -> Item \cup {NULL}]
  BY ListFieldParts
<1>1. Members(Item, e, f.next) = {e, d}
  BY <1>0, MembersOfTwo
<1>2. /\ SetUnlessNull(f.next, f.prev[e], e) = f.next
      /\ SetUnlessNull(f.prev, f.next[e], e) = [f.prev EXCEPT ![d] = e]
      /\ [f.prev EXCEPT ![d] = e][e] = NULL
  BY <1>0 DEF SetUnlessNull
<1>3. /\ g.prev = [f.prev EXCEPT ![d] = e] /\ g.next = f.next
      /\ g.start = SetAlong(Item, f.start, e, f.next, e)
      /\ g.end = f.end
  BY <1>2 DEF LIST_UPDATE_ADDRESS_NO_CONTAINER
<1>4. \A s \in Item : g.start[s] = IF s \in {e, d} THEN e ELSE f.start[s]
  BY <1>1, <1>3 DEF SetAlong
<1> QED
  BY <1>0, <1>3, <1>4 DEF Pair, LinksSame

(* Of the second of two.                                                   *)
LEMMA UpdateSecond ==
  ASSUME NEW Item, NULL \notin Item, NEW f \in ListField(Item), NEW e \in Item, NEW c \in Item,
         e # c, f.next[e] = NULL, f.prev[e] = c, f.start[e] = c, f.prev[c] = NULL, f.start[c] = c,
         NEW g, g = LIST_UPDATE_ADDRESS_NO_CONTAINER(Item, f, e)
  PROVE  /\ Pair(g, c, e)
         /\ \A s \in Item : s # e /\ s # c => LinksSame(f, g, s)
<1>0. /\ f.start \in [Item -> Item \cup {NULL}] /\ f.end \in [Item -> Item \cup {NULL}]
      /\ f.prev \in [Item -> Item \cup {NULL}] /\ f.next \in [Item -> Item \cup {NULL}]
  BY ListFieldParts
<1>1. Members(Item, e, f.prev) = {e, c}
  BY <1>0, MembersOfTwo
<1>2. /\ SetUnlessNull(f.prev, f.next[e], e) = f.prev
      /\ SetUnlessNull(f.next, f.prev[e], e) = [f.next EXCEPT ![c] = e]
      /\ [f.next EXCEPT ![c] = e][e] = NULL
  BY <1>0 DEF SetUnlessNull
<1>3. /\ g.next = [f.next EXCEPT ![c] = e] /\ g.prev = f.prev
      /\ g.end = SetAlong(Item, f.end, e, f.prev, e)
      /\ g.start = f.start
  BY <1>2 DEF LIST_UPDATE_ADDRESS_NO_CONTAINER
<1>4. \A s \in Item : g.end[s] = IF s \in {e, c} THEN e ELSE f.end[s]
  BY <1>1, <1>3 DEF SetAlong
<1> QED
  BY <1>0, <1>3, <1>4 DEF Pair, LinksSame

(* LIST_DELETE_NO_CONTAINER keeps the type, whatever the links.            *)
LEMMA DeleteType ==
  ASSUME NEW Item, NULL \notin Item, NEW f \in ListField(Item), NEW c \in Item
  PROVE  LIST_DELETE_NO_CONTAINER(Item, f, c) \in ListField(Item)
<1> DEFINE p == f.prev[c]
           n == f.next[c]
           next == SetUnlessNull(f.next, p, n)
           prev == SetUnlessNull(f.prev, n, p)
           start == IF p = NULL /\ n # NULL THEN SetAlong(Item, f.start, n, next, n) ELSE f.start
           end == IF n = NULL /\ p # NULL THEN SetAlong(Item, f.end, p, prev, p) ELSE f.end
<1>0. /\ f.start \in [Item -> Item \cup {NULL}] /\ f.end \in [Item -> Item \cup {NULL}]
      /\ f.prev \in [Item -> Item \cup {NULL}] /\ f.next \in [Item -> Item \cup {NULL}]
      /\ p \in Item \cup {NULL} /\ n \in Item \cup {NULL}
  BY ListFieldParts
<1>1. LIST_DELETE_NO_CONTAINER(Item, f, c)
        = [start |-> start, end |-> end, prev |-> prev, next |-> next]
  BY DEF LIST_DELETE_NO_CONTAINER
<1> HIDE DEF p, n
<1>2. next \in [Item -> Item \cup {NULL}] /\ prev \in [Item -> Item \cup {NULL}]
  BY <1>0, SetUnlessNullType
<1> HIDE DEF next, prev
<1>3. SetAlong(Item, f.start, n, next, n) \in [Item -> Item \cup {NULL}]
  BY <1>0, SetAlongType
<1>4. SetAlong(Item, f.end, p, prev, p) \in [Item -> Item \cup {NULL}]
  BY <1>0, SetAlongType
<1>5. start \in [Item -> Item \cup {NULL}] /\ end \in [Item -> Item \cup {NULL}]
  BY <1>0, <1>3, <1>4
<1> HIDE DEF start, end
<1> QED
  BY <1>1, <1>2, <1>5, ListFieldIntro DEF p, n

(* Deleting an item without neighbours changes nothing.                    *)
LEMMA DeleteSingle ==
  ASSUME NEW Item, NULL \notin Item, NEW f \in ListField(Item), NEW c \in Item,
         f.prev[c] = NULL, f.next[c] = NULL
  PROVE  LIST_DELETE_NO_CONTAINER(Item, f, c) = f
<1>1. f = [start |-> f.start, end |-> f.end, prev |-> f.prev, next |-> f.next]
  BY DEF ListField
<1> QED
  BY <1>1 DEF LIST_DELETE_NO_CONTAINER, SetUnlessNull

(* Deleting the first of two leaves the other one a list of its own.       *)
LEMMA DeleteFirst ==
  ASSUME NEW Item, NULL \notin Item, NEW f \in ListField(Item), NEW c \in Item, NEW d \in Item,
         Pair(f, c, d),
         NEW g, g = LIST_DELETE_NO_CONTAINER(Item, f, c)
  PROVE  /\ Single(g, d)
         /\ \A s \in Item : s # c /\ s # d => LinksSame(f, g, s)
<1>0. /\ f.start \in [Item -> Item \cup {NULL}] /\ f.end \in [Item -> Item \cup {NULL}]
      /\ f.prev \in [Item -> Item \cup {NULL}] /\ f.next \in [Item -> Item \cup {NULL}]
  BY ListFieldParts
<1>1. Members(Item, d, f.next) = {d}
  BY <1>0, MembersOfOne DEF Pair
<1>2. /\ f.prev[c] = NULL /\ f.next[c] = d
      /\ SetUnlessNull(f.next, f.prev[c], f.next[c]) = f.next
      /\ SetUnlessNull(f.prev, f.next[c], f.prev[c]) = [f.prev EXCEPT ![d] = NULL]
  BY <1>0 DEF SetUnlessNull, Pair
<1>3. /\ g.prev = [f.prev EXCEPT ![d] = NULL] /\ g.next = f.next
      /\ g.start = SetAlong(Item, f.start, d, f.next, d)
      /\ g.end = f.end
  BY <1>2 DEF LIST_DELETE_NO_CONTAINER
<1>4. \A s \in Item : g.start[s] = IF s = d THEN d ELSE f.start[s]
  BY <1>1, <1>3 DEF SetAlong
<1> QED
  BY <1>0, <1>3, <1>4 DEF Single, Pair, LinksSame

(* Deleting the second does so too.                                        *)
LEMMA DeleteSecond ==
  ASSUME NEW Item, NULL \notin Item, NEW f \in ListField(Item), NEW c \in Item, NEW d \in Item,
         Pair(f, c, d),
         NEW g, g = LIST_DELETE_NO_CONTAINER(Item, f, d)
  PROVE  /\ Single(g, c)
         /\ \A s \in Item : s # c /\ s # d => LinksSame(f, g, s)
<1>0. /\ f.start \in [Item -> Item \cup {NULL}] /\ f.end \in [Item -> Item \cup {NULL}]
      /\ f.prev \in [Item -> Item \cup {NULL}] /\ f.next \in [Item -> Item \cup {NULL}]
  BY ListFieldParts
<1>1. Members(Item, c, f.prev) = {c}
  BY <1>0, MembersOfOne DEF Pair
<1>2. /\ f.prev[d] = c /\ f.next[d] = NULL
      /\ SetUnlessNull(f.prev, f.next[d], f.prev[d]) = f.prev
      /\ SetUnlessNull(f.next, f.prev[d], f.next[d]) = [f.next EXCEPT ![c] = NULL]
  BY <1>0 DEF SetUnlessNull, Pair
<1>3. /\ g.next = [f.next EXCEPT ![c] = NULL] /\ g.prev = f.prev
      /\ g.end = SetAlong(Item, f.end, c, f.prev, c)
      /\ g.start = f.start
  BY <1>2 DEF LIST_DELETE_NO_CONTAINER
<1>4. \A s \in Item : g.end[s] = IF s = c THEN c ELSE f.end[s]
  BY <1>1, <1>3 DEF SetAlong
<1> QED
  BY <1>0, <1>3, <1>4 DEF Single, Pair, LinksSame

(* LIST_INSERT_NO_CONTAINER into a list of one makes it a list of two.     *)
LEMMA InsertSecond ==
  ASSUME NEW Item, NULL \notin Item, NEW f \in ListField(Item), NEW c \in Item, NEW d \in Item,
         c # d, Single(f, c),
         NEW g, g = LIST_INSERT_NO_CONTAINER(f, c, d)
  PROVE  /\ Pair(g, c, d)
         /\ g \in ListField(Item)
         /\ \A s \in Item : s # c /\ s # d => LinksSame(f, g, s)
<1>0. /\ f.start \in [Item -> Item \cup {NULL}] /\ f.end \in [Item -> Item \cup {NULL}]
      /\ f.prev \in [Item -> Item \cup {NULL}] /\ f.next \in [Item -> Item \cup {NULL}]
  BY ListFieldParts
<1>1. g = [start |-> [f.start EXCEPT ![d] = c],
           end   |-> [f.end EXCEPT ![c] = d, ![d] = d],
           prev  |-> [f.prev EXCEPT ![d] = c],
           next  |-> [f.next EXCEPT ![c] = d, ![d] = NULL]]
  BY DEF LIST_INSERT_NO_CONTAINER, Single
<1>2. g \in ListField(Item)
  BY <1>0, <1>1 DEF ListField
<1>3. /\ g.start = [f.start EXCEPT ![d] = c] /\ g.end = [f.end EXCEPT ![c] = d, ![d] = d]
      /\ g.prev = [f.prev EXCEPT ![d] = c] /\ g.next = [f.next EXCEPT ![c] = d, ![d] = NULL]
  BY <1>1
<1>4. Pair(g, c, d)
  BY <1>0, <1>3 DEF Pair, Single
<1>5. \A s \in Item : s # c /\ s # d => LinksSame(f, g, s)
  BY <1>0, <1>3 DEF LinksSame
<1> QED
  BY <1>2, <1>4, <1>5

(* LIST_INIT_NO_CONTAINER makes a list of one.                             *)
LEMMA InitSingle ==
  ASSUME NEW Item, NULL \notin Item, NEW f \in ListField(Item), NEW c \in Item,
         NEW g, g = LIST_INIT_NO_CONTAINER(f, c)
  PROVE  /\ Single(g, c)
         /\ g \in ListField(Item)
         /\ \A s \in Item : s # c => LinksSame(f, g, s)
<1>0. /\ f.start \in [Item -> Item \cup {NULL}] /\ f.end \in [Item -> Item \cup {NULL}]
      /\ f.prev \in [Item -> Item \cup {NULL}] /\ f.next \in [Item -> Item \cup {NULL}]
  BY ListFieldParts
<1>1. g \in ListField(Item)
  BY <1>0 DEF ListField, LIST_INIT_NO_CONTAINER
<1> QED
  BY <1>0, <1>1 DEF Single, LinksSame, LIST_INIT_NO_CONTAINER

-----------------------------------------------------------------------------
(* The capabilities to one resource.                                       *)

Flags == {{}, {"ORIGINAL"}, {"BADGED"}}

(* What the C functions work on. *)
Memory == [handlers : [Slot -> BOOLEAN], resource : [Slot -> Resource \cup {NULL}],
           flags : [Slot -> Flags],
           resource_list : ListField(Slot), derivation_list : ListField(Slot),
           derived_from : [Slot -> Slot \cup {NULL}], derivation : [Slot -> Slot \cup {NULL}],
           owner : [Resource -> CapAddress \cup {NULL}],
           allocated : SUBSET Resource, hung : BOOLEAN]

(* The only capability to its resource. *)
AloneOk(m, c) == /\ Single(m.resource_list, c)
                 /\ m.derivation[c] = NULL
                 /\ m.derived_from[c] # c
                 /\ m.flags[c] # {"ORIGINAL"} => Single(m.derivation_list, c)

(* d was derived from c. *)
ParentOf(m, c, d) == /\ m.flags[c] # {} /\ m.derivation[c] = d
                     /\ m.flags[d] # {"ORIGINAL"} /\ m.derived_from[d] = c
                     /\ m.derivation[d] = NULL
                     /\ Single(m.derivation_list, d)
                     /\ m.flags[c] # {"ORIGINAL"} => Single(m.derivation_list, c)

(* d is a copy of c, and what c was derived from is gone. *)
Siblings(m, c, d) == /\ m.flags[c] = {} /\ m.flags[d] = {}
                     /\ m.derivation[c] = NULL /\ m.derivation[d] = NULL
                     /\ m.derived_from[d] # c /\ m.derived_from[d] # d
                     /\ Pair(m.derivation_list, c, d)

(* c and d are the two capabilities to their resource, c the first. *)
PairOk(m, c, d) == /\ Pair(m.resource_list, c, d)
                   /\ m.resource[c] = m.resource[d]
                   /\ m.derived_from[c] # c /\ m.derived_from[c] # d
                   /\ ParentOf(m, c, d) \/ Siblings(m, c, d)

(* Originals were derived from nothing, all others were. *)
OriginOk(m, s) ==
  /\ m.resource[s] \in Resource
  /\ m.flags[s] = {"ORIGINAL"} => /\ m.derived_from[s] = NULL
                                  /\ m.derivation_list.prev[s] = NULL
                                  /\ m.derivation_list.next[s] = NULL
  /\ m.flags[s] # {"ORIGINAL"} => m.derived_from[s] # NULL

ListsOf(m, L, s) ==
  \/ AloneOk(m, s)
  \/ m.resource_list.next[s] \in L /\ PairOk(m, s, m.resource_list.next[s])
  \/ m.resource_list.prev[s] \in L /\ PairOk(m, m.resource_list.prev[s], s)

(* The slots L, all that hold a capability, are in order. *)
CapInv(m, L) ==
  /\ \A s \in L : ListsOf(m, L, s) /\ OriginOk(m, s)
  /\ \A s, t \in L : m.resource[s] = m.resource[t]
       => t = s \/ t = m.resource_list.next[s] \/ t = m.resource_list.prev[s]
  /\ \A s \in L : m.derived_from[s] \in L => m.resource[m.derived_from[s]] = m.resource[s]

(* Nothing in slot s differs between m and k. *)
SlotSame(m, k, s) ==
  /\ k.resource[s] = m.resource[s] /\ k.flags[s] = m.flags[s]
  /\ LinksSame(m.resource_list, k.resource_list, s)
  /\ LinksSame(m.derivation_list, k.derivation_list, s)
  /\ k.derived_from[s] = m.derived_from[s] /\ k.derivation[s] = m.derivation[s]

(* A capability is alone or one of two. *)
LEMMA GroupOf ==
  ASSUME NULL \notin Slot, NEW m \in Memory, NEW L \in SUBSET Slot, CapInv(m, L), NEW s \in L
  PROVE  \/ /\ AloneOk(m, s)
            /\ \A t \in L : t # s => m.resource[t] # m.resource[s]
         \/ \E d \in L : /\ PairOk(m, s, d)
                         /\ \A t \in L : t # s /\ t # d => m.resource[t] # m.resource[s]
         \/ \E c \in L : /\ PairOk(m, c, s)
                         /\ \A t \in L : t # s /\ t # c => m.resource[t] # m.resource[s]
<1>0. /\ ListsOf(m, L, s)
      /\ \A t \in L : m.resource[s] = m.resource[t]
           => t = s \/ t = m.resource_list.next[s] \/ t = m.resource_list.prev[s]
  BY DEF CapInv
<1>1. CASE AloneOk(m, s)
  <2>1. m.resource_list.next[s] = NULL /\ m.resource_list.prev[s] = NULL
    BY <1>1 DEF AloneOk, Single
  <2> QED
    BY <1>0, <1>1, <2>1
<1>2. CASE m.resource_list.next[s] \in L /\ PairOk(m, s, m.resource_list.next[s])
  <2>1. m.resource_list.prev[s] = NULL
    BY <1>2 DEF PairOk, Pair
  <2> QED
    BY <1>0, <1>2, <2>1
<1>3. CASE m.resource_list.prev[s] \in L /\ PairOk(m, m.resource_list.prev[s], s)
  <2>1. m.resource_list.next[s] = NULL
    BY <1>3 DEF PairOk, Pair
  <2> QED
    BY <1>0, <1>3, <2>1
<1> QED
  BY <1>0, <1>1, <1>2, <1>3 DEF ListsOf

(* What a capability was derived from does not hold another capability of  *)
(* an alone one's resource, or of a pair's first.                          *)
LEMMA OriginGone ==
  ASSUME NULL \notin Slot, NEW m \in Memory, NEW L \in SUBSET Slot, CapInv(m, L), NEW s \in L
  PROVE  /\ AloneOk(m, s) => m.derived_from[s] \notin L
         /\ \A d \in L : PairOk(m, s, d) => m.derived_from[s] \notin L
         /\ \A c \in L : PairOk(m, c, s) /\ m.derived_from[s] # c => m.derived_from[s] \notin L
<1> DEFINE p == m.derived_from[s]
<1>0. p \in L => /\ m.resource[p] = m.resource[s]
                 /\ p = s \/ p = m.resource_list.next[s] \/ p = m.resource_list.prev[s]
  BY DEF CapInv
<1>1. AloneOk(m, s) => p \notin L
  BY <1>0 DEF AloneOk, Single
<1>2. ASSUME NEW d \in L, PairOk(m, s, d)
      PROVE  p \notin L
  <2>1. /\ p # s /\ p # d /\ m.resource_list.next[s] = d /\ m.resource_list.prev[s] = NULL
    BY <1>2 DEF PairOk, Pair
  <2> QED
    BY <1>0, <2>1
<1>3. ASSUME NEW c \in L, PairOk(m, c, s), p # c
      PROVE  p \notin L
  <2>1. /\ p # s /\ m.resource_list.next[s] = NULL /\ m.resource_list.prev[s] = c
    BY <1>3 DEF PairOk, Pair, ParentOf, Siblings
  <2> QED
    BY <1>0, <1>3, <2>1
<1> QED
  BY <1>1, <1>2, <1>3

(* Lists are what the slots on them say. *)
LEMMA PairSame ==
  ASSUME NEW m, NEW k, NEW c, NEW d, PairOk(m, c, d), SlotSame(m, k, c), SlotSame(m, k, d)
  PROVE  PairOk(k, c, d)
<1>1. Pair(k.resource_list, c, d)
  BY DEF PairOk, Pair, SlotSame, LinksSame
<1>2. /\ k.resource[c] = k.resource[d]
      /\ k.derived_from[c] # c /\ k.derived_from[c] # d
  BY DEF PairOk, SlotSame
<1>3. ParentOf(m, c, d) => ParentOf(k, c, d)
  BY DEF ParentOf, Single, SlotSame, LinksSame
<1>4. Siblings(m, c, d) => Siblings(k, c, d)
  BY DEF Siblings, Pair, SlotSame, LinksSame
<1> QED
  BY <1>1, <1>2, <1>3, <1>4 DEF PairOk

(* An alone capability stays alone. *)
LEMMA AloneSame ==
  ASSUME NEW m, NEW k, NEW c, AloneOk(m, c), SlotSame(m, k, c)
  PROVE  AloneOk(k, c)
BY DEF AloneOk, Single, SlotSame, LinksSame

(* The origin of a capability, likewise. *)
LEMMA OriginSame ==
  ASSUME NEW m, NEW k, NEW c, OriginOk(m, c), SlotSame(m, k, c)
  PROVE  OriginOk(k, c)
BY DEF OriginOk, SlotSame, LinksSame

(***************************************************************************)
(* A call changes the capabilities C to one resource, from m to k, and     *)
(* leaves all others alone.                                                *)
(***************************************************************************)
Elsewhere(m, k, L, N, C) ==
  /\ \A s \in Slot : s \notin C => (s \in N <=> s \in L)
  /\ \A s \in L : s \notin C => SlotSame(m, k, s)
  /\ \A s, t \in L : s \notin C /\ t \in C => m.resource[t] # m.resource[s]
  /\ \A s \in L, t \in N : s \notin C /\ t \in C
       => k.resource[t] # m.resource[s] /\ m.derived_from[s] # t
  /\ \A s \in L, t \in N : s \notin C /\ t \in C => k.derived_from[t] # s

(* If those that changed are in order, all are. *)
LEMMA Regroup ==
  ASSUME NULL \notin Slot, NEW m \in Memory, NEW k \in Memory,
         NEW L \in SUBSET Slot, NEW N \in SUBSET Slot, NEW C \in SUBSET Slot,
         CapInv(m, L), Elsewhere(m, k, L, N, C), CapInv(k, N \cap C)
  PROVE  CapInv(k, N)
<1>1. ASSUME NEW s \in N, s \notin C
      PROVE  /\ s \in L /\ SlotSame(m, k, s)
             /\ ListsOf(k, N, s) /\ OriginOk(k, s)
  <2>1. s \in L /\ SlotSame(m, k, s)
    BY <1>1 DEF Elsewhere
  <2>2. OriginOk(k, s)
    BY <2>1, OriginSame DEF CapInv
  <2>3. CASE AloneOk(m, s)
    BY <2>1, <2>2, <2>3, AloneSame DEF ListsOf
  <2>4. ASSUME NEW t \in L, m.resource[t] = m.resource[s]
        PROVE  t \in N /\ SlotSame(m, k, t)
    BY <1>1, <2>1, <2>4 DEF Elsewhere
  <2>5. CASE m.resource_list.next[s] \in L /\ PairOk(m, s, m.resource_list.next[s])
    <3> DEFINE d == m.resource_list.next[s]
    <3>1. m.resource[d] = m.resource[s]
      BY <2>5 DEF PairOk
    <3>2. d \in N /\ SlotSame(m, k, d)
      BY <2>4, <2>5, <3>1
    <3>3. PairOk(k, s, d)
      BY <2>1, <2>5, <3>2, PairSame
    <3>4. k.resource_list.next[s] = d
      BY <2>1 DEF SlotSame, LinksSame
    <3> QED
      BY <2>1, <2>2, <3>2, <3>3, <3>4 DEF ListsOf
  <2>6. CASE m.resource_list.prev[s] \in L /\ PairOk(m, m.resource_list.prev[s], s)
    <3> DEFINE d == m.resource_list.prev[s]
    <3>1. m.resource[d] = m.resource[s]
      BY <2>6 DEF PairOk
    <3>2. d \in N /\ SlotSame(m, k, d)
      BY <2>4, <2>6, <3>1
    <3>3. PairOk(k, d, s)
      BY <2>1, <2>6, <3>2, PairSame
    <3>4. k.resource_list.prev[s] = d
      BY <2>1 DEF SlotSame, LinksSame
    <3> QED
      BY <2>1, <2>2, <3>2, <3>3, <3>4 DEF ListsOf
  <2> QED
    BY <2>1, <2>2, <2>3, <2>5, <2>6 DEF CapInv, ListsOf
<1>2. ASSUME NEW s \in N, s \in C
      PROVE  ListsOf(k, N, s) /\ OriginOk(k, s)
  BY <1>2 DEF CapInv, ListsOf
<1>3. ASSUME NEW s \in N, NEW t \in N, k.resource[s] = k.resource[t]
      PROVE  t = s \/ t = k.resource_list.next[s] \/ t = k.resource_list.prev[s]
  <2>1. CASE s \notin C /\ t \notin C
    <3>1. s \in L /\ t \in L /\ SlotSame(m, k, s) /\ SlotSame(m, k, t)
      BY <1>1, <2>1
    <3>2. m.resource[s] = m.resource[t]
      BY <1>3, <3>1 DEF SlotSame
    <3>3. t = s \/ t = m.resource_list.next[s] \/ t = m.resource_list.prev[s]
      BY <3>1, <3>2 DEF CapInv
    <3> QED
      BY <3>1, <3>3 DEF SlotSame, LinksSame
  <2>2. CASE s \in C /\ t \in C
    BY <1>3, <2>2 DEF CapInv
  <2>3. CASE s \notin C /\ t \in C
    <3>1. s \in L /\ k.resource[s] = m.resource[s]
      BY <1>1, <2>3 DEF SlotSame
    <3> QED
      BY <1>3, <2>3, <3>1 DEF Elsewhere
  <2>4. CASE s \in C /\ t \notin C
    <3>1. t \in L /\ k.resource[t] = m.resource[t]
      BY <1>1, <2>4 DEF SlotSame
    <3> QED
      BY <1>3, <2>4, <3>1 DEF Elsewhere
  <2> QED
    BY <2>1, <2>2, <2>3, <2>4
<1>4. ASSUME NEW s \in N, k.derived_from[s] \in N
      PROVE  k.resource[k.derived_from[s]] = k.resource[s]
  <2> DEFINE p == k.derived_from[s]
  <2>1. CASE s \notin C /\ p \notin C
    <3>1. s \in L /\ p \in L /\ SlotSame(m, k, s) /\ SlotSame(m, k, p)
      BY <1>1, <1>4, <2>1
    <3>2. m.derived_from[s] = p
      BY <3>1 DEF SlotSame
    <3>3. m.resource[p] = m.resource[s]
      BY <3>1, <3>2 DEF CapInv
    <3> QED
      BY <3>1, <3>3 DEF SlotSame
  <2>2. CASE s \in C /\ p \in C
    BY <1>4, <2>2 DEF CapInv
  <2>3. CASE s \notin C /\ p \in C
    <3>1. s \in L /\ m.derived_from[s] = p
      BY <1>1, <2>3 DEF SlotSame
    <3> QED
      BY <1>4, <2>3, <3>1 DEF Elsewhere
  <2>4. CASE s \in C /\ p \notin C
    <3>1. p \in L
      BY <1>1, <1>4, <2>4
    <3> QED
      BY <2>4, <3>1 DEF Elsewhere
  <2> QED
    BY <2>1, <2>2, <2>3, <2>4
<1> QED
  BY <1>1, <1>2, <1>3, <1>4 DEF CapInv

(* One capability that is alone is in order. *)
LEMMA GroupOfOne ==
  ASSUME NEW m, NEW L, NEW c, \A s : s \in L <=> s = c,
         AloneOk(m, c), OriginOk(m, c)
  PROVE  CapInv(m, L)
BY DEF CapInv, ListsOf

(* So are two that form a pair. *)
LEMMA GroupOfTwo ==
  ASSUME NEW m, NEW L, NEW c, NEW d, \A s : s \in L <=> s = c \/ s = d,
         PairOk(m, c, d), OriginOk(m, c), OriginOk(m, d)
  PROVE  CapInv(m, L)
<1>1. /\ m.resource_list.next[c] = d /\ m.resource_list.prev[d] = c
      /\ m.resource[c] = m.resource[d]
  BY DEF PairOk, Pair
<1>2. c \in L /\ d \in L
  OBVIOUS
<1>3. ListsOf(m, L, c) /\ ListsOf(m, L, d)
  BY <1>1, <1>2 DEF ListsOf
<1> QED
  BY <1>1, <1>2, <1>3 DEF CapInv

-----------------------------------------------------------------------------
(* update_capability_references, after a slot has been copied elsewhere.   *)

(* The parts of a memory have their types. *)
LEMMA MemoryParts ==
  ASSUME NEW m \in Memory
  PROVE  /\ m.handlers \in [Slot -> BOOLEAN] /\ m.resource \in [Slot -> Resource \cup {NULL}]
         /\ m.flags \in [Slot -> Flags]
         /\ m.resource_list \in ListField(Slot) /\ m.derivation_list \in ListField(Slot)
         /\ m.derived_from \in [Slot -> Slot \cup {NULL}]
         /\ m.derivation \in [Slot -> Slot \cup {NULL}]
         /\ m.owner \in [Resource -> CapAddress \cup {NULL}]
         /\ m.allocated \in SUBSET Resource /\ m.hung \in BOOLEAN
BY DEF Memory

(* Every part of a memory but the lists is the same in m and k. *)
RestSame(m, k) == /\ k.handlers = m.handlers /\ k.resource = m.resource /\ k.flags = m.flags
                  /\ k.owner = m.owner /\ k.allocated = m.allocated /\ k.hung = m.hung

(* What set_derived_from leaves. *)
LEMMA SetDerivedFromEffects ==
  ASSUME NEW m \in Memory, NEW S, NEW c \in Slot
  PROVE  LET k == set_derived_from(m, S, c)
         IN  /\ k \in Memory /\ RestSame(m, k)
             /\ k.resource_list = m.resource_list /\ k.derivation_list = m.derivation_list
             /\ k.derivation = m.derivation
             /\ \A s \in Slot : k.derived_from[s] = IF s \in S THEN c ELSE m.derived_from[s]
<1> DEFINE g == [s \in Slot |-> IF s \in S THEN c ELSE m.derived_from[s]]
           k == set_derived_from(m, S, c)
<1>1. g \in [Slot -> Slot \cup {NULL}]
  BY MemoryParts
<1>2. k = [m EXCEPT !.derived_from = g]
  BY DEF set_derived_from
<1>3. \A s \in Slot : g[s] = IF s \in S THEN c ELSE m.derived_from[s]
  OBVIOUS
<1> HIDE DEF g, k
<1>4. k \in Memory
  BY <1>1, <1>2 DEF Memory
<1>5. /\ RestSame(m, k) /\ k.derived_from = g
      /\ k.resource_list = m.resource_list /\ k.derivation_list = m.derivation_list
      /\ k.derivation = m.derivation
  BY <1>2 DEF RestSame, Memory
<1> QED
  BY <1>3, <1>4, <1>5 DEF k

(* What update_capability_references does, field by field. *)
Updated(m, k, c) ==
  /\ k.resource_list = LIST_UPDATE_ADDRESS_NO_CONTAINER(Slot, m.resource_list, c)
  /\ k.derivation_list = LIST_UPDATE_ADDRESS_NO_CONTAINER(Slot, m.derivation_list, c)
  /\ m.flags[c] = {} \/ m.derivation[c] = NULL
       => \A s \in Slot : k.derived_from[s] = m.derived_from[s]
  /\ m.flags[c] # {} /\ m.derivation[c] # NULL
       => \A s \in Slot : k.derived_from[s] =
            IF s \in Members(Slot, k.derivation_list.start[m.derivation[c]], k.derivation_list.next)
            THEN c ELSE m.derived_from[s]
  /\ k.derivation_list.prev[c] # NULL => k.derivation = m.derivation
  /\ k.derivation_list.prev[c] = NULL
       => k.derivation = SetUnlessNull(m.derivation, k.derived_from[c], c)

(* It does that. *)
LEMMA UpdateReferences ==
  ASSUME NULL \notin Slot, NEW m \in Memory, NEW c \in Slot,
         NEW k, k = update_capability_references(m, c)
  PROVE  k \in Memory /\ RestSame(m, k) /\ Updated(m, k, c)
<1> DEFINE rl == LIST_UPDATE_ADDRESS_NO_CONTAINER(Slot, m.resource_list, c)
           dl == LIST_UPDATE_ADDRESS_NO_CONTAINER(Slot, m.derivation_list, c)
           m1 == [m EXCEPT !.resource_list = rl, !.derivation_list = dl]
           D == Derived(m1, c)
           m2 == IF m1.flags[c] = {} THEN m1 ELSE set_derived_from(m1, D, c)
<1>1. m.resource_list \in ListField(Slot) /\ m.derivation_list \in ListField(Slot)
  BY MemoryParts
<1>2. rl \in ListField(Slot) /\ dl \in ListField(Slot)
  BY <1>1, UpdateType
<1>3. k = IF m2.derivation_list.prev[c] = NULL
          THEN [m2 EXCEPT !.derivation = SetUnlessNull(@, m2.derived_from[c], c)]
          ELSE m2
  BY DEF update_capability_references
<1>d. D = IF m1.derivation[c] = NULL THEN {}
          ELSE Members(Slot, m1.derivation_list.start[m1.derivation[c]], m1.derivation_list.next)
  BY DEF Derived, Iterated
<1> HIDE DEF rl, dl
<1>4. m1 \in Memory
  BY <1>2 DEF Memory
<1>5. /\ RestSame(m, m1) /\ m1.resource_list = rl /\ m1.derivation_list = dl
      /\ m1.derived_from = m.derived_from /\ m1.derivation = m.derivation
  BY DEF RestSame, Memory
<1> HIDE DEF m1, D
<1>6. /\ m2 \in Memory /\ RestSame(m1, m2)
      /\ m2.resource_list = rl /\ m2.derivation_list = dl
      /\ m2.derivation = m.derivation
      /\ m.flags[c] = {} => m2.derived_from = m.derived_from
      /\ m.flags[c] # {} => \A s \in Slot : m2.derived_from[s] = IF s \in D THEN c ELSE m.derived_from[s]
  <2>0. m1.flags = m.flags
    BY <1>5 DEF RestSame
  <2>1. CASE m.flags[c] = {}
    BY <1>4, <1>5, <2>0, <2>1 DEF RestSame
  <2>2. CASE m.flags[c] # {}
    <3>1. m2 = set_derived_from(m1, D, c)
      BY <2>0, <2>2
    <3> HIDE DEF m2
    <3> QED
      BY <1>4, <1>5, <2>2, <3>1, SetDerivedFromEffects
  <2> QED
    BY <2>1, <2>2
<1> HIDE DEF m2
<1>7. /\ m2.derivation \in [Slot -> Slot \cup {NULL}]
      /\ m2.derived_from \in [Slot -> Slot \cup {NULL}]
  BY <1>6, MemoryParts
<1>8. SetUnlessNull(m2.derivation, m2.derived_from[c], c) \in [Slot -> Slot \cup {NULL}]
  BY <1>7, SetUnlessNullType
<1>9. /\ k \in Memory /\ RestSame(m2, k)
      /\ k.resource_list = rl /\ k.derivation_list = dl /\ k.derived_from = m2.derived_from
      /\ dl.prev[c] # NULL => k.derivation = m.derivation
      /\ dl.prev[c] = NULL => k.derivation = SetUnlessNull(m.derivation, k.derived_from[c], c)
  <2>1. CASE dl.prev[c] = NULL
    <3> DEFINE v == SetUnlessNull(m2.derivation, m2.derived_from[c], c)
               j == [m2 EXCEPT !.derivation = v]
    <3>1. k = j
      BY <1>3, <1>6, <2>1
    <3>2. v = SetUnlessNull(m.derivation, m2.derived_from[c], c)
      BY <1>6
    <3>3. v \in [Slot -> Slot \cup {NULL}]
      BY <1>8
    <3> HIDE DEF v
    <3>4. j \in Memory
      BY <1>6, <3>3 DEF Memory
    <3>5. /\ RestSame(m2, j) /\ j.resource_list = m2.resource_list
          /\ j.derivation_list = m2.derivation_list
          /\ j.derived_from = m2.derived_from /\ j.derivation = v
      BY <1>6 DEF RestSame, Memory
    <3> HIDE DEF j
    <3> QED
      BY <1>6, <2>1, <3>1, <3>2, <3>4, <3>5
  <2>2. CASE dl.prev[c] # NULL
    BY <1>3, <1>6, <2>2 DEF RestSame
  <2> QED
    BY <2>1, <2>2
<1>10. RestSame(m, k)
  BY <1>5, <1>6, <1>9 DEF RestSame
<1>11. m.flags[c] = {} \/ m.derivation[c] = NULL
         => \A s \in Slot : k.derived_from[s] = m.derived_from[s]
  BY <1>d, <1>5, <1>6, <1>9
<1>12. m.flags[c] # {} /\ m.derivation[c] # NULL
         => \A s \in Slot : k.derived_from[s] =
              IF s \in Members(Slot, k.derivation_list.start[m.derivation[c]], k.derivation_list.next)
              THEN c ELSE m.derived_from[s]
  BY <1>d, <1>5, <1>6, <1>9
<1> QED
  BY <1>9, <1>10, <1>11, <1>12 DEF rl, dl, Updated

(* Slot `to` is a copy of slot `from`. *)
Copied(m, from, to) ==
  /\ m.resource[to] = m.resource[from] /\ m.flags[to] = m.flags[from]
  /\ m.resource_list.start[to] = m.resource_list.start[from]
  /\ m.resource_list.end[to] = m.resource_list.end[from]
  /\ m.resource_list.prev[to] = m.resource_list.prev[from]
  /\ m.resource_list.next[to] = m.resource_list.next[from]
  /\ m.derivation_list.start[to] = m.derivation_list.start[from]
  /\ m.derivation_list.end[to] = m.derivation_list.end[from]
  /\ m.derivation_list.prev[to] = m.derivation_list.prev[from]
  /\ m.derivation_list.next[to] = m.derivation_list.next[from]
  /\ m.derived_from[to] = m.derived_from[from] /\ m.derivation[to] = m.derivation[from]

(* One capability of L goes from `from` to the free slot `to`.             *)
Moving(m, L, N, from, to) ==
  /\ CapInv(m, L) /\ Copied(m, from, to)
  /\ \A s \in Slot : s \in N <=> (s \in L /\ s # from) \/ s = to
  /\ \A t \in L : m.derived_from[t] # to

(* All lists are in order after the move, and what it changed otherwise.   *)
Moved(m, k, L, N, from, to) ==
  /\ CapInv(k, N)
  /\ \A s \in L : m.resource[s] # m.resource[from] => SlotSame(m, k, s)
  /\ \A s \in Slot : s \notin L /\ s # to /\ s # m.derived_from[from] => SlotSame(m, k, s)
  /\ \A s \in L : s # from => (k.resource_list.prev[s] = NULL <=> m.resource_list.prev[s] = NULL)
  /\ k.resource_list.prev[to] = NULL <=> m.resource_list.prev[from] = NULL
  /\ \A s \in Slot : k.derived_from[s] = m.derived_from[s] \/ k.derived_from[s] = to

(* What is left to show when only the slots C, those of one resource and   *)
(* the new one, were changed.                                              *)
MovedGroup(m, k, L, N, C, from, to) ==
  /\ from \in C /\ to \in C
  /\ \A s \in C : s \in L \/ s = to
  /\ \A t \in L : t \in C <=> m.resource[t] = m.resource[from]
  /\ \A s \in Slot : s \notin C => /\ LinksSame(m.resource_list, k.resource_list, s)
                                   /\ LinksSame(m.derivation_list, k.derivation_list, s)
                                   /\ k.derived_from[s] = m.derived_from[s]
                                   /\ s # m.derived_from[from] => k.derivation[s] = m.derivation[s]
  /\ m.derived_from[from] \in L => m.derived_from[from] \in C
  /\ CapInv(k, N \cap C)
  /\ \A t \in N : t \in C => k.derived_from[t] \notin L \/ k.derived_from[t] \in C
  /\ \A s \in C : s \in L /\ s # from
       => (k.resource_list.prev[s] = NULL <=> m.resource_list.prev[s] = NULL)
  /\ k.resource_list.prev[to] = NULL <=> m.resource_list.prev[from] = NULL
  /\ \A s \in C : k.derived_from[s] = m.derived_from[s] \/ k.derived_from[s] = to

(* Then the move left all lists in order. *)
LEMMA MovedIntro ==
  ASSUME NULL \notin Slot, NEW m \in Memory, NEW k \in Memory, RestSame(m, k),
         NEW L \in SUBSET Slot, NEW N \in SUBSET Slot, NEW C \in SUBSET Slot,
         NEW from \in L, NEW to \in Slot, to \notin L,
         Moving(m, L, N, from, to), MovedGroup(m, k, L, N, C, from, to)
  PROVE  Moved(m, k, L, N, from, to)
<1>1. \A s \in Slot : s \notin C /\ s # m.derived_from[from] => SlotSame(m, k, s)
  BY DEF MovedGroup, RestSame, SlotSame
<1>2. \A s \in L : s \notin C => SlotSame(m, k, s)
  BY <1>1 DEF MovedGroup
<1>3. Elsewhere(m, k, L, N, C)
  <2>1. \A s \in Slot : s \notin C => (s \in N <=> s \in L)
    BY DEF Moving, MovedGroup
  <2>2. \A s, t \in L : s \notin C /\ t \in C => m.resource[t] # m.resource[s]
    BY DEF MovedGroup
  <2>3. ASSUME NEW s \in L, NEW t \in N, s \notin C, t \in C
        PROVE  k.resource[t] # m.resource[s] /\ m.derived_from[s] # t /\ k.derived_from[t] # s
    <3>1. m.resource[t] = m.resource[from] /\ m.resource[s] # m.resource[from]
      BY <2>3 DEF MovedGroup, Moving, Copied
    <3>2. m.derived_from[s] # t
      <4>1. CASE t = to
        BY <4>1 DEF Moving
      <4>2. CASE t # to
        <5>1. t \in L
          BY <2>3, <4>2 DEF MovedGroup
        <5> QED
          BY <3>1, <5>1 DEF Moving, CapInv
      <4> QED
        BY <4>1, <4>2
    <3>3. k.derived_from[t] # s
      BY <2>3 DEF MovedGroup
    <3> QED
      BY <3>1, <3>2, <3>3 DEF RestSame
  <2> QED
    BY <1>2, <2>1, <2>2, <2>3 DEF Elsewhere
<1>4. CapInv(k, N)
  BY <1>3, Regroup DEF Moving, MovedGroup
<1>5. \A s \in L : m.resource[s] # m.resource[from] => SlotSame(m, k, s)
  BY <1>2 DEF MovedGroup
<1>6. \A s \in Slot : s \notin L /\ s # to /\ s # m.derived_from[from] => SlotSame(m, k, s)
  BY <1>1 DEF MovedGroup
<1>7. \A s \in L : s # from => (k.resource_list.prev[s] = NULL <=> m.resource_list.prev[s] = NULL)
  BY DEF MovedGroup, LinksSame
<1>8. \A s \in Slot : k.derived_from[s] = m.derived_from[s] \/ k.derived_from[s] = to
  BY DEF MovedGroup
<1> QED
  BY <1>4, <1>5, <1>6, <1>7, <1>8 DEF Moved, MovedGroup

(* An original capability has no neighbours in a derivation list either.   *)
LEMMA NoNeighbours ==
  ASSUME NEW m, NEW s, OriginOk(m, s), m.flags[s] # {"ORIGINAL"} => Single(m.derivation_list, s)
  PROVE  m.derivation_list.prev[s] = NULL /\ m.derivation_list.next[s] = NULL
BY DEF OriginOk, Single

(* The only capability to its resource is moved.                           *)
LEMMA MoveAlone ==
  ASSUME NULL \notin Slot, NEW m \in Memory, NEW L \in SUBSET Slot, NEW N \in SUBSET Slot,
         NEW from \in L, NEW to \in Slot, to \notin L, Moving(m, L, N, from, to),
         NEW k \in Memory, RestSame(m, k), Updated(m, k, to),
         AloneOk(m, from), \A t \in L : t # from => m.resource[t] # m.resource[from]
  PROVE  Moved(m, k, L, N, from, to)
<1>0. /\ m.resource_list \in ListField(Slot) /\ m.derivation_list \in ListField(Slot)
      /\ m.derived_from \in [Slot -> Slot \cup {NULL}]
      /\ m.derivation \in [Slot -> Slot \cup {NULL}]
      /\ from \in Slot /\ from # to /\ OriginOk(m, from)
      /\ m.derived_from[from] # to
      /\ m.flags[to] = m.flags[from] /\ m.derived_from[to] = m.derived_from[from]
      /\ m.derivation[to] = m.derivation[from]
  BY MemoryParts DEF Moving, CapInv, Copied
<1> DEFINE p == m.derived_from[from]
           C == {from, to}
<1>r. /\ k.resource_list = LIST_UPDATE_ADDRESS_NO_CONTAINER(Slot, m.resource_list, to)
      /\ k.derivation_list = LIST_UPDATE_ADDRESS_NO_CONTAINER(Slot, m.derivation_list, to)
  BY DEF Updated
<1>1. p \notin L
  BY OriginGone DEF Moving
<1>2. /\ m.resource_list.prev[to] = NULL /\ m.resource_list.next[to] = NULL
      /\ m.resource_list.prev[from] = NULL
  BY DEF AloneOk, Single, Moving, Copied
<1>3. m.derivation_list.prev[to] = NULL /\ m.derivation_list.next[to] = NULL
  <2>1. m.derivation_list.prev[from] = NULL /\ m.derivation_list.next[from] = NULL
    BY <1>0, NoNeighbours DEF AloneOk
  <2> QED
    BY <2>1 DEF Moving, Copied
<1>4. m.derivation[to] = NULL
  BY <1>0 DEF AloneOk
<1>5. Single(k.resource_list, to) /\ \A s \in Slot : s # to => LinksSame(m.resource_list, k.resource_list, s)
  BY <1>0, <1>2, <1>r, UpdateSingle
<1>6. Single(k.derivation_list, to) /\ \A s \in Slot : s # to => LinksSame(m.derivation_list, k.derivation_list, s)
  BY <1>0, <1>3, <1>r, UpdateSingle
<1>7. \A s \in Slot : k.derived_from[s] = m.derived_from[s]
  BY <1>4 DEF Updated
<1>8. k.derivation = SetUnlessNull(m.derivation, p, to)
  <2>1. k.derivation_list.prev[to] = NULL /\ k.derived_from[to] = p
    BY <1>0, <1>6, <1>7 DEF Single
  <2> QED
    BY <2>1 DEF Updated
<1>9. \A s \in Slot : s # p => k.derivation[s] = m.derivation[s]
  BY <1>0, <1>8 DEF SetUnlessNull
<1>10. AloneOk(k, to) /\ OriginOk(k, to)
  <2>1. k.derivation[to] = NULL /\ k.derived_from[to] = p
    BY <1>0, <1>4, <1>7, <1>9
  <2>2. k.resource[to] = m.resource[from] /\ k.flags[to] = m.flags[from]
    BY <1>0 DEF Moving, Copied, RestSame
  <2> QED
    BY <1>0, <1>5, <1>6, <2>1, <2>2 DEF AloneOk, OriginOk, Single
<1>11. \A s : s \in N \cap C <=> s = to
  BY <1>0 DEF Moving
<1>12. CapInv(k, N \cap C)
  BY <1>10, <1>11, GroupOfOne
<1>13. MovedGroup(m, k, L, N, C, from, to)
  BY <1>0, <1>1, <1>2, <1>5, <1>6, <1>7, <1>9, <1>11, <1>12 DEF MovedGroup, Single
<1> QED
  BY <1>0, <1>13, MovedIntro

(* A capability that another one was derived from is moved.                *)
LEMMA MoveParent ==
  ASSUME NULL \notin Slot, NEW m \in Memory, NEW L \in SUBSET Slot, NEW N \in SUBSET Slot,
         NEW from \in L, NEW to \in Slot, to \notin L, Moving(m, L, N, from, to),
         NEW k \in Memory, RestSame(m, k), Updated(m, k, to),
         NEW d \in L, PairOk(m, from, d), ParentOf(m, from, d),
         \A t \in L : t # from /\ t # d => m.resource[t] # m.resource[from]
  PROVE  Moved(m, k, L, N, from, to)
<1>0. /\ m.resource_list \in ListField(Slot) /\ m.derivation_list \in ListField(Slot)
      /\ m.derived_from \in [Slot -> Slot \cup {NULL}]
      /\ m.derivation \in [Slot -> Slot \cup {NULL}]
      /\ from \in Slot /\ from # to /\ OriginOk(m, from)
      /\ m.derived_from[from] # to
      /\ m.flags[to] = m.flags[from] /\ m.derived_from[to] = m.derived_from[from]
      /\ m.derivation[to] = m.derivation[from]
  BY MemoryParts DEF Moving, CapInv, Copied
<1> DEFINE p == m.derived_from[from]
           C == {from, to, d}
<1>r. /\ k.resource_list = LIST_UPDATE_ADDRESS_NO_CONTAINER(Slot, m.resource_list, to)
      /\ k.derivation_list = LIST_UPDATE_ADDRESS_NO_CONTAINER(Slot, m.derivation_list, to)
  BY DEF Updated
<1>d. d \in Slot /\ d # to /\ d # from /\ m.resource[d] = m.resource[from] /\ OriginOk(m, d)
  BY DEF PairOk, Pair, Moving, CapInv
<1>1. p \notin L
  BY OriginGone DEF Moving
<1>2. /\ m.resource_list.prev[to] = NULL /\ m.resource_list.next[to] = d
      /\ m.resource_list.end[to] = d /\ m.resource_list.next[d] = NULL /\ m.resource_list.end[d] = d
      /\ m.resource_list.prev[from] = NULL /\ m.resource_list.prev[d] = from
  BY DEF PairOk, Pair, Moving, Copied
<1>3. m.derivation_list.prev[to] = NULL /\ m.derivation_list.next[to] = NULL
  <2>1. m.derivation_list.prev[from] = NULL /\ m.derivation_list.next[from] = NULL
    BY <1>0, NoNeighbours DEF ParentOf
  <2> QED
    BY <2>1 DEF Moving, Copied
<1>4. m.derivation[to] = d /\ m.flags[to] # {} /\ d # NULL
  BY <1>0, <1>d DEF ParentOf
<1>5. Pair(k.resource_list, to, d)
      /\ \A s \in Slot : s # to /\ s # d => LinksSame(m.resource_list, k.resource_list, s)
  BY <1>0, <1>d, <1>2, <1>r, UpdateFirst
<1>6. Single(k.derivation_list, to) /\ \A s \in Slot : s # to => LinksSame(m.derivation_list, k.derivation_list, s)
  BY <1>0, <1>3, <1>r, UpdateSingle
<1>7. Single(k.derivation_list, d)
  BY <1>d, <1>6 DEF ParentOf, Single, LinksSame
<1>8. \A s \in Slot : k.derived_from[s] = IF s = d THEN to ELSE m.derived_from[s]
  <2>1. k.derivation_list.next \in [Slot -> Slot \cup {NULL}]
    BY <1>0, MemoryParts, ListFieldParts
  <2>2. Members(Slot, d, k.derivation_list.next) = {d}
    BY <1>d, <1>7, <2>1, MembersOfOne DEF Single
  <2>3. k.derivation_list.start[m.derivation[to]] = d
    BY <1>4, <1>7 DEF Single
  <2>4. \A s \in Slot : k.derived_from[s] =
          IF s \in Members(Slot, k.derivation_list.start[m.derivation[to]], k.derivation_list.next)
          THEN to ELSE m.derived_from[s]
    BY <1>4 DEF Updated
  <2> QED
    BY <2>2, <2>3, <2>4
<1>9. k.derivation = SetUnlessNull(m.derivation, p, to)
  <2>1. k.derivation_list.prev[to] = NULL /\ k.derived_from[to] = p
    BY <1>0, <1>d, <1>6, <1>8 DEF Single
  <2> QED
    BY <2>1 DEF Updated
<1>10. \A s \in Slot : s # p => k.derivation[s] = m.derivation[s]
  BY <1>0, <1>9 DEF SetUnlessNull
<1>11. p # d /\ p # from
  BY DEF PairOk
<1>12. PairOk(k, to, d) /\ OriginOk(k, to) /\ OriginOk(k, d)
  <2>1. /\ k.derivation[to] = d /\ k.derivation[d] = NULL
        /\ k.derived_from[to] = p /\ k.derived_from[d] = to
    BY <1>0, <1>d, <1>4, <1>8, <1>10, <1>11 DEF ParentOf
  <2>2. /\ k.resource[to] = m.resource[from] /\ k.flags[to] = m.flags[from]
        /\ k.resource[d] = m.resource[d] /\ k.flags[d] = m.flags[d]
    BY <1>0 DEF Moving, Copied, RestSame
  <2>3. ParentOf(k, to, d)
    BY <1>4, <1>6, <1>7, <2>1, <2>2 DEF ParentOf
  <2>4. PairOk(k, to, d)
    BY <1>0, <1>d, <1>5, <1>11, <2>1, <2>2, <2>3 DEF PairOk
  <2>5. OriginOk(k, to) /\ OriginOk(k, d)
    BY <1>0, <1>d, <1>6, <1>7, <2>1, <2>2 DEF OriginOk, Single, ParentOf
  <2> QED
    BY <2>4, <2>5
<1>13. \A s : s \in N \cap C <=> s = to \/ s = d
  BY <1>0, <1>d DEF Moving
<1>14. CapInv(k, N \cap C)
  BY <1>12, <1>13, GroupOfTwo
<1>15. \A t \in L : t \in C <=> m.resource[t] = m.resource[from]
  BY <1>d
<1>16. \A s \in Slot : s \notin C => /\ LinksSame(m.resource_list, k.resource_list, s)
                                     /\ LinksSame(m.derivation_list, k.derivation_list, s)
                                     /\ k.derived_from[s] = m.derived_from[s]
                                     /\ s # p => k.derivation[s] = m.derivation[s]
  BY <1>5, <1>6, <1>8, <1>10
<1>17. \A t \in N : t \in C => k.derived_from[t] \notin L \/ k.derived_from[t] \in C
  BY <1>0, <1>d, <1>1, <1>8, <1>13
<1>18. /\ k.resource_list.prev[to] = NULL <=> m.resource_list.prev[from] = NULL
       /\ k.resource_list.prev[d] = to
  BY <1>2, <1>5 DEF Pair
<1>19. /\ from \in C /\ to \in C
       /\ \A s \in C : s \in L \/ s = to
       /\ \A s \in C : k.derived_from[s] = m.derived_from[s] \/ k.derived_from[s] = to
  BY <1>0, <1>d, <1>8
<1>20. \A s \in C : s \in L /\ s # from
         => (k.resource_list.prev[s] = NULL <=> m.resource_list.prev[s] = NULL)
  BY <1>0, <1>d, <1>2, <1>18
<1>21. C \in SUBSET Slot
  BY <1>0, <1>d
<1> HIDE DEF C
<1>22. MovedGroup(m, k, L, N, C, from, to)
  BY <1>1, <1>14, <1>15, <1>16, <1>17, <1>18, <1>19, <1>20 DEF MovedGroup
<1> QED
  BY <1>0, <1>21, <1>22, MovedIntro

(* A capability that was derived from another one is moved.                *)
LEMMA MoveChild ==
  ASSUME NULL \notin Slot, NEW m \in Memory, NEW L \in SUBSET Slot, NEW N \in SUBSET Slot,
         NEW from \in L, NEW to \in Slot, to \notin L, Moving(m, L, N, from, to),
         NEW k \in Memory, RestSame(m, k), Updated(m, k, to),
         NEW d \in L, PairOk(m, d, from), ParentOf(m, d, from),
         \A t \in L : t # from /\ t # d => m.resource[t] # m.resource[from]
  PROVE  Moved(m, k, L, N, from, to)
<1>0. /\ m.resource_list \in ListField(Slot) /\ m.derivation_list \in ListField(Slot)
      /\ m.derived_from \in [Slot -> Slot \cup {NULL}]
      /\ m.derivation \in [Slot -> Slot \cup {NULL}]
      /\ from \in Slot /\ from # to /\ OriginOk(m, from)
      /\ m.derived_from[from] # to
      /\ m.flags[to] = m.flags[from] /\ m.derived_from[to] = m.derived_from[from]
      /\ m.derivation[to] = m.derivation[from]
  BY MemoryParts DEF Moving, CapInv, Copied
<1> DEFINE p == m.derived_from[from]
           C == {from, to, d}
<1>r. /\ k.resource_list = LIST_UPDATE_ADDRESS_NO_CONTAINER(Slot, m.resource_list, to)
      /\ k.derivation_list = LIST_UPDATE_ADDRESS_NO_CONTAINER(Slot, m.derivation_list, to)
  BY DEF Updated
<1>d. /\ d \in Slot /\ d # to /\ d # from /\ m.resource[d] = m.resource[from]
      /\ OriginOk(m, d) /\ m.derived_from[d] # to
  BY DEF PairOk, Pair, Moving, CapInv
<1>1. p = d
  BY DEF ParentOf
<1>2. /\ m.resource_list.next[to] = NULL /\ m.resource_list.prev[to] = d
      /\ m.resource_list.start[to] = d /\ m.resource_list.prev[d] = NULL /\ m.resource_list.start[d] = d
      /\ m.resource_list.prev[from] = d
  BY DEF PairOk, Pair, Moving, Copied
<1>3. m.derivation_list.prev[to] = NULL /\ m.derivation_list.next[to] = NULL
  BY DEF ParentOf, Single, Moving, Copied
<1>4. m.derivation[to] = NULL
  BY <1>0 DEF ParentOf
<1>5. /\ Pair(k.resource_list, d, to)
      /\ \A s \in Slot : s # to /\ s # d => LinksSame(m.resource_list, k.resource_list, s)
  BY <1>0, <1>d, <1>2, <1>r, UpdateSecond
<1>6. Single(k.derivation_list, to) /\ \A s \in Slot : s # to => LinksSame(m.derivation_list, k.derivation_list, s)
  BY <1>0, <1>3, <1>r, UpdateSingle
<1>8. \A s \in Slot : k.derived_from[s] = m.derived_from[s]
  BY <1>4 DEF Updated
<1>9. k.derivation = [m.derivation EXCEPT ![d] = to]
  <2>1. k.derivation_list.prev[to] = NULL /\ k.derived_from[to] = d
    BY <1>0, <1>1, <1>6, <1>8 DEF Single
  <2>2. k.derivation = SetUnlessNull(m.derivation, d, to)
    BY <2>1 DEF Updated
  <2> QED
    BY <1>d, <2>2 DEF SetUnlessNull
<1>10. \A s \in Slot : s # p => k.derivation[s] = m.derivation[s]
  BY <1>0, <1>1, <1>9
<1>12. PairOk(k, d, to) /\ OriginOk(k, d) /\ OriginOk(k, to)
  <2>1. /\ k.derivation[d] = to /\ k.derivation[to] = NULL
        /\ k.derived_from[to] = d /\ k.derived_from[d] = m.derived_from[d]
    BY <1>0, <1>d, <1>1, <1>4, <1>8, <1>9
  <2>2. /\ k.resource[to] = m.resource[from] /\ k.flags[to] = m.flags[from]
        /\ k.resource[d] = m.resource[d] /\ k.flags[d] = m.flags[d]
    BY <1>0 DEF Moving, Copied, RestSame
  <2>3. ParentOf(k, d, to)
    BY <1>d, <1>6, <2>1, <2>2 DEF ParentOf, Single, LinksSame
  <2>4. PairOk(k, d, to)
    BY <1>0, <1>d, <1>5, <2>1, <2>2, <2>3 DEF PairOk
  <2>5. OriginOk(k, to) /\ OriginOk(k, d)
    BY <1>0, <1>d, <1>1, <1>6, <2>1, <2>2 DEF OriginOk, Single, LinksSame, ParentOf
  <2> QED
    BY <2>4, <2>5
<1>13. \A s : s \in N \cap C <=> s = d \/ s = to
  BY <1>0, <1>d DEF Moving
<1>14. CapInv(k, N \cap C)
  BY <1>12, <1>13, GroupOfTwo
<1>15. \A t \in L : t \in C <=> m.resource[t] = m.resource[from]
  BY <1>d
<1>16. \A s \in Slot : s \notin C
         => /\ LinksSame(m.resource_list, k.resource_list, s)
            /\ LinksSame(m.derivation_list, k.derivation_list, s)
            /\ k.derived_from[s] = m.derived_from[s]
            /\ s # p => k.derivation[s] = m.derivation[s]
  BY <1>5, <1>6, <1>8, <1>10
<1>17. \A t \in N : t \in C => k.derived_from[t] \notin L \/ k.derived_from[t] \in C
  <2>1. m.derived_from[d] \notin L
    BY <1>d, OriginGone DEF Moving
  <2> QED
    BY <1>0, <1>d, <1>1, <1>8, <1>13, <2>1
<1>18. /\ k.resource_list.prev[to] = NULL <=> m.resource_list.prev[from] = NULL
       /\ k.resource_list.prev[d] = NULL <=> m.resource_list.prev[d] = NULL
  BY <1>0, <1>d, <1>2, <1>5 DEF Pair
<1>19. /\ from \in C /\ to \in C
       /\ \A s \in C : s \in L \/ s = to
       /\ \A s \in C : k.derived_from[s] = m.derived_from[s] \/ k.derived_from[s] = to
  BY <1>0, <1>d, <1>8
<1>20. \A s \in C : s \in L /\ s # from
         => (k.resource_list.prev[s] = NULL <=> m.resource_list.prev[s] = NULL)
  BY <1>0, <1>d, <1>18
<1>21. C \in SUBSET Slot
  BY <1>0, <1>d
<1>22. p \in L => p \in C
  BY <1>1
<1> HIDE DEF C
<1>23. MovedGroup(m, k, L, N, C, from, to)
  BY <1>14, <1>15, <1>16, <1>17, <1>18, <1>19, <1>20, <1>22 DEF MovedGroup
<1> QED
  BY <1>0, <1>21, <1>23, MovedIntro

(* The first of two whose parent is gone is moved.                          *)
LEMMA MoveFirstSibling ==
  ASSUME NULL \notin Slot, NEW m \in Memory, NEW L \in SUBSET Slot, NEW N \in SUBSET Slot,
         NEW from \in L, NEW to \in Slot, to \notin L, Moving(m, L, N, from, to),
         NEW k \in Memory, RestSame(m, k), Updated(m, k, to),
         NEW d \in L, PairOk(m, from, d), Siblings(m, from, d),
         \A t \in L : t # from /\ t # d => m.resource[t] # m.resource[from]
  PROVE  Moved(m, k, L, N, from, to)
<1>0. /\ m.resource_list \in ListField(Slot) /\ m.derivation_list \in ListField(Slot)
      /\ m.derived_from \in [Slot -> Slot \cup {NULL}]
      /\ m.derivation \in [Slot -> Slot \cup {NULL}]
      /\ from \in Slot /\ from # to /\ OriginOk(m, from)
      /\ m.derived_from[from] # to
      /\ m.flags[to] = m.flags[from] /\ m.derived_from[to] = m.derived_from[from]
      /\ m.derivation[to] = m.derivation[from]
  BY MemoryParts DEF Moving, CapInv, Copied
<1> DEFINE p == m.derived_from[from]
           C == {from, to, d}
<1>r. /\ k.resource_list = LIST_UPDATE_ADDRESS_NO_CONTAINER(Slot, m.resource_list, to)
      /\ k.derivation_list = LIST_UPDATE_ADDRESS_NO_CONTAINER(Slot, m.derivation_list, to)
  BY DEF Updated
<1>d. /\ d \in Slot /\ d # to /\ d # from /\ m.resource[d] = m.resource[from]
      /\ OriginOk(m, d) /\ m.derived_from[d] # to
  BY DEF PairOk, Pair, Moving, CapInv
<1>1. p \notin L
  BY OriginGone DEF Moving
<1>s. m.derived_from[d] \notin L
  BY OriginGone DEF Moving, Siblings
<1>2. /\ m.resource_list.prev[to] = NULL /\ m.resource_list.next[to] = d
      /\ m.resource_list.end[to] = d /\ m.resource_list.next[d] = NULL /\ m.resource_list.end[d] = d
      /\ m.resource_list.prev[from] = NULL /\ m.resource_list.prev[d] = from
  BY DEF PairOk, Pair, Moving, Copied
<1>3. /\ m.derivation_list.prev[to] = NULL /\ m.derivation_list.next[to] = d
      /\ m.derivation_list.end[to] = d /\ m.derivation_list.next[d] = NULL /\ m.derivation_list.end[d] = d
      /\ m.derivation_list.prev[from] = NULL /\ m.derivation_list.prev[d] = from
  BY DEF Siblings, Pair, Moving, Copied
<1>4. m.flags[to] = {} /\ m.derivation[to] = NULL
  BY <1>0 DEF Siblings
<1>5. /\ Pair(k.resource_list, to, d)
      /\ \A s \in Slot : s # to /\ s # d => LinksSame(m.resource_list, k.resource_list, s)
  BY <1>0, <1>d, <1>2, <1>r, UpdateFirst
<1>6. /\ Pair(k.derivation_list, to, d)
      /\ \A s \in Slot : s # to /\ s # d => LinksSame(m.derivation_list, k.derivation_list, s)
  BY <1>0, <1>d, <1>3, <1>r, UpdateFirst
<1>8. \A s \in Slot : k.derived_from[s] = m.derived_from[s]
  BY <1>4 DEF Updated
<1>9. k.derivation = SetUnlessNull(m.derivation, p, to)
  <2>1. k.derivation_list.prev[to] = NULL /\ k.derived_from[to] = p
    BY <1>0, <1>6, <1>8 DEF Pair
  <2> QED
    BY <2>1 DEF Updated
<1>10. \A s \in Slot : s # p => k.derivation[s] = m.derivation[s]
  BY <1>0, <1>9 DEF SetUnlessNull
<1>12. PairOk(k, to, d) /\ OriginOk(k, to) /\ OriginOk(k, d)
  <2>1. /\ k.derivation[to] = NULL /\ k.derivation[d] = NULL
        /\ k.derived_from[to] = p /\ k.derived_from[d] = m.derived_from[d]
    BY <1>0, <1>d, <1>1, <1>4, <1>8, <1>10 DEF Siblings
  <2>2. /\ k.resource[to] = m.resource[from] /\ k.flags[to] = m.flags[from]
        /\ k.resource[d] = m.resource[d] /\ k.flags[d] = m.flags[d]
    BY <1>0 DEF Moving, Copied, RestSame
  <2>3. p # d /\ p # to /\ m.derived_from[d] # d /\ m.derived_from[d] # to
    BY <1>0, <1>d, <1>1, <1>s
  <2>4. Siblings(k, to, d)
    BY <1>6, <2>1, <2>2, <2>3 DEF Siblings
  <2>5. PairOk(k, to, d)
    BY <1>d, <1>5, <2>1, <2>2, <2>3, <2>4 DEF PairOk
  <2>6. m.flags[from] = {} /\ m.flags[d] = {}
    BY DEF Siblings
  <2>7. OriginOk(k, to) /\ OriginOk(k, d)
    BY <1>0, <1>d, <2>1, <2>2, <2>6 DEF OriginOk
  <2> QED
    BY <2>5, <2>7
<1>13. \A s : s \in N \cap C <=> s = to \/ s = d
  BY <1>0, <1>d DEF Moving
<1>14. CapInv(k, N \cap C)
  BY <1>12, <1>13, GroupOfTwo
<1>15. \A t \in L : t \in C <=> m.resource[t] = m.resource[from]
  BY <1>d
<1>16. \A s \in Slot : s \notin C
         => /\ LinksSame(m.resource_list, k.resource_list, s)
            /\ LinksSame(m.derivation_list, k.derivation_list, s)
            /\ k.derived_from[s] = m.derived_from[s]
            /\ s # p => k.derivation[s] = m.derivation[s]
  BY <1>5, <1>6, <1>8, <1>10
<1>17. \A t \in N : t \in C => k.derived_from[t] \notin L \/ k.derived_from[t] \in C
  BY <1>0, <1>d, <1>1, <1>s, <1>8, <1>13
<1>18. /\ k.resource_list.prev[to] = NULL <=> m.resource_list.prev[from] = NULL
       /\ k.resource_list.prev[d] = NULL <=> m.resource_list.prev[d] = NULL
  BY <1>0, <1>d, <1>2, <1>5 DEF Pair
<1>19. /\ from \in C /\ to \in C
       /\ \A s \in C : s \in L \/ s = to
       /\ \A s \in C : k.derived_from[s] = m.derived_from[s] \/ k.derived_from[s] = to
  BY <1>0, <1>d, <1>8
<1>20. \A s \in C : s \in L /\ s # from
         => (k.resource_list.prev[s] = NULL <=> m.resource_list.prev[s] = NULL)
  BY <1>0, <1>d, <1>18
<1>21. C \in SUBSET Slot
  BY <1>0, <1>d
<1>22. p \in L => p \in C
  BY <1>1
<1> HIDE DEF C
<1>23. MovedGroup(m, k, L, N, C, from, to)
  BY <1>14, <1>15, <1>16, <1>17, <1>18, <1>19, <1>20, <1>22 DEF MovedGroup
<1> QED
  BY <1>0, <1>21, <1>23, MovedIntro

(* The second of them is.                                                 *)
LEMMA MoveSecondSibling ==
  ASSUME NULL \notin Slot, NEW m \in Memory, NEW L \in SUBSET Slot, NEW N \in SUBSET Slot,
         NEW from \in L, NEW to \in Slot, to \notin L, Moving(m, L, N, from, to),
         NEW k \in Memory, RestSame(m, k), Updated(m, k, to),
         NEW d \in L, PairOk(m, d, from), Siblings(m, d, from),
         \A t \in L : t # from /\ t # d => m.resource[t] # m.resource[from]
  PROVE  Moved(m, k, L, N, from, to)
<1>0. /\ m.resource_list \in ListField(Slot) /\ m.derivation_list \in ListField(Slot)
      /\ m.derived_from \in [Slot -> Slot \cup {NULL}]
      /\ m.derivation \in [Slot -> Slot \cup {NULL}]
      /\ from \in Slot /\ from # to /\ OriginOk(m, from)
      /\ m.derived_from[from] # to
      /\ m.flags[to] = m.flags[from] /\ m.derived_from[to] = m.derived_from[from]
      /\ m.derivation[to] = m.derivation[from]
  BY MemoryParts DEF Moving, CapInv, Copied
<1> DEFINE p == m.derived_from[from]
           C == {from, to, d}
<1>r. /\ k.resource_list = LIST_UPDATE_ADDRESS_NO_CONTAINER(Slot, m.resource_list, to)
      /\ k.derivation_list = LIST_UPDATE_ADDRESS_NO_CONTAINER(Slot, m.derivation_list, to)
  BY DEF Updated
<1>d. /\ d \in Slot /\ d # to /\ d # from /\ m.resource[d] = m.resource[from]
      /\ OriginOk(m, d) /\ m.derived_from[d] # to
  BY DEF PairOk, Pair, Moving, CapInv
<1>1. p \notin L
  BY OriginGone DEF Moving, Siblings
<1>s. m.derived_from[d] \notin L
  BY OriginGone DEF Moving
<1>2. /\ m.resource_list.next[to] = NULL /\ m.resource_list.prev[to] = d
      /\ m.resource_list.start[to] = d /\ m.resource_list.prev[d] = NULL /\ m.resource_list.start[d] = d
      /\ m.resource_list.prev[from] = d
  BY DEF PairOk, Pair, Moving, Copied
<1>3. /\ m.derivation_list.next[to] = NULL /\ m.derivation_list.prev[to] = d
      /\ m.derivation_list.start[to] = d /\ m.derivation_list.prev[d] = NULL /\ m.derivation_list.start[d] = d
      /\ m.derivation_list.prev[from] = d
  BY DEF Siblings, Pair, Moving, Copied
<1>4. m.flags[to] = {} /\ m.derivation[to] = NULL
  BY <1>0 DEF Siblings
<1>5. /\ Pair(k.resource_list, d, to)
      /\ \A s \in Slot : s # to /\ s # d => LinksSame(m.resource_list, k.resource_list, s)
  BY <1>0, <1>d, <1>2, <1>r, UpdateSecond
<1>6. /\ Pair(k.derivation_list, d, to)
      /\ \A s \in Slot : s # to /\ s # d => LinksSame(m.derivation_list, k.derivation_list, s)
  BY <1>0, <1>d, <1>3, <1>r, UpdateSecond
<1>8. \A s \in Slot : k.derived_from[s] = m.derived_from[s]
  BY <1>4 DEF Updated
<1>9. k.derivation_list.prev[to] # NULL
  BY <1>d, <1>6 DEF Pair
<1>10. \A s \in Slot : s # p => k.derivation[s] = m.derivation[s]
  BY <1>9 DEF Updated
<1>12. PairOk(k, d, to) /\ OriginOk(k, d) /\ OriginOk(k, to)
  <2>1. /\ k.derivation[to] = NULL /\ k.derivation[d] = NULL
        /\ k.derived_from[to] = p /\ k.derived_from[d] = m.derived_from[d]
    BY <1>0, <1>d, <1>1, <1>4, <1>8, <1>10 DEF Siblings
  <2>2. /\ k.resource[to] = m.resource[from] /\ k.flags[to] = m.flags[from]
        /\ k.resource[d] = m.resource[d] /\ k.flags[d] = m.flags[d]
    BY <1>0 DEF Moving, Copied, RestSame
  <2>3. p # d /\ p # to /\ m.derived_from[d] # d /\ m.derived_from[d] # to
    BY <1>0, <1>d, <1>1, <1>s
  <2>4. Siblings(k, d, to)
    BY <1>6, <2>1, <2>2, <2>3 DEF Siblings
  <2>5. PairOk(k, d, to)
    BY <1>d, <1>5, <2>1, <2>2, <2>3, <2>4 DEF PairOk
  <2>6. m.flags[from] = {} /\ m.flags[d] = {}
    BY DEF Siblings
  <2>7. OriginOk(k, to) /\ OriginOk(k, d)
    BY <1>0, <1>d, <2>1, <2>2, <2>6 DEF OriginOk
  <2> QED
    BY <2>5, <2>7
<1>13. \A s : s \in N \cap C <=> s = d \/ s = to
  BY <1>0, <1>d DEF Moving
<1>14. CapInv(k, N \cap C)
  BY <1>12, <1>13, GroupOfTwo
<1>15. \A t \in L : t \in C <=> m.resource[t] = m.resource[from]
  BY <1>d
<1>16. \A s \in Slot : s \notin C
         => /\ LinksSame(m.resource_list, k.resource_list, s)
            /\ LinksSame(m.derivation_list, k.derivation_list, s)
            /\ k.derived_from[s] = m.derived_from[s]
            /\ s # p => k.derivation[s] = m.derivation[s]
  BY <1>5, <1>6, <1>8, <1>10
<1>17. \A t \in N : t \in C => k.derived_from[t] \notin L \/ k.derived_from[t] \in C
  BY <1>0, <1>d, <1>1, <1>s, <1>8, <1>13
<1>18. /\ k.resource_list.prev[to] = NULL <=> m.resource_list.prev[from] = NULL
       /\ k.resource_list.prev[d] = NULL <=> m.resource_list.prev[d] = NULL
  BY <1>0, <1>d, <1>2, <1>5 DEF Pair
<1>19. /\ from \in C /\ to \in C
       /\ \A s \in C : s \in L \/ s = to
       /\ \A s \in C : k.derived_from[s] = m.derived_from[s] \/ k.derived_from[s] = to
  BY <1>0, <1>d, <1>8
<1>20. \A s \in C : s \in L /\ s # from
         => (k.resource_list.prev[s] = NULL <=> m.resource_list.prev[s] = NULL)
  BY <1>0, <1>d, <1>18
<1>21. C \in SUBSET Slot
  BY <1>0, <1>d
<1>22. p \in L => p \in C
  BY <1>1
<1> HIDE DEF C
<1>23. MovedGroup(m, k, L, N, C, from, to)
  BY <1>14, <1>15, <1>16, <1>17, <1>18, <1>19, <1>20, <1>22 DEF MovedGroup
<1> QED
  BY <1>0, <1>21, <1>23, MovedIntro

(***************************************************************************)
(* update_capability_references finishes a move: the lists that the old    *)
(* slot was on have the new one in its place.                              *)
(***************************************************************************)
LEMMA UpdateFinishesMove ==
  ASSUME NULL \notin Slot, NEW m \in Memory, NEW L \in SUBSET Slot, NEW N \in SUBSET Slot,
         NEW from \in L, NEW to \in Slot, to \notin L, Moving(m, L, N, from, to),
         NEW k \in Memory, RestSame(m, k), Updated(m, k, to)
  PROVE  Moved(m, k, L, N, from, to)
<1>0. CapInv(m, L)
  BY DEF Moving
<1>1. CASE /\ AloneOk(m, from)
           /\ \A t \in L : t # from => m.resource[t] # m.resource[from]
  BY <1>1, MoveAlone
<1>2. ASSUME NEW d \in L, PairOk(m, from, d),
             \A t \in L : t # from /\ t # d => m.resource[t] # m.resource[from]
      PROVE  Moved(m, k, L, N, from, to)
  <2>1. CASE ParentOf(m, from, d)
    BY <1>2, <2>1, MoveParent
  <2>2. CASE Siblings(m, from, d)
    BY <1>2, <2>2, MoveFirstSibling
  <2> QED
    BY <1>2, <2>1, <2>2 DEF PairOk
<1>3. ASSUME NEW d \in L, PairOk(m, d, from),
             \A t \in L : t # from /\ t # d => m.resource[t] # m.resource[from]
      PROVE  Moved(m, k, L, N, from, to)
  <2>1. CASE ParentOf(m, d, from)
    BY <1>3, <2>1, MoveChild
  <2>2. CASE Siblings(m, d, from)
    BY <1>3, <2>2, MoveSecondSibling
  <2> QED
    BY <1>3, <2>1, <2>2 DEF PairOk
<1> QED
  BY <1>0, <1>1, <1>2, <1>3, GroupOf

-----------------------------------------------------------------------------
(* What the calls keep in order.                                           *)

(* The slot at an address when the nodes are in the places pl. *)
At(pl, a) == <<pl[a[1]], a[2]>>

PlaceOk(pl) == /\ pl \in [Node -> Place]
               /\ \A n, o \in Node : pl[n] = pl[o] => n = o

Holding(m) == {s \in Slot : m.handlers[s]}

(* The heap knows the owner of t's resource, if t is the first in its list. *)
OwnerOk(m, pl, t) == m.resource_list.prev[t] = NULL
  => /\ m.owner[m.resource[t]] \in CapAddress
     /\ At(pl, m.owner[m.resource[t]]) = t

(* Slot t is in a node. *)
Occupied(pl, t) == \E a \in CapAddress : At(pl, a) = t

MemOk(m, pl) ==
  /\ m \in Memory /\ ~m.hung
  /\ CapInv(m, Holding(m))
  /\ \A t \in Slot : m.handlers[t] => OwnerOk(m, pl, t) /\ Occupied(pl, t)
  /\ \A r \in Resource : r \in m.allocated <=> \E t \in Slot : m.handlers[t] /\ m.resource[t] = r

(* The slots that hold a capability, without the set of them. *)
LEMMA HoldingMember ==
  ASSUME NEW m
  PROVE  /\ Holding(m) \in SUBSET Slot
         /\ \A s \in Slot : s \in Holding(m) <=> m.handlers[s]
BY DEF Holding

(***************************************************************************)
(* A call that changes nothing but the capabilities C to resource r, and   *)
(* leaves those in order.                                                  *)
(***************************************************************************)
OneGroup(m, k, pl, C, r) ==
  /\ \A s \in Slot : s \notin C => (k.handlers[s] <=> m.handlers[s])
  /\ \A s \in Slot : s \notin C /\ m.handlers[s] => SlotSame(m, k, s) /\ m.resource[s] # r
  /\ \A s \in Slot : s \in C /\ m.handlers[s] => m.resource[s] = r
  /\ \A t \in Slot : t \in C /\ k.handlers[t]
       => /\ k.resource[t] = r
          /\ ~m.handlers[t] => \A s \in Slot : m.handlers[s] => m.derived_from[s] # t
          /\ \A s \in Slot : s \notin C /\ m.handlers[s] => k.derived_from[t] # s
          /\ Occupied(pl, t)
          /\ OwnerOk(k, pl, t)
  /\ CapInv(k, Holding(k) \cap C)
  /\ \A x \in Resource : x # r => k.owner[x] = m.owner[x] /\ (x \in k.allocated <=> x \in m.allocated)
  /\ r \in k.allocated <=> \E t \in Slot : t \in C /\ k.handlers[t]

(* It leaves everything in order. *)
LEMMA OneGroupOk ==
  ASSUME NULL \notin Slot, NEW pl, NEW m, MemOk(m, pl), NEW k \in Memory, ~k.hung,
         NEW C \in SUBSET Slot, NEW r \in Resource, OneGroup(m, k, pl, C, r)
  PROVE  MemOk(k, pl)
<1> DEFINE L == Holding(m)
           N == Holding(k)
<1>0. /\ m \in Memory /\ CapInv(m, L)
      /\ \A t \in Slot : m.handlers[t] => OwnerOk(m, pl, t) /\ Occupied(pl, t)
      /\ \A x \in Resource : x \in m.allocated <=> \E t \in Slot : m.handlers[t] /\ m.resource[t] = x
  BY DEF MemOk
<1>1. /\ L \in SUBSET Slot /\ \A s \in Slot : s \in L <=> m.handlers[s]
      /\ N \in SUBSET Slot /\ \A s \in Slot : s \in N <=> k.handlers[s]
  BY HoldingMember
<1> HIDE DEF L, N
<1>2. Elsewhere(m, k, L, N, C)
  <2>1. \A s \in Slot : s \notin C => (s \in N <=> s \in L)
    BY <1>1 DEF OneGroup
  <2>2. \A s \in L : s \notin C => SlotSame(m, k, s) /\ m.resource[s] # r
    BY <1>1 DEF OneGroup
  <2>3. \A s, t \in L : s \notin C /\ t \in C => m.resource[t] # m.resource[s]
    BY <1>1, <2>2 DEF OneGroup
  <2>4. ASSUME NEW s \in L, NEW t \in N, s \notin C, t \in C
        PROVE  k.resource[t] # m.resource[s] /\ m.derived_from[s] # t /\ k.derived_from[t] # s
    <3>1. /\ s \in Slot /\ t \in Slot /\ k.handlers[t] /\ m.handlers[s] /\ m.resource[s] # r
          /\ k.resource[t] = r /\ k.derived_from[t] # s
      BY <1>1, <2>2, <2>4 DEF OneGroup
    <3>2. CASE m.handlers[t]
      <4>1. t \in L /\ m.resource[t] = r
        BY <1>1, <2>4, <3>1, <3>2 DEF OneGroup
      <4>2. m.derived_from[s] # t
        BY <1>0, <3>1, <4>1 DEF CapInv
      <4> QED
        BY <3>1, <4>2
    <3>3. CASE ~m.handlers[t]
      <4>1. m.derived_from[s] # t
        BY <2>4, <3>1, <3>3 DEF OneGroup
      <4> QED
        BY <3>1, <4>1
    <3> QED
      BY <3>2, <3>3
  <2> QED
    BY <2>1, <2>2, <2>3, <2>4 DEF Elsewhere
<1>3. CapInv(k, N)
  <2>1. CapInv(k, N \cap C)
    BY DEF OneGroup, N
  <2> QED
    BY <1>0, <1>1, <1>2, <2>1, Regroup
<1>4. ASSUME NEW t \in Slot, k.handlers[t]
      PROVE  OwnerOk(k, pl, t) /\ Occupied(pl, t)
  <2>1. CASE t \in C
    BY <1>4, <2>1 DEF OneGroup
  <2>2. CASE t \notin C
    <3>1. /\ m.handlers[t] /\ SlotSame(m, k, t) /\ m.resource[t] # r
          /\ OwnerOk(m, pl, t) /\ Occupied(pl, t)
      BY <1>0, <1>4, <2>2 DEF OneGroup
    <3>2. k.resource[t] = m.resource[t] /\ k.resource_list.prev[t] = m.resource_list.prev[t]
      BY <3>1 DEF SlotSame, LinksSame
    <3>3. m.resource[t] \in Resource
      BY <1>0, <1>1, <3>1 DEF CapInv, OriginOk
    <3>4. k.owner[m.resource[t]] = m.owner[m.resource[t]]
      BY <3>1, <3>3 DEF OneGroup
    <3>5. OwnerOk(k, pl, t)
      BY <3>1, <3>2, <3>4 DEF OwnerOk
    <3> QED
      BY <3>1, <3>5
  <2> QED
    BY <2>1, <2>2
<1>5. ASSUME NEW x \in Resource
      PROVE  x \in k.allocated <=> \E t \in Slot : k.handlers[t] /\ k.resource[t] = x
  <2>1. CASE x = r
    <3>1. \A t \in Slot : t \in C /\ k.handlers[t] => k.resource[t] = r
      BY DEF OneGroup
    <3>2. \A t \in Slot : t \notin C /\ k.handlers[t] => k.resource[t] # r
      BY DEF OneGroup, SlotSame
    <3>3. r \in k.allocated <=> \E t \in Slot : t \in C /\ k.handlers[t]
      BY DEF OneGroup
    <3> QED
      BY <2>1, <3>1, <3>2, <3>3
  <2>2. CASE x # r
    <3>1. x \in k.allocated <=> x \in m.allocated
      BY <2>2 DEF OneGroup
    <3>2. \A t \in Slot : k.handlers[t] /\ k.resource[t] = x <=> m.handlers[t] /\ m.resource[t] = x
      <4> TAKE t \in Slot
      <4>1. CASE t \in C
        BY <2>2, <4>1 DEF OneGroup
      <4>2. CASE t \notin C
        BY <4>2 DEF OneGroup, SlotSame
      <4> QED
        BY <4>1, <4>2
    <3> QED
      BY <1>0, <3>1, <3>2
  <2> QED
    BY <2>1, <2>2
<1> QED
  BY <1>3, <1>4, <1>5 DEF MemOk, N

(* A capability whose resource no other has. *)
LEMMA HoldingOne ==
  ASSUME NULL \notin Slot, NEW k \in Memory, NEW C \in SUBSET Slot, NEW c \in Slot,
         \A s \in Slot : s \in C /\ k.handlers[s] <=> s = c,
         AloneOk(k, c), OriginOk(k, c)
  PROVE  CapInv(k, Holding(k) \cap C)
<1>1. \A s : s \in Holding(k) \cap C <=> s = c
  BY HoldingMember
<1> QED
  BY <1>1, GroupOfOne

(* Two that are all to their resource. *)
LEMMA HoldingTwo ==
  ASSUME NULL \notin Slot, NEW k \in Memory, NEW C \in SUBSET Slot, NEW c \in Slot, NEW d \in Slot,
         \A s \in Slot : s \in C /\ k.handlers[s] <=> s = c \/ s = d,
         PairOk(k, c, d), OriginOk(k, c), OriginOk(k, d)
  PROVE  CapInv(k, Holding(k) \cap C)
<1>1. \A s : s \in Holding(k) \cap C <=> s = c \/ s = d
  BY HoldingMember
<1> QED
  BY <1>1, GroupOfTwo

-----------------------------------------------------------------------------
(* A memory is the record of its parts. *)
LEMMA MemoryRecord ==
  ASSUME NEW m \in Memory
  PROVE  m = [handlers |-> m.handlers, resource |-> m.resource, flags |-> m.flags,
              resource_list |-> m.resource_list, derivation_list |-> m.derivation_list,
              derived_from |-> m.derived_from, derivation |-> m.derivation,
              owner |-> m.owner, allocated |-> m.allocated, hung |-> m.hung]
BY DEF Memory

(* populate_capability_slot.                                               *)
LEMMA PopulateOk ==
  ASSUME NULL \notin Slot, NEW pl, NEW m, MemOk(m, pl),
         NEW a \in CapAddress, NEW s \in Slot, s = At(pl, a), ~m.handlers[s],
         \A t \in Slot : m.handlers[t] => m.derived_from[t] # s,
         NEW r \in Resource, r \notin m.allocated,
         NEW dl \in ListField(Slot), dl.prev[s] = NULL, dl.next[s] = NULL,
         \A t \in Slot : t # s => LinksSame(m.derivation_list, dl, t)
  PROVE  MemOk([m EXCEPT !.handlers[s] = TRUE,
                         !.resource[s] = r,
                         !.flags[s] = {"ORIGINAL"},
                         !.resource_list = LIST_INIT_NO_CONTAINER(@, s),
                         !.derivation_list = dl,
                         !.derived_from[s] = NULL,
                         !.derivation[s] = NULL,
                         !.owner[r] = a,
                         !.allocated = @ \cup {r}], pl)
<1> DEFINE rl == LIST_INIT_NO_CONTAINER(m.resource_list, s)
           C == {s}
           k == [m EXCEPT !.handlers[s] = TRUE,
                           !.resource[s] = r,
                           !.flags[s] = {"ORIGINAL"},
                           !.resource_list = LIST_INIT_NO_CONTAINER(@, s),
                           !.derivation_list = dl,
                           !.derived_from[s] = NULL,
                           !.derivation[s] = NULL,
                           !.owner[r] = a,
                           !.allocated = @ \cup {r}]
<1>0. /\ m \in Memory /\ ~m.hung
      /\ \A t \in Slot : m.handlers[t] => OwnerOk(m, pl, t) /\ Occupied(pl, t)
      /\ \A x \in Resource : x \in m.allocated <=> \E t \in Slot : m.handlers[t] /\ m.resource[t] = x
  BY DEF MemOk
<1>1. /\ m.handlers \in [Slot -> BOOLEAN] /\ m.resource \in [Slot -> Resource \cup {NULL}]
      /\ m.flags \in [Slot -> Flags] /\ m.resource_list \in ListField(Slot)
      /\ m.derived_from \in [Slot -> Slot \cup {NULL}]
      /\ m.derivation \in [Slot -> Slot \cup {NULL}]
      /\ m.owner \in [Resource -> CapAddress \cup {NULL}]
      /\ m.allocated \in SUBSET Resource
  BY <1>0, MemoryParts
<1>2. /\ Single(rl, s) /\ rl \in ListField(Slot)
      /\ \A t \in Slot : t # s => LinksSame(m.resource_list, rl, t)
  BY <1>1, InitSingle
<1>m. m = [handlers |-> m.handlers, resource |-> m.resource, flags |-> m.flags,
           resource_list |-> m.resource_list, derivation_list |-> m.derivation_list,
           derived_from |-> m.derived_from, derivation |-> m.derivation,
           owner |-> m.owner, allocated |-> m.allocated, hung |-> m.hung]
  BY <1>0, MemoryRecord
<1>4. /\ k.handlers = [m.handlers EXCEPT ![s] = TRUE] /\ k.resource = [m.resource EXCEPT ![s] = r]
      /\ k.flags = [m.flags EXCEPT ![s] = {"ORIGINAL"}]
      /\ k.resource_list = rl /\ k.derivation_list = dl
      /\ k.derived_from = [m.derived_from EXCEPT ![s] = NULL]
      /\ k.derivation = [m.derivation EXCEPT ![s] = NULL]
      /\ k.owner = [m.owner EXCEPT ![r] = a] /\ k.allocated = m.allocated \cup {r}
      /\ k.hung = m.hung
  BY <1>0 DEF Memory
<1>5. k \in Memory
  <2> DEFINE hd == [m.handlers EXCEPT ![s] = TRUE]
             rs == [m.resource EXCEPT ![s] = r]
             fl == [m.flags EXCEPT ![s] = {"ORIGINAL"}]
             df == [m.derived_from EXCEPT ![s] = NULL]
             dv == [m.derivation EXCEPT ![s] = NULL]
             ow == [m.owner EXCEPT ![r] = a]
             al == m.allocated \cup {r}
             j == [m EXCEPT !.handlers = hd, !.resource = rs, !.flags = fl,
                            !.resource_list = rl, !.derivation_list = dl,
                            !.derived_from = df, !.derivation = dv,
                            !.owner = ow, !.allocated = al]
  <2>2. /\ hd \in [Slot -> BOOLEAN] /\ rs \in [Slot -> Resource \cup {NULL}]
        /\ fl \in [Slot -> Flags]
        /\ df \in [Slot -> Slot \cup {NULL}] /\ dv \in [Slot -> Slot \cup {NULL}]
        /\ ow \in [Resource -> CapAddress \cup {NULL}] /\ al \in SUBSET Resource
    BY <1>1 DEF Flags
  <2>3. k = j
    OBVIOUS
  <2> HIDE DEF k, rl, hd, rs, fl, df, dv, ow, al
  <2>4. j \in Memory
    BY <1>0, <1>2, <2>2 DEF Memory
  <2> QED
    BY <2>3, <2>4
<1> HIDE DEF rl, k
<1>6. /\ k.handlers[s] /\ k.resource[s] = r /\ k.flags[s] = {"ORIGINAL"}
      /\ k.derived_from[s] = NULL /\ k.derivation[s] = NULL /\ k.owner[r] = a
      /\ \A t \in Slot : t # s => (k.handlers[t] <=> m.handlers[t]) /\ SlotSame(m, k, t)
      /\ \A x \in Resource : x # r => k.owner[x] = m.owner[x] /\ (x \in k.allocated <=> x \in m.allocated)
      /\ r \in k.allocated
  BY <1>1, <1>2, <1>4 DEF SlotSame
<1>7. \A t \in Slot : m.handlers[t] => t # s /\ m.resource[t] # r
  BY <1>0
<1>8. AloneOk(k, s) /\ OriginOk(k, s)
  BY <1>2, <1>4, <1>6 DEF AloneOk, OriginOk
<1>14. C \in SUBSET Slot /\ ~k.hung
  BY <1>0, <1>4
<1>9. CapInv(k, Holding(k) \cap C)
  <2>1. \A t \in Slot : t \in C /\ k.handlers[t] <=> t = s
    BY <1>6
  <2> HIDE DEF C
  <2> QED
    BY <1>5, <1>8, <1>14, <2>1, HoldingOne
<1>10. OwnerOk(k, pl, s) /\ Occupied(pl, s)
  BY <1>6 DEF OwnerOk, Occupied
<1>11. /\ \A t \in Slot : t \notin C => (k.handlers[t] <=> m.handlers[t])
       /\ \A t \in Slot : t \notin C /\ m.handlers[t] => SlotSame(m, k, t) /\ m.resource[t] # r
       /\ \A t \in Slot : t \in C /\ m.handlers[t] => m.resource[t] = r
       /\ r \in k.allocated <=> \E t \in Slot : t \in C /\ k.handlers[t]
  BY <1>6, <1>7
<1>12. ASSUME NEW t \in Slot, t \in C, k.handlers[t]
       PROVE  /\ k.resource[t] = r
              /\ ~m.handlers[t] => \A u \in Slot : m.handlers[u] => m.derived_from[u] # t
              /\ \A u \in Slot : u \notin C /\ m.handlers[u] => k.derived_from[t] # u
              /\ Occupied(pl, t)
              /\ OwnerOk(k, pl, t)
  BY <1>6, <1>10, <1>12
<1> HIDE DEF C
<1>13. OneGroup(m, k, pl, C, r)
  BY <1>6, <1>9, <1>11, <1>12 DEF OneGroup
<1> QED
  BY <1>5, <1>13, <1>14, OneGroupOk DEF k

-----------------------------------------------------------------------------
(* move_capability.                                                        *)

(* No slot but one has been filled or emptied. *)
HandlersBut(m, k, to) == \A s \in Slot : s # to => k.handlers[s] = m.handlers[s]

(* memcpy of a slot. *)
LEMMA CopySlotEffects ==
  ASSUME NULL \notin Slot, NEW m \in Memory, NEW from \in Slot, NEW to \in Slot,
         NEW k, k = copy_slot(m, from, to)
  PROVE  /\ k \in Memory
         /\ Copied(k, from, to)
         /\ \A s \in Slot : s # to => SlotSame(m, k, s)
         /\ HandlersBut(m, k, to)
         /\ k.handlers[to] = m.handlers[from]
         /\ k.owner = m.owner /\ k.allocated = m.allocated /\ k.hung = m.hung
         /\ k.resource[to] = m.resource[from]
<1> DEFINE Copy(f) == [f EXCEPT ![to] = f[from]]
           Links(f) == [start |-> Copy(f.start), end |-> Copy(f.end),
                        prev |-> Copy(f.prev), next |-> Copy(f.next)]
           c == [m EXCEPT !.handlers = Copy(@), !.resource = Copy(@), !.flags = Copy(@),
                          !.resource_list = Links(@), !.derivation_list = Links(@),
                          !.derived_from = Copy(@), !.derivation = Copy(@)]
<1>1. k = c
  BY DEF copy_slot
<1>2. /\ m.handlers \in [Slot -> BOOLEAN] /\ m.resource \in [Slot -> Resource \cup {NULL}]
      /\ m.flags \in [Slot -> Flags]
      /\ m.resource_list \in ListField(Slot) /\ m.derivation_list \in ListField(Slot)
      /\ m.derived_from \in [Slot -> Slot \cup {NULL}]
      /\ m.derivation \in [Slot -> Slot \cup {NULL}]
  BY MemoryParts
<1>3. /\ c.handlers = Copy(m.handlers) /\ c.resource = Copy(m.resource) /\ c.flags = Copy(m.flags)
      /\ c.resource_list = Links(m.resource_list) /\ c.derivation_list = Links(m.derivation_list)
      /\ c.derived_from = Copy(m.derived_from) /\ c.derivation = Copy(m.derivation)
      /\ c.owner = m.owner /\ c.allocated = m.allocated /\ c.hung = m.hung
  BY DEF Memory
<1>4. /\ Copy(m.handlers) \in [Slot -> BOOLEAN] /\ Copy(m.resource) \in [Slot -> Resource \cup {NULL}]
      /\ Copy(m.flags) \in [Slot -> Flags]
      /\ Copy(m.derived_from) \in [Slot -> Slot \cup {NULL}]
      /\ Copy(m.derivation) \in [Slot -> Slot \cup {NULL}]
  BY <1>2
<1>5. ASSUME NEW f \in ListField(Slot)
      PROVE  /\ Links(f) \in ListField(Slot)
             /\ \A s \in Slot : s # to => LinksSame(f, Links(f), s)
             /\ Links(f).start[to] = f.start[from] /\ Links(f).end[to] = f.end[from]
             /\ Links(f).prev[to] = f.prev[from] /\ Links(f).next[to] = f.next[from]
  <2>1. /\ f.start \in [Slot -> Slot \cup {NULL}] /\ f.end \in [Slot -> Slot \cup {NULL}]
        /\ f.prev \in [Slot -> Slot \cup {NULL}] /\ f.next \in [Slot -> Slot \cup {NULL}]
    BY ListFieldParts
  <2> QED
    BY <2>1 DEF ListField, LinksSame
<1>6. \A s \in Slot : s # to
        => /\ Copy(m.handlers)[s] = m.handlers[s] /\ Copy(m.resource)[s] = m.resource[s]
           /\ Copy(m.flags)[s] = m.flags[s]
           /\ Copy(m.derived_from)[s] = m.derived_from[s] /\ Copy(m.derivation)[s] = m.derivation[s]
  BY <1>2
<1>7. /\ Copy(m.handlers)[to] = m.handlers[from] /\ Copy(m.resource)[to] = m.resource[from]
      /\ Copy(m.flags)[to] = m.flags[from]
      /\ Copy(m.derived_from)[to] = m.derived_from[from] /\ Copy(m.derivation)[to] = m.derivation[from]
  BY <1>2
<1>8. /\ Links(m.resource_list) \in ListField(Slot)
      /\ Links(m.derivation_list) \in ListField(Slot)
  BY <1>2, <1>5
<1> DEFINE rl == Links(m.resource_list)
           dl == Links(m.derivation_list)
<1>9. /\ \A s \in Slot : s # to => LinksSame(m.resource_list, rl, s)
      /\ rl.start[to] = m.resource_list.start[from] /\ rl.end[to] = m.resource_list.end[from]
      /\ rl.prev[to] = m.resource_list.prev[from] /\ rl.next[to] = m.resource_list.next[from]
  BY <1>2, <1>5
<1>10. /\ \A s \in Slot : s # to => LinksSame(m.derivation_list, dl, s)
       /\ dl.start[to] = m.derivation_list.start[from] /\ dl.end[to] = m.derivation_list.end[from]
       /\ dl.prev[to] = m.derivation_list.prev[from] /\ dl.next[to] = m.derivation_list.next[from]
  BY <1>2, <1>5
<1> HIDE DEF Links, Copy
<1>11. c \in Memory
  BY <1>4, <1>8 DEF Memory
<1> HIDE DEF c, rl, dl
<1>12. \A s \in Slot : s # to => SlotSame(m, c, s)
  BY <1>3, <1>6, <1>9, <1>10 DEF SlotSame, rl, dl
<1>13. Copied(c, from, to)
  <2>1. CASE from = to
    BY <2>1 DEF Copied
  <2>2. CASE from # to
    <3>1. /\ LinksSame(m.resource_list, rl, from) /\ LinksSame(m.derivation_list, dl, from)
          /\ c.resource_list = rl /\ c.derivation_list = dl
      BY <1>3, <1>9, <1>10, <2>2 DEF rl, dl
    <3> QED
      BY <1>3, <1>6, <1>7, <1>9, <1>10, <2>2, <3>1 DEF Copied, LinksSame
  <2> QED
    BY <2>1, <2>2
<1>14. /\ \A s \in Slot : s # to => c.handlers[s] = m.handlers[s]
       /\ c.handlers[to] = m.handlers[from]
       /\ c.owner = m.owner /\ c.allocated = m.allocated /\ c.hung = m.hung
       /\ c.resource[to] = m.resource[from]
  BY <1>3, <1>6, <1>7
<1>15. HandlersBut(m, c, to)
  BY <1>14 DEF HandlersBut
<1> QED
  BY <1>1, <1>14, <1>15, <1>11, <1>12, <1>13


(* What the slots say is all that counts. *)
LEMMA CapInvSame ==
  ASSUME NULL \notin Slot, NEW m \in Memory, NEW k \in Memory, NEW L \in SUBSET Slot,
         CapInv(m, L), \A s \in L : SlotSame(m, k, s)
  PROVE  CapInv(k, L)
<1>1. Elsewhere(m, k, L, L, {})
  BY DEF Elsewhere
<1>2. CapInv(k, L \cap {})
  BY DEF CapInv
<1> QED
  BY <1>1, <1>2, Regroup

(* Only one capability to a resource is the first in its list. *)
LEMMA FirstUnique ==
  ASSUME NULL \notin Slot, NEW m \in Memory, NEW L \in SUBSET Slot, CapInv(m, L),
         NEW s \in L, NEW t \in L, m.resource[s] = m.resource[t],
         m.resource_list.prev[s] = NULL, m.resource_list.prev[t] = NULL
  PROVE  s = t
<1>1. CASE \A x \in L : x # s => m.resource[x] # m.resource[s]
  BY <1>1
<1>2. ASSUME NEW d \in L, PairOk(m, s, d),
             \A x \in L : x # s /\ x # d => m.resource[x] # m.resource[s]
      PROVE  s = t
  <2>1. m.resource_list.prev[d] = s
    BY <1>2 DEF PairOk, Pair
  <2> QED
    BY <1>2, <2>1
<1>3. ASSUME NEW d \in L, PairOk(m, d, s)
      PROVE  FALSE
  <2>1. m.resource_list.prev[s] = d
    BY <1>3 DEF PairOk, Pair
  <2> QED
    BY <2>1
<1> QED
  BY <1>1, <1>2, <1>3, GroupOf

(* The address of a slot in a node. *)
LEMMA AddressFound ==
  ASSUME NEW s, Occupied(place, s)
  PROVE  AddressOf(s) \in CapAddress /\ At(place, AddressOf(s)) = s
<1>1. \E a \in CapAddress : SlotAt(a) = s
  BY DEF Occupied, At, SlotAt
<1>2. AddressOf(s) = CHOOSE a \in CapAddress : SlotAt(a) = s
  BY DEF AddressOf
<1>3. AddressOf(s) \in CapAddress /\ SlotAt(AddressOf(s)) = s
  BY <1>1, <1>2
<1> QED
  BY <1>3 DEF At, SlotAt

(* Writing handlers, owners or allocations moves no list. *)
LEMMA OtherFieldsSame ==
  ASSUME NEW m \in Memory, NEW k,
         k.resource = m.resource, k.flags = m.flags, k.resource_list = m.resource_list,
         k.derivation_list = m.derivation_list, k.derived_from = m.derived_from,
         k.derivation = m.derivation
  PROVE  \A s : SlotSame(m, k, s)
BY DEF SlotSame, LinksSame

(* The last steps of a move. *)
LEMMA MoveEffects ==
  ASSUME NULL \notin Slot, NEW m \in Memory, NEW from \in Slot, NEW to \in Slot, from # to,
         m.handlers[from], Occupied(place, to),
         NEW c \in Memory, c = update_capability_references(copy_slot(m, from, to), to),
         c.resource[to] \in Resource
  PROVE  LET k == move_capability(m, from, to)
         IN  /\ k \in Memory
             /\ \A s \in Slot : SlotSame(c, k, s)
             /\ k.handlers = [c.handlers EXCEPT ![from] = FALSE]
             /\ k.allocated = c.allocated /\ k.hung = c.hung
             /\ \A r \in Resource : r # c.resource[to] => k.owner[r] = c.owner[r]
             /\ c.resource_list.prev[to] = NULL
                  => k.owner[c.resource[to]] \in CapAddress /\ At(place, k.owner[c.resource[to]]) = to
             /\ c.resource_list.prev[to] # NULL => k.owner = c.owner
<1> DEFINE b == [c EXCEPT !.handlers[from] = FALSE]
           a == [b EXCEPT !.owner[b.resource[to]] = AddressOf(to)]
           k == move_capability(m, from, to)
<1>1. AddressOf(to) \in CapAddress /\ At(place, AddressOf(to)) = to
  BY AddressFound
<1>2. k = IF b.resource_list.prev[to] = NULL THEN a ELSE b
  BY DEF move_capability
<1>3. /\ c.handlers \in [Slot -> BOOLEAN] /\ c.owner \in [Resource -> CapAddress \cup {NULL}]
  BY MemoryParts
<1>4. /\ b.handlers = [c.handlers EXCEPT ![from] = FALSE]
      /\ b.resource = c.resource /\ b.flags = c.flags /\ b.resource_list = c.resource_list
      /\ b.derivation_list = c.derivation_list /\ b.derived_from = c.derived_from
      /\ b.derivation = c.derivation /\ b.owner = c.owner
      /\ b.allocated = c.allocated /\ b.hung = c.hung
      /\ b \in Memory
  <2>1. [c.handlers EXCEPT ![from] = FALSE] \in [Slot -> BOOLEAN]
    BY <1>3
  <2> QED
    BY <2>1 DEF Memory
<1>5. \A s : SlotSame(c, b, s)
  BY <1>4, OtherFieldsSame
<1> HIDE DEF b
<1>6. CASE c.resource_list.prev[to] # NULL
  <2>1. k = b
    BY <1>2, <1>4, <1>6
  <2> HIDE DEF k
  <2> QED
    BY <1>4, <1>5, <1>6, <2>1 DEF k
<1>7. CASE c.resource_list.prev[to] = NULL
  <2>1. k = a
    BY <1>2, <1>4, <1>7
  <2>2. [b.owner EXCEPT ![c.resource[to]] = AddressOf(to)] \in [Resource -> CapAddress \cup {NULL}]
    BY <1>1, <1>3, <1>4
  <2>3. /\ a.handlers = b.handlers
        /\ a.resource = b.resource /\ a.flags = b.flags /\ a.resource_list = b.resource_list
        /\ a.derivation_list = b.derivation_list /\ a.derived_from = b.derived_from
        /\ a.derivation = b.derivation
        /\ a.owner = [b.owner EXCEPT ![c.resource[to]] = AddressOf(to)]
        /\ a.allocated = b.allocated /\ a.hung = b.hung
        /\ a \in Memory
    BY <1>4, <2>2 DEF Memory
  <2>4. \A s : SlotSame(b, a, s)
    BY <1>4, <2>3, OtherFieldsSame
  <2> HIDE DEF k, a
  <2>5. \A s : SlotSame(c, a, s)
    BY <1>5, <2>4 DEF SlotSame, LinksSame
  <2>6. /\ a.owner[c.resource[to]] = AddressOf(to)
        /\ \A r \in Resource : r # c.resource[to] => a.owner[r] = c.owner[r]
    BY <1>3, <1>4, <2>3
  <2> QED
    BY <1>1, <1>4, <1>7, <2>1, <2>3, <2>5, <2>6 DEF k
<1> QED
  BY <1>6, <1>7

(* A capability that is moved to a free slot stays on its lists. *)
LEMMA MoveOk ==
  ASSUME NULL \notin Slot, NEW m, MemOk(m, place), NEW from \in Slot, NEW to \in Slot,
         m.handlers[from], ~m.handlers[to], Occupied(place, to),
         \A t \in Slot : m.handlers[t] => m.derived_from[t] # to
  PROVE  MemOk(move_capability(m, from, to), place)
<1> DEFINE L == Holding(m)
           b == copy_slot(m, from, to)
           c == update_capability_references(b, to)
           k == move_capability(m, from, to)
           N == Holding(k)
           r == m.resource[from]
<1>0. /\ m \in Memory /\ ~m.hung /\ CapInv(m, L)
      /\ \A t \in Slot : m.handlers[t] => OwnerOk(m, place, t) /\ Occupied(place, t)
      /\ \A x \in Resource : x \in m.allocated <=> \E t \in Slot : m.handlers[t] /\ m.resource[t] = x
  BY DEF MemOk
<1>1. /\ L \in SUBSET Slot /\ \A s \in Slot : s \in L <=> m.handlers[s]
      /\ N \in SUBSET Slot /\ \A s \in Slot : s \in N <=> k.handlers[s]
  BY HoldingMember
<1> HIDE DEF L, N, b, c, k
<1>2. from \in L /\ to \notin L /\ from # to
  BY <1>1
<1>3. /\ b \in Memory /\ Copied(b, from, to)
      /\ \A s \in Slot : s # to => SlotSame(m, b, s)
      /\ \A s \in Slot : s # to => b.handlers[s] = m.handlers[s]
      /\ b.handlers[to] = m.handlers[from]
      /\ b.owner = m.owner /\ b.allocated = m.allocated /\ b.hung = m.hung
      /\ b.resource[to] = r
  <2>0. m \in Memory
    BY <1>0
  <2>1. b = copy_slot(m, from, to)
    BY DEF b
  <2>2. /\ b \in Memory /\ Copied(b, from, to) /\ b.resource[to] = r
        /\ b.owner = m.owner /\ b.allocated = m.allocated /\ b.hung = m.hung
    BY <2>0, <2>1, CopySlotEffects
  <2>3. HandlersBut(m, b, to)
    BY <2>0, <2>1, CopySlotEffects
  <2>5. b.handlers[to] = m.handlers[from]
    BY <2>0, <2>1, CopySlotEffects
  <2>4. \A s \in Slot : s # to => SlotSame(m, b, s)
    BY <2>0, <2>1, CopySlotEffects
  <2> QED
    BY <2>2, <2>3, <2>4, <2>5 DEF HandlersBut
<1>4. CapInv(b, L)
  BY <1>0, <1>1, <1>2, <1>3, CapInvSame
<1> DEFINE Q == {s \in Slot : (s \in L /\ s # from) \/ s = to}
<1>5. Q \in SUBSET Slot /\ \A s \in Slot : s \in Q <=> (s \in L /\ s # from) \/ s = to
  OBVIOUS
<1> HIDE DEF Q
<1>6. Moving(b, L, Q, from, to)
  <2>1. \A t \in L : b.derived_from[t] # to
    BY <1>1, <1>2, <1>3 DEF SlotSame
  <2> QED
    BY <1>3, <1>4, <1>5, <2>1 DEF Moving
<1>7. c \in Memory /\ RestSame(b, c) /\ Updated(b, c, to)
  BY <1>3, UpdateReferences DEF c
<1>8. Moved(b, c, L, Q, from, to)
  BY <1>1, <1>2, <1>3, <1>5, <1>6, <1>7, UpdateFinishesMove
<1>9. r \in Resource /\ c.resource[to] = r
  BY <1>0, <1>2, <1>3, <1>7 DEF CapInv, OriginOk, RestSame
<1>10. /\ k \in Memory
       /\ \A s \in Slot : SlotSame(c, k, s)
       /\ k.handlers = [c.handlers EXCEPT ![from] = FALSE]
       /\ k.allocated = c.allocated /\ k.hung = c.hung
       /\ \A x \in Resource : x # c.resource[to] => k.owner[x] = c.owner[x]
       /\ c.resource_list.prev[to] = NULL
            => k.owner[c.resource[to]] \in CapAddress /\ At(place, k.owner[c.resource[to]]) = to
       /\ c.resource_list.prev[to] # NULL => k.owner = c.owner
  BY <1>0, <1>2, <1>7, <1>9, MoveEffects DEF k, b, c
<1>11. /\ \A s \in Slot : k.handlers[s] <=> s \in Q
       /\ k.allocated = m.allocated /\ ~k.hung
       /\ \A x \in Resource : x # r => k.owner[x] = m.owner[x]
       /\ c.resource_list.prev[to] # NULL => k.owner = m.owner
  <2>1. m.handlers \in [Slot -> BOOLEAN]
    BY <1>0, MemoryParts
  <2>2. c.handlers \in [Slot -> BOOLEAN] /\ c.handlers = b.handlers
    BY <1>7, MemoryParts DEF RestSame
  <2>3. \A s \in Slot : k.handlers[s] <=> c.handlers[s] /\ s # from
    BY <1>10, <2>2
  <2>4. \A s \in Slot : k.handlers[s] <=> s \in Q
    BY <1>1, <1>2, <1>3, <1>5, <2>2, <2>3
  <2>5. k.allocated = m.allocated /\ ~k.hung /\ c.owner = m.owner
    BY <1>0, <1>3, <1>7, <1>10 DEF RestSame
  <2> QED
    BY <1>9, <1>10, <2>4, <2>5
<1>12. CapInv(k, Q)
  <2>1. CapInv(c, Q) /\ \A s \in Q : SlotSame(c, k, s)
    BY <1>5, <1>8, <1>10 DEF Moved
  <2> QED
    BY <1>5, <1>7, <1>10, <2>1, CapInvSame
<1>13. CapInv(k, N)
  <2>1. N = Q
    BY <1>1, <1>5, <1>11
  <2> QED
    BY <1>12, <2>1
<1>14. /\ k.resource[to] = r
       /\ k.resource_list.prev[to] = c.resource_list.prev[to]
       /\ c.resource_list.prev[to] = NULL <=> m.resource_list.prev[from] = NULL
       /\ \A s \in L : s # from => /\ k.resource[s] = m.resource[s]
                                   /\ k.resource_list.prev[s] = NULL <=> m.resource_list.prev[s] = NULL
  <2>1. /\ c.resource_list.prev[to] = NULL <=> b.resource_list.prev[from] = NULL
        /\ \A s \in L : s # from => (c.resource_list.prev[s] = NULL <=> b.resource_list.prev[s] = NULL)
    BY <1>8 DEF Moved
  <2>2. k.resource[to] = r /\ k.resource_list.prev[to] = c.resource_list.prev[to]
    BY <1>9, <1>10 DEF SlotSame, LinksSame
  <2>3. from # to /\ from \in Slot /\ \A s \in L : s \in Slot /\ s # to
    BY <1>1, <1>2
  <2>4. b.resource_list.prev[from] = m.resource_list.prev[from]
    BY <1>3, <2>3 DEF SlotSame, LinksSame
  <2>5. ASSUME NEW s \in L, s # from
        PROVE  /\ k.resource[s] = m.resource[s]
               /\ k.resource_list.prev[s] = NULL <=> m.resource_list.prev[s] = NULL
    <3>1. SlotSame(m, b, s) /\ SlotSame(c, k, s)
      BY <1>3, <1>10, <2>3
    <3>2. c.resource = b.resource
      BY <1>7 DEF RestSame
    <3> QED
      BY <2>1, <2>5, <3>1, <3>2 DEF SlotSame, LinksSame
  <2> QED
    BY <2>1, <2>2, <2>4, <2>5
<1>15. ASSUME NEW t \in Slot, k.handlers[t]
       PROVE  OwnerOk(k, place, t) /\ Occupied(place, t)
  <2>1. CASE t = to
    BY <1>9, <1>10, <1>14, <2>1 DEF OwnerOk
  <2>2. CASE t # to
    <3>1. t \in L /\ t # from /\ m.handlers[t] /\ OwnerOk(m, place, t) /\ Occupied(place, t)
      BY <1>0, <1>1, <1>5, <1>11, <1>15, <2>2
    <3>2. /\ k.resource[t] = m.resource[t]
          /\ k.resource_list.prev[t] = NULL <=> m.resource_list.prev[t] = NULL
      BY <1>14, <3>1
    <3>3. m.resource[t] \in Resource
      BY <1>0, <3>1 DEF CapInv, OriginOk
    <3>4. m.resource_list.prev[t] = NULL => k.owner[m.resource[t]] = m.owner[m.resource[t]]
      <4>1. CASE m.resource[t] # r
        BY <1>11, <3>3, <4>1
      <4>2. CASE m.resource[t] = r /\ m.resource_list.prev[t] = NULL
        <5>1. m.resource_list.prev[from] # NULL
          BY <1>0, <1>1, <1>2, <3>1, <4>2, FirstUnique
        <5> QED
          BY <1>11, <1>14, <5>1
      <4> QED
        BY <4>1, <4>2
    <3> QED
      BY <3>1, <3>2, <3>4 DEF OwnerOk
  <2> QED
    BY <2>1, <2>2
<1>16. ASSUME NEW x \in Resource
       PROVE  x \in k.allocated <=> \E t \in Slot : k.handlers[t] /\ k.resource[t] = x
  <2>1. ASSUME NEW t \in Slot, m.handlers[t], m.resource[t] = x
        PROVE  \E u \in Slot : k.handlers[u] /\ k.resource[u] = x
    <3>1. CASE t = from
      BY <1>5, <1>11, <1>14, <2>1, <3>1
    <3>2. CASE t # from
      BY <1>1, <1>5, <1>11, <1>14, <2>1, <3>2
    <3> QED
      BY <3>1, <3>2
  <2>2. ASSUME NEW t \in Slot, k.handlers[t], k.resource[t] = x
        PROVE  \E u \in Slot : m.handlers[u] /\ m.resource[u] = x
    <3>1. CASE t = to
      BY <1>14, <2>2, <3>1
    <3>2. CASE t # to
      BY <1>1, <1>5, <1>11, <1>14, <2>2, <3>2
    <3> QED
      BY <3>1, <3>2
  <2> QED
    BY <1>0, <1>11, <2>1, <2>2
<1>17. MemOk(k, place)
  BY <1>10, <1>11, <1>13, <1>15, <1>16 DEF MemOk, N
<1> QED
  BY <1>17 DEF k

-----------------------------------------------------------------------------
(* copy_capability.                                                        *)

(* The slot that is copied, before it is put on any list. *)
LEMMA CopiedSlotEffects ==
  ASSUME NULL \notin Slot, NEW m \in Memory, NEW s \in Slot, NEW d \in Slot, s # d,
         NEW b, b = copied_slot(m, s, d)
  PROVE  /\ b \in Memory /\ HandlersBut(m, b, d) /\ b.handlers[d] = m.handlers[s]
         /\ b.owner = m.owner /\ b.allocated = m.allocated /\ b.hung = m.hung
         /\ \A t \in Slot : t # d => SlotSame(m, b, t)
         /\ b.resource[d] = m.resource[s] /\ b.flags[d] = {}
         /\ b.derived_from[d] = m.derived_from[s]
<1> DEFINE a == copy_slot(m, s, d)
           c == [a EXCEPT !.flags[d] = {}]
<1>1. b = c
  BY DEF copied_slot
<1>2. a = copy_slot(m, s, d)
  OBVIOUS
<1> HIDE DEF a
<1>3. /\ a \in Memory /\ Copied(a, s, d) /\ a.handlers[d] = m.handlers[s]
      /\ a.owner = m.owner /\ a.allocated = m.allocated /\ a.hung = m.hung
      /\ a.resource[d] = m.resource[s]
  BY <1>2, CopySlotEffects
<1>4. \A t \in Slot : t # d => SlotSame(m, a, t)
  BY <1>2, CopySlotEffects
<1>5. HandlersBut(m, a, d)
  BY <1>2, CopySlotEffects
<1>6. /\ c.handlers = a.handlers /\ c.resource = a.resource
      /\ c.flags = [a.flags EXCEPT ![d] = {}]
      /\ c.resource_list = a.resource_list /\ c.derivation_list = a.derivation_list
      /\ c.derived_from = a.derived_from /\ c.derivation = a.derivation
      /\ c.owner = a.owner /\ c.allocated = a.allocated /\ c.hung = a.hung
  BY <1>3 DEF Memory
<1>7. a.flags \in [Slot -> Flags] /\ {} \in Flags
  BY <1>3, MemoryParts DEF Flags
<1>8. c \in Memory
  <2>1. [a.flags EXCEPT ![d] = {}] \in [Slot -> Flags]
    BY <1>7
  <2> QED
    BY <1>3, <2>1 DEF Memory
<1> HIDE DEF c
<1>9. /\ c.flags[d] = {} /\ \A t \in Slot : t # d => c.flags[t] = a.flags[t]
  BY <1>6, <1>7
<1>10. \A t \in Slot : t # d => SlotSame(m, c, t)
  BY <1>4, <1>6, <1>9 DEF SlotSame, LinksSame
<1>11. a.derived_from[d] = m.derived_from[s]
  BY <1>3, <1>4 DEF Copied, SlotSame
<1>12. HandlersBut(m, c, d)
  BY <1>5, <1>6 DEF HandlersBut
<1> QED
  BY <1>1, <1>3, <1>6, <1>8, <1>9, <1>10, <1>11, <1>12

(* What is left of copy_capability: the copy is put on the lists.          *)
CopyMade(m, k, s, d) ==
  /\ k \in Memory /\ HandlersBut(m, k, d) /\ k.handlers[d] = m.handlers[s]
  /\ k.owner = m.owner /\ k.allocated = m.allocated /\ k.hung = m.hung
  /\ \A t \in Slot : t # s /\ t # d => SlotSame(m, k, t)
  /\ k.resource[d] = m.resource[s] /\ k.resource[s] = m.resource[s]
  /\ k.flags[d] \in {{}, {"BADGED"}} /\ k.flags[s] = m.flags[s]
  /\ k.derived_from[s] = m.derived_from[s]
  /\ k.derived_from[d] = s \/ k.derived_from[d] = m.derived_from[s]
  /\ PairOk(k, s, d) /\ OriginOk(k, s) /\ OriginOk(k, d)

(* A copy of a capability whose parent is gone. *)
LEMMA CopyOfCopy ==
  ASSUME NULL \notin Slot, NEW m \in Memory, NEW s \in Slot, NEW d \in Slot, s # d,
         AloneOk(m, s), OriginOk(m, s), m.derived_from[s] # d, m.flags[s] = {}
  PROVE  CopyMade(m, copy_capability(m, s, d), s, d)
<1> DEFINE b == copied_slot(m, s, d)
           rl == LIST_INSERT_NO_CONTAINER(b.resource_list, s, d)
           dl == LIST_INSERT_NO_CONTAINER(b.derivation_list, s, d)
           k == [b EXCEPT !.resource_list = rl, !.derivation_list = dl,
                          !.derivation = [b.derivation EXCEPT ![d] = NULL]]
<1>0. b = copied_slot(m, s, d)
  OBVIOUS
<1>1. copy_capability(m, s, d) = [[[b EXCEPT !.resource_list = LIST_INSERT_NO_CONTAINER(@, s, d)]
         EXCEPT !.derivation_list = LIST_INSERT_NO_CONTAINER(@, s, d)] EXCEPT !.derivation[d] = NULL]
  BY DEF copy_capability
<1> HIDE DEF b
<1>2. /\ b \in Memory /\ HandlersBut(m, b, d) /\ b.handlers[d] = m.handlers[s]
      /\ b.owner = m.owner /\ b.allocated = m.allocated /\ b.hung = m.hung
      /\ b.resource[d] = m.resource[s] /\ b.flags[d] = {}
      /\ b.derived_from[d] = m.derived_from[s]
  BY <1>0, CopiedSlotEffects
<1>3. \A t \in Slot : t # d => SlotSame(m, b, t)
  BY <1>0, CopiedSlotEffects
<1>4. copy_capability(m, s, d) = k
  BY <1>1, <1>2 DEF Memory
<1>5. /\ b.resource_list \in ListField(Slot) /\ b.derivation_list \in ListField(Slot)
      /\ b.derivation \in [Slot -> Slot \cup {NULL}]
  BY <1>2, MemoryParts
<1>6. Single(b.resource_list, s) /\ Single(b.derivation_list, s)
  BY <1>3 DEF AloneOk, Single, SlotSame, LinksSame
<1>7. Pair(rl, s, d) /\ rl \in ListField(Slot) /\ \A t \in Slot : t # s /\ t # d => LinksSame(b.resource_list, rl, t)
  BY <1>5, <1>6, InsertSecond
<1>8. Pair(dl, s, d) /\ dl \in ListField(Slot) /\ \A t \in Slot : t # s /\ t # d => LinksSame(b.derivation_list, dl, t)
  BY <1>5, <1>6, InsertSecond
<1> HIDE DEF rl, dl
<1>9. [b.derivation EXCEPT ![d] = NULL] \in [Slot -> Slot \cup {NULL}]
  BY <1>5
<1>10. k \in Memory
  BY <1>2, <1>7, <1>8, <1>9 DEF Memory
<1>11. /\ k.handlers = b.handlers /\ k.resource = b.resource /\ k.flags = b.flags
       /\ k.resource_list = rl /\ k.derivation_list = dl
       /\ k.derived_from = b.derived_from /\ k.derivation = [b.derivation EXCEPT ![d] = NULL]
       /\ k.owner = b.owner /\ k.allocated = b.allocated /\ k.hung = b.hung
  BY <1>2 DEF Memory
<1> HIDE DEF k
<1>12. k.derivation[d] = NULL /\ \A t \in Slot : t # d => k.derivation[t] = b.derivation[t]
  BY <1>5, <1>11
<1>13. \A t \in Slot : t # s /\ t # d => SlotSame(m, k, t)
  BY <1>3, <1>7, <1>8, <1>11, <1>12 DEF SlotSame, LinksSame
<1>14. /\ k.resource[d] = m.resource[s] /\ k.resource[s] = m.resource[s]
       /\ k.flags[d] = {} /\ k.flags[s] = m.flags[s]
       /\ k.derived_from[s] = m.derived_from[s] /\ k.derived_from[d] = m.derived_from[s]
       /\ k.derivation[s] = NULL
  BY <1>2, <1>3, <1>11, <1>12 DEF SlotSame, AloneOk
<1>15. Siblings(k, s, d)
  BY <1>8, <1>11, <1>12, <1>14 DEF Siblings, AloneOk
<1>16. PairOk(k, s, d)
  BY <1>7, <1>11, <1>14, <1>15 DEF PairOk, AloneOk
<1>17. OriginOk(k, s) /\ OriginOk(k, d)
  BY <1>14 DEF OriginOk
<1>18. HandlersBut(m, k, d)
  BY <1>2, <1>11 DEF HandlersBut
<1>19. CopyMade(m, k, s, d)
  BY <1>2, <1>10, <1>11, <1>13, <1>14, <1>16, <1>17, <1>18 DEF CopyMade
<1> QED
  BY <1>4, <1>19

(* A copy of an original or badged capability. *)
LEMMA CopyOfOriginal ==
  ASSUME NULL \notin Slot, NEW m \in Memory, NEW s \in Slot, NEW d \in Slot, s # d,
         AloneOk(m, s), OriginOk(m, s), m.derived_from[s] # d, m.flags[s] # {}
  PROVE  CopyMade(m, copy_capability(m, s, d), s, d)
<1> DEFINE b == copied_slot(m, s, d)
           rl == LIST_INSERT_NO_CONTAINER(b.resource_list, s, d)
           dl == LIST_INIT_NO_CONTAINER(b.derivation_list, d)
           k == [b EXCEPT !.resource_list = rl, !.derivation_list = dl,
                          !.derived_from = [b.derived_from EXCEPT ![d] = s],
                          !.derivation = [b.derivation EXCEPT ![s] = d, ![d] = NULL]]
<1>0. b = copied_slot(m, s, d)
  OBVIOUS
<1>1. copy_capability(m, s, d) = [[[b EXCEPT !.resource_list = LIST_INSERT_NO_CONTAINER(@, s, d)]
         EXCEPT !.derived_from[d] = s, !.derivation[s] = d,
                !.derivation_list = LIST_INIT_NO_CONTAINER(@, d)] EXCEPT !.derivation[d] = NULL]
  BY DEF copy_capability, AloneOk
<1> HIDE DEF b
<1>2. /\ b \in Memory /\ HandlersBut(m, b, d) /\ b.handlers[d] = m.handlers[s]
      /\ b.owner = m.owner /\ b.allocated = m.allocated /\ b.hung = m.hung
      /\ b.resource[d] = m.resource[s] /\ b.flags[d] = {}
      /\ b.derived_from[d] = m.derived_from[s]
  BY <1>0, CopiedSlotEffects
<1>3. \A t \in Slot : t # d => SlotSame(m, b, t)
  BY <1>0, CopiedSlotEffects
<1>4. copy_capability(m, s, d) = k
  BY <1>1, <1>2 DEF Memory
<1>5. /\ b.resource_list \in ListField(Slot) /\ b.derivation_list \in ListField(Slot)
      /\ b.derivation \in [Slot -> Slot \cup {NULL}]
      /\ b.derived_from \in [Slot -> Slot \cup {NULL}]
  BY <1>2, MemoryParts
<1>6. Single(b.resource_list, s)
  BY <1>3 DEF AloneOk, Single, SlotSame, LinksSame
<1>7. Pair(rl, s, d) /\ rl \in ListField(Slot) /\ \A t \in Slot : t # s /\ t # d => LinksSame(b.resource_list, rl, t)
  BY <1>5, <1>6, InsertSecond
<1>8. Single(dl, d) /\ dl \in ListField(Slot) /\ \A t \in Slot : t # d => LinksSame(b.derivation_list, dl, t)
  BY <1>5, InitSingle
<1> HIDE DEF rl, dl
<1>9. /\ [b.derivation EXCEPT ![s] = d, ![d] = NULL] \in [Slot -> Slot \cup {NULL}]
      /\ [b.derived_from EXCEPT ![d] = s] \in [Slot -> Slot \cup {NULL}]
  BY <1>5
<1>10. k \in Memory
  BY <1>2, <1>7, <1>8, <1>9 DEF Memory
<1>11. /\ k.handlers = b.handlers /\ k.resource = b.resource /\ k.flags = b.flags
       /\ k.resource_list = rl /\ k.derivation_list = dl
       /\ k.derived_from = [b.derived_from EXCEPT ![d] = s]
       /\ k.derivation = [b.derivation EXCEPT ![s] = d, ![d] = NULL]
       /\ k.owner = b.owner /\ k.allocated = b.allocated /\ k.hung = b.hung
  BY <1>2 DEF Memory
<1> HIDE DEF k
<1>12. /\ k.derivation[d] = NULL /\ k.derivation[s] = d /\ k.derived_from[d] = s
       /\ \A t \in Slot : t # d => k.derived_from[t] = b.derived_from[t]
       /\ \A t \in Slot : t # d /\ t # s => k.derivation[t] = b.derivation[t]
  BY <1>5, <1>11
<1>13. \A t \in Slot : t # s /\ t # d => SlotSame(m, k, t)
  BY <1>3, <1>7, <1>8, <1>11, <1>12 DEF SlotSame, LinksSame
<1>14. /\ k.resource[d] = m.resource[s] /\ k.resource[s] = m.resource[s]
       /\ k.flags[d] = {} /\ k.flags[s] = m.flags[s]
       /\ k.derived_from[s] = m.derived_from[s]
       /\ LinksSame(m.derivation_list, dl, s)
  BY <1>2, <1>3, <1>8, <1>11, <1>12 DEF SlotSame, LinksSame
<1>15. ParentOf(k, s, d)
  <2>1. m.flags[s] # {"ORIGINAL"} => Single(dl, s)
    BY <1>14 DEF AloneOk, Single, LinksSame
  <2> QED
    BY <1>8, <1>11, <1>12, <1>14, <2>1 DEF ParentOf
<1>16. PairOk(k, s, d)
  BY <1>7, <1>11, <1>14, <1>15 DEF PairOk, AloneOk
<1>17. OriginOk(k, s) /\ OriginOk(k, d)
  BY <1>11, <1>12, <1>14 DEF OriginOk, LinksSame
<1>18. HandlersBut(m, k, d)
  BY <1>2, <1>11 DEF HandlersBut
<1>19. CopyMade(m, k, s, d)
  BY <1>2, <1>10, <1>11, <1>12, <1>13, <1>14, <1>16, <1>17, <1>18 DEF CopyMade
<1> QED
  BY <1>4, <1>19

(* NODE_COPY may add a badge to a copy of an original capability.          *)
LEMMA CopyBadged ==
  ASSUME NULL \notin Slot, NEW m, NEW s \in Slot, NEW d \in Slot, s # d,
         NEW c, CopyMade(m, c, s, d), m.flags[s] # {}
  PROVE  CopyMade(m, [c EXCEPT !.flags[d] = @ \cup {"BADGED"}], s, d)
<1> DEFINE f == [c.flags EXCEPT ![d] = {"BADGED"}]
           k == [c EXCEPT !.flags = f]
<1>0. c \in Memory /\ c.flags[d] \in {{}, {"BADGED"}}
  BY DEF CopyMade
<1>1. [c EXCEPT !.flags[d] = @ \cup {"BADGED"}] = k
  <2>1. c.flags[d] \cup {"BADGED"} = {"BADGED"}
    BY <1>0
  <2> QED
    BY <1>0, <2>1 DEF Memory
<1>2. c.flags \in [Slot -> Flags] /\ f \in [Slot -> Flags]
  BY <1>0, MemoryParts DEF Flags
<1>3. f[d] = {"BADGED"} /\ \A t \in Slot : t # d => f[t] = c.flags[t]
  BY <1>2
<1> HIDE DEF f
<1>4. k \in Memory
  BY <1>0, <1>2 DEF Memory
<1>5. /\ k.handlers = c.handlers /\ k.resource = c.resource /\ k.flags = f
      /\ k.resource_list = c.resource_list /\ k.derivation_list = c.derivation_list
      /\ k.derived_from = c.derived_from /\ k.derivation = c.derivation
      /\ k.owner = c.owner /\ k.allocated = c.allocated /\ k.hung = c.hung
  BY <1>0 DEF Memory
<1> HIDE DEF k
<1>6. \A t \in Slot : t # s /\ t # d => SlotSame(m, k, t)
  BY <1>3, <1>5 DEF CopyMade, SlotSame, LinksSame
<1>7. PairOk(k, s, d)
  <2>1. PairOk(c, s, d) /\ c.flags[s] # {}
    BY DEF CopyMade
  <2>2. ParentOf(c, s, d)
    BY <2>1 DEF PairOk, Siblings
  <2>3. ParentOf(k, s, d)
    BY <1>3, <1>5, <2>2 DEF ParentOf
  <2> QED
    BY <1>5, <2>1, <2>3 DEF PairOk
<1>8. OriginOk(k, s) /\ OriginOk(k, d)
  BY <1>0, <1>3, <1>5 DEF CopyMade, OriginOk
<1>9. k.flags[d] \in {{}, {"BADGED"}} /\ k.flags[s] = m.flags[s]
  BY <1>3, <1>5 DEF CopyMade
<1>10. HandlersBut(m, k, d)
  BY <1>5 DEF CopyMade, HandlersBut
<1>11. CopyMade(m, k, s, d)
  BY <1>4, <1>5, <1>6, <1>7, <1>8, <1>9, <1>10 DEF CopyMade
<1> QED
  BY <1>1, <1>11

(* The only capability to its resource may be copied.                      *)
LEMMA CopyOk ==
  ASSUME NULL \notin Slot, NEW pl, NEW m, MemOk(m, pl), NEW s \in Slot, NEW d \in Slot,
         m.handlers[s], ~m.handlers[d], Occupied(pl, d),
         \A t \in Slot : m.handlers[t] => m.derived_from[t] # d,
         \A t \in Slot : t # s /\ m.handlers[t] => m.resource[t] # m.resource[s],
         NEW k, CopyMade(m, k, s, d)
  PROVE  MemOk(k, pl)
<1> DEFINE C == {s, d}
           r == m.resource[s]
           L == Holding(m)
<1>0. /\ m \in Memory /\ ~m.hung /\ CapInv(m, L)
      /\ \A t \in Slot : m.handlers[t] => OwnerOk(m, pl, t) /\ Occupied(pl, t)
      /\ \A x \in Resource : x \in m.allocated <=> \E t \in Slot : m.handlers[t] /\ m.resource[t] = x
  BY DEF MemOk
<1>1. L \in SUBSET Slot /\ (\A t \in Slot : t \in L <=> m.handlers[t])
  BY HoldingMember
<1> HIDE DEF L
<1>2. s \in L /\ s # d
  BY <1>1
<1>3. r \in Resource
  BY <1>0, <1>2 DEF CapInv, OriginOk
<1>a. /\ k \in Memory /\ HandlersBut(m, k, d) /\ k.handlers[d] = m.handlers[s]
      /\ k.owner = m.owner /\ k.allocated = m.allocated /\ k.hung = m.hung
      /\ \A t \in Slot : t # s /\ t # d => SlotSame(m, k, t)
      /\ k.resource[d] = r /\ k.resource[s] = r
      /\ k.derived_from[s] = m.derived_from[s]
      /\ k.derived_from[d] = s \/ k.derived_from[d] = m.derived_from[s]
      /\ PairOk(k, s, d) /\ OriginOk(k, s) /\ OriginOk(k, d)
  BY DEF CopyMade
<1>4. AloneOk(m, s)
  <2>1. ListsOf(m, L, s)
    BY <1>0, <1>2 DEF CapInv
  <2>2. \A t \in L : PairOk(m, s, t) \/ PairOk(m, t, s) => t # s /\ m.resource[t] = m.resource[s]
    BY DEF PairOk, Pair
  <2> QED
    BY <1>1, <2>1, <2>2 DEF ListsOf
<1>5. m.derived_from[s] \notin L
  BY <1>0, <1>1, <1>2, <1>4, OriginGone
<1>6. \A t \in Slot : t # d => (k.handlers[t] <=> m.handlers[t])
  BY <1>a DEF HandlersBut
<1>7. k.handlers[s] /\ k.handlers[d]
  BY <1>2, <1>6, <1>a
<1>8. CapInv(k, Holding(k) \cap C)
  <2>1. \A t \in Slot : t \in C /\ k.handlers[t] <=> t = s \/ t = d
    BY <1>7
  <2>2. C \in SUBSET Slot
    OBVIOUS
  <2> HIDE DEF C
  <2> QED
    BY <1>a, <2>1, <2>2, HoldingTwo
<1>9. OwnerOk(k, pl, s) /\ OwnerOk(k, pl, d) /\ Occupied(pl, s)
  <2>1. m.resource_list.prev[s] = NULL /\ OwnerOk(m, pl, s) /\ Occupied(pl, s)
    BY <1>0, <1>4 DEF AloneOk, Single
  <2>2. k.resource_list.prev[d] = s /\ s # NULL
    BY <1>a DEF PairOk, Pair
  <2> QED
    BY <1>a, <2>1, <2>2 DEF OwnerOk
<1>10. ASSUME NEW t \in Slot, t \in C, k.handlers[t]
       PROVE  /\ k.resource[t] = r
              /\ ~m.handlers[t] => \A u \in Slot : m.handlers[u] => m.derived_from[u] # t
              /\ \A u \in Slot : u \notin C /\ m.handlers[u] => k.derived_from[t] # u
              /\ Occupied(pl, t)
              /\ OwnerOk(k, pl, t)
  BY <1>1, <1>5, <1>9, <1>10, <1>a
<1>11. /\ \A t \in Slot : t \notin C => (k.handlers[t] <=> m.handlers[t])
       /\ \A t \in Slot : t \notin C /\ m.handlers[t] => SlotSame(m, k, t) /\ m.resource[t] # r
       /\ \A t \in Slot : t \in C /\ m.handlers[t] => m.resource[t] = r
       /\ \E t \in Slot : t \in C /\ k.handlers[t]
  BY <1>6, <1>7, <1>a
<1>12. r \in k.allocated /\ ~k.hung
  BY <1>0, <1>3, <1>a
<1>13. C \in SUBSET Slot
  OBVIOUS
<1> HIDE DEF C
<1>14. OneGroup(m, k, pl, C, r)
  BY <1>8, <1>10, <1>11, <1>12, <1>a DEF OneGroup
<1> QED
  BY <1>3, <1>12, <1>13, <1>14, <1>a, OneGroupOk

-----------------------------------------------------------------------------
(* merge_derivation_lists and delete_capability.                           *)

(* The capability that is deleted has no derivation list to merge.         *)
LEMMA MergeNothing ==
  ASSUME NULL \notin Slot, NEW m \in Memory, NEW c \in Slot,
         m.derived_from[c] = NULL \/ m.derivation[c] = NULL,
         NEW n, n = merge_derivation_lists(m, c)
  PROVE  /\ n \in Memory /\ RestSame(m, n)
         /\ n.resource_list = m.resource_list
         /\ n.derivation_list = LIST_DELETE_NO_CONTAINER(Slot, m.derivation_list, c)
         /\ n.derived_from = m.derived_from
         /\ m.derivation_list.prev[c] # NULL => n.derivation = m.derivation
         /\ m.derivation_list.prev[c] = NULL
              => n.derivation = SetUnlessNull(m.derivation, m.derived_from[c], m.derivation_list.next[c])
<1> DEFINE dl == LIST_DELETE_NO_CONTAINER(Slot, m.derivation_list, c)
           dv == IF m.derivation_list.prev[c] = NULL
                 THEN SetUnlessNull(m.derivation, m.derived_from[c], m.derivation_list.next[c])
                 ELSE m.derivation
           k == [m EXCEPT !.derivation = dv, !.derivation_list = dl]
<1>1. m.derivation_list \in ListField(Slot) /\ m.derivation \in [Slot -> Slot \cup {NULL}]
      /\ m.derived_from[c] \in Slot \cup {NULL}
  BY MemoryParts
<1>2. m.derivation_list.next[c] \in Slot \cup {NULL}
  BY <1>1, ListFieldParts
<1>3. dl \in ListField(Slot)
  BY <1>1, DeleteType
<1>4. dv \in [Slot -> Slot \cup {NULL}]
  <2>1. SetUnlessNull(m.derivation, m.derived_from[c], m.derivation_list.next[c]) \in [Slot -> Slot \cup {NULL}]
    BY <1>1, <1>2, SetUnlessNullType
  <2> QED
    BY <1>1, <2>1
<1>5. n = k
  <2>1. CASE m.derivation_list.prev[c] = NULL
    <3>1. n = [[m EXCEPT !.derivation = SetUnlessNull(@, m.derived_from[c], m.derivation_list.next[c])]
                 EXCEPT !.derivation_list = LIST_DELETE_NO_CONTAINER(Slot, @, c)]
      BY <2>1 DEF merge_derivation_lists
    <3> QED
      BY <2>1, <3>1 DEF Memory
  <2>2. CASE m.derivation_list.prev[c] # NULL
    <3>1. n = [m EXCEPT !.derivation_list = LIST_DELETE_NO_CONTAINER(Slot, @, c)]
      BY <2>2 DEF merge_derivation_lists
    <3> QED
      BY <2>2, <3>1 DEF Memory
  <2> QED
    BY <2>1, <2>2
<1> HIDE DEF dl, dv
<1>6. k \in Memory
  BY <1>3, <1>4 DEF Memory
<1>7. /\ RestSame(m, k) /\ k.resource_list = m.resource_list /\ k.derivation_list = dl
      /\ k.derived_from = m.derived_from /\ k.derivation = dv
  BY DEF RestSame, Memory
<1> HIDE DEF k
<1> QED
  BY <1>5, <1>6, <1>7 DEF dl, dv

(* A badged capability's only derived one becomes its parent's.            *)
LEMMA MergeOne ==
  ASSUME NULL \notin Slot, NEW m \in Memory, NEW c \in Slot, NEW d \in Slot, NEW p \in Slot,
         c # d, m.flags[c] = {"BADGED"}, m.derived_from[c] = p, m.derivation[c] = d,
         Single(m.derivation_list, c), Single(m.derivation_list, d),
         NEW n, n = merge_derivation_lists(m, c)
  PROVE  /\ n \in Memory /\ RestSame(m, n)
         /\ n.resource_list = m.resource_list /\ n.derivation_list = m.derivation_list
         /\ \A s \in Slot : n.derived_from[s] = IF s = d THEN p ELSE m.derived_from[s]
         /\ \A s \in Slot : s # p => n.derivation[s] = m.derivation[s]
<1> DEFINE S == Derived(m, c)
           b == set_derived_from(m, S, p)
           k == [b EXCEPT !.derivation = [m.derivation EXCEPT ![p] = NULL]]
<1>1. m.derivation_list \in ListField(Slot) /\ m.derivation \in [Slot -> Slot \cup {NULL}]
  BY MemoryParts
<1>2. S = {d}
  <2>1. m.derivation_list.next \in [Slot -> Slot \cup {NULL}]
    BY <1>1, ListFieldParts
  <2>2. Members(Slot, d, m.derivation_list.next) = {d}
    BY <2>1, MembersOfOne DEF Single
  <2> QED
    BY <2>2 DEF Derived, Iterated, Single
<1>3. b = set_derived_from(m, S, p)
  OBVIOUS
<1>4. n = [[[b EXCEPT !.derivation[p] = d] EXCEPT !.derivation = SetUnlessNull(@, p, NULL)]
             EXCEPT !.derivation_list = LIST_DELETE_NO_CONTAINER(Slot, @, c)]
  BY DEF merge_derivation_lists, Single
<1> HIDE DEF b, S
<1>5. /\ b \in Memory /\ RestSame(m, b)
      /\ b.resource_list = m.resource_list /\ b.derivation_list = m.derivation_list
      /\ b.derivation = m.derivation
  BY <1>3, SetDerivedFromEffects
<1>6. \A s \in Slot : b.derived_from[s] = IF s \in S THEN p ELSE m.derived_from[s]
  BY <1>3, SetDerivedFromEffects
<1>7. LIST_DELETE_NO_CONTAINER(Slot, b.derivation_list, c) = b.derivation_list
  BY <1>1, <1>5, DeleteSingle DEF Single
<1>8. n = k
  <2> DEFINE e == [m.derivation EXCEPT ![p] = d]
             b1 == [b EXCEPT !.derivation = e]
             b2 == [b EXCEPT !.derivation = SetUnlessNull(e, p, NULL)]
  <2>1. SetUnlessNull(e, p, NULL) = [m.derivation EXCEPT ![p] = NULL]
    BY <1>1 DEF SetUnlessNull
  <2>2. [b EXCEPT !.derivation[p] = d] = b1
    BY <1>5
  <2>3. b1.derivation = e
    BY <1>5 DEF Memory
  <2>4. [b1 EXCEPT !.derivation = SetUnlessNull(@, p, NULL)] = b2
    <3> HIDE DEF e
    <3> QED
      BY <1>5, <2>3 DEF Memory
  <2>5. b2.derivation_list = b.derivation_list
    BY <1>5 DEF Memory
  <2>6. [b2 EXCEPT !.derivation_list = LIST_DELETE_NO_CONTAINER(Slot, @, c)] = b2
    <3> DEFINE l == LIST_DELETE_NO_CONTAINER(Slot, b2.derivation_list, c)
    <3>1. l = b2.derivation_list
      BY <1>7, <2>5
    <3> HIDE DEF l
    <3>2. [b2 EXCEPT !.derivation_list = l] = b2
      BY <1>5, <3>1 DEF Memory
    <3> QED
      BY <3>2 DEF l
  <2>7. b2 = k
    BY <2>1
  <2>8. n = [[b1 EXCEPT !.derivation = SetUnlessNull(@, p, NULL)]
              EXCEPT !.derivation_list = LIST_DELETE_NO_CONTAINER(Slot, @, c)]
    BY <1>4, <2>2
  <2> HIDE DEF e, b1, b2, k
  <2>9. n = [b2 EXCEPT !.derivation_list = LIST_DELETE_NO_CONTAINER(Slot, @, c)]
    BY <2>4, <2>8
  <2> QED
    BY <2>6, <2>7, <2>9
<1>9. [m.derivation EXCEPT ![p] = NULL] \in [Slot -> Slot \cup {NULL}]
  BY <1>1
<1>10. k \in Memory
  BY <1>5, <1>9 DEF Memory
<1>11. /\ RestSame(b, k) /\ k.resource_list = b.resource_list /\ k.derivation_list = b.derivation_list
       /\ k.derived_from = b.derived_from /\ k.derivation = [m.derivation EXCEPT ![p] = NULL]
  BY <1>5 DEF RestSame, Memory
<1> HIDE DEF k
<1> QED
  BY <1>1, <1>2, <1>5, <1>6, <1>8, <1>10, <1>11 DEF RestSame

(* What delete_capability does, field by field. *)
Deletion(m, k, c) ==
  /\ HandlersBut(m, k, c) /\ ~k.handlers[c]
  /\ k.resource = m.resource /\ k.flags = m.flags
  /\ k.derivation_list = m.derivation_list
  /\ k.derived_from = m.derived_from /\ k.derivation = m.derivation /\ k.hung = m.hung
  /\ k.resource_list = LIST_DELETE_NO_CONTAINER(Slot, m.resource_list, c)
  /\ \A x \in Resource : x # m.resource[c] => k.owner[x] = m.owner[x]
  /\ m.resource_list.prev[c] = NULL /\ m.resource_list.next[c] # NULL
       => /\ k.owner[m.resource[c]] \in CapAddress
          /\ At(place, k.owner[m.resource[c]]) = m.resource_list.next[c]
  /\ m.resource_list.prev[c] # NULL => k.owner = m.owner
  /\ k.allocated = IF m.resource_list.prev[c] = NULL /\ m.resource_list.next[c] = NULL
                   THEN m.allocated \ {m.resource[c]} ELSE m.allocated

(* It does that. *)
LEMMA DeleteEffects ==
  ASSUME NULL \notin Slot, NEW m \in Memory, NEW c \in Slot, m.resource[c] \in Resource,
         m.resource_list.prev[c] = NULL /\ m.resource_list.next[c] # NULL
           => Occupied(place, m.resource_list.next[c]),
         NEW k, k = delete_capability(m, c)
  PROVE  k \in Memory /\ Deletion(m, k, c)
<1> DEFINE first == m.resource_list.prev[c] = NULL
           next == m.resource_list.next[c]
           r == m.resource[c]
           o == [m.owner EXCEPT ![r] = IF first /\ next # NULL THEN AddressOf(next) ELSE @]
           al == IF first /\ next = NULL THEN m.allocated \ {r} ELSE m.allocated
           rl == LIST_DELETE_NO_CONTAINER(Slot, m.resource_list, c)
           h == [m.handlers EXCEPT ![c] = FALSE]
           j == [m EXCEPT !.owner = o, !.allocated = al, !.resource_list = rl, !.handlers = h]
<1>1. /\ m.handlers \in [Slot -> BOOLEAN] /\ m.resource_list \in ListField(Slot)
      /\ m.owner \in [Resource -> CapAddress \cup {NULL}] /\ m.allocated \in SUBSET Resource
  BY MemoryParts
<1>2. k = j
  BY DEF delete_capability, Memory
<1>3. first /\ next # NULL => AddressOf(next) \in CapAddress /\ At(place, AddressOf(next)) = next
  BY AddressFound
<1>4. /\ o \in [Resource -> CapAddress \cup {NULL}]
      /\ \A x \in Resource : x # r => o[x] = m.owner[x]
      /\ first /\ next # NULL => o[r] = AddressOf(next)
      /\ ~first => o = m.owner
  BY <1>1, <1>3
<1>5. h \in [Slot -> BOOLEAN] /\ ~h[c] /\ \A s \in Slot : s # c => h[s] = m.handlers[s]
  BY <1>1
<1>6. rl \in ListField(Slot)
  BY <1>1, DeleteType
<1>7. al \in SUBSET Resource
  BY <1>1
<1> HIDE DEF o, al, rl, h
<1>8. j \in Memory
  BY <1>4, <1>5, <1>6, <1>7 DEF Memory
<1>9. /\ j.handlers = h /\ j.resource = m.resource /\ j.flags = m.flags /\ j.resource_list = rl
      /\ j.derivation_list = m.derivation_list
      /\ j.derived_from = m.derived_from /\ j.derivation = m.derivation /\ j.hung = m.hung
      /\ j.owner = o /\ j.allocated = al
  BY DEF Memory
<1> HIDE DEF j
<1>10. HandlersBut(m, j, c)
  BY <1>5, <1>9 DEF HandlersBut
<1>11. j.allocated = IF first /\ next = NULL THEN m.allocated \ {r} ELSE m.allocated
  BY <1>9 DEF al
<1>12. j.resource_list = LIST_DELETE_NO_CONTAINER(Slot, m.resource_list, c)
  BY <1>9 DEF rl
<1>13. /\ \A x \in Resource : x # r => j.owner[x] = m.owner[x]
       /\ first /\ next # NULL => j.owner[r] \in CapAddress /\ At(place, j.owner[r]) = next
       /\ ~first => j.owner = m.owner
  BY <1>3, <1>4, <1>9
<1>14. ~j.handlers[c]
  BY <1>5, <1>9
<1>15. Deletion(m, j, c)
  BY <1>9, <1>10, <1>11, <1>12, <1>13, <1>14 DEF Deletion
<1> QED
  BY <1>2, <1>8, <1>15

-----------------------------------------------------------------------------
(* What delete_capability leaves in order.                                 *)

(* Capability c was taken off its lists: the rest of its group is left.    *)
Removed(m, k, c) ==
  /\ HandlersBut(m, k, c) /\ ~k.handlers[c] /\ ~k.hung
  /\ k.resource = m.resource /\ k.flags = m.flags
  /\ \A x \in Resource : x # m.resource[c] => k.owner[x] = m.owner[x]
  /\ m.resource_list.prev[c] = NULL /\ m.resource_list.next[c] # NULL
       => /\ k.owner[m.resource[c]] \in CapAddress
          /\ At(place, k.owner[m.resource[c]]) = m.resource_list.next[c]
  /\ m.resource_list.prev[c] # NULL => k.owner = m.owner
  /\ k.allocated = IF m.resource_list.prev[c] = NULL /\ m.resource_list.next[c] = NULL
                   THEN m.allocated \ {m.resource[c]} ELSE m.allocated
  /\ k.resource_list = LIST_DELETE_NO_CONTAINER(Slot, m.resource_list, c)

(* delete_capability does that to what merge_derivation_lists has left. *)
LEMMA DeleteRemoves ==
  ASSUME NULL \notin Slot, NEW m, MemOk(m, place), NEW c \in Slot, m.handlers[c],
         NEW n \in Memory, RestSame(m, n), n.resource_list = m.resource_list,
         NEW k, k = delete_capability(n, c)
  PROVE  /\ k \in Memory /\ Removed(m, k, c)
         /\ k.derivation_list = n.derivation_list
         /\ k.derived_from = n.derived_from /\ k.derivation = n.derivation
<1>1. /\ n.handlers = m.handlers /\ n.resource = m.resource /\ n.flags = m.flags
      /\ n.owner = m.owner /\ n.allocated = m.allocated /\ n.hung = m.hung
  BY DEF RestSame
<1>2. /\ ~m.hung /\ CapInv(m, Holding(m)) /\ c \in Holding(m)
      /\ \A t \in Slot : m.handlers[t] => Occupied(place, t)
  BY DEF MemOk, Holding
<1>3. m.resource[c] \in Resource
  BY <1>2 DEF CapInv, OriginOk
<1>4. m.resource_list.next[c] # NULL => Occupied(place, m.resource_list.next[c])
  <2>1. ListsOf(m, Holding(m), c)
    BY <1>2 DEF CapInv
  <2>2. CASE AloneOk(m, c)
    BY <2>2 DEF AloneOk, Single
  <2>3. CASE m.resource_list.next[c] \in Holding(m)
    BY <1>2, <2>3 DEF Holding
  <2>4. CASE PairOk(m, m.resource_list.prev[c], c)
    BY <2>4 DEF PairOk, Pair
  <2> QED
    BY <2>1, <2>2, <2>3, <2>4 DEF ListsOf
<1>5. n.resource[c] \in Resource
  BY <1>1, <1>3
<1>6. n.resource_list.prev[c] = NULL /\ n.resource_list.next[c] # NULL
        => Occupied(place, n.resource_list.next[c])
  BY <1>4
<1>7. k \in Memory /\ Deletion(n, k, c)
  BY <1>5, <1>6, DeleteEffects
<1>8. /\ HandlersBut(n, k, c) /\ ~k.handlers[c]
      /\ k.resource = n.resource /\ k.flags = n.flags
      /\ k.derivation_list = n.derivation_list
      /\ k.derived_from = n.derived_from /\ k.derivation = n.derivation /\ k.hung = n.hung
      /\ k.resource_list = LIST_DELETE_NO_CONTAINER(Slot, n.resource_list, c)
  BY <1>7 DEF Deletion
<1>9. /\ \A x \in Resource : x # n.resource[c] => k.owner[x] = n.owner[x]
      /\ n.resource_list.prev[c] = NULL /\ n.resource_list.next[c] # NULL
           => /\ k.owner[n.resource[c]] \in CapAddress
              /\ At(place, k.owner[n.resource[c]]) = n.resource_list.next[c]
      /\ n.resource_list.prev[c] # NULL => k.owner = n.owner
      /\ k.allocated = IF n.resource_list.prev[c] = NULL /\ n.resource_list.next[c] = NULL
                       THEN n.allocated \ {n.resource[c]} ELSE n.allocated
  BY <1>7 DEF Deletion
<1>10. HandlersBut(m, k, c)
  BY <1>1, <1>8 DEF HandlersBut
<1>11. Removed(m, k, c)
  BY <1>1, <1>2, <1>8, <1>9, <1>10 DEF Removed
<1> QED
  BY <1>7, <1>8, <1>11

(* What a capability was derived from is gone unless it is to the same resource. *)
LEMMA ParentElsewhere ==
  ASSUME NEW m, MemOk(m, place), NEW s \in Slot, m.handlers[s],
         NEW u \in Slot, m.handlers[u], m.resource[u] # m.resource[s]
  PROVE  m.derived_from[s] # u
BY DEF MemOk, CapInv, Holding

(* The only capability to its resource is removed. *)
LEMMA RemovedAlone ==
  ASSUME NULL \notin Slot, NEW m, MemOk(m, place), NEW c \in Slot, m.handlers[c],
         Single(m.resource_list, c),
         \A t \in Slot : m.handlers[t] /\ t # c => m.resource[t] # m.resource[c],
         NEW k \in Memory, Removed(m, k, c),
         \A t \in Slot : m.handlers[t] /\ t # c => SlotSame(m, k, t)
  PROVE  MemOk(k, place)
<1> DEFINE r == m.resource[c]
           C == {c}
<1>0. C \in SUBSET Slot /\ \A s : s \in C <=> s = c
  OBVIOUS
<1>1. r \in Resource
  BY DEF MemOk, CapInv, OriginOk, Holding
<1>2. /\ HandlersBut(m, k, c) /\ ~k.handlers[c] /\ ~k.hung
      /\ \A x \in Resource : x # r => k.owner[x] = m.owner[x]
      /\ k.allocated = m.allocated \ {r}
  BY DEF Removed, Single
<1> HIDE DEF C
<1>3. CapInv(k, Holding(k) \cap C)
  <2>1. \A s : s \notin Holding(k) \cap C
    BY <1>0, <1>2, HoldingMember
  <2> QED
    BY <2>1 DEF CapInv
<1>4. OneGroup(m, k, place, C, r)
  <2>1. \A s \in Slot : s \notin C => (k.handlers[s] <=> m.handlers[s])
    BY <1>0, <1>2 DEF HandlersBut
  <2>2. \A s \in Slot : s \notin C /\ m.handlers[s] => SlotSame(m, k, s) /\ m.resource[s] # r
    BY <1>0
  <2>3. \A s \in Slot : s \in C /\ m.handlers[s] => m.resource[s] = r
    BY <1>0
  <2>4. \A s \in Slot : s \in C => ~k.handlers[s]
    BY <1>0, <1>2
  <2>5. r \notin k.allocated
    BY <1>2
  <2>6. \A x \in Resource : x # r => k.owner[x] = m.owner[x] /\ (x \in k.allocated <=> x \in m.allocated)
    BY <1>2
  <2> QED
    BY <1>3, <2>1, <2>2, <2>3, <2>4, <2>5, <2>6 DEF OneGroup
<1> QED
  BY <1>0, <1>1, <1>2, <1>4, OneGroupOk

(* One of two is removed, and d remains. *)
LEMMA RemovedOfTwo ==
  ASSUME NULL \notin Slot, NEW m, MemOk(m, place),
         NEW c \in Slot, m.handlers[c], NEW d \in Slot, m.handlers[d], c # d,
         Pair(m.resource_list, c, d) \/ Pair(m.resource_list, d, c),
         m.resource[d] = m.resource[c],
         \A t \in Slot : m.handlers[t] /\ t # c /\ t # d => m.resource[t] # m.resource[c],
         NEW k \in Memory, Removed(m, k, c),
         \A t \in Slot : m.handlers[t] /\ t # c /\ t # d => SlotSame(m, k, t),
         AloneOk(k, d), OriginOk(k, d),
         \A u \in Slot : m.handlers[u] /\ u # c /\ u # d => k.derived_from[d] # u
  PROVE  MemOk(k, place)
<1> DEFINE r == m.resource[c]
           C == {c, d}
<1>0. C \in SUBSET Slot /\ \A s : s \in C <=> s = c \/ s = d
  OBVIOUS
<1>1. /\ r \in Resource /\ OwnerOk(m, place, d) /\ Occupied(place, d)
      /\ \A x \in Resource : x \in m.allocated <=> \E t \in Slot : m.handlers[t] /\ m.resource[t] = x
  BY DEF MemOk, CapInv, OriginOk, Holding
<1>2. /\ HandlersBut(m, k, c) /\ ~k.handlers[c] /\ ~k.hung
      /\ k.resource[d] = r
      /\ \A x \in Resource : x # r => k.owner[x] = m.owner[x]
      /\ k.allocated = m.allocated
  BY DEF Removed, Pair
<1>3. OwnerOk(k, place, d)
  <2>1. CASE Pair(m.resource_list, c, d)
    BY <1>2, <2>1 DEF Removed, Pair, OwnerOk
  <2>2. CASE Pair(m.resource_list, d, c)
    <3>1. k.owner = m.owner /\ m.resource_list.prev[d] = NULL
      BY <2>2 DEF Removed, Pair
    <3> QED
      BY <1>1, <1>2, <3>1 DEF OwnerOk
  <2> QED
    BY <2>1, <2>2
<1> HIDE DEF C
<1>4. k.handlers[d] <=> m.handlers[d]
  BY <1>2 DEF HandlersBut
<1>5. \A s \in Slot : s \in C /\ k.handlers[s] <=> s = d
  BY <1>0, <1>2, <1>4
<1>6. CapInv(k, Holding(k) \cap C)
  BY <1>0, <1>5, HoldingOne
<1>7. OneGroup(m, k, place, C, r)
  <2>1. \A s \in Slot : s \notin C => (k.handlers[s] <=> m.handlers[s])
    BY <1>0, <1>2 DEF HandlersBut
  <2>2. \A s \in Slot : s \notin C /\ m.handlers[s] => SlotSame(m, k, s) /\ m.resource[s] # r
    BY <1>0
  <2>3. \A s \in Slot : s \in C /\ m.handlers[s] => m.resource[s] = r
    BY <1>0
  <2>4. \A t \in Slot : t \in C /\ k.handlers[t]
          => /\ k.resource[t] = r
             /\ ~m.handlers[t] => \A s \in Slot : m.handlers[s] => m.derived_from[s] # t
             /\ \A s \in Slot : s \notin C /\ m.handlers[s] => k.derived_from[t] # s
             /\ Occupied(place, t)
             /\ OwnerOk(k, place, t)
    BY <1>0, <1>1, <1>2, <1>3, <1>5
  <2>5. r \in k.allocated
    BY <1>1, <1>2
  <2>6. \A x \in Resource : x # r => k.owner[x] = m.owner[x] /\ (x \in k.allocated <=> x \in m.allocated)
    BY <1>2
  <2>7. \E t \in Slot : t \in C /\ k.handlers[t]
    BY <1>5
  <2> QED
    BY <1>6, <2>1, <2>2, <2>3, <2>4, <2>5, <2>6, <2>7 DEF OneGroup
<1> QED
  BY <1>0, <1>1, <1>2, <1>7, OneGroupOk

-----------------------------------------------------------------------------
(* A capability is deleted: the five forms its group can have.             *)

(* Setting what was derived from p changes nothing elsewhere. *)
LEMMA SetElsewhere ==
  ASSUME NEW f \in [Slot -> Slot \cup {NULL}], NEW p, NEW v, NEW t \in Slot, t # p
  PROVE  SetUnlessNull(f, p, v)[t] = f[t]
BY DEF SetUnlessNull

(* Nothing but links of c and d differs. *)
LEMMA SlotSameIntro ==
  ASSUME NEW m, NEW k, k.resource = m.resource, k.flags = m.flags, NEW t,
         LinksSame(m.resource_list, k.resource_list, t),
         LinksSame(m.derivation_list, k.derivation_list, t),
         k.derived_from[t] = m.derived_from[t], k.derivation[t] = m.derivation[t]
  PROVE  SlotSame(m, k, t)
BY DEF SlotSame

(* A list is the same as itself. *)
LEMMA LinksOfSame ==
  ASSUME NEW f, NEW t
  PROVE  LinksSame(f, f, t)
BY DEF LinksSame

(* The only capability to its resource. *)
LEMMA DeleteAlone ==
  ASSUME NULL \notin Slot, NEW m, MemOk(m, place), NEW c \in Slot, m.handlers[c],
         AloneOk(m, c), OriginOk(m, c),
         \A t \in Slot : m.handlers[t] /\ t # c => m.resource[t] # m.resource[c],
         NEW n, n = merge_derivation_lists(m, c), NEW k, k = delete_capability(n, c)
  PROVE  ~n.hung /\ MemOk(k, place)
<1> DEFINE p == m.derived_from[c]
<1>1. m \in Memory /\ ~m.hung
  BY DEF MemOk
<1>2. /\ m.resource_list \in ListField(Slot) /\ m.derivation_list \in ListField(Slot)
      /\ m.derivation \in [Slot -> Slot \cup {NULL}]
  BY <1>1, MemoryParts
<1>3. /\ Single(m.resource_list, c) /\ m.derivation[c] = NULL /\ p # c
      /\ m.derivation_list.prev[c] = NULL /\ m.derivation_list.next[c] = NULL
  BY DEF AloneOk, OriginOk, Single
<1>4. /\ n \in Memory /\ RestSame(m, n)
      /\ n.resource_list = m.resource_list
      /\ n.derivation_list = LIST_DELETE_NO_CONTAINER(Slot, m.derivation_list, c)
      /\ n.derived_from = m.derived_from
      /\ n.derivation = SetUnlessNull(m.derivation, p, m.derivation_list.next[c])
  BY <1>1, <1>3, MergeNothing
<1>5. k \in Memory /\ Removed(m, k, c)
  BY <1>4, DeleteRemoves
<1>6. /\ k.derivation_list = n.derivation_list
      /\ k.derived_from = n.derived_from /\ k.derivation = n.derivation
  BY <1>4, DeleteRemoves
<1>7. n.derivation_list = m.derivation_list
  BY <1>2, <1>3, <1>4, DeleteSingle
<1>8. k.resource_list = m.resource_list
  <2>1. LIST_DELETE_NO_CONTAINER(Slot, m.resource_list, c) = m.resource_list
    BY <1>2, <1>3, DeleteSingle DEF Single
  <2> QED
    BY <1>5, <2>1 DEF Removed
<1>9. ASSUME NEW t \in Slot, m.handlers[t], t # c
      PROVE  SlotSame(m, k, t)
  <2>1. t # p
    BY <1>9, ParentElsewhere
  <2>2. k.derivation[t] = m.derivation[t]
    BY <1>2, <1>4, <1>6, <2>1, SetElsewhere
  <2>3. k.resource = m.resource /\ k.flags = m.flags
    BY <1>5 DEF Removed
  <2> QED
    BY <1>4, <1>6, <1>7, <1>8, <2>2, <2>3, LinksOfSame, SlotSameIntro
<1>10. MemOk(k, place)
  BY <1>3, <1>5, <1>9, RemovedAlone
<1> QED
  BY <1>1, <1>4, <1>10 DEF RestSame

(* An original or a badged capability from which another was derived. *)
LEMMA DeleteParent ==
  ASSUME NULL \notin Slot, NEW m, MemOk(m, place), NEW c \in Slot, m.handlers[c],
         NEW d \in Slot, m.handlers[d], PairOk(m, c, d), ParentOf(m, c, d),
         OriginOk(m, c), OriginOk(m, d),
         \A t \in Slot : m.handlers[t] /\ t # c /\ t # d => m.resource[t] # m.resource[c],
         NEW n, n = merge_derivation_lists(m, c), NEW k, k = delete_capability(n, c)
  PROVE  ~n.hung /\ MemOk(k, place)
<1> DEFINE p == m.derived_from[c]
<1>1. m \in Memory /\ ~m.hung
  BY DEF MemOk
<1>2. /\ m.resource_list \in ListField(Slot) /\ m.derivation_list \in ListField(Slot)
      /\ m.derivation \in [Slot -> Slot \cup {NULL}]
      /\ m.derived_from \in [Slot -> Slot \cup {NULL}] /\ m.flags \in [Slot -> Flags]
  BY <1>1, MemoryParts
<1>3. /\ Pair(m.resource_list, c, d) /\ c # d /\ m.resource[d] = m.resource[c]
      /\ p # c /\ p # d
      /\ m.derivation_list.prev[c] = NULL /\ m.derivation_list.next[c] = NULL
      /\ m.derivation[c] = d /\ m.derivation[d] = NULL /\ m.derived_from[d] = c
      /\ Single(m.derivation_list, d) /\ m.flags[d] # {"ORIGINAL"} /\ m.flags[c] # {}
  BY DEF PairOk, Pair, ParentOf, OriginOk, Single
<1>4. \A u \in Slot : m.handlers[u] => u # p
  <2> TAKE u \in Slot
  <2>1. CASE u # c /\ u # d /\ m.handlers[u]
    BY <2>1, ParentElsewhere
  <2> QED
    BY <1>3, <2>1
<1>5. /\ n \in Memory /\ RestSame(m, n)
      /\ n.resource_list = m.resource_list /\ n.derivation_list = m.derivation_list
      /\ \A s \in Slot : s # d => n.derived_from[s] = m.derived_from[s]
      /\ n.derived_from[d] = IF m.flags[c] = {"BADGED"} THEN p ELSE c
      /\ \A s \in Slot : s # p => n.derivation[s] = m.derivation[s]
  <2>1. CASE m.flags[c] = {"BADGED"}
    <3>1. p \in Slot
      BY <1>2, <2>1 DEF OriginOk
    <3>2. Single(m.derivation_list, c)
      BY <2>1 DEF ParentOf
    <3>3. /\ n \in Memory /\ RestSame(m, n)
          /\ n.resource_list = m.resource_list /\ n.derivation_list = m.derivation_list
      BY <1>1, <1>3, <2>1, <3>1, <3>2, MergeOne
    <3>4. \A s \in Slot : n.derived_from[s] = IF s = d THEN p ELSE m.derived_from[s]
      BY <1>1, <1>3, <2>1, <3>1, <3>2, MergeOne
    <3>5. \A s \in Slot : s # p => n.derivation[s] = m.derivation[s]
      BY <1>1, <1>3, <2>1, <3>1, <3>2, MergeOne
    <3> QED
      BY <2>1, <3>3, <3>4, <3>5
  <2>2. CASE m.flags[c] # {"BADGED"}
    <3>1. p = NULL
      BY <1>2, <1>3, <2>2 DEF OriginOk, Flags
    <3>2. /\ n \in Memory /\ RestSame(m, n)
          /\ n.resource_list = m.resource_list
          /\ n.derivation_list = LIST_DELETE_NO_CONTAINER(Slot, m.derivation_list, c)
          /\ n.derived_from = m.derived_from
          /\ n.derivation = SetUnlessNull(m.derivation, p, m.derivation_list.next[c])
      BY <1>1, <1>3, <3>1, MergeNothing
    <3>3. n.derivation_list = m.derivation_list
      BY <1>2, <1>3, <3>2, DeleteSingle
    <3>4. n.derivation = m.derivation
      BY <3>1, <3>2 DEF SetUnlessNull
    <3> QED
      BY <1>3, <2>2, <3>2, <3>3, <3>4
  <2> QED
    BY <2>1, <2>2
<1>6. k \in Memory /\ Removed(m, k, c)
  BY <1>5, DeleteRemoves
<1>7. /\ k.derivation_list = n.derivation_list
      /\ k.derived_from = n.derived_from /\ k.derivation = n.derivation
  BY <1>5, DeleteRemoves
<1>8. /\ k.resource = m.resource /\ k.flags = m.flags
      /\ k.resource_list = LIST_DELETE_NO_CONTAINER(Slot, m.resource_list, c)
  BY <1>6 DEF Removed
<1>9. /\ Single(k.resource_list, d)
      /\ \A s \in Slot : s # c /\ s # d => LinksSame(m.resource_list, k.resource_list, s)
  BY <1>2, <1>3, <1>8, DeleteFirst
<1>10. ASSUME NEW t \in Slot, m.handlers[t], t # c, t # d
       PROVE  SlotSame(m, k, t)
  <2>1. k.derivation[t] = m.derivation[t] /\ k.derived_from[t] = m.derived_from[t]
    BY <1>4, <1>5, <1>7, <1>10
  <2>2. LinksSame(m.derivation_list, k.derivation_list, t)
    BY <1>5, <1>7, LinksOfSame
  <2> QED
    BY <1>8, <1>9, <1>10, <2>1, <2>2, SlotSameIntro
<1>11. /\ k.derivation[d] = NULL /\ Single(k.derivation_list, d)
       /\ k.flags[d] # {"ORIGINAL"} /\ k.resource[d] = m.resource[d]
       /\ k.derived_from[d] = IF m.flags[c] = {"BADGED"} THEN p ELSE c
  BY <1>3, <1>5, <1>7, <1>8
<1>12. AloneOk(k, d)
  BY <1>3, <1>9, <1>11 DEF AloneOk
<1>13. OriginOk(k, d)
  <2>1. m.flags[c] = {"BADGED"} => p # NULL
    BY DEF OriginOk
  <2>2. k.derived_from[d] # NULL
    BY <1>11, <2>1
  <2> QED
    BY <1>11, <2>2 DEF OriginOk
<1>14. \A u \in Slot : m.handlers[u] /\ u # c /\ u # d => k.derived_from[d] # u
  BY <1>4, <1>11
<1>15. MemOk(k, place)
  BY <1>3, <1>6, <1>10, <1>12, <1>13, <1>14, RemovedOfTwo
<1> QED
  BY <1>1, <1>5, <1>15 DEF RestSame

(* What merge_derivation_lists leaves when there is nothing to merge, next *)
(* to what is deleted afterwards.                                          *)
LEMMA DeleteUnmerged ==
  ASSUME NULL \notin Slot, NEW m, MemOk(m, place), NEW c \in Slot, m.handlers[c],
         m.derivation[c] = NULL,
         NEW n, n = merge_derivation_lists(m, c), NEW k, k = delete_capability(n, c)
  PROVE  /\ ~n.hung /\ k \in Memory /\ Removed(m, k, c)
         /\ k.derivation_list = LIST_DELETE_NO_CONTAINER(Slot, m.derivation_list, c)
         /\ k.derived_from = m.derived_from
         /\ m.derivation_list.prev[c] # NULL => k.derivation = m.derivation
         /\ m.derivation_list.prev[c] = NULL
              => k.derivation = SetUnlessNull(m.derivation, m.derived_from[c], m.derivation_list.next[c])
<1>1. m \in Memory /\ ~m.hung
  BY DEF MemOk
<1>2. /\ n \in Memory /\ RestSame(m, n)
      /\ n.resource_list = m.resource_list
      /\ n.derivation_list = LIST_DELETE_NO_CONTAINER(Slot, m.derivation_list, c)
      /\ n.derived_from = m.derived_from
  BY <1>1, MergeNothing
<1>3. /\ m.derivation_list.prev[c] # NULL => n.derivation = m.derivation
      /\ m.derivation_list.prev[c] = NULL
           => n.derivation = SetUnlessNull(m.derivation, m.derived_from[c], m.derivation_list.next[c])
  BY <1>1, MergeNothing
<1>4. k \in Memory /\ Removed(m, k, c)
  BY <1>2, DeleteRemoves
<1>5. /\ k.derivation_list = n.derivation_list
      /\ k.derived_from = n.derived_from /\ k.derivation = n.derivation
  BY <1>2, DeleteRemoves
<1>6. ~n.hung
  BY <1>1, <1>2 DEF RestSame
<1> QED
  BY <1>2, <1>3, <1>4, <1>5, <1>6

(* A capability that was derived from d. *)
LEMMA DeleteChild ==
  ASSUME NULL \notin Slot, NEW m, MemOk(m, place), NEW c \in Slot, m.handlers[c],
         NEW d \in Slot, m.handlers[d], PairOk(m, d, c), ParentOf(m, d, c),
         OriginOk(m, c), OriginOk(m, d),
         \A t \in Slot : m.handlers[t] /\ t # c /\ t # d => m.resource[t] # m.resource[c],
         NEW k \in Memory, Removed(m, k, c),
         \A t \in Slot : m.handlers[t] /\ t # c => LinksSame(m.derivation_list, k.derivation_list, t),
         k.derived_from = m.derived_from,
         k.derivation = [m.derivation EXCEPT ![d] = NULL]
  PROVE  MemOk(k, place)
<1>1. m \in Memory
  BY DEF MemOk
<1>2. /\ m.resource_list \in ListField(Slot) /\ m.derivation_list \in ListField(Slot)
      /\ m.derivation \in [Slot -> Slot \cup {NULL}]
  BY <1>1, MemoryParts
<1>3. /\ Pair(m.resource_list, d, c) /\ c # d /\ m.resource[d] = m.resource[c]
      /\ m.derived_from[d] # d /\ m.derived_from[d] # c
      /\ m.flags[d] # {"ORIGINAL"} => Single(m.derivation_list, d)
  BY DEF PairOk, Pair, ParentOf
<1>4. /\ k.resource = m.resource /\ k.flags = m.flags
      /\ k.resource_list = LIST_DELETE_NO_CONTAINER(Slot, m.resource_list, c)
  BY DEF Removed
<1>5. /\ Single(k.resource_list, d)
      /\ \A s \in Slot : s # d /\ s # c => LinksSame(m.resource_list, k.resource_list, s)
  BY <1>2, <1>3, <1>4, DeleteSecond
<1>6. ASSUME NEW t \in Slot, m.handlers[t], t # c, t # d
      PROVE  SlotSame(m, k, t)
  <2>1. k.derivation[t] = m.derivation[t]
    BY <1>2, <1>6
  <2> QED
    BY <1>4, <1>5, <1>6, <2>1, SlotSameIntro
<1>7. k.derivation[d] = NULL /\ LinksSame(m.derivation_list, k.derivation_list, d)
  BY <1>2, <1>3
<1>8. AloneOk(k, d)
  BY <1>3, <1>4, <1>5, <1>7 DEF AloneOk, Single, LinksSame
<1>9. OriginOk(k, d)
  BY <1>4, <1>7 DEF OriginOk, LinksSame
<1>10. \A u \in Slot : m.handlers[u] /\ u # c /\ u # d => k.derived_from[d] # u
  BY <1>3, ParentElsewhere
<1> QED
  BY <1>3, <1>6, <1>8, <1>9, <1>10, RemovedOfTwo

(* The first of two whose parent is gone. *)
LEMMA DeleteFirstSibling ==
  ASSUME NULL \notin Slot, NEW m, MemOk(m, place), NEW c \in Slot, m.handlers[c],
         NEW d \in Slot, m.handlers[d], PairOk(m, c, d), Siblings(m, c, d),
         OriginOk(m, c), OriginOk(m, d),
         \A t \in Slot : m.handlers[t] /\ t # c /\ t # d => m.resource[t] # m.resource[c],
         NEW n, n = merge_derivation_lists(m, c), NEW k, k = delete_capability(n, c)
  PROVE  ~n.hung /\ MemOk(k, place)
<1> DEFINE p == m.derived_from[c]
<1>1. m \in Memory
  BY DEF MemOk
<1>2. /\ m.resource_list \in ListField(Slot) /\ m.derivation_list \in ListField(Slot)
      /\ m.derivation \in [Slot -> Slot \cup {NULL}]
  BY <1>1, MemoryParts
<1>3. /\ Pair(m.resource_list, c, d) /\ c # d /\ m.resource[d] = m.resource[c]
      /\ p # c /\ p # d /\ m.derived_from[d] # c /\ m.derived_from[d] # d
      /\ Pair(m.derivation_list, c, d) /\ m.derivation_list.prev[c] = NULL
      /\ m.derivation[c] = NULL /\ m.derivation[d] = NULL /\ m.flags[d] = {}
  BY DEF PairOk, Pair, Siblings
<1>4. ~n.hung /\ k \in Memory /\ Removed(m, k, c)
  BY <1>3, DeleteUnmerged
<1>5. /\ k.derivation_list = LIST_DELETE_NO_CONTAINER(Slot, m.derivation_list, c)
      /\ k.derived_from = m.derived_from
      /\ k.derivation = SetUnlessNull(m.derivation, p, m.derivation_list.next[c])
  BY <1>3, DeleteUnmerged
<1>6. /\ k.resource = m.resource /\ k.flags = m.flags
      /\ k.resource_list = LIST_DELETE_NO_CONTAINER(Slot, m.resource_list, c)
  BY <1>4 DEF Removed
<1>7. /\ Single(k.resource_list, d)
      /\ \A s \in Slot : s # c /\ s # d => LinksSame(m.resource_list, k.resource_list, s)
  BY <1>2, <1>3, <1>6, DeleteFirst
<1>8. /\ Single(k.derivation_list, d)
      /\ \A s \in Slot : s # c /\ s # d => LinksSame(m.derivation_list, k.derivation_list, s)
  BY <1>2, <1>3, <1>5, DeleteFirst
<1>9. \A t \in Slot : t # p => k.derivation[t] = m.derivation[t]
  BY <1>2, <1>5, SetElsewhere
<1>10. ASSUME NEW t \in Slot, m.handlers[t], t # c, t # d
       PROVE  SlotSame(m, k, t)
  <2>1. t # p
    BY <1>10, ParentElsewhere
  <2>2. k.derivation[t] = m.derivation[t] /\ k.derived_from[t] = m.derived_from[t]
    BY <1>5, <1>9, <2>1
  <2> QED
    BY <1>6, <1>7, <1>8, <1>10, <2>2, SlotSameIntro
<1>11. AloneOk(k, d)
  BY <1>3, <1>5, <1>7, <1>8, <1>9 DEF AloneOk
<1>12. OriginOk(k, d)
  BY <1>3, <1>5, <1>6 DEF OriginOk
<1>13. \A u \in Slot : m.handlers[u] /\ u # c /\ u # d => k.derived_from[d] # u
  BY <1>3, <1>5, ParentElsewhere
<1>14. MemOk(k, place)
  BY <1>3, <1>4, <1>10, <1>11, <1>12, <1>13, RemovedOfTwo
<1> QED
  BY <1>4, <1>14

(* The second of two whose parent is gone. *)
LEMMA DeleteSecondSibling ==
  ASSUME NULL \notin Slot, NEW m, MemOk(m, place), NEW c \in Slot, m.handlers[c],
         NEW d \in Slot, m.handlers[d], PairOk(m, d, c), Siblings(m, d, c),
         OriginOk(m, c), OriginOk(m, d),
         \A t \in Slot : m.handlers[t] /\ t # c /\ t # d => m.resource[t] # m.resource[c],
         NEW n, n = merge_derivation_lists(m, c), NEW k, k = delete_capability(n, c)
  PROVE  ~n.hung /\ MemOk(k, place)
<1>1. m \in Memory
  BY DEF MemOk
<1>2. /\ m.resource_list \in ListField(Slot) /\ m.derivation_list \in ListField(Slot)
  BY <1>1, MemoryParts
<1>3. /\ Pair(m.resource_list, d, c) /\ c # d /\ m.resource[d] = m.resource[c]
      /\ m.derived_from[d] # c /\ m.derived_from[d] # d
      /\ Pair(m.derivation_list, d, c) /\ m.derivation_list.prev[c] # NULL
      /\ m.derivation[c] = NULL /\ m.derivation[d] = NULL /\ m.flags[d] = {}
  BY DEF PairOk, Pair, Siblings
<1>4. ~n.hung /\ k \in Memory /\ Removed(m, k, c)
  BY <1>3, DeleteUnmerged
<1>5. /\ k.derivation_list = LIST_DELETE_NO_CONTAINER(Slot, m.derivation_list, c)
      /\ k.derived_from = m.derived_from
      /\ k.derivation = m.derivation
  BY <1>3, DeleteUnmerged
<1>6. /\ k.resource = m.resource /\ k.flags = m.flags
      /\ k.resource_list = LIST_DELETE_NO_CONTAINER(Slot, m.resource_list, c)
  BY <1>4 DEF Removed
<1>7. /\ Single(k.resource_list, d)
      /\ \A s \in Slot : s # d /\ s # c => LinksSame(m.resource_list, k.resource_list, s)
  BY <1>2, <1>3, <1>6, DeleteSecond
<1>8. /\ Single(k.derivation_list, d)
      /\ \A s \in Slot : s # d /\ s # c => LinksSame(m.derivation_list, k.derivation_list, s)
  BY <1>2, <1>3, <1>5, DeleteSecond
<1>9. ASSUME NEW t \in Slot, m.handlers[t], t # c, t # d
      PROVE  SlotSame(m, k, t)
  <2>1. k.derivation[t] = m.derivation[t] /\ k.derived_from[t] = m.derived_from[t]
    BY <1>5
  <2> QED
    BY <1>6, <1>7, <1>8, <1>9, <2>1, SlotSameIntro
<1>10. AloneOk(k, d)
  BY <1>3, <1>5, <1>7, <1>8 DEF AloneOk
<1>11. OriginOk(k, d)
  BY <1>3, <1>5, <1>6 DEF OriginOk
<1>12. \A u \in Slot : m.handlers[u] /\ u # c /\ u # d => k.derived_from[d] # u
  BY <1>3, <1>5, ParentElsewhere
<1>13. MemOk(k, place)
  BY <1>3, <1>4, <1>9, <1>10, <1>11, <1>12, RemovedOfTwo
<1> QED
  BY <1>4, <1>13

(* NODE_DELETE. *)
LEMMA DeleteOk ==
  ASSUME NULL \notin Slot, NEW m, MemOk(m, place), NEW c \in Slot, m.handlers[c],
         NEW n, n = merge_derivation_lists(m, c), NEW k, k = delete_capability(n, c)
  PROVE  ~n.hung /\ MemOk(k, place)
<1> DEFINE L == Holding(m)
<1>1. m \in Memory /\ CapInv(m, L)
  BY DEF MemOk
<1>2. L \in SUBSET Slot /\ \A s \in Slot : s \in L <=> m.handlers[s]
  BY HoldingMember
<1> HIDE DEF L
<1>3. c \in L /\ \A s \in L : OriginOk(m, s)
  BY <1>1, <1>2 DEF CapInv
<1>4. CASE /\ AloneOk(m, c)
           /\ \A t \in L : t # c => m.resource[t] # m.resource[c]
  BY <1>2, <1>3, <1>4, DeleteAlone
<1>5. ASSUME NEW d \in L, PairOk(m, c, d),
             \A t \in L : t # c /\ t # d => m.resource[t] # m.resource[c]
      PROVE  ~n.hung /\ MemOk(k, place)
  <2>1. /\ d \in Slot /\ m.handlers[d] /\ OriginOk(m, c) /\ OriginOk(m, d)
        /\ \A t \in Slot : m.handlers[t] /\ t # c /\ t # d => m.resource[t] # m.resource[c]
    BY <1>2, <1>3, <1>5
  <2>2. CASE ParentOf(m, c, d)
    BY <1>5, <2>1, <2>2, DeleteParent
  <2>3. CASE Siblings(m, c, d)
    BY <1>5, <2>1, <2>3, DeleteFirstSibling
  <2> QED
    BY <1>5, <2>2, <2>3 DEF PairOk
<1>6. ASSUME NEW d \in L, PairOk(m, d, c),
             \A t \in L : t # c /\ t # d => m.resource[t] # m.resource[c]
      PROVE  ~n.hung /\ MemOk(k, place)
  <2>1. /\ d \in Slot /\ m.handlers[d] /\ OriginOk(m, c) /\ OriginOk(m, d)
        /\ \A t \in Slot : m.handlers[t] /\ t # c /\ t # d => m.resource[t] # m.resource[c]
    BY <1>2, <1>3, <1>6
  <2>2. CASE ParentOf(m, d, c)
    <3>1. /\ m.derivation[c] = NULL /\ m.derived_from[c] = d
          /\ m.derivation_list.prev[c] = NULL /\ m.derivation_list.next[c] = NULL
      BY <2>2 DEF ParentOf, Single
    <3>2. ~n.hung /\ k \in Memory /\ Removed(m, k, c)
      BY <1>2, <1>3, <3>1, DeleteUnmerged
    <3>3. /\ k.derivation_list = LIST_DELETE_NO_CONTAINER(Slot, m.derivation_list, c)
          /\ k.derived_from = m.derived_from
          /\ k.derivation = SetUnlessNull(m.derivation, d, NULL)
      BY <1>2, <1>3, <3>1, DeleteUnmerged
    <3>4. m.derivation_list \in ListField(Slot)
      BY <1>1, MemoryParts
    <3>5. k.derivation_list = m.derivation_list
      BY <3>1, <3>3, <3>4, DeleteSingle
    <3>6. \A t \in Slot : LinksSame(m.derivation_list, k.derivation_list, t)
      BY <3>5, LinksOfSame
    <3>7. k.derivation = [m.derivation EXCEPT ![d] = NULL]
      BY <2>1, <3>3 DEF SetUnlessNull
    <3>8. MemOk(k, place)
      BY <1>6, <2>1, <2>2, <3>2, <3>3, <3>6, <3>7, DeleteChild
    <3> QED
      BY <3>2, <3>8
  <2>3. CASE Siblings(m, d, c)
    BY <1>6, <2>1, <2>3, DeleteSecondSibling
  <2> QED
    BY <1>6, <2>2, <2>3 DEF PairOk
<1> QED
  BY <1>1, <1>2, <1>3, <1>4, <1>5, <1>6, GroupOf

-----------------------------------------------------------------------------
(* node_revoke: what was derived is one capability, and nothing was        *)
(* derived from it.                                                        *)

(* A derivation list of one. *)
LEMMA DerivedOne ==
  ASSUME NULL \notin Slot, NEW m \in Memory, NEW c \in Slot, NEW d \in Slot,
         m.derivation[c] = d, Single(m.derivation_list, d)
  PROVE  DerivedInOrder(m, c) = <<d>>
<1>1. m.derivation_list \in ListField(Slot)
  BY MemoryParts
<1>2. Derived(m, c) = {d}
  <2>1. m.derivation_list.next \in [Slot -> Slot \cup {NULL}]
    BY <1>1, ListFieldParts
  <2>2. Members(Slot, d, m.derivation_list.next) = {d}
    BY <2>1, MembersOfOne DEF Single
  <2> QED
    BY <2>2 DEF Derived, Iterated, Single
<1>3. Cardinality(Derived(m, c)) = 1
  BY <1>2, FS_Singleton
<1> DEFINE D == Derived(m, c)
           at[i \in 1..Cardinality(D)] ==
             IF i = 1 THEN m.derivation_list.start[m.derivation[c]]
             ELSE m.derivation_list.next[at[i - 1]]
           one == [i \in 1..1 |-> d]
           Unfolds(f) == f = [i \in 1..Cardinality(D) |->
             IF i = 1 THEN m.derivation_list.start[m.derivation[c]]
             ELSE m.derivation_list.next[f[i - 1]]]
<1>4. DerivedInOrder(m, c) = at
  BY DEF DerivedInOrder
<1>5. at = CHOOSE f : Unfolds(f)
  OBVIOUS
<1>6. Unfolds(one)
  BY <1>3 DEF Single
<1>7. Unfolds(at)
  BY <1>5, <1>6
<1>8. at = one
  <2> HIDE DEF at
  <2>1. at = [i \in 1..Cardinality(D) |->
               IF i = 1 THEN m.derivation_list.start[m.derivation[c]]
               ELSE m.derivation_list.next[at[i - 1]]]
    BY <1>7
  <2> QED
    BY <1>3, <2>1 DEF Single
<1>9. one = <<d>>
  OBVIOUS
<1> QED
  BY <1>4, <1>8, <1>9

(* An empty one. *)
LEMMA DerivedNone ==
  ASSUME NEW m, NEW c, m.derivation[c] = NULL
  PROVE  DerivedInOrder(m, c) = <<>>
<1>1. Cardinality(Derived(m, c)) = 0
  BY FS_EmptySet DEF Derived
<1> DEFINE D == Derived(m, c)
           at[i \in 1..Cardinality(D)] ==
             IF i = 1 THEN m.derivation_list.start[m.derivation[c]]
             ELSE m.derivation_list.next[at[i - 1]]
           Unfolds(f) == f = [i \in 1..Cardinality(D) |->
             IF i = 1 THEN m.derivation_list.start[m.derivation[c]]
             ELSE m.derivation_list.next[f[i - 1]]]
<1>2. DerivedInOrder(m, c) = at
  BY DEF DerivedInOrder
<1>3. at = CHOOSE f : Unfolds(f)
  OBVIOUS
<1>4. 1..Cardinality(D) = {}
  BY <1>1
<1> HIDE DEF D
<1>5. Unfolds([i \in {} |-> NULL])
  BY <1>4
<1>6. Unfolds(at)
  BY <1>3, <1>5
<1>7. at = [i \in 1..0 |-> NULL]
  <2> HIDE DEF at
  <2> QED
    BY <1>4, <1>6
<1>8. [i \in 1..0 |-> NULL] = <<>>
  OBVIOUS
<1> QED
  BY <1>2, <1>7, <1>8

(* delete_all of one capability deletes it. *)
LEMMA DeleteOne ==
  ASSUME NEW m, NEW d
  PROVE  delete_all(m, <<d>>) = delete_capability(m, d)
<1> DEFINE S == <<d>>
           deleted[i \in 0..Len(S)] == IF i = 0 THEN m
                                       ELSE delete_capability(deleted[i - 1], S[i])
           two == [i \in 0..1 |-> IF i = 0 THEN m ELSE delete_capability(m, d)]
           Unfolds(f) == f = [i \in 0..Len(S) |-> IF i = 0 THEN m
                                                  ELSE delete_capability(f[i - 1], S[i])]
<1>1. Len(S) = 1 /\ S[1] = d
  OBVIOUS
<1>2. delete_all(m, S) = deleted[Len(S)]
  BY DEF delete_all
<1>3. deleted = CHOOSE f : Unfolds(f)
  OBVIOUS
<1> HIDE DEF S
<1>4. Unfolds(two)
  <2>1. 0 \in 0..1 /\ two[0] = m
    OBVIOUS
  <2> QED
    BY <1>1, <2>1
<1>5. Unfolds(deleted)
  BY <1>3, <1>4
<1>6. deleted[0] = m /\ deleted[1] = delete_capability(deleted[0], d)
  <2> HIDE DEF deleted
  <2>1. deleted = [i \in 0..1 |-> IF i = 0 THEN m ELSE delete_capability(deleted[i - 1], S[i])]
    BY <1>1, <1>5
  <2>2. 0 \in 0..1 /\ 1 \in 0..1 /\ 1 - 1 = 0 /\ 1 # 0
    OBVIOUS
  <2>3. deleted[0] = m
    BY <2>1, <2>2
  <2>4. deleted[1] = delete_capability(deleted[0], d)
    BY <1>1, <2>1, <2>2
  <2> QED
    BY <2>3, <2>4
<1> HIDE DEF deleted
<1> QED
  BY <1>1, <1>2, <1>6 DEF S

(* The loops of node_revoke make one deletion. *)
LEMMA RevokeOne ==
  ASSUME NULL \notin Slot, NEW m \in Memory, NEW c \in Slot, NEW d \in Slot,
         m.derivation[c] = d, Single(m.derivation_list, d), m.derivation[d] = NULL
  PROVE  revoke_derived(m, c) = [delete_capability(m, d) EXCEPT !.derivation[c] = NULL]
<1> DEFINE S == DerivedInOrder(m, c)
           Below(s) == IF m.flags[s] = {} THEN <<>> ELSE DerivedInOrder(m, s)
           order[i \in 0..Len(S)] == IF i = 0 THEN <<>>
                                     ELSE order[i - 1] \o Below(S[i]) \o <<S[i]>>
           two == [i \in 0..1 |-> IF i = 0 THEN <<>> ELSE <<d>>]
           Unfolds(f) == f = [i \in 0..Len(S) |-> IF i = 0 THEN <<>>
                                ELSE f[i - 1] \o Below(S[i]) \o <<S[i]>>]
<1>1. S = <<d>>
  BY DerivedOne
<1>2. Len(S) = 1 /\ S[1] = d
  BY <1>1
<1>3. Below(d) = <<>>
  BY DerivedNone
<1>4. revoke_derived(m, c) = [delete_all(m, order[Len(S)]) EXCEPT !.derivation[c] = NULL]
  BY DEF revoke_derived
<1>5. order = CHOOSE f : Unfolds(f)
  OBVIOUS
<1> HIDE DEF S, Below
<1>6. <<>> \o Below(d) \o <<d>> = <<d>>
  <2>1. <<>> \o <<>> \o <<d>> = <<d>>
    OBVIOUS
  <2> QED
    BY <1>3, <2>1
<1>7. Unfolds(two)
  <2>1. 0 \in 0..1 /\ two[0] = <<>>
    OBVIOUS
  <2> QED
    BY <1>2, <1>6, <2>1
<1>8. Unfolds(order)
  BY <1>5, <1>7
<1>9. order[1] = <<d>>
  <2> HIDE DEF order
  <2>1. order = [i \in 0..1 |-> IF i = 0 THEN <<>> ELSE order[i - 1] \o Below(S[i]) \o <<S[i]>>]
    BY <1>2, <1>8
  <2>2. 0 \in 0..1 /\ 1 \in 0..1 /\ 1 - 1 = 0 /\ 1 # 0
    OBVIOUS
  <2>3. order[0] = <<>>
    BY <2>1, <2>2
  <2>4. order[1] = order[0] \o Below(d) \o <<d>>
    BY <1>2, <2>1, <2>2
  <2> QED
    BY <1>6, <2>3, <2>4
<1> HIDE DEF order
<1>10. delete_all(m, order[Len(S)]) = delete_capability(m, d)
  BY <1>2, <1>9, DeleteOne
<1> QED
  BY <1>4, <1>10

(* NODE_REVOKE, which leaves c and deletes what was derived from it. *)
LEMMA RevokeOk ==
  ASSUME NULL \notin Slot, NEW m, MemOk(m, place), NEW c \in Slot, m.handlers[c],
         m.flags[c] # {}, m.derivation[c] # NULL,
         NEW j, j = revoke_derived(m, c)
  PROVE  /\ MemOk(j, place)
         /\ j.handlers[c] /\ j.resource = m.resource
         /\ \A t \in Slot : j.handlers[t] /\ t # c => m.resource[t] # m.resource[c]
<1> DEFINE L == Holding(m)
<1>1. m \in Memory /\ CapInv(m, L)
  BY DEF MemOk
<1>2. L \in SUBSET Slot /\ \A s \in Slot : s \in L <=> m.handlers[s]
  BY HoldingMember
<1> HIDE DEF L
<1>3. c \in L /\ \A s \in L : OriginOk(m, s)
  BY <1>1, <1>2 DEF CapInv
<1>4. PICK d \in L : /\ PairOk(m, c, d) /\ ParentOf(m, c, d)
                     /\ \A t \in L : t # c /\ t # d => m.resource[t] # m.resource[c]
  <2>1. ~AloneOk(m, c)
    BY DEF AloneOk
  <2>2. \A d \in L : PairOk(m, c, d) => ParentOf(m, c, d)
    BY DEF PairOk, Siblings
  <2>3. \A d \in L : ~PairOk(m, d, c)
    BY DEF PairOk, Siblings, ParentOf
  <2> QED
    BY <1>1, <1>2, <1>3, <2>1, <2>2, <2>3, GroupOf
<1>5. /\ d \in Slot /\ m.handlers[d] /\ OriginOk(m, c) /\ OriginOk(m, d)
      /\ \A t \in Slot : m.handlers[t] /\ t # c /\ t # d => m.resource[t] # m.resource[d]
      /\ c # d /\ m.resource[c] = m.resource[d]
      /\ m.derivation[c] = d /\ Single(m.derivation_list, d) /\ m.derivation[d] = NULL
  BY <1>2, <1>3, <1>4 DEF PairOk, Pair, ParentOf
<1> DEFINE k == delete_capability(m, d)
<1>6. j = [k EXCEPT !.derivation[c] = NULL]
  BY <1>1, <1>5, RevokeOne
<1>7. RestSame(m, m) /\ m.resource_list = m.resource_list
  BY DEF RestSame
<1>8. k \in Memory /\ Removed(m, k, d)
  BY <1>1, <1>5, <1>7, DeleteRemoves
<1>9. /\ k.derivation_list = m.derivation_list
      /\ k.derived_from = m.derived_from /\ k.derivation = m.derivation
  BY <1>1, <1>5, <1>7, DeleteRemoves
<1> HIDE DEF k
<1>10. /\ j \in Memory
       /\ j.handlers = k.handlers /\ j.resource = k.resource /\ j.flags = k.flags
       /\ j.owner = k.owner /\ j.allocated = k.allocated /\ j.hung = k.hung
       /\ j.resource_list = k.resource_list /\ j.derivation_list = k.derivation_list
       /\ j.derived_from = k.derived_from /\ j.derivation = [k.derivation EXCEPT ![c] = NULL]
  <2> DEFINE v == [k.derivation EXCEPT ![c] = NULL]
             i == [k EXCEPT !.derivation = v]
  <2>1. j = i
    BY <1>6
  <2>2. v \in [Slot -> Slot \cup {NULL}]
    BY <1>8, MemoryParts
  <2> HIDE DEF v
  <2>3. i \in Memory
    BY <1>8, <2>2 DEF Memory
  <2>4. /\ i.handlers = k.handlers /\ i.resource = k.resource /\ i.flags = k.flags
        /\ i.owner = k.owner /\ i.allocated = k.allocated /\ i.hung = k.hung
        /\ i.resource_list = k.resource_list /\ i.derivation_list = k.derivation_list
        /\ i.derived_from = k.derived_from /\ i.derivation = v
    BY <1>8 DEF Memory
  <2> HIDE DEF i
  <2> QED
    BY <2>1, <2>3, <2>4 DEF v
<1>11. Removed(m, j, d)
  BY <1>8, <1>10 DEF Removed, HandlersBut
<1>12. \A t \in Slot : m.handlers[t] /\ t # d => LinksSame(m.derivation_list, j.derivation_list, t)
  BY <1>9, <1>10, LinksOfSame
<1>13. j.derived_from = m.derived_from /\ j.derivation = [m.derivation EXCEPT ![c] = NULL]
  BY <1>9, <1>10
<1>14. MemOk(j, place)
  <2>1. \A t \in Slot : m.handlers[t] /\ t # d /\ t # c => m.resource[t] # m.resource[d]
    BY <1>5
  <2> QED
    BY <1>4, <1>5, <1>10, <1>11, <1>12, <1>13, <2>1, DeleteChild
<1>15. /\ HandlersBut(m, j, d) /\ ~j.handlers[d] /\ j.resource = m.resource
  BY <1>11 DEF Removed
<1>16. /\ j.handlers[c]
       /\ \A t \in Slot : j.handlers[t] /\ t # c => m.resource[t] # m.resource[c]
  BY <1>5, <1>15 DEF HandlersBut
<1> QED
  BY <1>14, <1>15, <1>16

-----------------------------------------------------------------------------
(* The heap moves a node: memcpy, and the loop of on_node_moved.           *)

(* A slot is a place and an index. *)
LEMMA SlotParts ==
  /\ \A s \in Slot : s[1] \in Place /\ s[2] \in Index /\ s = <<s[1], s[2]>>
  /\ \A x \in Place, i \in Index : <<x, i>> \in Slot /\ <<x, i>>[1] = x /\ <<x, i>>[2] = i
BY DEF Slot

(* Place p holds a copy of the node at q. *)
NodeCopied(m, b, q, p) ==
  /\ \A i \in Index : /\ Copied(b, <<q, i>>, <<p, i>>)
                      /\ b.handlers[<<p, i>>] <=> m.handlers[<<q, i>>]
  /\ \A s \in Slot : s[1] # p => SlotSame(m, b, s) /\ (b.handlers[s] <=> m.handlers[s])
  /\ b.owner = m.owner /\ b.allocated = m.allocated /\ b.hung = m.hung

(* memcpy of a node. *)
LEMMA CopyNodeEffects ==
  ASSUME NULL \notin Slot, NEW m \in Memory, NEW q \in Place, NEW p \in Place, q # p,
         NEW b, b = copy_node(m, q, p)
  PROVE  b \in Memory /\ NodeCopied(m, b, q, p)
<1> DEFINE Copy(f) == [s \in Slot |-> IF s[1] = p THEN f[<<q, s[2]>>] ELSE f[s]]
           Links(f) == [start |-> Copy(f.start), end |-> Copy(f.end),
                        prev |-> Copy(f.prev), next |-> Copy(f.next)]
           h == Copy(m.handlers)
           rs == Copy(m.resource)
           fl == Copy(m.flags)
           rl == Links(m.resource_list)
           dl == Links(m.derivation_list)
           df == Copy(m.derived_from)
           dv == Copy(m.derivation)
           c == [m EXCEPT !.handlers = h, !.resource = rs, !.flags = fl,
                          !.resource_list = rl, !.derivation_list = dl,
                          !.derived_from = df, !.derivation = dv]
<1>1. b = c
  BY DEF copy_node
<1>2. /\ m.handlers \in [Slot -> BOOLEAN] /\ m.resource \in [Slot -> Resource \cup {NULL}]
      /\ m.flags \in [Slot -> Flags]
      /\ m.resource_list \in ListField(Slot) /\ m.derivation_list \in ListField(Slot)
      /\ m.derived_from \in [Slot -> Slot \cup {NULL}]
      /\ m.derivation \in [Slot -> Slot \cup {NULL}]
  BY MemoryParts
<1> DEFINE Copying(f, g) == /\ \A i \in Index : g[<<p, i>>] = f[<<q, i>>] /\ g[<<q, i>>] = f[<<q, i>>]
                            /\ \A s \in Slot : s[1] # p => g[s] = f[s]
           LinksOk(f, g) == /\ Copying(f.start, g.start) /\ Copying(f.end, g.end)
                            /\ Copying(f.prev, g.prev) /\ Copying(f.next, g.next)
<1>3. ASSUME NEW T, NEW f \in [Slot -> T]
      PROVE  Copy(f) \in [Slot -> T] /\ Copying(f, Copy(f))
  BY SlotParts
<1> HIDE DEF Copy, Copying
<1>4. ASSUME NEW f \in ListField(Slot)
      PROVE  Links(f) \in ListField(Slot) /\ LinksOk(f, Links(f))
  <2>1. /\ f.start \in [Slot -> Slot \cup {NULL}] /\ f.end \in [Slot -> Slot \cup {NULL}]
        /\ f.prev \in [Slot -> Slot \cup {NULL}] /\ f.next \in [Slot -> Slot \cup {NULL}]
    BY ListFieldParts
  <2>2. Copy(f.start) \in [Slot -> Slot \cup {NULL}] /\ Copying(f.start, Copy(f.start))
    BY <1>3, <2>1
  <2>3. Copy(f.end) \in [Slot -> Slot \cup {NULL}] /\ Copying(f.end, Copy(f.end))
    BY <1>3, <2>1
  <2>4. Copy(f.prev) \in [Slot -> Slot \cup {NULL}] /\ Copying(f.prev, Copy(f.prev))
    BY <1>3, <2>1
  <2>5. Copy(f.next) \in [Slot -> Slot \cup {NULL}] /\ Copying(f.next, Copy(f.next))
    BY <1>3, <2>1
  <2>6. Links(f) \in ListField(Slot)
    BY <2>2, <2>3, <2>4, <2>5, ListFieldIntro
  <2>7. /\ Links(f).start = Copy(f.start) /\ Links(f).end = Copy(f.end)
        /\ Links(f).prev = Copy(f.prev) /\ Links(f).next = Copy(f.next)
    OBVIOUS
  <2> QED
    BY <2>2, <2>3, <2>4, <2>5, <2>6, <2>7
<1> HIDE DEF Links, LinksOk
<1>5. h \in [Slot -> BOOLEAN] /\ Copying(m.handlers, h)
  BY <1>2, <1>3
<1>6. rs \in [Slot -> Resource \cup {NULL}] /\ Copying(m.resource, rs)
  BY <1>2, <1>3
<1>7. fl \in [Slot -> Flags] /\ Copying(m.flags, fl)
  BY <1>2, <1>3
<1>8. df \in [Slot -> Slot \cup {NULL}] /\ Copying(m.derived_from, df)
  BY <1>2, <1>3
<1>9. dv \in [Slot -> Slot \cup {NULL}] /\ Copying(m.derivation, dv)
  BY <1>2, <1>3
<1>10. /\ rl \in ListField(Slot) /\ LinksOk(m.resource_list, rl)
       /\ dl \in ListField(Slot) /\ LinksOk(m.derivation_list, dl)
  BY <1>2, <1>4
<1> HIDE DEF h, rs, fl, rl, dl, df, dv
<1>11. c \in Memory
  BY <1>5, <1>6, <1>7, <1>8, <1>9, <1>10 DEF Memory
<1>12. /\ c.handlers = h /\ c.resource = rs /\ c.flags = fl
       /\ c.resource_list = rl /\ c.derivation_list = dl
       /\ c.derived_from = df /\ c.derivation = dv
       /\ c.owner = m.owner /\ c.allocated = m.allocated /\ c.hung = m.hung
  BY DEF Memory
<1> HIDE DEF c
<1>13. \A i \in Index : Copied(c, <<q, i>>, <<p, i>>)
  <2> TAKE i \in Index
  <2>1. \A f, g : Copying(f, g) => g[<<p, i>>] = g[<<q, i>>]
    BY DEF Copying
  <2>2. /\ rs[<<p, i>>] = rs[<<q, i>>] /\ fl[<<p, i>>] = fl[<<q, i>>]
        /\ df[<<p, i>>] = df[<<q, i>>] /\ dv[<<p, i>>] = dv[<<q, i>>]
    BY <1>6, <1>7, <1>8, <1>9, <2>1
  <2>3. /\ rl.start[<<p, i>>] = rl.start[<<q, i>>] /\ rl.end[<<p, i>>] = rl.end[<<q, i>>]
        /\ rl.prev[<<p, i>>] = rl.prev[<<q, i>>] /\ rl.next[<<p, i>>] = rl.next[<<q, i>>]
    BY <1>10, <2>1 DEF LinksOk
  <2>4. /\ dl.start[<<p, i>>] = dl.start[<<q, i>>] /\ dl.end[<<p, i>>] = dl.end[<<q, i>>]
        /\ dl.prev[<<p, i>>] = dl.prev[<<q, i>>] /\ dl.next[<<p, i>>] = dl.next[<<q, i>>]
    BY <1>10, <2>1 DEF LinksOk
  <2> QED
    BY <1>12, <2>2, <2>3, <2>4 DEF Copied
<1>14. \A s \in Slot : s[1] # p => SlotSame(m, c, s)
  BY <1>6, <1>7, <1>8, <1>9, <1>10, <1>12 DEF SlotSame, LinksSame, LinksOk, Copying
<1>15. NodeCopied(m, c, q, p)
  BY <1>5, <1>12, <1>13, <1>14 DEF NodeCopied, Copying
<1> QED
  BY <1>1, <1>11, <1>15

(* The loop of on_node_moved, step by step. *)
LoopSteps(m, p, u) ==
  /\ u[0] = m
  /\ \A j \in Index : u[j + 1] = IF ~m.handlers[<<p, j>>] THEN u[j]
                                 ELSE update_capability_references(u[j], <<p, j>>)

(* It takes those steps. *)
LEMMA OnNodeMovedSteps ==
  ASSUME MaxIndex \in Nat, NEW m, NEW p
  PROVE  \E u : LoopSteps(m, p, u) /\ on_node_moved(m, p) = u[MaxIndex + 1]
<1> DEFINE Step(x, j) == IF ~m.handlers[<<p, j - 1>>] THEN x
                         ELSE update_capability_references(x, <<p, j - 1>>)
           Unfolds(f, K) == f = [j \in 0..K |-> IF j = 0 THEN m ELSE Step(f[j - 1], j)]
           updated[j \in 0..MaxIndex + 1] ==
             IF j = 0 THEN m
             ELSE IF ~m.handlers[<<p, j - 1>>] THEN updated[j - 1]
             ELSE update_capability_references(updated[j - 1], <<p, j - 1>>)
<1>1. on_node_moved(m, p) = updated[MaxIndex + 1]
  BY DEF on_node_moved
<1>2. updated = CHOOSE f : Unfolds(f, MaxIndex + 1)
  OBVIOUS
<1>3. \A j \in Nat \ {0} : \A x : Step(x, j) = IF ~m.handlers[<<p, j - 1>>] THEN x
                                  ELSE update_capability_references(x, <<p, j - 1>>)
  OBVIOUS
<1> HIDE DEF Step
<1>4. \A K \in Nat : \E f : Unfolds(f, K)
  <2> DEFINE Bad == {K \in Nat : ~\E f : Unfolds(f, K)}
  <2> SUFFICES ASSUME Bad # {} PROVE FALSE
    OBVIOUS
  <2>1. PICK K \in Bad : \A n \in Bad : K <= n
    BY LeastNat
  <2>2. K \in Nat /\ ~\E f : Unfolds(f, K)
    OBVIOUS
  <2>3. K # 0
    <3>1. Unfolds([j \in 0..0 |-> m], 0)
      OBVIOUS
    <3> QED
      BY <2>2, <3>1
  <2>4. K - 1 \in Nat /\ K - 1 \notin Bad
    <3> HIDE DEF Bad
    <3> QED
      BY <2>1, <2>2, <2>3
  <2>5. PICK f : Unfolds(f, K - 1)
    BY <2>4
  <2> DEFINE g == [j \in 0..K |-> IF j = K THEN Step(f[K - 1], K) ELSE f[j]]
  <2>6. \A j \in 0..K - 1 : f[j] = IF j = 0 THEN m ELSE Step(f[j - 1], j)
    BY <2>5
  <2>7. \A j \in 0..K : g[j] = IF j = 0 THEN m ELSE Step(g[j - 1], j)
    <3> TAKE j \in 0..K
    <3>1. CASE j = 0
      BY <2>2, <2>3, <2>6, <3>1
    <3>2. CASE j # 0
      <4>1. j - 1 \in 0..K - 1 /\ j - 1 \in 0..K /\ j - 1 # K
        BY <2>2, <3>2
      <4>2. g[j - 1] = f[j - 1]
        BY <4>1
      <4>3. g[j] = Step(f[j - 1], j)
        <5>1. CASE j = K
          BY <5>1
        <5>2. CASE j # K
          <6>1. j \in 0..K - 1
            BY <2>2, <5>2
          <6> QED
            BY <2>6, <3>2, <5>2, <6>1
        <5> QED
          BY <5>1, <5>2
      <4> QED
        BY <3>2, <4>2, <4>3
    <3> QED
      BY <3>1, <3>2
  <2>8. g = [j \in 0..K |-> g[j]]
    OBVIOUS
  <2> HIDE DEF g
  <2>9. Unfolds(g, K)
    BY <2>7, <2>8
  <2> QED
    BY <2>2, <2>9
<1>5. MaxIndex + 1 \in Nat
  OBVIOUS
<1>6. Unfolds(updated, MaxIndex + 1)
  BY <1>2, <1>4, <1>5
<1> HIDE DEF updated
<1>7. \A j \in 0..MaxIndex + 1 : updated[j] = IF j = 0 THEN m ELSE Step(updated[j - 1], j)
  BY <1>6
<1>8. LoopSteps(m, p, updated)
  <2>1. updated[0] = m
    BY <1>5, <1>7
  <2>2. ASSUME NEW j \in Index
        PROVE  updated[j + 1] = IF ~m.handlers[<<p, j>>] THEN updated[j]
                                ELSE update_capability_references(updated[j], <<p, j>>)
    <3>1. j + 1 \in 0..MaxIndex + 1 /\ j + 1 \in Nat \ {0} /\ (j + 1) - 1 = j
      BY DEF Index
    <3>2. updated[j + 1] = Step(updated[(j + 1) - 1], j + 1)
      BY <1>7, <3>1
    <3> QED
      BY <1>3, <3>1, <3>2
  <2> QED
    BY <2>1, <2>2 DEF LoopSteps
<1> QED
  BY <1>1, <1>8

(* A node goes from q to p, b is memory once it has been copied.  No list  *)
(* has two of its slots.                                                   *)
Relocating(m, b, q, p) ==
  /\ m \in Memory /\ CapInv(m, Holding(m))
  /\ q \in Place /\ p \in Place /\ q # p
  /\ \A s \in Slot : m.handlers[s] => s[1] # p /\ \A i \in Index : m.derived_from[s] # <<p, i>>
  /\ \A i, j \in Index : i # j /\ m.handlers[<<q, i>>] /\ m.handlers[<<q, j>>]
       => m.resource[<<q, i>>] # m.resource[<<q, j>>]
  /\ b \in Memory /\ NodeCopied(m, b, q, p)

(* The slots that hold a capability, when those before j count at p and    *)
(* the others still at q.                                                  *)
Reached(m, q, p, j) ==
  {s \in Slot : \/ m.handlers[s] /\ ~(s[1] = q /\ s[2] < j)
                \/ s[1] = p /\ s[2] < j /\ m.handlers[<<q, s[2]>>]}

(* What holds once the slots before j have been updated.                   *)
LoopInv(m, b, q, p, j, u) ==
  /\ u \in Memory /\ RestSame(b, u)
  /\ CapInv(u, Reached(m, q, p, j))
  /\ \A i \in Index : i >= j /\ m.handlers[<<q, i>>] => Copied(u, <<q, i>>, <<p, i>>)
  /\ \A s \in Reached(m, q, p, j), i \in Index : i >= j => u.derived_from[s] # <<p, i>>
  /\ \A s \in Slot : m.handlers[s] /\ ~(s[1] = q /\ s[2] < j)
       => (u.resource_list.prev[s] = NULL <=> m.resource_list.prev[s] = NULL)
  /\ \A i \in Index : i < j /\ m.handlers[<<q, i>>]
       => (u.resource_list.prev[<<p, i>>] = NULL <=> m.resource_list.prev[<<q, i>>] = NULL)

(* It does before the first. *)
LEMMA LoopStart ==
  ASSUME NULL \notin Slot, NEW m, NEW b, NEW q, NEW p, Relocating(m, b, q, p)
  PROVE  LoopInv(m, b, q, p, 0, b)
<1> DEFINE L == Holding(m)
           R == Reached(m, q, p, 0)
<1>1. /\ m \in Memory /\ CapInv(m, L) /\ b \in Memory
      /\ \A s \in Slot : m.handlers[s] => s[1] # p /\ \A i \in Index : m.derived_from[s] # <<p, i>>
  BY DEF Relocating
<1>2. /\ \A i \in Index : Copied(b, <<q, i>>, <<p, i>>)
      /\ \A s \in Slot : s[1] # p => SlotSame(m, b, s)
  BY DEF Relocating, NodeCopied
<1>3. L \in SUBSET Slot /\ \A s \in Slot : s \in L <=> m.handlers[s]
  BY HoldingMember
<1>4. \A i \in Index : ~(i < 0)
  BY DEF Index
<1>5. R \in SUBSET Slot /\ \A s \in Slot : s \in R <=> m.handlers[s]
  BY <1>4, SlotParts DEF Reached
<1> HIDE DEF L, R
<1>6. R = L
  BY <1>3, <1>5
<1>7. CapInv(b, L)
  <2>1. \A s \in L : SlotSame(m, b, s)
    BY <1>1, <1>2, <1>3
  <2> QED
    BY <1>1, <1>3, <2>1, CapInvSame
<1>8. \A s \in Slot : m.handlers[s]
        => /\ \A i \in Index : b.derived_from[s] # <<p, i>>
           /\ b.resource_list.prev[s] = NULL <=> m.resource_list.prev[s] = NULL
  BY <1>1, <1>2 DEF SlotSame, LinksSame
<1>9. RestSame(b, b)
  BY DEF RestSame
<1> QED
  BY <1>1, <1>2, <1>4, <1>5, <1>6, <1>7, <1>8, <1>9 DEF LoopInv, R

(* An update keeps it for the next. *)
LEMMA LoopStep ==
  ASSUME NULL \notin Slot, MaxIndex \in Nat, NEW m, NEW b, NEW q, NEW p, Relocating(m, b, q, p),
         NEW j \in Index, NEW u, LoopInv(m, b, q, p, j, u), m.handlers[<<q, j>>],
         NEW k, k = update_capability_references(u, <<p, j>>)
  PROVE  LoopInv(m, b, q, p, j + 1, k)
<1> DEFINE From(i) == <<q, i>>
           To(i) == <<p, i>>
           L == Reached(m, q, p, j)
           N == Reached(m, q, p, j + 1)
<1>1. /\ m \in Memory /\ b \in Memory /\ q \in Place /\ p \in Place /\ q # p
      /\ \A s \in Slot : m.handlers[s] => s[1] # p
      /\ \A i \in Index : i # j /\ m.handlers[From(i)] => m.resource[From(i)] # m.resource[From(j)]
      /\ \A s \in Slot : s[1] # p => SlotSame(m, b, s)
  BY DEF Relocating, NodeCopied
<1>2. /\ u \in Memory /\ RestSame(b, u) /\ CapInv(u, L)
      /\ \A i \in Index : i >= j /\ m.handlers[From(i)] => Copied(u, From(i), To(i))
      /\ \A s \in L, i \in Index : i >= j => u.derived_from[s] # To(i)
  BY DEF LoopInv
<1>3. /\ \A s \in Slot : m.handlers[s] /\ ~(s[1] = q /\ s[2] < j)
           => (u.resource_list.prev[s] = NULL <=> m.resource_list.prev[s] = NULL)
      /\ \A i \in Index : i < j /\ m.handlers[From(i)]
           => (u.resource_list.prev[To(i)] = NULL <=> m.resource_list.prev[From(i)] = NULL)
  BY DEF LoopInv
<1>4. Index \in SUBSET Nat /\ j \in Nat /\ j >= j /\ ~(j < j)
  BY DEF Index
<1>5. \A i \in Index : /\ From(i) \in Slot /\ From(i)[1] = q /\ From(i)[2] = i
                       /\ To(i) \in Slot /\ To(i)[1] = p /\ To(i)[2] = i
  BY <1>1, SlotParts
<1>6. /\ L \in SUBSET Slot
      /\ \A s \in Slot : s \in L <=> \/ m.handlers[s] /\ ~(s[1] = q /\ s[2] < j)
                                     \/ s[1] = p /\ s[2] < j /\ m.handlers[<<q, s[2]>>]
  BY DEF Reached
<1>7. /\ N \in SUBSET Slot
      /\ \A s \in Slot : s \in N <=> \/ m.handlers[s] /\ ~(s[1] = q /\ s[2] < j + 1)
                                     \/ s[1] = p /\ s[2] < j + 1 /\ m.handlers[<<q, s[2]>>]
  BY DEF Reached
<1> HIDE DEF L, N
<1>8. \A s \in Slot : /\ s[1] \in Place /\ s[2] \in Nat /\ s = <<s[1], s[2]>>
                      /\ s[2] < j + 1 <=> s[2] < j \/ s[2] = j
  BY <1>4, SlotParts
<1>9. /\ From(j) \in L /\ To(j) \in Slot
      /\ \A i \in Index : i >= j => To(i) \notin L
      /\ \A i \in Index : i >= j /\ m.handlers[From(i)] => From(i) \in L
  <2>1. ASSUME NEW i \in Index, i >= j
        PROVE  To(i) \notin L /\ (m.handlers[From(i)] => From(i) \in L)
    <3>1. ~(i < j)
      BY <1>4, <2>1
    <3>2. ~m.handlers[To(i)] /\ From(i)[1] = q /\ From(i)[2] = i /\ To(i)[1] = p /\ To(i)[2] = i
          /\ From(i) \in Slot /\ To(i) \in Slot
      BY <1>1, <1>5
    <3> HIDE DEF From, To
    <3> QED
      BY <1>6, <3>1, <3>2
  <2>2. To(j) \in Slot /\ j \in Index /\ m.handlers[From(j)]
    BY <1>5
  <2> HIDE DEF From, To
  <2> QED
    BY <1>4, <2>1, <2>2
<1>10. \A s \in Slot : s \in N <=> (s \in L /\ s # From(j)) \/ s = To(j)
  <2> TAKE s \in Slot
  <2>1. CASE s[1] = p
    <3>1. s # From(j) /\ (s = To(j) <=> s[2] = j) /\ ~m.handlers[s]
      BY <1>1, <1>5, <1>8, <2>1
    <3> QED
      BY <1>6, <1>7, <1>8, <2>1, <3>1
  <2>2. CASE s[1] # p
    <3>1. s # To(j) /\ (s = From(j) <=> s[1] = q /\ s[2] = j)
      BY <1>5, <1>8, <2>2
    <3> QED
      BY <1>6, <1>7, <1>8, <2>2, <3>1
  <2> QED
    BY <2>1, <2>2
<1>11. Moving(u, L, N, From(j), To(j))
  <2>1. Copied(u, From(j), To(j)) /\ \A s \in L : u.derived_from[s] # To(j)
    BY <1>2, <1>4
  <2> QED
    BY <1>2, <1>10, <2>1 DEF Moving
<1>12. k \in Memory /\ RestSame(u, k) /\ Updated(u, k, To(j))
  BY <1>2, <1>5, UpdateReferences
<1> HIDE DEF From, To
<1>13. Moved(u, k, L, N, From(j), To(j))
  BY <1>2, <1>4, <1>6, <1>7, <1>9, <1>11, <1>12, UpdateFinishesMove
<1>14. /\ CapInv(k, N)
       /\ \A s \in L : u.resource[s] # u.resource[From(j)] => SlotSame(u, k, s)
       /\ \A s \in Slot : s \notin L /\ s # To(j) /\ s # u.derived_from[From(j)] => SlotSame(u, k, s)
       /\ \A s \in L : s # From(j)
            => (k.resource_list.prev[s] = NULL <=> u.resource_list.prev[s] = NULL)
       /\ k.resource_list.prev[To(j)] = NULL <=> u.resource_list.prev[From(j)] = NULL
       /\ \A s \in Slot : k.derived_from[s] = u.derived_from[s] \/ k.derived_from[s] = To(j)
  BY <1>13 DEF Moved
<1>15. RestSame(b, k)
  BY <1>2, <1>12 DEF RestSame
<1>16. ASSUME NEW i \in Index, i >= j + 1, m.handlers[From(i)]
       PROVE  Copied(k, From(i), To(i))
  <2>1. i # j /\ i >= j /\ Copied(u, From(i), To(i))
    BY <1>2, <1>4, <1>16
  <2>2. /\ From(i) \in L /\ To(i) \notin L /\ From(i) \in Slot /\ To(i) \in Slot
        /\ To(i) # To(j) /\ From(j) \in L
    BY <1>4, <1>5, <1>9, <1>16, <2>1
  <2>3. SlotSame(u, k, From(i))
    <3>1. u.resource[From(i)] # u.resource[From(j)]
      <4>1. u.resource = b.resource
        BY <1>2 DEF RestSame
      <4>2. b.resource[From(i)] = m.resource[From(i)] /\ b.resource[From(j)] = m.resource[From(j)]
        BY <1>1, <1>5 DEF SlotSame
      <4> QED
        BY <1>1, <1>16, <2>1, <4>1, <4>2
    <3> QED
      BY <1>14, <2>2, <3>1
  <2>4. SlotSame(u, k, To(i))
    <3>1. To(i) # u.derived_from[From(j)]
      BY <1>2, <2>1, <2>2
    <3> QED
      BY <1>14, <2>2, <3>1
  <2> QED
    BY <2>1, <2>3, <2>4 DEF Copied, SlotSame, LinksSame
<1>17. ASSUME NEW s \in N, NEW i \in Index, i >= j + 1
       PROVE  k.derived_from[s] # To(i)
  <2>1. i >= j /\ To(i) # To(j) /\ s \in Slot
    <3>1. i >= j /\ i # j
      BY <1>4, <1>17
    <3> QED
      BY <1>5, <1>7, <3>1
  <2>2. k.derived_from[s] = u.derived_from[s] \/ k.derived_from[s] = To(j)
    BY <1>14, <2>1
  <2>3. u.derived_from[s] # To(i)
    <3>1. CASE s = To(j)
      <4>1. Copied(u, From(j), To(j))
        BY <1>11 DEF Moving
      <4>2. u.derived_from[To(j)] = u.derived_from[From(j)]
        BY <4>1 DEF Copied
      <4> QED
        BY <1>2, <1>9, <2>1, <3>1, <4>2
    <3>2. CASE s # To(j)
      BY <1>2, <1>10, <2>1, <3>2
    <3> QED
      BY <3>1, <3>2
  <2> QED
    BY <2>1, <2>2, <2>3
<1>18. ASSUME NEW s \in Slot, m.handlers[s], ~(s[1] = q /\ s[2] < j + 1)
       PROVE  k.resource_list.prev[s] = NULL <=> m.resource_list.prev[s] = NULL
  <2>1. s \in L /\ s # From(j) /\ ~(s[1] = q /\ s[2] < j)
    <3>1. ~(s[1] = q /\ s[2] < j) /\ ~(s[1] = q /\ s[2] = j)
      BY <1>8, <1>18
    <3>2. From(j)[1] = q /\ From(j)[2] = j
      BY <1>5
    <3> QED
      BY <1>6, <1>18, <3>1, <3>2
  <2> QED
    BY <1>3, <1>14, <1>18, <2>1
<1>19. ASSUME NEW i \in Index, i < j + 1, m.handlers[From(i)]
       PROVE  k.resource_list.prev[To(i)] = NULL <=> m.resource_list.prev[From(i)] = NULL
  <2>1. CASE i = j
    <3>1. u.resource_list.prev[From(j)] = NULL <=> m.resource_list.prev[From(j)] = NULL
      <4>1. From(j) \in Slot /\ From(j)[2] = j /\ m.handlers[From(j)]
        BY <1>5 DEF From
      <4> QED
        BY <1>3, <1>4, <4>1
    <3> QED
      BY <1>14, <2>1, <3>1
  <2>2. CASE i # j
    <3>1. i < j
      BY <1>4, <1>19, <2>2
    <3>2. To(i) \in L /\ To(i) # From(j)
      BY <1>1, <1>5, <1>6, <1>19, <3>1 DEF From
    <3> QED
      BY <1>3, <1>14, <1>19, <3>1, <3>2
  <2> QED
    BY <2>1, <2>2
<1> QED
  BY <1>12, <1>14, <1>15, <1>16, <1>17, <1>18, <1>19 DEF LoopInv, From, To, N

(* A slot without a capability is passed over. *)
LEMMA LoopSkip ==
  ASSUME NULL \notin Slot, MaxIndex \in Nat, NEW m, NEW b, NEW q, NEW p, Relocating(m, b, q, p),
         NEW j \in Index, NEW u, LoopInv(m, b, q, p, j, u), ~m.handlers[<<q, j>>]
  PROVE  LoopInv(m, b, q, p, j + 1, u)
<1> DEFINE L == Reached(m, q, p, j)
           N == Reached(m, q, p, j + 1)
<1>1. Index \in SUBSET Nat /\ j \in Nat
  BY DEF Index
<1>2. \A i \in Index : /\ i < j + 1 <=> i < j \/ i = j
                       /\ i >= j + 1 => i >= j
  BY <1>1
<1>3. \A s \in Slot : s[2] \in Index /\ s = <<s[1], s[2]>>
  BY SlotParts
<1>4. \A s \in Slot : m.handlers[s] => ~(s[1] = q /\ s[2] = j)
  <2> TAKE s \in Slot
  <2> QED
    BY <1>3
<1>5. L = N
  <2>1. \A s \in Slot : (s \in L <=> s \in N)
    <3> TAKE s \in Slot
    <3>1. s[2] < j + 1 <=> s[2] < j \/ s[2] = j
      BY <1>2, <1>3
    <3>2. s \in L <=> \/ m.handlers[s] /\ ~(s[1] = q /\ s[2] < j)
                      \/ s[1] = p /\ s[2] < j /\ m.handlers[<<q, s[2]>>]
      BY DEF Reached
    <3>3. s \in N <=> \/ m.handlers[s] /\ ~(s[1] = q /\ s[2] < j + 1)
                      \/ s[1] = p /\ s[2] < j + 1 /\ m.handlers[<<q, s[2]>>]
      BY DEF Reached
    <3> QED
      BY <1>4, <3>1, <3>2, <3>3
  <2>2. L \in SUBSET Slot /\ N \in SUBSET Slot
    BY DEF Reached
  <2> HIDE DEF L, N
  <2> QED
    BY <2>1, <2>2
<1> HIDE DEF L, N
<1>6. /\ u \in Memory /\ RestSame(b, u) /\ CapInv(u, L)
      /\ \A i \in Index : i >= j /\ m.handlers[<<q, i>>] => Copied(u, <<q, i>>, <<p, i>>)
      /\ \A s \in L, i \in Index : i >= j => u.derived_from[s] # <<p, i>>
  BY DEF LoopInv, L
<1>7. /\ \A s \in Slot : m.handlers[s] /\ ~(s[1] = q /\ s[2] < j)
           => (u.resource_list.prev[s] = NULL <=> m.resource_list.prev[s] = NULL)
      /\ \A i \in Index : i < j /\ m.handlers[<<q, i>>]
           => (u.resource_list.prev[<<p, i>>] = NULL <=> m.resource_list.prev[<<q, i>>] = NULL)
  BY DEF LoopInv
<1>8. /\ \A i \in Index : i >= j + 1 /\ m.handlers[<<q, i>>] => Copied(u, <<q, i>>, <<p, i>>)
      /\ \A s \in N, i \in Index : i >= j + 1 => u.derived_from[s] # <<p, i>>
  BY <1>2, <1>5, <1>6
<1>9. \A s \in Slot : m.handlers[s] /\ ~(s[1] = q /\ s[2] < j + 1)
        => (u.resource_list.prev[s] = NULL <=> m.resource_list.prev[s] = NULL)
  <2> TAKE s \in Slot
  <2>1. s[2] < j => s[2] < j + 1
    BY <1>2, <1>3
  <2> QED
    BY <1>7, <2>1
<1>10. \A i \in Index : i < j + 1 /\ m.handlers[<<q, i>>]
         => (u.resource_list.prev[<<p, i>>] = NULL <=> m.resource_list.prev[<<q, i>>] = NULL)
  <2> TAKE i \in Index
  <2>1. i < j + 1 /\ m.handlers[<<q, i>>] => i < j
    BY <1>2
  <2> QED
    BY <1>7, <2>1
<1> QED
  BY <1>5, <1>6, <1>8, <1>9, <1>10 DEF LoopInv, N

(* So it holds after the last, by induction over the slots.                *)
LEMMA LoopEnd ==
  ASSUME NULL \notin Slot, MaxIndex \in Nat, NEW m, NEW b, NEW q, NEW p, Relocating(m, b, q, p),
         NEW u, LoopSteps(b, p, u)
  PROVE  LoopInv(m, b, q, p, MaxIndex + 1, u[MaxIndex + 1])
<1> DEFINE Holds(j) == LoopInv(m, b, q, p, j, u[j])
           Bad == {j \in 0..MaxIndex + 1 : ~Holds(j)}
<1>1. Holds(0)
  BY LoopStart DEF LoopSteps
<1>2. ASSUME NEW j \in Index, Holds(j)
      PROVE  Holds(j + 1)
  <2>1. b.handlers[<<p, j>>] <=> m.handlers[<<q, j>>]
    BY DEF Relocating, NodeCopied
  <2>2. u[j + 1] = IF ~b.handlers[<<p, j>>] THEN u[j]
                   ELSE update_capability_references(u[j], <<p, j>>)
    BY DEF LoopSteps
  <2>3. CASE m.handlers[<<q, j>>]
    <3>1. u[j + 1] = update_capability_references(u[j], <<p, j>>)
      BY <2>1, <2>2, <2>3
    <3> QED
      BY <1>2, <2>3, <3>1, LoopStep
  <2>4. CASE ~m.handlers[<<q, j>>]
    <3>1. u[j + 1] = u[j]
      BY <2>1, <2>2, <2>4
    <3> QED
      BY <1>2, <2>4, <3>1, LoopSkip
  <2> QED
    BY <2>3, <2>4
<1> HIDE DEF Holds
<1>3. MaxIndex + 1 \notin Bad
  <2> SUFFICES ASSUME Bad # {} PROVE FALSE
    OBVIOUS
  <2>1. Bad \in SUBSET Nat
    OBVIOUS
  <2>2. PICK k \in Bad : \A i \in Bad : k <= i
    BY <2>1, LeastNat
  <2>3. k \in 0..MaxIndex + 1 /\ ~Holds(k)
    OBVIOUS
  <2>4. k # 0
    BY <1>1, <2>3
  <2>5. /\ k - 1 \in Index /\ (k - 1) + 1 = k /\ k - 1 \in 0..MaxIndex + 1 /\ ~(k <= k - 1)
    BY <2>3, <2>4 DEF Index
  <2>6. k - 1 \notin Bad
    <3> HIDE DEF Bad
    <3> QED
      BY <2>2, <2>5
  <2>7. Holds(k - 1)
    BY <2>5, <2>6
  <2> QED
    BY <1>2, <2>3, <2>5, <2>7
<1>4. MaxIndex + 1 \in 0..MaxIndex + 1
  OBVIOUS
<1> QED
  BY <1>3, <1>4 DEF Holds

(***************************************************************************)
(* The heap moves node n to the free place p.                              *)
(***************************************************************************)
LEMMA RelocateOk ==
  ASSUME NULL \notin Slot, MaxIndex \in Nat, NEW m, NEW pl, MemOk(m, pl), PlaceOk(pl),
         NEW n \in Node, NEW p \in Place, \A o \in Node : pl[o] # p,
         \A i \in Index : \A s \in Slot : m.handlers[s] => m.derived_from[s] # <<p, i>>,
         \A i, j \in Index : i # j /\ m.handlers[<<pl[n], i>>] /\ m.handlers[<<pl[n], j>>]
           => m.resource[<<pl[n], i>>] # m.resource[<<pl[n], j>>],
         NEW v, v = on_node_moved(copy_node(m, pl[n], p), p),
         NEW h, h = [s \in Slot |-> v.handlers[s] /\ s[1] # pl[n]],
         NEW k, k = [v EXCEPT !.handlers = h]
  PROVE  MemOk(k, [pl EXCEPT ![n] = p])
<1> DEFINE q == pl[n]
           b == copy_node(m, q, p)
           K == MaxIndex + 1
           R == Reached(m, q, p, K)
           ql == [pl EXCEPT ![n] = p]
           From(i) == <<q, i>>
           To(i) == <<p, i>>
<1>1. /\ m \in Memory /\ ~m.hung /\ CapInv(m, Holding(m))
      /\ \A t \in Slot : m.handlers[t] => OwnerOk(m, pl, t) /\ Occupied(pl, t)
      /\ \A r \in Resource : r \in m.allocated <=> \E t \in Slot : m.handlers[t] /\ m.resource[t] = r
  BY DEF MemOk
<1>2. /\ q \in Place /\ p \in Place /\ q # p /\ pl \in [Node -> Place]
      /\ \A o \in Node : pl[o] = q => o = n
  BY DEF PlaceOk
<1>3. \A s \in Slot : m.handlers[s] => s[1] # p
  <2> TAKE s \in Slot
  <2> HAVE m.handlers[s]
  <2>1. PICK a \in CapAddress : At(pl, a) = s
    BY <1>1 DEF Occupied
  <2>2. a[1] \in Node /\ At(pl, a)[1] = pl[a[1]]
    BY DEF CapAddress, At
  <2> QED
    BY <2>1, <2>2
<1>4. b \in Memory /\ NodeCopied(m, b, q, p)
  BY <1>1, <1>2, CopyNodeEffects
<1>5. Relocating(m, b, q, p)
  <2> HIDE DEF b, q
  <2>1. \A i, j \in Index : i # j /\ m.handlers[<<q, i>>] /\ m.handlers[<<q, j>>]
          => m.resource[<<q, i>>] # m.resource[<<q, j>>]
    BY DEF q
  <2> QED
    BY <1>1, <1>2, <1>3, <1>4, <2>1 DEF Relocating
<1>6. LoopInv(m, b, q, p, K, v)
  <2>1. PICK u : LoopSteps(b, p, u) /\ on_node_moved(b, p) = u[K]
    BY OnNodeMovedSteps
  <2>2. v = u[K]
    BY <2>1
  <2> HIDE DEF b, q
  <2> QED
    BY <1>5, <2>1, <2>2, LoopEnd
<1> HIDE DEF b
<1>7. /\ v \in Memory /\ RestSame(b, v) /\ CapInv(v, R)
  BY <1>6 DEF LoopInv
<1>8. \A i \in Index : i < K /\ i \in Nat
  BY DEF Index
<1>9. /\ \A s \in Slot : m.handlers[s] /\ s[1] # q
           => (v.resource_list.prev[s] = NULL <=> m.resource_list.prev[s] = NULL)
      /\ \A i \in Index : m.handlers[From(i)]
           => (v.resource_list.prev[To(i)] = NULL <=> m.resource_list.prev[From(i)] = NULL)
  BY <1>6, <1>8 DEF LoopInv
<1>10. /\ R \in SUBSET Slot
       /\ \A s \in Slot : s \in R <=> \/ m.handlers[s] /\ s[1] # q
                                      \/ s[1] = p /\ m.handlers[<<q, s[2]>>]
  <2>1. \A s \in Slot : s[2] \in Index
    BY SlotParts
  <2> QED
    BY <1>8, <2>1 DEF Reached
<1>11. /\ \A i \in Index : /\ b.handlers[To(i)] <=> m.handlers[From(i)]
                           /\ b.resource[To(i)] = m.resource[From(i)]
       /\ \A s \in Slot : s[1] # p => /\ b.handlers[s] <=> m.handlers[s]
                                      /\ b.resource[s] = m.resource[s]
       /\ b.owner = m.owner /\ b.allocated = m.allocated /\ b.hung = m.hung
  <2>1. \A i \in Index : From(i) \in Slot /\ From(i)[1] # p
    BY <1>2, SlotParts
  <2>2. /\ \A i \in Index : Copied(b, From(i), To(i)) /\ (b.handlers[To(i)] <=> m.handlers[From(i)])
        /\ \A s \in Slot : s[1] # p => SlotSame(m, b, s) /\ (b.handlers[s] <=> m.handlers[s])
        /\ b.owner = m.owner /\ b.allocated = m.allocated /\ b.hung = m.hung
    BY <1>4 DEF NodeCopied
  <2> HIDE DEF From, To
  <2> QED
    BY <2>1, <2>2 DEF Copied, SlotSame
<1>12. v.handlers \in [Slot -> BOOLEAN]
  BY <1>7, MemoryParts
<1>13. h \in [Slot -> BOOLEAN] /\ \A s \in Slot : h[s] <=> v.handlers[s] /\ s[1] # q
  BY <1>12
<1>14. /\ k \in Memory /\ k.handlers = h /\ k.resource = v.resource /\ k.flags = v.flags
       /\ k.resource_list = v.resource_list /\ k.derivation_list = v.derivation_list
       /\ k.derived_from = v.derived_from /\ k.derivation = v.derivation
       /\ k.owner = v.owner /\ k.allocated = v.allocated /\ k.hung = v.hung
  <2> DEFINE c == [v EXCEPT !.handlers = h]
  <2>1. c \in Memory
    BY <1>7, <1>13 DEF Memory
  <2>2. /\ c.handlers = h /\ c.resource = v.resource /\ c.flags = v.flags
        /\ c.resource_list = v.resource_list /\ c.derivation_list = v.derivation_list
        /\ c.derived_from = v.derived_from /\ c.derivation = v.derivation
        /\ c.owner = v.owner /\ c.allocated = v.allocated /\ c.hung = v.hung
    BY <1>7 DEF Memory
  <2>3. k = c
    OBVIOUS
  <2> HIDE DEF c
  <2> QED
    BY <2>1, <2>2, <2>3
<1>15. /\ v.handlers = b.handlers /\ v.resource = b.resource
       /\ k.owner = m.owner /\ k.allocated = m.allocated /\ ~k.hung
  BY <1>1, <1>7, <1>11, <1>14 DEF RestSame
<1>16. \A s \in Slot : k.handlers[s] <=> s \in R
  <2> TAKE s \in Slot
  <2>1. k.handlers[s] <=> b.handlers[s] /\ s[1] # q
    BY <1>13, <1>14, <1>15
  <2>2. CASE s[1] = p
    <3>1. s[2] \in Index /\ s = To(s[2])
      BY <2>2, SlotParts
    <3>2. b.handlers[s] <=> m.handlers[From(s[2])]
      BY <1>11, <3>1
    <3> QED
      BY <1>2, <1>3, <1>10, <2>1, <2>2, <3>2
  <2>3. CASE s[1] # p
    BY <1>10, <1>11, <2>1, <2>3
  <2> QED
    BY <2>2, <2>3
<1>17. CapInv(k, Holding(k))
  <2>1. \A s : SlotSame(v, k, s)
    BY <1>7, <1>14, OtherFieldsSame
  <2>2. CapInv(k, R)
    BY <1>7, <1>10, <1>14, <2>1, CapInvSame
  <2>3. Holding(k) = R
    BY <1>10, <1>16, HoldingMember
  <2> QED
    BY <2>2, <2>3
<1>18. \A a \in CapAddress : /\ At(pl, a)[1] = q => a[1] = n /\ At(ql, a) = <<p, At(pl, a)[2]>>
                             /\ At(pl, a)[1] # q => At(ql, a) = At(pl, a)
  BY <1>2 DEF CapAddress, At
<1>19. ASSUME NEW t \in Slot, m.handlers[t], t[1] # q
       PROVE  /\ k.handlers[t] /\ k.resource[t] = m.resource[t]
              /\ OwnerOk(k, ql, t) /\ Occupied(ql, t)
  <2>1. k.handlers[t] /\ k.resource[t] = m.resource[t]
    <3> HIDE DEF R
    <3>1. t \in R
      BY <1>10, <1>19
    <3>2. t[1] # p
      BY <1>3, <1>19
    <3>3. b.resource[t] = m.resource[t]
      BY <1>11, <3>2
    <3> QED
      BY <1>14, <1>15, <1>16, <3>1, <3>3
  <2>2. k.resource_list.prev[t] = NULL <=> m.resource_list.prev[t] = NULL
    BY <1>9, <1>14, <1>19
  <2>3. OwnerOk(m, pl, t) /\ Occupied(pl, t)
    BY <1>1, <1>19
  <2>4. \A a \in CapAddress : At(pl, a) = t => At(ql, a) = t
    BY <1>18, <1>19
  <2> HIDE DEF ql
  <2>5. OwnerOk(k, ql, t)
    BY <1>15, <2>1, <2>2, <2>3, <2>4 DEF OwnerOk
  <2>6. Occupied(ql, t)
    BY <2>3, <2>4 DEF Occupied
  <2> QED
    BY <2>1, <2>5, <2>6
<1>20. ASSUME NEW i \in Index, m.handlers[From(i)]
       PROVE  /\ k.handlers[To(i)] /\ k.resource[To(i)] = m.resource[From(i)]
              /\ OwnerOk(k, ql, To(i)) /\ Occupied(ql, To(i))
  <2>1. /\ To(i) \in Slot /\ To(i)[1] = p /\ To(i)[2] = i
        /\ From(i) \in Slot /\ From(i)[1] = q /\ From(i)[2] = i
    BY <1>2, SlotParts
  <2>2. k.handlers[To(i)] /\ k.resource[To(i)] = m.resource[From(i)]
    BY <1>10, <1>11, <1>14, <1>15, <1>16, <1>20, <2>1
  <2>3. k.resource_list.prev[To(i)] = NULL <=> m.resource_list.prev[From(i)] = NULL
    BY <1>9, <1>14, <1>20
  <2>4. OwnerOk(m, pl, From(i)) /\ Occupied(pl, From(i))
    BY <1>1, <1>20, <2>1
  <2>5. \A a \in CapAddress : At(pl, a) = From(i) => At(ql, a) = To(i)
    BY <1>18, <2>1
  <2> HIDE DEF ql, From, To
  <2>6. OwnerOk(k, ql, To(i))
    BY <1>15, <2>2, <2>3, <2>4, <2>5 DEF OwnerOk
  <2>7. Occupied(ql, To(i))
    BY <2>4, <2>5 DEF Occupied
  <2> QED
    BY <2>2, <2>6, <2>7
<1>21. ASSUME NEW t \in Slot, k.handlers[t]
       PROVE  \/ m.handlers[t] /\ t[1] # q
              \/ \E i \in Index : t = To(i) /\ m.handlers[From(i)]
  BY <1>10, <1>16, <1>21, SlotParts
<1>22. \A t \in Slot : m.handlers[t] /\ t[1] = q => \E i \in Index : t = From(i)
  BY SlotParts
<1>23. \A i \in Index : To(i) \in Slot /\ From(i) \in Slot
  BY <1>2, SlotParts
<1> HIDE DEF ql, From, To, R, q, K
<1>24. \A t \in Slot : k.handlers[t] => OwnerOk(k, ql, t) /\ Occupied(ql, t)
  <2> TAKE t \in Slot
  <2>1. CASE m.handlers[t] /\ t[1] # q
    BY <1>19, <2>1
  <2>2. ASSUME NEW i \in Index, t = To(i), m.handlers[From(i)]
        PROVE  OwnerOk(k, ql, t) /\ Occupied(ql, t)
    BY <1>20, <2>2
  <2> QED
    BY <1>21, <2>1, <2>2
<1>25. ASSUME NEW r \in Resource
       PROVE  r \in k.allocated <=> \E t \in Slot : k.handlers[t] /\ k.resource[t] = r
  <2>1. ASSUME NEW t \in Slot, m.handlers[t], m.resource[t] = r
        PROVE  \E s \in Slot : k.handlers[s] /\ k.resource[s] = r
    <3>1. CASE t[1] # q
      BY <1>19, <2>1, <3>1
    <3>2. CASE t[1] = q
      <4>1. PICK i \in Index : t = From(i)
        BY <1>22, <2>1, <3>2
      <4>2. k.handlers[To(i)] /\ k.resource[To(i)] = r
        BY <1>20, <2>1, <4>1
      <4> QED
        BY <1>23, <4>2
    <3> QED
      BY <3>1, <3>2
  <2>2. ASSUME NEW t \in Slot, k.handlers[t], k.resource[t] = r
        PROVE  \E s \in Slot : m.handlers[s] /\ m.resource[s] = r
    <3>1. CASE m.handlers[t] /\ t[1] # q
      BY <1>19, <2>2, <3>1
    <3>2. ASSUME NEW i \in Index, t = To(i), m.handlers[From(i)]
          PROVE  \E s \in Slot : m.handlers[s] /\ m.resource[s] = r
      <4>1. m.resource[From(i)] = r
        BY <1>20, <2>2, <3>2
      <4> QED
        BY <1>23, <3>2, <4>1
    <3> QED
      BY <1>21, <2>2, <3>1, <3>2
  <2> QED
    BY <1>1, <1>15, <2>1, <2>2
<1>26. MemOk(k, ql)
  BY <1>14, <1>15, <1>17, <1>24, <1>25 DEF MemOk
<1> QED
  BY <1>26 DEF ql

-----------------------------------------------------------------------------
(* The calls, one by one.                                                  *)

(* The inductive invariant: every resource has one capability or a pair in *)
(* order, the heap knows the first of them, the slots are in nodes and no  *)
(* two nodes are in one place.                                             *)
IInv == MemOk(M, place) /\ PlaceOk(place)

SoundCalls == Calls \cap UnsoundCalls = {}

(* The memory is that of the variables. *)
LEMMA MFields ==
  /\ M.handlers = handlers /\ M.resource = resource /\ M.flags = flags
  /\ M.resource_list = resource_list /\ M.derivation_list = derivation_list
  /\ M.derived_from = derived_from /\ M.derivation = derivation
  /\ M.owner = owner /\ M.allocated = allocated /\ M.hung = hung
BY DEF M

(* A call makes the memory what it says. *)
LEMMA BecomeMemory ==
  ASSUME NEW k \in Memory, Become(k)
  PROVE  M' = k
<1>1. M' = [handlers |-> k.handlers, resource |-> k.resource, flags |-> k.flags,
            resource_list |-> k.resource_list, derivation_list |-> k.derivation_list,
            derived_from |-> k.derived_from, derivation |-> k.derivation,
            owner |-> k.owner, allocated |-> k.allocated, hung |-> k.hung]
  BY DEF M, Become
<1> QED
  BY <1>1, MemoryRecord

(* So a call that leaves the places keeps the invariant if its memory does. *)
LEMMA CallKeeps ==
  ASSUME IInv, NEW k, MemOk(k, place), Become(k), UNCHANGED place
  PROVE  IInv'
<1>1. M' = k
  BY BecomeMemory DEF MemOk
<1>2. MemOk(M', place')
  BY <1>1
<1>3. PlaceOk(place')
  BY DEF IInv
<1>4. MemOk(M, place)' /\ PlaceOk(place)'
  BY <1>2, <1>3 DEF MemOk, PlaceOk, CapInv, ListsOf, AloneOk, PairOk, ParentOf, Siblings, OriginOk,
     OwnerOk, Occupied, Single, Pair, At, Holding
<1> QED
  BY <1>4 DEF IInv

(* An address is that of a slot in a node. *)
LEMMA SlotAtOk ==
  ASSUME PlaceOk(place), NEW a \in CapAddress
  PROVE  /\ SlotAt(a) \in Slot /\ SlotAt(a) = At(place, a)
         /\ Occupied(place, SlotAt(a))
<1>1. SlotAt(a) = At(place, a)
  BY DEF SlotAt, At
<1>2. SlotAt(a) \in Slot
  BY DEF SlotAt, Slot, PlaceOk, CapAddress
<1> QED
  BY <1>1, <1>2 DEF Occupied

(* No capability that was derived from an empty slot's last one is left. *)
LEMMA UsableOk ==
  ASSUME SoundCalls, NEW s \in Slot, Usable(s)
  PROVE  \A t \in Slot : M.handlers[t] => M.derived_from[t] # s
BY MFields DEF SoundCalls, UnsoundCalls, Usable, Orphaning

(* populate_capability_slot. *)
LEMMA PopulateKeeps ==
  ASSUME NULL \notin Slot, SoundCalls, IInv, NEW a \in CapAddress, NEW r \in Resource, Populate(a, r)
  PROVE  IInv'
<1> DEFINE s == SlotAt(a)
           Cleared(f) == [start |-> [f.start EXCEPT ![s] = NULL], end |-> [f.end EXCEPT ![s] = NULL],
                          prev |-> [f.prev EXCEPT ![s] = NULL], next |-> [f.next EXCEPT ![s] = NULL]]
           dl == Cleared(derivation_list)
           k == [M EXCEPT !.handlers[s] = TRUE,
                          !.resource[s] = r,
                          !.flags[s] = {"ORIGINAL"},
                          !.resource_list = LIST_INIT_NO_CONTAINER(@, s),
                          !.derivation_list = dl,
                          !.derived_from[s] = NULL,
                          !.derivation[s] = NULL,
                          !.owner[r] = a,
                          !.allocated = @ \cup {r}]
<1>1. /\ MemOk(M, place) /\ PlaceOk(place) /\ M \in Memory
  BY DEF IInv, MemOk
<1>2. s \in Slot /\ s = At(place, a)
  BY <1>1, SlotAtOk
<1>3. ~M.handlers[s] /\ r \notin M.allocated /\ Usable(s) /\ UNCHANGED place
  BY MFields DEF Populate
<1>4. \A t \in Slot : M.handlers[t] => M.derived_from[t] # s
  BY <1>2, <1>3, UsableOk
<1>5. /\ dl \in ListField(Slot) /\ dl.prev[s] = NULL /\ dl.next[s] = NULL
      /\ \A t \in Slot : t # s => LinksSame(M.derivation_list, dl, t)
  <2>1. derivation_list \in ListField(Slot) /\ M.derivation_list = derivation_list
    BY <1>1, MFields, MemoryParts
  <2>2. /\ derivation_list.start \in [Slot -> Slot \cup {NULL}]
        /\ derivation_list.end \in [Slot -> Slot \cup {NULL}]
        /\ derivation_list.prev \in [Slot -> Slot \cup {NULL}]
        /\ derivation_list.next \in [Slot -> Slot \cup {NULL}]
    BY <2>1, ListFieldParts
  <2>3. dl \in ListField(Slot)
    BY <2>2, ListFieldIntro
  <2>4. \A t \in Slot : t # s => LinksSame(derivation_list, dl, t)
    BY <2>2 DEF LinksSame
  <2> QED
    BY <1>2, <2>1, <2>2, <2>3, <2>4
<1>6. Become(k)
  BY MFields DEF Populate, Call
<1> HIDE DEF s, dl
<1>7. MemOk(k, place)
  BY <1>1, <1>2, <1>3, <1>4, <1>5, PopulateOk
<1> HIDE DEF k
<1> QED
  BY <1>3, <1>6, <1>7, CallKeeps

(* NODE_COPY. *)
LEMMA NodeCopyKeeps ==
  ASSUME NULL \notin Slot, SoundCalls, IInv, NEW a \in CapAddress, NEW b \in CapAddress,
         NEW badged \in BOOLEAN, NodeCopy(a, b, badged)
  PROVE  IInv'
<1> DEFINE s == SlotAt(a)
           d == SlotAt(b)
           m == copy_capability(M, s, d)
           k == IF badged THEN [m EXCEPT !.flags[d] = @ \cup {"BADGED"}] ELSE m
           alone == \A t \in Slot \ {s} : handlers[t] => resource[t] # resource[s]
           name == IF ~handlers[s] THEN "copy_empty" ELSE IF alone THEN "copy"
                   ELSE IF InsertsWell(s) THEN "copy_shared" ELSE "copy_stale"
<1>1. MemOk(M, place) /\ PlaceOk(place) /\ M \in Memory
  BY DEF IInv, MemOk
<1>2. s \in Slot /\ d \in Slot /\ Occupied(place, d)
  BY <1>1, SlotAtOk
<1>3. /\ ~handlers[d] /\ Usable(d) /\ (badged => "ORIGINAL" \in flags[s])
      /\ name \in Calls /\ Become(k) /\ UNCHANGED place
  BY DEF NodeCopy, Call
<1>4. handlers[s] /\ alone
  BY <1>3 DEF SoundCalls, UnsoundCalls
<1>5. /\ M.handlers[s] /\ ~M.handlers[d] /\ s # d
      /\ \A t \in Slot : t # s /\ M.handlers[t] => M.resource[t] # M.resource[s]
  BY <1>3, <1>4, MFields
<1>6. \A t \in Slot : M.handlers[t] => M.derived_from[t] # d
  BY <1>2, <1>3, UsableOk
<1> HIDE DEF alone, name
<1>7. AloneOk(M, s) /\ OriginOk(M, s) /\ M.derived_from[s] # d
  <2> DEFINE L == Holding(M)
  <2>1. L \in SUBSET Slot /\ (\A t \in Slot : t \in L <=> M.handlers[t])
    BY HoldingMember
  <2>2. CapInv(M, L)
    BY <1>1 DEF MemOk
  <2> HIDE DEF L, s, d
  <2>3. ListsOf(M, L, s) /\ OriginOk(M, s)
    BY <1>2, <1>5, <2>1, <2>2 DEF CapInv
  <2>4. \A t \in L : ~PairOk(M, s, t) /\ ~PairOk(M, t, s)
    BY <1>5, <2>1 DEF PairOk, Pair
  <2> QED
    BY <1>2, <1>5, <1>6, <2>3, <2>4 DEF ListsOf
<1>8. CopyMade(M, m, s, d)
  <2>1. CASE M.flags[s] = {}
    BY <1>1, <1>2, <1>5, <1>7, <2>1, CopyOfCopy
  <2>2. CASE M.flags[s] # {}
    BY <1>1, <1>2, <1>5, <1>7, <2>2, CopyOfOriginal
  <2> QED
    BY <2>1, <2>2
<1> HIDE DEF s, d, m
<1>9. CopyMade(M, k, s, d)
  <2>1. CASE badged
    <3>1. M.flags[s] # {}
      BY <1>3, <2>1, MFields
    <3>2. CopyMade(M, [m EXCEPT !.flags[d] = @ \cup {"BADGED"}], s, d)
      BY <1>2, <1>5, <1>8, <3>1, CopyBadged
    <3> QED
      BY <2>1, <3>2
  <2>2. CASE ~badged
    BY <1>8, <2>2
  <2> QED
    BY <2>1, <2>2
<1> HIDE DEF k
<1>10. MemOk(k, place)
  BY <1>1, <1>2, <1>5, <1>6, <1>9, CopyOk
<1> QED
  BY <1>3, <1>10, CallKeeps

(* NODE_MOVE. *)
LEMMA NodeMoveKeeps ==
  ASSUME NULL \notin Slot, SoundCalls, IInv, NEW a \in CapAddress, NEW b \in CapAddress, NodeMove(a, b)
  PROVE  IInv'
<1> DEFINE s == SlotAt(a)
           d == SlotAt(b)
           k == move_capability(M, s, d)
           name == IF ~handlers[s] THEN "move_empty" ELSE IF ~Known(s) THEN "move_stale" ELSE "move"
<1>1. MemOk(M, place) /\ PlaceOk(place)
  BY DEF IInv
<1>2. s \in Slot /\ d \in Slot /\ Occupied(place, d)
  BY <1>1, SlotAtOk
<1>3. ~handlers[d] /\ Usable(d) /\ name \in Calls /\ Become(k) /\ UNCHANGED place
  BY DEF NodeMove, Call
<1>4. M.handlers[s] /\ ~M.handlers[d]
  BY <1>3, MFields DEF SoundCalls, UnsoundCalls
<1>5. \A t \in Slot : M.handlers[t] => M.derived_from[t] # d
  BY <1>2, <1>3, UsableOk
<1> HIDE DEF s, d
<1>6. MemOk(k, place)
  BY <1>1, <1>2, <1>4, <1>5, MoveOk
<1> HIDE DEF k
<1> QED
  BY <1>3, <1>6, CallKeeps

(* NODE_DELETE. *)
LEMMA NodeDeleteKeeps ==
  ASSUME NULL \notin Slot, IInv, NEW a \in CapAddress, NodeDelete(a)
  PROVE  IInv'
<1> DEFINE s == SlotAt(a)
           n == merge_derivation_lists(M, s)
           k == delete_capability(n, s)
<1>1. MemOk(M, place) /\ PlaceOk(place)
  BY DEF IInv
<1>2. s \in Slot
  BY <1>1, SlotAtOk
<1>3. handlers[s] /\ Become(IF n.hung THEN n ELSE k) /\ UNCHANGED place
  BY DEF NodeDelete, Call
<1>4. M.handlers[s]
  BY <1>3, MFields
<1>5. ~n.hung /\ MemOk(k, place)
  BY <1>1, <1>2, <1>4, DeleteOk
<1>6. Become(k)
  BY <1>3, <1>5
<1> HIDE DEF k
<1> QED
  BY <1>3, <1>5, <1>6, CallKeeps

(* NODE_REVOKE. *)
LEMMA NodeRevokeKeeps ==
  ASSUME NULL \notin Slot, IInv, NEW a \in CapAddress, NodeRevoke(a)
  PROVE  IInv'
<1> DEFINE s == SlotAt(a)
           k == revoke_derived(M, s)
<1>1. MemOk(M, place) /\ PlaceOk(place)
  BY DEF IInv
<1>2. s \in Slot
  BY <1>1, SlotAtOk
<1>3. /\ handlers[s] /\ flags[s] # {} /\ derivation[s] # NULL
      /\ Become(k) /\ UNCHANGED place
  BY DEF NodeRevoke, Call
<1>4. M.handlers[s] /\ M.flags[s] # {} /\ M.derivation[s] # NULL
  BY <1>3, MFields
<1>5. MemOk(k, place)
  BY <1>1, <1>2, <1>4, RevokeOk
<1> HIDE DEF k
<1> QED
  BY <1>3, <1>5, CallKeeps

(* The heap moves a node. *)
LEMMA RelocateKeeps ==
  ASSUME NULL \notin Slot, MaxIndex \in Nat, SoundCalls, IInv,
         NEW n \in Node, NEW p \in Place, RelocateNode(n, p)
  PROVE  IInv'
<1> DEFINE q == place[n]
           From(i) == <<q, i>>
           To(i) == <<p, i>>
           v == on_node_moved(copy_node(M, q, p), p)
           h == [s \in Slot |-> v.handlers[s] /\ s[1] # q]
           k == [v EXCEPT !.handlers = h]
           ql == [place EXCEPT ![n] = p]
           linked == \E i, j \in Index : i # j /\ handlers[From(i)] /\ handlers[From(j)]
                                               /\ Linked(From(i), From(j))
           stale == \E i \in Index : handlers[From(i)] /\ ~Known(From(i))
           name == IF linked THEN "relocate_linked" ELSE IF stale THEN "relocate_stale" ELSE "relocate"
<1>1. MemOk(M, place) /\ PlaceOk(place)
  BY DEF IInv
<1>2. q \in Place
  BY <1>1 DEF PlaceOk
<1>3. /\ \A o \in Node : place[o] # p
      /\ \A i \in Index : Usable(To(i))
      /\ name \in Calls /\ Become(k) /\ place' = ql
  BY DEF RelocateNode, Call
<1>4. \A i \in Index : From(i) \in Slot /\ To(i) \in Slot
  BY <1>2, SlotParts
<1>5. ~linked
  BY <1>3 DEF SoundCalls, UnsoundCalls
<1>6. \A i \in Index : \A s \in Slot : M.handlers[s] => M.derived_from[s] # To(i)
  <2> TAKE i \in Index
  <2>1. To(i) \in Slot /\ Usable(To(i))
    BY <1>3, <1>4
  <2> HIDE DEF To
  <2> QED
    BY <2>1, UsableOk
<1>7. \A i, j \in Index : i # j /\ M.handlers[From(i)] /\ M.handlers[From(j)]
        => M.resource[From(i)] # M.resource[From(j)]
  <2> SUFFICES ASSUME NEW i \in Index, NEW j \in Index, i # j,
                      M.handlers[From(i)], M.handlers[From(j)],
                      M.resource[From(i)] = M.resource[From(j)]
               PROVE  FALSE
    OBVIOUS
  <2>1. From(i) \in Slot /\ From(j) \in Slot /\ From(i) # From(j)
    BY <1>4
  <2>2. handlers[From(i)] /\ handlers[From(j)] /\ resource[From(i)] = resource[From(j)]
    BY MFields
  <2>3. Linked(From(i), From(j))
    BY <2>2 DEF Linked
  <2> QED
    BY <1>5, <2>2, <2>3
<1> HIDE DEF linked, name
<1>8. MemOk(k, ql)
  BY <1>1, <1>3, <1>6, <1>7, RelocateOk
<1>9. PlaceOk(ql)
  BY <1>1, <1>3 DEF PlaceOk
<1> HIDE DEF k, ql
<1>10. M' = k
  BY <1>3, <1>8, BecomeMemory DEF MemOk
<1>11. MemOk(M', place') /\ PlaceOk(place')
  BY <1>3, <1>8, <1>9, <1>10
<1>12. MemOk(M, place)' /\ PlaceOk(place)'
  BY <1>11 DEF MemOk, PlaceOk, CapInv, ListsOf, AloneOk, PairOk, ParentOf, Siblings, OriginOk,
     OwnerOk, Occupied, Single, Pair, At, Holding
<1> QED
  BY <1>12 DEF IInv

-----------------------------------------------------------------------------
(* The invariant.                                                          *)

(* At first no slot holds a capability. *)
LEMMA InitOk ==
  ASSUME NULL \notin Slot, Init
  PROVE  IInv
<1>1. PlaceOk(place)
  BY DEF Init, PlaceOk
<1>2. /\ Empty \in [Slot -> Slot \cup {NULL}] /\ Empty \in [Slot -> Resource \cup {NULL}]
      /\ NoList \in ListField(Slot)
  BY DEF Empty, NoList, ListField
<1>3. M \in Memory
  <2>1. /\ handlers \in [Slot -> BOOLEAN] /\ flags \in [Slot -> Flags]
        /\ owner \in [Resource -> CapAddress \cup {NULL}] /\ allocated \in SUBSET Resource
        /\ hung \in BOOLEAN
    BY DEF Init, Flags
  <2>2. /\ resource \in [Slot -> Resource \cup {NULL}]
        /\ resource_list \in ListField(Slot) /\ derivation_list \in ListField(Slot)
        /\ derived_from \in [Slot -> Slot \cup {NULL}] /\ derivation \in [Slot -> Slot \cup {NULL}]
    BY <1>2 DEF Init
  <2> QED
    BY <2>1, <2>2 DEF M, Memory
<1>4. \A s \in Slot : ~M.handlers[s]
  BY MFields DEF Init
<1>5. M.allocated = {} /\ ~M.hung
  BY MFields DEF Init
<1>6. CapInv(M, Holding(M))
  <2>1. \A s : s \notin Holding(M)
    BY <1>4, HoldingMember
  <2> QED
    BY <2>1 DEF CapInv
<1> QED
  BY <1>1, <1>3, <1>4, <1>5, <1>6 DEF IInv, MemOk

(* A step that changes nothing keeps the invariant. *)
LEMMA StutterKeeps ==
  ASSUME IInv, UNCHANGED vars
  PROVE  IInv'
<1>1. M' = M /\ place' = place
  BY DEF M, vars
<1>2. MemOk(M', place') /\ PlaceOk(place')
  BY <1>1 DEF IInv
<1>3. MemOk(M, place)' /\ PlaceOk(place)'
  BY <1>2 DEF MemOk, PlaceOk, CapInv, ListsOf, AloneOk, PairOk, ParentOf, Siblings, OriginOk,
     OwnerOk, Occupied, Single, Pair, At, Holding
<1> QED
  BY <1>3 DEF IInv

(* Every step keeps it. *)
LEMMA NextKeeps ==
  ASSUME NULL \notin Slot, MaxIndex \in Nat, SoundCalls, IInv, [Next]_vars
  PROVE  IInv'
<1>1. ASSUME NEW a \in CapAddress, NEW r \in Resource, Populate(a, r)
      PROVE  IInv'
  BY <1>1, PopulateKeeps
<1>2. ASSUME NEW a \in CapAddress, NEW b \in CapAddress, NodeMove(a, b)
      PROVE  IInv'
  BY <1>2, NodeMoveKeeps
<1>3. ASSUME NEW a \in CapAddress, NEW b \in CapAddress, NEW badged \in BOOLEAN, NodeCopy(a, b, badged)
      PROVE  IInv'
  BY <1>3, NodeCopyKeeps
<1>4. ASSUME NEW a \in CapAddress, NodeDelete(a)
      PROVE  IInv'
  BY <1>4, NodeDeleteKeeps
<1>5. ASSUME NEW a \in CapAddress, NodeRevoke(a)
      PROVE  IInv'
  BY <1>5, NodeRevokeKeeps
<1>6. ASSUME NEW n \in Node, NEW p \in Place, RelocateNode(n, p)
      PROVE  IInv'
  BY <1>6, RelocateKeeps
<1>7. CASE UNCHANGED vars
  BY <1>7, StutterKeeps
<1> QED
  BY <1>1, <1>2, <1>3, <1>4, <1>5, <1>6, <1>7 DEF Next

(***************************************************************************)
(* The lists stay in order.                                                *)
(***************************************************************************)
THEOREM Invariance == ASSUME SoundCalls PROVE Spec => []IInv
<1>1. NULL \notin Slot /\ MaxIndex \in Nat
  BY CapabilitiesAssumption
<1>2. Init => IInv
  BY <1>1, InitOk
<1>3. IInv /\ [Next]_vars => IInv'
  BY <1>1, NextKeeps
<1> QED
  BY <1>2, <1>3, PTL DEF Spec

(* The type invariant follows from it. *)
LEMMA InvTypeOK == ASSUME IInv PROVE TypeOK
<1>1. M \in Memory /\ PlaceOk(place)
  BY DEF IInv, MemOk
<1>2. /\ M.handlers \in [Slot -> BOOLEAN] /\ M.resource \in [Slot -> Resource \cup {NULL}]
      /\ M.flags \in [Slot -> Flags]
      /\ M.resource_list \in ListField(Slot) /\ M.derivation_list \in ListField(Slot)
      /\ M.derived_from \in [Slot -> Slot \cup {NULL}]
      /\ M.derivation \in [Slot -> Slot \cup {NULL}]
      /\ M.owner \in [Resource -> CapAddress \cup {NULL}]
      /\ M.allocated \in SUBSET Resource /\ M.hung \in BOOLEAN
  BY <1>1, MemoryParts
<1> QED
  BY <1>1, <1>2, MFields DEF TypeOK, Flags, PlaceOk

(* So does that resources are freed with their last capability. *)
LEMMA InvFreedWithLast == ASSUME IInv PROVE FreedWithLast
BY MFields DEF IInv, MemOk, FreedWithLast, SlotsWith

(* The first capability in a resource's list leads to all to it. *)
LEMMA ListHasAll ==
  ASSUME NULL \notin Slot, NEW m \in Memory, NEW L \in SUBSET Slot, CapInv(m, L), NEW s \in L
  PROVE  \E f \in L : /\ m.resource[f] = m.resource[s] /\ m.resource_list.prev[f] = NULL
                      /\ \A t \in Slot : t \in Iterated(Slot, m.resource_list, f)
                           <=> t \in L /\ m.resource[t] = m.resource[s]
<1>0. m.resource_list.next \in [Slot -> Slot \cup {NULL}]
  BY MemoryParts, ListFieldParts
<1>1. ASSUME NEW f \in L, Single(m.resource_list, f)
      PROVE  m.resource_list.prev[f] = NULL /\ Iterated(Slot, m.resource_list, f) = {f}
  BY <1>0, <1>1, MembersOfOne DEF Iterated, Single
<1>2. ASSUME NEW c \in L, NEW d \in L, Pair(m.resource_list, c, d)
      PROVE  m.resource_list.prev[c] = NULL /\ Iterated(Slot, m.resource_list, c) = {c, d}
  BY <1>0, <1>2, MembersOfTwo DEF Iterated, Pair
<1>3. CASE AloneOk(m, s) /\ \A t \in L : t # s => m.resource[t] # m.resource[s]
  BY <1>1, <1>3 DEF AloneOk
<1>4. ASSUME NEW c \in L, NEW d \in L, s \in {c, d}, PairOk(m, c, d),
             \A t \in L : t # c /\ t # d => m.resource[t] # m.resource[s]
      PROVE  \E f \in L : /\ m.resource[f] = m.resource[s] /\ m.resource_list.prev[f] = NULL
                          /\ \A t \in Slot : t \in Iterated(Slot, m.resource_list, f)
                               <=> t \in L /\ m.resource[t] = m.resource[s]
  <2>1. Pair(m.resource_list, c, d) /\ m.resource[c] = m.resource[s] /\ m.resource[d] = m.resource[s]
    BY <1>4 DEF PairOk
  <2>2. m.resource_list.prev[c] = NULL /\ Iterated(Slot, m.resource_list, c) = {c, d}
    BY <1>2, <2>1
  <2> QED
    BY <1>4, <2>1, <2>2
<1>5. ASSUME NEW d \in L, PairOk(m, s, d),
             \A t \in L : t # s /\ t # d => m.resource[t] # m.resource[s]
      PROVE  \E f \in L : /\ m.resource[f] = m.resource[s] /\ m.resource_list.prev[f] = NULL
                          /\ \A t \in Slot : t \in Iterated(Slot, m.resource_list, f)
                               <=> t \in L /\ m.resource[t] = m.resource[s]
  BY <1>4, <1>5
<1>6. ASSUME NEW c \in L, PairOk(m, c, s),
             \A t \in L : t # s /\ t # c => m.resource[t] # m.resource[s]
      PROVE  \E f \in L : /\ m.resource[f] = m.resource[s] /\ m.resource_list.prev[f] = NULL
                          /\ \A t \in Slot : t \in Iterated(Slot, m.resource_list, f)
                               <=> t \in L /\ m.resource[t] = m.resource[s]
  BY <1>4, <1>6
<1> QED
  BY <1>3, <1>5, <1>6, GroupOf

(* update_capability_resource reaches them all. *)
LEMMA InvMovesReachAll == ASSUME NULL \notin Slot, IInv PROVE MovesReachAll
<1> DEFINE L == Holding(M)
<1>1. /\ M \in Memory /\ CapInv(M, L)
      /\ \A t \in Slot : M.handlers[t] => OwnerOk(M, place, t)
      /\ \A r \in Resource : r \in M.allocated <=> \E t \in Slot : M.handlers[t] /\ M.resource[t] = r
      /\ M.allocated \in SUBSET Resource
  BY MemoryParts DEF IInv, MemOk
<1>2. L \in SUBSET Slot /\ \A s \in Slot : s \in L <=> M.handlers[s]
  BY HoldingMember
<1> HIDE DEF L
<1> SUFFICES ASSUME NEW r \in allocated
             PROVE  LET s == SlotAt(owner[r])
                    IN  /\ owner[r] # NULL
                        /\ s \in SlotsWith(r)
                        /\ resource_list.prev[s] = NULL
                        /\ Iterated(Slot, resource_list, s) = SlotsWith(r)
  BY DEF MovesReachAll
<1>3. PICK t \in L : M.resource[t] = r
  BY <1>1, <1>2, MFields
<1>4. PICK f \in L : /\ M.resource[f] = r /\ M.resource_list.prev[f] = NULL
                     /\ \A u \in Slot : u \in Iterated(Slot, M.resource_list, f)
                          <=> u \in L /\ M.resource[u] = r
  BY <1>1, <1>2, <1>3, ListHasAll
<1>5. owner[r] \in CapAddress /\ SlotAt(owner[r]) = f
  <2>1. OwnerOk(M, place, f)
    BY <1>1, <1>2
  <2> QED
    BY <1>4, <2>1, MFields DEF OwnerOk, SlotAt, At
<1>6. \A u \in Slot : u \in SlotsWith(r) <=> u \in L /\ M.resource[u] = r
  BY <1>2, MFields DEF SlotsWith
<1>7. Iterated(Slot, resource_list, f) \subseteq Slot /\ SlotsWith(r) \subseteq Slot
  <2>1. resource_list.start[f] \in Slot \cup {NULL} /\ resource_list.next \in [Slot -> Slot \cup {NULL}]
    <3>1. resource_list \in ListField(Slot)
      BY <1>1, MFields, MemoryParts
    <3> QED
      BY <1>2, <3>1, ListFieldParts
  <2> QED
    BY <2>1 DEF Iterated, Members, SlotsWith
<1>8. Iterated(Slot, resource_list, f) = SlotsWith(r)
  BY <1>4, <1>6, <1>7, MFields
<1>9. owner[r] # NULL
  BY <1>5, CapabilitiesAssumption
<1> QED
  BY <1>2, <1>4, <1>5, <1>6, <1>8, <1>9, MFields

(* What is known of a capability's parent and of those derived from it. *)
LEMMA GroupDerivations ==
  ASSUME NULL \notin Slot, NEW m \in Memory, NEW L \in SUBSET Slot, CapInv(m, L), NEW s \in L
  PROVE  /\ m.flags[s] # {}
              => \A t \in Slot : t \in Derived(m, s) <=> t \in L /\ m.derived_from[t] = s
         /\ m.derived_from[s] \in L => m.flags[m.derived_from[s]] # {}
<1>0. /\ m.derivation_list.next \in [Slot -> Slot \cup {NULL}]
      /\ \A t \in L : m.derived_from[t] \in L => m.resource[m.derived_from[t]] = m.resource[t]
  BY MemoryParts, ListFieldParts DEF CapInv
<1>1. m.derivation[s] = NULL => \A t : t \notin Derived(m, s)
  BY DEF Derived
<1>2. CASE AloneOk(m, s) /\ \A t \in L : t # s => m.resource[t] # m.resource[s]
  <2>1. m.derivation[s] = NULL /\ m.derived_from[s] # s
    BY <1>2 DEF AloneOk
  <2> QED
    BY <1>0, <1>1, <1>2, <2>1
<1>3. ASSUME NEW d \in L, PairOk(m, s, d),
             \A t \in L : t # s /\ t # d => m.resource[t] # m.resource[s]
      PROVE  /\ m.flags[s] # {}
                  => \A t \in Slot : t \in Derived(m, s) <=> t \in L /\ m.derived_from[t] = s
             /\ m.derived_from[s] \notin L
  <2>1. m.derived_from[s] # s /\ m.derived_from[s] # d
    BY <1>3 DEF PairOk
  <2>2. m.derived_from[s] \notin L
    BY <1>0, <1>3, <2>1
  <2>3. ASSUME m.flags[s] # {}
        PROVE  \A t \in Slot : t \in Derived(m, s) <=> t \in L /\ m.derived_from[t] = s
    <3>1. m.derivation[s] = d /\ m.derived_from[d] = s /\ Single(m.derivation_list, d)
      BY <1>3, <2>3 DEF PairOk, ParentOf, Siblings
    <3>2. Derived(m, s) = {d}
      <4>1. Members(Slot, d, m.derivation_list.next) = {d}
        BY <1>0, <3>1, MembersOfOne DEF Single
      <4> QED
        BY <3>1, <4>1 DEF Derived, Iterated, Single
    <3>3. \A t \in L : m.derived_from[t] = s => t = d
      BY <1>0, <1>3, <2>1
    <3> QED
      BY <3>1, <3>2, <3>3
  <2> QED
    BY <2>2, <2>3
<1>4. ASSUME NEW c \in L, PairOk(m, c, s),
             \A t \in L : t # s /\ t # c => m.resource[t] # m.resource[s]
      PROVE  /\ m.flags[s] # {}
                  => \A t \in Slot : t \in Derived(m, s) <=> t \in L /\ m.derived_from[t] = s
             /\ m.derived_from[s] \in L => m.flags[m.derived_from[s]] # {}
  <2>1. c # s /\ m.derived_from[c] # s /\ m.derivation[s] = NULL /\ m.derived_from[s] # s
    BY <1>4 DEF PairOk, Pair, ParentOf, Siblings
  <2>2. m.derived_from[s] = c => m.flags[c] # {}
    BY <1>4 DEF PairOk, ParentOf, Siblings
  <2>3. \A t \in L : m.derived_from[t] # s
    BY <1>0, <1>4, <2>1
  <2>4. m.derived_from[s] \in L => m.derived_from[s] = c
    BY <1>0, <1>4, <2>1
  <2> QED
    BY <1>1, <2>1, <2>2, <2>3, <2>4
<1> QED
  BY <1>2, <1>3, <1>4, GroupOf

(* NODE_REVOKE finds all that were derived. *)
LEMMA InvDerivationsExact == ASSUME NULL \notin Slot, IInv PROVE DerivationsExact
<1> DEFINE L == Holding(M)
<1>1. M \in Memory /\ CapInv(M, L)
  BY DEF IInv, MemOk
<1>2. L \in SUBSET Slot /\ \A s \in Slot : s \in L <=> M.handlers[s]
  BY HoldingMember
<1>3. \A s \in Slot : handlers[s] <=> s \in L
  BY <1>2, MFields
<1> HIDE DEF L
<1> SUFFICES ASSUME NEW s \in Slot, handlers[s]
             PROVE  /\ flags[s] # {} => Derived(M, s) = {t \in Slot : handlers[t] /\ derived_from[t] = s}
                    /\ flags[s] = {} => derived_from[s] # NULL
                    /\ derived_from[s] # NULL /\ handlers[derived_from[s]]
                         => /\ resource[derived_from[s]] = resource[s]
                            /\ flags[derived_from[s]] # {}
  BY DEF DerivationsExact
<1>4. s \in L
  BY <1>3
<1>5. /\ flags[s] # {} => \A t \in Slot : t \in Derived(M, s) <=> t \in L /\ derived_from[t] = s
      /\ derived_from[s] \in L => flags[derived_from[s]] # {}
  <2>1. /\ M.flags[s] # {} => \A t \in Slot : t \in Derived(M, s) <=> t \in L /\ M.derived_from[t] = s
        /\ M.derived_from[s] \in L => M.flags[M.derived_from[s]] # {}
    BY <1>1, <1>2, <1>4, GroupDerivations
  <2> QED
    BY <2>1, MFields
<1>6. Derived(M, s) \subseteq Slot
  <2>1. M.derivation_list \in ListField(Slot) /\ M.derivation \in [Slot -> Slot \cup {NULL}]
    BY <1>1, MemoryParts
  <2>2. /\ M.derivation_list.start \in [Slot -> Slot \cup {NULL}]
        /\ M.derivation_list.next \in [Slot -> Slot \cup {NULL}]
    BY <2>1, ListFieldParts
  <2> QED
    BY <2>1, <2>2 DEF Derived, Iterated, Members
<1>7. flags[s] # {} => Derived(M, s) = {t \in Slot : handlers[t] /\ derived_from[t] = s}
  BY <1>3, <1>5, <1>6
<1>8. flags[s] = {} => derived_from[s] # NULL
  BY <1>1, <1>4, MFields DEF CapInv, OriginOk
<1>9. derived_from[s] # NULL /\ handlers[derived_from[s]]
        => resource[derived_from[s]] = resource[s] /\ flags[derived_from[s]] # {}
  <2>1. derived_from[s] \in Slot \cup {NULL}
    BY <1>1, MFields, MemoryParts
  <2>2. derived_from[s] \in L => resource[derived_from[s]] = resource[s]
    BY <1>1, <1>4, MFields DEF CapInv
  <2> QED
    BY <1>3, <1>5, <2>1, <2>2
<1> QED
  BY <1>7, <1>8, <1>9

-----------------------------------------------------------------------------
(* The theorems.                                                           *)

(* The slots keep their types, through copies that clear the flags, moves, *)
(* deletions, revocations and relocations of nodes.                        *)
THEOREM TypesKept == ASSUME SoundCalls PROVE Spec => []TypeOK
<1>1. IInv => TypeOK
  BY InvTypeOK
<1> QED
  BY <1>1, Invariance, PTL

(* The heap's update capability leads to all capabilities to its resource. *)
THEOREM AllReached == ASSUME SoundCalls PROVE Spec => []MovesReachAll
<1>1. IInv => MovesReachAll
  BY CapabilitiesAssumption, InvMovesReachAll
<1> QED
  BY <1>1, Invariance, PTL

(* A resource is freed with the last capability to it and not before.      *)
THEOREM FreedThen == ASSUME SoundCalls PROVE Spec => []FreedWithLast
<1>1. IInv => FreedWithLast
  BY InvFreedWithLast
<1> QED
  BY <1>1, Invariance, PTL

(* Derivation lists hold what was derived, wherever it is now.             *)
THEOREM DerivedFound == ASSUME SoundCalls PROVE Spec => []DerivationsExact
<1>1. IInv => DerivationsExact
  BY CapabilitiesAssumption, InvDerivationsExact
<1> QED
  BY <1>1, Invariance, PTL
=============================================================================
