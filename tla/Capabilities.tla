---------------------------- MODULE Capabilities ----------------------------
(***************************************************************************)
(* Capability slots and the two lists that thread them, after              *)
(* src/core/kernel/capabilities.c: all capabilities to one resource form   *)
(* its resource list, all that were derived from one capability form that  *)
(* one's derivation list.  NODE_COPY, NODE_MOVE, NODE_DELETE and           *)
(* NODE_REVOKE work on them, IPC does through copy_capability and          *)
(* move_capability, and the heap moves the nodes that hold the slots.      *)
(*                                                                         *)
(* A slot is an address in memory: a place that can hold a node, and an    *)
(* index in it.  place[n] is where node n is now; what is in capability    *)
(* space at <<n, i>> does not change when n moves.  Memory that was left   *)
(* keeps its contents.  The resources are not nodes: nodes are never       *)
(* copied, so their lists are trivial.  A slot's own address field always  *)
(* is where the slot is in capability space, and is not modelled; the copy *)
(* of it that the heap keeps to find a resource's owner is.                *)
(***************************************************************************)
EXTENDS Naturals, FiniteSets, Sequences, NoContainerList

CONSTANTS
  Node,
  Place,     \* where nodes can be in memory
  MaxIndex,  \* a node has the slots 0..MaxIndex
  Resource,
  Calls      \* the calls that are made

Index == 0..MaxIndex
Slot == Place \X Index
CapAddress == Node \X Index

ASSUME CapabilitiesAssumption ==
  /\ MaxIndex \in Nat
  /\ NULL \notin Slot \cup CapAddress

(***************************************************************************)
(* The calls with a suffix are told apart, since the lists do not survive  *)
(* all of them (see the README):                                           *)
(*   copy             of the only capability to a resource                 *)
(*   copy_shared      of one of several                                    *)
(*   copy_stale, move_stale, delete_stale, revoke_stale, relocate_stale    *)
(*                    that follow the wrong `prev` of a slot               *)
(*   delete_badged    of a badged capability that others were derived from *)
(*                    and whose parent is still there                      *)
(*   relocate         of a node with one capability to each resource       *)
(*   relocate_linked  of one with several                                  *)
(*   copy_empty, move_empty   of a slot that holds no capability           *)
(*   reuse_parent     of an empty slot that a derived_from still names     *)
(***************************************************************************)
AllCalls == {"populate", "copy", "copy_shared", "copy_stale", "copy_empty",
             "move", "move_stale", "move_empty", "delete", "delete_stale",
             "delete_badged", "revoke", "revoke_stale",
             "relocate", "relocate_stale", "relocate_linked", "reuse_parent"}

VARIABLES
  handlers,         \* slot->handlers # NULL: the slot holds a capability
  resource,         \* slot->resource
  flags,            \* slot->flags, of them CAP_FLAG_ORIGINAL and CAP_FLAG_BADGED
  resource_list,    \* slot->resource_list
  derivation_list,  \* slot->derivation_list
  derived_from,     \* slot->derived_from
  derivation,       \* slot->derivation
  owner,            \* the heap's update capability of each resource
  allocated,        \* the resources that have not been freed
  place,            \* where each node is
  hung              \* a loop of the kernel does not end

vars == <<handlers, resource, flags, resource_list, derivation_list,
          derived_from, derivation, owner, allocated, place, hung>>

(* The memory the C functions work on. *)
M == [handlers |-> handlers, resource |-> resource, flags |-> flags,
      resource_list |-> resource_list, derivation_list |-> derivation_list,
      derived_from |-> derived_from, derivation |-> derivation,
      owner |-> owner, allocated |-> allocated, hung |-> hung]

Become(m) == /\ handlers' = m.handlers
             /\ resource' = m.resource
             /\ flags' = m.flags
             /\ resource_list' = m.resource_list
             /\ derivation_list' = m.derivation_list
             /\ derived_from' = m.derived_from
             /\ derivation' = m.derivation
             /\ owner' = m.owner
             /\ allocated' = m.allocated
             /\ hung' = m.hung

SlotAt(a) == <<place[a[1]], a[2]>>
AddressOf(s) == CHOOSE a \in CapAddress : SlotAt(a) = s

-----------------------------------------------------------------------------
(* memcpy of one slot to another. *)
copy_slot(m, from, to) ==
  LET Copy(f) == [f EXCEPT ![to] = f[from]]
      Links(f) == [start |-> Copy(f.start), end |-> Copy(f.end),
                   prev |-> Copy(f.prev), next |-> Copy(f.next)]
  IN  [m EXCEPT !.handlers = Copy(@), !.resource = Copy(@), !.flags = Copy(@),
                !.resource_list = Links(@), !.derivation_list = Links(@),
                !.derived_from = Copy(@), !.derivation = Copy(@)]

(* The slots that LIST_ITER visits in the derivation list of c. *)
Derived(m, c) == IF m.derivation[c] = NULL THEN {}
                 ELSE Iterated(Slot, m.derivation_list, m.derivation[c])

set_derived_from(m, S, c) ==
  [m EXCEPT !.derived_from = [s \in Slot |-> IF s \in S THEN c ELSE m.derived_from[s]]]

(* Mutant: a parent is not told where its first child has gone. *)
update_capability_references_below(m, c) ==
  LET m1 == [m EXCEPT
              !.resource_list = LIST_UPDATE_ADDRESS_NO_CONTAINER(Slot, @, c),
              !.derivation_list = LIST_UPDATE_ADDRESS_NO_CONTAINER(Slot, @, c)]
  IN  IF m1.flags[c] = {} THEN m1 ELSE set_derived_from(m1, Derived(m1, c), c)

update_capability_references(m, c) ==
  LET m1 == [m EXCEPT
              !.resource_list = LIST_UPDATE_ADDRESS_NO_CONTAINER(Slot, @, c),
              !.derivation_list = LIST_UPDATE_ADDRESS_NO_CONTAINER(Slot, @, c)]
      m2 == IF m1.flags[c] = {} THEN m1 ELSE set_derived_from(m1, Derived(m1, c), c)
  IN  IF m2.derivation_list.prev[c] = NULL
      THEN [m2 EXCEPT !.derivation = SetUnlessNull(@, m2.derived_from[c], c)]
      ELSE m2

(* Mutant: the heap is not told where the owner has gone. *)
move_capability_owner_kept(m, from, to) ==
  LET m1 == update_capability_references(copy_slot(m, from, to), to)
  IN  [m1 EXCEPT !.handlers[from] = FALSE]

(* move_capability, and the update of the heap's owner that follows it in  *)
(* node_move and, through update_capability_addresses, in IPC.             *)
move_capability(m, from, to) ==
  LET m1 == update_capability_references(copy_slot(m, from, to), to)
      m2 == [m1 EXCEPT !.handlers[from] = FALSE]
  IN  IF m2.resource_list.prev[to] = NULL
      THEN [m2 EXCEPT !.owner[m2.resource[to]] = AddressOf(to)]
      ELSE m2

(* Mutant: a copy of an original is an original. *)
copied_slot_flags_kept(m, source, dest) == copy_slot(m, source, dest)

copied_slot(m, source, dest) == [copy_slot(m, source, dest) EXCEPT !.flags[dest] = {}]

copy_capability(m, source, dest) ==
  LET m1 == [copied_slot(m, source, dest) EXCEPT
              !.resource_list = LIST_INSERT_NO_CONTAINER(@, source, dest)]
      m2 == IF m.flags[source] = {}
            THEN [m1 EXCEPT
                   !.derivation_list = LIST_INSERT_NO_CONTAINER(@, source, dest)]
            ELSE IF m.derivation[source] = NULL
            THEN [m1 EXCEPT !.derived_from[dest] = source,
                            !.derivation[source] = dest,
                            !.derivation_list = LIST_INIT_NO_CONTAINER(@, dest)]
            ELSE [m1 EXCEPT !.derived_from[dest] = source,
                            !.derivation_list = LIST_INSERT_NO_CONTAINER(
                                                  @, m.derivation[source], dest)]
  IN  [m2 EXCEPT !.derivation[dest] = NULL]

(***************************************************************************)
(* merge_derivation_lists.  When the child list is spliced into a list of  *)
(* several, its last item is made its own successor, and the loop over the *)
(* child list that follows does not end.                                   *)
(***************************************************************************)
merge_derivation_lists(m, c) ==
  LET parent == m.derived_from[c]
      list   == m.derivation_list
      merges == "BADGED" \in m.flags[c] /\ parent # NULL /\ m.derivation[c] # NULL
      spliced == merges /\ list.start[c] # list.end[c]
      m1 == IF merges
            THEN [set_derived_from(m, Derived(m, c), parent) EXCEPT
                   !.derivation[parent] = m.derivation[c]]
            ELSE m
      m2 == IF list.prev[c] = NULL
            THEN [m1 EXCEPT !.derivation = SetUnlessNull(@, parent, list.next[c])]
            ELSE m1
  IN  IF spliced THEN [m EXCEPT !.hung = TRUE]
      ELSE [m2 EXCEPT !.derivation_list = LIST_DELETE_NO_CONTAINER(Slot, @, c)]

(* Mutant: the resource goes with the first capability of its list. *)
delete_capability_and_resource(m, c) ==
  LET first == m.resource_list.prev[c] = NULL
  IN  [m EXCEPT !.allocated = IF first THEN @ \ {m.resource[c]} ELSE @,
                !.resource_list = LIST_DELETE_NO_CONTAINER(Slot, @, c),
                !.handlers[c] = FALSE]

(* delete_capability; the destructor is the resource's own affair. *)
delete_capability(m, c) ==
  LET first == m.resource_list.prev[c] = NULL
      next  == m.resource_list.next[c]
      r     == m.resource[c]
  IN  [m EXCEPT
        !.owner[r] = IF first /\ next # NULL THEN AddressOf(next) ELSE @,
        !.allocated = IF first /\ next = NULL THEN @ \ {r} ELSE @,
        !.resource_list = LIST_DELETE_NO_CONTAINER(Slot, @, c),
        !.handlers[c] = FALSE]

(* The slots of the derivation list of c in the order of the list. *)
DerivedInOrder(m, c) ==
  LET D == Derived(m, c)
      at[i \in 1..Cardinality(D)] ==
        IF i = 1 THEN m.derivation_list.start[m.derivation[c]]
        ELSE m.derivation_list.next[at[i - 1]]
  IN  at

delete_all(m, S) ==
  LET deleted[i \in 0..Len(S)] == IF i = 0 THEN m
                                  ELSE delete_capability(deleted[i - 1], S[i])
  IN  deleted[Len(S)]

(* Mutant: the loop ends after its first turn. *)
revoke_derived_once(m, c) ==
  LET s == DerivedInOrder(m, c)[1]
      Below == IF m.flags[s] = {} THEN <<>> ELSE DerivedInOrder(m, s)
  IN  [delete_all(m, Append(Below, s)) EXCEPT !.derivation[c] = NULL]

(* The loops of node_revoke: each derived capability is preceded by those  *)
(* derived from it.  They follow derivation lists, which no deletion       *)
(* changes.                                                                *)
revoke_derived(m, c) ==
  LET S == DerivedInOrder(m, c)
      Below(s) == IF m.flags[s] = {} THEN <<>> ELSE DerivedInOrder(m, s)
      order[i \in 0..Len(S)] == IF i = 0 THEN <<>>
                                ELSE order[i - 1] \o Below(S[i]) \o <<S[i]>>
  IN  [delete_all(m, order[Len(S)]) EXCEPT !.derivation[c] = NULL]

(* The heap's memcpy of a whole node to another place. *)
copy_node(m, from, to) ==
  LET Copy(f) == [s \in Slot |-> IF s[1] = to THEN f[<<from, s[2]>>] ELSE f[s]]
      Links(f) == [start |-> Copy(f.start), end |-> Copy(f.end),
                   prev |-> Copy(f.prev), next |-> Copy(f.next)]
  IN  [m EXCEPT !.handlers = Copy(@), !.resource = Copy(@), !.flags = Copy(@),
                !.resource_list = Links(@), !.derivation_list = Links(@),
                !.derived_from = Copy(@), !.derivation = Copy(@)]

(* The loop of on_node_moved over the slots of the node that is now at p. *)
on_node_moved(m, p) ==
  LET updated[j \in 0..MaxIndex + 1] ==
        IF j = 0 THEN m
        ELSE IF ~m.handlers[<<p, j - 1>>] THEN updated[j - 1]
        ELSE update_capability_references(updated[j - 1], <<p, j - 1>>)
  IN  updated[MaxIndex + 1]

-----------------------------------------------------------------------------
Empty == [s \in Slot |-> NULL]
NoList == [start |-> Empty, end |-> Empty, prev |-> Empty, next |-> Empty]

Init == /\ handlers = [s \in Slot |-> FALSE]
        /\ resource = Empty
        /\ flags = [s \in Slot |-> {}]
        /\ resource_list = NoList
        /\ derivation_list = NoList
        /\ derived_from = Empty
        /\ derivation = Empty
        /\ owner = [r \in Resource |-> NULL]
        /\ allocated = {}
        /\ place \in [Node -> Place]
        /\ \A n, o \in Node : place[n] = place[o] => n = o
        /\ hung = FALSE

(* An empty slot may still be what a capability says it was derived from:  *)
(* deleting a capability does not tell those derived from it.              *)
Orphaning(s) == \E t \in Slot : handlers[t] /\ derived_from[t] = s
Usable(s) == Orphaning(s) => "reuse_parent" \in Calls

(* In both lists the item before s is the one that s names: insertions    *)
(* leave the last item of a list with a wrong one.                         *)
PrevKnown(f, s) == f.prev[s] # NULL => handlers[f.prev[s]] /\ f.next[f.prev[s]] = s
Known(s) == PrevKnown(resource_list, s) /\ PrevKnown(derivation_list, s)

(* The last items of the lists that a copy of s is inserted into are known. *)
InsertsWell(s) ==
  /\ PrevKnown(resource_list, resource_list.end[s])
  /\ CASE flags[s] = {} -> PrevKnown(derivation_list, derivation_list.end[s])
       [] derivation[s] # NULL ->
            PrevKnown(derivation_list, derivation_list.end[derivation[s]])
       [] OTHER -> TRUE

Call(name, m) == /\ ~hung
                 /\ name \in Calls
                 /\ Become(m)

(* populate_capability_slot with a resource just allocated. *)
Populate(a, r) ==
  LET s == SlotAt(a)
      Cleared(f) == [start |-> [f.start EXCEPT ![s] = NULL], end |-> [f.end EXCEPT ![s] = NULL],
                     prev |-> [f.prev EXCEPT ![s] = NULL], next |-> [f.next EXCEPT ![s] = NULL]]
  IN  /\ ~handlers[s] /\ Usable(s)
      /\ r \notin allocated
      /\ Call("populate",
              [M EXCEPT !.handlers[s] = TRUE,
                        !.resource[s] = r,
                        !.flags[s] = {"ORIGINAL"},
                        !.resource_list = LIST_INIT_NO_CONTAINER(@, s),
                        !.derivation_list = Cleared(@),
                        !.derived_from[s] = NULL,
                        !.derivation[s] = NULL,
                        !.owner[r] = a,
                        !.allocated = @ \cup {r}])
      /\ UNCHANGED place

(* NODE_COPY, with or without a badge.  Neither it nor NODE_MOVE looks at  *)
(* whether the source holds a capability; a slot that never did is not     *)
(* initialised, and is left out.                                           *)
NodeCopy(a, b, badged) ==
  LET s == SlotAt(a)
      d == SlotAt(b)
      m == copy_capability(M, s, d)
  IN  /\ ~handlers[d] /\ Usable(d)
      /\ resource[s] # NULL
      /\ badged => "ORIGINAL" \in flags[s]
      /\ Call(IF ~handlers[s] THEN "copy_empty"
              ELSE IF \A t \in Slot \ {s} : handlers[t] => resource[t] # resource[s]
              THEN "copy" ELSE IF InsertsWell(s) THEN "copy_shared" ELSE "copy_stale",
              IF badged THEN [m EXCEPT !.flags[d] = @ \cup {"BADGED"}] ELSE m)
      /\ UNCHANGED place

NodeMove(a, b) ==
  LET s == SlotAt(a)
      d == SlotAt(b)
  IN  /\ ~handlers[d] /\ Usable(d)
      /\ resource[s] # NULL
      /\ Call(IF ~handlers[s] THEN "move_empty"
              ELSE IF ~Known(s) THEN "move_stale" ELSE "move",
              move_capability(M, s, d))
      /\ UNCHANGED place

NodeDelete(a) ==
  LET s == SlotAt(a)
      m == merge_derivation_lists(M, s)
  IN  /\ handlers[s]
      /\ Call(IF /\ "BADGED" \in flags[s]
                 /\ derived_from[s] # NULL /\ handlers[derived_from[s]]
                 /\ derivation[s] # NULL
              THEN "delete_badged"
              ELSE IF ~Known(s) THEN "delete_stale" ELSE "delete",
              IF m.hung THEN m ELSE delete_capability(m, s))
      /\ UNCHANGED place

(* The slots that NODE_REVOKE of s deletes. *)
Revoked(s) == Derived(M, s) \cup UNION {Derived(M, t) : t \in {d \in Derived(M, s) : flags[d] # {}}}

NodeRevoke(a) ==
  LET s == SlotAt(a)
  IN  /\ handlers[s]
      /\ flags[s] # {}
      /\ derivation[s] # NULL
      /\ Call(IF \A t \in Revoked(s) : Known(t) THEN "revoke" ELSE "revoke_stale",
              revoke_derived(M, s))
      /\ UNCHANGED place

(* Slots s and t are in one list, or parent and child. *)
Linked(s, t) == resource[s] = resource[t]

(* The heap moves node n to place p, and on_node_moved runs. *)
RelocateNode(n, p) ==
  LET From(i) == <<place[n], i>>
      To(i) == <<p, i>>
      moved == on_node_moved(copy_node(M, place[n], p), p)
  IN  /\ \A o \in Node : place[o] # p
      /\ \A i \in Index : Usable(To(i))
      /\ Call(IF \E i, j \in Index : i # j /\ handlers[From(i)] /\ handlers[From(j)]
                                       /\ Linked(From(i), From(j))
              THEN "relocate_linked"
              ELSE IF \E i \in Index : handlers[From(i)] /\ ~Known(From(i))
              THEN "relocate_stale" ELSE "relocate",
              [moved EXCEPT !.handlers = [s \in Slot |-> @[s] /\ s[1] # place[n]]])
      /\ place' = [place EXCEPT ![n] = p]

Next == \/ \E a \in CapAddress :
             \/ \E r \in Resource : Populate(a, r)
             \/ \E b \in CapAddress : NodeMove(a, b) \/ \E badged \in BOOLEAN : NodeCopy(a, b, badged)
             \/ NodeDelete(a)
             \/ NodeRevoke(a)
        \/ \E n \in Node, p \in Place : RelocateNode(n, p)

Spec == Init /\ [][Next]_vars

-----------------------------------------------------------------------------
(* The slots keep their types: in particular no slot is original and badged *)
(* at once, as a copy that kept the flags of its source would be.           *)
TypeOK ==
  /\ handlers \in [Slot -> BOOLEAN]
  /\ resource \in [Slot -> Resource \cup {NULL}]
  /\ flags \in [Slot -> {{}, {"ORIGINAL"}, {"BADGED"}}]
  /\ resource_list \in ListField(Slot)
  /\ derivation_list \in ListField(Slot)
  /\ derived_from \in [Slot -> Slot \cup {NULL}]
  /\ derivation \in [Slot -> Slot \cup {NULL}]
  /\ owner \in [Resource -> CapAddress \cup {NULL}]
  /\ allocated \subseteq Resource
  /\ place \in [Node -> Place]
  /\ hung \in BOOLEAN

SlotsWith(r) == {s \in Slot : handlers[s] /\ resource[s] = r}

(***************************************************************************)
(* When the heap moves a resource, update_capability_resource reaches all  *)
(* capabilities to it and nothing else: the heap's update capability names *)
(* a slot of the resource's list, and that list holds exactly the slots    *)
(* that name the resource.  The lists must survive copies, moves,          *)
(* deletions, revocations and relocations of the nodes the slots are in.   *)
(***************************************************************************)
MovesReachAll ==
  \A r \in allocated :
    LET s == SlotAt(owner[r])
    IN  /\ owner[r] # NULL
        /\ s \in SlotsWith(r)
        /\ resource_list.prev[s] = NULL
        /\ Iterated(Slot, resource_list, s) = SlotsWith(r)

(***************************************************************************)
(* A resource is freed with the last capability to it and not before: no   *)
(* capability names a freed resource, and every resource can be reached.   *)
(***************************************************************************)
FreedWithLast == \A r \in Resource : r \in allocated <=> SlotsWith(r) # {}

(***************************************************************************)
(* The derivation list of a capability holds exactly the capabilities that *)
(* were derived from it, wherever both have been moved: NODE_REVOKE finds  *)
(* them all.  A capability whose parent is gone never counts as derived    *)
(* from another one, to another resource, that takes the parent's place.   *)
(***************************************************************************)
DerivationsExact ==
  \A s \in Slot : handlers[s] =>
    /\ flags[s] # {} => Derived(M, s) = {t \in Slot : handlers[t] /\ derived_from[t] = s}
    /\ flags[s] = {} => derived_from[s] # NULL
    /\ derived_from[s] # NULL /\ handlers[derived_from[s]]
         => /\ resource[derived_from[s]] = resource[s]
            /\ flags[derived_from[s]] # {}

(* Revoking an original capability leaves no other to its resource, however *)
(* many were derived from it and from those, and wherever they have moved. *)
RevokeLeavesOriginal ==
  [][\A a \in CapAddress :
       LET s == SlotAt(a)
       IN  NodeRevoke(a) /\ "ORIGINAL" \in flags[s]
             => {t \in Slot : handlers'[t] /\ resource'[t] = resource[s]} = {s}]_vars
=============================================================================
