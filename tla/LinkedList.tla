----------------------------- MODULE LinkedList -----------------------------
(***************************************************************************)
(* The intrusive linked lists of src/core/kernel/linked_list.h, at the      *)
(* level of their pointers.  The macros assign through `prev` and `next`    *)
(* without ever looking at the list as a whole, so a list is modelled by    *)
(* the fields the macros read and write and never by a sequence.            *)
(*                                                                         *)
(* A list with a separate container is a pair: the container               *)
(*     c = [start, end]                                                    *)
(* and the link field of the items                                         *)
(*     f = [prev : Item -> Item \cup {NULL}, next : Item -> ...].          *)
(* Several containers may thread the same link field, as the two queues of *)
(* every endpoint thread `blocked_queue`.  An operator returns both, as    *)
(* [container, field].                                                     *)
(***************************************************************************)
CONSTANT NULL

Container(Item) == [start : Item \cup {NULL}, end : Item \cup {NULL}]

LinkField(Item) == [prev : [Item -> Item \cup {NULL}],
                    next : [Item -> Item \cup {NULL}]]

(* Zeroed memory: the link field of items that were never in a list. *)
NoLinks(Item) == [prev |-> [i \in Item |-> NULL], next |-> [i \in Item |-> NULL]]

LIST_INIT == [start |-> NULL, end |-> NULL]

(* Mutant: the item is put in front. *)
LIST_PREPEND(c, f, item) ==
  [container |-> [start |-> item, end |-> IF c.end = NULL THEN item ELSE c.end],
   field |-> [prev |-> IF c.start = NULL THEN [f.prev EXCEPT ![item] = NULL]
                       ELSE [f.prev EXCEPT ![c.start] = item, ![item] = NULL],
              next |-> [f.next EXCEPT ![item] = c.start]]]

LIST_APPEND(c, f, item) ==
  IF c.end = NULL
  THEN [container |-> [start |-> item, end |-> item],
        field |-> [prev |-> [f.prev EXCEPT ![item] = NULL],
                   next |-> [f.next EXCEPT ![item] = NULL]]]
  ELSE [container |-> [start |-> c.start, end |-> item],
        field |-> [prev |-> [f.prev EXCEPT ![item] = c.end],
                   next |-> [f.next EXCEPT ![c.end] = item, ![item] = NULL]]]

LIST_CAN_POP(c) == c.start # NULL

(* Mutant: `end` is not cleared with the last item. *)
LIST_POP_KEEPING_END(c, f) ==
  [container |-> [start |-> f.next[c.start], end |-> c.end],
   field |-> [prev |-> [f.prev EXCEPT ![c.start] = NULL],
              next |-> [f.next EXCEPT ![c.start] = NULL]]]

(* The item popped is c.start.  The `prev` of the new first item keeps     *)
(* naming the popped one: the macro does not write it.                     *)
LIST_POP_FROM_START(c, f) ==
  LET item  == c.start
      start == f.next[item]
  IN  [container |-> [start |-> start,
                      end   |-> IF start = NULL THEN NULL ELSE c.end],
       field |-> [prev |-> [f.prev EXCEPT ![item] = NULL],
                  next |-> [f.next EXCEPT ![item] = NULL]]]

(* Whether `item` is the first or the last one is decided by its own links *)
(* alone, the container is never compared with it.                         *)
LIST_REMOVE(c, f, item) ==
  LET prev == f.prev[item]
      next == f.next[item]
  IN  [container |-> [start |-> IF prev = NULL THEN next ELSE c.start,
                      end   |-> IF next = NULL THEN prev ELSE c.end],
       field |-> [prev |-> IF next = NULL THEN f.prev
                           ELSE [f.prev EXCEPT ![next] = prev],
                  next |-> IF prev = NULL THEN f.next
                           ELSE [f.next EXCEPT ![prev] = next]]]

(* Mutant: the container keeps the old address. *)
LIST_UPDATE_NEIGHBOURS(c, f, item) ==
  [container |-> c,
   field |-> [prev |-> IF f.next[item] = NULL THEN f.prev
                       ELSE [f.prev EXCEPT ![f.next[item]] = item],
              next |-> IF f.prev[item] = NULL THEN f.next
                       ELSE [f.next EXCEPT ![f.prev[item]] = item]]]

(* LIST_UPDATE_ADDRESS, once the item's links have been copied to `item`.  *)
LIST_UPDATE_ADDRESS(c, f, item) ==
  [container |-> [end   |-> IF f.next[item] = NULL THEN item ELSE c.end,
                  start |-> IF f.prev[item] = NULL THEN item ELSE c.start],
   field |-> [prev |-> IF f.next[item] = NULL THEN f.prev
                       ELSE [f.prev EXCEPT ![f.next[item]] = item],
              next |-> IF f.prev[item] = NULL THEN f.next
                       ELSE [f.next EXCEPT ![f.prev[item]] = item]]]

(* `prev` of an item on queue c says what is before it.  LIST_REMOVE and    *)
(* LIST_UPDATE_ADDRESS rely on it; it is not so for the first item of a    *)
(* queue that LIST_POP_FROM_START took another item from before.           *)
PrevAccurate(c, f, M, item) ==
  IF f.prev[item] = NULL THEN c.start = item
  ELSE f.prev[item] \in M /\ f.next[f.prev[item]] = item

-----------------------------------------------------------------------------
(***************************************************************************)
(* What LIST_ITER visits: the least set that holds the first item and is   *)
(* closed under `next`.                                                    *)
(***************************************************************************)
ClosedFrom(S, first, next) ==
  /\ first # NULL => first \in S
  /\ \A i \in S : next[i] # NULL => next[i] \in S

Members(Item, first, next) ==
  {i \in Item : \A S \in SUBSET Item : ClosedFrom(S, first, next) => i \in S}

(***************************************************************************)
(* The container and the `next` links form a queue that holds exactly M:   *)
(* all of M is reached from `start`, `end` is the only item with nothing   *)
(* behind it, and no item is behind two others or before the first.        *)
(***************************************************************************)
IsQueueOf(c, next, Item, M) ==
  /\ M = Members(Item, c.start, next)
  /\ c.start = NULL <=> M = {}
  /\ c.end = NULL <=> M = {}
  /\ c.end # NULL => c.end \in M /\ next[c.end] = NULL
  /\ \A i \in M : /\ next[i] = NULL => i = c.end
                  /\ next[i] # c.start
  /\ \A i, j \in M : next[i] = next[j] /\ next[i] # NULL => i = j
=============================================================================
