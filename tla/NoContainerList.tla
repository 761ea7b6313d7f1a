--------------------------- MODULE NoContainerList --------------------------
(***************************************************************************)
(* The linked lists of src/core/kernel/linked_list.h without a container:  *)
(* every item names the first and the last item of its list.  Such a list  *)
(* is its link field                                                       *)
(*     f = [start, end, prev, next : Item -> Item \cup {NULL}].            *)
(* Items are structs in memory that may be stale: the macros write through *)
(* whatever the links name, and so do the operators.                       *)
(***************************************************************************)
EXTENDS LinkedList

ListField(Item) == [start : [Item -> Item \cup {NULL}], end : [Item -> Item \cup {NULL}],
                    prev : [Item -> Item \cup {NULL}], next : [Item -> Item \cup {NULL}]]

(* for (link = first; link != NULL; link = link->next) link->g = value *)
SetAlong(Item, g, first, next, value) ==
  LET W == Members(Item, first, next)
  IN  [i \in Item |-> IF i \in W THEN value ELSE g[i]]

(* A write through a link that may be NULL, guarded as in the macros. *)
SetUnlessNull(g, i, value) == IF i = NULL THEN g ELSE [g EXCEPT ![i] = value]

(* LIST_ITER_NO_CONTAINER: the items visited from `item`. *)
Iterated(Item, f, item) == Members(Item, f.start[item], f.next)

LIST_INIT_NO_CONTAINER(f, item) ==
  [start |-> [f.start EXCEPT ![item] = item], end |-> [f.end EXCEPT ![item] = item],
   prev |-> [f.prev EXCEPT ![item] = NULL], next |-> [f.next EXCEPT ![item] = NULL]]

(* Into a list of several, the item goes before the last one, whose `prev` *)
(* the macro does not write.                                               *)
LIST_INSERT_NO_CONTAINER(f, c, item) ==
  LET last == f.end[c]
      prev == f.prev[last]
  IN  IF f.start[c] = last
      THEN [start |-> [f.start EXCEPT ![item] = c],
            end   |-> [f.end EXCEPT ![c] = item, ![item] = item],
            prev  |-> [f.prev EXCEPT ![item] = c],
            next  |-> [f.next EXCEPT ![c] = item, ![item] = NULL]]
      ELSE [start |-> [f.start EXCEPT ![item] = f.start[c]],
            end   |-> [f.end EXCEPT ![item] = last],
            prev  |-> [f.prev EXCEPT ![item] = prev],
            next  |-> [f.next EXCEPT ![prev] = item, ![item] = last]]

LIST_UPDATE_ADDRESS_NO_CONTAINER(Item, f, item) ==
  LET next == SetUnlessNull(f.next, f.prev[item], item)
      prev == SetUnlessNull(f.prev, f.next[item], item)
  IN  [start |-> IF prev[item] # NULL THEN f.start
                 ELSE SetAlong(Item, f.start, item, next, item),
       end   |-> IF next[item] # NULL THEN f.end
                 ELSE SetAlong(Item, f.end, item, prev, item),
       prev  |-> prev,
       next  |-> next]

LIST_DELETE_NO_CONTAINER(Item, f, item) ==
  LET p == f.prev[item]
      n == f.next[item]
      next == SetUnlessNull(f.next, p, n)
      prev == SetUnlessNull(f.prev, n, p)
  IN  [start |-> IF p = NULL /\ n # NULL THEN SetAlong(Item, f.start, n, next, n) ELSE f.start,
       end   |-> IF n = NULL /\ p # NULL THEN SetAlong(Item, f.end, p, prev, p) ELSE f.end,
       prev  |-> prev,
       next  |-> next]
=============================================================================
