-------------------------- MODULE LinkedListProofs --------------------------
(***************************************************************************)
(* What the list macros do to a queue, for lists of any length.            *)
(*                                                                         *)
(* Membership is the least set closed under `next`, so no induction over   *)
(* the list is needed: a lower bound of Members is proved by showing that  *)
(* a set which is closed after the operation was, with a small change,     *)
(* closed before it, and an upper bound by exhibiting a closed set.        *)
(***************************************************************************)
EXTENDS LinkedList, TLAPS

(* Members is itself closed, and below every closed set. *)
LEMMA MembersLeast ==
  ASSUME NEW Item, NULL \notin Item, NEW first \in Item \cup {NULL},
         NEW next \in [Item -> Item \cup {NULL}]
  PROVE  /\ ClosedFrom(Members(Item, first, next), first, next)
         /\ Members(Item, first, next) \subseteq Item
         /\ \A S \in SUBSET Item : ClosedFrom(S, first, next)
              => Members(Item, first, next) \subseteq S
<1> DEFINE M == Members(Item, first, next)
<1>1. M \subseteq Item
  BY DEF Members
<1>2. \A S \in SUBSET Item : ClosedFrom(S, first, next) => M \subseteq S
  BY DEF Members
<1>3. first # NULL => first \in M
  BY DEF Members, ClosedFrom
<1>4. ASSUME NEW i \in M, next[i] # NULL  PROVE next[i] \in M
  <2>1. i \in Item /\ next[i] \in Item
    BY <1>1, <1>4
  <2>2. ASSUME NEW S \in SUBSET Item, ClosedFrom(S, first, next)  PROVE next[i] \in S
    BY <1>2, <1>4, <2>2 DEF ClosedFrom
  <2> QED
    BY <2>1, <2>2 DEF Members
<1> QED
  BY <1>1, <1>2, <1>3, <1>4 DEF ClosedFrom

(* Writing `next` of items outside a list does not change who is on it. *)
LEMMA MembersFrame ==
  ASSUME NEW Item, NULL \notin Item, NEW first \in Item \cup {NULL},
         NEW f \in [Item -> Item \cup {NULL}], NEW g \in [Item -> Item \cup {NULL}],
         \A i \in Members(Item, first, f) : g[i] = f[i]
  PROVE  Members(Item, first, g) = Members(Item, first, f)
<1> DEFINE M == Members(Item, first, f)
           N == Members(Item, first, g)
<1>1. ClosedFrom(M, first, f) /\ M \subseteq Item
  BY MembersLeast
<1>2. ClosedFrom(N, first, g) /\ N \subseteq Item
  BY MembersLeast
<1>3. ClosedFrom(M, first, g)
  BY <1>1 DEF ClosedFrom
<1>4. N \subseteq M
  BY <1>1, <1>3, MembersLeast
<1>5. ClosedFrom(N, first, f)
  BY <1>2, <1>4 DEF ClosedFrom
<1>6. M \subseteq N
  BY <1>2, <1>5, MembersLeast
<1> QED
  BY <1>4, <1>6

(* A queue stays one when `next` is written outside it. *)
LEMMA QueueFrame ==
  ASSUME NEW Item, NULL \notin Item, NEW c \in Container(Item),
         NEW f \in [Item -> Item \cup {NULL}], NEW g \in [Item -> Item \cup {NULL}],
         NEW M, IsQueueOf(c, f, Item, M),
         \A i \in M : g[i] = f[i]
  PROVE  IsQueueOf(c, g, Item, M)
<1>1. c.start \in Item \cup {NULL}
  BY DEF Container
<1>2. M = Members(Item, c.start, f)
  BY DEF IsQueueOf
<1>3. Members(Item, c.start, g) = M
  BY <1>1, <1>2, MembersFrame
<1> QED
  BY <1>3 DEF IsQueueOf

(* An empty container holds nothing. *)
LEMMA EmptyQueue ==
  ASSUME NEW Item, NULL \notin Item, NEW f \in [Item -> Item \cup {NULL}]
  PROVE  /\ Members(Item, NULL, f) = {}
         /\ IsQueueOf(LIST_INIT, f, Item, {})
<1>1. ClosedFrom({}, NULL, f)
  BY DEF ClosedFrom
<1>2. Members(Item, NULL, f) = {}
  BY <1>1, MembersLeast
<1> QED
  BY <1>2 DEF IsQueueOf, LIST_INIT

(***************************************************************************)
(* LIST_APPEND puts a new item behind all others.                          *)
(***************************************************************************)
LEMMA AppendQueue ==
  ASSUME NEW Item, NULL \notin Item, NEW c \in Container(Item),
         NEW f \in LinkField(Item), NEW M, IsQueueOf(c, f.next, Item, M),
         NEW item \in Item, item \notin M
  PROVE  LET l == LIST_APPEND(c, f, item)
         IN  /\ l.container \in Container(Item)
             /\ l.field \in LinkField(Item)
             /\ IsQueueOf(l.container, l.field.next, Item, M \cup {item})
<1> DEFINE l == LIST_APPEND(c, f, item)
           next == l.field.next
           N == Members(Item, l.container.start, next)
<1>0. /\ c.start \in Item \cup {NULL} /\ c.end \in Item \cup {NULL}
      /\ f.next \in [Item -> Item \cup {NULL}] /\ f.prev \in [Item -> Item \cup {NULL}]
      /\ M = Members(Item, c.start, f.next)
  BY DEF Container, LinkField, IsQueueOf
<1>1. M \subseteq Item /\ ClosedFrom(M, c.start, f.next)
  BY <1>0, MembersLeast
<1>2. CASE c.end = NULL
  <2>1. M = {} /\ c.start = NULL
    BY <1>2 DEF IsQueueOf
  <2>2. /\ l.container = [start |-> item, end |-> item]
        /\ next = [f.next EXCEPT ![item] = NULL]
        /\ l.field = [prev |-> [f.prev EXCEPT ![item] = NULL], next |-> next]
    BY <1>2 DEF LIST_APPEND
  <2>3. l.container \in Container(Item) /\ l.field \in LinkField(Item)
    BY <1>0, <2>2 DEF Container, LinkField
  <2>4. next \in [Item -> Item \cup {NULL}] /\ next[item] = NULL /\ l.container.start = item
    BY <1>0, <2>2
  <2>5. ClosedFrom({item}, item, next)
    BY <2>4 DEF ClosedFrom
  <2>6. N = {item}
    <3>1. N \subseteq {item}
      BY <2>4, <2>5, MembersLeast
    <3>2. item \in N
      BY <2>4, MembersLeast DEF ClosedFrom
    <3> QED
      BY <3>1, <3>2
  <2>7. IsQueueOf(l.container, next, Item, {item})
    BY <2>2, <2>4, <2>6 DEF IsQueueOf
  <2> QED
    BY <1>0, <1>2, <2>1, <2>2, <2>3, <2>7
<1>3. CASE c.end # NULL
  <2>1. /\ c.end \in M /\ f.next[c.end] = NULL /\ c.start # NULL
        /\ \A i \in M : f.next[i] = NULL => i = c.end
        /\ \A i \in M : f.next[i] # c.start
        /\ \A i, j \in M : f.next[i] = f.next[j] /\ f.next[i] # NULL => i = j
    BY <1>3 DEF IsQueueOf
  <2>2. /\ l.container = [start |-> c.start, end |-> item]
        /\ next = [f.next EXCEPT ![c.end] = item, ![item] = NULL]
        /\ l.field = [prev |-> [f.prev EXCEPT ![item] = c.end], next |-> next]
    BY <1>3 DEF LIST_APPEND
  <2>3. l.container \in Container(Item) /\ l.field \in LinkField(Item)
    BY <1>0, <1>3, <2>2 DEF Container, LinkField
  <2>4. /\ next \in [Item -> Item \cup {NULL}] /\ l.container.start = c.start
        /\ next[item] = NULL /\ next[c.end] = item
        /\ \A i \in Item : i \notin {item, c.end} => next[i] = f.next[i]
    BY <1>0, <1>1, <1>3, <2>1, <2>2
  <2>5. ClosedFrom(M \cup {item}, c.start, next)
    BY <1>1, <2>1, <2>4 DEF ClosedFrom
  <2>6. N \subseteq M \cup {item}
    BY <1>0, <1>1, <2>4, <2>5, MembersLeast
  <2>7. ClosedFrom(N, c.start, next) /\ N \subseteq Item
    BY <1>0, <2>4, MembersLeast
  <2>8. ClosedFrom(N \ {item}, c.start, f.next)
    BY <1>1, <2>1, <2>4, <2>6, <2>7 DEF ClosedFrom
  <2>9. M \subseteq N \ {item}
    BY <1>0, <2>7, <2>8, MembersLeast
  <2>10. N = M \cup {item}
    BY <2>1, <2>4, <2>6, <2>7, <2>9 DEF ClosedFrom
  <2>11. IsQueueOf(l.container, next, Item, M \cup {item})
    <3>1. \A i \in M \cup {item} : /\ next[i] = NULL => i = item
                                  /\ next[i] # c.start
      BY <1>0, <1>1, <1>3, <2>1, <2>4 DEF ClosedFrom
    <3>2. \A i, j \in M \cup {item} : next[i] = next[j] /\ next[i] # NULL => i = j
      BY <1>0, <1>1, <1>3, <2>1, <2>4 DEF ClosedFrom
    <3>3. l.container.start = c.start /\ l.container.end = item
      BY <2>2
    <3> HIDE DEF l, next
    <3> QED
      BY <1>3, <2>1, <2>4, <2>10, <3>1, <3>2, <3>3 DEF IsQueueOf
  <2> QED
    BY <1>0, <1>1, <1>3, <2>1, <2>2, <2>3, <2>4, <2>11
<1> QED
  BY <1>2, <1>3

(***************************************************************************)
(* LIST_POP_FROM_START takes the first item and leaves the others queued.  *)
(***************************************************************************)
LEMMA PopQueue ==
  ASSUME NEW Item, NULL \notin Item, NEW c \in Container(Item),
         NEW f \in LinkField(Item), NEW M, IsQueueOf(c, f.next, Item, M),
         LIST_CAN_POP(c)
  PROVE  LET l == LIST_POP_FROM_START(c, f)
         IN  /\ c.start \in M
             /\ l.container \in Container(Item)
             /\ l.field \in LinkField(Item)
             /\ IsQueueOf(l.container, l.field.next, Item, M \ {c.start})
<1> DEFINE l == LIST_POP_FROM_START(c, f)
           next == l.field.next
           R == M \ {c.start}
           N == Members(Item, l.container.start, next)
<1>0. /\ c.start \in Item /\ c.end \in Item \cup {NULL}
      /\ f.next \in [Item -> Item \cup {NULL}] /\ f.prev \in [Item -> Item \cup {NULL}]
      /\ M = Members(Item, c.start, f.next)
  BY DEF Container, LinkField, IsQueueOf, LIST_CAN_POP
<1>1. M \subseteq Item /\ ClosedFrom(M, c.start, f.next) /\ c.start \in M
  BY <1>0, MembersLeast DEF ClosedFrom
<1>2. /\ c.end \in M /\ f.next[c.end] = NULL
      /\ \A i \in M : f.next[i] = NULL => i = c.end
      /\ \A i \in M : f.next[i] # c.start
      /\ \A i, j \in M : f.next[i] = f.next[j] /\ f.next[i] # NULL => i = j
  BY <1>1 DEF IsQueueOf
<1>3. /\ l.container.start = f.next[c.start]
      /\ l.container.end = IF f.next[c.start] = NULL THEN NULL ELSE c.end
      /\ l.container \in Container(Item) /\ l.field \in LinkField(Item)
      /\ next = [f.next EXCEPT ![c.start] = NULL]
      /\ l.field.prev = [f.prev EXCEPT ![c.start] = NULL]
  BY <1>0 DEF LIST_POP_FROM_START, Container, LinkField
<1>4. /\ next \in [Item -> Item \cup {NULL}] /\ next[c.start] = NULL
      /\ \A i \in Item : i # c.start => next[i] = f.next[i]
  BY <1>0, <1>3
<1> HIDE DEF l, next
<1>5. ClosedFrom(R, l.container.start, next) /\ R \subseteq Item
  BY <1>0, <1>1, <1>2, <1>3, <1>4 DEF ClosedFrom
<1>6. N \subseteq R /\ N \subseteq Item /\ ClosedFrom(N, l.container.start, next)
  BY <1>0, <1>3, <1>4, <1>5, MembersLeast
<1>7. ClosedFrom(N \cup {c.start}, c.start, f.next)
  BY <1>0, <1>1, <1>3, <1>4, <1>6 DEF ClosedFrom
<1>8. M \subseteq N \cup {c.start}
  BY <1>0, <1>6, <1>7, MembersLeast
<1>9. N = R
  BY <1>6, <1>8
<1>10. l.container.start = NULL <=> R = {}
  <2>1. CASE f.next[c.start] = NULL
    <3>1. ClosedFrom({c.start}, c.start, f.next)
      BY <2>1 DEF ClosedFrom
    <3>2. M \subseteq {c.start}
      BY <1>0, <3>1, MembersLeast
    <3> QED
      BY <1>3, <2>1, <3>2
  <2>2. CASE f.next[c.start] # NULL
    BY <1>0, <1>1, <1>2, <1>3, <2>2 DEF ClosedFrom
  <2> QED
    BY <2>1, <2>2
<1>11. l.container.end # NULL => l.container.end \in R /\ next[l.container.end] = NULL
  BY <1>0, <1>1, <1>2, <1>3, <1>4
<1>12. \A i \in R : /\ next[i] = NULL => i = l.container.end
                    /\ next[i] # l.container.start
  BY <1>0, <1>1, <1>2, <1>3, <1>4, <1>10
<1>13. l.container.end = NULL <=> R = {}
  BY <1>0, <1>1, <1>2, <1>3, <1>10
<1>14. \A i, j \in R : next[i] = next[j] /\ next[i] # NULL => i = j
  BY <1>0, <1>1, <1>2, <1>4
<1>15. IsQueueOf(l.container, next, Item, R)
  BY <1>9, <1>10, <1>11, <1>12, <1>13, <1>14 DEF IsQueueOf
<1> QED
  BY <1>1, <1>3, <1>15 DEF l, next

(***************************************************************************)
(* LIST_REMOVE takes an item out of the queue, if its `prev` is accurate.  *)
(***************************************************************************)
LEMMA RemoveQueue ==
  ASSUME NEW Item, NULL \notin Item, NEW c \in Container(Item),
         NEW f \in LinkField(Item), NEW M, IsQueueOf(c, f.next, Item, M),
         NEW item \in M, PrevAccurate(c, f, M, item)
  PROVE  LET l == LIST_REMOVE(c, f, item)
         IN  /\ l.container \in Container(Item)
             /\ l.field \in LinkField(Item)
             /\ IsQueueOf(l.container, l.field.next, Item, M \ {item})
<1> DEFINE l == LIST_REMOVE(c, f, item)
           next == l.field.next
           p == f.prev[item]
           n == f.next[item]
           start == l.container.start
           R == M \ {item}
           N == Members(Item, start, next)
<1>0. /\ c.start \in Item \cup {NULL} /\ c.end \in Item \cup {NULL}
      /\ f.next \in [Item -> Item \cup {NULL}] /\ f.prev \in [Item -> Item \cup {NULL}]
      /\ M = Members(Item, c.start, f.next)
  BY DEF Container, LinkField, IsQueueOf
<1>1. M \subseteq Item /\ ClosedFrom(M, c.start, f.next) /\ item \in Item
  BY <1>0, MembersLeast
<1>2. /\ c.end \in M /\ f.next[c.end] = NULL /\ c.start \in M
      /\ \A i \in M : f.next[i] = NULL => i = c.end
      /\ \A i \in M : f.next[i] # c.start
      /\ \A i, j \in M : f.next[i] = f.next[j] /\ f.next[i] # NULL => i = j
  BY <1>0, <1>1 DEF IsQueueOf, ClosedFrom
<1>3. /\ p \in Item \cup {NULL} /\ n \in M \cup {NULL}
      /\ p = NULL => c.start = item
      /\ p # NULL => p \in M /\ f.next[p] = item /\ c.start # item
  BY <1>0, <1>1, <1>2 DEF PrevAccurate, ClosedFrom
<1>4. n # item
  <2>1. SUFFICES ASSUME n = item PROVE FALSE
    OBVIOUS
  <2>2. c.start # item
    BY <1>2, <2>1
  <2>3. ClosedFrom(R, c.start, f.next)
    BY <1>0, <1>1, <1>2, <2>1, <2>2 DEF ClosedFrom
  <2> QED
    BY <1>0, <1>1, <2>3, MembersLeast
<1>5. p # item
  BY <1>1, <1>3, <1>4
<1>6. /\ l.container.start = (IF p = NULL THEN n ELSE c.start)
      /\ l.container.end = (IF n = NULL THEN p ELSE c.end)
      /\ next = IF p = NULL THEN f.next ELSE [f.next EXCEPT ![p] = n]
      /\ l.field.prev = IF n = NULL THEN f.prev ELSE [f.prev EXCEPT ![n] = p]
      /\ l.container = [start |-> l.container.start, end |-> l.container.end]
      /\ l.field = [prev |-> l.field.prev, next |-> next]
  BY DEF LIST_REMOVE
<1>7. l.container \in Container(Item) /\ l.field \in LinkField(Item)
  <2>1. start \in Item \cup {NULL} /\ l.container.end \in Item \cup {NULL}
    BY <1>0, <1>1, <1>3, <1>6
  <2>2. next \in [Item -> Item \cup {NULL}] /\ l.field.prev \in [Item -> Item \cup {NULL}]
    BY <1>0, <1>1, <1>3, <1>6
  <2> QED
    BY <1>6, <2>1, <2>2 DEF Container, LinkField
<1>8. /\ next \in [Item -> Item \cup {NULL}]
      /\ p # NULL => next[p] = n
      /\ \A i \in Item : i # p => next[i] = f.next[i]
  BY <1>0, <1>1, <1>3, <1>6
<1> HIDE DEF l, next, start
<1>9. start = (IF p = NULL THEN n ELSE c.start) /\ start \in Item \cup {NULL}
  BY <1>0, <1>1, <1>3, <1>6 DEF start
<1>10. ClosedFrom(R, start, next) /\ R \subseteq Item
  BY <1>0, <1>1, <1>2, <1>3, <1>4, <1>5, <1>8, <1>9 DEF ClosedFrom
<1>11. N \subseteq R /\ N \subseteq Item /\ ClosedFrom(N, start, next)
  BY <1>8, <1>9, <1>10, MembersLeast
<1>12. R \subseteq N
  <2>1. CASE p = NULL \/ p \in N
    <3>1. n # NULL => n \in N
      BY <1>3, <1>8, <1>9, <1>11, <2>1 DEF ClosedFrom
    <3>2. ClosedFrom(N \cup {item}, c.start, f.next)
      BY <1>0, <1>1, <1>2, <1>3, <1>8, <1>9, <1>11, <2>1, <3>1 DEF ClosedFrom
    <3> QED
      BY <1>0, <1>1, <1>11, <3>2, MembersLeast
  <2>2. CASE p # NULL /\ p \notin N
    <3>1. ClosedFrom(N, c.start, f.next)
      BY <1>0, <1>1, <1>3, <1>8, <1>9, <1>11, <2>2 DEF ClosedFrom
    <3> QED
      BY <1>0, <1>1, <1>3, <1>11, <2>2, <3>1, MembersLeast
  <2> QED
    BY <2>1, <2>2
<1>13. N = R
  BY <1>11, <1>12
<1>14. start = NULL <=> R = {}
  <2>1. CASE p # NULL
    BY <1>2, <1>3, <1>5, <1>9, <2>1
  <2>2. CASE p = NULL /\ n # NULL
    BY <1>3, <1>4, <1>9, <2>2
  <2>3. CASE p = NULL /\ n = NULL
    <3>1. ClosedFrom({item}, c.start, f.next)
      BY <1>3, <2>3 DEF ClosedFrom
    <3> QED
      BY <1>0, <1>1, <1>9, <2>3, <3>1, MembersLeast
  <2> QED
    BY <2>1, <2>2, <2>3
<1> DEFINE end == l.container.end
<1>15. end = IF n = NULL THEN p ELSE c.end
  BY <1>6
<1> HIDE DEF end
<1>16. end # NULL => end \in R /\ next[end] = NULL
  BY <1>0, <1>1, <1>2, <1>3, <1>4, <1>5, <1>8, <1>15
<1>17. end = NULL <=> R = {}
  BY <1>0, <1>1, <1>2, <1>3, <1>4, <1>5, <1>9, <1>14, <1>15, <1>16
<1>18. \A i \in R : next[i] = NULL => i = end
  BY <1>0, <1>1, <1>2, <1>3, <1>4, <1>5, <1>8, <1>15
<1>19. \A i \in R : next[i] # start
  BY <1>0, <1>1, <1>2, <1>3, <1>4, <1>5, <1>8, <1>9, <1>10, <1>14 DEF ClosedFrom
<1>20. \A i, j \in R : next[i] = next[j] /\ next[i] # NULL => i = j
  BY <1>0, <1>1, <1>2, <1>3, <1>4, <1>5, <1>8
<1>21. IsQueueOf(l.container, next, Item, R)
  BY <1>13, <1>14, <1>16, <1>17, <1>18, <1>19, <1>20 DEF IsQueueOf, start, end
<1> QED
  BY <1>7, <1>21 DEF l, next

(* LIST_APPEND sets the new item's `prev` right and spoils no other.       *)
LEMMA AppendPrev ==
  ASSUME NEW Item, NULL \notin Item, NEW c \in Container(Item),
         NEW f \in LinkField(Item), NEW M, IsQueueOf(c, f.next, Item, M),
         NEW item \in Item, item \notin M
  PROVE  LET l == LIST_APPEND(c, f, item)
         IN  /\ PrevAccurate(l.container, l.field, M \cup {item}, item)
             /\ \A i \in M : PrevAccurate(c, f, M, i)
                  => PrevAccurate(l.container, l.field, M \cup {item}, i)
<1> DEFINE l == LIST_APPEND(c, f, item)
<1>0. /\ c.start \in Item \cup {NULL} /\ c.end \in Item \cup {NULL}
      /\ f.next \in [Item -> Item \cup {NULL}]
      /\ M = Members(Item, c.start, f.next)
      /\ c.end = NULL <=> M = {}
      /\ c.start = NULL <=> M = {}
      /\ c.end # NULL => c.end \in M /\ f.next[c.end] = NULL
  BY DEF Container, LinkField, IsQueueOf
<1>1. M \subseteq Item
  BY <1>0, MembersLeast
<1>2. /\ l.container.start = (IF c.start = NULL THEN item ELSE c.start)
      /\ l.field.prev[item] = c.end
      /\ c.end # NULL => l.field.next[c.end] = item
      /\ \A i \in Item : i # item => l.field.prev[i] = f.prev[i]
      /\ \A i \in Item : i \notin {item, c.end} => l.field.next[i] = f.next[i]
  <2>1. CASE c.end = NULL
    BY <1>0, <2>1 DEF LIST_APPEND, LinkField
  <2>2. CASE c.end # NULL
    BY <1>0, <1>1, <2>2 DEF LIST_APPEND, LinkField
  <2> QED
    BY <2>1, <2>2
<1> HIDE DEF l
<1>3. PrevAccurate(l.container, l.field, M \cup {item}, item)
  BY <1>0, <1>2 DEF PrevAccurate
<1>4. ASSUME NEW i \in M, PrevAccurate(c, f, M, i)
      PROVE  PrevAccurate(l.container, l.field, M \cup {item}, i)
  <2>1. i \in Item /\ i # item /\ c.start # NULL
    BY <1>0, <1>1
  <2>2. CASE f.prev[i] = NULL
    BY <1>2, <1>4, <2>1, <2>2 DEF PrevAccurate
  <2>3. CASE f.prev[i] # NULL
    BY <1>0, <1>1, <1>2, <1>4, <2>1, <2>3 DEF PrevAccurate
  <2> QED
    BY <2>2, <2>3
<1> QED
  BY <1>3, <1>4 DEF l

(* Containers that share a link field: what is done to one queue leaves    *)
(* every other queue, whose items are others, alone.                       *)
LEMMA AppendOther ==
  ASSUME NEW Item, NULL \notin Item, NEW c \in Container(Item), NEW d \in Container(Item),
         NEW f \in LinkField(Item), NEW M, IsQueueOf(c, f.next, Item, M),
         NEW N, IsQueueOf(d, f.next, Item, N), M \cap N = {},
         NEW item \in Item, item \notin M, item \notin N
  PROVE  IsQueueOf(d, LIST_APPEND(c, f, item).field.next, Item, N)
<1> DEFINE l == LIST_APPEND(c, f, item)
<1>1. f.next \in [Item -> Item \cup {NULL}] /\ d.start \in Item \cup {NULL}
  BY DEF LinkField, Container
<1>2. l.field.next \in [Item -> Item \cup {NULL}]
  BY AppendQueue DEF LinkField
<1>3. N \subseteq Item
  BY <1>1, MembersLeast DEF IsQueueOf
<1>4. c.end = NULL \/ c.end \in M
  BY DEF IsQueueOf
<1>5. \A i \in N : l.field.next[i] = f.next[i]
  BY <1>1, <1>3, <1>4 DEF LIST_APPEND
<1> QED
  BY <1>1, <1>2, <1>5, QueueFrame

(* Popping from one queue leaves a queue of other threads over the same     *)
(* links as it was (the two queues of an endpoint, or of two endpoints).    *)
LEMMA PopOther ==
  ASSUME NEW Item, NULL \notin Item, NEW c \in Container(Item), NEW d \in Container(Item),
         NEW f \in LinkField(Item), NEW M, IsQueueOf(c, f.next, Item, M), LIST_CAN_POP(c),
         NEW N, IsQueueOf(d, f.next, Item, N), M \cap N = {}
  PROVE  IsQueueOf(d, LIST_POP_FROM_START(c, f).field.next, Item, N)
<1> DEFINE l == LIST_POP_FROM_START(c, f)
<1>1. f.next \in [Item -> Item \cup {NULL}] /\ d.start \in Item \cup {NULL}
  BY DEF LinkField, Container
<1>2. l.field.next \in [Item -> Item \cup {NULL}] /\ c.start \in M
  BY PopQueue DEF LinkField
<1>3. N \subseteq Item
  BY <1>1, MembersLeast DEF IsQueueOf
<1>4. \A i \in N : l.field.next[i] = f.next[i]
  BY <1>1, <1>2, <1>3 DEF LIST_POP_FROM_START
<1> QED
  BY <1>1, <1>2, <1>4, QueueFrame

(* The facts about a queue and one of its items whose `prev` is accurate,  *)
(* whatever the other items' is.                                           *)
LEMMA QueueItem ==
  ASSUME NEW Item, NULL \notin Item, NEW c \in Container(Item),
         NEW f \in LinkField(Item), NEW M, IsQueueOf(c, f.next, Item, M),
         NEW item \in M, PrevAccurate(c, f, M, item)
  PROVE  /\ M \subseteq Item /\ M = Members(Item, c.start, f.next)
         /\ c.start \in M /\ c.end \in M
         /\ f.next \in [Item -> Item \cup {NULL}] /\ f.prev \in [Item -> Item \cup {NULL}]
         /\ \A i \in M : /\ f.next[i] \in M \cup {NULL} /\ f.next[i] # c.start
                         /\ f.next[i] = NULL <=> c.end = i
                         /\ f.next[i] = item => i = f.prev[item]
                         /\ f.next[i] = f.next[item] /\ f.next[item] # NULL => i = item
         /\ f.next[item] # item /\ f.prev[item] # item
         /\ f.prev[item] \in M \cup {NULL}
         /\ f.prev[item] = NULL <=> c.start = item
         /\ f.prev[item] # NULL => f.next[f.prev[item]] = item
<1>0. /\ c.start \in Item \cup {NULL} /\ c.end \in Item \cup {NULL}
      /\ f.next \in [Item -> Item \cup {NULL}] /\ f.prev \in [Item -> Item \cup {NULL}]
      /\ M = Members(Item, c.start, f.next)
  BY DEF Container, LinkField, IsQueueOf
<1>1. M \subseteq Item /\ ClosedFrom(M, c.start, f.next)
  BY <1>0, MembersLeast
<1>2. /\ c.end \in M /\ f.next[c.end] = NULL /\ c.start \in M
      /\ \A i \in M : f.next[i] = NULL => i = c.end
      /\ \A i \in M : f.next[i] # c.start
      /\ \A i, j \in M : f.next[i] = f.next[j] /\ f.next[i] # NULL => i = j
  BY <1>0, <1>1 DEF IsQueueOf, ClosedFrom
<1>3. \A i \in M : f.next[i] \in M \cup {NULL}
  BY <1>0, <1>1 DEF ClosedFrom
<1>4. f.next[item] # item
  <2>1. SUFFICES ASSUME f.next[item] = item PROVE FALSE
    OBVIOUS
  <2>2. c.start # item
    BY <1>2, <2>1
  <2>3. ClosedFrom(M \ {item}, c.start, f.next)
    BY <1>0, <1>1, <1>2, <2>1, <2>2 DEF ClosedFrom
  <2> QED
    BY <1>0, <1>1, <2>3, MembersLeast
<1>5. /\ f.prev[item] = NULL <=> c.start = item
      /\ f.prev[item] # NULL => f.next[f.prev[item]] = item
      /\ f.prev[item] # item /\ f.prev[item] \in M \cup {NULL}
  BY <1>0, <1>1, <1>2, <1>4 DEF PrevAccurate
<1>6. \A i \in M : f.next[i] = item => i = f.prev[item]
  BY <1>1, <1>2, <1>5
<1> QED
  BY <1>0, <1>1, <1>2, <1>3, <1>4, <1>5, <1>6

(* LIST_REMOVE leaves the links of other lists alone, and what another     *)
(* item of the list knows about what is before it stays accurate.          *)
LEMMA RemoveOther ==
  ASSUME NEW Item, NULL \notin Item, NEW c \in Container(Item),
         NEW f \in LinkField(Item), NEW M, IsQueueOf(c, f.next, Item, M),
         NEW item \in M, PrevAccurate(c, f, M, item)
  PROVE  LET l == LIST_REMOVE(c, f, item)
         IN  /\ \A i \in Item \ M : l.field.next[i] = f.next[i]
             /\ \A i \in M \ {item} : PrevAccurate(c, f, M, i)
                  => PrevAccurate(l.container, l.field, M \ {item}, i)
<1> DEFINE l == LIST_REMOVE(c, f, item)
           p == f.prev[item]
           n == f.next[item]
<1>1. /\ M \subseteq Item
      /\ f.next \in [Item -> Item \cup {NULL}] /\ f.prev \in [Item -> Item \cup {NULL}]
      /\ p \in M \cup {NULL} /\ n \in M \cup {NULL} /\ p # item /\ n # item
      /\ p = NULL <=> c.start = item
      /\ p # NULL => f.next[p] = item
      /\ \A i \in M : f.next[i] = n /\ n # NULL => i = item
  BY QueueItem
<1>2. /\ l.container.start = (IF p = NULL THEN n ELSE c.start)
      /\ l.field.next = IF p = NULL THEN f.next ELSE [f.next EXCEPT ![p] = n]
      /\ l.field.prev = IF n = NULL THEN f.prev ELSE [f.prev EXCEPT ![n] = p]
  BY DEF LIST_REMOVE
<1> HIDE DEF l, p, n
<1>3. \A i \in Item \ M : l.field.next[i] = f.next[i]
  BY <1>1, <1>2
<1>4. ASSUME NEW i \in M \ {item}, PrevAccurate(c, f, M, i)
      PROVE  PrevAccurate(l.container, l.field, M \ {item}, i)
  <2>1. /\ f.prev[i] = NULL => c.start = i
        /\ f.prev[i] # NULL => f.prev[i] \in M /\ f.next[f.prev[i]] = i
    BY <1>4 DEF PrevAccurate
  <2>2. CASE i = n
    <3>1. l.field.prev[i] = p
      BY <1>1, <1>2, <2>2
    <3>2. p # NULL => l.field.next[p] = i
      BY <1>1, <1>2, <2>2
    <3> QED
      BY <1>1, <1>2, <2>2, <3>1, <3>2 DEF PrevAccurate
  <2>3. CASE i # n
    <3>1. l.field.prev[i] = f.prev[i]
      BY <1>1, <1>2, <2>3
    <3>2. f.prev[i] # item
      BY <1>1, <2>1, <2>3 DEF n
    <3>3. f.prev[i] # NULL => l.field.next[f.prev[i]] = i
      BY <1>1, <1>2, <2>1
    <3> QED
      BY <1>1, <1>2, <2>1, <3>1, <3>2, <3>3 DEF PrevAccurate
  <2> QED
    BY <2>2, <2>3
<1> QED
  BY <1>3, <1>4 DEF l

-----------------------------------------------------------------------------
(***************************************************************************)
(* Lists that nothing is popped from: `prev` is accurate for all of their  *)
(* items, and stays so.                                                    *)
(***************************************************************************)
IsLinkedList(c, f, Item, M) ==
  /\ IsQueueOf(c, f.next, Item, M)
  /\ \A i \in M : PrevAccurate(c, f, M, i)

SameLinks(f, g, S) == \A i \in S : g.next[i] = f.next[i] /\ g.prev[i] = f.prev[i]

(* The facts about a list and one of its items that the proofs below use:  *)
(* its neighbours are in the list and none of them is the item itself.     *)
LEMMA Neighbours ==
  ASSUME NEW Item, NULL \notin Item, NEW c \in Container(Item),
         NEW f \in LinkField(Item), NEW M, IsLinkedList(c, f, Item, M), NEW item \in M
  PROVE  /\ M \subseteq Item /\ M = Members(Item, c.start, f.next)
         /\ c.start \in M /\ c.end \in M
         /\ f.next \in [Item -> Item \cup {NULL}] /\ f.prev \in [Item -> Item \cup {NULL}]
         /\ \A i \in M : f.next[i] \in M \cup {NULL} /\ f.prev[i] \in M \cup {NULL}
         /\ f.next[item] # item /\ f.prev[item] # item
         /\ f.prev[item] = NULL <=> c.start = item
         /\ f.next[item] = NULL <=> c.end = item
         /\ f.prev[item] # NULL => f.next[f.prev[item]] = item
         /\ f.next[item] # NULL => f.prev[f.next[item]] = item
<1>0. /\ c.start \in Item \cup {NULL} /\ c.end \in Item \cup {NULL}
      /\ f.next \in [Item -> Item \cup {NULL}] /\ f.prev \in [Item -> Item \cup {NULL}]
      /\ M = Members(Item, c.start, f.next)
      /\ \A i \in M : PrevAccurate(c, f, M, i)
  BY DEF Container, LinkField, IsQueueOf, IsLinkedList
<1>1. M \subseteq Item /\ ClosedFrom(M, c.start, f.next)
  BY <1>0, MembersLeast
<1>2. /\ c.end \in M /\ f.next[c.end] = NULL /\ c.start \in M
      /\ \A i \in M : f.next[i] = NULL => i = c.end
      /\ \A i \in M : f.next[i] # c.start
      /\ \A i, j \in M : f.next[i] = f.next[j] /\ f.next[i] # NULL => i = j
  BY <1>0, <1>1 DEF IsQueueOf, ClosedFrom, IsLinkedList
<1>3. \A i \in M : f.next[i] \in M \cup {NULL} /\ f.prev[i] \in M \cup {NULL}
  BY <1>0, <1>1 DEF ClosedFrom, PrevAccurate
<1>4. f.next[item] # item
  <2>1. SUFFICES ASSUME f.next[item] = item PROVE FALSE
    OBVIOUS
  <2>2. c.start # item
    BY <1>2, <2>1
  <2>3. ClosedFrom(M \ {item}, c.start, f.next)
    BY <1>0, <1>1, <1>2, <2>1, <2>2 DEF ClosedFrom
  <2> QED
    BY <1>0, <1>1, <2>3, MembersLeast
<1>5. /\ f.prev[item] = NULL <=> c.start = item
      /\ f.prev[item] # NULL => f.next[f.prev[item]] = item
      /\ f.prev[item] # item
  BY <1>0, <1>1, <1>2, <1>4 DEF PrevAccurate
<1>6. ASSUME f.next[item] # NULL
      PROVE  f.prev[f.next[item]] = item
  <2>1. f.next[item] \in M /\ PrevAccurate(c, f, M, f.next[item])
    BY <1>0, <1>3, <1>6
  <2> QED
    BY <1>2, <1>6, <2>1 DEF PrevAccurate
<1> QED
  BY <1>0, <1>1, <1>2, <1>3, <1>4, <1>5, <1>6

(* What is done to links outside of a list does not change the list.       *)
LEMMA LinkedListFrame ==
  ASSUME NEW Item, NULL \notin Item, NEW c \in Container(Item),
         NEW f \in LinkField(Item), NEW g \in LinkField(Item), NEW M,
         IsLinkedList(c, f, Item, M), SameLinks(f, g, M)
  PROVE  IsLinkedList(c, g, Item, M)
<1>1. /\ f.next \in [Item -> Item \cup {NULL}] /\ g.next \in [Item -> Item \cup {NULL}]
  BY DEF LinkField
<1>2. IsQueueOf(c, g.next, Item, M)
  BY <1>1, QueueFrame DEF IsLinkedList, SameLinks
<1>3. \A i \in M : PrevAccurate(c, g, M, i)
  BY DEF IsLinkedList, SameLinks, PrevAccurate
<1> QED
  BY <1>2, <1>3 DEF IsLinkedList

(* LIST_APPEND, on such a list.                                            *)
LEMMA AppendLinkedList ==
  ASSUME NEW Item, NULL \notin Item, NEW c \in Container(Item),
         NEW f \in LinkField(Item), NEW M, IsLinkedList(c, f, Item, M),
         NEW item \in Item, item \notin M
  PROVE  LET l == LIST_APPEND(c, f, item)
         IN  /\ l.container \in Container(Item)
             /\ l.field \in LinkField(Item)
             /\ IsLinkedList(l.container, l.field, Item, M \cup {item})
             /\ SameLinks(f, l.field, Item \ (M \cup {item}))
<1> DEFINE l == LIST_APPEND(c, f, item)
<1>1. /\ l.container \in Container(Item) /\ l.field \in LinkField(Item)
      /\ IsQueueOf(l.container, l.field.next, Item, M \cup {item})
  BY AppendQueue DEF IsLinkedList
<1>2. \A i \in M \cup {item} : PrevAccurate(l.container, l.field, M \cup {item}, i)
  BY AppendPrev DEF IsLinkedList
<1>3. SameLinks(f, l.field, Item \ (M \cup {item}))
  <2>1. f.next \in [Item -> Item \cup {NULL}] /\ f.prev \in [Item -> Item \cup {NULL}]
    BY DEF LinkField
  <2>2. c.end # NULL => c.end \in M
    BY DEF IsLinkedList, IsQueueOf
  <2> QED
    BY <2>1, <2>2 DEF LIST_APPEND, SameLinks
<1> QED
  BY <1>1, <1>2, <1>3 DEF IsLinkedList

(* LIST_REMOVE, on such a list.                                            *)
LEMMA RemoveLinkedList ==
  ASSUME NEW Item, NULL \notin Item, NEW c \in Container(Item),
         NEW f \in LinkField(Item), NEW M, IsLinkedList(c, f, Item, M), NEW item \in M
  PROVE  LET l == LIST_REMOVE(c, f, item)
         IN  /\ l.container \in Container(Item)
             /\ l.field \in LinkField(Item)
             /\ IsLinkedList(l.container, l.field, Item, M \ {item})
             /\ SameLinks(f, l.field, Item \ M)
<1> DEFINE l == LIST_REMOVE(c, f, item)
           p == f.prev[item]
           n == f.next[item]
<1>1. /\ l.container \in Container(Item) /\ l.field \in LinkField(Item)
      /\ IsQueueOf(l.container, l.field.next, Item, M \ {item})
  BY RemoveQueue DEF IsLinkedList
<1>2. /\ M \subseteq Item /\ p \in M \cup {NULL} /\ n \in M \cup {NULL}
      /\ f.next \in [Item -> Item \cup {NULL}] /\ f.prev \in [Item -> Item \cup {NULL}]
      /\ n # item /\ p # item
      /\ p = NULL <=> c.start = item
      /\ p # NULL => f.next[p] = item
      /\ n # NULL => f.prev[n] = item
  BY Neighbours
<1>3. /\ l.container.start = (IF p = NULL THEN n ELSE c.start)
      /\ l.field.next = IF p = NULL THEN f.next ELSE [f.next EXCEPT ![p] = n]
      /\ l.field.prev = IF n = NULL THEN f.prev ELSE [f.prev EXCEPT ![n] = p]
  BY DEF LIST_REMOVE
<1> HIDE DEF l, p, n
<1>4. ASSUME NEW i \in M \ {item}
      PROVE  PrevAccurate(l.container, l.field, M \ {item}, i)
  <2>1. /\ f.prev[i] = NULL => c.start = i
        /\ f.prev[i] # NULL => f.prev[i] \in M /\ f.next[f.prev[i]] = i
    BY DEF IsLinkedList, PrevAccurate
  <2>2. CASE i = n
    <3>1. l.field.prev[i] = p
      BY <1>2, <1>3, <2>2
    <3>2. p # NULL => l.field.next[p] = i
      BY <1>2, <1>3, <2>2
    <3> QED
      BY <1>2, <1>3, <2>2, <3>1, <3>2 DEF PrevAccurate
  <2>3. CASE i # n
    <3>1. l.field.prev[i] = f.prev[i]
      BY <1>2, <1>3, <2>3
    <3>2. f.prev[i] # item
      BY <1>2, <2>1, <2>3 DEF n
    <3>3. f.prev[i] # NULL => l.field.next[f.prev[i]] = i
      BY <1>2, <1>3, <2>1
    <3> QED
      BY <1>2, <1>3, <2>1, <3>1, <3>2, <3>3 DEF PrevAccurate
  <2> QED
    BY <2>2, <2>3
<1>5. SameLinks(f, l.field, Item \ M)
  BY <1>2, <1>3 DEF SameLinks
<1> QED
  BY <1>1, <1>4, <1>5 DEF IsLinkedList, l
=============================================================================
