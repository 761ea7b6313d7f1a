------------------------ MODULE KernelObjectsProofs -------------------------
(***************************************************************************)
(* Threads and endpoints that come, go and move: the proofs of             *)
(* ThreadTableExact, ObjectsTypeOK, NoDanglingThread and                   *)
(* QueuesFollowObjects.                                                    *)
(***************************************************************************)
EXTENDS KernelObjects, LinkedListProofs, NatLemmas, IpcProofs

(***************************************************************************)
(* Part 1: the table of thread ids, for any number of threads, ids and     *)
(* buckets and any hash function.  Every step of KernelObjects that        *)
(* creates, destroys or moves a thread keeps the buckets exact.  Nothing   *)
(* in this part depends on the scheduler or on endpoints.                  *)
(***************************************************************************)

(***************************************************************************)
(* LIST_UPDATE_ADDRESS after the item's memory was copied: the new address *)
(* takes the place of the old one.                                         *)
(***************************************************************************)
LEMMA UpdateLinkedList ==
  ASSUME NEW Item, NULL \notin Item, NEW c \in Container(Item),
         NEW f \in LinkField(Item), NEW M, IsLinkedList(c, f, Item, M),
         NEW from \in M, NEW to \in Item, to \notin M
  PROVE  LET l == LIST_UPDATE_ADDRESS(c, CopyLinks(f, from, to), to)
         IN  /\ l.container \in Container(Item)
             /\ l.field \in LinkField(Item)
             /\ IsLinkedList(l.container, l.field, Item, (M \ {from}) \cup {to})
             /\ SameLinks(f, l.field, Item \ (M \cup {to}))
<1> DEFINE g == CopyLinks(f, from, to)
           l == LIST_UPDATE_ADDRESS(c, g, to)
           p == f.prev[from]
           n == f.next[from]
           N == (M \ {from}) \cup {to}
           start == l.container.start
           end == l.container.end
           next == l.field.next
           prev == l.field.prev
<1>0. /\ c.start \in Item \cup {NULL} /\ c.end \in Item \cup {NULL}
      /\ IsQueueOf(c, f.next, Item, M)
  BY DEF Container, IsLinkedList
<1>1. /\ M \subseteq Item /\ M = Members(Item, c.start, f.next)
      /\ c.start \in M /\ c.end \in M
      /\ f.next \in [Item -> Item \cup {NULL}] /\ f.prev \in [Item -> Item \cup {NULL}]
      /\ \A i \in M : f.next[i] \in M \cup {NULL} /\ f.prev[i] \in M \cup {NULL}
      /\ n # from /\ p # from
      /\ p = NULL <=> c.start = from
      /\ n = NULL <=> c.end = from
      /\ p # NULL => f.next[p] = from
      /\ n # NULL => f.prev[n] = from
  BY Neighbours
<1>2. /\ \A i \in M : /\ f.prev[i] = NULL <=> c.start = i
                      /\ f.next[i] = NULL <=> c.end = i
                      /\ f.prev[i] # NULL => f.next[f.prev[i]] = i
                      /\ f.next[i] # NULL => f.prev[f.next[i]] = i
  BY Neighbours
<1>3. g.next[to] = n /\ g.prev[to] = p
  BY <1>1 DEF CopyLinks
<1>4. /\ g.next = [f.next EXCEPT ![to] = n] /\ g.prev = [f.prev EXCEPT ![to] = p]
  BY DEF CopyLinks
<1>5. /\ start = (IF p = NULL THEN to ELSE c.start)
      /\ end = (IF n = NULL THEN to ELSE c.end)
      /\ prev = (IF n = NULL THEN g.prev ELSE [g.prev EXCEPT ![n] = to])
      /\ next = (IF p = NULL THEN g.next ELSE [g.next EXCEPT ![p] = to])
      /\ l.container = [start |-> start, end |-> end]
      /\ l.field = [prev |-> prev, next |-> next]
  BY <1>3 DEF LIST_UPDATE_ADDRESS
<1> HIDE DEF l, g, p, n, start, end, next, prev
<1>6. p \in M \cup {NULL} /\ n \in M \cup {NULL} /\ from # to /\ p # to /\ n # to
  BY <1>1 DEF p, n
<1>7. /\ next \in [Item -> Item \cup {NULL}] /\ prev \in [Item -> Item \cup {NULL}]
      /\ next[to] = n /\ prev[to] = p
      /\ p # NULL => next[p] = to
      /\ n # NULL => prev[n] = to
      /\ \A i \in Item : i # p /\ i # to => next[i] = f.next[i]
      /\ \A i \in Item : i # n /\ i # to => prev[i] = f.prev[i]
  BY <1>1, <1>4, <1>5, <1>6
<1>8. /\ start \in Item \cup {NULL} /\ end \in Item \cup {NULL}
      /\ start \in N /\ end \in N /\ N \subseteq Item
  BY <1>1, <1>5
<1>9. \A i \in M : i # p /\ i # from => f.next[i] # from
  BY <1>1, <1>2 DEF p
<1>10. \A i \in M : i # n /\ i # from => f.prev[i] # from
  BY <1>1, <1>2 DEF n
<1>11. \A i \in N : next[i] \in N \cup {NULL} /\ prev[i] \in N \cup {NULL}
  BY <1>1, <1>6, <1>7, <1>9, <1>10
<1>12. Members(Item, start, next) \subseteq N
  <2>1. ClosedFrom(N, start, next)
    BY <1>8, <1>11 DEF ClosedFrom
  <2> QED
    BY <1>7, <1>8, <2>1, MembersLeast
<1>13. N \subseteq Members(Item, start, next)
  <2> DEFINE S == Members(Item, start, next)
             T == {i \in M : IF i = from THEN to \in S ELSE i \in S}
  <2>1. ClosedFrom(S, start, next)
    BY <1>7, <1>8, MembersLeast
  <2>2. start \in S
    BY <1>8, <2>1 DEF ClosedFrom
  <2>3. \A i \in S : next[i] # NULL => next[i] \in S
    BY <2>1 DEF ClosedFrom
  <2> HIDE DEF S
  <2>4. c.start \in T
    BY <1>1, <1>5, <2>2
  <2>5. ASSUME NEW i \in T, f.next[i] # NULL
        PROVE  f.next[i] \in T
    <3>1. CASE i = from
      BY <1>1, <1>6, <1>7, <2>3, <2>5, <3>1 DEF n
    <3>2. CASE i = p
      BY <1>1, <1>6, <1>7, <2>3, <2>5, <3>2
    <3>3. CASE i # from /\ i # p
      BY <1>1, <1>7, <1>9, <2>3, <2>5, <3>3
    <3> QED
      BY <3>1, <3>2, <3>3
  <2>6. ClosedFrom(T, c.start, f.next) /\ T \in SUBSET Item
    BY <1>1, <2>4, <2>5 DEF ClosedFrom
  <2>7. M \subseteq T
    BY <1>0, <1>1, <2>6, MembersLeast
  <2> QED
    BY <2>7 DEF S
<1>14. N = Members(Item, start, next)
  BY <1>12, <1>13
<1>15. /\ next[end] = NULL
       /\ \A i \in N : next[i] = NULL => i = end
  BY <1>1, <1>2, <1>5, <1>6, <1>7
<1>16. \A i \in N : next[i] # start
  BY <1>0, <1>1, <1>5, <1>6, <1>7 DEF IsQueueOf, n
<1>17. \A i, j \in N : next[i] = next[j] /\ next[i] # NULL => i = j
  <2>1. \A i, j \in M : f.next[i] = f.next[j] /\ f.next[i] # NULL => i = j
    BY <1>0 DEF IsQueueOf
  <2>2. \A i \in M : f.next[i] = n /\ n # NULL => i = from
    BY <2>1 DEF n
  <2> QED
    BY <1>1, <1>6, <1>7, <2>1, <2>2
<1>18. IsQueueOf(l.container, next, Item, N)
  BY <1>8, <1>14, <1>15, <1>16, <1>17 DEF IsQueueOf, start, end
<1>19. ASSUME NEW i \in N
       PROVE  PrevAccurate(l.container, l.field, N, i)
  <2>1. IF prev[i] = NULL THEN start = i ELSE prev[i] \in N /\ next[prev[i]] = i
    <3>1. CASE i = to
      <4>1. prev[i] = p /\ (p = NULL => start = i)
        BY <1>5, <1>7, <3>1
      <4>2. p # NULL => p \in N /\ next[p] = i
        BY <1>1, <1>6, <1>7, <3>1
      <4> QED
        BY <4>1, <4>2
    <3>2. CASE i = n
      BY <1>6, <1>7, <1>8, <1>11, <3>2
    <3>3. CASE i # to /\ i # n
      <4>1. i \in M /\ i # from /\ prev[i] = f.prev[i] /\ prev[i] \in N \cup {NULL}
        BY <1>1, <1>7, <1>11, <3>3
      <4>2. f.prev[i] # NULL => f.prev[i] # p /\ f.prev[i] # to
        BY <1>1, <1>2, <4>1
      <4> QED
        BY <1>1, <1>2, <1>5, <1>7, <4>1, <4>2
    <3> QED
      BY <3>1, <3>2, <3>3
  <2> QED
    BY <2>1 DEF PrevAccurate, start, next, prev
<1>20. l.container \in Container(Item) /\ l.field \in LinkField(Item)
  BY <1>5, <1>7, <1>8 DEF Container, LinkField
<1>21. SameLinks(f, l.field, Item \ (M \cup {to}))
  BY <1>1, <1>6, <1>7 DEF SameLinks, next, prev
<1> QED
  BY <1>18, <1>19, <1>20, <1>21 DEF IsLinkedList, l, g, N, next

-----------------------------------------------------------------------------
(***************************************************************************)
(* The invariant, on the values of the variables: A are the allocated      *)
(* threads.  Beyond ThreadTableExact it says that `prev` is accurate in    *)
(* every bucket, which LIST_REMOVE and LIST_UPDATE_ADDRESS rely on, and    *)
(* that no thread has the kernel's id.                                     *)
(***************************************************************************)
Hashed(A, id, b) == {t \in A : bucket_of(id[t]) = b}

TableType(A, id, table, entry) ==
  /\ A \subseteq Thread
  /\ id \in [Thread -> ThreadId]
  /\ table \in [Bucket -> Container(Thread)]
  /\ entry \in LinkField(Thread)

TableLinked(A, id, table, entry) ==
  \A b \in Bucket : IsLinkedList(table[b], entry, Thread, Hashed(A, id, b))

IdsDistinct(A, id, used) ==
  /\ \A t, u \in A : id[t] = id[u] => t = u
  /\ \A t \in A : id[t] # 0
  /\ used = {0} \cup {id[t] : t \in A}

TableIs(A, id, used, table, entry) ==
  /\ TableType(A, id, table, entry)
  /\ TableLinked(A, id, table, entry)
  /\ IdsDistinct(A, id, used)

TableInv == /\ TableIs(allocated, thread_id, used_thread_ids, thread_hash_table, table_entry)
            /\ root \in [Thread -> BOOLEAN]

(* One bucket changes, and the links of no thread in another one.          *)
LEMMA OneBucket ==
  ASSUME NEW A, NEW id, NEW table, NEW entry,
         TableType(A, id, table, entry), TableLinked(A, id, table, entry),
         NEW B, NEW new, NEW b \in Bucket,
         NEW c \in Container(Thread), NEW g \in LinkField(Thread),
         IsLinkedList(c, g, Thread, Hashed(B, new, b)),
         \A d \in Bucket : d # b => /\ Hashed(B, new, d) = Hashed(A, id, d)
                                    /\ SameLinks(entry, g, Hashed(A, id, d))
  PROVE  /\ [table EXCEPT ![b] = c] \in [Bucket -> Container(Thread)]
         /\ TableLinked(B, new, [table EXCEPT ![b] = c], g)
<1> DEFINE new_table == [table EXCEPT ![b] = c]
<1>1. new_table \in [Bucket -> Container(Thread)]
  BY DEF TableType
<1>2. new_table[b] = c /\ \A d \in Bucket : d # b => new_table[d] = table[d]
  BY DEF TableType
<1>3. ASSUME NEW d \in Bucket, d # b
      PROVE  IsLinkedList(table[d], g, Thread, Hashed(A, id, d))
  <2>1. /\ IsLinkedList(table[d], entry, Thread, Hashed(A, id, d))
        /\ table[d] \in Container(Thread) /\ entry \in LinkField(Thread)
        /\ SameLinks(entry, g, Hashed(A, id, d))
    BY <1>3 DEF TableLinked, TableType
  <2> QED
    BY <2>1, LinkedListFrame, ThreadAssumption
<1> HIDE DEF new_table
<1>4. TableLinked(B, new, new_table, g)
  BY <1>2, <1>3 DEF TableLinked
<1> QED
  BY <1>1, <1>4 DEF new_table

(* The search for a clear bit finds an id that no thread has.              *)
LEMMA NewId ==
  ASSUME FreeIds # {}
  PROVE  new_thread_id \in ThreadId /\ new_thread_id \notin used_thread_ids
<1>1. FreeIds \in SUBSET Nat
  BY KernelObjectsAssumption DEF FreeIds, ThreadId
<1>2. \E id \in FreeIds : \A other \in FreeIds : id <= other
  BY <1>1, LeastNat
<1>3. new_thread_id \in FreeIds
  BY <1>2 DEF new_thread_id
<1> QED
  BY <1>3 DEF FreeIds

(* alloc_thread puts the new thread in the bucket of its id.               *)
LEMMA TableAppend ==
  ASSUME NEW A, NEW id, NEW used, NEW table, NEW entry, TableIs(A, id, used, table, entry),
         NEW t \in Thread, t \notin A, NEW i \in ThreadId, i \notin used
  PROVE  LET b == bucket_of(i)
             zeroed == [prev |-> [entry.prev EXCEPT ![t] = NULL],
                        next |-> [entry.next EXCEPT ![t] = NULL]]
             l == LIST_APPEND(table[b], zeroed, t)
         IN  TableIs(A \cup {t}, [id EXCEPT ![t] = i], used \cup {i},
                     [table EXCEPT ![b] = l.container], l.field)
<1> DEFINE b == bucket_of(i)
           zeroed == [prev |-> [entry.prev EXCEPT ![t] = NULL],
                      next |-> [entry.next EXCEPT ![t] = NULL]]
           l == LIST_APPEND(table[b], zeroed, t)
           new == [id EXCEPT ![t] = i]
           M == Hashed(A, id, b)
<1>0. /\ A \subseteq Thread /\ id \in [Thread -> ThreadId] /\ NULL \notin Thread
      /\ table \in [Bucket -> Container(Thread)] /\ entry \in LinkField(Thread)
      /\ entry.prev \in [Thread -> Thread \cup {NULL}]
      /\ entry.next \in [Thread -> Thread \cup {NULL}]
      /\ b \in Bucket
  BY ThreadAssumption, KernelObjectsAssumption DEF TableIs, TableType, LinkField
<1>1. new \in [Thread -> ThreadId] /\ new[t] = i /\ \A u \in A : new[u] = id[u]
  BY <1>0
<1> HIDE DEF new
<1>2. /\ Hashed(A \cup {t}, new, b) = M \cup {t}
      /\ \A d \in Bucket : d # b => Hashed(A \cup {t}, new, d) = Hashed(A, id, d)
  BY <1>1 DEF Hashed
<1>3. zeroed \in LinkField(Thread)
  BY <1>0 DEF LinkField
<1>4. \A d \in Bucket : SameLinks(entry, zeroed, Hashed(A, id, d)) /\ t \notin Hashed(A, id, d)
  BY <1>0 DEF SameLinks, Hashed
<1>5. table[b] \in Container(Thread) /\ IsLinkedList(table[b], zeroed, Thread, M)
  <2>1. table[b] \in Container(Thread) /\ IsLinkedList(table[b], entry, Thread, M)
    BY <1>0 DEF TableIs, TableLinked
  <2> QED
    BY <1>0, <1>3, <1>4, <2>1, LinkedListFrame
<1> HIDE DEF zeroed
<1>6. /\ l.container \in Container(Thread) /\ l.field \in LinkField(Thread)
      /\ IsLinkedList(l.container, l.field, Thread, M \cup {t})
      /\ SameLinks(zeroed, l.field, Thread \ (M \cup {t}))
  BY <1>0, <1>3, <1>4, <1>5, AppendLinkedList
<1> HIDE DEF l
<1>7. ASSUME NEW d \in Bucket, d # b
      PROVE  SameLinks(entry, l.field, Hashed(A, id, d))
  <2>1. Hashed(A, id, d) \subseteq Thread \ (M \cup {t})
    BY <1>0, <1>4, <1>7 DEF Hashed
  <2> QED
    BY <1>4, <1>6, <2>1 DEF SameLinks
<1>8. /\ [table EXCEPT ![b] = l.container] \in [Bucket -> Container(Thread)]
      /\ TableLinked(A \cup {t}, new, [table EXCEPT ![b] = l.container], l.field)
  <2>1. TableType(A, id, table, entry) /\ TableLinked(A, id, table, entry)
    BY DEF TableIs
  <2>2. IsLinkedList(l.container, l.field, Thread, Hashed(A \cup {t}, new, b))
    BY <1>2, <1>6
  <2>3. \A d \in Bucket : d # b => /\ Hashed(A \cup {t}, new, d) = Hashed(A, id, d)
                                   /\ SameLinks(entry, l.field, Hashed(A, id, d))
    BY <1>2, <1>7
  <2> QED
    BY <1>0, <1>6, <2>1, <2>2, <2>3, OneBucket
<1>9. IdsDistinct(A \cup {t}, new, used \cup {i})
  BY <1>1 DEF TableIs, IdsDistinct
<1> QED
  BY <1>0, <1>1, <1>6, <1>8, <1>9 DEF TableIs, TableType, new, l, zeroed

(* thread_destructor takes the thread out of its bucket and frees its id.  *)
LEMMA TableRemove ==
  ASSUME NEW A, NEW id, NEW used, NEW table, NEW entry, TableIs(A, id, used, table, entry),
         NEW t \in A
  PROVE  LET b == bucket_of(id[t])
             l == LIST_REMOVE(table[b], entry, t)
         IN  TableIs(A \ {t}, id, used \ {id[t]}, [table EXCEPT ![b] = l.container], l.field)
<1> DEFINE b == bucket_of(id[t])
           l == LIST_REMOVE(table[b], entry, t)
           M == Hashed(A, id, b)
<1>0. /\ A \subseteq Thread /\ id \in [Thread -> ThreadId] /\ NULL \notin Thread
      /\ table \in [Bucket -> Container(Thread)] /\ entry \in LinkField(Thread)
      /\ b \in Bucket
  BY ThreadAssumption, KernelObjectsAssumption DEF TableIs, TableType
<1>1. /\ Hashed(A \ {t}, id, b) = M \ {t} /\ t \in M
      /\ \A d \in Bucket : d # b => Hashed(A \ {t}, id, d) = Hashed(A, id, d)
  BY DEF Hashed
<1>2. table[b] \in Container(Thread) /\ IsLinkedList(table[b], entry, Thread, M)
  BY <1>0 DEF TableIs, TableLinked
<1>3. /\ l.container \in Container(Thread) /\ l.field \in LinkField(Thread)
      /\ IsLinkedList(l.container, l.field, Thread, M \ {t})
      /\ SameLinks(entry, l.field, Thread \ M)
  BY <1>0, <1>1, <1>2, RemoveLinkedList
<1> HIDE DEF l
<1>4. ASSUME NEW d \in Bucket, d # b
      PROVE  SameLinks(entry, l.field, Hashed(A, id, d))
  <2>1. Hashed(A, id, d) \subseteq Thread \ M
    BY <1>0, <1>4 DEF Hashed
  <2> QED
    BY <1>3, <2>1 DEF SameLinks
<1>5. /\ [table EXCEPT ![b] = l.container] \in [Bucket -> Container(Thread)]
      /\ TableLinked(A \ {t}, id, [table EXCEPT ![b] = l.container], l.field)
  <2>1. TableType(A, id, table, entry) /\ TableLinked(A, id, table, entry)
    BY DEF TableIs
  <2>2. IsLinkedList(l.container, l.field, Thread, Hashed(A \ {t}, id, b))
    BY <1>1, <1>3
  <2>3. \A d \in Bucket : d # b => /\ Hashed(A \ {t}, id, d) = Hashed(A, id, d)
                                   /\ SameLinks(entry, l.field, Hashed(A, id, d))
    BY <1>1, <1>4
  <2> QED
    BY <1>0, <1>3, <2>1, <2>2, <2>3, OneBucket
<1>6. IdsDistinct(A \ {t}, id, used \ {id[t]})
  BY DEF TableIs, IdsDistinct
<1> QED
  BY <1>0, <1>3, <1>5, <1>6 DEF TableIs, TableType, l

(* on_thread_moved puts the new address in the place of the old one.       *)
LEMMA TableUpdate ==
  ASSUME NEW A, NEW id, NEW used, NEW table, NEW entry, TableIs(A, id, used, table, entry),
         NEW from \in A, NEW to \in Thread, to \notin A
  PROVE  LET b == bucket_of(id[from])
             l == LIST_UPDATE_ADDRESS(table[b], CopyLinks(entry, from, to), to)
         IN  TableIs((A \ {from}) \cup {to}, [id EXCEPT ![to] = id[from]], used,
                     [table EXCEPT ![b] = l.container], l.field)
<1> DEFINE b == bucket_of(id[from])
           l == LIST_UPDATE_ADDRESS(table[b], CopyLinks(entry, from, to), to)
           M == Hashed(A, id, b)
           B == (A \ {from}) \cup {to}
           new == [id EXCEPT ![to] = id[from]]
<1>0. /\ A \subseteq Thread /\ id \in [Thread -> ThreadId] /\ NULL \notin Thread
      /\ table \in [Bucket -> Container(Thread)] /\ entry \in LinkField(Thread)
      /\ b \in Bucket
  BY ThreadAssumption, KernelObjectsAssumption DEF TableIs, TableType
<1>1. new \in [Thread -> ThreadId] /\ new[to] = id[from] /\ \A u \in A : new[u] = id[u]
  BY <1>0
<1> HIDE DEF new
<1>2. /\ Hashed(B, new, b) = (M \ {from}) \cup {to} /\ from \in M /\ to \notin M
      /\ \A d \in Bucket : d # b => Hashed(B, new, d) = Hashed(A, id, d)
  BY <1>1 DEF Hashed
<1>3. table[b] \in Container(Thread) /\ IsLinkedList(table[b], entry, Thread, M)
  BY <1>0 DEF TableIs, TableLinked
<1>4. /\ l.container \in Container(Thread) /\ l.field \in LinkField(Thread)
      /\ IsLinkedList(l.container, l.field, Thread, (M \ {from}) \cup {to})
      /\ SameLinks(entry, l.field, Thread \ (M \cup {to}))
  BY <1>0, <1>2, <1>3, UpdateLinkedList
<1> HIDE DEF l
<1>5. ASSUME NEW d \in Bucket, d # b
      PROVE  SameLinks(entry, l.field, Hashed(A, id, d))
  <2>1. Hashed(A, id, d) \subseteq Thread \ (M \cup {to})
    BY <1>0, <1>5 DEF Hashed
  <2> QED
    BY <1>4, <2>1 DEF SameLinks
<1>6. /\ [table EXCEPT ![b] = l.container] \in [Bucket -> Container(Thread)]
      /\ TableLinked(B, new, [table EXCEPT ![b] = l.container], l.field)
  <2>1. TableType(A, id, table, entry) /\ TableLinked(A, id, table, entry)
    BY DEF TableIs
  <2>2. IsLinkedList(l.container, l.field, Thread, Hashed(B, new, b))
    BY <1>2, <1>4
  <2>3. \A d \in Bucket : d # b => /\ Hashed(B, new, d) = Hashed(A, id, d)
                                   /\ SameLinks(entry, l.field, Hashed(A, id, d))
    BY <1>2, <1>5
  <2> QED
    BY <1>0, <1>4, <2>1, <2>2, <2>3, OneBucket
<1>7. IdsDistinct(B, new, used)
  BY <1>1 DEF TableIs, IdsDistinct
<1> QED
  BY <1>0, <1>1, <1>4, <1>6, <1>7 DEF TableIs, TableType, new, l

-----------------------------------------------------------------------------
(* main_init enters the root thread under id 1.                            *)
LEMMA TableInit == ObjectsInit => TableInv
<1> SUFFICES ASSUME ObjectsInit PROVE TableInv
  OBVIOUS
<1> DEFINE r == current_thread
           f == NoLinks(Thread)
           c == [start |-> r, end |-> r]
<1>1. /\ allocated = {r}
      /\ thread_id = [t \in Thread |-> IF t = r THEN 1 ELSE 0]
      /\ used_thread_ids = {0, 1}
      /\ thread_hash_table = [b \in Bucket |-> IF b = bucket_of(1) THEN c ELSE LIST_INIT]
      /\ table_entry = f
      /\ root = [t \in Thread |-> t = r]
  BY DEF ObjectsInit
<1>2. r \in Thread /\ NULL \notin Thread
  BY ThreadAssumption DEF ObjectsInit, Init
<1>3. 0 \in ThreadId /\ 1 \in ThreadId /\ bucket_of(1) \in Bucket
  BY KernelObjectsAssumption DEF ThreadId
<1>4. /\ f \in LinkField(Thread) /\ f.next \in [Thread -> Thread \cup {NULL}]
      /\ LIST_INIT \in Container(Thread)
  BY DEF NoLinks, LinkField, LIST_INIT, Container
<1>5. IsLinkedList(LIST_INIT, f, Thread, {})
  BY <1>2, <1>4, EmptyQueue DEF IsLinkedList
<1>6. c \in Container(Thread) /\ IsLinkedList(c, f, Thread, {r})
  <2> DEFINE l == LIST_APPEND(LIST_INIT, f, r)
  <2>1. l.container \in Container(Thread) /\ IsLinkedList(l.container, l.field, Thread, {r})
    <3> DEFINE none == {}
    <3>1. IsLinkedList(LIST_INIT, f, Thread, none) /\ r \notin none
      BY <1>5
    <3> HIDE DEF f, r, none, l
    <3>2. LET a == LIST_APPEND(LIST_INIT, f, r)
          IN  /\ a.container \in Container(Thread)
              /\ IsLinkedList(a.container, a.field, Thread, none \cup {r})
      BY <1>2, <1>4, <3>1, AppendLinkedList
    <3>3. none \cup {r} = {r}
      BY DEF none
    <3> QED
      BY <3>2, <3>3 DEF l
  <2>2. l.container = c /\ l.field = [prev |-> [f.prev EXCEPT ![r] = NULL],
                                      next |-> [f.next EXCEPT ![r] = NULL]]
    BY DEF LIST_APPEND, LIST_INIT
  <2>3. [f.prev EXCEPT ![r] = NULL] = f.prev /\ [f.next EXCEPT ![r] = NULL] = f.next
    BY <1>2 DEF NoLinks
  <2>4. l.field = f
    BY <2>2, <2>3 DEF NoLinks
  <2> QED
    BY <2>1, <2>2, <2>4
<1> HIDE DEF c, f, r
<1>7. TableType(allocated, thread_id, thread_hash_table, table_entry)
  BY <1>1, <1>2, <1>3, <1>4, <1>6 DEF TableType
<1>8. ASSUME NEW b \in Bucket
      PROVE  IsLinkedList(thread_hash_table[b], table_entry, Thread, Hashed(allocated, thread_id, b))
  <2>1. thread_id[r] = 1
    BY <1>1, <1>2
  <2>2. CASE b = bucket_of(1)
    <3>1. thread_hash_table[b] = c /\ Hashed(allocated, thread_id, b) = {r}
      BY <1>1, <2>1, <2>2 DEF Hashed
    <3> QED
      BY <1>1, <1>6, <3>1
  <2>3. CASE b # bucket_of(1)
    <3>1. thread_hash_table[b] = LIST_INIT /\ Hashed(allocated, thread_id, b) = {}
      BY <1>1, <2>1, <2>3 DEF Hashed
    <3> QED
      BY <1>1, <1>5, <3>1
  <2> QED
    BY <2>2, <2>3
<1>9. IdsDistinct(allocated, thread_id, used_thread_ids)
  <2>1. thread_id[r] = 1 /\ {thread_id[t] : t \in allocated} = {1}
    BY <1>1, <1>2
  <2> QED
    BY <1>1, <2>1 DEF IdsDistinct
<1> QED
  BY <1>1, <1>7, <1>8, <1>9 DEF TableInv, TableIs, TableLinked

(* No step spoils the table, if creating a thread in a slot that cannot be *)
(* used is excluded: that frees the thread without thread_destructor.      *)
LEMMA TableNext ==
  ASSUME "alloc_thread_failing" \notin Calls, TableInv, [ObjectsNext]_objectVars
  PROVE  TableInv'
<1>0. root \in [Thread -> BOOLEAN] /\ allocated \subseteq Thread
  BY DEF TableInv, TableIs, TableType
<1>1. CASE UNCHANGED tableVars
  BY <1>1 DEF tableVars, TableInv
<1>2. ASSUME NEW t \in Thread, NEW call \in {"alloc_thread", "alloc_thread_failing"},
             AllocThread(t, call)
      PROVE  TableInv'
  <2> DEFINE id == new_thread_id
             b == bucket_of(id)
             l == LIST_APPEND(thread_hash_table[b],
                    [prev |-> [table_entry.prev EXCEPT ![t] = NULL],
                     next |-> [table_entry.next EXCEPT ![t] = NULL]], t)
  <2>1. /\ t \notin allocated /\ FreeIds # {}
        /\ used_thread_ids' = used_thread_ids \cup {id}
        /\ thread_id' = [thread_id EXCEPT ![t] = id]
        /\ thread_hash_table' = [thread_hash_table EXCEPT ![b] = l.container]
        /\ table_entry' = l.field
        /\ root' = [root EXCEPT ![t] = FALSE]
        /\ allocated' = IF call = "alloc_thread" THEN allocated \cup {t} ELSE allocated
        /\ call \in Calls
    BY <1>2 DEF AllocThread, Trap
  <2>2. allocated' = allocated \cup {t}
    BY <2>1
  <2>3. id \in ThreadId /\ id \notin used_thread_ids
    BY <2>1, NewId
  <2> HIDE DEF id
  <2>4. TableIs(allocated \cup {t}, [thread_id EXCEPT ![t] = id], used_thread_ids \cup {id},
                [thread_hash_table EXCEPT ![b] = l.container], l.field)
    BY <2>1, <2>3, TableAppend DEF TableInv
  <2>5. root' \in [Thread -> BOOLEAN]
    BY <1>0, <2>1
  <2> HIDE DEF b, l
  <2> QED
    BY <2>1, <2>2, <2>4, <2>5 DEF TableInv
<1>3. ASSUME NEW t \in Thread, SetRootNode(t)
      PROVE  TableInv'
  <2>1. /\ root' = [root EXCEPT ![t] = TRUE]
        /\ UNCHANGED <<allocated, thread_id, used_thread_ids, thread_hash_table, table_entry>>
    BY <1>3 DEF SetRootNode
  <2> QED
    BY <1>0, <2>1 DEF TableInv
<1>4. ASSUME NEW t \in Thread, DeleteThread(t)
      PROVE  TableInv'
  <2> DEFINE b == bucket_of(thread_id[t])
             l == LIST_REMOVE(thread_hash_table[b], table_entry, t)
  <2>1. /\ t \in allocated
        /\ thread_hash_table' = [thread_hash_table EXCEPT ![b] = l.container]
        /\ table_entry' = l.field
        /\ used_thread_ids' = used_thread_ids \ {thread_id[t]}
        /\ allocated' = allocated \ {t}
        /\ UNCHANGED <<thread_id, root>>
    BY <1>4 DEF DeleteThread
  <2>2. TableIs(allocated \ {t}, thread_id, used_thread_ids \ {thread_id[t]},
                [thread_hash_table EXCEPT ![b] = l.container], l.field)
    BY <2>1, TableRemove DEF TableInv
  <2> HIDE DEF b, l
  <2> QED
    BY <1>0, <2>1, <2>2 DEF TableInv
<1>5. ASSUME NEW from \in Thread, NEW to \in Thread, RelocateThread(from, to)
      PROVE  TableInv'
  <2> DEFINE b == bucket_of(thread_id[from])
             l == LIST_UPDATE_ADDRESS(thread_hash_table[b], CopyLinks(table_entry, from, to), to)
  <2>1. /\ from \in allocated /\ to \notin allocated
        /\ thread_hash_table' = [thread_hash_table EXCEPT ![b] = l.container]
        /\ table_entry' = l.field
        /\ thread_id' = [thread_id EXCEPT ![to] = thread_id[from]]
        /\ root' = [root EXCEPT ![to] = root[from]]
        /\ allocated' = (allocated \ {from}) \cup {to}
        /\ UNCHANGED used_thread_ids
    BY <1>5 DEF RelocateThread
  <2>2. TableIs((allocated \ {from}) \cup {to}, [thread_id EXCEPT ![to] = thread_id[from]],
                used_thread_ids, [thread_hash_table EXCEPT ![b] = l.container], l.field)
    BY <2>1, TableUpdate DEF TableInv
  <2>3. root' \in [Thread -> BOOLEAN]
    BY <1>0, <2>1
  <2> HIDE DEF b, l
  <2> QED
    BY <2>1, <2>2, <2>3 DEF TableInv
<1>6. CASE UNCHANGED objectVars
  BY <1>1, <1>6 DEF objectVars
<1>7. CASE Uninvoked
  BY <1>1, <1>7 DEF Uninvoked
<1>8. CASE Invoked
  BY <1>1, <1>2, <1>3, <1>4, <1>5, <1>8 DEF Invoked, RelocateEndpoint
<1> QED
  BY <1>6, <1>7, <1>8 DEF ObjectsNext

(* What the invariant is for.                                              *)
LEMMA TableImplies ==
  ASSUME TableInv
  PROVE  ThreadTableExact
<1>1. \A b \in Bucket : IsQueueOf(thread_hash_table[b], table_entry.next, Thread,
                                  {t \in allocated : bucket_of(thread_id[t]) = b})
  BY DEF TableInv, TableIs, TableLinked, IsLinkedList, Hashed
<1> QED
  BY <1>1 DEF TableInv, TableIs, IdsDistinct, ThreadTableExact

(* The invariant of the thread table is kept by every step.                *)
THEOREM TableInvariance ==
  ASSUME "alloc_thread_failing" \notin Calls
  PROVE  ObjectsSpec => []TableInv
<1>1. TableInv /\ [ObjectsNext]_objectVars => TableInv'
  BY TableNext
<1> QED
  BY <1>1, TableInit, PTL DEF ObjectsSpec

(***************************************************************************)
(* look_up_thread_by_id finds every thread and only threads, whatever else *)
(* the threads do: also where queued or running threads are deleted or     *)
(* moved.  Only a creation that fails after alloc_thread is excluded.      *)
(***************************************************************************)
THEOREM ThreadTableCorrect ==
  ASSUME "alloc_thread_failing" \notin Calls
  PROVE  ObjectsSpec => []ThreadTableExact
<1>1. TableInv => ThreadTableExact
  BY TableImplies
<1> QED
  BY <1>1, TableInvariance, PTL

-----------------------------------------------------------------------------
(***************************************************************************)
(* Part 2: the queues and the objects in them.                             *)
(*                                                                         *)
(* Freed memory keeps its contents, so the invariant of IpcProofs, which   *)
(* speaks of all threads, does not hold of the kernel state as it is: the  *)
(* memory that the running thread was moved away from still says that it   *)
(* runs.  It holds of the state with quiet values in the place of those    *)
(* that are left over (Live), and no function of the kernel that is called *)
(* on threads that exist can tell the two states apart: each commutes with *)
(* the replacement (the lemmas named Over...).                             *)
(***************************************************************************)

(* The kernel state m, with the values of g for threads outside of A.      *)
Mix(A, f, g) == [t \in Thread |-> IF t \in A THEN f[t] ELSE g[t]]
Over(A, m, g) ==
  [m EXCEPT !.exec_mode = Mix(A, m.exec_mode, g.exec_mode),
            !.runqueue = Mix(A, m.runqueue, g.runqueue),
            !.currently_running = Mix(A, m.currently_running, g.currently_running),
            !.saved = Mix(A, m.saved, g.saved),
            !.blocked_on = Mix(A, m.blocked_on, g.blocked_on)]

(* A record with the fields of a kernel state.                             *)
Fields == {"exec_mode", "runqueue", "runqueue_entry", "priority_queue", "current_thread",
           "pending_context_switch", "currently_running", "saved", "cpu", "endpoints",
           "blocked_sending", "blocked_receiving", "blocked_queue", "blocked_on",
           "blocked_flags", "sending_badge", "message_buffer", "delivery", "slots"}

(* The fields in which a state and the replaced one are the same.          *)
Kept == Fields \ {"exec_mode", "runqueue", "currently_running", "saved", "blocked_on"}

(* The types of the others.                                                *)
MixedTyped(m) ==
  /\ m.exec_mode \in [Thread -> ExecMode]
  /\ m.runqueue \in [Thread -> BOOLEAN]
  /\ m.currently_running \in [Thread -> BOOLEAN]
  /\ m.saved \in [Thread -> BOOLEAN]
  /\ m.blocked_on \in [Thread -> Endpoint \cup {NULL}]

IsState(m) == m = [f \in Fields |-> m[f]] /\ MixedTyped(m)

(* All fields that are the same in m and in Over(A, m, g). *)
SameButMixed(m, k) ==
  /\ k.runqueue_entry = m.runqueue_entry
  /\ k.priority_queue = m.priority_queue /\ k.current_thread = m.current_thread
  /\ k.pending_context_switch = m.pending_context_switch /\ k.cpu = m.cpu
  /\ k.endpoints = m.endpoints /\ k.blocked_sending = m.blocked_sending
  /\ k.blocked_receiving = m.blocked_receiving /\ k.blocked_queue = m.blocked_queue
  /\ k.blocked_flags = m.blocked_flags /\ k.sending_badge = m.sending_badge
  /\ k.message_buffer = m.message_buffer /\ k.delivery = m.delivery
  /\ k.slots = m.slots

(* The others of Over(A, m, g).                                            *)
Replaced(A, m, g, k) ==
  /\ k.exec_mode = Mix(A, m.exec_mode, g.exec_mode)
  /\ k.runqueue = Mix(A, m.runqueue, g.runqueue)
  /\ k.currently_running = Mix(A, m.currently_running, g.currently_running)
  /\ k.saved = Mix(A, m.saved, g.saved)
  /\ k.blocked_on = Mix(A, m.blocked_on, g.blocked_on)

(* Kernel states are such records.                                         *)
LEMMA StateShape ==
  ASSUME NEW m \in KernelState
  PROVE  IsState(m)
BY DEF KernelState, IsState, MixedTyped, Fields

(* The fields of Over(A, m, g).                                            *)
LEMMA OverFields ==
  ASSUME NEW A \in SUBSET Thread, NEW m, IsState(m), NEW g
  PROVE  SameButMixed(m, Over(A, m, g)) /\ Replaced(A, m, g, Over(A, m, g))
<1>1. Replaced(A, m, g, Over(A, m, g))
  BY DEF Over, IsState, Fields, Replaced
<1>2. SameButMixed(m, Over(A, m, g))
  BY DEF Over, IsState, Fields, SameButMixed
<1> QED
  BY <1>1, <1>2

(* A value of a thread that exists is replaced nowhere.                    *)
LEMMA MixPut ==
  ASSUME NEW A \in SUBSET Thread, NEW t \in A, NEW f, f = [u \in Thread |-> f[u]],
         NEW g, NEW x
  PROVE  Mix(A, [f EXCEPT ![t] = x], g) = [Mix(A, f, g) EXCEPT ![t] = x]
<1> DEFINE h == [f EXCEPT ![t] = x]
           n == [Mix(A, f, g) EXCEPT ![t] = x]
<1>1. h = [u \in Thread |-> IF u = t THEN x ELSE f[u]]
  OBVIOUS
<1>2. n = [u \in Thread |-> IF u = t THEN x ELSE Mix(A, f, g)[u]]
  BY DEF Mix
<1>3. \A u \in Thread : Mix(A, h, g)[u] = IF u = t THEN x ELSE Mix(A, f, g)[u]
  BY <1>1 DEF Mix
<1>4. Mix(A, h, g) = [u \in Thread |-> Mix(A, h, g)[u]]
  BY DEF Mix
<1> QED
  BY <1>2, <1>3, <1>4

(* An assignment to a field that is not replaced commutes with Over.       *)
Put(s, f, x) == [s EXCEPT ![f] = x]

(* Put commutes with Over.                                                 *)
LEMMA OverPut ==
  ASSUME NEW A \in SUBSET Thread, NEW m, IsState(m), NEW g, NEW f \in Kept, NEW x
  PROVE  /\ IsState(Put(m, f, x))
         /\ Put(Over(A, m, g), f, x) = Over(A, Put(m, f, x), g)
<1>1. IsState(Put(m, f, x))
  <2>1. Put(m, f, x) = [h \in Fields |-> Put(m, f, x)[h]]
    BY DEF IsState, Fields, Put
  <2>2. MixedTyped(Put(m, f, x))
    BY DEF IsState, MixedTyped, Fields, Kept, Put
  <2> QED
    BY <2>1, <2>2 DEF IsState
<1>2. Put(Over(A, m, g), f, x) = Over(A, Put(m, f, x), g)
  BY ZenonT(60) DEF IsState, Fields, Kept, Over, Put
<1> QED
  BY <1>1, <1>2

(* The same for the four fields that a rendezvous sets.                    *)
Put4(s, f1, x1, f2, x2, f3, x3, f4, x4) ==
  Put(Put(Put(Put(s, f1, x1), f2, x2), f3, x3), f4, x4)

(* Put4 commutes with Over.                                                *)
LEMMA OverPut4 ==
  ASSUME NEW A \in SUBSET Thread, NEW m, IsState(m), NEW g,
         NEW f1 \in Kept, NEW x1, NEW f2 \in Kept, NEW x2,
         NEW f3 \in Kept, NEW x3, NEW f4 \in Kept, NEW x4
  PROVE  /\ IsState(Put4(m, f1, x1, f2, x2, f3, x3, f4, x4))
         /\ Put4(Over(A, m, g), f1, x1, f2, x2, f3, x3, f4, x4)
              = Over(A, Put4(m, f1, x1, f2, x2, f3, x3, f4, x4), g)
<1> DEFINE m1 == Put(m, f1, x1)
           m2 == Put(m1, f2, x2)
           m3 == Put(m2, f3, x3)
           m4 == Put(m3, f4, x4)
<1>1. IsState(m1) /\ Put(Over(A, m, g), f1, x1) = Over(A, m1, g)
  BY OverPut
<1>2. IsState(m2) /\ Put(Over(A, m1, g), f2, x2) = Over(A, m2, g)
  BY <1>1, OverPut
<1>3. IsState(m3) /\ Put(Over(A, m2, g), f3, x3) = Over(A, m3, g)
  BY <1>2, OverPut
<1>4. IsState(m4) /\ Put(Over(A, m3, g), f4, x4) = Over(A, m4, g)
  BY <1>3, OverPut
<1> QED
  BY <1>1, <1>2, <1>3, <1>4 DEF Put4

(* An assignment to a field of a thread that exists commutes with Over.    *)
PutAt(s, f, t, x) == [s EXCEPT ![f][t] = x]

(* What a flag is set and cleared to.                                      *)
On == TRUE
Off == FALSE

Mixed == {"exec_mode", "runqueue", "currently_running", "saved", "blocked_on"}

PutTyped(f, x) ==
  /\ f = "exec_mode" => x \in ExecMode
  /\ f = "blocked_on" => x \in Endpoint \cup {NULL}
  /\ f \in {"runqueue", "currently_running", "saved"} => x \in BOOLEAN

(* PutAt commutes with Over.                                               *)
LEMMA OverPutAt ==
  ASSUME NEW A \in SUBSET Thread, NEW m, IsState(m), NEW g, NEW t \in A,
         NEW f \in Mixed, NEW x, PutTyped(f, x)
  PROVE  /\ IsState(PutAt(m, f, t, x))
         /\ PutAt(Over(A, m, g), f, t, x) = Over(A, PutAt(m, f, t, x), g)
<1> DEFINE new == [m[f] EXCEPT ![t] = x]
           n == [m EXCEPT ![f] = new]
           k == Over(A, m, g)
<1>0. /\ m = [h \in Fields |-> m[h]] /\ f \in Fields
      /\ m.exec_mode \in [Thread -> ExecMode] /\ m.runqueue \in [Thread -> BOOLEAN]
      /\ m.currently_running \in [Thread -> BOOLEAN] /\ m.saved \in [Thread -> BOOLEAN]
      /\ m.blocked_on \in [Thread -> Endpoint \cup {NULL}]
  BY DEF IsState, MixedTyped, Mixed, Fields
<1>1. n = PutAt(m, f, t, x)
  BY DEF PutAt
<1>2. IsState(n)
  <2>1. n = [h \in Fields |-> n[h]]
    BY <1>0
  <2>2. MixedTyped(n)
    <3>1. CASE f = "exec_mode"
      BY <1>0, <3>1 DEF MixedTyped, Fields, PutTyped
    <3>2. CASE f = "runqueue"
      BY <1>0, <3>2 DEF MixedTyped, Fields, PutTyped
    <3>3. CASE f = "currently_running"
      BY <1>0, <3>3 DEF MixedTyped, Fields, PutTyped
    <3>4. CASE f = "saved"
      BY <1>0, <3>4 DEF MixedTyped, Fields, PutTyped
    <3>5. CASE f = "blocked_on"
      BY <1>0, <3>5 DEF MixedTyped, Fields, PutTyped
    <3> QED
      BY <3>1, <3>2, <3>3, <3>4, <3>5 DEF Mixed
  <2> QED
    BY <2>1, <2>2 DEF IsState
<1>3. m[f] = [u \in Thread |-> m[f][u]]
  BY <1>0 DEF Mixed
<1>4. Mix(A, new, g[f]) = [Mix(A, m[f], g[f]) EXCEPT ![t] = x]
  BY <1>3, MixPut
<1>5. PutAt(k, f, t, x) = [k EXCEPT ![f] = Mix(A, new, g[f])]
  <2>1. k[f] = Mix(A, m[f], g[f])
    <3>1. Replaced(A, m, g, Over(A, m, g))
      BY OverFields
    <3> QED
      BY <3>1 DEF Replaced, Mixed
  <2> QED
    BY <1>4, <2>1 DEF PutAt
<1> HIDE DEF new
<1>6. [k EXCEPT ![f] = Mix(A, new, g[f])] = Over(A, n, g)
  <2>0. k = [h \in Fields |-> k[h]]
    BY <1>0 DEF Over
  <2>1. Over(A, n, g) = [h \in Fields |-> Over(A, n, g)[h]]
    BY <1>0 DEF Over
  <2>2. ASSUME NEW h \in Fields
        PROVE  Over(A, n, g)[h] = IF h = f THEN Mix(A, new, g[f]) ELSE k[h]
    <3>1. n[h] = IF h = f THEN new ELSE m[h]
      BY <1>0
    <3>2. SameButMixed(m, k) /\ Replaced(A, m, g, k)
      BY OverFields
    <3>3. SameButMixed(n, Over(A, n, g)) /\ Replaced(A, n, g, Over(A, n, g))
      BY <1>2, OverFields
    <3>4. h \in Mixed => k[h] = Mix(A, m[h], g[h]) /\ Over(A, n, g)[h] = Mix(A, n[h], g[h])
      <4> HIDE DEF n, k
      <4> QED
        BY <3>2, <3>3 DEF Replaced, Mixed
    <3>5. h \notin Mixed => k[h] = m[h] /\ Over(A, n, g)[h] = n[h]
      <4> HIDE DEF n, k
      <4> QED
        BY <3>2, <3>3 DEF SameButMixed, Mixed, Fields
    <3> HIDE DEF n, k
    <3> QED
      BY <3>1, <3>4, <3>5
  <2> HIDE DEF n, k
  <2> QED
    BY <1>0, <2>0, <2>1, <2>2
<1> QED
  BY <1>1, <1>2, <1>5, <1>6

(* The threads in A are as they were.                                      *)
LEMMA OverAlive ==
  ASSUME NEW A \in SUBSET Thread, NEW m, IsState(m), NEW g, NEW t \in A
  PROVE  /\ Over(A, m, g).exec_mode[t] = m.exec_mode[t]
         /\ Over(A, m, g).runqueue[t] = m.runqueue[t]
         /\ Over(A, m, g).saved[t] = m.saved[t]
<1>1. Replaced(A, m, g, Over(A, m, g))
  BY OverFields
<1> QED
  BY <1>1 DEF Mix, Replaced

-----------------------------------------------------------------------------
(* The functions of the scheduler commute with the replacement.            *)

(* queue_thread, on a thread that exists.                                  *)
LEMMA OverQueueThread ==
  ASSUME NEW A \in SUBSET Thread, NEW m, IsState(m), NEW g, NEW t \in A
  PROVE  /\ IsState(queue_thread(m, t))
         /\ queue_thread(Over(A, m, g), t) = Over(A, queue_thread(m, t), g)
<1> DEFINE k == Over(A, m, g)
           l == LIST_APPEND(m.priority_queue, m.runqueue_entry, t)
           Queue(s) == Put(Put(PutAt(s, "runqueue", t, On), "priority_queue", l.container),
                           "runqueue_entry", l.field)
           m1 == PutAt(m, "runqueue", t, On)
           m2 == Put(m1, "priority_queue", l.container)
           m3 == Put(m2, "runqueue_entry", l.field)
<1>1. /\ k.runqueue[t] = m.runqueue[t] /\ k.priority_queue = m.priority_queue
      /\ k.runqueue_entry = m.runqueue_entry
  <2>1. SameButMixed(m, Over(A, m, g)) /\ Over(A, m, g).runqueue[t] = m.runqueue[t]
    BY OverFields, OverAlive
  <2> QED
    BY <2>1 DEF SameButMixed
<1>2. CASE m.runqueue[t]
  BY <1>1, <1>2 DEF queue_thread
<1>3. CASE ~m.runqueue[t]
  <2> HIDE DEF k
  <2>1. queue_thread(m, t) = Queue(m) /\ queue_thread(k, t) = Queue(k)
    <3>1. ASSUME NEW s, ~s.runqueue[t], s.priority_queue = m.priority_queue,
                 s.runqueue_entry = m.runqueue_entry
          PROVE  queue_thread(s, t) = Queue(s)
      BY <3>1 DEF queue_thread, Put, PutAt, On
    <3> HIDE DEF l, Queue
    <3> QED
      BY <1>1, <1>3, <3>1
  <2> HIDE DEF l, m1, m2, m3
  <2>f. /\ "runqueue" \in Mixed /\ PutTyped("runqueue", On)
        /\ "priority_queue" \in Kept /\ "runqueue_entry" \in Kept
    BY DEF Mixed, PutTyped, On, Off, Kept, Fields
  <2>2. IsState(m1) /\ PutAt(Over(A, m, g), "runqueue", t, On) = Over(A, m1, g)
    BY <2>f, OverPutAt DEF m1
  <2>3. IsState(m2) /\ Put(Over(A, m1, g), "priority_queue", l.container) = Over(A, m2, g)
    BY <2>f, <2>2, OverPut DEF m2
  <2>4. IsState(m3) /\ Put(Over(A, m2, g), "runqueue_entry", l.field) = Over(A, m3, g)
    BY <2>f, <2>3, OverPut DEF m3
  <2> QED
    BY <2>1, <2>2, <2>3, <2>4 DEF m1, m2, m3, k
<1> QED
  BY <1>2, <1>3

(* resume_thread, on a thread that exists.                                 *)
LEMMA OverResume ==
  ASSUME NEW A \in SUBSET Thread, NEW m, IsState(m), NEW g, NEW t \in A, NEW reason
  PROVE  /\ IsState(resume_thread(m, t, reason))
         /\ resume_thread(Over(A, m, g), t, reason) = Over(A, resume_thread(m, t, reason), g)
<1> DEFINE k == Over(A, m, g)
           mode == m.exec_mode[t] \ {reason}
           m1 == PutAt(m, "exec_mode", t, mode)
           k1 == PutAt(k, "exec_mode", t, mode)
           Pend(s) == [s EXCEPT !.pending_context_switch = @ \/ m.current_thread = NULL]
<1>1. k.exec_mode[t] = m.exec_mode[t] /\ k.current_thread = m.current_thread
  <2>1. SameButMixed(m, Over(A, m, g)) /\ Over(A, m, g).exec_mode[t] = m.exec_mode[t]
    BY OverFields, OverAlive
  <2> QED
    BY <2>1 DEF SameButMixed
<1>2. "exec_mode" \in Mixed /\ PutTyped("exec_mode", mode)
  BY DEF IsState, MixedTyped, ExecMode, Mixed, PutTyped
<1>3. IsState(m1) /\ k1 = Over(A, m1, g)
  <2> HIDE DEF mode
  <2> QED
    BY <1>2, OverPutAt
<1>5. m1.exec_mode[t] = mode /\ k1.exec_mode[t] = mode
  <2>1. Over(A, m1, g).exec_mode[t] = m1.exec_mode[t]
    <3> HIDE DEF m1, k1
    <3> QED
      BY <1>3, OverAlive
  <2>2. m1.exec_mode[t] = mode
    BY DEF PutAt, IsState, MixedTyped, Fields
  <2> QED
    BY <1>3, <2>1, <2>2
<1>6. /\ resume_thread(m, t, reason) = IF mode # RUNNING THEN m1 ELSE Pend(queue_thread(m1, t))
      /\ resume_thread(k, t, reason) = IF mode # RUNNING THEN k1 ELSE Pend(queue_thread(k1, t))
  <2>1. /\ m1 = [m EXCEPT !.exec_mode[t] = @ \ {reason}]
        /\ k1 = [k EXCEPT !.exec_mode[t] = @ \ {reason}]
    BY <1>1 DEF PutAt
  <2> HIDE DEF k, k1, m1, mode
  <2> QED
    BY <1>1, <1>5, <2>1 DEF resume_thread
<1> HIDE DEF k, k1, m1, mode
<1>7. CASE mode # RUNNING
  BY <1>3, <1>6, <1>7 DEF k
<1>8. CASE mode = RUNNING
  <2> DEFINE q == queue_thread(m1, t)
             p == q.pending_context_switch \/ m.current_thread = NULL
  <2>1. IsState(q) /\ queue_thread(k1, t) = Over(A, q, g)
    BY <1>3, OverQueueThread
  <2> HIDE DEF q
  <2>2. Over(A, q, g).pending_context_switch = q.pending_context_switch
    <3>1. SameButMixed(q, Over(A, q, g))
      BY <2>1, OverFields
    <3> QED
      BY <3>1 DEF SameButMixed
  <2>3. /\ Pend(q) = Put(q, "pending_context_switch", p)
        /\ Pend(Over(A, q, g)) = Put(Over(A, q, g), "pending_context_switch", p)
    BY <2>2 DEF Put
  <2> HIDE DEF p, Pend
  <2>4. "pending_context_switch" \in Kept
    BY DEF Kept, Fields
  <2>5. IsState(Pend(q)) /\ Pend(Over(A, q, g)) = Over(A, Pend(q), g)
    BY <2>1, <2>3, <2>4, OverPut
  <2> QED
    BY <1>6, <1>8, <2>1, <2>5 DEF q, k
<1> QED
  BY <1>7, <1>8

(* suspend_thread, on a thread that exists.                                *)
LEMMA OverSuspend ==
  ASSUME NEW A \in SUBSET Thread, NEW m, IsState(m), NEW g, NEW t \in A,
         NEW mode \in {BLOCKED, SUSPENDED}
  PROVE  /\ IsState(suspend_thread(m, t, mode))
         /\ suspend_thread(Over(A, m, g), t, mode) = Over(A, suspend_thread(m, t, mode), g)
<1> DEFINE k == Over(A, m, g)
           new == m.exec_mode[t] \cup {mode}
           p == m.pending_context_switch \/ m.current_thread = t
           l == LIST_REMOVE(m.priority_queue, m.runqueue_entry, t)
           Mode(s) == PutAt(Put(s, "pending_context_switch", p), "exec_mode", t, new)
           Remove(s) == Put(Put(PutAt(s, "runqueue", t, Off), "priority_queue", l.container),
                            "runqueue_entry", l.field)
           m1 == Put(m, "pending_context_switch", p)
           m2 == PutAt(m1, "exec_mode", t, new)
           m3 == PutAt(m2, "runqueue", t, Off)
           m4 == Put(m3, "priority_queue", l.container)
           m5 == Put(m4, "runqueue_entry", l.field)
<1>1. /\ k.exec_mode[t] = m.exec_mode[t] /\ k.current_thread = m.current_thread
      /\ k.runqueue[t] = m.runqueue[t] /\ k.priority_queue = m.priority_queue
      /\ k.runqueue_entry = m.runqueue_entry
      /\ k.pending_context_switch = m.pending_context_switch
  <2>1. /\ SameButMixed(m, Over(A, m, g)) /\ Over(A, m, g).exec_mode[t] = m.exec_mode[t]
        /\ Over(A, m, g).runqueue[t] = m.runqueue[t]
    BY OverFields, OverAlive
  <2> QED
    BY <2>1 DEF SameButMixed
<1>2. /\ "exec_mode" \in Mixed /\ PutTyped("exec_mode", new)
      /\ "runqueue" \in Mixed /\ PutTyped("runqueue", Off)
      /\ "priority_queue" \in Kept /\ "runqueue_entry" \in Kept
      /\ "pending_context_switch" \in Kept
  BY DEF IsState, MixedTyped, ExecMode, Mixed, PutTyped, Off, Kept, Fields
<1>3. /\ suspend_thread(m, t, mode) = IF ~m.runqueue[t] THEN Mode(m) ELSE Remove(Mode(m))
      /\ suspend_thread(k, t, mode) = IF ~m.runqueue[t] THEN Mode(k) ELSE Remove(Mode(k))
  <2>1. ASSUME NEW s, s.exec_mode[t] = m.exec_mode[t], s.current_thread = m.current_thread,
               s.runqueue[t] = m.runqueue[t], s.priority_queue = m.priority_queue,
               s.runqueue_entry = m.runqueue_entry,
               s.pending_context_switch = m.pending_context_switch
        PROVE  suspend_thread(s, t, mode) = IF ~m.runqueue[t] THEN Mode(s) ELSE Remove(Mode(s))
    <3>1. Mode(s) = [s EXCEPT !.pending_context_switch = @ \/ s.current_thread = t,
                              !.exec_mode[t] = @ \cup {mode}]
      BY <2>1 DEF Put, PutAt
    <3> HIDE DEF Mode, l
    <3>2. ASSUME NEW s1
          PROVE  Remove(s1) = [s1 EXCEPT !.runqueue[t] = FALSE, !.priority_queue = l.container,
                                         !.runqueue_entry = l.field]
      BY DEF Put, PutAt, Off
    <3> HIDE DEF Remove
    <3> QED
      BY <2>1, <3>1, <3>2 DEF suspend_thread, l
  <2> HIDE DEF k, Mode, Remove
  <2> QED
    BY <1>1, <2>1
<1> HIDE DEF new, l, p, m1, m2, m3, m4, m5
<1>4. IsState(m1) /\ Put(Over(A, m, g), "pending_context_switch", p) = Over(A, m1, g)
  BY <1>2, OverPut DEF m1
<1>5. IsState(m2) /\ PutAt(Over(A, m1, g), "exec_mode", t, new) = Over(A, m2, g)
  BY <1>2, <1>4, OverPutAt DEF m2
<1>6. IsState(m3) /\ PutAt(Over(A, m2, g), "runqueue", t, Off) = Over(A, m3, g)
  BY <1>2, <1>5, OverPutAt DEF m3
<1>7. IsState(m4) /\ Put(Over(A, m3, g), "priority_queue", l.container) = Over(A, m4, g)
  BY <1>2, <1>6, OverPut DEF m4
<1>8. IsState(m5) /\ Put(Over(A, m4, g), "runqueue_entry", l.field) = Over(A, m5, g)
  BY <1>2, <1>7, OverPut DEF m5
<1>9. /\ Mode(m) = m2 /\ Mode(k) = Over(A, m2, g)
      /\ Remove(m2) = m5 /\ Remove(Over(A, m2, g)) = Over(A, m5, g)
  BY <1>4, <1>5, <1>6, <1>7, <1>8 DEF m1, m2, m3, m4, m5
<1> HIDE DEF k, Mode, Remove
<1> QED
  BY <1>3, <1>5, <1>8, <1>9 DEF k

(* The first thread leaves the run queue.                                  *)
LEMMA OverTake ==
  ASSUME NEW A \in SUBSET Thread, NEW m, IsState(m), NEW g,
         m.priority_queue.start \in A \cup {NULL}
  PROVE  /\ IsState(take_next_thread(m))
         /\ take_next_thread(Over(A, m, g)) = Over(A, take_next_thread(m), g)
         /\ take_next_thread(m).current_thread = m.current_thread
<1> DEFINE k == Over(A, m, g)
           l == LIST_POP_FROM_START(m.priority_queue, m.runqueue_entry)
           c == m.priority_queue
           m1 == Put(m, "priority_queue", l.container)
           m2 == Put(m1, "runqueue_entry", l.field)
           m3 == PutAt(m2, "runqueue", c.start, Off)
           Pop(s) == PutAt(Put(Put(s, "priority_queue", l.container), "runqueue_entry", l.field),
                           "runqueue", c.start, Off)
<1>1. k.priority_queue = m.priority_queue /\ k.runqueue_entry = m.runqueue_entry
  <2>1. SameButMixed(m, Over(A, m, g))
    BY OverFields
  <2> QED
    BY <2>1 DEF SameButMixed
<1>2. /\ take_next_thread(m) = IF ~LIST_CAN_POP(c) THEN m ELSE Pop(m)
      /\ take_next_thread(k) = IF ~LIST_CAN_POP(c) THEN k ELSE Pop(k)
  BY <1>1 DEF take_next_thread, Put, PutAt, Off
<1>3. CASE ~LIST_CAN_POP(c)
  BY <1>2, <1>3
<1>4. CASE LIST_CAN_POP(c)
  <2>1. c.start \in A
    BY <1>4 DEF LIST_CAN_POP
  <2>2. /\ "runqueue" \in Mixed /\ PutTyped("runqueue", Off)
        /\ "priority_queue" \in Kept /\ "runqueue_entry" \in Kept
    BY DEF Mixed, PutTyped, On, Off, Kept, Fields
  <2> HIDE DEF l, c, m1, m2, m3
  <2>3. IsState(m1) /\ Put(Over(A, m, g), "priority_queue", l.container) = Over(A, m1, g)
    BY <2>2, OverPut DEF m1
  <2>4. IsState(m2) /\ Put(Over(A, m1, g), "runqueue_entry", l.field) = Over(A, m2, g)
    BY <2>2, <2>3, OverPut DEF m2
  <2>5. IsState(m3) /\ PutAt(Over(A, m2, g), "runqueue", c.start, Off) = Over(A, m3, g)
    BY <2>1, <2>2, <2>4, OverPutAt DEF m3
  <2>6. m3.current_thread = m.current_thread
    BY DEF m1, m2, m3, Put, PutAt, IsState, Fields
  <2>7. Pop(m) = m3 /\ Pop(Over(A, m, g)) = Over(A, m3, g)
    BY <2>3, <2>4, <2>5 DEF m1, m2, m3
  <2> HIDE DEF Pop
  <2> QED
    BY <1>2, <1>4, <2>5, <2>6, <2>7
<1> QED
  BY <1>3, <1>4

(* The registers of a thread that exists are saved.                        *)
LEMMA OverSave ==
  ASSUME NEW A \in SUBSET Thread, NEW m, IsState(m), NEW g, NEW t \in A
  PROVE  /\ IsState(save_registers(m, t))
         /\ save_registers(Over(A, m, g), t) = Over(A, save_registers(m, t), g)
<1> DEFINE k == Over(A, m, g)
           ok == (m.cpu = t)
           m1 == PutAt(m, "saved", t, ok)
           m2 == PutAt(m1, "currently_running", t, Off)
           Save(s) == PutAt(PutAt(s, "saved", t, ok), "currently_running", t, Off)
<1>1. k.cpu = m.cpu
  <2>1. SameButMixed(m, Over(A, m, g))
    BY OverFields
  <2> QED
    BY <2>1 DEF SameButMixed
<1>2. save_registers(m, t) = Save(m) /\ save_registers(k, t) = Save(k)
  BY <1>1 DEF save_registers, PutAt, Off
<1>3. /\ "saved" \in Mixed /\ PutTyped("saved", ok)
      /\ "currently_running" \in Mixed /\ PutTyped("currently_running", Off)
  BY DEF Mixed, PutTyped, Off
<1> HIDE DEF ok, m1, m2
<1>4. IsState(m1) /\ PutAt(Over(A, m, g), "saved", t, ok) = Over(A, m1, g)
  BY <1>3, OverPutAt DEF m1
<1>5. IsState(m2) /\ PutAt(Over(A, m1, g), "currently_running", t, Off) = Over(A, m2, g)
  BY <1>3, <1>4, OverPutAt DEF m2
<1> QED
  BY <1>2, <1>4, <1>5 DEF m1, m2

(* The thread that was running is put aside.                               *)
LEMMA OverPause ==
  ASSUME NEW A \in SUBSET Thread, NEW m, IsState(m), NEW g, m.current_thread \in A \cup {NULL},
         NEW next
  PROVE  /\ IsState(pause_current_thread(m, next))
         /\ pause_current_thread(Over(A, m, g), next) = Over(A, pause_current_thread(m, next), g)
<1> DEFINE k == Over(A, m, g)
           t == m.current_thread
           Aside(s) == [s EXCEPT !.current_thread = NULL]
<1>1. k.current_thread = t
  <2>1. SameButMixed(m, Over(A, m, g))
    BY OverFields
  <2> QED
    BY <2>1 DEF SameButMixed
<1>2. CASE t = NULL
  BY <1>1, <1>2 DEF pause_current_thread
<1>3. CASE t # NULL
  <2>1. t \in A /\ t \in Thread
    BY <1>3
  <2> HIDE DEF t
  <2>2. k.exec_mode[t] = m.exec_mode[t]
    BY <2>1, OverAlive
  <2>3. IsState(save_registers(m, t)) /\ save_registers(k, t) = Over(A, save_registers(m, t), g)
    BY <2>1, OverSave
  <2> DEFINE q == save_registers(m, t)
  <2>4. /\ pause_current_thread(m, next)
             = IF m.exec_mode[t] = RUNNING
               THEN IF next = NULL THEN m ELSE queue_thread(q, t)
               ELSE Aside(q)
        /\ pause_current_thread(k, next)
             = IF m.exec_mode[t] = RUNNING
               THEN IF next = NULL THEN k ELSE queue_thread(Over(A, q, g), t)
               ELSE Aside(Over(A, q, g))
    BY <1>1, <1>3, <2>2, <2>3 DEF pause_current_thread, t
  <2> HIDE DEF q
  <2>5. IsState(queue_thread(q, t)) /\ queue_thread(Over(A, q, g), t) = Over(A, queue_thread(q, t), g)
    BY <2>1, <2>3, OverQueueThread DEF q
  <2>6. IsState(Aside(q)) /\ Aside(Over(A, q, g)) = Over(A, Aside(q), g)
    <3>1. IsState(q) /\ "current_thread" \in Kept
      BY <2>3 DEF q, Kept, Fields
    <3>2. /\ Aside(q) = Put(q, "current_thread", NULL)
          /\ Aside(Over(A, q, g)) = Put(Over(A, q, g), "current_thread", NULL)
      BY DEF Put
    <3> HIDE DEF Aside
    <3> QED
      BY <3>1, <3>2, OverPut
  <2> QED
    BY <2>4, <2>5, <2>6
<1> QED
  BY <1>2, <1>3

(* The next thread is loaded.                                              *)
LEMMA OverLoad ==
  ASSUME NEW A \in SUBSET Thread, NEW m, IsState(m), NEW g, NEW next \in A \cup {NULL}
  PROVE  load_thread(Over(A, m, g), next) = Over(A, load_thread(m, next), g)
<1> DEFINE k == Over(A, m, g)
<1>1. k.current_thread = m.current_thread
  <2>1. SameButMixed(m, Over(A, m, g))
    BY OverFields
  <2> QED
    BY <2>1 DEF SameButMixed
<1>2. CASE next = NULL
  <2> DEFINE Idle(s) == [s EXCEPT !.cpu = NULL]
  <2>1. Idle(k) = Over(A, Idle(m), g)
    <3>1. /\ Idle(m) = Put(m, "cpu", NULL) /\ Idle(k) = Put(k, "cpu", NULL)
          /\ "cpu" \in Kept
      BY DEF Put, Kept, Fields
    <3> HIDE DEF Idle
    <3> QED
      BY <3>1, OverPut
  <2> QED
    BY <1>1, <1>2, <2>1 DEF load_thread
<1>3. CASE next # NULL
  <2> DEFINE c == IF m.saved[next] THEN next ELSE NULL
             m1 == Put(m, "cpu", c)
             m2 == PutAt(m1, "saved", next, Off)
             m3 == Put(m2, "current_thread", next)
             m4 == PutAt(m3, "currently_running", next, On)
             Load(s) == PutAt(Put(PutAt(Put(s, "cpu", c), "saved", next, Off),
                                  "current_thread", next),
                              "currently_running", next, On)
  <2>1. next \in A /\ k.saved[next] = m.saved[next]
    BY <1>3, OverAlive
  <2>2. load_thread(m, next) = Load(m) /\ load_thread(k, next) = Load(k)
    BY <1>3, <2>1 DEF load_thread, Put, PutAt, On, Off
  <2>3. /\ "saved" \in Mixed /\ PutTyped("saved", Off)
        /\ "currently_running" \in Mixed /\ PutTyped("currently_running", On)
        /\ "cpu" \in Kept /\ "current_thread" \in Kept
    BY DEF Mixed, PutTyped, On, Off, Kept, Fields
  <2> HIDE DEF c, m1, m2, m3, m4
  <2>4. IsState(m1) /\ Put(Over(A, m, g), "cpu", c) = Over(A, m1, g)
    BY <2>3, OverPut DEF m1
  <2>5. IsState(m2) /\ PutAt(Over(A, m1, g), "saved", next, Off) = Over(A, m2, g)
    BY <2>1, <2>3, <2>4, OverPutAt DEF m2
  <2>6. IsState(m3) /\ Put(Over(A, m2, g), "current_thread", next) = Over(A, m3, g)
    BY <2>3, <2>5, OverPut DEF m3
  <2>7. IsState(m4) /\ PutAt(Over(A, m3, g), "currently_running", next, On) = Over(A, m4, g)
    BY <2>1, <2>3, <2>6, OverPutAt DEF m4
  <2> QED
    BY <2>2, <2>4, <2>5, <2>6, <2>7 DEF m1, m2, m3, m4
<1> QED
  BY <1>2, <1>3

(* try_context_switch, between threads that exist.                         *)
LEMMA OverSwitch ==
  ASSUME NEW A \in SUBSET Thread, NEW m, IsState(m), NEW g,
         m.current_thread \in A \cup {NULL}, m.priority_queue.start \in A \cup {NULL}
  PROVE  try_context_switch(Over(A, m, g)) = Over(A, try_context_switch(m), g)
<1> DEFINE k == Over(A, m, g)
           next == m.priority_queue.start
           Clear(s) == Put(s, "pending_context_switch", Off)
           m1 == Clear(m)
           m2 == take_next_thread(m1)
           m3 == pause_current_thread(m2, next)
<1>1. k.pending_context_switch = m.pending_context_switch /\ k.priority_queue = m.priority_queue
  <2>1. SameButMixed(m, Over(A, m, g))
    BY OverFields
  <2> QED
    BY <2>1 DEF SameButMixed
<1>2. /\ try_context_switch(m) = IF ~m.pending_context_switch THEN m ELSE load_thread(m3, next)
      /\ try_context_switch(k)
           = IF ~m.pending_context_switch THEN k
             ELSE load_thread(pause_current_thread(take_next_thread(Clear(k)), next), next)
  BY <1>1 DEF try_context_switch, Put, Off
<1>3. IsState(m1) /\ Clear(k) = Over(A, m1, g)
  <2>1. "pending_context_switch" \in Kept
    BY DEF Kept, Fields
  <2> QED
    BY <2>1, OverPut
<1>4. m1.current_thread = m.current_thread /\ m1.priority_queue = m.priority_queue
  BY DEF IsState, Fields, Put
<1> HIDE DEF Clear, m1
<1>5. /\ IsState(m2) /\ take_next_thread(Over(A, m1, g)) = Over(A, m2, g)
      /\ m2.current_thread = m.current_thread
  BY <1>3, <1>4, OverTake
<1> HIDE DEF m2
<1>6. IsState(m3) /\ pause_current_thread(Over(A, m2, g), next) = Over(A, m3, g)
  BY <1>5, OverPause
<1> HIDE DEF m3
<1>7. load_thread(Over(A, m3, g), next) = Over(A, load_thread(m3, next), g)
  BY <1>6, OverLoad
<1> QED
  BY <1>2, <1>3, <1>5, <1>6, <1>7

-----------------------------------------------------------------------------
(* So do the functions of endpoints.                                       *)

(* yield_thread, and alloc_endpoint, touch nothing that is replaced.       *)
LEMMA OverYield ==
  ASSUME NEW A \in SUBSET Thread, NEW m, IsState(m), NEW g
  PROVE  yield_thread(Over(A, m, g)) = Over(A, yield_thread(m), g)
<1>1. \A s : yield_thread(s) = Put(s, "pending_context_switch", On)
  BY DEF yield_thread, Put, On
<1>2. "pending_context_switch" \in Kept
  BY DEF Kept, Fields
<1> QED
  BY <1>1, <1>2, OverPut

(* See OverYield.                                                          *)
LEMMA OverAllocEndpoint ==
  ASSUME NEW A \in SUBSET Thread, NEW m, IsState(m), NEW g, NEW e
  PROVE  alloc_endpoint(Over(A, m, g), e) = Over(A, alloc_endpoint(m, e), g)
<1> DEFINE k == Over(A, m, g)
           new == m.endpoints \cup {e}
           s == [m.blocked_sending EXCEPT ![e] = LIST_INIT]
           r == [m.blocked_receiving EXCEPT ![e] = LIST_INIT]
           m1 == Put(m, "endpoints", new)
           m2 == Put(m1, "blocked_sending", s)
           m3 == Put(m2, "blocked_receiving", r)
           Alloc(x) == Put(Put(Put(x, "endpoints", new), "blocked_sending", s), "blocked_receiving", r)
<1>1. /\ k.endpoints = m.endpoints /\ k.blocked_sending = m.blocked_sending
      /\ k.blocked_receiving = m.blocked_receiving
  <2>1. SameButMixed(m, Over(A, m, g))
    BY OverFields
  <2> QED
    BY <2>1 DEF SameButMixed
<1>2. alloc_endpoint(m, e) = Alloc(m) /\ alloc_endpoint(k, e) = Alloc(k)
  BY <1>1 DEF alloc_endpoint, Put
<1>3. "endpoints" \in Kept /\ "blocked_sending" \in Kept /\ "blocked_receiving" \in Kept
  BY DEF Kept, Fields
<1> HIDE DEF new, s, r, m1, m2, m3
<1>4. IsState(m1) /\ Put(Over(A, m, g), "endpoints", new) = Over(A, m1, g)
  BY <1>3, OverPut DEF m1
<1>5. IsState(m2) /\ Put(Over(A, m1, g), "blocked_sending", s) = Over(A, m2, g)
  BY <1>3, <1>4, OverPut DEF m2
<1>6. IsState(m3) /\ Put(Over(A, m2, g), "blocked_receiving", r) = Over(A, m3, g)
  BY <1>3, <1>5, OverPut DEF m3
<1> QED
  BY <1>2, <1>4, <1>5, <1>6 DEF m1, m2, m3

(* The calling thread waits.                                               *)
LEMMA OverBlock ==
  ASSUME NEW A \in SUBSET Thread, NEW m, IsState(m), NEW g, m.current_thread \in A,
         NEW e \in Endpoint, NEW badge, NEW message, NEW flag
  PROVE  block_current_thread(Over(A, m, g), e, badge, message, flag)
           = Over(A, block_current_thread(m, e, badge, message, flag), g)
<1> DEFINE k == Over(A, m, g)
           t == m.current_thread
           c == LIST_APPEND(m.blocked_sending[e], m.blocked_queue, t)
           r == LIST_APPEND(m.blocked_receiving[e], m.blocked_queue, t)
           l == IF flag = "SEND" THEN c ELSE r
           field == IF flag = "SEND" THEN "blocked_sending" ELSE "blocked_receiving"
           queues == IF flag = "SEND" THEN [m.blocked_sending EXCEPT ![e] = l.container]
                     ELSE [m.blocked_receiving EXCEPT ![e] = l.container]
           buffer == [m.message_buffer EXCEPT ![t] = message]
           badges == [m.sending_badge EXCEPT ![t] = badge]
           flags == [m.blocked_flags EXCEPT ![t] = @ \cup {flag}]
           links == l.field
           Four(s) == Put4(s, field, queues, "blocked_queue", links,
                           "message_buffer", buffer, "sending_badge", badges)
           Wait(s) == Put(PutAt(Four(s), "blocked_on", t, e), "blocked_flags", flags)
           m4 == Four(m)
           m5 == PutAt(m4, "blocked_on", t, e)
           m6 == Put(m5, "blocked_flags", flags)
<1>1. /\ k.current_thread = t /\ k.blocked_queue = m.blocked_queue
      /\ k.blocked_sending = m.blocked_sending /\ k.blocked_receiving = m.blocked_receiving
      /\ k.message_buffer = m.message_buffer /\ k.sending_badge = m.sending_badge
      /\ k.blocked_flags = m.blocked_flags
  <2>1. SameButMixed(m, Over(A, m, g))
    BY OverFields
  <2> QED
    BY <2>1 DEF SameButMixed
<1>2. /\ block_current_thread(m, e, badge, message, flag) = suspend_thread(Wait(m), t, BLOCKED)
      /\ block_current_thread(k, e, badge, message, flag) = suspend_thread(Wait(k), t, BLOCKED)
  <2>1. ASSUME NEW s, s.current_thread = t, s.blocked_queue = m.blocked_queue,
               s.blocked_sending = m.blocked_sending, s.blocked_receiving = m.blocked_receiving,
               s.message_buffer = m.message_buffer, s.sending_badge = m.sending_badge,
               s.blocked_flags = m.blocked_flags
        PROVE  block_current_thread(s, e, badge, message, flag) = suspend_thread(Wait(s), t, BLOCKED)
    <3> DEFINE Join == IF flag = "SEND" THEN [s EXCEPT !.blocked_sending[e] = l.container]
                       ELSE [s EXCEPT !.blocked_receiving[e] = l.container]
               Rest(x) == [x EXCEPT !.blocked_queue = l.field, !.message_buffer[t] = message,
                                    !.sending_badge[t] = badge, !.blocked_on[t] = e,
                                    !.blocked_flags[t] = @ \cup {flag}]
    <3>1. block_current_thread(s, e, badge, message, flag) = suspend_thread(Rest(Join), t, BLOCKED)
      BY <2>1 DEF block_current_thread
    <3>2. Join = [s EXCEPT ![field] = queues]
      BY <2>1
    <3>3. /\ Join.message_buffer = m.message_buffer /\ Join.sending_badge = m.sending_badge
          /\ Join.blocked_flags = m.blocked_flags
      BY <2>1
    <3> DEFINE j == Join
    <3> HIDE DEF j, l
    <3>4. Rest(j) = [j EXCEPT !.blocked_queue = links, !.message_buffer = buffer,
                              !.sending_badge = badges, !.blocked_on[t] = e,
                              !.blocked_flags = flags]
      BY <3>3 DEF j
    <3> HIDE DEF links, buffer, badges, flags, queues, field, Rest, Join, t
    <3>5. Wait(s) = [[s EXCEPT ![field] = queues] EXCEPT
                        !.blocked_queue = links, !.message_buffer = buffer,
                        !.sending_badge = badges, !.blocked_on[t] = e, !.blocked_flags = flags]
      BY DEF Put4, Put, PutAt
    <3>6. Rest(j) = Wait(s)
      BY <3>2, <3>4, <3>5 DEF j
    <3> QED
      BY <3>1, <3>6 DEF j
  <2> HIDE DEF k, Wait, t
  <2> QED
    BY <1>1, <2>1 DEF t
<1>3. /\ field \in Kept /\ "blocked_queue" \in Kept /\ "message_buffer" \in Kept
      /\ "sending_badge" \in Kept /\ "blocked_flags" \in Kept
      /\ "blocked_on" \in Mixed /\ PutTyped("blocked_on", e)
  BY DEF Kept, Fields, Mixed, PutTyped
<1>4. t \in A
  OBVIOUS
<1> HIDE DEF l, field, queues, buffer, badges, flags, links, t, m5, m6
<1>5. IsState(m4) /\ Four(Over(A, m, g)) = Over(A, m4, g)
  BY <1>3, OverPut4
<1> HIDE DEF m4, Four
<1>6. IsState(m5) /\ PutAt(Over(A, m4, g), "blocked_on", t, e) = Over(A, m5, g)
  BY <1>3, <1>4, <1>5, OverPutAt DEF m5
<1>7. IsState(m6) /\ Put(Over(A, m5, g), "blocked_flags", flags) = Over(A, m6, g)
  BY <1>3, <1>6, OverPut DEF m6
<1>8. Wait(m) = m6 /\ Wait(k) = Over(A, m6, g)
  BY <1>5, <1>6, <1>7 DEF m4, m5, m6
<1> HIDE DEF Wait
<1>9. suspend_thread(Over(A, m6, g), t, BLOCKED) = Over(A, suspend_thread(m6, t, BLOCKED), g)
  BY <1>4, <1>7, OverSuspend
<1> QED
  BY <1>2, <1>8, <1>9

(* A thread that waited on endpoint e is released, and a message and the   *)
(* capabilities handed over.                                               *)
Handed(s, t, flag, field, queues, links, d, capabilities) ==
  Put4([s EXCEPT !.blocked_flags[t] = @ \ {flag}, !.blocked_on[t] = NULL],
       field, queues, "blocked_queue", links, "delivery", d, "slots", capabilities)

(* Handed commutes with Over.                                              *)
LEMMA OverHanded ==
  ASSUME NEW A \in SUBSET Thread, NEW m, IsState(m), NEW g, NEW t \in A, NEW flag,
         NEW field \in Kept, NEW queues, NEW links,
         NEW d, NEW capabilities
  PROVE  /\ IsState(Handed(m, t, flag, field, queues, links, d, capabilities))
         /\ Handed(Over(A, m, g), t, flag, field, queues, links, d, capabilities)
              = Over(A, Handed(m, t, flag, field, queues, links, d, capabilities), g)
<1> DEFINE flags == [m.blocked_flags EXCEPT ![t] = @ \ {flag}]
           k == Over(A, m, g)
           m1 == Put(m, "blocked_flags", flags)
           m2 == PutAt(m1, "blocked_on", t, NULL)
           Rest(s) == Put4(s, field, queues, "blocked_queue", links, "delivery", d,
                           "slots", capabilities)
<1>1. k.blocked_flags = m.blocked_flags
  <2>1. SameButMixed(m, Over(A, m, g))
    BY OverFields
  <2> QED
    BY <2>1 DEF SameButMixed
<1>2. /\ Handed(m, t, flag, field, queues, links, d, capabilities) = Rest(m2)
      /\ Handed(k, t, flag, field, queues, links, d, capabilities)
           = Rest(PutAt(Put(k, "blocked_flags", flags), "blocked_on", t, NULL))
  <2>1. ASSUME NEW s, s.blocked_flags = m.blocked_flags
        PROVE  [s EXCEPT !.blocked_flags[t] = @ \ {flag}, !.blocked_on[t] = NULL]
                 = PutAt(Put(s, "blocked_flags", flags), "blocked_on", t, NULL)
    BY <2>1 DEF PutAt, Put
  <2> HIDE DEF k, flags
  <2> QED
    BY <1>1, <2>1 DEF Handed
<1>3. /\ field \in Kept /\ "blocked_queue" \in Kept /\ "delivery" \in Kept
      /\ "slots" \in Kept /\ "blocked_flags" \in Kept
      /\ "blocked_on" \in Mixed /\ PutTyped("blocked_on", NULL)
  BY DEF Kept, Fields, Mixed, PutTyped
<1> HIDE DEF flags, m1, m2
<1>4. IsState(m1) /\ Put(Over(A, m, g), "blocked_flags", flags) = Over(A, m1, g)
  BY <1>3, OverPut DEF m1
<1>5. IsState(m2) /\ PutAt(Over(A, m1, g), "blocked_on", t, NULL) = Over(A, m2, g)
  BY <1>3, <1>4, OverPutAt DEF m2
<1>6. IsState(Rest(m2)) /\ Rest(Over(A, m2, g)) = Over(A, Rest(m2), g)
  BY <1>3, <1>5, OverPut4
<1> HIDE DEF Rest
<1> QED
  BY <1>2, <1>4, <1>5, <1>6 DEF m1, m2

(* endpoint_send, when the receivers exist.                                *)
LEMMA OverSend ==
  ASSUME NEW A \in SUBSET Thread, NEW m, IsState(m), NEW g, m.current_thread \in A,
         NEW e \in Endpoint, m.blocked_receiving[e].start \in A \cup {NULL}, NEW badge, NEW message
  PROVE  endpoint_send(Over(A, m, g), e, badge, message) = Over(A, endpoint_send(m, e, badge, message), g)
<1> DEFINE k == Over(A, m, g)
           receiving == m.blocked_receiving[e].start
           l == LIST_POP_FROM_START(m.blocked_receiving[e], m.blocked_queue)
           queues == [m.blocked_receiving EXCEPT ![e] = l.container]
           links == l.field
           r == transfer_capabilities(m.slots, m.current_thread, receiving,
                                      message, m.message_buffer[receiving])
           d == Delivered(receiving, message.buffer, badge, r)
           caps == r.slots
           Hand(s) == Handed(s, receiving, "RECEIVE", "blocked_receiving", queues, links, d, caps)
<1>1. /\ k.current_thread = m.current_thread /\ k.blocked_queue = m.blocked_queue
      /\ k.blocked_receiving = m.blocked_receiving
      /\ k.message_buffer = m.message_buffer /\ k.slots = m.slots
  <2>1. SameButMixed(m, Over(A, m, g))
    BY OverFields
  <2> QED
    BY <2>1 DEF SameButMixed
<1>2. /\ endpoint_send(m, e, badge, message)
           = IF LIST_CAN_POP(m.blocked_receiving[e]) THEN resume_thread(Hand(m), receiving, BLOCKED)
             ELSE block_current_thread(m, e, badge, message, "SEND")
      /\ endpoint_send(k, e, badge, message)
           = IF LIST_CAN_POP(m.blocked_receiving[e]) THEN resume_thread(Hand(k), receiving, BLOCKED)
             ELSE block_current_thread(k, e, badge, message, "SEND")
  <2>1. ASSUME NEW s, s.blocked_receiving = m.blocked_receiving
        PROVE  Hand(s) = [released(s, receiving, "RECEIVE") EXCEPT
                            !.blocked_receiving[e] = l.container, !.blocked_queue = l.field,
                            !.delivery = d, !.slots = r.slots]
    <3> DEFINE rel == released(s, receiving, "RECEIVE")
    <3>1. rel.blocked_receiving = m.blocked_receiving
      BY <2>1 DEF released
    <3>2. Hand(s) = [rel EXCEPT !.blocked_receiving = queues, !.blocked_queue = l.field,
                                !.delivery = d, !.slots = r.slots]
      BY DEF Handed, Put4, Put, released
    <3> HIDE DEF rel, l, d, r, Hand
    <3> QED
      BY <3>1, <3>2 DEF rel
  <2>2. ASSUME NEW s, s.current_thread = m.current_thread, s.blocked_queue = m.blocked_queue,
               s.blocked_receiving = m.blocked_receiving,
               s.message_buffer = m.message_buffer, s.slots = m.slots
        PROVE  endpoint_send(s, e, badge, message)
                 = IF LIST_CAN_POP(m.blocked_receiving[e])
                   THEN resume_thread(Hand(s), receiving, BLOCKED)
                   ELSE block_current_thread(s, e, badge, message, "SEND")
    <3> HIDE DEF Hand
    <3> QED
      BY <2>1, <2>2 DEF endpoint_send
  <2> HIDE DEF Hand, k, receiving
  <2> QED
    BY <1>1, <2>2
<1>3. block_current_thread(k, e, badge, message, "SEND")
        = Over(A, block_current_thread(m, e, badge, message, "SEND"), g)
  BY OverBlock
<1>4. CASE ~LIST_CAN_POP(m.blocked_receiving[e])
  BY <1>2, <1>3, <1>4
<1>5. CASE LIST_CAN_POP(m.blocked_receiving[e])
  <2>1. receiving \in A
    BY <1>5 DEF LIST_CAN_POP
  <2> HIDE DEF receiving, queues, links, r, d, caps
  <2>f. "blocked_receiving" \in Kept
    BY DEF Kept, Fields
  <2>2. IsState(Hand(m)) /\ Hand(k) = Over(A, Hand(m), g)
    BY <2>1, <2>f, OverHanded
  <2> DEFINE h == Hand(m)
  <2>3. IsState(h) /\ Hand(k) = Over(A, h, g)
    BY <2>2
  <2> HIDE DEF Hand, h
  <2>4. resume_thread(Over(A, h, g), receiving, BLOCKED) = Over(A, resume_thread(h, receiving, BLOCKED), g)
    BY <2>1, <2>3, OverResume
  <2> QED
    BY <1>2, <1>5, <2>3, <2>4 DEF h
<1> QED
  BY <1>4, <1>5

(* endpoint_receive, when the senders exist.                               *)
LEMMA OverReceive ==
  ASSUME NEW A \in SUBSET Thread, NEW m, IsState(m), NEW g, m.current_thread \in A,
         NEW e \in Endpoint, m.blocked_sending[e].start \in A \cup {NULL}, NEW badge, NEW message
  PROVE  endpoint_receive(Over(A, m, g), e, badge, message)
           = Over(A, endpoint_receive(m, e, badge, message), g)
<1> DEFINE k == Over(A, m, g)
           sending == m.blocked_sending[e].start
           sent == m.message_buffer[sending]
           l == LIST_POP_FROM_START(m.blocked_sending[e], m.blocked_queue)
           queues == [m.blocked_sending EXCEPT ![e] = l.container]
           links == l.field
           r == transfer_capabilities(m.slots, sending, m.current_thread, sent, message)
           d == Delivered(m.current_thread, sent.buffer, m.sending_badge[sending], r)
           caps == r.slots
           Hand(s) == Handed(s, sending, "SEND", "blocked_sending", queues, links, d, caps)
<1>1. /\ k.current_thread = m.current_thread /\ k.blocked_queue = m.blocked_queue
      /\ k.blocked_sending = m.blocked_sending /\ k.sending_badge = m.sending_badge
      /\ k.message_buffer = m.message_buffer /\ k.slots = m.slots
  <2>1. SameButMixed(m, Over(A, m, g))
    BY OverFields
  <2> QED
    BY <2>1 DEF SameButMixed
<1>2. /\ endpoint_receive(m, e, badge, message)
           = IF LIST_CAN_POP(m.blocked_sending[e]) THEN resume_thread(Hand(m), sending, BLOCKED)
             ELSE block_current_thread(m, e, badge, message, "RECEIVE")
      /\ endpoint_receive(k, e, badge, message)
           = IF LIST_CAN_POP(m.blocked_sending[e]) THEN resume_thread(Hand(k), sending, BLOCKED)
             ELSE block_current_thread(k, e, badge, message, "RECEIVE")
  <2>1. ASSUME NEW s, s.blocked_sending = m.blocked_sending
        PROVE  Hand(s) = [released(s, sending, "SEND") EXCEPT
                            !.blocked_sending[e] = l.container, !.blocked_queue = l.field,
                            !.delivery = d, !.slots = r.slots]
    <3> DEFINE rel == released(s, sending, "SEND")
    <3>1. rel.blocked_sending = m.blocked_sending
      BY <2>1 DEF released
    <3>2. Hand(s) = [rel EXCEPT !.blocked_sending = queues, !.blocked_queue = l.field,
                                !.delivery = d, !.slots = r.slots]
      BY DEF Handed, Put4, Put, released
    <3> HIDE DEF rel, l, d, r, Hand
    <3> QED
      BY <3>1, <3>2 DEF rel
  <2>2. ASSUME NEW s, s.current_thread = m.current_thread, s.blocked_queue = m.blocked_queue,
               s.blocked_sending = m.blocked_sending, s.sending_badge = m.sending_badge,
               s.message_buffer = m.message_buffer, s.slots = m.slots
        PROVE  endpoint_receive(s, e, badge, message)
                 = IF LIST_CAN_POP(m.blocked_sending[e])
                   THEN resume_thread(Hand(s), sending, BLOCKED)
                   ELSE block_current_thread(s, e, badge, message, "RECEIVE")
    <3> HIDE DEF Hand
    <3> QED
      BY <2>1, <2>2 DEF endpoint_receive
  <2> HIDE DEF Hand, k, sending
  <2> QED
    BY <1>1, <2>2
<1>3. block_current_thread(k, e, badge, message, "RECEIVE")
        = Over(A, block_current_thread(m, e, badge, message, "RECEIVE"), g)
  BY OverBlock
<1>4. CASE ~LIST_CAN_POP(m.blocked_sending[e])
  BY <1>2, <1>3, <1>4
<1>5. CASE LIST_CAN_POP(m.blocked_sending[e])
  <2>1. sending \in A
    BY <1>5 DEF LIST_CAN_POP
  <2> HIDE DEF sending, sent, queues, links, r, d, caps
  <2>f. "blocked_sending" \in Kept
    BY DEF Kept, Fields
  <2>2. IsState(Hand(m)) /\ Hand(k) = Over(A, Hand(m), g)
    BY <2>1, <2>f, OverHanded
  <2> DEFINE h == Hand(m)
  <2>3. IsState(h) /\ Hand(k) = Over(A, h, g)
    BY <2>2
  <2> HIDE DEF Hand, h
  <2>4. resume_thread(Over(A, h, g), sending, BLOCKED) = Over(A, resume_thread(h, sending, BLOCKED), g)
    BY <2>1, <2>3, OverResume
  <2> QED
    BY <1>2, <1>5, <2>3, <2>4 DEF h
<1> QED
  BY <1>4, <1>5

(* endpoint_destructor, when the threads that wait exist.                  *)
LEMMA OverDestroyEndpoint ==
  ASSUME NEW A \in SUBSET Thread, NEW m, IsState(m), NEW g, NEW e,
         Senders(m, e) \cup Receivers(m, e) \subseteq A
  PROVE  endpoint_destructor(Over(A, m, g), e) = Over(A, endpoint_destructor(m, e), g)
<1> DEFINE k == Over(A, m, g)
           W == Senders(m, e) \cup Receivers(m, e)
           Mode(x) == [t \in Thread |-> IF t \in W THEN (x[t] \cup {SUSPENDED}) \ {BLOCKED} ELSE x[t]]
           On_(x) == [t \in Thread |-> IF t \in W THEN NULL ELSE x[t]]
           sending == [m.blocked_sending EXCEPT ![e] = LIST_INIT]
           receiving == [m.blocked_receiving EXCEPT ![e] = LIST_INIT]
           left == m.endpoints \ {e}
           Gone(s, mode, on) == [s EXCEPT !.exec_mode = mode, !.blocked_on = on,
                                !.blocked_sending = sending, !.blocked_receiving = receiving,
                                !.endpoints = left]
<1>1. /\ k.blocked_queue = m.blocked_queue
      /\ k.blocked_sending = m.blocked_sending /\ k.blocked_receiving = m.blocked_receiving
      /\ k.endpoints = m.endpoints
      /\ k.exec_mode = Mix(A, m.exec_mode, g.exec_mode)
      /\ k.blocked_on = Mix(A, m.blocked_on, g.blocked_on)
  <2>1. SameButMixed(m, Over(A, m, g)) /\ Replaced(A, m, g, Over(A, m, g))
    BY OverFields
  <2> QED
    BY <2>1 DEF SameButMixed, Replaced
<1>3. /\ endpoint_destructor(m, e) = Gone(m, Mode(m.exec_mode), On_(m.blocked_on))
      /\ endpoint_destructor(k, e) = Gone(k, Mode(k.exec_mode), On_(k.blocked_on))
  BY <1>1, ZenonT(40) DEF endpoint_destructor, Senders, Receivers, Waiting
<1>4. /\ Mode(Mix(A, m.exec_mode, g.exec_mode)) = Mix(A, Mode(m.exec_mode), g.exec_mode)
      /\ On_(Mix(A, m.blocked_on, g.blocked_on)) = Mix(A, On_(m.blocked_on), g.blocked_on)
  BY DEF Mix
<1>5. Mode(m.exec_mode) \in [Thread -> ExecMode] /\ On_(m.blocked_on) \in [Thread -> Endpoint \cup {NULL}]
  BY DEF IsState, MixedTyped, ExecMode
<1> HIDE DEF sending, receiving, left, Mode, On_
<1> DEFINE new == Mode(m.exec_mode)
           on == On_(m.blocked_on)
<1>6. Gone(k, Mix(A, new, g.exec_mode), Mix(A, on, g.blocked_on)) = Over(A, Gone(m, new, on), g)
  <2> HIDE DEF new, on
  <2> DEFINE n == [m EXCEPT !.exec_mode = new, !.blocked_on = on]
             m1 == Put(n, "blocked_sending", sending)
             m2 == Put(m1, "blocked_receiving", receiving)
             m3 == Put(m2, "endpoints", left)
  <2>1. IsState(n)
    BY <1>5 DEF IsState, MixedTyped, Fields, new, on
  <2>2. n.exec_mode = new /\ n.blocked_on = on
    BY DEF IsState, Fields
  <2>3. [k EXCEPT !.exec_mode = Mix(A, new, g.exec_mode), !.blocked_on = Mix(A, on, g.blocked_on)]
          = Over(A, n, g)
    <3> DEFINE x1 == Mix(A, new, g.exec_mode)
               x2 == Mix(A, m.runqueue, g.runqueue)
               x3 == Mix(A, m.currently_running, g.currently_running)
               x4 == Mix(A, m.saved, g.saved)
               x5 == Mix(A, on, g.blocked_on)
    <3>1. Over(A, n, g) = [n EXCEPT !.exec_mode = x1, !.runqueue = x2, !.currently_running = x3,
                                    !.saved = x4, !.blocked_on = x5]
      BY <2>2 DEF Over
    <3>2. k = [m EXCEPT !.exec_mode = Mix(A, m.exec_mode, g.exec_mode), !.runqueue = x2,
                        !.currently_running = x3, !.saved = x4,
                        !.blocked_on = Mix(A, m.blocked_on, g.blocked_on)]
      BY DEF Over
    <3> HIDE DEF x1, x2, x3, x4, x5, k
    <3> QED
      BY <3>1, <3>2 DEF IsState, Fields, x1, x5
  <2>4. /\ Gone(m, new, on) = m3
        /\ Gone(k, Mix(A, new, g.exec_mode), Mix(A, on, g.blocked_on))
             = Put(Put(Put(Over(A, n, g), "blocked_sending", sending),
                       "blocked_receiving", receiving), "endpoints", left)
    BY <2>3 DEF Put
  <2>5. "blocked_sending" \in Kept /\ "blocked_receiving" \in Kept /\ "endpoints" \in Kept
    BY DEF Kept, Fields
  <2> HIDE DEF n, m1, m2, m3
  <2>6. IsState(m1) /\ Put(Over(A, n, g), "blocked_sending", sending) = Over(A, m1, g)
    BY <2>1, <2>5, OverPut DEF m1
  <2>7. IsState(m2) /\ Put(Over(A, m1, g), "blocked_receiving", receiving) = Over(A, m2, g)
    BY <2>5, <2>6, OverPut DEF m2
  <2>8. IsState(m3) /\ Put(Over(A, m2, g), "endpoints", left) = Over(A, m3, g)
    BY <2>5, <2>7, OverPut DEF m3
  <2> QED
    BY <2>4, <2>6, <2>7, <2>8
<1> QED
  BY <1>1, <1>3, <1>4, <1>6

-----------------------------------------------------------------------------
(* The invariant.                                                          *)

(* A thread that does not exist does not run and may not, and waits for    *)
(* nothing.                                                                *)
Dead == [exec_mode |-> [t \in Thread |-> {SUSPENDED}],
         runqueue |-> [t \in Thread |-> FALSE],
         currently_running |-> [t \in Thread |-> FALSE],
         saved |-> [t \in Thread |-> TRUE],
         blocked_on |-> [t \in Thread |-> NULL]]

(* The kernel state, without what freed memory says.                       *)
Live(k, A) == Over(A, k, Dead)

(* Between two traps, when the threads in A exist.                         *)
LiveInv(k, A) == /\ k \in KernelState
                 /\ A \subseteq Thread
                 /\ IInv(Live(k, A))

(* Between a handler and the context switch that follows it.               *)
LiveHandled(k, A) == /\ k \in KernelState
                     /\ A \subseteq Thread
                     /\ Handled(Live(k, A))

ObjectsInv == LiveInv(K, allocated)

(* Two records that replace nothing outside of those fields.               *)
LEMMA OverIs ==
  ASSUME NEW A \in SUBSET Thread, NEW m, IsState(m), NEW g,
         NEW n, IsState(n), SameButMixed(m, n), Replaced(A, m, g, n)
  PROVE  n = Over(A, m, g)
<1> DEFINE k == Over(A, m, g)
<1>1. SameButMixed(m, k) /\ Replaced(A, m, g, k)
  BY OverFields
<1>2. k = [f \in Fields |-> k[f]]
  BY DEF Over, IsState, Fields
<1> HIDE DEF k
<1>3. ASSUME NEW f \in Fields
      PROVE  n[f] = k[f]
  BY <1>1 DEF SameButMixed, Replaced, Fields
<1> QED
  BY <1>2, <1>3 DEF IsState, k

(* Mixing twice is mixing once.                                            *)
LEMMA MixTwice ==
  ASSUME NEW A, NEW f, NEW u, NEW v
  PROVE  Mix(A, Mix(A, f, u), v) = Mix(A, f, v)
BY DEF Mix

(* Replacing twice is replacing once.                                      *)
LEMMA OverTwice ==
  ASSUME NEW A \in SUBSET Thread, NEW m, IsState(m), NEW g, IsState(Over(A, m, g)), NEW h
  PROVE  Over(A, Over(A, m, g), h) = Over(A, m, h)
<1> DEFINE k == Over(A, m, g)
           x == Over(A, k, h)
           y == Over(A, m, h)
<1>1. SameButMixed(m, k) /\ Replaced(A, m, g, k)
  BY OverFields
<1>2. SameButMixed(m, y) /\ Replaced(A, m, h, y)
  BY OverFields
<1>3. SameButMixed(k, x) /\ Replaced(A, k, h, x)
  <2> HIDE DEF k
  <2> QED
    BY OverFields DEF k
<1>4. /\ x = [f \in Fields |-> x[f]] /\ y = [f \in Fields |-> y[f]]
  <2>1. ASSUME NEW z, IsState(z)
        PROVE  Over(A, z, h) = [f \in Fields |-> Over(A, z, h)[f]]
    BY <2>1 DEF Over, IsState, Fields
  <2> HIDE DEF k
  <2> QED
    BY <2>1 DEF k
<1> HIDE DEF k, x, y
<1>5. Replaced(A, m, h, x)
  BY <1>1, <1>3, MixTwice DEF Replaced
<1>6. ASSUME NEW f \in Fields
      PROVE  x[f] = y[f]
  BY <1>1, <1>2, <1>3, <1>5 DEF SameButMixed, Replaced, Fields
<1> QED
  BY <1>4, <1>6 DEF k, x, y

(* Replacing nothing.                                                      *)
LEMMA OverSelf ==
  ASSUME NEW A \in SUBSET Thread, NEW m, IsState(m)
  PROVE  Over(A, m, m) = m
<1>1. /\ Mix(A, m.exec_mode, m.exec_mode) = m.exec_mode
      /\ Mix(A, m.runqueue, m.runqueue) = m.runqueue
      /\ Mix(A, m.currently_running, m.currently_running) = m.currently_running
      /\ Mix(A, m.saved, m.saved) = m.saved
      /\ Mix(A, m.blocked_on, m.blocked_on) = m.blocked_on
  BY DEF Mix, IsState, MixedTyped
<1>2. SameButMixed(m, m) /\ Replaced(A, m, m, m)
  BY <1>1 DEF SameButMixed, Replaced
<1> QED
  BY <1>2, OverIs

(* Types are kept by the replacement.                                      *)
LEMMA OverType ==
  ASSUME NEW A \in SUBSET Thread, NEW m \in KernelState, NEW g, MixedTyped(g)
  PROVE  Over(A, m, g) \in KernelState
<1>1. IsState(m)
  BY StateShape
<1>2. /\ Mix(A, m.exec_mode, g.exec_mode) \in [Thread -> ExecMode]
      /\ Mix(A, m.runqueue, g.runqueue) \in [Thread -> BOOLEAN]
      /\ Mix(A, m.currently_running, g.currently_running) \in [Thread -> BOOLEAN]
      /\ Mix(A, m.saved, g.saved) \in [Thread -> BOOLEAN]
      /\ Mix(A, m.blocked_on, g.blocked_on) \in [Thread -> Endpoint \cup {NULL}]
  BY <1>1 DEF Mix, IsState, MixedTyped
<1> QED
  BY <1>2 DEF Over, KernelState

(* The types of Dead, and of any kernel state.                             *)
LEMMA DeadType ==
  /\ MixedTyped(Dead)
  /\ \A k \in KernelState : MixedTyped(k)
BY DEF Dead, ExecMode, MixedTyped, KernelState

(* The fields of Live(k, A).                                               *)
LEMMA LiveFields ==
  ASSUME NEW A \in SUBSET Thread, NEW k \in KernelState
  PROVE  /\ Live(k, A) \in KernelState
         /\ IsState(Live(k, A)) /\ IsState(k)
         /\ SameButMixed(k, Live(k, A))
         /\ Live(k, A).exec_mode = [t \in Thread |-> IF t \in A THEN k.exec_mode[t] ELSE {SUSPENDED}]
         /\ Live(k, A).runqueue = [t \in Thread |-> t \in A /\ k.runqueue[t]]
         /\ Live(k, A).currently_running = [t \in Thread |-> t \in A /\ k.currently_running[t]]
         /\ Live(k, A).saved = [t \in Thread |-> t \in A => k.saved[t]]
         /\ Live(k, A).blocked_on = [t \in Thread |-> IF t \in A THEN k.blocked_on[t] ELSE NULL]
<1>1. IsState(k) /\ Live(k, A) \in KernelState
  BY StateShape, OverType, DeadType DEF Live
<1>2. IsState(Live(k, A))
  BY <1>1, StateShape
<1>3. SameButMixed(k, Live(k, A)) /\ Replaced(A, k, Dead, Live(k, A))
  BY <1>1, OverFields DEF Live
<1>4. Mix(A, k.exec_mode, Dead.exec_mode)
        = [t \in Thread |-> IF t \in A THEN k.exec_mode[t] ELSE {SUSPENDED}]
  BY DEF Mix, Dead
<1>5. /\ k.runqueue \in [Thread -> BOOLEAN]
      /\ k.currently_running \in [Thread -> BOOLEAN] /\ k.saved \in [Thread -> BOOLEAN]
  BY DEF KernelState
<1>6. /\ Mix(A, k.currently_running, Dead.currently_running)
           = [t \in Thread |-> t \in A /\ k.currently_running[t]]
      /\ Mix(A, k.runqueue, Dead.runqueue) = [t \in Thread |-> t \in A /\ k.runqueue[t]]
  BY <1>5 DEF Mix, Dead
<1>7. Mix(A, k.saved, Dead.saved) = [t \in Thread |-> t \in A => k.saved[t]]
  BY <1>5 DEF Mix, Dead
<1>8. Mix(A, k.blocked_on, Dead.blocked_on)
        = [t \in Thread |-> IF t \in A THEN k.blocked_on[t] ELSE NULL]
  BY DEF Mix, Dead
<1> QED
  BY <1>1, <1>2, <1>3, <1>4, <1>6, <1>7, <1>8 DEF Replaced

(* A handler that commutes with the replacement: what it does to the       *)
(* kernel state is what it does to the part of it that is live.            *)
LEMMA LiveHandler ==
  ASSUME NEW A \in SUBSET Thread, NEW k \in KernelState, NEW h, NEW q, Handled(h),
         q = Over(A, h, k), h = Over(A, h, Dead)
  PROVE  LiveHandled(q, A)
<1>1. h \in KernelState
  BY DEF Handled
<1>2. MixedTyped(k)
  BY DeadType
<1>3. q \in KernelState
  BY <1>1, <1>2, OverType
<1>4. IsState(h) /\ IsState(q)
  BY <1>1, <1>3, StateShape
<1>5. Live(q, A) = h
  BY <1>4, OverTwice DEF Live
<1> QED
  BY <1>3, <1>5 DEF LiveHandled

(* The two ways in which a state is its own live part with a replacement.  *)
LEMMA LiveOver ==
  ASSUME NEW A \in SUBSET Thread, NEW k \in KernelState
  PROVE  /\ Over(A, Live(k, A), k) = k
         /\ Over(A, Live(k, A), Dead) = Live(k, A)
<1>1. IsState(k) /\ IsState(Live(k, A))
  BY LiveFields
<1> QED
  BY <1>1, OverTwice, OverSelf DEF Live

(* The thread that runs and those on the run queue exist.                  *)
LEMMA LiveThreads ==
  ASSUME NEW k, NEW A, LiveHandled(k, A)
  PROVE  /\ k.current_thread \in A
         /\ k.priority_queue.start \in A \cup {NULL}
<1> DEFINE m == Live(k, A)
<1>1. A \in SUBSET Thread /\ k \in KernelState /\ Handled(m)
  BY DEF LiveHandled
<1>2. /\ m \in KernelState /\ SameButMixed(k, m)
      /\ m.runqueue = [t \in Thread |-> t \in A /\ k.runqueue[t]]
      /\ m.currently_running = [t \in Thread |-> t \in A /\ k.currently_running[t]]
  BY <1>1, LiveFields
<1> HIDE DEF m
<1>3. m.current_thread \in Thread /\ m.currently_running[m.current_thread]
  BY <1>1, <1>2 DEF Handled, CpuHeld, KernelState
<1>4. m.current_thread \in A
  BY <1>2, <1>3
<1>5. ASSUME m.priority_queue.start # NULL
      PROVE  m.priority_queue.start \in A
  <2> DEFINE t == m.priority_queue.start
  <2>1. /\ t \in Thread /\ m.runqueue_entry.next \in [Thread -> Thread \cup {NULL}]
    BY <1>2, <1>5 DEF KernelState, Container, LinkField
  <2>2. t \in Members(Thread, t, m.runqueue_entry.next)
    BY <2>1, <1>5, MembersLeast, ThreadAssumption DEF ClosedFrom
  <2>3. t \in Queued(m)
    BY <1>1, <2>2 DEF Handled, RunInv, RunQueueIs, IsQueueOf
  <2> HIDE DEF t
  <2> QED
    BY <1>2, <2>1, <2>3 DEF t, Queued
<1> QED
  BY <1>2, <1>4, <1>5 DEF SameButMixed

(* The context switch that follows a handler.                              *)
LEMMA LiveSwitch ==
  ASSUME NEW k, NEW A, LiveHandled(k, A)
  PROVE  LiveInv(try_context_switch(k), A)
<1> DEFINE m == Live(k, A)
           n == try_context_switch(m)
<1>1. A \in SUBSET Thread /\ k \in KernelState /\ Handled(m)
  BY DEF LiveHandled
<1>2. IsState(m) /\ SameButMixed(k, m)
  BY <1>1, LiveFields
<1>3. m.current_thread \in A \cup {NULL} /\ m.priority_queue.start \in A \cup {NULL}
  <2>1. k.current_thread \in A /\ k.priority_queue.start \in A \cup {NULL}
    BY LiveThreads
  <2> QED
    BY <1>2, <2>1 DEF SameButMixed
<1>4. Over(A, m, k) = k /\ Over(A, m, Dead) = m
  BY <1>1, LiveOver
<1> HIDE DEF m
<1>5. try_context_switch(Over(A, m, k)) = Over(A, n, k)
  BY <1>1, <1>2, <1>3, OverSwitch
<1>6. try_context_switch(Over(A, m, Dead)) = Over(A, n, Dead)
  BY <1>1, <1>2, <1>3, OverSwitch
<1>7. IInv(n)
  BY <1>1, SwitchAfterHandler
<1>8. try_context_switch(k) = Over(A, n, k) /\ n = Over(A, n, Dead)
  BY <1>4, <1>5, <1>6
<1> HIDE DEF n
<1>9. n \in KernelState /\ IsState(n)
  BY <1>7, StateShape DEF IInv
<1>10. try_context_switch(k) \in KernelState
  <2>1. MixedTyped(k)
    BY <1>1, DeadType
  <2> QED
    BY <1>1, <1>8, <1>9, <2>1, OverType
<1>11. Live(try_context_switch(k), A) = n
  <2>1. IsState(try_context_switch(k))
    BY <1>10, StateShape
  <2> QED
    BY <1>1, <1>8, <1>9, <2>1, OverTwice DEF Live
<1> QED
  BY <1>1, <1>7, <1>10, <1>11 DEF LiveInv

(* Whatever handler a trap runs, the invariant holds again at its end.     *)
LEMMA LiveTrap ==
  ASSUME NEW k, NEW A, LiveHandled(k, A), NEW call, Trap(call, k)
  PROVE  LiveInv(K', A)
<1>1. LiveInv(try_context_switch(k), A)
  BY LiveSwitch
<1>2. try_context_switch(k) \in KernelState
  BY <1>1 DEF LiveInv
<1>3. K' = try_context_switch(k)
  BY <1>2, BecomeState DEF Trap
<1> QED
  BY <1>1, <1>3

-----------------------------------------------------------------------------
(* The handlers of module Ipc, on threads that exist.                      *)

(* The threads that wait on an endpoint exist.                             *)
LEMMA LiveWaiting ==
  ASSUME NEW A \in SUBSET Thread, NEW k \in KernelState, Handled(Live(k, A)),
         NEW e \in k.endpoints
  PROVE  /\ e \in Live(k, A).endpoints
         /\ Senders(Live(k, A), e) \cup Receivers(Live(k, A), e) \subseteq A
         /\ Live(k, A).blocked_sending[e].start \in A \cup {NULL}
         /\ Live(k, A).blocked_receiving[e].start \in A \cup {NULL}
<1> DEFINE m == Live(k, A)
           W == Senders(m, e) \cup Receivers(m, e)
<1>1. /\ m \in KernelState /\ SameButMixed(k, m)
      /\ m.blocked_on = [t \in Thread |-> IF t \in A THEN k.blocked_on[t] ELSE NULL]
  BY LiveFields
<1> HIDE DEF m
<1>2. e \in m.endpoints /\ e \in Endpoint
  BY <1>1 DEF SameButMixed, KernelState
<1>3. W = {t \in Thread : m.blocked_on[t] = e}
  BY <1>2 DEF m, Handled, QueuesInv, TwoQueues, Senders, Receivers
<1>4. ASSUME NEW t \in W
      PROVE  t \in A
  <2>1. t \in Thread /\ m.blocked_on[t] # NULL
    BY <1>2, <1>3, IpcAssumption
  <2> QED
    BY <1>1, <2>1
<1>5. /\ m.blocked_sending[e].start \in Thread \cup {NULL}
      /\ m.blocked_receiving[e].start \in Thread \cup {NULL}
      /\ m.blocked_queue.next \in [Thread -> Thread \cup {NULL}]
  BY <1>1, <1>2 DEF KernelState, Container, LinkField
<1>6. /\ m.blocked_sending[e].start # NULL => m.blocked_sending[e].start \in Senders(m, e)
      /\ m.blocked_receiving[e].start # NULL => m.blocked_receiving[e].start \in Receivers(m, e)
  BY <1>5, MembersLeast, ThreadAssumption DEF Senders, Receivers, Waiting, ClosedFrom
<1> QED
  BY <1>2, <1>4, <1>6 DEF m

(* What the handlers start from.                                           *)
LiveEntered(k, A) == /\ k \in KernelState
                     /\ A \subseteq Thread
                     /\ Entered(Live(k, A))

(* Its consequences, in the form in which the lemmas below use them.       *)
LEMMA LiveEnteredFacts ==
  ASSUME NEW k, NEW A, LiveEntered(k, A)
  PROVE  /\ A \in SUBSET Thread /\ k \in KernelState
         /\ Entered(Live(k, A)) /\ Handled(Live(k, A)) /\ LiveHandled(k, A)
         /\ IsState(Live(k, A)) /\ SameButMixed(k, Live(k, A))
         /\ Over(A, Live(k, A), k) = k /\ Over(A, Live(k, A), Dead) = Live(k, A)
         /\ k.current_thread \in A /\ Live(k, A).current_thread \in A
         /\ Live(k, A).current_thread = k.current_thread
<1>1. /\ A \in SUBSET Thread /\ k \in KernelState
      /\ Entered(Live(k, A)) /\ Handled(Live(k, A)) /\ LiveHandled(k, A)
  BY DEF LiveEntered, LiveHandled, Entered
<1>2. IsState(Live(k, A)) /\ SameButMixed(k, Live(k, A))
  BY <1>1, LiveFields
<1>3. Over(A, Live(k, A), k) = k /\ Over(A, Live(k, A), Dead) = Live(k, A)
  BY <1>1, LiveOver
<1>4. k.current_thread \in A
  BY <1>1, LiveThreads
<1>5. Live(k, A).current_thread = k.current_thread
  BY <1>2 DEF SameButMixed
<1> QED
  BY <1>1, <1>2, <1>3, <1>4, <1>5

(* yield_thread                                                            *)
LEMMA LiveYield ==
  ASSUME NEW k, NEW A, LiveEntered(k, A)
  PROVE  LiveHandled(yield_thread(k), A)
<1> DEFINE m == Live(k, A)
<1>0. /\ A \in SUBSET Thread /\ k \in KernelState
      /\ Entered(m) /\ Handled(m) /\ IsState(m) /\ SameButMixed(k, m)
      /\ Over(A, m, k) = k /\ Over(A, m, Dead) = m
      /\ m.current_thread \in A
  BY LiveEnteredFacts
<1> HIDE DEF m
<1>2. yield_thread(Over(A, m, k)) = Over(A, yield_thread(m), k)
  BY <1>0, OverYield
<1>3. yield_thread(Over(A, m, Dead)) = Over(A, yield_thread(m), Dead)
  BY <1>0, OverYield
<1>4. Handled(yield_thread(m))
  BY <1>0, YieldThread
<1> QED
  BY <1>0, <1>2, <1>3, <1>4, LiveHandler

(* endpoint_send                                                           *)
LEMMA LiveSend ==
  ASSUME NEW k, NEW A, LiveEntered(k, A),
         NEW e \in k.endpoints, NEW badge \in Badge, NEW message \in SendMessages
  PROVE  LiveHandled(endpoint_send(k, e, badge, message), A)
<1> DEFINE m == Live(k, A)
<1>0. /\ A \in SUBSET Thread /\ k \in KernelState
      /\ Entered(m) /\ Handled(m) /\ IsState(m) /\ SameButMixed(k, m)
      /\ Over(A, m, k) = k /\ Over(A, m, Dead) = m
      /\ m.current_thread \in A
  BY LiveEnteredFacts
<1>1. /\ e \in m.endpoints /\ e \in Endpoint
      /\ Senders(m, e) \cup Receivers(m, e) \subseteq A
      /\ m.blocked_sending[e].start \in A \cup {NULL}
      /\ m.blocked_receiving[e].start \in A \cup {NULL}
  BY <1>0, LiveWaiting DEF KernelState
<1> HIDE DEF m
<1>2. endpoint_send(Over(A, m, k), e, badge, message) = Over(A, endpoint_send(m, e, badge, message), k)
  BY <1>0, <1>1, OverSend
<1>3. endpoint_send(Over(A, m, Dead), e, badge, message) = Over(A, endpoint_send(m, e, badge, message), Dead)
  BY <1>0, <1>1, OverSend
<1>4. Handled(endpoint_send(m, e, badge, message))
  BY <1>0, <1>1, EndpointSend
<1> QED
  BY <1>0, <1>2, <1>3, <1>4, LiveHandler

(* endpoint_receive                                                        *)
LEMMA LiveReceive ==
  ASSUME NEW k, NEW A, LiveEntered(k, A),
         NEW e \in k.endpoints, NEW badge \in Badge, NEW message \in RecvMessages
  PROVE  LiveHandled(endpoint_receive(k, e, badge, message), A)
<1> DEFINE m == Live(k, A)
<1>0. /\ A \in SUBSET Thread /\ k \in KernelState
      /\ Entered(m) /\ Handled(m) /\ IsState(m) /\ SameButMixed(k, m)
      /\ Over(A, m, k) = k /\ Over(A, m, Dead) = m
      /\ m.current_thread \in A
  BY LiveEnteredFacts
<1>1. /\ e \in m.endpoints /\ e \in Endpoint
      /\ Senders(m, e) \cup Receivers(m, e) \subseteq A
      /\ m.blocked_sending[e].start \in A \cup {NULL}
      /\ m.blocked_receiving[e].start \in A \cup {NULL}
  BY <1>0, LiveWaiting DEF KernelState
<1> HIDE DEF m
<1>2. endpoint_receive(Over(A, m, k), e, badge, message) = Over(A, endpoint_receive(m, e, badge, message), k)
  BY <1>0, <1>1, OverReceive
<1>3. endpoint_receive(Over(A, m, Dead), e, badge, message) = Over(A, endpoint_receive(m, e, badge, message), Dead)
  BY <1>0, <1>1, OverReceive
<1>4. Handled(endpoint_receive(m, e, badge, message))
  BY <1>0, <1>1, EndpointReceive
<1> QED
  BY <1>0, <1>2, <1>3, <1>4, LiveHandler

(* endpoint_destructor                                                     *)
LEMMA LiveDestroyEndpoint ==
  ASSUME NEW k, NEW A, LiveEntered(k, A), NEW e \in k.endpoints
  PROVE  LiveHandled(endpoint_destructor(k, e), A)
<1> DEFINE m == Live(k, A)
<1>0. /\ A \in SUBSET Thread /\ k \in KernelState
      /\ Entered(m) /\ Handled(m) /\ IsState(m) /\ SameButMixed(k, m)
      /\ Over(A, m, k) = k /\ Over(A, m, Dead) = m
      /\ m.current_thread \in A
  BY LiveEnteredFacts
<1>1. /\ e \in m.endpoints /\ Senders(m, e) \cup Receivers(m, e) \subseteq A
      /\ m.blocked_sending[e].start \in A \cup {NULL}
      /\ m.blocked_receiving[e].start \in A \cup {NULL}
  BY <1>0, LiveWaiting
<1> HIDE DEF m
<1>2. endpoint_destructor(Over(A, m, k), e) = Over(A, endpoint_destructor(m, e), k)
  BY <1>0, <1>1, OverDestroyEndpoint
<1>3. endpoint_destructor(Over(A, m, Dead), e) = Over(A, endpoint_destructor(m, e), Dead)
  BY <1>0, <1>1, OverDestroyEndpoint
<1>4. Handled(endpoint_destructor(m, e))
  BY <1>0, <1>1, DestroyEndpoint
<1> QED
  BY <1>0, <1>2, <1>3, <1>4, LiveHandler

(* alloc_endpoint                                                          *)
LEMMA LiveAllocEndpoint ==
  ASSUME NEW k, NEW A, LiveEntered(k, A), NEW e \in Endpoint, e \notin k.endpoints
  PROVE  LiveHandled(alloc_endpoint(k, e), A)
<1> DEFINE m == Live(k, A)
<1>0. /\ A \in SUBSET Thread /\ k \in KernelState
      /\ Entered(m) /\ Handled(m) /\ IsState(m) /\ SameButMixed(k, m)
      /\ Over(A, m, k) = k /\ Over(A, m, Dead) = m
      /\ m.current_thread \in A
  BY LiveEnteredFacts
<1>1. e \notin m.endpoints
  BY <1>0 DEF SameButMixed
<1> HIDE DEF m
<1>2. alloc_endpoint(Over(A, m, k), e) = Over(A, alloc_endpoint(m, e), k)
  BY <1>0, <1>1, OverAllocEndpoint
<1>3. alloc_endpoint(Over(A, m, Dead), e) = Over(A, alloc_endpoint(m, e), Dead)
  BY <1>0, <1>1, OverAllocEndpoint
<1>4. Handled(alloc_endpoint(m, e))
  BY <1>0, <1>1, NewEndpoint
<1> QED
  BY <1>0, <1>2, <1>3, <1>4, LiveHandler

(* resume_thread                                                           *)
LEMMA LiveResume ==
  ASSUME NEW k, NEW A, LiveEntered(k, A), NEW t \in A
  PROVE  LiveHandled(resume_thread(k, t, SUSPENDED), A)
<1> DEFINE m == Live(k, A)
<1>0. /\ A \in SUBSET Thread /\ k \in KernelState
      /\ Entered(m) /\ Handled(m) /\ IsState(m) /\ SameButMixed(k, m)
      /\ Over(A, m, k) = k /\ Over(A, m, Dead) = m
      /\ m.current_thread \in A
  BY LiveEnteredFacts
<1>1. t \in Thread
  BY <1>0
<1> HIDE DEF m
<1>2. resume_thread(Over(A, m, k), t, SUSPENDED) = Over(A, resume_thread(m, t, SUSPENDED), k)
  BY <1>0, <1>1, OverResume
<1>3. resume_thread(Over(A, m, Dead), t, SUSPENDED) = Over(A, resume_thread(m, t, SUSPENDED), Dead)
  BY <1>0, <1>1, OverResume
<1>4. Handled(resume_thread(m, t, SUSPENDED))
  BY <1>0, <1>1, ResumeHandled
<1> QED
  BY <1>0, <1>2, <1>3, <1>4, LiveHandler

(* suspend_thread                                                          *)
LEMMA LiveSuspend ==
  ASSUME NEW k, NEW A, LiveEntered(k, A), NEW t \in A,
         k.runqueue[t] => t = k.current_thread \/ PrevKnown(Live(k, A), t)
  PROVE  LiveHandled(suspend_thread(k, t, SUSPENDED), A)
<1> DEFINE m == Live(k, A)
<1>0. /\ A \in SUBSET Thread /\ k \in KernelState
      /\ Entered(m) /\ Handled(m) /\ IsState(m) /\ SameButMixed(k, m)
      /\ Over(A, m, k) = k /\ Over(A, m, Dead) = m
      /\ m.current_thread \in A
  BY LiveEnteredFacts
<1>1. t \in Thread /\ (m.runqueue[t] => t = m.current_thread \/ PrevKnown(m, t))
  <2>1. m.runqueue = [u \in Thread |-> u \in A /\ k.runqueue[u]]
    BY <1>0, LiveFields
  <2> QED
    BY <1>0, <2>1 DEF SameButMixed
<1> HIDE DEF m
<1>2. suspend_thread(Over(A, m, k), t, SUSPENDED) = Over(A, suspend_thread(m, t, SUSPENDED), k)
  BY <1>0, <1>1, OverSuspend
<1>3. suspend_thread(Over(A, m, Dead), t, SUSPENDED) = Over(A, suspend_thread(m, t, SUSPENDED), Dead)
  BY <1>0, <1>1, OverSuspend
<1>4. Handled(suspend_thread(m, t, SUSPENDED))
  BY <1>0, <1>1, SuspendHandled
<1> QED
  BY <1>0, <1>2, <1>3, <1>4, LiveHandler

-----------------------------------------------------------------------------
(* Threads and endpoints that come, go and move.                           *)

(* The run queue is left alone, whoever the running thread is now.         *)
LEMMA RunQueueKept ==
  ASSUME NEW m \in KernelState, NEW n \in KernelState, RunInv(m),
         n.priority_queue = m.priority_queue, Queued(n) = Queued(m),
         \A u \in Queued(m) : /\ n.runqueue_entry.next[u] = m.runqueue_entry.next[u]
                              /\ n.runqueue_entry.prev[u] = m.runqueue_entry.prev[u]
                              /\ n.exec_mode[u] = m.exec_mode[u],
         \A t \in Thread : n.exec_mode[t] = RUNNING => n.runqueue[t] \/ t = n.current_thread,
         n.current_thread \in Queued(n) => n.current_thread = m.current_thread
  PROVE  RunInv(n)
<1>1. /\ m.priority_queue \in Container(Thread)
      /\ m.runqueue_entry.next \in [Thread -> Thread \cup {NULL}]
      /\ n.runqueue_entry.next \in [Thread -> Thread \cup {NULL}]
  BY DEF KernelState, LinkField
<1>2. RunQueueIs(n, Queued(n))
  <2>1. IsQueueOf(m.priority_queue, m.runqueue_entry.next, Thread, Queued(m))
    BY DEF RunInv, RunQueueIs
  <2>2. \A u \in Queued(m) : n.runqueue_entry.next[u] = m.runqueue_entry.next[u]
    OBVIOUS
  <2>3. IsQueueOf(m.priority_queue, n.runqueue_entry.next, Thread, Queued(m))
    BY <1>1, <2>1, <2>2, QueueFrame, ThreadAssumption
  <2> QED
    BY <2>3 DEF RunQueueIs
<1>3. ASSUME NEW t \in Thread, n.runqueue[t]
      PROVE  n.exec_mode[t] = RUNNING
  <2>1. t \in Queued(m)
    BY <1>3 DEF Queued
  <2> QED
    BY <2>1 DEF RunInv, Queued
<1>4. ASSUME n.current_thread # NULL, n.runqueue[n.current_thread]
      PROVE  PrevKnown(n, n.current_thread)
  <2>1. n.current_thread \in Queued(n)
    BY <1>4 DEF Queued, KernelState
  <2>2. n.current_thread = m.current_thread /\ m.current_thread \in Queued(m)
    BY <2>1
  <2>3. PrevKnown(m, m.current_thread)
    BY <1>4, <2>2 DEF RunInv, Queued
  <2> QED
    BY <2>2, <2>3 DEF PrevKnown, PrevAccurate
<1> QED
  BY <1>2, <1>3, <1>4 DEF RunInv

(* The queues of endpoints are left alone, and so is who waits in them.    *)
LEMMA WaitersKept ==
  ASSUME NEW m \in KernelState, NEW n \in KernelState, QueuesInv(m),
         n.endpoints = m.endpoints, n.blocked_sending = m.blocked_sending,
         n.blocked_receiving = m.blocked_receiving, n.blocked_on = m.blocked_on,
         \A t \in Thread : m.blocked_on[t] # NULL =>
           /\ n.blocked_queue.next[t] = m.blocked_queue.next[t]
           /\ n.message_buffer[t] = m.message_buffer[t]
           /\ n.sending_badge[t] = m.sending_badge[t]
  PROVE  QueuesInv(n)
<1> SUFFICES ASSUME NEW e \in n.endpoints
             PROVE  /\ TwoQueues(n.blocked_sending, n.blocked_receiving, n.blocked_queue, n.blocked_on, e)
                    /\ \A t \in Waiting(n.blocked_sending, n.blocked_queue, e) :
                         n.message_buffer[t] \in SendMessages /\ n.sending_badge[t] \in Badge
  BY DEF QueuesInv
<1> DEFINE S == Waiting(m.blocked_sending, m.blocked_queue, e)
           R == Waiting(m.blocked_receiving, m.blocked_queue, e)
<1>1. /\ e \in Endpoint /\ e # NULL
      /\ m.blocked_sending[e] \in Container(Thread) /\ m.blocked_receiving[e] \in Container(Thread)
      /\ m.blocked_queue.next \in [Thread -> Thread \cup {NULL}]
      /\ n.blocked_queue.next \in [Thread -> Thread \cup {NULL}]
  BY IpcAssumption DEF KernelState, LinkField
<1>2. /\ TwoQueues(m.blocked_sending, m.blocked_receiving, m.blocked_queue, m.blocked_on, e)
      /\ \A t \in S : m.message_buffer[t] \in SendMessages /\ m.sending_badge[t] \in Badge
  BY DEF QueuesInv
<1>3. /\ IsQueueOf(m.blocked_sending[e], m.blocked_queue.next, Thread, S)
      /\ IsQueueOf(m.blocked_receiving[e], m.blocked_queue.next, Thread, R)
      /\ S \cup R = {t \in Thread : m.blocked_on[t] = e} /\ (S = {} \/ R = {})
  BY <1>2 DEF TwoQueues
<1> HIDE DEF S, R
<1>4. /\ \A t \in S : n.blocked_queue.next[t] = m.blocked_queue.next[t]
      /\ \A t \in R : n.blocked_queue.next[t] = m.blocked_queue.next[t]
      /\ \A t \in S : /\ n.message_buffer[t] = m.message_buffer[t]
                      /\ n.sending_badge[t] = m.sending_badge[t]
  BY <1>1, <1>3
<1>5. IsQueueOf(m.blocked_sending[e], n.blocked_queue.next, Thread, S)
  BY <1>1, <1>3, <1>4, QueueFrame, ThreadAssumption
<1>6. IsQueueOf(m.blocked_receiving[e], n.blocked_queue.next, Thread, R)
  BY <1>1, <1>3, <1>4, QueueFrame, ThreadAssumption
<1>7. /\ Waiting(n.blocked_sending, n.blocked_queue, e) = S
      /\ Waiting(n.blocked_receiving, n.blocked_queue, e) = R
  BY <1>5, <1>6 DEF Waiting, IsQueueOf
<1> QED
  BY <1>2, <1>3, <1>4, <1>5, <1>6, <1>7 DEF TwoQueues

(* Memory that holds no thread is in no queue and does not run.            *)
LEMMA DeadQuiet ==
  ASSUME NEW k, NEW A, LiveEntered(k, A), NEW t \in Thread, t \notin A
  PROVE  /\ t # k.current_thread
         /\ ~Live(k, A).runqueue[t] /\ Live(k, A).blocked_on[t] = NULL
         /\ Live(k, A).exec_mode[t] = {SUSPENDED}
         /\ Live(k, A).saved[t] /\ ~Live(k, A).currently_running[t]
<1> DEFINE m == Live(k, A)
<1>0. A \in SUBSET Thread /\ k \in KernelState /\ k.current_thread \in A
  BY LiveEnteredFacts
<1>1. /\ m.exec_mode = [u \in Thread |-> IF u \in A THEN k.exec_mode[u] ELSE {SUSPENDED}]
      /\ m.runqueue = [u \in Thread |-> u \in A /\ k.runqueue[u]]
      /\ m.currently_running = [u \in Thread |-> u \in A /\ k.currently_running[u]]
      /\ m.saved = [u \in Thread |-> u \in A => k.saved[u]]
      /\ m.blocked_on = [u \in Thread |-> IF u \in A THEN k.blocked_on[u] ELSE NULL]
  BY <1>0, LiveFields
<1> HIDE DEF m
<1>2. t # k.current_thread
  BY <1>0
<1>3. m.exec_mode[t] = {SUSPENDED} /\ m.blocked_on[t] = NULL
  BY <1>1
<1>4. ~m.runqueue[t] /\ ~m.currently_running[t] /\ m.saved[t]
  BY <1>1
<1> QED
  BY <1>2, <1>3, <1>4 DEF m

(* LIST_UPDATE_ADDRESS on a queue that items are popped from: it is enough *)
(* that the moved item knows what is before it.                            *)
LEMMA UpdateQueue ==
  ASSUME NEW Item, NULL \notin Item, NEW c \in Container(Item),
         NEW f \in LinkField(Item), NEW M, IsQueueOf(c, f.next, Item, M),
         NEW from \in M, PrevAccurate(c, f, M, from), NEW to \in Item, to \notin M
  PROVE  LET l == LIST_UPDATE_ADDRESS(c, CopyLinks(f, from, to), to)
             N == (M \ {from}) \cup {to}
         IN  /\ l.container \in Container(Item)
             /\ l.field \in LinkField(Item)
             /\ IsQueueOf(l.container, l.field.next, Item, N)
             /\ \A i \in Item \ (M \cup {to}) : l.field.next[i] = f.next[i]
             /\ PrevAccurate(l.container, l.field, N, to)
             /\ \A i \in M \ {from} : PrevAccurate(c, f, M, i)
                  => PrevAccurate(l.container, l.field, N, i)
<1> DEFINE g == CopyLinks(f, from, to)
           l == LIST_UPDATE_ADDRESS(c, g, to)
           p == f.prev[from]
           n == f.next[from]
           N == (M \ {from}) \cup {to}
           start == l.container.start
           end == l.container.end
           next == l.field.next
           prev == l.field.prev
<1>1. /\ M \subseteq Item /\ M = Members(Item, c.start, f.next)
      /\ c.start \in M /\ c.end \in M
      /\ f.next \in [Item -> Item \cup {NULL}] /\ f.prev \in [Item -> Item \cup {NULL}]
      /\ \A i \in M : /\ f.next[i] \in M \cup {NULL} /\ f.next[i] # c.start
                      /\ f.next[i] = NULL <=> c.end = i
                      /\ f.next[i] = from => i = p
                      /\ f.next[i] = n /\ n # NULL => i = from
      /\ n # from /\ p # from /\ p \in M \cup {NULL} /\ n \in M \cup {NULL}
      /\ p = NULL <=> c.start = from
      /\ p # NULL => f.next[p] = from
  BY QueueItem
<1>2. \A i, j \in M : f.next[i] = f.next[j] /\ f.next[i] # NULL => i = j
  BY DEF IsQueueOf
<1>3. g.next[to] = n /\ g.prev[to] = p
  BY <1>1 DEF CopyLinks
<1>4. g.next = [f.next EXCEPT ![to] = n] /\ g.prev = [f.prev EXCEPT ![to] = p]
  BY DEF CopyLinks
<1>5. /\ start = (IF p = NULL THEN to ELSE c.start)
      /\ end = (IF n = NULL THEN to ELSE c.end)
      /\ prev = (IF n = NULL THEN g.prev ELSE [g.prev EXCEPT ![n] = to])
      /\ next = (IF p = NULL THEN g.next ELSE [g.next EXCEPT ![p] = to])
      /\ l.container = [start |-> start, end |-> end]
      /\ l.field = [prev |-> prev, next |-> next]
  BY <1>3 DEF LIST_UPDATE_ADDRESS
<1>n. n = NULL <=> c.end = from
  BY <1>1
<1> HIDE DEF l, g, p, n, start, end, next, prev
<1>6. from # to /\ p # to /\ n # to
  BY <1>1
<1>7. /\ next \in [Item -> Item \cup {NULL}] /\ prev \in [Item -> Item \cup {NULL}]
      /\ next[to] = n /\ prev[to] = p
      /\ p # NULL => next[p] = to
      /\ n # NULL => prev[n] = to
      /\ \A i \in Item : i # p /\ i # to => next[i] = f.next[i]
      /\ \A i \in Item : i # n /\ i # to => prev[i] = f.prev[i]
  BY <1>1, <1>4, <1>5, <1>6
<1>8. /\ start \in Item \cup {NULL} /\ end \in Item \cup {NULL}
      /\ start \in N /\ end \in N /\ N \subseteq Item
  BY <1>1, <1>5, <1>n
<1>9. \A i \in M : i # p /\ i # from => f.next[i] # from
  BY <1>1
<1>11. \A i \in N : next[i] \in N \cup {NULL}
  BY <1>1, <1>6, <1>7, <1>9
<1>12. Members(Item, start, next) \subseteq N
  <2>1. ClosedFrom(N, start, next)
    BY <1>8, <1>11 DEF ClosedFrom
  <2> QED
    BY <1>7, <1>8, <2>1, MembersLeast
<1>13. N \subseteq Members(Item, start, next)
  <2> DEFINE S == Members(Item, start, next)
             T == {i \in M : IF i = from THEN to \in S ELSE i \in S}
  <2>1. ClosedFrom(S, start, next)
    BY <1>7, <1>8, MembersLeast
  <2>2. start \in S
    BY <1>8, <2>1 DEF ClosedFrom
  <2>3. \A i \in S : next[i] # NULL => next[i] \in S
    BY <2>1 DEF ClosedFrom
  <2> HIDE DEF S
  <2>4. c.start \in T
    BY <1>1, <1>5, <2>2
  <2>5. ASSUME NEW i \in T, f.next[i] # NULL
        PROVE  f.next[i] \in T
    <3>1. CASE i = from
      BY <1>1, <1>6, <1>7, <2>3, <2>5, <3>1 DEF n
    <3>2. CASE i = p
      BY <1>1, <1>6, <1>7, <2>3, <2>5, <3>2
    <3>3. CASE i # from /\ i # p
      BY <1>1, <1>7, <1>9, <2>3, <2>5, <3>3
    <3> QED
      BY <3>1, <3>2, <3>3
  <2>6. ClosedFrom(T, c.start, f.next) /\ T \in SUBSET Item
    BY <1>1, <2>4, <2>5 DEF ClosedFrom
  <2>7. M \subseteq T
    BY <1>1, <2>6, MembersLeast
  <2> QED
    BY <2>7 DEF S
<1>14. N = Members(Item, start, next)
  BY <1>12, <1>13
<1>15. next[end] = NULL /\ \A i \in N : next[i] = NULL => i = end
  BY <1>1, <1>5, <1>6, <1>7, <1>n
<1>16. \A i \in N : next[i] # start
  BY <1>1, <1>5, <1>6, <1>7 DEF n
<1>17. \A i, j \in N : next[i] = next[j] /\ next[i] # NULL => i = j
  BY <1>1, <1>2, <1>6, <1>7
<1>18. IsQueueOf(l.container, next, Item, N)
  BY <1>8, <1>14, <1>15, <1>16, <1>17 DEF IsQueueOf, start, end
<1>19. PrevAccurate(l.container, l.field, N, to)
  <2>1. IF prev[to] = NULL THEN start = to ELSE prev[to] \in N /\ next[prev[to]] = to
    BY <1>1, <1>5, <1>6, <1>7
  <2> QED
    BY <2>1 DEF PrevAccurate, start, next, prev
<1>20. ASSUME NEW i \in M \ {from}, PrevAccurate(c, f, M, i)
       PROVE  PrevAccurate(l.container, l.field, N, i)
  <2>0. /\ f.prev[i] = NULL => c.start = i
        /\ f.prev[i] # NULL => f.prev[i] \in M /\ f.next[f.prev[i]] = i
    BY <1>20 DEF PrevAccurate
  <2>1. IF prev[i] = NULL THEN start = i ELSE prev[i] \in N /\ next[prev[i]] = i
    <3>1. CASE i = n
      BY <1>1, <1>6, <1>7, <1>8, <3>1
    <3>2. CASE i # n
      <4>1. prev[i] = f.prev[i] /\ i \in Item /\ i # to
        BY <1>1, <1>7, <3>2
      <4>2. f.prev[i] # NULL => f.prev[i] # from /\ f.prev[i] # to /\ f.prev[i] # p
        BY <1>1, <2>0, <3>2 DEF n
      <4> QED
        BY <1>1, <1>5, <1>7, <2>0, <4>1, <4>2
    <3> QED
      BY <3>1, <3>2
  <2> QED
    BY <2>1 DEF PrevAccurate, start, next, prev
<1>21. l.container \in Container(Item) /\ l.field \in LinkField(Item)
  BY <1>5, <1>7, <1>8 DEF Container, LinkField
<1>22. \A i \in Item \ (M \cup {to}) : next[i] = f.next[i]
  BY <1>1, <1>7
<1> QED
  BY <1>18, <1>19, <1>20, <1>21, <1>22 DEF l, g, N, next

(* One of an endpoint's queues, A[e], becomes c with the items N, and only *)
(* the links of threads that were or are in it change.                     *)
OneQueue(A, B, f, on, E, e, c, g, N, o) ==
  /\ [A EXCEPT ![e] = c] \in [Endpoint -> Container(Thread)]
  /\ \A d \in E :
       /\ TwoQueues([A EXCEPT ![e] = c], B, g, o, d)
       /\ Waiting([A EXCEPT ![e] = c], g, d) = IF d = e THEN N ELSE Waiting(A, f, d)
       /\ Waiting(B, g, d) = Waiting(B, f, d)

(* The other queues are what they were.                                    *)
LEMMA QueueReplaced ==
  ASSUME NEW A \in [Endpoint -> Container(Thread)], NEW B \in [Endpoint -> Container(Thread)],
         NEW f \in LinkField(Thread), NEW on \in [Thread -> Endpoint \cup {NULL}],
         NEW E \in SUBSET Endpoint, \A d \in E : TwoQueues(A, B, f, on, d),
         NEW e \in E, Waiting(B, f, e) = {},
         NEW c \in Container(Thread), NEW g \in LinkField(Thread),
         NEW N, IsQueueOf(c, g.next, Thread, N),
         NEW o \in [Thread -> Endpoint \cup {NULL}], N = {u \in Thread : o[u] = e},
         \A d \in E : d # e => {u \in Thread : o[u] = d} = {u \in Thread : on[u] = d},
         \A u \in Thread \ (Waiting(A, f, e) \cup N) : g.next[u] = f.next[u]
  PROVE  OneQueue(A, B, f, on, E, e, c, g, N, o)
<1> DEFINE a == [A EXCEPT ![e] = c]
           M == Waiting(A, f, e)
<1>1. /\ e \in Endpoint /\ NULL \notin Thread
      /\ f.next \in [Thread -> Thread \cup {NULL}]
      /\ g.next \in [Thread -> Thread \cup {NULL}]
      /\ M = {u \in Thread : on[u] = e}
  BY ThreadAssumption DEF LinkField, TwoQueues
<1>2. /\ a \in [Endpoint -> Container(Thread)] /\ a[e] = c
      /\ \A d \in Endpoint : d # e => a[d] = A[d]
  BY <1>1
<1> HIDE DEF a, M
<1>3. ASSUME NEW d \in E, NEW C \in Container(Thread), NEW S,
             IsQueueOf(C, f.next, Thread, S), S \subseteq Thread,
             S = {} \/ (d # e /\ S \subseteq {u \in Thread : on[u] = d})
      PROVE  IsQueueOf(C, g.next, Thread, S) /\ S = Members(Thread, C.start, g.next)
  <2>1. \A u \in S : u \notin M /\ u \notin N
    BY <1>1, <1>3
  <2>2. \A u \in S : g.next[u] = f.next[u]
    BY <1>3, <2>1 DEF M
  <2>3. IsQueueOf(C, g.next, Thread, S)
    BY <1>1, <1>3, <2>2, QueueFrame
  <2> QED
    BY <2>3 DEF IsQueueOf
<1>4. ASSUME NEW d \in E
      PROVE  IsQueueOf(B[d], g.next, Thread, Waiting(B, f, d)) /\ Waiting(B, g, d) = Waiting(B, f, d)
  <2>1. /\ IsQueueOf(B[d], f.next, Thread, Waiting(B, f, d)) /\ B[d] \in Container(Thread)
        /\ Waiting(B, f, d) \subseteq {u \in Thread : on[u] = d}
    BY DEF TwoQueues
  <2>2. Waiting(B, f, d) = {} \/ (d # e /\ Waiting(B, f, d) \subseteq {u \in Thread : on[u] = d})
    BY <2>1
  <2>3. Waiting(B, f, d) \subseteq Thread
    BY <2>1
  <2>4. /\ IsQueueOf(B[d], g.next, Thread, Waiting(B, f, d))
        /\ Waiting(B, f, d) = Members(Thread, B[d].start, g.next)
    BY <1>3, <2>1, <2>2, <2>3
  <2> QED
    BY <2>4 DEF Waiting
<1>5. ASSUME NEW d \in E, d # e
      PROVE  IsQueueOf(A[d], g.next, Thread, Waiting(A, f, d)) /\ Waiting(a, g, d) = Waiting(A, f, d)
  <2>1. /\ IsQueueOf(A[d], f.next, Thread, Waiting(A, f, d)) /\ A[d] \in Container(Thread)
        /\ Waiting(A, f, d) \subseteq {u \in Thread : on[u] = d}
    BY DEF TwoQueues
  <2>3. Waiting(A, f, d) \subseteq Thread
    BY <2>1
  <2>4. /\ IsQueueOf(A[d], g.next, Thread, Waiting(A, f, d))
        /\ Waiting(A, f, d) = Members(Thread, A[d].start, g.next)
    BY <1>3, <1>5, <2>1, <2>3
  <2> QED
    BY <1>2, <1>5, <2>4 DEF Waiting
<1>6. Waiting(a, g, e) = N
  BY <1>2 DEF Waiting, IsQueueOf
<1>7. ASSUME NEW d \in E
      PROVE  /\ TwoQueues(a, B, g, o, d)
             /\ Waiting(a, g, d) = IF d = e THEN N ELSE Waiting(A, f, d)
             /\ Waiting(B, g, d) = Waiting(B, f, d)
  <2>1. CASE d = e
    BY <1>2, <1>4, <1>6, <2>1 DEF TwoQueues
  <2>2. CASE d # e
    <3>1. a[d] = A[d]
      BY <1>2, <2>2
    <3>2. /\ Waiting(A, f, d) \cup Waiting(B, f, d) = {u \in Thread : on[u] = d}
          /\ Waiting(A, f, d) = {} \/ Waiting(B, f, d) = {}
      BY DEF TwoQueues
    <3> QED
      BY <1>4, <1>5, <2>2, <3>1, <3>2 DEF TwoQueues
  <2> QED
    BY <2>1, <2>2
<1> QED
  BY <1>2, <1>7 DEF OneQueue, a

(* The same for an endpoint of a kernel state, of whose queues the one     *)
(* that flag names changes.                                                *)
Rewired(m, n, flag, e, c, g, N, o) ==
  /\ n.endpoints = m.endpoints /\ n.blocked_queue = g /\ n.blocked_on = o
  /\ IF flag = "SEND"
     THEN /\ n.blocked_sending = [m.blocked_sending EXCEPT ![e] = c]
          /\ n.blocked_receiving = m.blocked_receiving
          /\ \A u \in N : n.message_buffer[u] \in SendMessages /\ n.sending_badge[u] \in Badge
     ELSE /\ n.blocked_receiving = [m.blocked_receiving EXCEPT ![e] = c]
          /\ n.blocked_sending = m.blocked_sending
  /\ \A u \in Thread \ (Waiting(Queues(m, flag), m.blocked_queue, e) \cup N) :
       /\ n.message_buffer[u] = m.message_buffer[u]
       /\ n.sending_badge[u] = m.sending_badge[u]

(* QueuesInv after such a change.                                          *)
LEMMA QueuesRewired ==
  ASSUME NEW m \in KernelState, NEW n, QueuesInv(m),
         NEW flag \in {"SEND", "RECEIVE"}, NEW e \in m.endpoints,
         Waiting(Queues(m, Opposite(flag)), m.blocked_queue, e) = {},
         NEW c \in Container(Thread), NEW g \in LinkField(Thread),
         NEW N, IsQueueOf(c, g.next, Thread, N),
         NEW o \in [Thread -> Endpoint \cup {NULL}], N = {u \in Thread : o[u] = e},
         \A d \in m.endpoints : d # e =>
           {u \in Thread : o[u] = d} = {u \in Thread : m.blocked_on[u] = d},
         \A u \in Thread \ (Waiting(Queues(m, flag), m.blocked_queue, e) \cup N) :
           g.next[u] = m.blocked_queue.next[u],
         Rewired(m, n, flag, e, c, g, N, o)
  PROVE  QueuesInv(n)
<1> DEFINE A == Queues(m, flag)
           B == Queues(m, Opposite(flag))
           f == m.blocked_queue
           a == [A EXCEPT ![e] = c]
           M == Waiting(A, f, e)
<1>1. /\ A \in [Endpoint -> Container(Thread)] /\ B \in [Endpoint -> Container(Thread)]
      /\ f \in LinkField(Thread) /\ m.blocked_on \in [Thread -> Endpoint \cup {NULL}]
      /\ m.endpoints \in SUBSET Endpoint
  BY DEF KernelState, Queues, Opposite
<1>2. \A d \in m.endpoints : TwoQueues(A, B, f, m.blocked_on, d)
  <2>1. \A d \in m.endpoints :
          TwoQueues(m.blocked_sending, m.blocked_receiving, f, m.blocked_on, d)
    BY DEF QueuesInv
  <2> QED
    BY <2>1 DEF TwoQueues, Queues, Opposite
<1> HIDE DEF A, B, f
<1>3. OneQueue(A, B, f, m.blocked_on, m.endpoints, e, c, g, N, o)
  BY <1>1, <1>2, QueueReplaced DEF A, B, f
<1>4. \A d \in m.endpoints :
        /\ TwoQueues(a, B, g, o, d)
        /\ Waiting(a, g, d) = IF d = e THEN N ELSE Waiting(A, f, d)
        /\ Waiting(B, g, d) = Waiting(B, f, d)
  BY <1>3 DEF OneQueue
<1>5. ASSUME NEW d \in m.endpoints, NEW u \in Waiting(m.blocked_sending, f, d),
             u \notin M, u \notin N
      PROVE  n.message_buffer[u] \in SendMessages /\ n.sending_badge[u] \in Badge
  <2>1. m.message_buffer[u] \in SendMessages /\ m.sending_badge[u] \in Badge
    BY <1>5 DEF QueuesInv, f
  <2>2. u \in Thread
    BY DEF Waiting, Members
  <2> QED
    BY <1>5, <2>1, <2>2 DEF Rewired, A, f
<1>6. ASSUME NEW d \in m.endpoints, d # e
      PROVE  \A u \in Waiting(m.blocked_sending, f, d) : u \notin M /\ u \notin N
  <2>1. Waiting(m.blocked_sending, f, d) \subseteq {u \in Thread : m.blocked_on[u] = d}
    BY DEF QueuesInv, TwoQueues, f
  <2>2. M \subseteq {u \in Thread : m.blocked_on[u] = e}
    BY <1>2 DEF TwoQueues
  <2> QED
    BY <1>6, <2>1, <2>2
<1> HIDE DEF a, M
<1>7. CASE flag = "SEND"
  <2>1. /\ n.blocked_sending = a /\ n.blocked_receiving = B /\ n.blocked_queue = g
        /\ n.blocked_on = o /\ n.endpoints = m.endpoints /\ m.blocked_sending = A
    BY <1>7 DEF Rewired, Queues, Opposite, A, B, a
  <2>2. ASSUME NEW d \in m.endpoints, NEW u \in Waiting(a, g, d)
        PROVE  n.message_buffer[u] \in SendMessages /\ n.sending_badge[u] \in Badge
    <3>1. CASE d = e
      BY <1>4, <1>7, <2>2, <3>1 DEF Rewired
    <3>2. CASE d # e
      BY <1>4, <1>5, <1>6, <2>1, <2>2, <3>2
    <3> QED
      BY <3>1, <3>2
  <2> QED
    BY <1>4, <2>1, <2>2 DEF QueuesInv
<1>8. CASE flag = "RECEIVE"
  <2>1. /\ n.blocked_receiving = a /\ n.blocked_sending = B /\ n.blocked_queue = g
        /\ n.blocked_on = o /\ n.endpoints = m.endpoints /\ m.blocked_sending = B
    BY <1>8 DEF Rewired, Queues, Opposite, A, B, a
  <2>2. ASSUME NEW d \in m.endpoints, NEW u \in Waiting(B, g, d)
        PROVE  n.message_buffer[u] \in SendMessages /\ n.sending_badge[u] \in Badge
    <3>1. Waiting(B, g, d) = Waiting(B, f, d)
      BY <1>4
    <3>2. CASE d = e
      BY <2>2, <3>1, <3>2 DEF B, f
    <3>3. CASE d # e
      BY <1>5, <1>6, <2>1, <2>2, <3>1, <3>3
    <3> QED
      BY <3>2, <3>3
  <2>3. \A d \in m.endpoints : TwoQueues(B, a, g, o, d)
    BY <1>4 DEF TwoQueues
  <2> QED
    BY <2>1, <2>2, <2>3 DEF QueuesInv
<1> QED
  BY <1>7, <1>8

(* A thread other than the running one leaves the run queue, if it is on   *)
(* it, and may run no more.                                                *)
LEMMA RunnerLeaves ==
  ASSUME NEW m \in KernelState, NEW n \in KernelState, RunInv(m),
         NEW t \in Thread, t # m.current_thread, n.current_thread = m.current_thread,
         m.runqueue[t] =>
           /\ PrevKnown(m, t)
           /\ n.priority_queue = LIST_REMOVE(m.priority_queue, m.runqueue_entry, t).container
           /\ n.runqueue_entry = LIST_REMOVE(m.priority_queue, m.runqueue_entry, t).field,
         ~m.runqueue[t] => /\ n.priority_queue = m.priority_queue
                           /\ n.runqueue_entry = m.runqueue_entry,
         ~n.runqueue[t], n.exec_mode[t] = {SUSPENDED},
         \A u \in Thread : u # t => /\ n.runqueue[u] <=> m.runqueue[u]
                                    /\ n.exec_mode[u] = m.exec_mode[u]
  PROVE  RunInv(n)
<1> DEFINE c == m.priority_queue
           f == m.runqueue_entry
           l == LIST_REMOVE(c, f, t)
<1>1. c \in Container(Thread) /\ f \in LinkField(Thread) /\ NULL \notin Thread
  BY ThreadAssumption DEF KernelState
<1>2. IsQueueOf(c, f.next, Thread, Queued(m))
  BY DEF RunInv, RunQueueIs
<1>3. Queued(n) = Queued(m) \ {t}
  BY DEF Queued
<1>4. \A u \in Thread : n.runqueue[u] => n.exec_mode[u] = RUNNING
  BY DEF RunInv
<1>5. \A u \in Thread : n.exec_mode[u] = RUNNING => n.runqueue[u] \/ u = n.current_thread
  BY DEF RunInv, RUNNING
<1>6. CASE m.runqueue[t]
  <2>1. t \in Queued(m) /\ PrevAccurate(c, f, Queued(m), t)
    BY <1>6 DEF Queued, PrevKnown
  <2>2. n.priority_queue = l.container /\ n.runqueue_entry = l.field
    BY <1>6
  <2>3. IsQueueOf(l.container, l.field.next, Thread, Queued(m) \ {t})
    BY <1>1, <1>2, <2>1, RemoveQueue
  <2>4. \A u \in Queued(m) \ {t} : PrevAccurate(c, f, Queued(m), u)
          => PrevAccurate(l.container, l.field, Queued(m) \ {t}, u)
    BY <1>1, <1>2, <2>1, RemoveOther
  <2> HIDE DEF l
  <2>5. ASSUME n.current_thread # NULL, n.runqueue[n.current_thread]
        PROVE  PrevKnown(n, n.current_thread)
    <3>1. n.current_thread \in Queued(m) \ {t}
      BY <2>5 DEF Queued, KernelState
    <3>2. PrevAccurate(c, f, Queued(m), n.current_thread)
      BY <2>5, <3>1 DEF RunInv, PrevKnown, Queued
    <3> QED
      BY <1>3, <2>2, <2>4, <3>1, <3>2 DEF PrevKnown
  <2> QED
    BY <1>3, <1>4, <1>5, <2>2, <2>3, <2>5 DEF RunInv, RunQueueIs
<1>7. CASE ~m.runqueue[t]
  <2>1. Queued(n) = Queued(m) /\ n.priority_queue = c /\ n.runqueue_entry = f
    BY <1>3, <1>7 DEF Queued
  <2>2. ASSUME n.current_thread # NULL, n.runqueue[n.current_thread]
        PROVE  PrevKnown(n, n.current_thread)
    <3>1. n.current_thread \in Thread
      BY <2>2 DEF KernelState
    <3> QED
      BY <2>1, <2>2, <3>1 DEF RunInv, PrevKnown
  <2> QED
    BY <1>2, <1>4, <1>5, <2>1, <2>2 DEF RunInv, RunQueueIs
<1> QED
  BY <1>6, <1>7

(* What WaiterKnown says, of the queue that a thread's flags name.         *)
KnownIn(m, t, flag) ==
  LET e == m.blocked_on[t]
      M == Waiting(Queues(m, flag), m.blocked_queue, e)
  IN  t \in M /\ PrevAccurate(Queues(m, flag)[e], m.blocked_queue, M, t)

(* Its other queue is empty then, and it is in no queue of another one.    *)
LEMMA KnownWaiter ==
  ASSUME NEW m \in KernelState, QueuesInv(m), ModesInv(m), NEW t \in Thread,
         m.blocked_on[t] # NULL, NEW flag \in {"SEND", "RECEIVE"}, KnownIn(m, t, flag)
  PROVE  LET e == m.blocked_on[t]
             M == Waiting(Queues(m, flag), m.blocked_queue, e)
         IN  /\ e \in m.endpoints /\ e \in Endpoint
             /\ Waiting(Queues(m, Opposite(flag)), m.blocked_queue, e) = {}
             /\ M = {u \in Thread : m.blocked_on[u] = e}
             /\ Queues(m, flag)[e] \in Container(Thread)
             /\ IsQueueOf(Queues(m, flag)[e], m.blocked_queue.next, Thread, M)
             /\ PrevAccurate(Queues(m, flag)[e], m.blocked_queue, M, t)
<1> DEFINE e == m.blocked_on[t]
           f == m.blocked_queue
<1>1. e \in m.endpoints /\ e \in Endpoint
  BY DEF ModesInv, KernelState
<1>2. TwoQueues(m.blocked_sending, m.blocked_receiving, f, m.blocked_on, e)
  BY <1>1 DEF QueuesInv
<1>3. t \in Waiting(Queues(m, flag), f, e)
  BY DEF KnownIn
<1>4. Queues(m, flag)[e] \in Container(Thread)
  BY <1>1 DEF Queues, KernelState
<1> HIDE DEF e
<1>5. /\ Waiting(Queues(m, Opposite(flag)), f, e) = {}
      /\ Waiting(Queues(m, flag), f, e) = {u \in Thread : m.blocked_on[u] = e}
      /\ IsQueueOf(Queues(m, flag)[e], f.next, Thread, Waiting(Queues(m, flag), f, e))
  <2>1. CASE flag = "SEND"
    BY <1>2, <1>3, <2>1 DEF TwoQueues, Queues, Opposite
  <2>2. CASE flag = "RECEIVE"
    BY <1>2, <1>3, <2>2 DEF TwoQueues, Queues, Opposite
  <2> QED
    BY <2>1, <2>2
<1> QED
  BY <1>1, <1>4, <1>5 DEF KnownIn, e

(* A thread leaves the queue in which it waits.                            *)
LEMMA WaiterLeaves ==
  ASSUME NEW m \in KernelState, NEW n, QueuesInv(m), ModesInv(m), NEW t \in Thread,
         m.blocked_on[t] # NULL, NEW flag \in {"SEND", "RECEIVE"}, KnownIn(m, t, flag),
         NEW l, l = LIST_REMOVE(Queues(m, flag)[m.blocked_on[t]], m.blocked_queue, t),
         n.endpoints = m.endpoints, n.message_buffer = m.message_buffer,
         n.sending_badge = m.sending_badge, n.blocked_queue = l.field,
         n.blocked_on = [m.blocked_on EXCEPT ![t] = NULL],
         IF flag = "SEND"
         THEN /\ n.blocked_sending = [m.blocked_sending EXCEPT ![m.blocked_on[t]] = l.container]
              /\ n.blocked_receiving = m.blocked_receiving
         ELSE /\ n.blocked_receiving = [m.blocked_receiving EXCEPT ![m.blocked_on[t]] = l.container]
              /\ n.blocked_sending = m.blocked_sending
  PROVE  QueuesInv(n)
<1> DEFINE e == m.blocked_on[t]
           M == Waiting(Queues(m, flag), m.blocked_queue, e)
           C == Queues(m, flag)[e]
           N == M \ {t}
           o == [m.blocked_on EXCEPT ![t] = NULL]
           g == l.field
           c == l.container
<1>1. /\ e \in m.endpoints /\ e \in Endpoint
      /\ Waiting(Queues(m, Opposite(flag)), m.blocked_queue, e) = {}
      /\ M = {u \in Thread : m.blocked_on[u] = e}
      /\ C \in Container(Thread)
      /\ IsQueueOf(C, m.blocked_queue.next, Thread, M)
      /\ PrevAccurate(C, m.blocked_queue, M, t)
  BY KnownWaiter
<1>2. /\ m.blocked_queue \in LinkField(Thread) /\ NULL \notin Thread /\ NULL \notin Endpoint
      /\ m.blocked_on \in [Thread -> Endpoint \cup {NULL}] /\ t \in M
  BY <1>1, ThreadAssumption, IpcAssumption DEF KernelState
<1>3. /\ c \in Container(Thread) /\ g \in LinkField(Thread)
      /\ IsQueueOf(c, g.next, Thread, N)
  BY <1>1, <1>2, RemoveQueue
<1>4. \A u \in Thread \ M : g.next[u] = m.blocked_queue.next[u]
  <2> DEFINE f == m.blocked_queue
             r == LIST_REMOVE(C, f, t)
  <2>1. l = r /\ f \in LinkField(Thread)
    BY <1>2
  <2>2. /\ C \in Container(Thread) /\ IsQueueOf(C, f.next, Thread, M)
        /\ t \in M /\ PrevAccurate(C, f, M, t)
    BY <1>1, <1>2
  <2> HIDE DEF C, M, f
  <2>3. \A u \in Thread \ M : r.field.next[u] = f.next[u]
    BY <2>1, <2>2 DEF LIST_REMOVE, PrevAccurate, LinkField
  <2> HIDE DEF r
  <2> QED
    BY <2>1, <2>3 DEF f
<1>5. /\ o \in [Thread -> Endpoint \cup {NULL}]
      /\ \A u \in Thread : o[u] = IF u = t THEN NULL ELSE m.blocked_on[u]
  BY <1>2
<1>s. n.blocked_queue = g /\ n.blocked_on = o
  OBVIOUS
<1>w. IF flag = "SEND"
      THEN /\ n.blocked_sending = [m.blocked_sending EXCEPT ![e] = c]
           /\ n.blocked_receiving = m.blocked_receiving
      ELSE /\ n.blocked_receiving = [m.blocked_receiving EXCEPT ![e] = c]
           /\ n.blocked_sending = m.blocked_sending
  OBVIOUS
<1>e. m.blocked_on[t] = e
  OBVIOUS
<1> HIDE DEF e, C, o, g, c
<1>6. N = {u \in Thread : o[u] = e}
  BY <1>1, <1>2, <1>5
<1>7. \A d \in m.endpoints : d # e =>
        {u \in Thread : o[u] = d} = {u \in Thread : m.blocked_on[u] = d}
  <2>1. m.endpoints \subseteq Endpoint
    BY DEF KernelState
  <2> QED
    BY <1>2, <1>5, <1>e, <2>1
<1>8. ASSUME flag = "SEND", NEW u \in N
      PROVE  n.message_buffer[u] \in SendMessages /\ n.sending_badge[u] \in Badge
  BY <1>1, <1>8 DEF QueuesInv, Queues
<1> HIDE DEF M, N
<1>9. Rewired(m, n, flag, e, c, g, N, o)
  BY <1>s, <1>w, <1>8 DEF Rewired
<1>10. \A u \in Thread \ (Waiting(Queues(m, flag), m.blocked_queue, e) \cup N) :
         g.next[u] = m.blocked_queue.next[u]
  BY <1>4 DEF M
<1> QED
  BY <1>1, <1>3, <1>5, <1>6, <1>7, <1>9, <1>10, QueuesRewired

(* The fields of the kernel state that are kept in the thread struct.      *)
PutThread(k, mode, queued, entry, running, regs, waiting, on, flags, badge, buffer, caps) ==
  [k EXCEPT !.exec_mode = mode, !.runqueue = queued, !.runqueue_entry = entry,
            !.currently_running = running, !.saved = regs, !.blocked_queue = waiting,
            !.blocked_on = on, !.blocked_flags = flags, !.sending_badge = badge,
            !.message_buffer = buffer, !.slots = caps]

(* alloc_thread: whether or not the memory is then used for a thread.      *)
LEMMA LiveClear ==
  ASSUME NEW k, NEW A, LiveEntered(k, A), NEW t \in Thread, t \notin A,
         NEW B, B = A \/ B = A \cup {t}
  PROVE  LiveHandled(cleared_thread(k, t), B)
<1> DEFINE m == Live(k, A)
           q == cleared_thread(k, t)
           n == Live(q, B)
<1>0. /\ A \in SUBSET Thread /\ B \in SUBSET Thread /\ k \in KernelState
      /\ Entered(m) /\ Handled(m) /\ SameButMixed(k, m)
      /\ k.current_thread \in A /\ m.current_thread \in A
  BY LiveEnteredFacts
<1>1. /\ m \in KernelState
      /\ m.exec_mode = [u \in Thread |-> IF u \in A THEN k.exec_mode[u] ELSE {SUSPENDED}]
      /\ m.currently_running = [u \in Thread |-> u \in A /\ k.currently_running[u]]
      /\ m.saved = [u \in Thread |-> u \in A => k.saved[u]]
      /\ m.runqueue = [u \in Thread |-> u \in A /\ k.runqueue[u]]
      /\ m.blocked_on = [u \in Thread |-> IF u \in A THEN k.blocked_on[u] ELSE NULL]
  BY <1>0, LiveFields
<1>2. /\ ~m.runqueue[t] /\ m.blocked_on[t] = NULL /\ t # k.current_thread
      /\ m.exec_mode[t] = {SUSPENDED}
      /\ m.saved[t] /\ ~m.currently_running[t]
  BY DeadQuiet
<1>3. /\ k.runqueue_entry.next \in [Thread -> Thread \cup {NULL}]
      /\ k.runqueue_entry.prev \in [Thread -> Thread \cup {NULL}]
      /\ k.blocked_queue.next \in [Thread -> Thread \cup {NULL}]
      /\ k.blocked_queue.prev \in [Thread -> Thread \cup {NULL}]
      /\ k.exec_mode \in [Thread -> ExecMode] /\ k.runqueue \in [Thread -> BOOLEAN]
      /\ k.currently_running \in [Thread -> BOOLEAN] /\ k.saved \in [Thread -> BOOLEAN]
      /\ k.blocked_on \in [Thread -> Endpoint \cup {NULL}]
      /\ k.blocked_flags \in [Thread -> SUBSET {"SEND", "RECEIVE"}]
      /\ k.sending_badge \in [Thread -> Badge \cup {NULL}]
      /\ k.message_buffer \in [Thread -> SendMessages \cup RecvMessages \cup {NULL}]
      /\ k.slots \in [Thread -> [Slot -> Capability \cup {NULL}]]
  BY <1>0 DEF KernelState, LinkField
<1> DEFINE mode == [k.exec_mode EXCEPT ![t] = {SUSPENDED}]
           queued == [k.runqueue EXCEPT ![t] = FALSE]
           entry == [prev |-> [k.runqueue_entry.prev EXCEPT ![t] = NULL],
                     next |-> [k.runqueue_entry.next EXCEPT ![t] = NULL]]
           running == [k.currently_running EXCEPT ![t] = FALSE]
           regs == [k.saved EXCEPT ![t] = TRUE]
           waiting == [prev |-> [k.blocked_queue.prev EXCEPT ![t] = NULL],
                       next |-> [k.blocked_queue.next EXCEPT ![t] = NULL]]
           on == [k.blocked_on EXCEPT ![t] = NULL]
           flags == [k.blocked_flags EXCEPT ![t] = {}]
           badge == [k.sending_badge EXCEPT ![t] = NULL]
           buffer == [k.message_buffer EXCEPT ![t] = NULL]
           caps == [k.slots EXCEPT ![t] = [s \in Slot |-> NULL]]
<1>4. q = PutThread(k, mode, queued, entry, running, regs, waiting, on, flags, badge, buffer, caps)
  BY DEF cleared_thread, PutThread
<1>t. /\ mode \in [Thread -> ExecMode] /\ queued \in [Thread -> BOOLEAN]
      /\ entry \in LinkField(Thread) /\ waiting \in LinkField(Thread)
      /\ running \in [Thread -> BOOLEAN] /\ regs \in [Thread -> BOOLEAN]
      /\ on \in [Thread -> Endpoint \cup {NULL}]
      /\ flags \in [Thread -> SUBSET {"SEND", "RECEIVE"}]
      /\ badge \in [Thread -> Badge \cup {NULL}]
      /\ buffer \in [Thread -> SendMessages \cup RecvMessages \cup {NULL}]
      /\ caps \in [Thread -> [Slot -> Capability \cup {NULL}]]
  BY <1>3 DEF LinkField, ExecMode
<1> HIDE DEF q, mode, queued, entry, running, regs, waiting, on, flags, badge, buffer, caps
<1>5. /\ q \in KernelState
      /\ q.exec_mode = mode /\ q.runqueue = queued /\ q.runqueue_entry = entry
      /\ q.currently_running = running /\ q.saved = regs /\ q.blocked_queue = waiting
      /\ q.blocked_on = on /\ q.sending_badge = badge /\ q.message_buffer = buffer
      /\ q.priority_queue = k.priority_queue /\ q.current_thread = k.current_thread
      /\ q.pending_context_switch = k.pending_context_switch /\ q.cpu = k.cpu
      /\ q.endpoints = k.endpoints /\ q.blocked_sending = k.blocked_sending
      /\ q.blocked_receiving = k.blocked_receiving
  <2>1. k \in KernelState
    BY <1>0
  <2>2. q \in KernelState
    BY <1>4, <1>t, <2>1 DEF KernelState, PutThread
  <2>3. /\ q.exec_mode = mode /\ q.runqueue = queued /\ q.runqueue_entry = entry
        /\ q.currently_running = running /\ q.saved = regs /\ q.blocked_queue = waiting
        /\ q.blocked_on = on /\ q.sending_badge = badge /\ q.message_buffer = buffer
    BY <1>4, <2>1 DEF KernelState, PutThread
  <2>4. /\ q.priority_queue = k.priority_queue /\ q.current_thread = k.current_thread
        /\ q.pending_context_switch = k.pending_context_switch /\ q.cpu = k.cpu
        /\ q.endpoints = k.endpoints /\ q.blocked_sending = k.blocked_sending
        /\ q.blocked_receiving = k.blocked_receiving
    BY <1>4, <2>1 DEF KernelState, PutThread
  <2> QED
    BY <2>2, <2>3, <2>4
<1>u. ASSUME NEW u \in Thread, u # t
      PROVE  /\ mode[u] = k.exec_mode[u] /\ queued[u] = k.runqueue[u]
             /\ entry.next[u] = k.runqueue_entry.next[u] /\ entry.prev[u] = k.runqueue_entry.prev[u]
             /\ running[u] = k.currently_running[u] /\ regs[u] = k.saved[u]
             /\ waiting.next[u] = k.blocked_queue.next[u] /\ on[u] = k.blocked_on[u]
             /\ badge[u] = k.sending_badge[u] /\ buffer[u] = k.message_buffer[u]
  BY <1>3, <1>u DEF mode, queued, entry, running, regs, waiting, on, badge, buffer
<1>v. mode[t] = {SUSPENDED} /\ ~queued[t] /\ ~running[t] /\ regs[t] /\ on[t] = NULL
  BY <1>3 DEF mode, queued, running, regs, on
<1> HIDE DEF m
<1>6. /\ n \in KernelState /\ SameButMixed(q, n)
      /\ n.exec_mode = [u \in Thread |-> IF u \in B THEN q.exec_mode[u] ELSE {SUSPENDED}]
      /\ n.currently_running = [u \in Thread |-> u \in B /\ q.currently_running[u]]
      /\ n.saved = [u \in Thread |-> u \in B => q.saved[u]]
      /\ n.runqueue = [u \in Thread |-> u \in B /\ q.runqueue[u]]
      /\ n.blocked_on = [u \in Thread |-> IF u \in B THEN q.blocked_on[u] ELSE NULL]
  BY <1>0, <1>5, LiveFields
<1> HIDE DEF n
<1>7. ASSUME NEW u \in Thread
      PROVE  /\ n.exec_mode[u] = m.exec_mode[u]
             /\ n.currently_running[u] <=> m.currently_running[u]
             /\ n.saved[u] <=> m.saved[u]
             /\ n.runqueue[u] <=> m.runqueue[u]
             /\ n.blocked_on[u] = m.blocked_on[u]
  <2>1. CASE u = t
    <3>1. n.exec_mode[t] = {SUSPENDED}
      BY <1>5, <1>6, <1>v
    <3>2. ~n.currently_running[t] /\ n.saved[t]
      BY <1>5, <1>6, <1>v
    <3>3. ~n.runqueue[t] /\ n.blocked_on[t] = NULL
      BY <1>5, <1>6, <1>v
    <3> QED
      BY <1>2, <2>1, <3>1, <3>2, <3>3
  <2>2. CASE u # t
    <3>1. u \in B <=> u \in A
      BY <2>2
    <3>2. n.exec_mode[u] = m.exec_mode[u] /\ n.blocked_on[u] = m.blocked_on[u]
      BY <1>1, <1>5, <1>6, <1>u, <2>2, <3>1
    <3>3. /\ n.currently_running[u] <=> m.currently_running[u]
          /\ n.saved[u] <=> m.saved[u]
          /\ n.runqueue[u] <=> m.runqueue[u]
      BY <1>1, <1>5, <1>6, <1>u, <2>2, <3>1
    <3> QED
      BY <3>2, <3>3
  <2> QED
    BY <2>1, <2>2
<1>8. n.blocked_on = m.blocked_on
  BY <1>1, <1>6, <1>7 DEF KernelState
<1>9. /\ n.priority_queue = m.priority_queue /\ n.current_thread = m.current_thread
      /\ n.pending_context_switch = m.pending_context_switch /\ n.cpu = m.cpu
      /\ n.endpoints = m.endpoints /\ n.blocked_sending = m.blocked_sending
      /\ n.blocked_receiving = m.blocked_receiving
  BY <1>0, <1>5, <1>6 DEF SameButMixed
<1>10. RunInv(n)
  <2>1. Queued(n) = Queued(m)
    BY <1>7 DEF Queued
  <2>2. ASSUME NEW u \in Queued(m)
        PROVE  /\ n.runqueue_entry.next[u] = m.runqueue_entry.next[u]
               /\ n.runqueue_entry.prev[u] = m.runqueue_entry.prev[u]
               /\ n.exec_mode[u] = m.exec_mode[u]
    <3>1. u \in Thread /\ u # t
      BY <1>2 DEF Queued
    <3>2. m.runqueue_entry = k.runqueue_entry /\ n.runqueue_entry = entry
      BY <1>0, <1>5, <1>6 DEF SameButMixed
    <3> QED
      BY <1>7, <1>u, <3>1, <3>2
  <2>3. \A u \in Thread : n.exec_mode[u] = RUNNING => n.runqueue[u] \/ u = n.current_thread
    BY <1>0, <1>7, <1>9 DEF Handled, RunInv
  <2>4. RunInv(m)
    BY <1>0 DEF Handled
  <2> QED
    BY <1>1, <1>6, <1>9, <2>1, <2>2, <2>3, <2>4, RunQueueKept
<1>11. QueuesInv(n)
  <2>1. ASSUME NEW u \in Thread, m.blocked_on[u] # NULL
        PROVE  /\ n.blocked_queue.next[u] = m.blocked_queue.next[u]
               /\ n.message_buffer[u] = m.message_buffer[u]
               /\ n.sending_badge[u] = m.sending_badge[u]
    <3>1. u # t
      BY <1>2, <2>1
    <3> QED
      BY <1>0, <1>5, <1>6, <1>u, <3>1 DEF SameButMixed
  <2>2. QueuesInv(m)
    BY <1>0 DEF Handled
  <2> QED
    BY <1>1, <1>6, <1>8, <1>9, <2>1, <2>2, WaitersKept
<1>12. CpuHeld(n) /\ ModesInv(n)
  <2>1. m.current_thread \in Thread
    BY <1>0
  <2>2. CpuHeld(n)
    BY <1>0, <1>7, <1>9, <2>1 DEF Handled, CpuHeld
  <2>3. ModesInv(n)
    BY <1>0, <1>7, <1>9 DEF Handled, ModesInv
  <2> QED
    BY <2>2, <2>3
<1>13. Handled(n)
  BY <1>6, <1>10, <1>11, <1>12 DEF Handled
<1> QED
  BY <1>0, <1>5, <1>13 DEF LiveHandled, n, q

(* What PlaceKnown says, of a kernel state.                                *)
KnownPlace(m, t) ==
  /\ m.runqueue[t] => PrevKnown(m, t)
  /\ m.blocked_on[t] # NULL =>
       IF "SEND" \in m.blocked_flags[t] THEN KnownIn(m, t, "SEND")
       ELSE "RECEIVE" \in m.blocked_flags[t] /\ KnownIn(m, t, "RECEIVE")

(* What a handler changes that takes a thread out of its queues or puts    *)
(* its new address into them.                                              *)
QueuesOnly(k, q) ==
  /\ q.exec_mode = k.exec_mode /\ q.runqueue = k.runqueue
  /\ q.currently_running = k.currently_running /\ q.saved = k.saved
  /\ q.blocked_on = k.blocked_on /\ q.pending_context_switch = k.pending_context_switch
  /\ q.endpoints = k.endpoints /\ q.message_buffer = k.message_buffer
  /\ q.sending_badge = k.sending_badge

(* The lists of which only the queue of the thread's is written.           *)
RunQueueSet(k, q, l) == q.priority_queue = l.container /\ q.runqueue_entry = l.field
RunQueueSame(k, q) == /\ q.priority_queue = k.priority_queue
                      /\ q.runqueue_entry = k.runqueue_entry
WaitersSame(k, q) == /\ q.blocked_sending = k.blocked_sending
                     /\ q.blocked_receiving = k.blocked_receiving
                     /\ q.blocked_queue = k.blocked_queue
WaitersSet(k, q, e, flag, l) ==
  /\ q.blocked_queue = l.field
  /\ IF flag = "SEND"
     THEN /\ q.blocked_sending = [k.blocked_sending EXCEPT ![e] = l.container]
          /\ q.blocked_receiving = k.blocked_receiving
     ELSE /\ q.blocked_receiving = [k.blocked_receiving EXCEPT ![e] = l.container]
          /\ q.blocked_sending = k.blocked_sending

(* A thread that waits is not on the run queue.                            *)
LEMMA OneQueueAtMost ==
  ASSUME NEW m, RunInv(m), ModesInv(m), NEW t \in Thread, m.runqueue[t]
  PROVE  m.blocked_on[t] = NULL
BY DEF RunInv, ModesInv, RUNNING, BLOCKED

(* thread_destructor's writes to the queues.                               *)
LEMMA UnlinkFields ==
  ASSUME NEW k \in KernelState, NEW t \in Thread,
         k.runqueue[t] => k.blocked_on[t] = NULL,
         k.runqueue[t] =>
           /\ LIST_REMOVE(k.priority_queue, k.runqueue_entry, t).container \in Container(Thread)
           /\ LIST_REMOVE(k.priority_queue, k.runqueue_entry, t).field \in LinkField(Thread),
         NEW flag, flag = IF "SEND" \in k.blocked_flags[t] THEN "SEND" ELSE "RECEIVE",
         NEW e, e = k.blocked_on[t], NEW l, l = LIST_REMOVE(Queues(k, flag)[e], k.blocked_queue, t),
         e # NULL => l.container \in Container(Thread) /\ l.field \in LinkField(Thread)
  PROVE  LET q == unlink_thread(k, t)
         IN  /\ q \in KernelState /\ QueuesOnly(k, q)
             /\ q.current_thread = k.current_thread /\ q.cpu = k.cpu
             /\ k.runqueue[t] =>
                  RunQueueSet(k, q, LIST_REMOVE(k.priority_queue, k.runqueue_entry, t))
             /\ ~k.runqueue[t] => RunQueueSame(k, q)
             /\ e = NULL => WaitersSame(k, q)
             /\ e # NULL => WaitersSet(k, q, e, flag, l)
<1> DEFINE q == unlink_thread(k, t)
           r == LIST_REMOVE(k.priority_queue, k.runqueue_entry, t)
<1>1. CASE k.runqueue[t]
  <2>1. q = [k EXCEPT !.priority_queue = r.container, !.runqueue_entry = r.field]
    BY <1>1 DEF unlink_thread
  <2>2. r.container \in Container(Thread) /\ r.field \in LinkField(Thread) /\ e = NULL
    BY <1>1
  <2> HIDE DEF r
  <2>3. q \in KernelState /\ q.priority_queue = r.container /\ q.runqueue_entry = r.field
    BY <2>1, <2>2 DEF KernelState
  <2>4. QueuesOnly(k, q) /\ WaitersSame(k, q)
        /\ q.current_thread = k.current_thread /\ q.cpu = k.cpu
    BY <2>1 DEF KernelState, QueuesOnly, WaitersSame
  <2> HIDE DEF q
  <2> QED
    BY <1>1, <2>2, <2>3, <2>4 DEF RunQueueSet, q, r
<1>2. CASE ~k.runqueue[t] /\ e = NULL
  <2>1. q = k
    BY <1>2 DEF unlink_thread
  <2> QED
    BY <1>2, <2>1 DEF QueuesOnly, RunQueueSame, WaitersSame
<1>3. CASE ~k.runqueue[t] /\ e # NULL
  <2>0. e \in Endpoint /\ l.container \in Container(Thread) /\ l.field \in LinkField(Thread)
    BY <1>3 DEF KernelState
  <2>1. CASE flag = "SEND"
    <3> DEFINE a == [k.blocked_sending EXCEPT ![e] = l.container]
    <3>1. q = [k EXCEPT !.blocked_sending = a, !.blocked_queue = l.field]
      BY <1>3, <2>1 DEF unlink_thread, Queues
    <3>2. a \in [Endpoint -> Container(Thread)]
      BY <2>0 DEF KernelState
    <3> HIDE DEF a
    <3>3. /\ q \in KernelState /\ q.blocked_sending = a /\ q.blocked_queue = l.field
          /\ q.blocked_receiving = k.blocked_receiving
      BY <2>0, <3>1, <3>2 DEF KernelState
    <3>4. QueuesOnly(k, q) /\ RunQueueSame(k, q)
          /\ q.current_thread = k.current_thread /\ q.cpu = k.cpu
      BY <3>1 DEF KernelState, QueuesOnly, RunQueueSame
    <3> HIDE DEF q
    <3> QED
      BY <1>3, <2>1, <3>3, <3>4 DEF WaitersSet, q, a
  <2>2. CASE flag = "RECEIVE"
    <3> DEFINE a == [k.blocked_receiving EXCEPT ![e] = l.container]
    <3>1. q = [k EXCEPT !.blocked_receiving = a, !.blocked_queue = l.field]
      BY <1>3, <2>2 DEF unlink_thread, Queues
    <3>2. a \in [Endpoint -> Container(Thread)]
      BY <2>0 DEF KernelState
    <3> HIDE DEF a
    <3>3. /\ q \in KernelState /\ q.blocked_receiving = a /\ q.blocked_queue = l.field
          /\ q.blocked_sending = k.blocked_sending
      BY <2>0, <3>1, <3>2 DEF KernelState
    <3>4. QueuesOnly(k, q) /\ RunQueueSame(k, q)
          /\ q.current_thread = k.current_thread /\ q.cpu = k.cpu
      BY <3>1 DEF KernelState, QueuesOnly, RunQueueSame
    <3> HIDE DEF q
    <3> QED
      BY <1>3, <2>2, <3>3, <3>4 DEF WaitersSet, q, a
  <2> QED
    BY <2>1, <2>2
<1> QED
  BY <1>1, <1>2, <1>3

(* thread_destructor, of a thread that does not run and knows its place.   *)
LEMMA LiveUnlink ==
  ASSUME NEW k, NEW A, LiveEntered(k, A), NEW t \in A, t # k.current_thread,
         KnownPlace(Live(k, A), t)
  PROVE  LiveHandled(unlink_thread(k, t), A \ {t})
<1> DEFINE m == Live(k, A)
           q == unlink_thread(k, t)
           B == A \ {t}
           n == Live(q, B)
           flag == IF "SEND" \in k.blocked_flags[t] THEN "SEND" ELSE "RECEIVE"
           e == k.blocked_on[t]
           l == LIST_REMOVE(Queues(k, flag)[e], k.blocked_queue, t)
           r == LIST_REMOVE(k.priority_queue, k.runqueue_entry, t)
<1>0. /\ A \in SUBSET Thread /\ k \in KernelState /\ Handled(m) /\ SameButMixed(k, m)
      /\ k.current_thread \in A /\ m.current_thread = k.current_thread
  BY LiveEnteredFacts
<1>1. /\ m \in KernelState
      /\ m.exec_mode = [u \in Thread |-> IF u \in A THEN k.exec_mode[u] ELSE {SUSPENDED}]
      /\ m.runqueue = [u \in Thread |-> u \in A /\ k.runqueue[u]]
      /\ m.currently_running = [u \in Thread |-> u \in A /\ k.currently_running[u]]
      /\ m.saved = [u \in Thread |-> u \in A => k.saved[u]]
      /\ m.blocked_on = [u \in Thread |-> IF u \in A THEN k.blocked_on[u] ELSE NULL]
  BY <1>0, LiveFields
<1>f. flag \in {"SEND", "RECEIVE"}
  OBVIOUS
<1>2. KnownPlace(m, t) /\ t \in Thread
  BY <1>0
<1> HIDE DEF m, B
<1>3. RunInv(m) /\ QueuesInv(m) /\ ModesInv(m) /\ CpuHeld(m)
  BY <1>0 DEF Handled
<1>4. (m.runqueue[t] <=> k.runqueue[t]) /\ m.blocked_on[t] = e
  BY <1>1, <1>2
<1>5. /\ m.priority_queue = k.priority_queue /\ m.runqueue_entry = k.runqueue_entry
      /\ m.blocked_queue = k.blocked_queue /\ m.blocked_flags = k.blocked_flags
      /\ m.blocked_sending = k.blocked_sending /\ m.blocked_receiving = k.blocked_receiving
      /\ Queues(m, flag) = Queues(k, flag)
  BY <1>0 DEF SameButMixed, Queues
<1>6. k.runqueue[t] => k.blocked_on[t] = NULL
  BY <1>2, <1>3, <1>4, OneQueueAtMost
<1>7. ASSUME k.runqueue[t]
      PROVE  r.container \in Container(Thread) /\ r.field \in LinkField(Thread)
  <2>1. /\ m.priority_queue \in Container(Thread) /\ m.runqueue_entry \in LinkField(Thread)
        /\ IsQueueOf(m.priority_queue, m.runqueue_entry.next, Thread, Queued(m))
        /\ t \in Queued(m) /\ NULL \notin Thread
        /\ PrevAccurate(m.priority_queue, m.runqueue_entry, Queued(m), t)
    BY <1>1, <1>2, <1>3, <1>4, <1>7, ThreadAssumption
    DEF KernelState, RunInv, RunQueueIs, Queued, KnownPlace, PrevKnown
  <2> QED
    BY <1>5, <2>1, RemoveQueue
<1>8. ASSUME e # NULL
      PROVE  /\ KnownIn(m, t, flag) /\ l.container \in Container(Thread)
             /\ l.field \in LinkField(Thread)
  <2>1. KnownIn(m, t, flag)
    BY <1>2, <1>4, <1>5, <1>8 DEF KnownPlace
  <2>2. m.blocked_on[t] # NULL
    BY <1>4, <1>8
  <2> HIDE DEF flag
  <2> DEFINE M == Waiting(Queues(m, flag), m.blocked_queue, m.blocked_on[t])
             C == Queues(m, flag)[m.blocked_on[t]]
  <2>3. /\ C \in Container(Thread) /\ IsQueueOf(C, m.blocked_queue.next, Thread, M)
        /\ PrevAccurate(C, m.blocked_queue, M, t)
    BY <1>1, <1>2, <1>3, <1>f, <2>1, <2>2, KnownWaiter
  <2>4. t \in M /\ m.blocked_queue \in LinkField(Thread) /\ NULL \notin Thread
    BY <1>1, <2>1, ThreadAssumption DEF KnownIn, KernelState
  <2>5. l = LIST_REMOVE(C, m.blocked_queue, t)
    BY <1>4, <1>5
  <2> HIDE DEF C, M, l
  <2>6. l.container \in Container(Thread) /\ l.field \in LinkField(Thread)
    BY <2>3, <2>4, <2>5, RemoveQueue
  <2> QED
    BY <2>1, <2>6
<1> HIDE DEF flag, e, l, r, q
<1>9. /\ q \in KernelState /\ QueuesOnly(k, q)
      /\ q.current_thread = k.current_thread /\ q.cpu = k.cpu
      /\ k.runqueue[t] => RunQueueSet(k, q, r)
      /\ ~k.runqueue[t] => RunQueueSame(k, q)
      /\ e = NULL => WaitersSame(k, q)
      /\ e # NULL => WaitersSet(k, q, e, flag, l)
  BY <1>0, <1>2, <1>6, <1>7, <1>8, UnlinkFields DEF q, r, l, e, flag
<1>10. B \in SUBSET Thread
  BY <1>0 DEF B
<1>11. /\ n \in KernelState /\ SameButMixed(q, n)
      /\ n.exec_mode = [u \in Thread |-> IF u \in B THEN q.exec_mode[u] ELSE {SUSPENDED}]
      /\ n.runqueue = [u \in Thread |-> u \in B /\ q.runqueue[u]]
      /\ n.currently_running = [u \in Thread |-> u \in B /\ q.currently_running[u]]
      /\ n.saved = [u \in Thread |-> u \in B => q.saved[u]]
      /\ n.blocked_on = [u \in Thread |-> IF u \in B THEN q.blocked_on[u] ELSE NULL]
  BY <1>9, <1>10, LiveFields
<1> HIDE DEF n
<1>12. /\ n.exec_mode[t] = {SUSPENDED} /\ ~n.runqueue[t] /\ ~n.currently_running[t]
       /\ n.saved[t] /\ n.blocked_on[t] = NULL
  <2>1. t \notin B
    BY DEF B
  <2>2. n.exec_mode[t] = {SUSPENDED} /\ n.blocked_on[t] = NULL
    BY <1>2, <1>11, <2>1
  <2>3. ~n.runqueue[t] /\ ~n.currently_running[t] /\ n.saved[t]
    BY <1>2, <1>11, <2>1
  <2> QED
    BY <2>2, <2>3
<1>13. ASSUME NEW u \in Thread, u # t
       PROVE  /\ n.exec_mode[u] = m.exec_mode[u] /\ n.blocked_on[u] = m.blocked_on[u]
              /\ n.runqueue[u] <=> m.runqueue[u]
              /\ n.currently_running[u] <=> m.currently_running[u]
              /\ n.saved[u] <=> m.saved[u]
  <2>1. u \in B <=> u \in A
    BY <1>13 DEF B
  <2>2. n.exec_mode[u] = m.exec_mode[u] /\ n.blocked_on[u] = m.blocked_on[u]
    BY <1>1, <1>9, <1>11, <2>1 DEF QueuesOnly
  <2>3. /\ n.runqueue[u] <=> m.runqueue[u]
        /\ n.currently_running[u] <=> m.currently_running[u]
        /\ n.saved[u] <=> m.saved[u]
    BY <1>1, <1>9, <1>11, <2>1 DEF QueuesOnly
  <2> QED
    BY <2>2, <2>3
<1>14. n.blocked_on = [m.blocked_on EXCEPT ![t] = NULL]
  <2>1. \A u \in Thread : n.blocked_on[u] = IF u = t THEN NULL ELSE m.blocked_on[u]
    BY <1>12, <1>13
  <2> QED
    BY <1>1, <1>11, <2>1
<1>15. /\ n.current_thread = m.current_thread /\ n.cpu = m.cpu
       /\ n.pending_context_switch = m.pending_context_switch
       /\ n.endpoints = m.endpoints /\ n.message_buffer = m.message_buffer
       /\ n.sending_badge = m.sending_badge
       /\ n.priority_queue = q.priority_queue /\ n.runqueue_entry = q.runqueue_entry
       /\ n.blocked_queue = q.blocked_queue /\ n.blocked_sending = q.blocked_sending
       /\ n.blocked_receiving = q.blocked_receiving
  BY <1>0, <1>9, <1>11 DEF SameButMixed, QueuesOnly
<1>16. RunInv(n)
  <2>1. ASSUME m.runqueue[t]
        PROVE  /\ PrevKnown(m, t)
               /\ n.priority_queue = LIST_REMOVE(m.priority_queue, m.runqueue_entry, t).container
               /\ n.runqueue_entry = LIST_REMOVE(m.priority_queue, m.runqueue_entry, t).field
    BY <1>2, <1>4, <1>5, <1>9, <1>15, <2>1 DEF KnownPlace, RunQueueSet, r
  <2>2. ASSUME ~m.runqueue[t]
        PROVE  n.priority_queue = m.priority_queue /\ n.runqueue_entry = m.runqueue_entry
    BY <1>4, <1>5, <1>9, <1>15, <2>2 DEF RunQueueSame
  <2>3. t # m.current_thread
    BY <1>0
  <2>4. /\ m \in KernelState /\ n \in KernelState /\ RunInv(m) /\ t \in Thread
        /\ n.current_thread = m.current_thread
    BY <1>1, <1>2, <1>3, <1>11, <1>15
  <2>5. ~n.runqueue[t] /\ n.exec_mode[t] = {SUSPENDED}
    BY <1>12
  <2>6. \A u \in Thread : u # t => /\ n.runqueue[u] <=> m.runqueue[u]
                                   /\ n.exec_mode[u] = m.exec_mode[u]
    BY <1>13
  <2> QED
    BY <2>1, <2>2, <2>3, <2>4, <2>5, <2>6, RunnerLeaves
<1>17. QueuesInv(n)
  <2>1. CASE e = NULL
    <3>1. n.blocked_on = m.blocked_on
      BY <1>1, <1>4, <1>14, <2>1
    <3> QED
      BY <1>3, <1>5, <1>9, <1>15, <2>1, <3>1 DEF QueuesInv, WaitersSame
  <2>2. CASE e # NULL
    <3>1. m.blocked_on[t] # NULL /\ KnownIn(m, t, flag)
      BY <1>4, <1>8, <2>2
    <3>2. l = LIST_REMOVE(Queues(m, flag)[m.blocked_on[t]], m.blocked_queue, t)
      BY <1>4, <1>5 DEF l
    <3>3. n.blocked_queue = l.field
      BY <1>9, <1>15, <2>2 DEF WaitersSet
    <3>4. IF flag = "SEND"
          THEN /\ n.blocked_sending = [m.blocked_sending EXCEPT ![m.blocked_on[t]] = l.container]
               /\ n.blocked_receiving = m.blocked_receiving
          ELSE /\ n.blocked_receiving = [m.blocked_receiving EXCEPT ![m.blocked_on[t]] = l.container]
               /\ n.blocked_sending = m.blocked_sending
      BY <1>4, <1>5, <1>9, <1>15, <2>2 DEF WaitersSet
    <3> QED
      BY <1>1, <1>2, <1>3, <1>f, <1>14, <1>15, <3>1, <3>2, <3>3, <3>4, WaiterLeaves
  <2> QED
    BY <2>1, <2>2
<1>18. CpuHeld(n)
  <2>1. \A u \in Thread : /\ n.saved[u] <=> u # n.current_thread
                          /\ n.currently_running[u] <=> u = n.current_thread
    BY <1>0, <1>3, <1>12, <1>13, <1>15 DEF CpuHeld
  <2>2. n.exec_mode[n.current_thread] = m.exec_mode[m.current_thread]
    BY <1>0, <1>13, <1>15
  <2> QED
    BY <1>3, <1>15, <2>1, <2>2 DEF CpuHeld
<1>19. ModesInv(n)
  BY <1>3, <1>12, <1>13, <1>15 DEF ModesInv, BLOCKED, SUSPENDED
<1>20. Handled(n)
  BY <1>11, <1>16, <1>17, <1>18, <1>19 DEF Handled
<1> QED
  BY <1>9, <1>10, <1>20 DEF LiveHandled, n, q, B

(* A thread on the run queue, or off it, gets a new address.               *)
LEMMA RunnerMoves ==
  ASSUME NEW m \in KernelState, NEW n \in KernelState, RunInv(m),
         NEW from \in Thread, NEW to \in Thread, from # to, ~m.runqueue[to],
         m.current_thread # to,
         n.current_thread = (IF m.current_thread = from THEN to ELSE m.current_thread),
         NEW g, g = CopyLinks(m.runqueue_entry, from, to),
         m.runqueue[from] =>
           /\ PrevKnown(m, from)
           /\ n.priority_queue = LIST_UPDATE_ADDRESS(m.priority_queue, g, to).container
           /\ n.runqueue_entry = LIST_UPDATE_ADDRESS(m.priority_queue, g, to).field,
         ~m.runqueue[from] => n.priority_queue = m.priority_queue /\ n.runqueue_entry = g,
         n.runqueue[to] <=> m.runqueue[from], n.exec_mode[to] = m.exec_mode[from],
         ~n.runqueue[from], n.exec_mode[from] = {SUSPENDED},
         \A u \in Thread : u # to /\ u # from => /\ n.runqueue[u] <=> m.runqueue[u]
                                                 /\ n.exec_mode[u] = m.exec_mode[u]
  PROVE  RunInv(n)
<1> DEFINE c == m.priority_queue
           f == m.runqueue_entry
           M == Queued(m)
<1>1. c \in Container(Thread) /\ f \in LinkField(Thread) /\ NULL \notin Thread
  BY ThreadAssumption DEF KernelState
<1>2. IsQueueOf(c, f.next, Thread, M)
  BY DEF RunInv, RunQueueIs
<1>3. \A u \in Thread : n.runqueue[u] => n.exec_mode[u] = RUNNING
  BY DEF RunInv
<1>4. ASSUME NEW u \in Thread, n.exec_mode[u] = RUNNING
      PROVE  n.runqueue[u] \/ u = n.current_thread
  <2>1. CASE u = to
    BY <1>4, <2>1 DEF RunInv
  <2>2. CASE u = from
    BY <1>4, <2>2 DEF RUNNING
  <2>3. CASE u # to /\ u # from
    BY <1>4, <2>3 DEF RunInv
  <2> QED
    BY <2>1, <2>2, <2>3
<1>5. CASE m.runqueue[from]
  <2> DEFINE l == LIST_UPDATE_ADDRESS(c, CopyLinks(f, from, to), to)
             N == (M \ {from}) \cup {to}
  <2>1. from \in M /\ PrevAccurate(c, f, M, from) /\ to \notin M
    BY <1>5 DEF Queued, PrevKnown
  <2>2. n.priority_queue = l.container /\ n.runqueue_entry = l.field
    BY <1>5
  <2>n. Queued(n) = N
    BY <1>5, <2>1 DEF Queued
  <2>3. /\ IsQueueOf(l.container, l.field.next, Thread, N)
        /\ PrevAccurate(l.container, l.field, N, to)
        /\ \A u \in M \ {from} : PrevAccurate(c, f, M, u)
             => PrevAccurate(l.container, l.field, N, u)
    <3> HIDE DEF c, f, M
    <3> QED
      BY <1>1, <1>2, <2>1, UpdateQueue
  <2> HIDE DEF l, N, M
  <2>5. ASSUME n.current_thread # NULL, n.runqueue[n.current_thread]
        PROVE  PrevKnown(n, n.current_thread)
    <3>1. CASE m.current_thread = from
      BY <2>2, <2>3, <2>n, <3>1 DEF PrevKnown
    <3>2. CASE m.current_thread # from
      <4>1. n.current_thread = m.current_thread /\ m.current_thread \in Thread
        BY <2>5, <3>2 DEF KernelState
      <4>2. m.runqueue[m.current_thread]
        BY <2>5, <3>2, <4>1
      <4>3. m.current_thread \in M \ {from} /\ PrevAccurate(c, f, M, m.current_thread)
        BY <2>5, <3>2, <4>1, <4>2 DEF RunInv, PrevKnown, Queued, M
      <4> QED
        BY <2>2, <2>3, <2>n, <4>1, <4>3 DEF PrevKnown
    <3> QED
      BY <3>1, <3>2
  <2> QED
    BY <1>3, <1>4, <2>2, <2>3, <2>5, <2>n DEF RunInv, RunQueueIs
<1>6. CASE ~m.runqueue[from]
  <2>1. n.priority_queue = m.priority_queue /\ n.runqueue_entry = g
    BY <1>6
  <2>2. /\ g.next = [f.next EXCEPT ![to] = f.next[from]]
        /\ g.prev = [f.prev EXCEPT ![to] = f.prev[from]]
        /\ f.next \in [Thread -> Thread \cup {NULL}] /\ f.prev \in [Thread -> Thread \cup {NULL}]
    BY <1>1 DEF CopyLinks, LinkField
  <2>3. Queued(n) = M
    BY <1>6 DEF Queued
  <2>4. \A u \in M : /\ n.runqueue_entry.next[u] = m.runqueue_entry.next[u]
                     /\ n.runqueue_entry.prev[u] = m.runqueue_entry.prev[u]
                     /\ n.exec_mode[u] = m.exec_mode[u]
    BY <1>6, <2>1, <2>2 DEF Queued
  <2>5. n.current_thread \in Queued(n) => n.current_thread = m.current_thread
    BY <1>6 DEF Queued
  <2> HIDE DEF M
  <2> QED
    BY <1>4, <2>1, <2>3, <2>4, <2>5, RunQueueKept DEF M
<1> QED
  BY <1>5, <1>6

(* A thread gets a new address in the queue in which it waits.             *)
LEMMA WaiterMoves ==
  ASSUME NEW m \in KernelState, NEW n, QueuesInv(m), ModesInv(m),
         NEW from \in Thread, NEW to \in Thread, from # to,
         NEW e, e = m.blocked_on[from], e # NULL, m.blocked_on[to] = NULL,
         NEW flag \in {"SEND", "RECEIVE"}, KnownIn(m, from, flag),
         NEW l, l = LIST_UPDATE_ADDRESS(Queues(m, flag)[e],
                                        CopyLinks(m.blocked_queue, from, to), to),
         n.endpoints = m.endpoints, n.blocked_queue = l.field,
         n.message_buffer[to] = m.message_buffer[from],
         n.sending_badge[to] = m.sending_badge[from],
         \A u \in Thread : u # to => /\ n.message_buffer[u] = m.message_buffer[u]
                                     /\ n.sending_badge[u] = m.sending_badge[u],
         NEW o \in [Thread -> Endpoint \cup {NULL}], n.blocked_on = o,
         o[to] = e, o[from] = NULL,
         \A u \in Thread : u # to /\ u # from => o[u] = m.blocked_on[u],
         IF flag = "SEND"
         THEN /\ n.blocked_sending = [m.blocked_sending EXCEPT ![e] = l.container]
              /\ n.blocked_receiving = m.blocked_receiving
         ELSE /\ n.blocked_receiving = [m.blocked_receiving EXCEPT ![e] = l.container]
              /\ n.blocked_sending = m.blocked_sending
  PROVE  QueuesInv(n)
<1> DEFINE f == m.blocked_queue
           M == Waiting(Queues(m, flag), f, e)
           C == Queues(m, flag)[e]
           N == (M \ {from}) \cup {to}
           g == l.field
           c == l.container
<1>1. /\ e \in m.endpoints /\ e \in Endpoint
      /\ Waiting(Queues(m, Opposite(flag)), m.blocked_queue, e) = {}
      /\ M = {u \in Thread : m.blocked_on[u] = e}
      /\ C \in Container(Thread)
      /\ IsQueueOf(C, f.next, Thread, M)
      /\ PrevAccurate(C, f, M, from)
  BY KnownWaiter
<1>2. /\ f \in LinkField(Thread) /\ NULL \notin Thread /\ NULL \notin Endpoint
      /\ m.blocked_on \in [Thread -> Endpoint \cup {NULL}] /\ from \in M /\ to \notin M
  BY <1>1, ThreadAssumption, IpcAssumption DEF KernelState
<1>3. /\ c \in Container(Thread) /\ g \in LinkField(Thread)
      /\ IsQueueOf(c, g.next, Thread, N)
      /\ \A u \in Thread \ (M \cup {to}) : g.next[u] = f.next[u]
  <2> DEFINE r == LIST_UPDATE_ADDRESS(C, CopyLinks(f, from, to), to)
  <2>1. l = r
    OBVIOUS
  <2>a. /\ C \in Container(Thread) /\ IsQueueOf(C, f.next, Thread, M)
        /\ PrevAccurate(C, f, M, from) /\ f \in LinkField(Thread)
        /\ NULL \notin Thread /\ from \in M /\ to \notin M
    BY <1>1, <1>2
  <2> HIDE DEF C, f, M, c, g
  <2>b. /\ r.container \in Container(Thread) /\ r.field \in LinkField(Thread)
        /\ IsQueueOf(r.container, r.field.next, Thread, N)
    BY <2>a, UpdateQueue
  <2>c. \A u \in Thread \ (M \cup {to}) : r.field.next[u] = f.next[u]
    BY <2>a DEF LIST_UPDATE_ADDRESS, CopyLinks, PrevAccurate, LinkField
  <2>2. /\ r.container \in Container(Thread) /\ r.field \in LinkField(Thread)
        /\ IsQueueOf(r.container, r.field.next, Thread, N)
        /\ \A u \in Thread \ (M \cup {to}) : r.field.next[u] = f.next[u]
    BY <2>b, <2>c
  <2> HIDE DEF r
  <2> QED
    BY <2>1, <2>2 DEF c, g
<1>s. n.blocked_queue = g
  OBVIOUS
<1>w. IF flag = "SEND"
      THEN /\ n.blocked_sending = [m.blocked_sending EXCEPT ![e] = c]
           /\ n.blocked_receiving = m.blocked_receiving
      ELSE /\ n.blocked_receiving = [m.blocked_receiving EXCEPT ![e] = c]
           /\ n.blocked_sending = m.blocked_sending
  OBVIOUS
<1> HIDE DEF C, g, c
<1>6. N = {u \in Thread : o[u] = e}
  BY <1>1, <1>2
<1>7. \A d \in m.endpoints : d # e =>
        {u \in Thread : o[u] = d} = {u \in Thread : m.blocked_on[u] = d}
  <2>1. m.endpoints \subseteq Endpoint
    BY DEF KernelState
  <2> QED
    BY <1>2, <2>1
<1>8. ASSUME flag = "SEND", NEW u \in N
      PROVE  n.message_buffer[u] \in SendMessages /\ n.sending_badge[u] \in Badge
  <2>1. \A v \in M : m.message_buffer[v] \in SendMessages /\ m.sending_badge[v] \in Badge
    BY <1>1, <1>8 DEF QueuesInv, Queues
  <2>2. u \in Thread
    BY <1>1
  <2> QED
    BY <1>2, <2>1, <2>2
<1>9. \A u \in Thread \ (M \cup N) : /\ n.message_buffer[u] = m.message_buffer[u]
                                     /\ n.sending_badge[u] = m.sending_badge[u]
  OBVIOUS
<1>10. \A u \in Thread \ (M \cup N) : g.next[u] = f.next[u]
  BY <1>3
<1> HIDE DEF M, N
<1>11. Rewired(m, n, flag, e, c, g, N, o)
  BY <1>s, <1>w, <1>8, <1>9 DEF Rewired, M
<1>12. \A u \in Thread \ (Waiting(Queues(m, flag), m.blocked_queue, e) \cup N) :
         g.next[u] = m.blocked_queue.next[u]
  BY <1>10 DEF M
<1> QED
  BY <1>1, <1>3, <1>6, <1>7, <1>11, <1>12, QueuesRewired

(* on_thread_moved's writes to the queues.                                 *)
Relinked(k, t) ==
  LET l  == LIST_UPDATE_ADDRESS(k.priority_queue, k.runqueue_entry, t)
      k1 == IF ~k.runqueue[t] THEN k
            ELSE [k EXCEPT !.priority_queue = l.container, !.runqueue_entry = l.field]
      e  == k.blocked_on[t]
      s  == LIST_UPDATE_ADDRESS(k.blocked_sending[e], k.blocked_queue, t)
      r  == LIST_UPDATE_ADDRESS(k.blocked_receiving[e], k.blocked_queue, t)
  IN  IF e = NULL \/ k.blocked_flags[t] = {} THEN k1
      ELSE IF "SEND" \in k.blocked_flags[t]
      THEN [k1 EXCEPT !.blocked_sending[e] = s.container, !.blocked_queue = s.field]
      ELSE [k1 EXCEPT !.blocked_receiving[e] = r.container, !.blocked_queue = r.field]

(* Its fields, for a thread whose flags name its queue.                    *)
LEMMA RelinkFields ==
  ASSUME NEW k \in KernelState, NEW t \in Thread,
         k.runqueue[t] => k.blocked_on[t] = NULL,
         k.runqueue[t] =>
           /\ LIST_UPDATE_ADDRESS(k.priority_queue, k.runqueue_entry, t).container
                \in Container(Thread)
           /\ LIST_UPDATE_ADDRESS(k.priority_queue, k.runqueue_entry, t).field
                \in LinkField(Thread),
         NEW flag, flag = IF "SEND" \in k.blocked_flags[t] THEN "SEND" ELSE "RECEIVE",
         NEW e, e = k.blocked_on[t],
         NEW l, l = LIST_UPDATE_ADDRESS(Queues(k, flag)[e], k.blocked_queue, t),
         e # NULL => /\ l.container \in Container(Thread) /\ l.field \in LinkField(Thread)
                     /\ k.blocked_flags[t] # {}
  PROVE  LET q == Relinked(k, t)
         IN  /\ q \in KernelState /\ QueuesOnly(k, q)
             /\ q.current_thread = k.current_thread /\ q.cpu = k.cpu
             /\ k.runqueue[t] =>
                  RunQueueSet(k, q, LIST_UPDATE_ADDRESS(k.priority_queue, k.runqueue_entry, t))
             /\ ~k.runqueue[t] => RunQueueSame(k, q)
             /\ e = NULL => WaitersSame(k, q)
             /\ e # NULL => WaitersSet(k, q, e, flag, l)
<1> DEFINE q == Relinked(k, t)
           r == LIST_UPDATE_ADDRESS(k.priority_queue, k.runqueue_entry, t)
<1>1. CASE k.runqueue[t]
  <2>1. q = [k EXCEPT !.priority_queue = r.container, !.runqueue_entry = r.field]
    BY <1>1 DEF Relinked
  <2>2. r.container \in Container(Thread) /\ r.field \in LinkField(Thread) /\ e = NULL
    BY <1>1
  <2> HIDE DEF r
  <2>3. q \in KernelState /\ q.priority_queue = r.container /\ q.runqueue_entry = r.field
    BY <2>1, <2>2 DEF KernelState
  <2>4. QueuesOnly(k, q) /\ WaitersSame(k, q)
        /\ q.current_thread = k.current_thread /\ q.cpu = k.cpu
    BY <2>1 DEF KernelState, QueuesOnly, WaitersSame
  <2> HIDE DEF q
  <2> QED
    BY <1>1, <2>2, <2>3, <2>4 DEF RunQueueSet, q, r
<1>2. CASE ~k.runqueue[t] /\ e = NULL
  <2>1. q = k
    BY <1>2 DEF Relinked
  <2> QED
    BY <1>2, <2>1 DEF QueuesOnly, RunQueueSame, WaitersSame
<1>3. CASE ~k.runqueue[t] /\ e # NULL
  <2>0. /\ e \in Endpoint /\ l.container \in Container(Thread) /\ l.field \in LinkField(Thread)
        /\ k.blocked_flags[t] # {}
    BY <1>3 DEF KernelState
  <2>1. CASE flag = "SEND"
    <3> DEFINE a == [k.blocked_sending EXCEPT ![e] = l.container]
    <3>1. q = [k EXCEPT !.blocked_sending = a, !.blocked_queue = l.field]
      BY <1>3, <2>0, <2>1 DEF Relinked, Queues
    <3>2. a \in [Endpoint -> Container(Thread)]
      BY <2>0 DEF KernelState
    <3> HIDE DEF a
    <3>3. /\ q \in KernelState /\ q.blocked_sending = a /\ q.blocked_queue = l.field
          /\ q.blocked_receiving = k.blocked_receiving
      BY <2>0, <3>1, <3>2 DEF KernelState
    <3>4. QueuesOnly(k, q) /\ RunQueueSame(k, q)
          /\ q.current_thread = k.current_thread /\ q.cpu = k.cpu
      BY <3>1 DEF KernelState, QueuesOnly, RunQueueSame
    <3> HIDE DEF q
    <3> QED
      BY <1>3, <2>1, <3>3, <3>4 DEF WaitersSet, q, a
  <2>2. CASE flag = "RECEIVE"
    <3> DEFINE a == [k.blocked_receiving EXCEPT ![e] = l.container]
    <3>1. q = [k EXCEPT !.blocked_receiving = a, !.blocked_queue = l.field]
      BY <1>3, <2>0, <2>2 DEF Relinked, Queues
    <3>2. a \in [Endpoint -> Container(Thread)]
      BY <2>0 DEF KernelState
    <3> HIDE DEF a
    <3>3. /\ q \in KernelState /\ q.blocked_receiving = a /\ q.blocked_queue = l.field
          /\ q.blocked_sending = k.blocked_sending
      BY <2>0, <3>1, <3>2 DEF KernelState
    <3>4. QueuesOnly(k, q) /\ RunQueueSame(k, q)
          /\ q.current_thread = k.current_thread /\ q.cpu = k.cpu
      BY <3>1 DEF KernelState, QueuesOnly, RunQueueSame
    <3> HIDE DEF q
    <3> QED
      BY <1>3, <2>2, <3>3, <3>4 DEF WaitersSet, q, a
  <2> QED
    BY <2>1, <2>2
<1> QED
  BY <1>1, <1>2, <1>3

(* on_thread_moved, of a thread that knows its place.                      *)
LEMMA LiveMoved ==
  ASSUME NEW k, NEW A, LiveEntered(k, A), NEW from \in A, NEW to \in Thread, to \notin A,
         KnownPlace(Live(k, A), from)
  PROVE  LiveHandled(on_thread_moved(copy_thread(k, from, to), from, to), (A \ {from}) \cup {to})
<1> DEFINE m == Live(k, A)
           B == (A \ {from}) \cup {to}
           p == copy_thread(k, from, to)
           o == Relinked(p, to)
           q == on_thread_moved(p, from, to)
           n == Live(q, B)
<1>0. /\ A \in SUBSET Thread /\ k \in KernelState
      /\ Entered(m) /\ Handled(m) /\ SameButMixed(k, m)
      /\ k.current_thread \in A /\ m.current_thread \in A
      /\ m.current_thread = k.current_thread
  BY LiveEnteredFacts
<1>1. /\ m \in KernelState
      /\ m.exec_mode = [u \in Thread |-> IF u \in A THEN k.exec_mode[u] ELSE {SUSPENDED}]
      /\ m.runqueue = [u \in Thread |-> u \in A /\ k.runqueue[u]]
      /\ m.currently_running = [u \in Thread |-> u \in A /\ k.currently_running[u]]
      /\ m.saved = [u \in Thread |-> u \in A => k.saved[u]]
      /\ m.blocked_on = [u \in Thread |-> IF u \in A THEN k.blocked_on[u] ELSE NULL]
  BY <1>0, LiveFields
<1>2. /\ ~m.runqueue[to] /\ m.blocked_on[to] = NULL /\ to # k.current_thread
      /\ m.exec_mode[to] = {SUSPENDED} /\ m.saved[to] /\ ~m.currently_running[to]
  BY DeadQuiet
<1>k. /\ RunInv(m) /\ QueuesInv(m) /\ ModesInv(m) /\ CpuHeld(m) /\ KnownPlace(m, from)
  BY <1>0 DEF Handled
<1>3. /\ k.runqueue_entry.next \in [Thread -> Thread \cup {NULL}]
      /\ k.runqueue_entry.prev \in [Thread -> Thread \cup {NULL}]
      /\ k.blocked_queue.next \in [Thread -> Thread \cup {NULL}]
      /\ k.blocked_queue.prev \in [Thread -> Thread \cup {NULL}]
      /\ k.exec_mode \in [Thread -> ExecMode] /\ k.runqueue \in [Thread -> BOOLEAN]
      /\ k.currently_running \in [Thread -> BOOLEAN] /\ k.saved \in [Thread -> BOOLEAN]
      /\ k.blocked_on \in [Thread -> Endpoint \cup {NULL}]
      /\ k.blocked_flags \in [Thread -> SUBSET {"SEND", "RECEIVE"}]
      /\ k.sending_badge \in [Thread -> Badge \cup {NULL}]
      /\ k.message_buffer \in [Thread -> SendMessages \cup RecvMessages \cup {NULL}]
      /\ k.slots \in [Thread -> [Slot -> Capability \cup {NULL}]]
      /\ from \in Thread /\ from # to
  BY <1>0 DEF KernelState, LinkField
<1> DEFINE mode == [k.exec_mode EXCEPT ![to] = k.exec_mode[from]]
           queued == [k.runqueue EXCEPT ![to] = k.runqueue[from]]
           entry == CopyLinks(k.runqueue_entry, from, to)
           running == [k.currently_running EXCEPT ![to] = k.currently_running[from]]
           regs == [k.saved EXCEPT ![to] = k.saved[from]]
           waiting == CopyLinks(k.blocked_queue, from, to)
           on == [k.blocked_on EXCEPT ![to] = k.blocked_on[from]]
           flags == [k.blocked_flags EXCEPT ![to] = k.blocked_flags[from]]
           badge == [k.sending_badge EXCEPT ![to] = k.sending_badge[from]]
           buffer == [k.message_buffer EXCEPT ![to] = k.message_buffer[from]]
           caps == [k.slots EXCEPT ![to] = k.slots[from]]
<1>t. /\ mode \in [Thread -> ExecMode] /\ queued \in [Thread -> BOOLEAN]
      /\ entry \in LinkField(Thread) /\ waiting \in LinkField(Thread)
      /\ running \in [Thread -> BOOLEAN] /\ regs \in [Thread -> BOOLEAN]
      /\ on \in [Thread -> Endpoint \cup {NULL}]
      /\ flags \in [Thread -> SUBSET {"SEND", "RECEIVE"}]
      /\ badge \in [Thread -> Badge \cup {NULL}]
      /\ buffer \in [Thread -> SendMessages \cup RecvMessages \cup {NULL}]
      /\ caps \in [Thread -> [Slot -> Capability \cup {NULL}]]
  <2>1. entry \in LinkField(Thread) /\ waiting \in LinkField(Thread)
    BY <1>3 DEF LinkField, CopyLinks
  <2>2. /\ mode \in [Thread -> ExecMode] /\ queued \in [Thread -> BOOLEAN]
        /\ running \in [Thread -> BOOLEAN] /\ regs \in [Thread -> BOOLEAN]
        /\ on \in [Thread -> Endpoint \cup {NULL}]
        /\ flags \in [Thread -> SUBSET {"SEND", "RECEIVE"}]
    BY <1>3
  <2>3. /\ badge \in [Thread -> Badge \cup {NULL}]
        /\ buffer \in [Thread -> SendMessages \cup RecvMessages \cup {NULL}]
        /\ caps \in [Thread -> [Slot -> Capability \cup {NULL}]]
    BY <1>3
  <2> QED
    BY <2>1, <2>2, <2>3
<1>u. ASSUME NEW u \in Thread, u # to
      PROVE  /\ mode[u] = k.exec_mode[u] /\ queued[u] = k.runqueue[u]
             /\ entry.next[u] = k.runqueue_entry.next[u] /\ entry.prev[u] = k.runqueue_entry.prev[u]
             /\ running[u] = k.currently_running[u] /\ regs[u] = k.saved[u]
             /\ waiting.next[u] = k.blocked_queue.next[u] /\ on[u] = k.blocked_on[u]
             /\ badge[u] = k.sending_badge[u] /\ buffer[u] = k.message_buffer[u]
  <2>1. /\ mode[u] = k.exec_mode[u] /\ queued[u] = k.runqueue[u]
        /\ running[u] = k.currently_running[u] /\ regs[u] = k.saved[u]
        /\ on[u] = k.blocked_on[u]
    BY <1>3, <1>u
  <2>2. /\ entry.next[u] = k.runqueue_entry.next[u] /\ entry.prev[u] = k.runqueue_entry.prev[u]
        /\ waiting.next[u] = k.blocked_queue.next[u]
    BY <1>3, <1>u DEF CopyLinks
  <2>3. badge[u] = k.sending_badge[u] /\ buffer[u] = k.message_buffer[u]
    BY <1>3, <1>u
  <2> QED
    BY <2>1, <2>2, <2>3
<1>v. /\ mode[to] = k.exec_mode[from] /\ (queued[to] <=> k.runqueue[from])
      /\ (running[to] <=> k.currently_running[from]) /\ (regs[to] <=> k.saved[from])
      /\ on[to] = k.blocked_on[from] /\ flags[to] = k.blocked_flags[from]
      /\ badge[to] = k.sending_badge[from] /\ buffer[to] = k.message_buffer[from]
  <2>1. /\ mode[to] = k.exec_mode[from] /\ (queued[to] <=> k.runqueue[from])
        /\ (running[to] <=> k.currently_running[from]) /\ (regs[to] <=> k.saved[from])
    BY <1>3
  <2>2. /\ on[to] = k.blocked_on[from] /\ flags[to] = k.blocked_flags[from]
        /\ badge[to] = k.sending_badge[from] /\ buffer[to] = k.message_buffer[from]
    BY <1>3
  <2> QED
    BY <2>1, <2>2
<1> DEFINE flag == IF "SEND" \in k.blocked_flags[from] THEN "SEND" ELSE "RECEIVE"
           e == k.blocked_on[from]
           l == LIST_UPDATE_ADDRESS(Queues(k, flag)[e], waiting, to)
           r == LIST_UPDATE_ADDRESS(k.priority_queue, entry, to)
<1>f. flag \in {"SEND", "RECEIVE"}
  OBVIOUS
<1>b. /\ m.priority_queue = k.priority_queue /\ m.runqueue_entry = k.runqueue_entry
      /\ m.blocked_queue = k.blocked_queue /\ m.blocked_flags = k.blocked_flags
      /\ m.blocked_sending = k.blocked_sending /\ m.blocked_receiving = k.blocked_receiving
      /\ m.message_buffer = k.message_buffer /\ m.sending_badge = k.sending_badge
      /\ m.endpoints = k.endpoints /\ m.cpu = k.cpu
      /\ m.pending_context_switch = k.pending_context_switch
      /\ Queues(m, flag) = Queues(k, flag)
  BY <1>0 DEF SameButMixed, Queues
<1>a. (m.runqueue[from] <=> k.runqueue[from]) /\ m.blocked_on[from] = e
  BY <1>1, <1>3
<1>c. entry = CopyLinks(m.runqueue_entry, from, to) /\ waiting = CopyLinks(m.blocked_queue, from, to)
  BY <1>b
<1> HIDE DEF m, p, mode, queued, entry, running, regs, waiting, on, flags, badge, buffer, caps
<1>w. k.runqueue[from] => k.blocked_on[from] = NULL
  BY <1>3, <1>a, <1>k, OneQueueAtMost
<1>x. ASSUME k.runqueue[from]
      PROVE  r.container \in Container(Thread) /\ r.field \in LinkField(Thread)
  <2>1. /\ m.priority_queue \in Container(Thread) /\ m.runqueue_entry \in LinkField(Thread)
        /\ IsQueueOf(m.priority_queue, m.runqueue_entry.next, Thread, Queued(m))
        /\ from \in Queued(m) /\ NULL \notin Thread /\ to \notin Queued(m)
        /\ PrevAccurate(m.priority_queue, m.runqueue_entry, Queued(m), from)
    BY <1>1, <1>2, <1>3, <1>a, <1>k, <1>x, ThreadAssumption
    DEF KernelState, RunInv, RunQueueIs, Queued, KnownPlace, PrevKnown
  <2>2. r = LIST_UPDATE_ADDRESS(m.priority_queue, CopyLinks(m.runqueue_entry, from, to), to)
    BY <1>b, <1>c
  <2> HIDE DEF r
  <2> QED
    BY <2>1, <2>2, UpdateQueue
<1>y. ASSUME e # NULL
      PROVE  /\ KnownIn(m, from, flag) /\ k.blocked_flags[from] # {}
             /\ l.container \in Container(Thread) /\ l.field \in LinkField(Thread)
             /\ l = LIST_UPDATE_ADDRESS(Queues(m, flag)[m.blocked_on[from]],
                                        CopyLinks(m.blocked_queue, from, to), to)
  <2>1. KnownIn(m, from, flag) /\ k.blocked_flags[from] # {}
    BY <1>a, <1>b, <1>k, <1>y DEF KnownPlace
  <2>2. m.blocked_on[from] # NULL
    BY <1>a, <1>y
  <2> HIDE DEF flag
  <2> DEFINE M == Waiting(Queues(m, flag), m.blocked_queue, m.blocked_on[from])
             C == Queues(m, flag)[m.blocked_on[from]]
  <2>3. /\ C \in Container(Thread) /\ IsQueueOf(C, m.blocked_queue.next, Thread, M)
        /\ M = {u \in Thread : m.blocked_on[u] = m.blocked_on[from]}
        /\ PrevAccurate(C, m.blocked_queue, M, from)
    BY <1>1, <1>3, <1>f, <1>k, <2>1, <2>2, KnownWaiter
  <2>4. from \in M /\ m.blocked_queue \in LinkField(Thread) /\ NULL \notin Thread
    BY <1>1, <2>1, ThreadAssumption DEF KnownIn, KernelState
  <2>5. to \notin M
    BY <1>2, <2>2, <2>3
  <2>6. l = LIST_UPDATE_ADDRESS(C, CopyLinks(m.blocked_queue, from, to), to)
    BY <1>a, <1>b, <1>c
  <2>7. l.container \in Container(Thread) /\ l.field \in LinkField(Thread)
    <3> HIDE DEF C, M, l
    <3> QED
      BY <2>3, <2>4, <2>5, <2>6, UpdateQueue
  <2> QED
    BY <2>1, <2>6, <2>7
<1>4. /\ p \in KernelState
      /\ p.exec_mode = mode /\ p.runqueue = queued /\ p.runqueue_entry = entry
      /\ p.currently_running = running /\ p.saved = regs /\ p.blocked_queue = waiting
      /\ p.blocked_on = on /\ p.blocked_flags = flags /\ p.sending_badge = badge
      /\ p.message_buffer = buffer
      /\ p.priority_queue = k.priority_queue /\ p.current_thread = k.current_thread
      /\ p.pending_context_switch = k.pending_context_switch /\ p.cpu = k.cpu
      /\ p.endpoints = k.endpoints /\ p.blocked_sending = k.blocked_sending
      /\ p.blocked_receiving = k.blocked_receiving
  <2>1. k \in KernelState
    BY <1>0
  <2>p. p = PutThread(k, mode, queued, entry, running, regs, waiting, on, flags, badge, buffer, caps)
    BY DEF copy_thread, PutThread, p, mode, queued, entry, running, regs, waiting, on, flags,
           badge, buffer, caps
  <2>2. p \in KernelState
    BY <1>t, <2>1, <2>p, ZenonT(40) DEF KernelState, PutThread
  <2>3. /\ p.exec_mode = mode /\ p.runqueue = queued /\ p.runqueue_entry = entry
        /\ p.currently_running = running /\ p.saved = regs /\ p.blocked_queue = waiting
        /\ p.blocked_on = on /\ p.blocked_flags = flags /\ p.sending_badge = badge
        /\ p.message_buffer = buffer
    BY <2>1, <2>p DEF KernelState, PutThread
  <2>4. /\ p.priority_queue = k.priority_queue /\ p.current_thread = k.current_thread
        /\ p.pending_context_switch = k.pending_context_switch /\ p.cpu = k.cpu
        /\ p.endpoints = k.endpoints /\ p.blocked_sending = k.blocked_sending
        /\ p.blocked_receiving = k.blocked_receiving
    BY <2>1, <2>p DEF KernelState, PutThread
  <2> QED
    BY <2>2, <2>3, <2>4
<1> HIDE DEF flag, e, l, r, o
<1>5. /\ o \in KernelState /\ QueuesOnly(p, o)
      /\ o.current_thread = k.current_thread /\ o.cpu = k.cpu
      /\ k.runqueue[from] => o.priority_queue = r.container /\ o.runqueue_entry = r.field
      /\ ~k.runqueue[from] => o.priority_queue = k.priority_queue /\ o.runqueue_entry = entry
      /\ e = NULL => WaitersSame(p, o)
      /\ e # NULL => WaitersSet(p, o, e, flag, l)
  <2>1. /\ (p.runqueue[to] <=> k.runqueue[from]) /\ p.blocked_on[to] = e
        /\ p.blocked_flags[to] = k.blocked_flags[from]
    BY <1>4, <1>v DEF e
  <2>2. Queues(p, flag) = Queues(k, flag)
    BY <1>4 DEF Queues
  <2>3. r = LIST_UPDATE_ADDRESS(p.priority_queue, p.runqueue_entry, to)
    BY <1>4 DEF r
  <2>4. l = LIST_UPDATE_ADDRESS(Queues(p, flag)[e], p.blocked_queue, to)
    BY <1>4, <2>2 DEF l
  <2>5. flag = IF "SEND" \in p.blocked_flags[to] THEN "SEND" ELSE "RECEIVE"
    BY <2>1 DEF flag
  <2>6. p.runqueue[to] => p.blocked_on[to] = NULL
    BY <1>w, <2>1 DEF e
  <2>7. p.runqueue[to] =>
           /\ LIST_UPDATE_ADDRESS(p.priority_queue, p.runqueue_entry, to).container
                \in Container(Thread)
           /\ LIST_UPDATE_ADDRESS(p.priority_queue, p.runqueue_entry, to).field
                \in LinkField(Thread)
    BY <1>x, <2>1, <2>3
  <2>8. e # NULL => /\ l.container \in Container(Thread) /\ l.field \in LinkField(Thread)
                    /\ p.blocked_flags[to] # {}
    BY <1>y, <2>1
  <2>9. p \in KernelState
    BY <1>4
  <2>10. /\ o \in KernelState /\ QueuesOnly(p, o)
         /\ o.current_thread = p.current_thread /\ o.cpu = p.cpu
         /\ p.runqueue[to] =>
              RunQueueSet(p, o, LIST_UPDATE_ADDRESS(p.priority_queue, p.runqueue_entry, to))
         /\ ~p.runqueue[to] => RunQueueSame(p, o)
         /\ e = NULL => WaitersSame(p, o)
         /\ e # NULL => WaitersSet(p, o, e, flag, l)
    BY <2>1, <2>4, <2>5, <2>6, <2>7, <2>8, <2>9, RelinkFields DEF o
  <2>11. k.runqueue[from] => o.priority_queue = r.container /\ o.runqueue_entry = r.field
    BY <2>1, <2>3, <2>10 DEF RunQueueSet
  <2>12. ~k.runqueue[from] => o.priority_queue = k.priority_queue /\ o.runqueue_entry = entry
    BY <1>4, <2>1, <2>10 DEF RunQueueSame
  <2> QED
    BY <1>4, <2>10, <2>11, <2>12
<1> DEFINE cur == IF from = k.current_thread THEN to ELSE k.current_thread
<1>6. /\ q \in KernelState /\ q.current_thread = cur /\ q.cpu = cur
      /\ q.exec_mode = mode /\ q.runqueue = queued /\ q.currently_running = running
      /\ q.saved = regs /\ q.blocked_on = on /\ q.sending_badge = badge
      /\ q.message_buffer = buffer /\ q.endpoints = k.endpoints
      /\ q.pending_context_switch = k.pending_context_switch
      /\ q.priority_queue = o.priority_queue /\ q.runqueue_entry = o.runqueue_entry
      /\ q.blocked_queue = o.blocked_queue /\ q.blocked_sending = o.blocked_sending
      /\ q.blocked_receiving = o.blocked_receiving
  <2>1. k.cpu = k.current_thread /\ (k.currently_running[from] <=> from = k.current_thread)
    <3>1. m.cpu = m.current_thread /\ (m.currently_running[from] <=> from = m.current_thread)
      BY <1>3, <1>k DEF CpuHeld
    <3>2. m.currently_running[from] <=> k.currently_running[from]
      BY <1>1, <1>3
    <3> QED
      BY <1>0, <1>b, <3>1, <3>2
  <2>2. q = [o EXCEPT !.current_thread = IF p.currently_running[to] THEN to ELSE @,
                      !.cpu = IF @ = from THEN to ELSE @]
    BY DEF on_thread_moved, Relinked, o
  <2>3. /\ (IF p.currently_running[to] THEN to ELSE o.current_thread) = cur
        /\ (IF o.cpu = from THEN to ELSE o.cpu) = cur
    BY <1>4, <1>5, <1>v, <2>1
  <2>4. q = [o EXCEPT !.current_thread = cur, !.cpu = cur]
    BY <2>2, <2>3
  <2>5. cur \in Thread /\ o \in KernelState
    BY <1>0, <1>5
  <2>6. /\ o.exec_mode = mode /\ o.runqueue = queued /\ o.currently_running = running
        /\ o.saved = regs /\ o.blocked_on = on /\ o.sending_badge = badge
        /\ o.message_buffer = buffer /\ o.endpoints = k.endpoints
        /\ o.pending_context_switch = k.pending_context_switch
    BY <1>4, <1>5 DEF QueuesOnly
  <2> HIDE DEF q, cur
  <2>7. q \in KernelState
    BY <2>4, <2>5, ZenonT(40) DEF KernelState
  <2>8. /\ q.current_thread = cur /\ q.cpu = cur
        /\ q.exec_mode = o.exec_mode /\ q.runqueue = o.runqueue
        /\ q.runqueue_entry = o.runqueue_entry /\ q.currently_running = o.currently_running
        /\ q.saved = o.saved /\ q.blocked_queue = o.blocked_queue
    BY <2>4, <2>5 DEF KernelState
  <2>9. /\ q.blocked_on = o.blocked_on /\ q.sending_badge = o.sending_badge
        /\ q.message_buffer = o.message_buffer /\ q.priority_queue = o.priority_queue
        /\ q.pending_context_switch = o.pending_context_switch /\ q.endpoints = o.endpoints
        /\ q.blocked_sending = o.blocked_sending /\ q.blocked_receiving = o.blocked_receiving
    BY <2>4, <2>5 DEF KernelState
  <2> QED
    BY <2>6, <2>7, <2>8, <2>9
<1>7. B \in SUBSET Thread
  BY <1>0
<1> HIDE DEF q, B
<1>8. /\ n \in KernelState /\ SameButMixed(q, n)
      /\ n.exec_mode = [u \in Thread |-> IF u \in B THEN q.exec_mode[u] ELSE {SUSPENDED}]
      /\ n.runqueue = [u \in Thread |-> u \in B /\ q.runqueue[u]]
      /\ n.currently_running = [u \in Thread |-> u \in B /\ q.currently_running[u]]
      /\ n.saved = [u \in Thread |-> u \in B => q.saved[u]]
      /\ n.blocked_on = [u \in Thread |-> IF u \in B THEN q.blocked_on[u] ELSE NULL]
  BY <1>6, <1>7, LiveFields
<1> HIDE DEF n
<1>9. /\ n.exec_mode[to] = m.exec_mode[from] /\ n.blocked_on[to] = m.blocked_on[from]
      /\ n.runqueue[to] <=> m.runqueue[from]
      /\ n.currently_running[to] <=> m.currently_running[from]
      /\ n.saved[to] <=> m.saved[from]
      /\ n.message_buffer[to] = m.message_buffer[from]
      /\ n.sending_badge[to] = m.sending_badge[from]
  <2>1. to \in B
    BY DEF B
  <2>2. n.exec_mode[to] = m.exec_mode[from] /\ n.blocked_on[to] = m.blocked_on[from]
    BY <1>1, <1>3, <1>6, <1>8, <1>v, <2>1
  <2>3. /\ n.runqueue[to] <=> m.runqueue[from]
        /\ n.currently_running[to] <=> m.currently_running[from]
        /\ n.saved[to] <=> m.saved[from]
    BY <1>1, <1>3, <1>6, <1>8, <1>v, <2>1
  <2>4. n.message_buffer = buffer /\ n.sending_badge = badge
    BY <1>6, <1>8 DEF SameButMixed
  <2> QED
    BY <1>b, <1>v, <2>2, <2>3, <2>4
<1>10. /\ n.exec_mode[from] = {SUSPENDED} /\ n.blocked_on[from] = NULL
       /\ ~n.runqueue[from] /\ ~n.currently_running[from] /\ n.saved[from]
  <2>1. from \notin B
    BY <1>3 DEF B
  <2>2. n.exec_mode[from] = {SUSPENDED} /\ n.blocked_on[from] = NULL
    BY <1>3, <1>8, <2>1
  <2>3. ~n.runqueue[from] /\ ~n.currently_running[from] /\ n.saved[from]
    BY <1>3, <1>8, <2>1
  <2> QED
    BY <2>2, <2>3
<1>11. ASSUME NEW u \in Thread, u # to, u # from
       PROVE  /\ n.exec_mode[u] = m.exec_mode[u] /\ n.blocked_on[u] = m.blocked_on[u]
              /\ n.runqueue[u] <=> m.runqueue[u]
              /\ n.currently_running[u] <=> m.currently_running[u]
              /\ n.saved[u] <=> m.saved[u]
  <2>1. u \in B <=> u \in A
    BY <1>11 DEF B
  <2>2. n.exec_mode[u] = m.exec_mode[u] /\ n.blocked_on[u] = m.blocked_on[u]
    BY <1>1, <1>6, <1>8, <1>11, <1>u, <2>1
  <2>3. /\ n.runqueue[u] <=> m.runqueue[u]
        /\ n.currently_running[u] <=> m.currently_running[u]
        /\ n.saved[u] <=> m.saved[u]
    BY <1>1, <1>6, <1>8, <1>11, <1>u, <2>1
  <2> QED
    BY <2>2, <2>3
<1>12. /\ n.current_thread = cur /\ n.cpu = cur
       /\ n.pending_context_switch = m.pending_context_switch /\ n.endpoints = m.endpoints
       /\ n.priority_queue = o.priority_queue /\ n.runqueue_entry = o.runqueue_entry
       /\ n.blocked_queue = o.blocked_queue /\ n.blocked_sending = o.blocked_sending
       /\ n.blocked_receiving = o.blocked_receiving
       /\ \A u \in Thread : u # to => /\ n.message_buffer[u] = m.message_buffer[u]
                                      /\ n.sending_badge[u] = m.sending_badge[u]
  <2>1. n.message_buffer = buffer /\ n.sending_badge = badge
    BY <1>6, <1>8 DEF SameButMixed
  <2> QED
    BY <1>6, <1>8, <1>b, <1>u, <2>1 DEF SameButMixed
<1>13. RunInv(n)
  <2> DEFINE g == CopyLinks(m.runqueue_entry, from, to)
  <2>1. ASSUME m.runqueue[from]
        PROVE  /\ PrevKnown(m, from)
               /\ n.priority_queue = LIST_UPDATE_ADDRESS(m.priority_queue, g, to).container
               /\ n.runqueue_entry = LIST_UPDATE_ADDRESS(m.priority_queue, g, to).field
    BY <1>5, <1>12, <1>a, <1>b, <1>c, <1>k, <2>1 DEF KnownPlace, r
  <2>2. ASSUME ~m.runqueue[from]
        PROVE  n.priority_queue = m.priority_queue /\ n.runqueue_entry = g
    BY <1>5, <1>12, <1>a, <1>b, <1>c, <2>2
  <2>3. m.current_thread # to
        /\ n.current_thread = (IF m.current_thread = from THEN to ELSE m.current_thread)
    BY <1>0, <1>2, <1>12
  <2>4. /\ m \in KernelState /\ n \in KernelState /\ RunInv(m)
        /\ from \in Thread /\ to \in Thread /\ from # to /\ ~m.runqueue[to]
    BY <1>1, <1>2, <1>3, <1>8, <1>k
  <2>5. (n.runqueue[to] <=> m.runqueue[from]) /\ n.exec_mode[to] = m.exec_mode[from]
    BY <1>9
  <2>6. ~n.runqueue[from] /\ n.exec_mode[from] = {SUSPENDED}
    BY <1>10
  <2>7. \A u \in Thread : u # to /\ u # from => /\ n.runqueue[u] <=> m.runqueue[u]
                                                /\ n.exec_mode[u] = m.exec_mode[u]
    BY <1>11
  <2> HIDE DEF g, cur
  <2>8. g = CopyLinks(m.runqueue_entry, from, to)
    BY DEF g
  <2> QED
    BY <2>1, <2>2, <2>3, <2>4, <2>5, <2>6, <2>7, <2>8, RunnerMoves
<1>14. QueuesInv(n)
  <2>1. CASE e = NULL
    <3>1. n.blocked_on = m.blocked_on
      <4>1. \A u \in Thread : n.blocked_on[u] = m.blocked_on[u]
        BY <1>2, <1>9, <1>10, <1>11, <1>a, <2>1
      <4> QED
        BY <1>1, <1>8, <4>1 DEF KernelState
    <3>2. ASSUME NEW u \in Thread, m.blocked_on[u] # NULL
          PROVE  /\ n.blocked_queue.next[u] = m.blocked_queue.next[u]
                 /\ n.message_buffer[u] = m.message_buffer[u]
                 /\ n.sending_badge[u] = m.sending_badge[u]
      <4>1. u # to
        BY <1>2, <3>2
      <4>2. n.blocked_queue = waiting
        BY <1>4, <1>5, <1>12, <2>1 DEF WaitersSame
      <4> QED
        BY <1>12, <1>b, <1>u, <4>1, <4>2
    <3>3. /\ n.endpoints = m.endpoints /\ n.blocked_sending = m.blocked_sending
          /\ n.blocked_receiving = m.blocked_receiving
      BY <1>4, <1>5, <1>12, <1>b, <2>1 DEF WaitersSame
    <3> QED
      BY <1>1, <1>8, <1>k, <3>1, <3>2, <3>3, WaitersKept
  <2>2. CASE e # NULL
    <3>1. e = m.blocked_on[from] /\ KnownIn(m, from, flag) /\ m.blocked_on[to] = NULL
      BY <1>2, <1>a, <1>y, <2>2
    <3>2. l = LIST_UPDATE_ADDRESS(Queues(m, flag)[e], CopyLinks(m.blocked_queue, from, to), to)
      BY <1>y, <2>2, <3>1
    <3>3. n.blocked_queue = l.field
      BY <1>5, <1>12, <2>2 DEF WaitersSet
    <3>4. IF flag = "SEND"
          THEN /\ n.blocked_sending = [m.blocked_sending EXCEPT ![e] = l.container]
               /\ n.blocked_receiving = m.blocked_receiving
          ELSE /\ n.blocked_receiving = [m.blocked_receiving EXCEPT ![e] = l.container]
               /\ n.blocked_sending = m.blocked_sending
      BY <1>4, <1>5, <1>12, <1>b, <2>2 DEF WaitersSet
    <3>5. /\ n.blocked_on \in [Thread -> Endpoint \cup {NULL}]
          /\ n.blocked_on[to] = e /\ n.blocked_on[from] = NULL
          /\ \A u \in Thread : u # to /\ u # from => n.blocked_on[u] = m.blocked_on[u]
      BY <1>8, <1>9, <1>10, <1>11, <3>1 DEF KernelState
    <3>6. /\ n.message_buffer[to] = m.message_buffer[from]
          /\ n.sending_badge[to] = m.sending_badge[from]
          /\ \A u \in Thread : u # to => /\ n.message_buffer[u] = m.message_buffer[u]
                                         /\ n.sending_badge[u] = m.sending_badge[u]
      BY <1>9, <1>12
    <3>7. /\ m \in KernelState /\ QueuesInv(m) /\ ModesInv(m) /\ n.endpoints = m.endpoints
          /\ from \in Thread /\ from # to
      BY <1>1, <1>3, <1>12, <1>k
    <3> QED
      BY <1>f, <2>2, <3>1, <3>2, <3>3, <3>4, <3>5, <3>6, <3>7, WaiterMoves
  <2> QED
    BY <2>1, <2>2
<1>15. CpuHeld(n)
  <2>1. /\ m.current_thread \in Thread /\ m.exec_mode[m.current_thread] = RUNNING
        /\ \A u \in Thread : /\ m.saved[u] <=> u # m.current_thread
                             /\ m.currently_running[u] <=> u = m.current_thread
    BY <1>0 DEF Entered, Handled, CpuHeld
  <2>2. cur # NULL /\ cur \in Thread
    BY <1>0, ThreadAssumption
  <2>3. n.exec_mode[cur] = RUNNING
    BY <1>0, <1>2, <1>9, <1>11, <2>1
  <2>4. ASSUME NEW u \in Thread
        PROVE  (n.saved[u] <=> u # cur) /\ (n.currently_running[u] <=> u = cur)
    <3>1. CASE u = to
      BY <1>0, <1>2, <1>3, <1>9, <2>1, <3>1
    <3>2. CASE u = from
      BY <1>0, <1>3, <1>10, <3>2
    <3>3. CASE u # to /\ u # from
      BY <1>0, <1>11, <2>1, <3>3
    <3> QED
      BY <3>1, <3>2, <3>3
  <2> HIDE DEF cur
  <2> QED
    BY <1>12, <2>2, <2>3, <2>4 DEF CpuHeld
<1>16. ModesInv(n)
  <2>1. ASSUME NEW u \in Thread
        PROVE  /\ BLOCKED \in m.exec_mode[u] <=> m.blocked_on[u] # NULL
               /\ m.blocked_on[u] \in m.endpoints \cup {NULL}
    BY <1>k DEF ModesInv
  <2>2. ASSUME NEW u \in Thread
        PROVE  /\ BLOCKED \in n.exec_mode[u] <=> n.blocked_on[u] # NULL
               /\ n.blocked_on[u] \in n.endpoints \cup {NULL}
    <3>1. CASE u = to
      BY <1>3, <1>9, <1>12, <2>1, <3>1
    <3>2. CASE u = from
      BY <1>10, <3>2 DEF BLOCKED, SUSPENDED
    <3>3. CASE u # to /\ u # from
      BY <1>11, <1>12, <2>1, <3>3
    <3> QED
      BY <3>1, <3>2, <3>3
  <2> QED
    BY <2>2 DEF ModesInv
<1>17. Handled(n)
  BY <1>8, <1>13, <1>14, <1>15, <1>16 DEF Handled
<1> QED
  BY <1>6, <1>7, <1>17 DEF LiveHandled, n, q, p, B

(* on_endpoint_moved.                                                      *)
LEMMA LiveEndpointMoved ==
  ASSUME NEW k, NEW A, LiveEntered(k, A), NEW from \in k.endpoints, NEW to \in Endpoint,
         to \notin k.endpoints
  PROVE  LiveHandled(on_endpoint_moved(k, from, to), A)
<1> DEFINE m == Live(k, A)
           q == on_endpoint_moved(k, from, to)
           n == Live(q, A)
           W == Senders(k, from) \cup Receivers(k, from)
           on == [t \in Thread |-> IF t \in W THEN to ELSE k.blocked_on[t]]
           sending == [k.blocked_sending EXCEPT ![to] = k.blocked_sending[from], ![from] = LIST_INIT]
           receiving == [k.blocked_receiving EXCEPT ![to] = k.blocked_receiving[from],
                                                    ![from] = LIST_INIT]
           known == (k.endpoints \ {from}) \cup {to}
<1>0. /\ A \in SUBSET Thread /\ k \in KernelState /\ Handled(m) /\ SameButMixed(k, m)
  BY LiveEnteredFacts
<1>1. /\ m \in KernelState
      /\ m.exec_mode = [u \in Thread |-> IF u \in A THEN k.exec_mode[u] ELSE {SUSPENDED}]
      /\ m.currently_running = [u \in Thread |-> u \in A /\ k.currently_running[u]]
      /\ m.runqueue = [u \in Thread |-> u \in A /\ k.runqueue[u]]
      /\ m.saved = [u \in Thread |-> u \in A => k.saved[u]]
      /\ m.blocked_on = [u \in Thread |-> IF u \in A THEN k.blocked_on[u] ELSE NULL]
  BY <1>0, LiveFields
<1>2. q = [k EXCEPT !.blocked_on = on, !.blocked_sending = sending,
                    !.blocked_receiving = receiving, !.endpoints = known]
  BY DEF on_endpoint_moved, Senders, Receivers, Waiting
<1>3. /\ k.endpoints \in SUBSET Endpoint /\ from \in Endpoint /\ from # to
      /\ k.blocked_on \in [Thread -> Endpoint \cup {NULL}]
      /\ k.blocked_sending \in [Endpoint -> Container(Thread)]
      /\ k.blocked_receiving \in [Endpoint -> Container(Thread)]
      /\ to # NULL /\ from # NULL
  BY <1>0, IpcAssumption DEF KernelState
<1>4. /\ on \in [Thread -> Endpoint \cup {NULL}] /\ known \in SUBSET Endpoint
      /\ sending \in [Endpoint -> Container(Thread)]
      /\ receiving \in [Endpoint -> Container(Thread)]
  BY <1>3 DEF LIST_INIT, Container
<1>5. /\ sending[to] = k.blocked_sending[from] /\ receiving[to] = k.blocked_receiving[from]
      /\ \A d \in known : d # to => /\ sending[d] = k.blocked_sending[d] /\ d # from
                                    /\ receiving[d] = k.blocked_receiving[d] /\ d \in k.endpoints
      /\ to \in known
  BY <1>3
<1> HIDE DEF m, q, on, sending, receiving, known
<1>6. /\ q \in KernelState /\ q.blocked_on = on /\ q.blocked_sending = sending
      /\ q.blocked_receiving = receiving /\ q.endpoints = known
      /\ q.exec_mode = k.exec_mode /\ q.runqueue = k.runqueue
      /\ q.runqueue_entry = k.runqueue_entry /\ q.priority_queue = k.priority_queue
      /\ q.current_thread = k.current_thread /\ q.cpu = k.cpu
      /\ q.pending_context_switch = k.pending_context_switch
      /\ q.currently_running = k.currently_running /\ q.saved = k.saved
      /\ q.blocked_queue = k.blocked_queue /\ q.message_buffer = k.message_buffer
      /\ q.sending_badge = k.sending_badge
  BY <1>0, <1>2, <1>4 DEF KernelState
<1>7. /\ n \in KernelState /\ SameButMixed(q, n)
      /\ n.exec_mode = [u \in Thread |-> IF u \in A THEN q.exec_mode[u] ELSE {SUSPENDED}]
      /\ n.currently_running = [u \in Thread |-> u \in A /\ q.currently_running[u]]
      /\ n.runqueue = [u \in Thread |-> u \in A /\ q.runqueue[u]]
      /\ n.saved = [u \in Thread |-> u \in A => q.saved[u]]
      /\ n.blocked_on = [u \in Thread |-> IF u \in A THEN q.blocked_on[u] ELSE NULL]
  BY <1>0, <1>6, LiveFields
<1> HIDE DEF n
<1>8. /\ n.exec_mode = m.exec_mode /\ n.currently_running = m.currently_running
      /\ n.saved = m.saved /\ n.runqueue = m.runqueue
  BY <1>1, <1>6, <1>7
<1>9. AllSchedulerFrame(m, n)
  BY <1>0, <1>6, <1>7, <1>8 DEF SameButMixed, AllSchedulerFrame, SchedulerFrame, RunQueueFrame
<1>10. RunInv(n) /\ CpuHeld(n)
  BY <1>0, <1>9, FramedScheduler DEF Handled, CpuHeld, AllSchedulerFrame, SchedulerFrame
<1>11. /\ m.endpoints = k.endpoints /\ m.blocked_sending = k.blocked_sending
       /\ m.blocked_receiving = k.blocked_receiving /\ m.blocked_queue = k.blocked_queue
       /\ m.message_buffer = k.message_buffer /\ m.sending_badge = k.sending_badge
       /\ n.endpoints = known /\ n.blocked_sending = sending
       /\ n.blocked_receiving = receiving /\ n.blocked_queue = k.blocked_queue
       /\ n.message_buffer = k.message_buffer /\ n.sending_badge = k.sending_badge
  BY <1>0, <1>6, <1>7 DEF SameButMixed, EndpointFrame
<1>12. ASSUME NEW d \in k.endpoints
       PROVE  /\ TwoQueues(k.blocked_sending, k.blocked_receiving, k.blocked_queue, m.blocked_on, d)
              /\ \A t \in Waiting(k.blocked_sending, k.blocked_queue, d) :
                   k.message_buffer[t] \in SendMessages /\ k.sending_badge[t] \in Badge
  BY <1>0, <1>11 DEF Handled, QueuesInv
<1>13. W = {t \in Thread : m.blocked_on[t] = from}
  BY <1>12 DEF TwoQueues, Senders, Receivers
<1>n. ASSUME NEW t \in Thread
      PROVE  n.blocked_on[t] = IF m.blocked_on[t] = from THEN to ELSE m.blocked_on[t]
  <2>1. CASE t \in A
    <3>1. m.blocked_on[t] = k.blocked_on[t] /\ n.blocked_on[t] = on[t]
      BY <1>1, <1>6, <1>7, <2>1
    <3> QED
      BY <1>13, <3>1 DEF on
  <2>2. CASE t \notin A
    BY <1>1, <1>3, <1>7, <2>2
  <2> QED
    BY <2>1, <2>2
<1>14. ASSUME NEW t \in Thread
       PROVE  /\ BLOCKED \in m.exec_mode[t] <=> m.blocked_on[t] # NULL
              /\ m.blocked_on[t] \in k.endpoints \cup {NULL}
  BY <1>0, <1>11 DEF Handled, ModesInv
<1>15. /\ {t \in Thread : n.blocked_on[t] = to} = {t \in Thread : m.blocked_on[t] = from}
       /\ \A d \in known : d # to =>
            {t \in Thread : n.blocked_on[t] = d} = {t \in Thread : m.blocked_on[t] = d}
  <2>1. ASSUME NEW t \in Thread
        PROVE  n.blocked_on[t] = IF m.blocked_on[t] = from THEN to ELSE m.blocked_on[t]
    BY <1>n
  <2>2. ASSUME NEW t \in Thread
        PROVE  m.blocked_on[t] # to
    BY <1>3, <1>14
  <2> QED
    BY <1>3, <1>5, <2>1, <2>2
<1>16. QueuesInv(n)
  <2>1. ASSUME NEW d \in known, NEW c \in k.endpoints,
               sending[d] = k.blocked_sending[c], receiving[d] = k.blocked_receiving[c],
               {t \in Thread : n.blocked_on[t] = d} = {t \in Thread : m.blocked_on[t] = c}
        PROVE  /\ TwoQueues(sending, receiving, k.blocked_queue, n.blocked_on, d)
               /\ \A t \in Waiting(sending, k.blocked_queue, d) :
                    k.message_buffer[t] \in SendMessages /\ k.sending_badge[t] \in Badge
    <3>1. /\ Waiting(sending, k.blocked_queue, d) = Waiting(k.blocked_sending, k.blocked_queue, c)
          /\ Waiting(receiving, k.blocked_queue, d) = Waiting(k.blocked_receiving, k.blocked_queue, c)
      BY <2>1 DEF Waiting
    <3> QED
      BY <1>12, <2>1, <3>1 DEF TwoQueues
  <2>2. ASSUME NEW d \in known
        PROVE  /\ TwoQueues(sending, receiving, k.blocked_queue, n.blocked_on, d)
               /\ \A t \in Waiting(sending, k.blocked_queue, d) :
                    k.message_buffer[t] \in SendMessages /\ k.sending_badge[t] \in Badge
    <3>1. CASE d = to
      BY <1>5, <1>15, <2>1, <3>1
    <3>2. CASE d # to
      BY <1>5, <1>15, <2>1, <3>2
    <3> QED
      BY <3>1, <3>2
  <2> QED
    BY <1>11, <2>2 DEF QueuesInv
<1>17. ModesInv(n)
  <2>1. ASSUME NEW t \in Thread
        PROVE  /\ BLOCKED \in n.exec_mode[t] <=> n.blocked_on[t] # NULL
               /\ n.blocked_on[t] \in n.endpoints \cup {NULL}
    <3>1. n.blocked_on[t] = IF m.blocked_on[t] = from THEN to ELSE m.blocked_on[t]
      BY <1>n
    <3>2. k.endpoints \ {from} \subseteq known
      BY DEF known
    <3> QED
      BY <1>3, <1>5, <1>8, <1>11, <1>14, <3>1, <3>2
  <2> QED
    BY <2>1 DEF ModesInv
<1>18. Handled(n)
  BY <1>7, <1>10, <1>16, <1>17 DEF Handled
<1> QED
  BY <1>0, <1>6, <1>18 DEF LiveHandled, n, q

-----------------------------------------------------------------------------
(* The invariant holds.                                                    *)

(* A trap is entered with the invariant, the running thread exists.        *)
LEMMA LiveEntry ==
  ASSUME ObjectsInv, current_thread # NULL
  PROVE  /\ LiveEntered(K0, allocated)
         /\ K0.current_thread = current_thread /\ K0.endpoints = endpoints
         /\ current_thread \in allocated /\ allocated \subseteq Thread
<1> DEFINE m == Live(K, allocated)
           n == Live(K0, allocated)
<1>0. K \in KernelState /\ allocated \in SUBSET Thread /\ IInv(m)
  BY DEF ObjectsInv, LiveInv
<1>1. K0 \in KernelState
  BY <1>0 DEF K0, KernelState
<1>2. /\ m \in KernelState /\ SameButMixed(K, m)
      /\ m.exec_mode = [u \in Thread |-> IF u \in allocated THEN K.exec_mode[u] ELSE {SUSPENDED}]
      /\ m.currently_running = [u \in Thread |-> u \in allocated /\ K.currently_running[u]]
      /\ m.runqueue = [u \in Thread |-> u \in allocated /\ K.runqueue[u]]
      /\ m.saved = [u \in Thread |-> u \in allocated => K.saved[u]]
      /\ m.blocked_on = [u \in Thread |-> IF u \in allocated THEN K.blocked_on[u] ELSE NULL]
  BY <1>0, LiveFields
<1>3. /\ n \in KernelState /\ SameButMixed(K0, n)
      /\ n.exec_mode = [u \in Thread |-> IF u \in allocated THEN K0.exec_mode[u] ELSE {SUSPENDED}]
      /\ n.currently_running = [u \in Thread |-> u \in allocated /\ K0.currently_running[u]]
      /\ n.runqueue = [u \in Thread |-> u \in allocated /\ K0.runqueue[u]]
      /\ n.saved = [u \in Thread |-> u \in allocated => K0.saved[u]]
      /\ n.blocked_on = [u \in Thread |-> IF u \in allocated THEN K0.blocked_on[u] ELSE NULL]
  BY <1>0, <1>1, LiveFields
<1>4. /\ K0.exec_mode = K.exec_mode /\ K0.currently_running = K.currently_running
      /\ K0.saved = K.saved /\ K0.runqueue = K.runqueue
      /\ K0.runqueue_entry = K.runqueue_entry /\ K0.priority_queue = K.priority_queue
      /\ K0.current_thread = K.current_thread /\ K0.cpu = K.cpu
      /\ K0.pending_context_switch = K.pending_context_switch
      /\ K0.endpoints = K.endpoints /\ K0.blocked_sending = K.blocked_sending
      /\ K0.blocked_receiving = K.blocked_receiving /\ K0.blocked_queue = K.blocked_queue
      /\ K0.blocked_on = K.blocked_on /\ K0.message_buffer = K.message_buffer
      /\ K0.sending_badge = K.sending_badge
  BY DEF K0, K
<1>5. K.current_thread = current_thread /\ K.endpoints = endpoints
  BY DEF K
<1> HIDE DEF m, n
<1>6. AllSchedulerFrame(m, n)
  BY <1>2, <1>3, <1>4 DEF AllSchedulerFrame, SchedulerFrame, RunQueueFrame, SameButMixed
<1>7. /\ n.endpoints = m.endpoints /\ n.blocked_sending = m.blocked_sending
      /\ n.blocked_receiving = m.blocked_receiving /\ n.blocked_queue = m.blocked_queue
      /\ n.blocked_on = m.blocked_on /\ n.message_buffer = m.message_buffer
      /\ n.sending_badge = m.sending_badge
  BY <1>2, <1>3, <1>4 DEF SameButMixed, EndpointFrame
<1>8. m.current_thread = current_thread
  BY <1>2, <1>5 DEF SameButMixed
<1>9. RunInv(n)
  BY <1>0, <1>6, FramedScheduler DEF IInv
<1>10. n.exec_mode[n.current_thread] = RUNNING /\ CpuHeld(n)
  BY <1>0, <1>6, <1>8 DEF IInv, CpuInv, CpuHeld, AllSchedulerFrame, SchedulerFrame
<1>11. QueuesInv(n)
  BY <1>0, <1>7 DEF IInv, QueuesInv
<1>12. ModesInv(n)
  BY <1>0, <1>6, <1>7 DEF IInv, ModesInv, AllSchedulerFrame
<1>13. LiveEntered(K0, allocated)
  BY <1>0, <1>1, <1>3, <1>9, <1>10, <1>11, <1>12 DEF LiveEntered, Entered, Handled, n
<1>14. K0.current_thread \in allocated
  BY <1>13, LiveEnteredFacts
<1> QED
  BY <1>0, <1>4, <1>5, <1>13, <1>14

(* Only the root thread exists, and nothing is left over yet.              *)
LEMMA LiveInit == ObjectsInit => ObjectsInv
<1> SUFFICES ASSUME ObjectsInit
             PROVE  ObjectsInv
  OBVIOUS
<1>1. PICK r \in Thread :
        /\ exec_mode = [t \in Thread |-> IF t = r THEN RUNNING ELSE {SUSPENDED}]
        /\ currently_running = [t \in Thread |-> t = r]
        /\ saved = [t \in Thread |-> t # r]
        /\ current_thread = r
        /\ runqueue = [t \in Thread |-> FALSE]
        /\ blocked_on = [t \in Thread |-> NULL]
  BY DEF ObjectsInit, Init
<1>2. allocated = {r}
  BY <1>1 DEF ObjectsInit
<1>3. IInv(K)
  BY InitInv DEF ObjectsInit
<1>4. K \in KernelState /\ allocated \in SUBSET Thread
  BY <1>2, <1>3 DEF IInv
<1>5. /\ Mix(allocated, K.exec_mode, Dead.exec_mode) = K.exec_mode
      /\ Mix(allocated, K.currently_running, Dead.currently_running) = K.currently_running
      /\ Mix(allocated, K.saved, Dead.saved) = K.saved
      /\ Mix(allocated, K.runqueue, Dead.runqueue) = K.runqueue
      /\ Mix(allocated, K.blocked_on, Dead.blocked_on) = K.blocked_on
  <2>1. /\ K.exec_mode = exec_mode /\ K.currently_running = currently_running
        /\ K.saved = saved /\ K.runqueue = runqueue /\ K.blocked_on = blocked_on
    BY DEF K
  <2>2. Mix(allocated, exec_mode, Dead.exec_mode) = exec_mode
    BY <1>1, <1>2 DEF Mix, Dead
  <2>3. Mix(allocated, currently_running, Dead.currently_running) = currently_running
    BY <1>1, <1>2 DEF Mix, Dead
  <2>4. Mix(allocated, saved, Dead.saved) = saved
    BY <1>1, <1>2 DEF Mix, Dead
  <2>5. Mix(allocated, runqueue, Dead.runqueue) = runqueue
    BY <1>1 DEF Mix, Dead
  <2>6. Mix(allocated, blocked_on, Dead.blocked_on) = blocked_on
    BY <1>1 DEF Mix, Dead
  <2> QED
    BY <2>1, <2>2, <2>3, <2>4, <2>5, <2>6
<1>6. Live(K, allocated) = K
  <2>1. IsState(K)
    BY <1>4, StateShape
  <2> DEFINE k == K
  <2>2. IsState(k) /\ Live(K, allocated) = Over(allocated, k, Dead)
    BY <2>1 DEF Live
  <2>3. /\ Mix(allocated, k.exec_mode, Dead.exec_mode) = k.exec_mode
        /\ Mix(allocated, k.currently_running, Dead.currently_running) = k.currently_running
        /\ Mix(allocated, k.saved, Dead.saved) = k.saved
        /\ Mix(allocated, k.runqueue, Dead.runqueue) = k.runqueue
        /\ Mix(allocated, k.blocked_on, Dead.blocked_on) = k.blocked_on
    BY <1>5
  <2> HIDE DEF k
  <2>4. Over(allocated, k, Dead) = k
    BY <2>2, <2>3 DEF Over, IsState, Fields
  <2> QED
    BY <2>2, <2>4 DEF k
<1> QED
  BY <1>3, <1>4, <1>6 DEF ObjectsInv, LiveInv

(* The calls in which the kernel does not keep its lists (see the README). *)
UnmaintainedCalls == {"suspend_stale", "delete_thread_stale", "delete_thread_running",
                      "relocate_stale"}

(* What RunnerKnown says, of a kernel state.                               *)
KnownRunner(m, t) == m.runqueue[t] => PrevKnown(m, t)

(* A thread that knows its place does so in the live part of the state.    *)
LEMMA PlaceLive ==
  ASSUME ObjectsInv, current_thread # NULL, NEW t \in allocated
  PROVE  /\ RunnerKnown(t) => KnownRunner(Live(K0, allocated), t)
         /\ PlaceKnown(t) => KnownPlace(Live(K0, allocated), t)
<1> DEFINE n == Live(K0, allocated)
<1>1. K0 \in KernelState /\ allocated \in SUBSET Thread /\ t \in Thread
  BY DEF ObjectsInv, LiveInv, K0, KernelState
<1>2. /\ SameButMixed(K0, n)
      /\ n.runqueue = [u \in Thread |-> u \in allocated /\ K0.runqueue[u]]
      /\ n.blocked_on = [u \in Thread |-> IF u \in allocated THEN K0.blocked_on[u] ELSE NULL]
  BY <1>1, LiveFields
<1>3. /\ K0.priority_queue = priority_queue /\ K0.runqueue_entry = runqueue_entry
      /\ K0.blocked_queue = blocked_queue /\ K0.blocked_flags = blocked_flags
      /\ K0.blocked_sending = blocked_sending /\ K0.blocked_receiving = blocked_receiving
      /\ K0.runqueue = runqueue /\ K0.blocked_on = blocked_on
  BY DEF K0, K
<1> HIDE DEF n
<1>4. /\ n.priority_queue = priority_queue /\ n.runqueue_entry = runqueue_entry
      /\ n.blocked_queue = blocked_queue /\ n.blocked_flags = blocked_flags
      /\ n.blocked_sending = blocked_sending /\ n.blocked_receiving = blocked_receiving
      /\ (n.runqueue[t] <=> runqueue[t]) /\ n.blocked_on[t] = blocked_on[t]
  BY <1>1, <1>2, <1>3 DEF SameButMixed
<1>5. Queued(n) = Members(Thread, priority_queue.start, runqueue_entry.next)
  <2>1. Handled(n)
    BY LiveEntry, LiveEnteredFacts DEF n
  <2>2. IsQueueOf(n.priority_queue, n.runqueue_entry.next, Thread, Queued(n))
    BY <2>1 DEF Handled, RunInv, RunQueueIs
  <2> QED
    BY <1>4, <2>2 DEF IsQueueOf
<1>6. RunnerKnown(t) => KnownRunner(n, t)
  BY <1>4, <1>5 DEF RunnerKnown, KnownRunner, PrevKnown
<1>7. ASSUME WaiterKnown(t), n.blocked_on[t] # NULL
      PROVE  IF "SEND" \in n.blocked_flags[t] THEN KnownIn(n, t, "SEND")
             ELSE "RECEIVE" \in n.blocked_flags[t] /\ KnownIn(n, t, "RECEIVE")
  <2> DEFINE e == blocked_on[t]
  <2>1. /\ Waiting(n.blocked_sending, n.blocked_queue, e) = Sending(e)
        /\ Waiting(n.blocked_receiving, n.blocked_queue, e) = Receiving(e)
    BY <1>4 DEF Waiting, Sending, Receiving
  <2>2. e # NULL /\ n.blocked_on[t] = e
    BY <1>4, <1>7
  <2> HIDE DEF e
  <2>3. IF "SEND" \in blocked_flags[t]
        THEN /\ t \in Sending(e)
             /\ PrevAccurate(blocked_sending[e], blocked_queue, Sending(e), t)
        ELSE /\ "RECEIVE" \in blocked_flags[t] /\ t \in Receiving(e)
             /\ PrevAccurate(blocked_receiving[e], blocked_queue, Receiving(e), t)
    BY <1>7, <2>2 DEF WaiterKnown, e
  <2>4. CASE "SEND" \in blocked_flags[t]
    BY <1>4, <2>1, <2>2, <2>3, <2>4 DEF KnownIn, Queues
  <2>5. CASE "SEND" \notin blocked_flags[t]
    BY <1>4, <2>1, <2>2, <2>3, <2>5 DEF KnownIn, Queues
  <2> QED
    BY <2>4, <2>5
<1> QED
  BY <1>6, <1>7 DEF PlaceKnown, KnownPlace, KnownRunner, n

(* Every step keeps the invariant.                                         *)
LEMMA LiveNext ==
  ASSUME Calls \cap UnmaintainedCalls = {}, ObjectsInv, [ObjectsNext]_objectVars
  PROVE  ObjectsInv'
<1>0. current_thread # NULL =>
        /\ LiveEntered(K0, allocated)
        /\ K0.current_thread = current_thread /\ K0.endpoints = endpoints
        /\ current_thread \in allocated /\ allocated \subseteq Thread
  BY LiveEntry
<1>1. ASSUME NEW k, NEW call, NEW A, Trap(call, k), LiveHandled(k, A), allocated' = A
      PROVE  ObjectsInv'
  <2>1. LiveInv(K', A)
    BY <1>1, LiveTrap
  <2> QED
    BY <1>1, <2>1 DEF ObjectsInv
<1>2. ASSUME Yield, allocated' = allocated
      PROVE  ObjectsInv'
  <2>1. Trap("yield", yield_thread(K0)) /\ current_thread # NULL
    BY <1>2 DEF Yield, Trap
  <2>2. LiveHandled(yield_thread(K0), allocated)
    BY <1>0, <2>1, LiveYield
  <2> QED
    BY <1>1, <1>2, <2>1, <2>2
<1>3. ASSUME Exception, allocated' = allocated
      PROVE  ObjectsInv'
  <2>1. /\ Trap("exception", suspend_thread(K0, current_thread, SUSPENDED))
        /\ current_thread # NULL
    BY <1>3 DEF Exception, Trap
  <2>2. LiveHandled(suspend_thread(K0, current_thread, SUSPENDED), allocated)
    BY <1>0, <2>1, LiveSuspend
  <2> QED
    BY <1>1, <1>3, <2>1, <2>2
<1>4. ASSUME NEW e \in Endpoint, NEW badge \in Badge, NEW m \in SendMessages,
             Send(e, badge, m), allocated' = allocated
      PROVE  ObjectsInv'
  <2>1. /\ e \in endpoints /\ Trap("send", endpoint_send(K0, e, badge, m))
        /\ current_thread # NULL
    BY <1>4 DEF Send, Trap
  <2>2. LiveHandled(endpoint_send(K0, e, badge, m), allocated)
    BY <1>0, <2>1, LiveSend
  <2> QED
    BY <1>1, <1>4, <2>1, <2>2
<1>5. ASSUME NEW e \in Endpoint, NEW badge \in Badge, NEW m \in RecvMessages,
             Receive(e, badge, m), allocated' = allocated
      PROVE  ObjectsInv'
  <2>1. /\ e \in endpoints /\ Trap("receive", endpoint_receive(K0, e, badge, m))
        /\ current_thread # NULL
    BY <1>5 DEF Receive, Trap
  <2>2. LiveHandled(endpoint_receive(K0, e, badge, m), allocated)
    BY <1>0, <2>1, LiveReceive
  <2> QED
    BY <1>1, <1>5, <2>1, <2>2
<1>6. ASSUME NEW t \in allocated, Resume(t), allocated' = allocated
      PROVE  ObjectsInv'
  <2>1. Trap("resume", resume_thread(K0, t, SUSPENDED)) /\ current_thread # NULL
    BY <1>6 DEF Resume, Trap
  <2>2. LiveHandled(resume_thread(K0, t, SUSPENDED), allocated)
    BY <1>0, <2>1, LiveResume
  <2> QED
    BY <1>1, <1>6, <2>1, <2>2
<1>7. ASSUME NEW t \in allocated, Suspend(t), allocated' = allocated
      PROVE  ObjectsInv'
  <2> DEFINE call == IF RunnerKnown(t) THEN "suspend" ELSE "suspend_stale"
  <2>1. Trap(call, suspend_thread(K0, t, SUSPENDED))
    BY <1>7 DEF Suspend
  <2>2. call \in Calls /\ current_thread # NULL
    BY <2>1 DEF Trap
  <2>3. RunnerKnown(t)
    BY <2>2 DEF UnmaintainedCalls
  <2> HIDE DEF call
  <2>4. K0.runqueue[t] => PrevKnown(Live(K0, allocated), t)
    <3>1. KnownRunner(Live(K0, allocated), t)
      BY <2>2, <2>3, PlaceLive
    <3>0. K0 \in KernelState /\ allocated \in SUBSET Thread
      BY <1>0, <2>2 DEF LiveEntered
    <3>2. Live(K0, allocated).runqueue = [u \in Thread |-> u \in allocated /\ K0.runqueue[u]]
      BY <3>0, LiveFields
    <3> QED
      BY <1>0, <2>2, <3>1, <3>2 DEF KnownRunner
  <2>5. LiveHandled(suspend_thread(K0, t, SUSPENDED), allocated)
    BY <1>0, <2>2, <2>4, LiveSuspend
  <2> QED
    BY <1>1, <1>7, <2>1, <2>5
<1>8. ASSUME NEW e \in Endpoint, AllocEndpoint(e), allocated' = allocated
      PROVE  ObjectsInv'
  <2>1. /\ e \notin endpoints /\ Trap("alloc_endpoint", alloc_endpoint(K0, e))
        /\ current_thread # NULL
    BY <1>8 DEF AllocEndpoint, Trap
  <2>2. LiveHandled(alloc_endpoint(K0, e), allocated)
    BY <1>0, <2>1, LiveAllocEndpoint
  <2> QED
    BY <1>1, <1>8, <2>1, <2>2
<1>9. ASSUME NEW e \in Endpoint, DeleteEndpoint(e), allocated' = allocated
      PROVE  ObjectsInv'
  <2>1. /\ e \in endpoints /\ Trap("delete_endpoint", endpoint_destructor(K0, e))
        /\ current_thread # NULL
    BY <1>9 DEF DeleteEndpoint, Trap
  <2>2. LiveHandled(endpoint_destructor(K0, e), allocated)
    BY <1>0, <2>1, LiveDestroyEndpoint
  <2> QED
    BY <1>1, <1>9, <2>1, <2>2
<1>10. ASSUME NEW t \in Thread, NEW call \in {"alloc_thread", "alloc_thread_failing"},
              AllocThread(t, call)
       PROVE  ObjectsInv'
  <2> DEFINE B == IF call = "alloc_thread" THEN allocated \cup {t} ELSE allocated
  <2>1. /\ t \notin allocated /\ Trap(call, cleared_thread(K0, t)) /\ current_thread # NULL
        /\ allocated' = B /\ (B = allocated \/ B = allocated \cup {t})
    BY <1>10 DEF AllocThread, Trap
  <2> HIDE DEF B
  <2>2. LiveHandled(cleared_thread(K0, t), B)
    BY <1>0, <2>1, LiveClear
  <2> QED
    BY <1>1, <2>1, <2>2
<1>11. ASSUME NEW t \in Thread, SetRootNode(t)
       PROVE  ObjectsInv'
  <2>1. Trap("set_root_node", K0) /\ current_thread # NULL /\ allocated' = allocated
    BY <1>11 DEF SetRootNode, Trap
  <2>2. LiveHandled(K0, allocated)
    BY <1>0, <2>1, LiveEnteredFacts
  <2> QED
    BY <1>1, <2>1, <2>2
<1>12. ASSUME NEW t \in Thread, DeleteThread(t)
       PROVE  ObjectsInv'
  <2> DEFINE call == IF t = current_thread THEN "delete_thread_running"
                     ELSE IF PlaceKnown(t) THEN "delete_thread" ELSE "delete_thread_stale"
  <2>1. /\ t \in allocated /\ allocated' = allocated \ {t}
        /\ Trap(call, unlink_thread(K0, t))
    BY <1>12 DEF DeleteThread
  <2>2. call \in Calls /\ current_thread # NULL
    BY <2>1 DEF Trap
  <2>3. t # current_thread /\ PlaceKnown(t)
    BY <2>2 DEF UnmaintainedCalls
  <2> HIDE DEF call
  <2>5. KnownPlace(Live(K0, allocated), t)
    BY <2>1, <2>2, <2>3, PlaceLive
  <2>4. LiveHandled(unlink_thread(K0, t), allocated \ {t})
    BY <1>0, <2>1, <2>2, <2>3, <2>5, LiveUnlink
  <2> QED
    BY <1>1, <2>1, <2>4
<1>13. ASSUME NEW from \in Thread, NEW to \in Thread, RelocateThread(from, to)
       PROVE  ObjectsInv'
  <2> DEFINE call == IF PlaceKnown(from) THEN "relocate" ELSE "relocate_stale"
             k == on_thread_moved(copy_thread(K0, from, to), from, to)
  <2>1. /\ from \in allocated /\ to \notin allocated /\ Trap(call, k)
        /\ allocated' = (allocated \ {from}) \cup {to}
    BY <1>13 DEF RelocateThread
  <2>2. call \in Calls /\ current_thread # NULL
    BY <2>1 DEF Trap
  <2> HIDE DEF k
  <2>3. KnownPlace(Live(K0, allocated), from)
    BY <2>1, <2>2, PlaceLive DEF UnmaintainedCalls
  <2> HIDE DEF call
  <2>4. LiveHandled(k, (allocated \ {from}) \cup {to})
    BY <1>0, <2>1, <2>2, <2>3, LiveMoved DEF k
  <2> QED
    BY <1>1, <2>1, <2>4
<1>14. ASSUME NEW from \in Endpoint, NEW to \in Endpoint, RelocateEndpoint(from, to)
       PROVE  ObjectsInv'
  <2>1. /\ from \in endpoints /\ to \notin endpoints
        /\ Trap("relocate_endpoint", on_endpoint_moved(K0, from, to)) /\ current_thread # NULL
        /\ allocated' = allocated
    BY <1>14 DEF RelocateEndpoint, Trap, tableVars
  <2>2. LiveHandled(on_endpoint_moved(K0, from, to), allocated)
    BY <1>0, <2>1, LiveEndpointMoved
  <2> QED
    BY <1>1, <2>1, <2>2
<1>15. CASE UNCHANGED objectVars
  <2>1. K' = K /\ allocated' = allocated
    BY <1>15 DEF objectVars, tableVars, vars, schedulerVars, ipcVars, K
  <2> QED
    BY <2>1 DEF ObjectsInv
<1>16. UNCHANGED tableVars => allocated' = allocated
  BY DEF tableVars
<1>17. CASE Uninvoked
  BY <1>2, <1>3, <1>16, <1>17 DEF Uninvoked
<1>18. CASE Invoked
  BY <1>4, <1>5, <1>6, <1>7, <1>8, <1>9, <1>10, <1>11, <1>12, <1>13, <1>14, <1>16, <1>18
  DEF Invoked
<1> QED
  BY <1>15, <1>17, <1>18 DEF ObjectsNext

(* What the invariant says of the variables.                               *)
LEMMA LiveImplies ==
  ASSUME ObjectsInv, TableInv
  PROVE  ObjectsTypeOK /\ NoDanglingThread /\ QueuesFollowObjects
<1> DEFINE m == Live(K, allocated)
<1>0. K \in KernelState /\ allocated \in SUBSET Thread /\ IInv(m)
  BY DEF ObjectsInv, LiveInv
<1>1. /\ m \in KernelState /\ SameButMixed(K, m)
      /\ m.exec_mode = [u \in Thread |-> IF u \in allocated THEN K.exec_mode[u] ELSE {SUSPENDED}]
      /\ m.currently_running = [u \in Thread |-> u \in allocated /\ K.currently_running[u]]
      /\ m.runqueue = [u \in Thread |-> u \in allocated /\ K.runqueue[u]]
      /\ m.blocked_on = [u \in Thread |-> IF u \in allocated THEN K.blocked_on[u] ELSE NULL]
  BY <1>0, LiveFields
<1> HIDE DEF m
<1>2. /\ K.exec_mode = exec_mode /\ K.currently_running = currently_running
      /\ K.runqueue = runqueue /\ K.runqueue_entry = runqueue_entry
      /\ K.priority_queue = priority_queue /\ K.current_thread = current_thread
      /\ K.cpu = cpu /\ K.endpoints = endpoints /\ K.blocked_sending = blocked_sending
      /\ K.blocked_receiving = blocked_receiving /\ K.blocked_queue = blocked_queue
      /\ K.blocked_on = blocked_on
  BY DEF K
<1>3. /\ m.runqueue_entry = runqueue_entry
      /\ m.priority_queue = priority_queue /\ m.current_thread = current_thread
      /\ m.cpu = cpu /\ m.endpoints = endpoints /\ m.blocked_sending = blocked_sending
      /\ m.blocked_receiving = blocked_receiving /\ m.blocked_queue = blocked_queue
  BY <1>1, <1>2 DEF SameButMixed, EndpointFrame
<1>4. ASSUME NEW t \in Thread
      PROVE  /\ m.exec_mode[t] = IF t \in allocated THEN exec_mode[t] ELSE {SUSPENDED}
             /\ m.currently_running[t] <=> t \in allocated /\ currently_running[t]
             /\ m.runqueue[t] <=> t \in allocated /\ runqueue[t]
             /\ m.blocked_on[t] = IF t \in allocated THEN blocked_on[t] ELSE NULL
  <2>1. /\ m.exec_mode[t] = IF t \in allocated THEN exec_mode[t] ELSE {SUSPENDED}
        /\ m.blocked_on[t] = IF t \in allocated THEN blocked_on[t] ELSE NULL
    BY <1>1, <1>2
  <2>2. /\ m.currently_running[t] <=> t \in allocated /\ currently_running[t]
        /\ m.runqueue[t] <=> t \in allocated /\ runqueue[t]
    BY <1>1, <1>2
  <2> QED
    BY <2>1, <2>2
<1>5. ASSUME NEW t \in Thread
      PROVE  /\ m.runqueue[t] => m.exec_mode[t] = RUNNING
             /\ m.exec_mode[t] = RUNNING => m.runqueue[t] \/ t = current_thread
             /\ m.blocked_on[t] \in endpoints \cup {NULL}
             /\ m.currently_running[t] <=> t = current_thread
  <2>1. RunInv(m) /\ CpuInv(m) /\ ModesInv(m)
    BY <1>0 DEF IInv
  <2>2. /\ m.runqueue[t] => m.exec_mode[t] = RUNNING
        /\ m.exec_mode[t] = RUNNING => m.runqueue[t] \/ t = current_thread
    BY <1>3, <2>1 DEF RunInv
  <2>3. m.blocked_on[t] \in endpoints \cup {NULL}
    BY <1>3, <2>1 DEF ModesInv
  <2>4. m.currently_running[t] <=> t = current_thread
    BY <1>3, <2>1 DEF CpuInv
  <2> QED
    BY <2>2, <2>3, <2>4
<1>6. ObjectsTypeOK
  <2>1. /\ thread_id \in [Thread -> ThreadId] /\ thread_hash_table \in [Bucket -> Container(Thread)]
        /\ table_entry \in LinkField(Thread) /\ root \in [Thread -> BOOLEAN]
        /\ used_thread_ids = {0} \cup {thread_id[t] : t \in allocated}
    BY DEF TableInv, TableIs, TableType, IdsDistinct
  <2>2. 0 \in ThreadId
    BY KernelObjectsAssumption DEF ThreadId
  <2>3. used_thread_ids \subseteq ThreadId
    BY <1>0, <2>1, <2>2
  <2> QED
    BY <1>0, <2>1, <2>3 DEF ObjectsTypeOK, TypeOK
<1>7. /\ Queued(m) = {t \in allocated : exec_mode[t] = RUNNING /\ runqueue[t]}
      /\ IsQueueOf(priority_queue, runqueue_entry.next, Thread, Queued(m))
  <2>1. Queued(m) = {t \in allocated : exec_mode[t] = RUNNING /\ runqueue[t]}
    BY <1>0, <1>4, <1>5 DEF Queued
  <2>2. RunQueueIs(m, Queued(m))
    BY <1>0 DEF IInv, RunInv
  <2> QED
    BY <1>3, <2>1, <2>2 DEF RunQueueIs
<1>8. ASSUME NEW e \in endpoints
      PROVE  Sending(e) \cup Receiving(e) = {t \in allocated : blocked_on[t] = e}
  <2>1. TwoQueues(blocked_sending, blocked_receiving, blocked_queue, m.blocked_on, e)
    BY <1>0, <1>3 DEF IInv, QueuesInv
  <2>2. Sending(e) \cup Receiving(e) = {t \in Thread : m.blocked_on[t] = e}
    BY <2>1 DEF TwoQueues, Waiting, Sending, Receiving
  <2>3. e # NULL
    BY <1>0, <1>2, IpcAssumption DEF KernelState
  <2> QED
    BY <1>0, <1>4, <2>2, <2>3
<1>9. current_thread \in allocated \cup {NULL} /\ cpu = current_thread
  <2>1. cpu = current_thread /\ current_thread \in Thread \cup {NULL}
    BY <1>0, <1>1, <1>3 DEF IInv, CpuInv, KernelState
  <2> QED
    BY <1>4, <1>5, <2>1
<1>10. NoDanglingThread
  <2>1. Members(Thread, priority_queue.start, runqueue_entry.next) \subseteq allocated
    BY <1>7 DEF IsQueueOf
  <2>2. \A b \in Bucket : InBucket(b) \subseteq allocated
    <3>1. ThreadTableExact
      BY TableImplies
    <3> QED
      BY <3>1 DEF ThreadTableExact, IsQueueOf, InBucket
  <2> QED
    BY <1>8, <1>9, <2>1, <2>2 DEF NoDanglingThread
<1>11. QueuesFollowObjects
  <2>1. \A t \in allocated : exec_mode[t] = RUNNING => runqueue[t] \/ t = current_thread
    BY <1>0, <1>4, <1>5
  <2>2. \A t \in allocated : /\ currently_running[t] <=> t = current_thread
                             /\ blocked_on[t] \in endpoints \cup {NULL}
    BY <1>0, <1>4, <1>5
  <2> QED
    BY <1>7, <1>8, <1>9, <2>1, <2>2 DEF QueuesFollowObjects
<1> QED
  BY <1>6, <1>10, <1>11

(* The invariance of ObjectsInv: the live part of the kernel state keeps   *)
(* the invariant of IpcProofs while threads and endpoints are created,     *)
(* destroyed and moved.                                                    *)
THEOREM ObjectsInvariance ==
  ASSUME Calls \cap UnmaintainedCalls = {}
  PROVE  ObjectsSpec => []ObjectsInv
<1>1. ObjectsInit => ObjectsInv
  BY LiveInit
<1>2. ObjectsInv /\ [ObjectsNext]_objectVars => ObjectsInv'
  BY LiveNext
<1> QED
  BY <1>1, <1>2, PTL DEF ObjectsSpec

(* ObjectsTypeOK: the kernel state and the thread table keep their types,  *)
(* and alloc_thread hands out no id outside of used_thread_ids.            *)
THEOREM ObjectsTypeCorrect ==
  ASSUME Calls \cap UnmaintainedCalls = {}, "alloc_thread_failing" \notin Calls
  PROVE  ObjectsSpec => []ObjectsTypeOK
<1>1. ObjectsInv /\ TableInv => ObjectsTypeOK
  BY LiveImplies
<1> QED
  BY <1>1, ObjectsInvariance, TableInvariance, PTL

(* NoDanglingThread: memory that is no thread (any more) does not run and  *)
(* is in none of the kernel's lists, whatever thread_destructor,           *)
(* on_thread_moved and endpoint_destructor have done before.               *)
THEOREM NoDanglingCorrect ==
  ASSUME Calls \cap UnmaintainedCalls = {}, "alloc_thread_failing" \notin Calls
  PROVE  ObjectsSpec => []NoDanglingThread
<1>1. ObjectsInv /\ TableInv => NoDanglingThread
  BY LiveImplies
<1> QED
  BY <1>1, ObjectsInvariance, TableInvariance, PTL

(* QueuesFollowObjects: the run queue and the queues of endpoints hold     *)
(* exactly the threads that say so, while threads and endpoints come, go   *)
(* and move.                                                               *)
THEOREM QueuesFollowCorrect ==
  ASSUME Calls \cap UnmaintainedCalls = {}, "alloc_thread_failing" \notin Calls
  PROVE  ObjectsSpec => []QueuesFollowObjects
<1>1. ObjectsInv /\ TableInv => QueuesFollowObjects
  BY LiveImplies
<1> QED
  BY <1>1, ObjectsInvariance, TableInvariance, PTL
=============================================================================
