-------------------------- MODULE VfsServerProofs ---------------------------
(***************************************************************************)
(* The VFS server for any number of processes, slots, inodes and buckets:  *)
(* the proofs of UsedCoversOccupied, ReferencesExact, MountsWellFormed,    *)
(* DescriptorsValid, NothingHeld, ReadOnlyStaysFixed and FailureUnmarks.   *)
(*                                                                         *)
(* A message is a step, but a handler is a composition of functions.  So   *)
(* the invariant is stated on the server's memory v, and for each function *)
(* there is a lemma on what it does to the tables: nothing if it fails, or *)
(* one of a few changes, each of which is shown to preserve the invariant. *)
(***************************************************************************)
EXTENDS VfsServer, NatLemmas, FiniteSetTheorems

(***************************************************************************)
(* Situations in which a bit map goes wrong: find_slot_for finds no clear  *)
(* bit, or its callback fails behind the first word of a map.  Where every *)
(* map is one word long there is no bit behind the first word, and no      *)
(* failure is left out.                                                    *)
(***************************************************************************)
OneWord == \A k \in Kind : MAX(k) = SIZE_BITS
MapCalls == {"full_map"} \cup (IF OneWord THEN {} ELSE {"late_failure"})
(* Besides, a message that reaches no handler of this module.              *)
SoundCalls == Calls \cap (MapCalls \cup LostCalls) = {}

Status == {"ok", "passed", "ENOMEM", "ENOENT", "EIO", "EPERM", "EBADMSG", "ENOSYS", "ENOTSUP"}
Letter == [status : Status, gives : SUBSET (Descriptor \cup {FileDescriptor})]
VfsState ==
  [used : [Kind -> SUBSET Nat], processes : Table(Pid, ProcessData),
   namespaces : Table(Id("namespaces"), Namespace),
   mount_points : Table(Id("mount_points"), MountPoint),
   lists : Table(Id("lists"), MountedList), infos : Table(Id("infos"), DirectoryInfo),
   fds : SUBSET Id("infos"), locked : SUBSET (Kind \X Nat), storage : SUBSET Nat,
   transferred : SUBSET Nat, replies : Seq(Letter), met : SUBSET AllCalls]

(* Two states with the same tables.                                        *)
SameTables(v, w) ==
  /\ w.used = v.used /\ w.processes = v.processes /\ w.namespaces = v.namespaces
  /\ w.mount_points = v.mount_points /\ w.lists = v.lists /\ w.infos = v.infos /\ w.fds = v.fds

-----------------------------------------------------------------------------
(***************************************************************************)
(* The inductive invariant.                                                *)
(***************************************************************************)
(* What is occupied is marked.                                             *)
MapsInv(v) ==
  /\ \A k \in Kind : DOMAIN v[k] \subseteq v.used[k] /\ v.used[k] \subseteq Id(k)
  /\ v.fds \subseteq v.used["infos"]

(* References are counted right.                                           *)
Users(v, n) == {p \in DOMAIN v.processes : v.processes[p].fs_namespace = n}
NamespacesInv(v) ==
  /\ IsFiniteSet(DOMAIN v.processes)
  /\ \A p \in DOMAIN v.processes : v.processes[p].fs_namespace \in DOMAIN v.namespaces
  /\ \A n \in DOMAIN v.namespaces : /\ Users(v, n) # {}
                                    /\ v.namespaces[n].references = Cardinality(Users(v, n))

(* Mount points in buckets are the ones with an enclosing mount point,     *)
(* which no open asks for.                                                 *)
Inner(v) == {m \in DOMAIN v.mount_points : v.mount_points[m].enclosing # SIZE_MAX}
PointersInv(v) ==
  /\ \A n \in DOMAIN v.namespaces :
       /\ v.namespaces[n].root \in Optional(DOMAIN v.mount_points \ Inner(v))
       /\ \A b \in Bucket : v.namespaces[n].buckets[b] \in Optional(Inner(v))
  /\ \A m \in DOMAIN v.mount_points : v.mount_points[m].next \in Optional(Inner(v))

(* Buckets are doubly linked, and nothing is in two places.                *)
BucketsInv(v) ==
  LET mp == v.mount_points
  IN  /\ \A n \in DOMAIN v.namespaces, b \in Bucket :
           /\ LET first == v.namespaces[n].buckets[b]
              IN  first # SIZE_MAX => mp[first].previous = SIZE_MAX
           /\ \A m \in BucketOf(v, n, b) :
                /\ hash[mp[m].inode] = b
                /\ IF mp[m].previous = SIZE_MAX THEN v.namespaces[n].buckets[b] = m
                   ELSE mp[m].previous \in BucketOf(v, n, b) /\ mp[mp[m].previous].next = m
                /\ mp[m].next # SIZE_MAX => mp[mp[m].next].previous = m
      /\ \A m \in DOMAIN mp : \E n \in DOMAIN v.namespaces : m \in MountsOf(v, n)
      /\ \A n, o \in DOMAIN v.namespaces : MountsOf(v, n) \cap MountsOf(v, o) # {} => n = o

(* Every mount point has a list with one entry.                            *)
ListsInv(v) ==
  /\ \A m \in DOMAIN v.mount_points : /\ v.mount_points[m].list \in DOMAIN v.lists
                                      /\ Len(v.lists[v.mount_points[m].list]) = 1
  /\ \A m, o \in DOMAIN v.mount_points : v.mount_points[m].list = v.mount_points[o].list => m = o

(* Where infos lead to, and that the right to modify a namespace is one    *)
(* that a process in it has.                                               *)
InfosInv(v) ==
  \A d \in DOMAIN v.infos :
    LET info == v.infos[d]
    IN  /\ info.namespace \in DOMAIN v.namespaces
        /\ info.mount_point \in {SIZE_MAX, v.namespaces[info.namespace].root}
        /\ d \in v.fds => info.mount_point = SIZE_MAX
        /\ info.can_modify => \E p \in Users(v, info.namespace) : v.processes[p].can_modify

TablesInv(v) ==
  /\ v \in VfsState
  /\ MapsInv(v) /\ NamespacesInv(v) /\ PointersInv(v) /\ BucketsInv(v) /\ ListsInv(v) /\ InfosInv(v)

(* Descriptors lead to infos of their kind.                                *)
HeldInv(v, h) ==
  /\ h \subseteq Descriptor
  /\ \A b \in h : b.id \in DOMAIN v.infos /\ (b.of = "slot" <=> b.id \in v.fds)

(* The inductive invariant of the specification.                           *)
VfsInv == TablesInv(vfs) /\ HeldInv(vfs, held)

-----------------------------------------------------------------------------
(***************************************************************************)
(* Tables, and the numbers of their slots.                                 *)
(***************************************************************************)
(* Slots are natural numbers, SIZE_MAX is none, 0 is one.                  *)
LEMMA SlotNumbers ==
  ASSUME NEW k \in Kind
  PROVE  Id(k) \subseteq Nat /\ SIZE_MAX \notin Id(k) /\ 0 \in Id(k)
<1>1. MAX(k) \in Nat \ {0} /\ SIZE_MAX \notin 0..MAX(k)
  BY VfsAssumption
<1> QED
  BY <1>1 DEF Id

(* What it means to be a table.                                            *)
LEMMA IsTable ==
  ASSUME NEW S, NEW T, NEW f
  PROVE  f \in Table(S, T) <=> /\ f = [x \in DOMAIN f |-> f[x]] /\ DOMAIN f \subseteq S
                               /\ \A x \in DOMAIN f : f[x] \in T
<1>1. ASSUME f \in Table(S, T)
      PROVE  f = [x \in DOMAIN f |-> f[x]] /\ DOMAIN f \subseteq S /\ \A x \in DOMAIN f : f[x] \in T
  <2>1. PICK D \in SUBSET S : f \in [D -> T]
    BY <1>1 DEF Table
  <2> QED
    BY <2>1
<1>2. ASSUME f = [x \in DOMAIN f |-> f[x]], DOMAIN f \subseteq S, \A x \in DOMAIN f : f[x] \in T
      PROVE  f \in Table(S, T)
  <2>1. f \in [DOMAIN f -> T]
    BY <1>2
  <2> QED
    BY <1>2, <2>1 DEF Table
<1> QED
  BY <1>1, <1>2

(* A structure is put into a slot.                                         *)
LEMMA PutTable ==
  ASSUME NEW S, NEW T, NEW f \in Table(S, T), NEW i \in S, NEW x \in T
  PROVE  /\ Put(f, i, x) \in Table(S, T)
         /\ DOMAIN Put(f, i, x) = DOMAIN f \cup {i}
         /\ Put(f, i, x)[i] = x
         /\ \A j \in DOMAIN f : j # i => Put(f, i, x)[j] = f[j]
<1>1. DOMAIN f \subseteq S /\ \A j \in DOMAIN f : f[j] \in T
  BY IsTable
<1>2. /\ DOMAIN Put(f, i, x) = DOMAIN f \cup {i}
      /\ Put(f, i, x)[i] = x
      /\ \A j \in DOMAIN f : j # i => Put(f, i, x)[j] = f[j]
      /\ Put(f, i, x) = [j \in DOMAIN Put(f, i, x) |-> Put(f, i, x)[j]]
  BY DEF Put
<1>3. DOMAIN Put(f, i, x) \subseteq S /\ \A j \in DOMAIN Put(f, i, x) : Put(f, i, x)[j] \in T
  BY <1>1, <1>2
<1> HIDE DEF Put
<1> QED
  BY <1>2, <1>3, IsTable

(* A structure that was put into a free slot is taken out again.           *)
LEMMA DropPut ==
  ASSUME NEW S, NEW T, NEW f \in Table(S, T), NEW i, i \notin DOMAIN f, NEW x
  PROVE  Drop(Put(f, i, x), i) = f
<1>1. f = [j \in DOMAIN f |-> f[j]]
  BY IsTable
<1>2. DOMAIN Put(f, i, x) = DOMAIN f \cup {i} /\ \A j \in DOMAIN f : Put(f, i, x)[j] = f[j]
  BY DEF Put
<1> HIDE DEF Put
<1>3. Drop(Put(f, i, x), i) = [j \in DOMAIN f |-> f[j]]
  BY <1>2 DEF Drop
<1> QED
  BY <1>1, <1>3

(* A structure is changed.                                                 *)
LEMMA ChangeTable ==
  ASSUME NEW S, NEW T, NEW f \in Table(S, T), NEW i \in DOMAIN f, NEW x \in T
  PROVE  [f EXCEPT ![i] = x] \in Table(S, T)
<1> DEFINE g == [f EXCEPT ![i] = x]
<1>1. f = [j \in DOMAIN f |-> f[j]] /\ DOMAIN f \subseteq S /\ \A j \in DOMAIN f : f[j] \in T
  BY IsTable
<1>2. g = [j \in DOMAIN g |-> g[j]] /\ DOMAIN g \subseteq S /\ \A j \in DOMAIN g : g[j] \in T
  BY <1>1
<1> HIDE DEF g
<1>3. g \in Table(S, T)
  BY <1>2, IsTable
<1> QED
  BY <1>3 DEF g

-----------------------------------------------------------------------------
(***************************************************************************)
(* structures.c                                                            *)
(***************************************************************************)
(* Unless the map is full, the slot that is found is the first free one.   *)
LEMMA FoundSlot ==
  ASSUME NEW v, NEW kind \in Kind, FreeIds(v, kind) # {}
  PROVE  SlotFor(v, kind) \in Id(kind) \ v.used[kind]
<1>1. FreeIds(v, kind) \in SUBSET Nat
  BY SlotNumbers DEF FreeIds
<1>2. Min(FreeIds(v, kind)) \in FreeIds(v, kind)
  BY <1>1, LeastNat DEF Min
<1> QED
  BY <1>2 DEF SlotFor, FreeIds

(* The memory after the situations of a map were met or not.               *)
LEMMA MetState ==
  ASSUME NEW v \in VfsState, NEW p \in BOOLEAN, NEW call \in AllCalls
  PROVE  /\ Meet(v, p, call) \in VfsState
         /\ p => call \in Meet(v, p, call).met
         /\ ~p => Meet(v, p, call) = v
         /\ v.met \subseteq Meet(v, p, call).met
BY DEF Meet, VfsState

(* A slot is marked.                                                       *)
Marked(v, kind, i) == [v EXCEPT !.used[kind] = @ \cup {i}]
(* Marking changes the map only.                                           *)
LEMMA MarkedState ==
  ASSUME NEW v \in VfsState, NEW kind \in Kind, NEW i \in Nat
  PROVE  /\ Marked(v, kind, i) \in VfsState
         /\ Marked(v, kind, i).used = [v.used EXCEPT ![kind] = @ \cup {i}]
         /\ Marked(v, kind, i).met = v.met
<1> DEFINE u == [v.used EXCEPT ![kind] = @ \cup {i}]
<1>1. u \in [Kind -> SUBSET Nat]
  BY DEF VfsState
<1>2. Marked(v, kind, i) = [v EXCEPT !.used = u]
  BY DEF VfsState, Marked
<1> HIDE DEF u
<1>3. [v EXCEPT !.used = u] \in VfsState /\ [v EXCEPT !.used = u].used = u /\ [v EXCEPT !.used = u].met = v.met
  BY <1>1 DEF VfsState
<1> QED
  BY <1>2, <1>3 DEF u

(* find_slot_for with a callback that succeeds.                            *)
LEMMA TakenSlot ==
  ASSUME NEW v \in VfsState, NEW kind \in Kind, SlotTaken(v, kind).met \cap MapCalls = {}
  PROVE  /\ SlotFor(v, kind) \in Id(kind) \ v.used[kind]
         /\ SlotTaken(v, kind) = Marked(v, kind, SlotFor(v, kind))
         /\ FreeIds(v, kind) # {}
<1> DEFINE i == SlotFor(v, kind)
           w == Marked(v, kind, i)
           full == FreeIds(v, kind) = {}
<1>1. i \in Nat
  BY FoundSlot, SlotNumbers DEF SlotFor
<1>2. w \in VfsState
  BY <1>1, MarkedState
<1>3. SlotTaken(v, kind) = Meet(w, full, "full_map")
  BY DEF SlotTaken, Marked
<1>4. full \in BOOLEAN /\ "full_map" \in AllCalls /\ "full_map" \in MapCalls
  BY DEF AllCalls, MapCalls
<1> HIDE DEF w, full
<1>5. ~full /\ SlotTaken(v, kind) = w
  BY <1>2, <1>3, <1>4, MetState
<1>6. FreeIds(v, kind) # {}
  BY <1>5 DEF full
<1> QED
  BY <1>5, <1>6, FoundSlot DEF w

(* In the first word the bit that is cleared is the one that was set.      *)
LEMMA FirstWord ==
  ASSUME NEW v, NEW kind \in Kind, OneWord, FreeIds(v, kind) # {}
  PROVE  Cleared(v, kind) = SlotFor(v, kind)
<1> DEFINE i == SlotFor(v, kind)
<1>1. i \in Id(kind) /\ MAX(kind) = SIZE_BITS
  BY FoundSlot DEF OneWord
<1>2. i \in Nat /\ i < SIZE_BITS /\ SIZE_BITS \in Nat
  BY <1>1, VfsAssumption DEF Id
<1>3. Cleared(v, kind) = i + (i \div SIZE_BITS) * SIZE_BITS
  BY DEF Cleared
<1> HIDE DEF i
<1>4. i \div SIZE_BITS = 0
  BY <1>2
<1> QED
  BY <1>2, <1>3, <1>4 DEF i

(* find_slot_for with a callback that fails, and clears the bit it set.    *)
LEMMA FailedSlot ==
  ASSUME NEW v \in VfsState, NEW kind \in Kind, SlotFailed(v, kind).met \cap MapCalls = {}
  PROVE  SlotFailed(v, kind) = v
<1> DEFINE i == SlotFor(v, kind)
           t == SlotTaken(v, kind)
           c == Cleared(v, kind)
           u == [t EXCEPT !.used[kind] = @ \ {c}]
           late == FreeIds(v, kind) # {} /\ c # i
<1>0. SlotFailed(v, kind) = Meet(u, late, "late_failure")
  BY DEF SlotFailed
<1>1. t \in VfsState
  <2>1. i \in Nat
    BY FoundSlot, SlotNumbers DEF SlotFor
  <2>2. Marked(v, kind, i) \in VfsState
    BY <2>1, MarkedState
  <2>3. "full_map" \in AllCalls /\ (FreeIds(v, kind) = {}) \in BOOLEAN
    BY DEF AllCalls
  <2>4. t = Meet(Marked(v, kind, i), FreeIds(v, kind) = {}, "full_map")
    BY DEF SlotTaken, Marked
  <2> HIDE DEF i, t
  <2> QED
    BY <2>2, <2>3, <2>4, MetState
<1>2. u \in VfsState /\ u.met = t.met
  <2> DEFINE x == [t.used EXCEPT ![kind] = @ \ {c}]
  <2> HIDE DEF t, c
  <2>1. x \in [Kind -> SUBSET Nat]
    BY <1>1 DEF VfsState
  <2>2. u = [t EXCEPT !.used = x]
    BY <1>1 DEF VfsState
  <2> HIDE DEF x, u
  <2> QED
    BY <1>1, <2>1, <2>2 DEF VfsState
<1>3. late \in BOOLEAN /\ "late_failure" \in AllCalls /\ (OneWord \/ "late_failure" \in MapCalls)
  BY DEF AllCalls, MapCalls
<1>4. ~late /\ SlotFailed(v, kind) = u
  <2>1. OneWord => ~late
    BY FirstWord
  <2> HIDE DEF u, late
  <2> QED
    BY <1>0, <1>2, <1>3, <2>1, MetState
<1>5. t.met \cap MapCalls = {}
  BY <1>2, <1>4
<1>6. i \in Id(kind) \ v.used[kind] /\ t = Marked(v, kind, i) /\ FreeIds(v, kind) # {}
  BY <1>5, TakenSlot
<1>7. c = i
  BY <1>4, <1>6
<1>8. u = v
  <2> HIDE DEF i, t, c
  <2>1. i \in Nat
    BY <1>6, SlotNumbers
  <2>2. t \in VfsState /\ t.used = [v.used EXCEPT ![kind] = @ \cup {i}]
    BY <1>1, <1>6, <2>1, MarkedState
  <2>3. u = [t EXCEPT !.used = [t.used EXCEPT ![kind] = @ \ {i}]]
    BY <1>1, <1>7 DEF VfsState
  <2>4. [t.used EXCEPT ![kind] = @ \ {i}] = v.used
    <3>1. v.used \in [Kind -> SUBSET Nat]
      BY DEF VfsState
    <3>2. \A k \in Kind : [t.used EXCEPT ![kind] = @ \ {i}][k] = v.used[k]
      BY <1>6, <2>2, <3>1
    <3>3. [t.used EXCEPT ![kind] = @ \ {i}] = [k \in Kind |-> [t.used EXCEPT ![kind] = @ \ {i}][k]]
      BY <2>2, <3>1
    <3>4. v.used = [k \in Kind |-> v.used[k]]
      BY <3>1
    <3> QED
      BY <3>2, <3>3, <3>4
  <2>5. u = [t EXCEPT !.used = v.used]
    BY <2>3, <2>4
  <2> HIDE DEF u
  <2>6. [t EXCEPT !.used = v.used] = v
    BY <1>6 DEF Marked, VfsState
  <2> QED
    BY <2>5, <2>6
<1> QED
  BY <1>4, <1>8

(* The structures of a table.                                              *)
StructOf(kind) == CASE kind = "namespaces"   -> Namespace
                    [] kind = "mount_points" -> MountPoint
                    [] kind = "lists"        -> MountedList
                    [] kind = "infos"        -> DirectoryInfo
VfsFields == {"used", "processes", "namespaces", "mount_points", "lists", "infos", "fds",
              "locked", "storage", "transferred", "replies", "met"}

(* The memory with another table.                                          *)
WithTable(v, kind, t) == [v EXCEPT ![kind] = t]
(* Only that table changes.                                                *)
LEMMA TableState ==
  ASSUME NEW v \in VfsState, NEW kind \in Kind, NEW t \in Table(Id(kind), StructOf(kind))
  PROVE  /\ WithTable(v, kind, t) \in VfsState
         /\ WithTable(v, kind, t)[kind] = t
         /\ \A f \in VfsFields : f # kind => WithTable(v, kind, t)[f] = v[f]
<1>1. CASE kind = "namespaces"
  BY <1>1 DEF WithTable, VfsState, StructOf, VfsFields
<1>2. CASE kind = "mount_points"
  BY <1>2 DEF WithTable, VfsState, StructOf, VfsFields
<1>3. CASE kind = "lists"
  BY <1>3 DEF WithTable, VfsState, StructOf, VfsFields
<1>4. CASE kind = "infos"
  BY <1>4 DEF WithTable, VfsState, StructOf, VfsFields
<1> QED
  BY <1>1, <1>2, <1>3, <1>4 DEF Kind

(* The tables of a state.                                                  *)
LEMMA StateTables ==
  ASSUME NEW v \in VfsState, NEW kind \in Kind
  PROVE  v[kind] \in Table(Id(kind), StructOf(kind))
BY DEF VfsState, StructOf, Kind

(* A structure is allocated in slot i: the map and the table change.       *)
Allocated(v, kind, i, x) == WithTable(Marked(v, kind, i), kind, Put(v[kind], i, x))
(* Only the map and the table of that kind change.                         *)
LEMMA AllocatedState ==
  ASSUME NEW v \in VfsState, NEW kind \in Kind, NEW i \in Id(kind), NEW x \in StructOf(kind)
  PROVE  /\ Allocated(v, kind, i, x) \in VfsState
         /\ Allocated(v, kind, i, x).used = [v.used EXCEPT ![kind] = @ \cup {i}]
         /\ Allocated(v, kind, i, x)[kind] = Put(v[kind], i, x)
         /\ \A f \in VfsFields \ {"used"} : f # kind => Allocated(v, kind, i, x)[f] = v[f]
<1> DEFINE m == Marked(v, kind, i)
           t == Put(v[kind], i, x)
<1>0. i \in Nat
  BY SlotNumbers
<1>1. m \in VfsState /\ m.used = [v.used EXCEPT ![kind] = @ \cup {i}]
  BY <1>0, MarkedState
<1>2. \A f \in VfsFields \ {"used"} : m[f] = v[f]
  BY DEF Marked, VfsState, VfsFields
<1>3. t \in Table(Id(kind), StructOf(kind))
  BY StateTables, PutTable
<1> HIDE DEF m, t
<1>4. /\ WithTable(m, kind, t) \in VfsState
      /\ WithTable(m, kind, t)[kind] = t
      /\ \A f \in VfsFields : f # kind => WithTable(m, kind, t)[f] = m[f]
  BY <1>1, <1>3, TableState
<1>5. "used" # kind /\ "used" \in VfsFields
  BY DEF Kind, VfsFields
<1>6. WithTable(m, kind, t)["used"] = m["used"]
  BY <1>4, <1>5
<1>7. Allocated(v, kind, i, x) = WithTable(m, kind, t)
  BY DEF Allocated, m, t
<1>8. \A f \in VfsFields \ {"used"} : f # kind => WithTable(m, kind, t)[f] = v[f]
  BY <1>2, <1>4
<1>9. WithTable(m, kind, t)[kind] = Put(v[kind], i, x)
  BY <1>4 DEF t
<1> QED
  BY <1>1, <1>4, <1>6, <1>7, <1>8, <1>9

(* alloc_structure changes nothing, or finds a free slot and fills it.     *)
LEMMA AllocStructure ==
  ASSUME NEW v \in VfsState, NEW kind \in Kind, NEW x, NEW oom,
         alloc_structure(v, kind, x, oom).vfs.met \cap MapCalls = {}
  PROVE  LET r == alloc_structure(v, kind, x, oom)
             i == r.value
         IN  \/ i = SIZE_MAX /\ r.vfs = v
             \/ /\ i \in Id(kind) \ v.used[kind] /\ i \notin DOMAIN v[kind]
                /\ i = SlotFor(v, kind)
                /\ r.vfs = Allocated(v, kind, i, x)
<1> DEFINE r == alloc_structure(v, kind, x, oom)
           s == SlotFor(v, kind)
<1>1. CASE AllocFails(v, kind, oom)
  <2>1. r.vfs = SlotFailed(v, kind) /\ r.value = SIZE_MAX
    BY <1>1 DEF alloc_structure, WithValue
  <2> QED
    BY <2>1, FailedSlot
<1>2. CASE ~AllocFails(v, kind, oom)
  <2>1. r.vfs = [SlotTaken(v, kind) EXCEPT ![kind] = Put(@, s, x)] /\ r.value = s
    BY <1>2 DEF alloc_structure, WithValue
  <2>2. s \notin DOMAIN v[kind]
    BY <1>2 DEF AllocFails
  <2>3. SlotTaken(v, kind).met = r.vfs.met
    BY <2>1 DEF Kind, SlotTaken, Meet, VfsState
  <2>4. s \in Id(kind) \ v.used[kind] /\ SlotTaken(v, kind) = Marked(v, kind, s)
    BY <2>3, TakenSlot
  <2>5. Marked(v, kind, s)[kind] = v[kind]
    BY DEF Kind, Marked, VfsState
  <2>6. DOMAIN Marked(v, kind, s) = VfsFields
    BY DEF Marked, VfsState, VfsFields
  <2>7. r.vfs = Allocated(v, kind, s, x)
    <3> DEFINE m == Marked(v, kind, s)
    <3> HIDE DEF m, s
    <3>1. r.vfs = [m EXCEPT ![kind] = Put(@, s, x)]
      BY <2>1, <2>4 DEF m
    <3>2. kind \in DOMAIN m
      BY <2>6 DEF m, Kind, VfsFields
    <3>3. m[kind] = v[kind]
      BY <2>5 DEF m
    <3>4. [m EXCEPT ![kind] = Put(@, s, x)] = [m EXCEPT ![kind] = Put(v[kind], s, x)]
      BY <3>2, <3>3
    <3> QED
      BY <3>1, <3>4 DEF Allocated, WithTable, m
  <2> QED
    BY <2>1, <2>2, <2>4, <2>7
<1> QED
  BY <1>1, <1>2

-----------------------------------------------------------------------------
(***************************************************************************)
(* What was met stays met: if in the end no map went wrong, none did on    *)
(* the way.                                                                *)
(***************************************************************************)
Grows(v, w) == "met" \in DOMAIN v => "met" \in DOMAIN w /\ v.met \subseteq w.met

(* Functions of structures.c, and locks.                                   *)
LEMMA StructuresGrow ==
  ASSUME NEW v, NEW kind \in Kind
  PROVE  /\ \A i : Grows(v, Lock(v, kind, i)) /\ Grows(v, Unlock(v, kind, i))
         /\ \A p, call : Grows(v, Meet(v, p, call))
         /\ Grows(v, SlotTaken(v, kind)) /\ Grows(v, SlotFailed(v, kind))
         /\ \A x, oom : Grows(v, alloc_structure(v, kind, x, oom).vfs)
         /\ \A i : Grows(v, free_structure(v, kind, i))
<1>0. "met" # kind
  BY DEF Kind
<1>1. \A w, i : Grows(w, Lock(w, kind, i)) /\ Grows(w, Unlock(w, kind, i))
  BY DEF Grows, Lock, Unlock
<1>2. \A w, p, call : Grows(w, Meet(w, p, call))
  BY DEF Grows, Meet
<1>3. \A w, x : Grows(w, [w EXCEPT !.used[kind] = x])
  BY DEF Grows
<1>4. Grows(v, SlotTaken(v, kind))
  <2> DEFINE w == [v EXCEPT !.used[kind] = @ \cup {SlotFor(v, kind)}]
  <2>1. Grows(v, w)
    BY DEF Grows
  <2>2. SlotTaken(v, kind) = Meet(w, FreeIds(v, kind) = {}, "full_map")
    BY DEF SlotTaken
  <2> HIDE DEF w
  <2> QED
    BY <1>2, <2>1, <2>2 DEF Grows
<1>5. Grows(v, SlotFailed(v, kind))
  <2> DEFINE w == [SlotTaken(v, kind) EXCEPT !.used[kind] = @ \ {Cleared(v, kind)}]
             late == FreeIds(v, kind) # {} /\ Cleared(v, kind) # SlotFor(v, kind)
  <2>1. Grows(SlotTaken(v, kind), w)
    BY DEF Grows
  <2>2. SlotFailed(v, kind) = Meet(w, late, "late_failure")
    BY DEF SlotFailed
  <2> HIDE DEF w, late
  <2> QED
    BY <1>2, <1>4, <2>1, <2>2 DEF Grows
<1>6. \A x, oom : Grows(v, alloc_structure(v, kind, x, oom).vfs)
  <2> TAKE x, oom
  <2> DEFINE w == [SlotTaken(v, kind) EXCEPT ![kind] = Put(@, SlotFor(v, kind), x)]
  <2>1. Grows(SlotTaken(v, kind), w)
    BY <1>0 DEF Grows
  <2>2. alloc_structure(v, kind, x, oom).vfs \in {SlotFailed(v, kind), w}
    BY DEF alloc_structure, WithValue
  <2> HIDE DEF w
  <2> QED
    BY <1>4, <1>5, <2>1, <2>2 DEF Grows
<1>7. \A i : Grows(v, free_structure(v, kind, i))
  <2> TAKE i
  <2> DEFINE u == Unlock(v, kind, i)
             w == [u EXCEPT ![kind] = Drop(@, i)]
             x == [w EXCEPT !.used[kind] = @ \ {i}]
  <2>1. Grows(u, w)
    BY <1>0 DEF Grows
  <2>2. Grows(w, x)
    BY DEF Grows
  <2>3. free_structure(v, kind, i) \in {v, x}
    BY DEF free_structure, mark_slot_unused
  <2>4. Grows(v, u)
    BY <1>1
  <2> HIDE DEF u, w, x
  <2> QED
    BY <2>1, <2>2, <2>3, <2>4 DEF Grows
<1> QED
  BY <1>1, <1>2, <1>4, <1>5, <1>6, <1>7

-----------------------------------------------------------------------------
(***************************************************************************)
(* Locks and replies.                                                      *)
(***************************************************************************)
(* All but the locks is the same.                                          *)
SameButLocks(v, w) ==
  /\ SameTables(v, w) /\ w.storage = v.storage /\ w.transferred = v.transferred
  /\ w.replies = v.replies /\ w.met = v.met

(* The memory after a lock was taken or released.                          *)
LEMMA LockState ==
  ASSUME NEW v \in VfsState, NEW kind \in Kind, NEW i \in Nat
  PROVE  /\ Lock(v, kind, i) \in VfsState /\ SameButLocks(v, Lock(v, kind, i))
         /\ Lock(v, kind, i).locked = v.locked \cup {<<kind, i>>}
         /\ Unlock(v, kind, i) \in VfsState /\ SameButLocks(v, Unlock(v, kind, i))
         /\ Unlock(v, kind, i).locked = v.locked \ {<<kind, i>>}
<1> DEFINE l == v.locked \cup {<<kind, i>>}
           u == v.locked \ {<<kind, i>>}
<1>1. Lock(v, kind, i) = [v EXCEPT !.locked = l] /\ Unlock(v, kind, i) = [v EXCEPT !.locked = u]
  BY DEF Lock, Unlock, VfsState
<1>2. l \in SUBSET (Kind \X Nat) /\ u \in SUBSET (Kind \X Nat)
  BY DEF VfsState
<1> HIDE DEF l, u
<1>3. \A x \in SUBSET (Kind \X Nat) : /\ [v EXCEPT !.locked = x] \in VfsState
                                      /\ [v EXCEPT !.locked = x].locked = x
                                      /\ SameButLocks(v, [v EXCEPT !.locked = x])
  BY DEF VfsState, SameButLocks, SameTables
<1> QED
  BY <1>1, <1>2, <1>3 DEF l, u

(* The memory after a reply was sent.                                      *)
LEMMA ReplyState ==
  ASSUME NEW v \in VfsState, NEW status \in Status, NEW gives \in SUBSET (Descriptor \cup {FileDescriptor})
  PROVE  LET w == Reply(v, status, gives)
         IN  /\ w \in VfsState /\ SameTables(v, w)
             /\ w.replies = Append(v.replies, [status |-> status, gives |-> gives])
             /\ w.locked = v.locked /\ w.storage = v.storage /\ w.transferred = v.transferred
             /\ w.met = v.met
<1> DEFINE x == Append(v.replies, [status |-> status, gives |-> gives])
<1>1. v.replies \in Seq(Letter) /\ [status |-> status, gives |-> gives] \in Letter
  BY DEF VfsState, Letter
<1>2. x \in Seq(Letter)
  BY <1>1
<1>3. Reply(v, status, gives) = [v EXCEPT !.replies = x]
  BY DEF Reply, VfsState
<1> HIDE DEF x
<1>4. LET w == [v EXCEPT !.replies = x]
      IN  /\ w \in VfsState /\ SameTables(v, w) /\ w.replies = x
          /\ w.locked = v.locked /\ w.storage = v.storage /\ w.transferred = v.transferred
          /\ w.met = v.met
  BY <1>2 DEF VfsState, SameTables
<1> QED
  BY <1>3, <1>4 DEF x

(* A structure is freed.                                                   *)
LEMMA FreeStructure ==
  ASSUME NEW v \in VfsState, NEW kind \in Kind, NEW i \in DOMAIN v[kind]
  PROVE  LET w == free_structure(v, kind, i)
         IN  /\ w \in VfsState
             /\ w[kind] = Drop(v[kind], i)
             /\ w.used = [v.used EXCEPT ![kind] = @ \ {i}]
             /\ w.locked = v.locked \ {<<kind, i>>}
             /\ \A f \in VfsFields \ {"used", "locked"} : f # kind => w[f] = v[f]
<1> DEFINE u == Unlock(v, kind, i)
           t == Drop(v[kind], i)
           x == WithTable(u, kind, t)
           y == [x.used EXCEPT ![kind] = @ \ {i}]
<1>0. i \in Nat
  BY StateTables, IsTable, SlotNumbers
<1>1. u \in VfsState /\ u.locked = v.locked \ {<<kind, i>>} /\ SameButLocks(v, u)
  BY <1>0, LockState
<1>2. \A f \in VfsFields \ {"locked"} : u[f] = v[f]
  BY DEF Unlock, VfsState, VfsFields
<1>3. t \in Table(Id(kind), StructOf(kind))
  <2>1. v[kind] \in Table(Id(kind), StructOf(kind))
    BY StateTables
  <2>2. DOMAIN v[kind] \subseteq Id(kind) /\ \A j \in DOMAIN v[kind] : v[kind][j] \in StructOf(kind)
    BY <2>1, IsTable
  <2>3. t = [j \in DOMAIN t |-> t[j]] /\ DOMAIN t \subseteq Id(kind) /\ \A j \in DOMAIN t : t[j] \in StructOf(kind)
    BY <2>2 DEF Drop
  <2> HIDE DEF t
  <2> QED
    BY <2>3, IsTable
<1>4. u[kind] = v[kind] /\ kind \in VfsFields /\ "used" \in VfsFields /\ kind # "used" /\ kind # "locked"
  BY <1>2 DEF Kind, VfsFields
<1>5. DOMAIN u = VfsFields
  BY <1>1 DEF VfsState, VfsFields
<1>6. free_structure(v, kind, i) = [x EXCEPT !.used[kind] = @ \ {i}]
  <2>1. [u EXCEPT ![kind] = Drop(@, i)] = x
    <3> HIDE DEF u
    <3> QED
      BY <1>4, <1>5 DEF WithTable
  <2>2. free_structure(v, kind, i) = mark_slot_unused([u EXCEPT ![kind] = Drop(@, i)], kind, i)
    BY DEF free_structure
  <2> HIDE DEF u, x
  <2> QED
    BY <2>1, <2>2 DEF mark_slot_unused
<1> HIDE DEF u, t
<1>7. x \in VfsState /\ x[kind] = t /\ \A f \in VfsFields : f # kind => x[f] = u[f]
  BY <1>1, <1>3, TableState
<1> HIDE DEF x
<1>8. y \in [Kind -> SUBSET Nat]
  BY <1>7 DEF VfsState
<1>9. free_structure(v, kind, i) = [x EXCEPT !.used = y]
  BY <1>6, <1>7 DEF VfsState
<1>10. x.used = v.used
  <2>1. x["used"] = u["used"] /\ u["used"] = v["used"]
    BY <1>2, <1>4, <1>7
  <2> QED
    BY <2>1
<1>11. y = [v.used EXCEPT ![kind] = @ \ {i}]
  BY <1>10
<1> HIDE DEF y
<1>12. LET w == [x EXCEPT !.used = y]
       IN  /\ w \in VfsState /\ w.used = y
           /\ \A f \in VfsFields : f # "used" => w[f] = x[f]
  BY <1>7, <1>8 DEF VfsState, VfsFields
<1>13. x["locked"] = u["locked"]
  BY <1>4, <1>7 DEF VfsFields
<1> DEFINE w == [x EXCEPT !.used = y]
<1>14. w["locked"] = x["locked"] /\ w[kind] = t
  BY <1>4, <1>7, <1>12 DEF VfsFields
<1>15. \A f \in VfsFields \ {"used", "locked"} : f # kind => w[f] = v[f]
  BY <1>2, <1>7, <1>12
<1>16. w \in VfsState /\ w.used = [v.used EXCEPT ![kind] = @ \ {i}]
  BY <1>11, <1>12
<1>17. w.locked = v.locked \ {<<kind, i>>}
  BY <1>1, <1>13, <1>14
<1> HIDE DEF w
<1>18. free_structure(v, kind, i) = w
  BY <1>9 DEF w
<1> QED
  BY <1>14, <1>15, <1>16, <1>17, <1>18 DEF t

-----------------------------------------------------------------------------
(***************************************************************************)
(* namespaces.c                                                            *)
(***************************************************************************)
(* A namespace n was taken a reference to, or made.                        *)
RootOf(n, can_modify, m) ==
  [namespace |-> n, can_modify |-> can_modify, inode |-> 0, mount_point |-> m]
Got(v, w, n, creator, flags) ==
  /\ \A f \in VfsFields \ {"used", "namespaces"} : w[f] = v[f]
  /\ \/ /\ "VFS_SHARE_NAMESPACE" \in flags
        /\ n = v.processes[creator].fs_namespace /\ n \in DOMAIN v.namespaces
        /\ w.used = v.used
        /\ w.namespaces = [v.namespaces EXCEPT ![n] = [v.namespaces[n] EXCEPT !.references = @ + 1]]
     \/ /\ "VFS_SHARE_NAMESPACE" \notin flags
        /\ n \in Id("namespaces") \ v.used["namespaces"] /\ n \notin DOMAIN v.namespaces
        /\ w.used = [v.used EXCEPT !["namespaces"] = @ \cup {n}]
        /\ w.namespaces = Put(v.namespaces, n, NewNamespace)

(* A new namespace is one.                                                 *)
LEMMA NewNamespaceType == NewNamespace \in Namespace
BY DEF NewNamespace, Namespace, Optional

(* The record of a namespace with another number of references.            *)
LEMMA CountChanged ==
  ASSUME NEW v \in VfsState, NEW n \in DOMAIN v.namespaces, NEW c \in Nat
  PROVE  LET t == [v.namespaces EXCEPT ![n] = [v.namespaces[n] EXCEPT !.references = c]]
         IN  t \in Table(Id("namespaces"), Namespace) /\ DOMAIN t = DOMAIN v.namespaces
<1>1. v.namespaces \in Table(Id("namespaces"), Namespace)
  BY DEF VfsState
<1>2. v.namespaces[n] \in Namespace
  BY <1>1, IsTable
<1>3. [v.namespaces[n] EXCEPT !.references = c] \in Namespace
  BY <1>2 DEF Namespace
<1> QED
  BY <1>1, <1>3, ChangeTable

(* NamespaceFor takes no namespace and changes nothing, or takes one.      *)
LEMMA NamespaceGot ==
  ASSUME NEW v \in VfsState, NEW creator, NEW flags, NEW oom,
         "VFS_SHARE_NAMESPACE" \in flags => v.processes[creator].fs_namespace \in DOMAIN v.namespaces,
         NamespaceFor(v, creator, flags, oom).vfs.met \cap MapCalls = {}
  PROVE  LET r == NamespaceFor(v, creator, flags, oom)
         IN  \/ r.value = SIZE_MAX /\ r.vfs = v
             \/ /\ r.vfs \in VfsState /\ r.value \in DOMAIN r.vfs.namespaces
                /\ r.value \in Id("namespaces") /\ r.value # SIZE_MAX
                /\ Got(v, r.vfs, r.value, creator, flags)
<1> DEFINE r == NamespaceFor(v, creator, flags, oom)
<1>0. "namespaces" \in Kind /\ StructOf("namespaces") = Namespace
  BY DEF Kind, StructOf
<1>1. CASE "VFS_SHARE_NAMESPACE" \in flags
  <2> DEFINE n == v.processes[creator].fs_namespace
             c == v.namespaces[n].references + 1
             t == [v.namespaces EXCEPT ![n] = [v.namespaces[n] EXCEPT !.references = c]]
  <2>1. n \in DOMAIN v.namespaces /\ v.namespaces \in Table(Id("namespaces"), Namespace)
    BY <1>1 DEF VfsState
  <2>2. n \in Id("namespaces") /\ v.namespaces[n] \in Namespace
    BY <2>1, IsTable
  <2>3. c \in Nat
    BY <2>2 DEF Namespace
  <2>4. r.value = n /\ r.vfs = [v EXCEPT !.namespaces[n].references = @ + 1]
    BY <1>1 DEF NamespaceFor, WithValue
  <2>5. r.vfs = WithTable(v, "namespaces", t)
    <3> HIDE DEF r, n
    <3>1. [v EXCEPT !.namespaces[n].references = @ + 1] = [v EXCEPT !.namespaces = t]
      BY <2>1, <2>2 DEF VfsState, Namespace
    <3> QED
      BY <2>4, <3>1 DEF WithTable
  <2>6. t \in Table(Id("namespaces"), StructOf("namespaces")) /\ DOMAIN t = DOMAIN v.namespaces
    <3> HIDE DEF n, c
    <3> QED
      BY <1>0, <2>1, <2>3, CountChanged
  <2> HIDE DEF t, r, n
  <2>7. /\ WithTable(v, "namespaces", t) \in VfsState
        /\ WithTable(v, "namespaces", t)["namespaces"] = t
        /\ \A f \in VfsFields : f # "namespaces" => WithTable(v, "namespaces", t)[f] = v[f]
    BY <1>0, <2>6, TableState
  <2>8. t = [v.namespaces EXCEPT ![n] = [v.namespaces[n] EXCEPT !.references = @ + 1]]
    BY <2>1, <2>2 DEF t, Namespace
  <2>9. r.vfs["used"] = v["used"]
    BY <2>5, <2>7 DEF VfsFields
  <2>10. n = v.processes[creator].fs_namespace
    BY DEF n
  <2>11. Got(v, r.vfs, n, creator, flags)
    BY <1>1, <2>1, <2>5, <2>7, <2>8, <2>9, <2>10 DEF Got
  <2>12. n # SIZE_MAX
    BY <1>0, <2>2, SlotNumbers
  <2> QED
    BY <1>1, <2>1, <2>2, <2>4, <2>5, <2>6, <2>7, <2>11, <2>12 DEF r
<1>2. CASE "VFS_SHARE_NAMESPACE" \notin flags
  <2>1. r = alloc_structure(v, "namespaces", NewNamespace, oom)
    BY <1>2 DEF NamespaceFor, alloc_namespace
  <2> DEFINE i == r.value
  <2> HIDE DEF r
  <2>0. r.vfs.met \cap MapCalls = {}
    BY DEF r
  <2>2. \/ r.value = SIZE_MAX /\ r.vfs = v
        \/ /\ i \in Id("namespaces") \ v.used["namespaces"] /\ i \notin DOMAIN v["namespaces"]
           /\ r.vfs = Allocated(v, "namespaces", i, NewNamespace)
    BY <1>0, <2>0, <2>1, AllocStructure
  <2>3. ASSUME i \in Id("namespaces") \ v.used["namespaces"], i \notin DOMAIN v["namespaces"],
               r.vfs = Allocated(v, "namespaces", i, NewNamespace)
        PROVE  /\ r.vfs \in VfsState /\ i \in DOMAIN r.vfs.namespaces
               /\ i # SIZE_MAX /\ Got(v, r.vfs, i, creator, flags)
    <3> DEFINE A == Allocated(v, "namespaces", i, NewNamespace)
    <3> HIDE DEF i, A
    <3>1. /\ A \in VfsState
          /\ A.used = [v.used EXCEPT !["namespaces"] = @ \cup {i}]
          /\ A["namespaces"] = Put(v["namespaces"], i, NewNamespace)
          /\ \A f \in VfsFields \ {"used"} : f # "namespaces" => A[f] = v[f]
      BY <1>0, <2>3, NewNamespaceType, AllocatedState DEF A
    <3>2. r.vfs = A
      BY <2>3 DEF A
    <3>3. i \in DOMAIN Put(v.namespaces, i, NewNamespace)
      BY DEF Put
    <3>4. i # SIZE_MAX
      BY <1>0, <2>3, SlotNumbers
    <3> QED
      BY <1>2, <2>3, <3>1, <3>2, <3>3, <3>4 DEF Got
  <2> QED
    BY <2>2, <2>3 DEF r
<1> QED
  BY <1>1, <1>2

(* free_namespace undoes that, whatever happened to the other tables.      *)
LEMMA NamespaceGivenBack ==
  ASSUME NEW v \in VfsState, NEW w \in VfsState, NEW x \in VfsState, NEW creator, NEW flags,
         NEW n \in DOMAIN w.namespaces, Got(v, w, n, creator, flags),
         n \in DOMAIN v.namespaces => v.namespaces[n].references > 0,
         x.used = w.used, x.namespaces = w.namespaces
  PROVE  LET y == free_namespace(x, n)
         IN  /\ y \in VfsState /\ y.used = v.used /\ y.namespaces = v.namespaces
             /\ y.locked = x.locked \ {<<"namespaces", n>>}
             /\ \A f \in VfsFields \ {"used", "namespaces", "locked"} : y[f] = x[f]
<1> DEFINE u == Unlock(x, "namespaces", n)
           y == free_namespace(x, n)
<1>0. "namespaces" \in Kind /\ StructOf("namespaces") = Namespace /\ "namespaces" \in VfsFields
  BY DEF Kind, StructOf, VfsFields
<1>1. w.namespaces \in Table(Id("namespaces"), Namespace) /\ v.namespaces \in Table(Id("namespaces"), Namespace)
  BY DEF VfsState
<1>2. n \in Id("namespaces") /\ n \in Nat
  BY <1>0, <1>1, IsTable, SlotNumbers
<1>3. u \in VfsState /\ SameButLocks(x, u) /\ u.locked = x.locked \ {<<"namespaces", n>>}
  BY <1>0, <1>2, LockState
<1>4. \A f \in VfsFields \ {"locked"} : u[f] = x[f]
  BY DEF Unlock, VfsState, VfsFields
<1>5. CASE "VFS_SHARE_NAMESPACE" \in flags
  <2> DEFINE c == v.namespaces[n].references
             t == [w.namespaces EXCEPT ![n] = [w.namespaces[n] EXCEPT !.references = c]]
  <2>1. /\ n \in DOMAIN v.namespaces /\ w.used = v.used
        /\ w.namespaces = [v.namespaces EXCEPT ![n] = [v.namespaces[n] EXCEPT !.references = @ + 1]]
    BY <1>5 DEF Got
  <2>2. v.namespaces[n] \in Namespace /\ w.namespaces[n] \in Namespace
    BY <1>1, <2>1, IsTable
  <2>3. c \in Nat /\ c > 0 /\ w.namespaces[n] = [v.namespaces[n] EXCEPT !.references = c + 1]
    BY <2>1, <2>2 DEF Namespace
  <2>4. w.namespaces[n].references = c + 1
    BY <2>2, <2>3 DEF Namespace
  <2>5. y = [u EXCEPT !.namespaces[n].references = @ - 1]
    BY <2>3, <2>4 DEF free_namespace
  <2>6. u.namespaces = w.namespaces /\ u.used = w.used
    BY <1>3 DEF SameButLocks, SameTables
  <2>7. y = WithTable(u, "namespaces", t)
    <3> HIDE DEF u, y, c
    <3>1. "namespaces" \in DOMAIN u /\ n \in DOMAIN u.namespaces /\ "references" \in DOMAIN u.namespaces[n]
      BY <1>3, <2>2, <2>6 DEF VfsState, Namespace
    <3>2. u.namespaces[n].references - 1 = c
      <4>1. c \in Nat
        BY <2>3
      <4> QED
        BY <2>4, <2>6, <4>1
    <3>3. [u EXCEPT !.namespaces[n].references = @ - 1]
            = [u EXCEPT !.namespaces = [u.namespaces EXCEPT ![n] = [u.namespaces[n] EXCEPT !.references = u.namespaces[n].references - 1]]]
      BY <3>1
    <3> QED
      BY <2>5, <2>6, <3>2, <3>3 DEF WithTable
  <2>8. t \in Table(Id("namespaces"), StructOf("namespaces"))
    <3> HIDE DEF c
    <3> QED
      BY <1>0, <2>3, CountChanged
  <2>9. t = v.namespaces
    <3>1. [w.namespaces[n] EXCEPT !.references = c] = v.namespaces[n]
      BY <2>2, <2>3 DEF Namespace
    <3>2. v.namespaces = [j \in DOMAIN v.namespaces |-> v.namespaces[j]]
      BY <1>1, IsTable
    <3>3. t = [w.namespaces EXCEPT ![n] = v.namespaces[n]]
      BY <3>1
    <3> HIDE DEF t, c
    <3> QED
      BY <2>1, <3>2, <3>3
  <2> HIDE DEF t, u, y
  <2>10. /\ y \in VfsState /\ y["namespaces"] = t
         /\ \A f \in VfsFields : f # "namespaces" => y[f] = u[f]
    BY <1>0, <1>3, <2>7, <2>8, TableState
  <2>11. y["used"] = u["used"] /\ y["locked"] = u["locked"]
    BY <2>10 DEF VfsFields
  <2> QED
    BY <1>3, <1>4, <2>1, <2>6, <2>9, <2>10, <2>11 DEF y
<1>6. CASE "VFS_SHARE_NAMESPACE" \notin flags
  <2>1. /\ n \in Id("namespaces") \ v.used["namespaces"] /\ n \notin DOMAIN v.namespaces
        /\ w.used = [v.used EXCEPT !["namespaces"] = @ \cup {n}]
        /\ w.namespaces = Put(v.namespaces, n, NewNamespace)
    BY <1>6 DEF Got
  <2>2. w.namespaces[n].references = 1
    BY <2>1 DEF Put, NewNamespace
  <2>3. y = free_structure(u, "namespaces", n)
    BY <2>2 DEF free_namespace
  <2>4. u.namespaces = w.namespaces /\ u.used = w.used
    BY <1>3 DEF SameButLocks, SameTables
  <2> HIDE DEF u, y
  <2>5. /\ y \in VfsState
        /\ y["namespaces"] = Drop(u["namespaces"], n)
        /\ y.used = [u.used EXCEPT !["namespaces"] = @ \ {n}]
        /\ y.locked = u.locked \ {<<"namespaces", n>>}
        /\ \A f \in VfsFields \ {"used", "locked"} : f # "namespaces" => y[f] = u[f]
    BY <1>0, <1>3, <2>3, <2>4, FreeStructure
  <2>6. y.namespaces = v.namespaces
    BY <1>1, <2>1, <2>4, <2>5, DropPut
  <2>7. y.used = v.used
    <3>1. v.used \in [Kind -> SUBSET Nat]
      BY DEF VfsState
    <3> QED
      BY <1>0, <2>1, <2>4, <2>5, <3>1
  <2>8. y.locked = x.locked \ {<<"namespaces", n>>}
    BY <1>3, <2>5
  <2>9. \A f \in VfsFields \ {"used", "namespaces", "locked"} : y[f] = x[f]
    BY <1>4, <2>5
  <2> QED
    BY <2>5, <2>6, <2>7, <2>8, <2>9 DEF y
<1> QED
  BY <1>5, <1>6

(* The descriptors of infos are descriptors.                               *)
LEMMA DescriptorTypes ==
  ASSUME NEW d \in Id("infos")
  PROVE  /\ Info(d) \in Descriptor /\ Info(d).of = "info" /\ Info(d).id = d
         /\ SlotNr(d) \in Descriptor /\ SlotNr(d).of = "slot" /\ SlotNr(d).id = d
         /\ Info(d) # FileDescriptor /\ SlotNr(d) # FileDescriptor /\ FileDescriptor \notin Descriptor
BY DEF Info, SlotNr, Descriptor, FileDescriptor

(* open_root fails and leaves the namespace locked, or makes an info for   *)
(* the root and sends its descriptor.                                      *)
RootOpened(v, w, n, can_modify) ==
  LET d == SlotFor(v, "infos")
  IN  /\ d \in Id("infos") \ v.used["infos"] /\ d \notin DOMAIN v.infos
      /\ w.used = [v.used EXCEPT !["infos"] = @ \cup {d}]
      /\ w.infos = Put(v.infos, d, RootOf(n, can_modify, v.namespaces[n].root))
      /\ w.replies = Append(v.replies, [status |-> "ok", gives |-> {Info(d)}])
      /\ w.locked = v.locked \ {<<"namespaces", n>>}
      /\ \A f \in VfsFields \ {"used", "infos", "replies", "locked"} : w[f] = v[f]
(* open_root answers with a new descriptor, or runs out of memory.         *)
LEMMA OpenRoot ==
  ASSUME NEW v \in VfsState, NEW n \in DOMAIN v.namespaces, NEW can_modify \in BOOLEAN, NEW oom,
         open_root(v, n, can_modify, oom).vfs.met \cap MapCalls = {}
  PROVE  LET r == open_root(v, n, can_modify, oom)
         IN  \/ r.value = "ENOMEM" /\ r.vfs = Lock(v, "namespaces", n)
             \/ r.value = "ok" /\ r.vfs \in VfsState /\ RootOpened(v, r.vfs, n, can_modify)
<1> DEFINE l == Lock(v, "namespaces", n)
           root == RootOf(n, can_modify, v.namespaces[n].root)
           a == alloc_structure(l, "infos", root, oom)
           d == a.value
           s == badge_and_send(a.vfs, Info(d))
           r == open_root(v, n, can_modify, oom)
<1>0. /\ "namespaces" \in Kind /\ "infos" \in Kind /\ StructOf("infos") = DirectoryInfo
      /\ "infos" \in VfsFields
  BY DEF Kind, StructOf, VfsFields
<1>1. v.namespaces \in Table(Id("namespaces"), Namespace)
  BY DEF VfsState
<1>2. n \in Id("namespaces") /\ n \in Nat /\ v.namespaces[n] \in Namespace
  BY <1>0, <1>1, IsTable, SlotNumbers
<1>3. l \in VfsState /\ SameButLocks(v, l) /\ l.locked = v.locked \cup {<<"namespaces", n>>}
  BY <1>0, <1>2, LockState
<1>4. \A f \in VfsFields \ {"locked"} : l[f] = v[f]
  BY DEF Lock, VfsState, VfsFields
<1>5. root \in DirectoryInfo
  BY <1>2, VfsAssumption DEF RootOf, DirectoryInfo, Namespace
<1>6. IF d = SIZE_MAX THEN r.value = "ENOMEM" /\ r.vfs = a.vfs
      ELSE r.value = "ok" /\ r.vfs = Unlock(s, "namespaces", n)
  BY DEF open_root, WithValue, RootOf
<1>7. a.vfs.met \cap MapCalls = {}
  <2>1. Grows(l, a.vfs)
    BY <1>0, StructuresGrow
  <2>2. "met" \in DOMAIN a.vfs
    BY <1>3, <2>1 DEF Grows, VfsState
  <2> HIDE DEF a
  <2>3. r.vfs.met = a.vfs.met
    <3> HIDE DEF r
    <3> QED
      BY <1>6, <2>2 DEF Unlock, badge_and_send, Reply
  <2> QED
    BY <2>3
<1> HIDE DEF root
<1>8. \/ d = SIZE_MAX /\ a.vfs = l
      \/ /\ d \in Id("infos") \ l.used["infos"] /\ d \notin DOMAIN l["infos"]
         /\ d = SlotFor(l, "infos")
         /\ a.vfs = Allocated(l, "infos", d, root)
  <2> HIDE DEF l
  <2> QED
    BY <1>0, <1>3, <1>7, AllocStructure
<1>9. CASE d = SIZE_MAX /\ a.vfs = l
  BY <1>6, <1>9
<1>10. CASE /\ d \in Id("infos") \ l.used["infos"] /\ d \notin DOMAIN l["infos"]
            /\ d = SlotFor(l, "infos") /\ a.vfs = Allocated(l, "infos", d, root)
  <2> DEFINE A == Allocated(l, "infos", d, root)
  <2>1. d # SIZE_MAX
    BY <1>0, <1>10, SlotNumbers
  <2>2. l.used = v.used /\ l.infos = v.infos /\ l.replies = v.replies
    BY <1>3 DEF SameButLocks, SameTables
  <2>3. d = SlotFor(v, "infos")
    BY <1>10, <2>2 DEF SlotFor, FreeIds
  <2> HIDE DEF l, d, r
  <2>4. /\ A \in VfsState
        /\ A.used = [l.used EXCEPT !["infos"] = @ \cup {d}]
        /\ A["infos"] = Put(l["infos"], d, root)
        /\ \A f \in VfsFields \ {"used"} : f # "infos" => A[f] = l[f]
    BY <1>0, <1>3, <1>5, <1>10, AllocatedState
  <2> HIDE DEF A
  <2>5. {Info(d)} \in SUBSET (Descriptor \cup {FileDescriptor}) /\ "ok" \in Status
    <3>1. d \in Id("infos")
      BY <1>10
    <3>2. Info(d) \in Descriptor
      BY <3>1, DescriptorTypes
    <3> QED
      BY <3>2 DEF Status
  <2>6. s = Reply(A, "ok", {Info(d)})
    BY <1>10 DEF badge_and_send, A
  <2> HIDE DEF s
  <2>7. /\ s \in VfsState /\ SameTables(A, s)
        /\ s.replies = Append(A.replies, [status |-> "ok", gives |-> {Info(d)}])
        /\ s.locked = A.locked /\ s.storage = A.storage /\ s.transferred = A.transferred
        /\ s.met = A.met
    <3> DEFINE g == {Info(d)}
    <3>1. A \in VfsState
      BY <2>4
    <3>2. g \in SUBSET (Descriptor \cup {FileDescriptor}) /\ "ok" \in Status
      BY <2>5
    <3>3. s = Reply(A, "ok", g)
      BY <2>6
    <3> HIDE DEF g
    <3>4. /\ Reply(A, "ok", g) \in VfsState /\ SameTables(A, Reply(A, "ok", g))
          /\ Reply(A, "ok", g).replies = Append(A.replies, [status |-> "ok", gives |-> g])
          /\ Reply(A, "ok", g).locked = A.locked /\ Reply(A, "ok", g).storage = A.storage
          /\ Reply(A, "ok", g).transferred = A.transferred /\ Reply(A, "ok", g).met = A.met
      BY <3>1, <3>2, ReplyState
    <3> QED
      BY <3>3, <3>4 DEF g
  <2> DEFINE u == Unlock(s, "namespaces", n)
  <2>8. u \in VfsState /\ SameButLocks(s, u) /\ u.locked = s.locked \ {<<"namespaces", n>>}
    <3>1. s \in VfsState /\ "namespaces" \in Kind /\ n \in Nat
      BY <1>0, <1>2, <2>7
    <3>2. /\ Unlock(s, "namespaces", n) \in VfsState /\ SameButLocks(s, Unlock(s, "namespaces", n))
          /\ Unlock(s, "namespaces", n).locked = s.locked \ {<<"namespaces", n>>}
      BY <3>1, LockState
    <3> QED
      BY <3>2
  <2> HIDE DEF u
  <2>9. r.value = "ok" /\ r.vfs = u
    BY <1>6, <2>1 DEF u
  <2>10. A["replies"] = l["replies"] /\ A["locked"] = l["locked"]
    BY <2>4 DEF VfsFields
  <2>11. u.locked = v.locked \ {<<"namespaces", n>>}
    BY <1>3, <2>7, <2>8, <2>10
  <2>12. u.replies = Append(v.replies, [status |-> "ok", gives |-> {Info(d)}])
    BY <2>2, <2>7, <2>8, <2>10 DEF SameButLocks
  <2>13. u.used = [v.used EXCEPT !["infos"] = @ \cup {d}] /\ u.infos = Put(v.infos, d, root)
    BY <2>2, <2>4, <2>7, <2>8 DEF SameButLocks, SameTables
  <2>14. \A f \in VfsFields \ {"used", "infos", "replies", "locked"} : u[f] = A[f]
    <3>1. /\ u.processes = A.processes /\ u.namespaces = A.namespaces
          /\ u.mount_points = A.mount_points /\ u.lists = A.lists /\ u.fds = A.fds
          /\ u.storage = A.storage /\ u.transferred = A.transferred /\ u.met = A.met
      BY <2>7, <2>8 DEF SameButLocks, SameTables
    <3> QED
      BY <3>1 DEF VfsFields
  <2>15. \A f \in VfsFields \ {"used", "infos", "replies", "locked"} : u[f] = v[f]
    BY <1>4, <2>4, <2>14
  <2>16. RootOpened(v, u, n, can_modify)
    BY <1>10, <2>2, <2>3, <2>11, <2>12, <2>13, <2>15 DEF RootOpened, root
  <2> QED
    BY <2>8, <2>9, <2>16 DEF r
<1> QED
  BY <1>8, <1>9, <1>10

(* The memory with another process.                                        *)
WithProcesses(v, t) == [v EXCEPT !.processes = t]
(* Only the processes change.                                              *)
LEMMA ProcessState ==
  ASSUME NEW v \in VfsState, NEW t \in Table(Pid, ProcessData)
  PROVE  /\ WithProcesses(v, t) \in VfsState
         /\ WithProcesses(v, t).processes = t
         /\ \A f \in VfsFields : f # "processes" => WithProcesses(v, t)[f] = v[f]
BY DEF VfsState, VfsFields, WithProcesses

(* What namespaces.c and open_root meet stays met.                         *)
LEMMA NamespacesGrow ==
  ASSUME NEW v, NEW n
  PROVE  /\ Grows(v, free_namespace(v, n))
         /\ \A can_modify, oom : Grows(v, open_root(v, n, can_modify, oom).vfs)
         /\ \A t : Grows(v, [v EXCEPT !.processes = t])
<1>0. "namespaces" \in Kind /\ "infos" \in Kind
  BY DEF Kind
<1>1. Grows(v, free_namespace(v, n))
  <2> DEFINE u == Unlock(v, "namespaces", n)
             x == [u EXCEPT !.namespaces[n].references = @ - 1]
  <2>1. Grows(v, u)
    BY <1>0, StructuresGrow
  <2>2. free_namespace(v, n) \in {free_structure(u, "namespaces", n), x}
    BY DEF free_namespace
  <2>3. Grows(u, x)
    BY DEF Grows
  <2>4. Grows(u, free_structure(u, "namespaces", n))
    BY <1>0, StructuresGrow
  <2> HIDE DEF u, x
  <2> QED
    BY <2>1, <2>2, <2>3, <2>4 DEF Grows
<1>2. \A can_modify, oom : Grows(v, open_root(v, n, can_modify, oom).vfs)
  <2> TAKE can_modify, oom
  <2> DEFINE l == Lock(v, "namespaces", n)
             a == alloc_structure(l, "infos", RootOf(n, can_modify, v.namespaces[n].root), oom)
             s == badge_and_send(a.vfs, Info(a.value))
             u == Unlock(s, "namespaces", n)
  <2>1. Grows(v, l) /\ Grows(l, a.vfs) /\ Grows(s, u)
    BY <1>0, StructuresGrow
  <2>2. Grows(a.vfs, s)
    BY DEF Grows, badge_and_send, Reply
  <2>3. open_root(v, n, can_modify, oom).vfs \in {a.vfs, u}
    BY DEF open_root, WithValue, RootOf
  <2> HIDE DEF l, a, s, u
  <2> QED
    BY <2>1, <2>2, <2>3 DEF Grows
<1>3. \A t : Grows(v, [v EXCEPT !.processes = t])
  BY DEF Grows
<1> QED
  BY <1>1, <1>2, <1>3

(* A process was set up, with the namespace n.                             *)
SetUpDone(v, w, n, creator, new, flags) ==
  LET d == SlotFor(v, "infos")
      can_modify == CanModify(v, creator, flags)
      data == [fs_namespace |-> n, can_modify |-> can_modify]
  IN  /\ d \in Id("infos") \ v.used["infos"] /\ d \notin DOMAIN v.infos /\ new \notin DOMAIN v.processes
      /\ \/ /\ "VFS_SHARE_NAMESPACE" \in flags
            /\ n = v.processes[creator].fs_namespace /\ n \in DOMAIN v.namespaces
            /\ w.used = [v.used EXCEPT !["infos"] = @ \cup {d}]
            /\ w.namespaces = [v.namespaces EXCEPT ![n] = [v.namespaces[n] EXCEPT !.references = @ + 1]]
            /\ w.infos = Put(v.infos, d, RootOf(n, can_modify, v.namespaces[n].root))
         \/ /\ "VFS_SHARE_NAMESPACE" \notin flags
            /\ n \in Id("namespaces") \ v.used["namespaces"] /\ n \notin DOMAIN v.namespaces
            /\ w.used = [v.used EXCEPT !["namespaces"] = @ \cup {n}, !["infos"] = @ \cup {d}]
            /\ w.namespaces = Put(v.namespaces, n, NewNamespace)
            /\ w.infos = Put(v.infos, d, RootOf(n, can_modify, SIZE_MAX))
      /\ w.processes = Put(v.processes, new, data)
      /\ w.replies = Append(v.replies, [status |-> "ok", gives |-> {Info(d)}])
      /\ w.mount_points = v.mount_points /\ w.lists = v.lists /\ w.fds = v.fds

(* What set_up_filesystem_for_process leaves alone.                        *)
Quiet(v, w) ==
  /\ w.locked \subseteq v.locked /\ w.storage = v.storage /\ w.transferred = v.transferred
  /\ w.met = v.met

(* set_up_filesystem_for_process, whichever of its steps fails.            *)
LEMMA SetUp ==
  ASSUME NEW v \in VfsState, NEW creator, NEW new \in Pid, NEW flags, NEW oom,
         "VFS_SHARE_NAMESPACE" \in flags => v.processes[creator].fs_namespace \in DOMAIN v.namespaces,
         \A n \in DOMAIN v.namespaces : v.namespaces[n].references > 0,
         set_up_filesystem_for_process(v, creator, new, flags, oom).vfs.met \cap MapCalls = {}
  PROVE  LET r == set_up_filesystem_for_process(v, creator, new, flags, oom)
         IN  /\ r.vfs \in VfsState /\ Quiet(v, r.vfs)
             /\ \/ r.value = "ENOMEM" /\ SameTables(v, r.vfs) /\ r.vfs.replies = v.replies
                \/ r.value = "ok" /\ \E n \in Id("namespaces") : SetUpDone(v, r.vfs, n, creator, new, flags)
<1> DEFINE a == NamespaceFor(v, creator, flags, oom)
           n == a.value
           w == a.vfs
           can == CanModify(v, creator, flags)
           data == [fs_namespace |-> n, can_modify |-> can]
           t == Put(w.processes, new, data)
           p == WithProcesses(w, t)
           q == [w EXCEPT !.processes = Put(@, new, data)]
           o == open_root(q, n, can, oom)
           f == free_namespace(o.vfs, n)
           e == [f EXCEPT !.processes = Drop(@, new)]
           r == set_up_filesystem_for_process(v, creator, new, flags, oom)
<1>0. "namespaces" \in Kind /\ "infos" \in Kind /\ can \in BOOLEAN
  BY DEF Kind, CanModify
<1>1. IF n = SIZE_MAX THEN r = WithValue(w, "ENOMEM")
      ELSE IF "process" \in oom \/ new \in DOMAIN v.processes
      THEN r = WithValue(free_namespace(w, n), "ENOMEM")
      ELSE IF o.value # "ok" THEN r = WithValue(e, o.value)
      ELSE r = o
  BY DEF set_up_filesystem_for_process
<1>2. w.met \cap MapCalls = {}
  <2>1. "met" \in DOMAIN w
    <3>1. CASE "VFS_SHARE_NAMESPACE" \in flags
      BY <3>1 DEF NamespaceFor, WithValue, VfsState
    <3>2. CASE "VFS_SHARE_NAMESPACE" \notin flags
      <4>1. w = alloc_structure(v, "namespaces", NewNamespace, oom).vfs
        BY <3>2 DEF NamespaceFor, alloc_namespace
      <4>2. Grows(v, alloc_structure(v, "namespaces", NewNamespace, oom).vfs)
        BY <1>0, StructuresGrow
      <4> QED
        BY <4>1, <4>2 DEF Grows, VfsState
    <3> QED
      BY <3>1, <3>2
  <2>2. /\ Grows(w, free_namespace(w, n)) /\ Grows(w, q) /\ Grows(q, o.vfs)
        /\ Grows(o.vfs, f) /\ Grows(f, e)
    BY NamespacesGrow
  <2> HIDE DEF w, n, q, o, f, e, r
  <2>3. Grows(w, r.vfs)
    BY <1>1, <2>2 DEF Grows, WithValue
  <2> QED
    BY <2>1, <2>3 DEF Grows, r
<1>3. \/ n = SIZE_MAX /\ w = v
      \/ /\ w \in VfsState /\ n \in DOMAIN w.namespaces
         /\ n \in Id("namespaces") /\ n # SIZE_MAX /\ Got(v, w, n, creator, flags)
  BY <1>2, NamespaceGot
<1>4. \A x \in VfsState : Quiet(x, x) /\ SameTables(x, x)
  BY DEF Quiet, SameTables
<1>5. CASE n = SIZE_MAX /\ w = v
  <2>1. r.vfs = v /\ r.value = "ENOMEM"
    BY <1>1, <1>5 DEF WithValue
  <2> QED
    BY <1>4, <2>1
<1>6. CASE /\ w \in VfsState /\ n \in DOMAIN w.namespaces
           /\ n \in Id("namespaces") /\ n # SIZE_MAX /\ Got(v, w, n, creator, flags)
  <2> HIDE DEF w, n
  <2>1. \A x \in VfsFields \ {"used", "namespaces"} : w[x] = v[x]
    BY <1>6 DEF Got
  <2>2. /\ w.processes = v.processes /\ w.infos = v.infos /\ w.replies = v.replies
        /\ w.mount_points = v.mount_points /\ w.lists = v.lists /\ w.fds = v.fds
        /\ w.locked = v.locked /\ w.storage = v.storage /\ w.transferred = v.transferred /\ w.met = v.met
    BY <2>1 DEF VfsFields
  <2>3. ASSUME NEW x \in VfsState, x.used = w.used, x.namespaces = w.namespaces
        PROVE  LET y == free_namespace(x, n)
               IN  /\ y \in VfsState /\ y.used = v.used /\ y.namespaces = v.namespaces
                   /\ y.locked = x.locked \ {<<"namespaces", n>>}
                   /\ \A g \in VfsFields \ {"used", "namespaces", "locked"} : y[g] = x[g]
    BY <1>6, <2>3, NamespaceGivenBack
  <2>4. CASE "process" \in oom \/ new \in DOMAIN v.processes
    <3> DEFINE y == free_namespace(w, n)
    <3>1. /\ y \in VfsState /\ y.used = v.used /\ y.namespaces = v.namespaces
          /\ y.locked = w.locked \ {<<"namespaces", n>>}
          /\ \A g \in VfsFields \ {"used", "namespaces", "locked"} : y[g] = w[g]
      BY <1>6, <2>3
    <3>2. r.vfs = y /\ r.value = "ENOMEM"
      BY <1>1, <1>6, <2>4 DEF WithValue
    <3> HIDE DEF y, r
    <3>3. /\ y.processes = v.processes /\ y.infos = v.infos /\ y.replies = v.replies
          /\ y.mount_points = v.mount_points /\ y.lists = v.lists /\ y.fds = v.fds
          /\ y.storage = v.storage /\ y.transferred = v.transferred /\ y.met = v.met
      BY <2>2, <3>1 DEF VfsFields
    <3>4. Quiet(v, y) /\ SameTables(v, y)
      BY <2>2, <3>1, <3>3 DEF Quiet, SameTables
    <3> QED
      BY <3>1, <3>2, <3>3, <3>4 DEF r
  <2>5. CASE ~("process" \in oom \/ new \in DOMAIN v.processes)
    <3>1. data \in ProcessData
      BY <1>0, <1>6 DEF ProcessData
    <3>2. v.processes \in Table(Pid, ProcessData)
      BY DEF VfsState
    <3>3. t \in Table(Pid, ProcessData)
      BY <2>2, <3>1, <3>2, PutTable, ZenonT(40)
    <3>4. q = p
      BY <1>6 DEF VfsState, WithProcesses
    <3> HIDE DEF t, data, q
    <3>5. /\ q \in VfsState /\ q.processes = t
          /\ \A g \in VfsFields : g # "processes" => q[g] = w[g]
      BY <1>6, <3>3, <3>4, ProcessState
    <3> USE DEF q
    <3>6. /\ q.used = w.used /\ q.namespaces = w.namespaces /\ q.infos = v.infos /\ q.replies = v.replies
          /\ q.mount_points = v.mount_points /\ q.lists = v.lists /\ q.fds = v.fds
          /\ q.locked = v.locked /\ q.storage = v.storage /\ q.transferred = v.transferred /\ q.met = v.met
      BY <2>2, <3>5 DEF VfsFields
    <3>7. o.vfs.met \cap MapCalls = {}
      <4>1. Grows(q, o.vfs) /\ Grows(o.vfs, f) /\ Grows(f, e)
        BY NamespacesGrow
      <4>2. r.vfs = o.vfs \/ r.vfs = e
        BY <1>1, <1>6, <2>5 DEF WithValue
      <4> HIDE DEF q, o, f, e, r, can
      <4>3. "met" \in DOMAIN q
        BY <3>5 DEF VfsState
      <4> QED
        BY <4>1, <4>2, <4>3 DEF Grows, r
    <3> HIDE DEF q, can
    <3>8. \/ o.value = "ENOMEM" /\ o.vfs = Lock(q, "namespaces", n)
          \/ o.value = "ok" /\ o.vfs \in VfsState /\ RootOpened(q, o.vfs, n, can)
      BY <1>0, <1>6, <3>5, <3>6, <3>7, OpenRoot
    <3> HIDE DEF o
    <3>9. CASE o.value = "ENOMEM" /\ o.vfs = Lock(q, "namespaces", n)
      <4>0. n \in Nat
        BY <1>0, <1>6, SlotNumbers
      <4>1. o.vfs \in VfsState /\ SameButLocks(q, o.vfs) /\ o.vfs.locked = q.locked \cup {<<"namespaces", n>>}
        BY <1>0, <3>5, <3>9, <4>0, LockState
      <4>2. o.vfs.used = w.used /\ o.vfs.namespaces = w.namespaces
        BY <3>6, <4>1 DEF SameButLocks, SameTables
      <4>3. /\ f \in VfsState /\ f.used = v.used /\ f.namespaces = v.namespaces
            /\ f.locked = o.vfs.locked \ {<<"namespaces", n>>}
            /\ \A g \in VfsFields \ {"used", "namespaces", "locked"} : f[g] = o.vfs[g]
        BY <2>3, <4>1, <4>2
      <4> HIDE DEF f
      <4>4. /\ f.processes = t /\ f.infos = v.infos /\ f.replies = v.replies
            /\ f.mount_points = v.mount_points /\ f.lists = v.lists /\ f.fds = v.fds
            /\ f.storage = v.storage /\ f.transferred = v.transferred /\ f.met = v.met
        <5>1. /\ f.processes = o.vfs.processes /\ f.infos = o.vfs.infos /\ f.replies = o.vfs.replies
              /\ f.mount_points = o.vfs.mount_points /\ f.lists = o.vfs.lists /\ f.fds = o.vfs.fds
              /\ f.storage = o.vfs.storage /\ f.transferred = o.vfs.transferred /\ f.met = o.vfs.met
          BY <4>3 DEF VfsFields
        <5> QED
          BY <3>5, <3>6, <4>1, <5>1 DEF SameButLocks, SameTables
      <4>5. Drop(t, new) = v.processes
        BY <2>2, <2>5, <3>2, DropPut DEF t
      <4>6. e = WithProcesses(f, v.processes)
        BY <4>3, <4>4, <4>5 DEF VfsState, WithProcesses
      <4> HIDE DEF e
      <4>7. /\ e \in VfsState /\ e.processes = v.processes
            /\ \A g \in VfsFields : g # "processes" => e[g] = f[g]
        BY <3>2, <4>3, <4>6, ProcessState
      <4>8. /\ e.used = v.used /\ e.namespaces = v.namespaces /\ e.locked = f.locked
            /\ e.infos = v.infos /\ e.replies = v.replies
            /\ e.mount_points = v.mount_points /\ e.lists = v.lists /\ e.fds = v.fds
            /\ e.storage = v.storage /\ e.transferred = v.transferred /\ e.met = v.met
        BY <4>3, <4>4, <4>7 DEF VfsFields
      <4>9. e.locked \subseteq v.locked
        BY <3>6, <4>1, <4>3, <4>8
      <4>10. r.vfs = e /\ r.value = "ENOMEM"
        BY <1>1, <1>6, <2>5, <3>9 DEF WithValue
      <4> HIDE DEF r
      <4>11. Quiet(v, e) /\ SameTables(v, e)
        BY <4>7, <4>8, <4>9 DEF Quiet, SameTables
      <4> QED
        BY <4>7, <4>8, <4>10, <4>11 DEF r
    <3>10. CASE o.value = "ok" /\ o.vfs \in VfsState /\ RootOpened(q, o.vfs, n, can)
      <4> DEFINE d == SlotFor(q, "infos")
                 z == o.vfs
      <4>1. r = o
        BY <1>1, <1>6, <2>5, <3>10
      <4> HIDE DEF r
      <4>2. /\ d \in Id("infos") \ q.used["infos"] /\ d \notin DOMAIN q.infos
            /\ z.used = [q.used EXCEPT !["infos"] = @ \cup {d}]
            /\ z.infos = Put(q.infos, d, RootOf(n, can, q.namespaces[n].root))
            /\ z.replies = Append(q.replies, [status |-> "ok", gives |-> {Info(d)}])
            /\ z.locked = q.locked \ {<<"namespaces", n>>}
            /\ \A x \in VfsFields \ {"used", "infos", "replies", "locked"} : z[x] = q[x]
        BY <3>10 DEF RootOpened
      <4>3. /\ z.processes = t /\ z.namespaces = w.namespaces
            /\ z.mount_points = v.mount_points /\ z.lists = v.lists /\ z.fds = v.fds
            /\ z.storage = v.storage /\ z.transferred = v.transferred /\ z.met = v.met
        BY <3>5, <3>6, <4>2 DEF VfsFields
      <4>4. d = SlotFor(v, "infos") /\ q.used["infos"] = v.used["infos"]
        <5>1. w.used["infos"] = v.used["infos"]
          <6>1. v.used \in [Kind -> SUBSET Nat]
            BY DEF VfsState
          <6>2. w.used = v.used \/ w.used = [v.used EXCEPT !["namespaces"] = @ \cup {n}]
            BY <1>6 DEF Got
          <6> QED
            BY <1>0, <6>1, <6>2
        <5> QED
          BY <3>6, <5>1 DEF SlotFor, FreeIds
      <4>5. Quiet(v, z)
        BY <3>6, <4>2, <4>3 DEF Quiet
      <4> HIDE DEF d, z
      <4>6. SetUpDone(v, z, n, creator, new, flags)
        <5>1. /\ d \in Id("infos") \ v.used["infos"] /\ d \notin DOMAIN v.infos
              /\ new \notin DOMAIN v.processes
              /\ z.processes = Put(v.processes, new, data)
              /\ z.replies = Append(v.replies, [status |-> "ok", gives |-> {Info(d)}])
          BY <2>2, <2>5, <3>6, <4>2, <4>3, <4>4 DEF t
        <5>2. CASE "VFS_SHARE_NAMESPACE" \in flags
          <6>1. /\ n = v.processes[creator].fs_namespace /\ n \in DOMAIN v.namespaces
                /\ w.used = v.used
                /\ w.namespaces = [v.namespaces EXCEPT ![n] = [v.namespaces[n] EXCEPT !.references = @ + 1]]
            BY <1>6, <5>2 DEF Got
          <6>2. v.namespaces[n] \in Namespace
            BY <6>1, IsTable DEF VfsState
          <6>3. w.namespaces[n].root = v.namespaces[n].root
            BY <6>1, <6>2 DEF Namespace
          <6>4. /\ z.used = [v.used EXCEPT !["infos"] = @ \cup {d}]
                /\ z.infos = Put(v.infos, d, RootOf(n, can, v.namespaces[n].root))
            BY <3>6, <4>2, <6>1, <6>3
          <6> QED
            BY <4>3, <4>4, <5>1, <5>2, <6>1, <6>4 DEF SetUpDone, can, data
        <5>3. CASE "VFS_SHARE_NAMESPACE" \notin flags
          <6>1. /\ n \in Id("namespaces") \ v.used["namespaces"] /\ n \notin DOMAIN v.namespaces
                /\ w.used = [v.used EXCEPT !["namespaces"] = @ \cup {n}]
                /\ w.namespaces = Put(v.namespaces, n, NewNamespace)
            BY <1>6, <5>3 DEF Got
          <6>2. w.namespaces[n].root = SIZE_MAX
            BY <6>1 DEF Put, NewNamespace
          <6>3. z.infos = Put(v.infos, d, RootOf(n, can, SIZE_MAX))
            BY <3>6, <4>2, <6>2
          <6>4. z.used = [v.used EXCEPT !["namespaces"] = @ \cup {n}, !["infos"] = @ \cup {d}]
            <7>1. v.used \in [Kind -> SUBSET Nat]
              BY DEF VfsState
            <7>2. z.used = [[v.used EXCEPT !["namespaces"] = @ \cup {n}] EXCEPT !["infos"] = @ \cup {d}]
              BY <3>6, <4>2, <6>1
            <7> QED
              BY <1>0, <7>1, <7>2
          <6> QED
            BY <4>3, <4>4, <5>1, <5>3, <6>1, <6>3, <6>4 DEF SetUpDone, can, data
        <5> QED
          BY <5>2, <5>3
      <4> QED
        BY <1>6, <3>10, <4>1, <4>5, <4>6 DEF r, z
    <3> QED
      BY <3>8, <3>9, <3>10
  <2> QED
    BY <2>4, <2>5
<1> QED
  BY <1>3, <1>5, <1>6

-----------------------------------------------------------------------------
(***************************************************************************)
(* The changes to the tables, and that they preserve the invariant.        *)
(***************************************************************************)
(* Nothing changed.                                                        *)
LEMMA SameInv ==
  ASSUME NEW v, NEW w \in VfsState, TablesInv(v), SameTables(v, w)
  PROVE  TablesInv(w)
<1>1. \A k \in Kind : w[k] = v[k]
  BY DEF Kind, SameTables
<1>2. MapsInv(w)
  BY <1>1 DEF TablesInv, MapsInv, SameTables
<1>3. \A n : Users(w, n) = Users(v, n)
  BY DEF Users, SameTables
<1>4. NamespacesInv(w)
  BY <1>3 DEF TablesInv, NamespacesInv, SameTables
<1>5. Inner(w) = Inner(v)
  BY DEF Inner, SameTables
<1>6. PointersInv(w)
  BY <1>5 DEF TablesInv, PointersInv, SameTables
<1>7. \A n, b : BucketOf(w, n, b) = BucketOf(v, n, b)
  BY DEF BucketOf, Reached, IsClosed, SameTables
<1>8. \A n : MountsOf(w, n) = MountsOf(v, n)
  BY <1>7 DEF MountsOf, SameTables
<1>9. BucketsInv(w)
  BY <1>7, <1>8 DEF TablesInv, BucketsInv, SameTables
<1>10. ListsInv(w)
  BY DEF TablesInv, ListsInv, SameTables
<1>11. InfosInv(w)
  BY <1>3 DEF TablesInv, InfosInv, SameTables
<1> QED
  BY <1>2, <1>4, <1>6, <1>9, <1>10, <1>11 DEF TablesInv

(* From nothing nothing is reached; the first is; what is reached is       *)
(* closed, and in every closed set.                                        *)
LEMMA ReachedFacts ==
  ASSUME NEW v, NEW first
  PROVE  /\ Reached(v, SIZE_MAX) = {}
         /\ Reached(v, first) \subseteq Id("mount_points")
         /\ first \in Id("mount_points") => first \in Reached(v, first)
         /\ \A S \in SUBSET Id("mount_points") :
              first \in S \cup {SIZE_MAX} /\ IsClosed(v, S) => Reached(v, first) \subseteq S
<1>0. SIZE_MAX \notin Id("mount_points")
  BY SlotNumbers DEF Kind
<1>1. Reached(v, SIZE_MAX) = {}
  <2>1. {} \in SUBSET Id("mount_points") /\ IsClosed(v, {})
    BY DEF IsClosed
  <2> QED
    BY <2>1 DEF Reached
<1>2. first \in Id("mount_points") => first \in Reached(v, first)
  BY <1>0 DEF Reached
<1> QED
  BY <1>1, <1>2 DEF Reached

(* Namespaces come and their counts change, and their mounts stay.         *)
LEMMA MountsKept ==
  ASSUME NEW v, NEW w, TablesInv(v), w.mount_points = v.mount_points,
         DOMAIN v.namespaces \subseteq DOMAIN w.namespaces,
         \A n \in DOMAIN v.namespaces : /\ w.namespaces[n].root = v.namespaces[n].root
                                        /\ w.namespaces[n].buckets = v.namespaces[n].buckets,
         \A n \in DOMAIN w.namespaces \ DOMAIN v.namespaces :
            /\ w.namespaces[n].root = SIZE_MAX
            /\ \A b \in Bucket : w.namespaces[n].buckets[b] = SIZE_MAX
  PROVE  PointersInv(w) /\ BucketsInv(w)
<1>1. Inner(w) = Inner(v)
  BY DEF Inner
<1>2. PointersInv(w)
  <2>1. PointersInv(v)
    BY DEF TablesInv
  <2>2. \A n \in DOMAIN w.namespaces \ DOMAIN v.namespaces :
          /\ w.namespaces[n].root \in Optional(DOMAIN w.mount_points \ Inner(w))
          /\ \A b \in Bucket : w.namespaces[n].buckets[b] \in Optional(Inner(w))
    BY DEF Optional
  <2> QED
    BY <1>1, <2>1, <2>2 DEF PointersInv
<1>3. \A first : Reached(w, first) = Reached(v, first)
  BY DEF Reached, IsClosed
<1>4. \A n \in DOMAIN v.namespaces, b \in Bucket : BucketOf(w, n, b) = BucketOf(v, n, b)
  BY <1>3 DEF BucketOf
<1>5. \A n \in DOMAIN w.namespaces \ DOMAIN v.namespaces, b \in Bucket : BucketOf(w, n, b) = {}
  BY ReachedFacts DEF BucketOf
<1>6. \A n \in DOMAIN v.namespaces : MountsOf(w, n) = MountsOf(v, n)
  BY <1>4 DEF MountsOf
<1>7. \A n \in DOMAIN w.namespaces \ DOMAIN v.namespaces : MountsOf(w, n) = {}
  BY <1>5 DEF MountsOf
<1>8. BucketsInv(v)
  BY DEF TablesInv
<1>9. ASSUME NEW n \in DOMAIN w.namespaces, NEW b \in Bucket
      PROVE  LET mp == w.mount_points
             IN  /\ LET first == w.namespaces[n].buckets[b]
                    IN  first # SIZE_MAX => mp[first].previous = SIZE_MAX
                 /\ \A m \in BucketOf(w, n, b) :
                      /\ hash[mp[m].inode] = b
                      /\ IF mp[m].previous = SIZE_MAX THEN w.namespaces[n].buckets[b] = m
                         ELSE mp[m].previous \in BucketOf(w, n, b) /\ mp[mp[m].previous].next = m
                      /\ mp[m].next # SIZE_MAX => mp[mp[m].next].previous = m
  <2>1. CASE n \in DOMAIN v.namespaces
    BY <1>4, <1>8, <2>1 DEF BucketsInv
  <2>2. CASE n \notin DOMAIN v.namespaces
    BY <1>5, <2>2
  <2> QED
    BY <2>1, <2>2
<1>10. \A m \in DOMAIN w.mount_points : \E n \in DOMAIN w.namespaces : m \in MountsOf(w, n)
  BY <1>6, <1>8 DEF BucketsInv
<1>11. \A n, o \in DOMAIN w.namespaces : MountsOf(w, n) \cap MountsOf(w, o) # {} => n = o
  BY <1>6, <1>7, <1>8 DEF BucketsInv
<1> QED
  BY <1>2, <1>9, <1>10, <1>11 DEF BucketsInv

(* A process was set up.                                                   *)
LEMMA SetUpInv ==
  ASSUME NEW v, NEW w \in VfsState, TablesInv(v), NEW n \in Id("namespaces"), NEW creator, NEW new \in Pid,
         NEW flags, SetUpDone(v, w, n, creator, new, flags),
         "VFS_SHARE_NAMESPACE" \in flags => creator \in DOMAIN v.processes
  PROVE  TablesInv(w)
<1> DEFINE d == SlotFor(v, "infos")
           can == CanModify(v, creator, flags)
           data == [fs_namespace |-> n, can_modify |-> can]
           share == "VFS_SHARE_NAMESPACE" \in flags
           root == IF share THEN v.namespaces[n].root ELSE SIZE_MAX
           info == RootOf(n, can, root)
<1>0. /\ v \in VfsState /\ MapsInv(v) /\ NamespacesInv(v) /\ InfosInv(v) /\ ListsInv(v)
  BY DEF TablesInv
<1>1. /\ v.processes \in Table(Pid, ProcessData) /\ v.infos \in Table(Id("infos"), DirectoryInfo)
      /\ v.namespaces \in Table(Id("namespaces"), Namespace) /\ v.used \in [Kind -> SUBSET Nat]
  BY <1>0 DEF VfsState
<1>2. /\ d \in Id("infos") \ v.used["infos"] /\ d \notin DOMAIN v.infos /\ new \notin DOMAIN v.processes
      /\ w.processes = Put(v.processes, new, data)
      /\ w.infos = Put(v.infos, d, info)
      /\ w.mount_points = v.mount_points /\ w.lists = v.lists /\ w.fds = v.fds
  BY DEF SetUpDone
<1>3. \/ /\ share
         /\ n = v.processes[creator].fs_namespace /\ n \in DOMAIN v.namespaces
         /\ w.used = [v.used EXCEPT !["infos"] = @ \cup {d}]
         /\ w.namespaces = [v.namespaces EXCEPT ![n] = [v.namespaces[n] EXCEPT !.references = @ + 1]]
      \/ /\ ~share
         /\ n \in Id("namespaces") \ v.used["namespaces"] /\ n \notin DOMAIN v.namespaces
         /\ w.used = [v.used EXCEPT !["namespaces"] = @ \cup {n}, !["infos"] = @ \cup {d}]
         /\ w.namespaces = Put(v.namespaces, n, NewNamespace)
  BY DEF SetUpDone
<1>4. /\ DOMAIN w.processes = DOMAIN v.processes \cup {new} /\ w.processes[new] = data
      /\ \A p \in DOMAIN v.processes : w.processes[p] = v.processes[p]
  BY <1>2 DEF Put
<1>5. /\ DOMAIN w.infos = DOMAIN v.infos \cup {d} /\ w.infos[d] = info
      /\ \A i \in DOMAIN v.infos : w.infos[i] = v.infos[i]
  BY <1>2 DEF Put
<1>6. /\ DOMAIN w.namespaces = DOMAIN v.namespaces \cup {n}
      /\ w.namespaces[n].root = root
      /\ \A o \in DOMAIN v.namespaces : /\ w.namespaces[o].root = v.namespaces[o].root
                                        /\ w.namespaces[o].buckets = v.namespaces[o].buckets
                                        /\ o # n => w.namespaces[o].references = v.namespaces[o].references
      /\ n \in DOMAIN v.namespaces => w.namespaces[n].references = v.namespaces[n].references + 1
      /\ n \notin DOMAIN v.namespaces => w.namespaces[n].references = 1
      /\ n \notin DOMAIN v.namespaces => \A b \in Bucket : w.namespaces[n].buckets[b] = SIZE_MAX
  <2>1. CASE share
    <3>1. v.namespaces[n] \in Namespace
      BY <1>1, <1>3, <2>1, IsTable
    <3> QED
      BY <1>3, <2>1, <3>1 DEF Namespace
  <2>2. CASE ~share
    BY <1>3, <2>2 DEF Put, NewNamespace
  <2> QED
    BY <2>1, <2>2
<1>7. share <=> n \in DOMAIN v.namespaces
  BY <1>3
<1>8. /\ w.used["infos"] = v.used["infos"] \cup {d}
      /\ w.used["namespaces"] = v.used["namespaces"] \cup (IF share THEN {} ELSE {n})
      /\ w.used["mount_points"] = v.used["mount_points"] /\ w.used["lists"] = v.used["lists"]
  <2>1. {"infos", "namespaces", "mount_points", "lists"} = Kind
    BY DEF Kind
  <2> QED
    BY <1>1, <1>3, <2>1
<1> HIDE DEF d, can, data, share, root, info
<1>9. MapsInv(w)
  <2>1. /\ DOMAIN w["infos"] \subseteq w.used["infos"] /\ w.used["infos"] \subseteq Id("infos")
        /\ w.fds \subseteq w.used["infos"]
    BY <1>0, <1>2, <1>5, <1>8 DEF MapsInv, Kind
  <2>2. /\ DOMAIN w["namespaces"] \subseteq w.used["namespaces"] /\ w.used["namespaces"] \subseteq Id("namespaces")
    BY <1>0, <1>6, <1>7, <1>8 DEF MapsInv, Kind
  <2>3. /\ DOMAIN w["mount_points"] \subseteq w.used["mount_points"] /\ w.used["mount_points"] \subseteq Id("mount_points")
        /\ DOMAIN w["lists"] \subseteq w.used["lists"] /\ w.used["lists"] \subseteq Id("lists")
    BY <1>0, <1>2, <1>8 DEF MapsInv, Kind
  <2> QED
    BY <2>1, <2>2, <2>3 DEF MapsInv, Kind
<1>10. data.fs_namespace = n /\ data.can_modify = can
  BY DEF data
<1>11. /\ \A o \in DOMAIN v.namespaces : o # n => Users(w, o) = Users(v, o)
       /\ Users(w, n) = Users(v, n) \cup {new}
       /\ \A o : Users(v, o) \subseteq Users(w, o)
       /\ \A o : new \notin Users(v, o)
  BY <1>2, <1>4, <1>10 DEF Users
<1>12. NamespacesInv(w)
  <2>1. IsFiniteSet(DOMAIN w.processes)
    BY <1>0, <1>4, FS_AddElement DEF NamespacesInv
  <2>2. \A p \in DOMAIN w.processes : w.processes[p].fs_namespace \in DOMAIN w.namespaces
    BY <1>0, <1>4, <1>6, <1>10 DEF NamespacesInv
  <2>3. \A o \in DOMAIN v.namespaces : o # n =>
           Users(w, o) # {} /\ w.namespaces[o].references = Cardinality(Users(w, o))
    BY <1>0, <1>6, <1>11 DEF NamespacesInv
  <2>4. Users(w, n) # {} /\ w.namespaces[n].references = Cardinality(Users(w, n))
    <3>1. CASE n \in DOMAIN v.namespaces
      <4>1. IsFiniteSet(Users(v, n))
        <5>1. Users(v, n) \subseteq DOMAIN v.processes
          BY DEF Users
        <5> QED
          BY <1>0, <5>1, FS_Subset DEF NamespacesInv
      <4>2. Cardinality(Users(v, n) \cup {new}) = Cardinality(Users(v, n)) + 1
        BY <1>11, <4>1, FS_AddElement
      <4>3. v.namespaces[n].references = Cardinality(Users(v, n))
        BY <1>0, <3>1 DEF NamespacesInv
      <4> QED
        BY <1>6, <1>11, <3>1, <4>2, <4>3
    <3>2. CASE n \notin DOMAIN v.namespaces
      <4>1. Users(v, n) = {}
        BY <1>0, <3>2 DEF Users, NamespacesInv
      <4>2. Users(w, n) = {new}
        BY <1>11, <4>1
      <4>3. Cardinality({new}) = 1
        BY FS_Singleton
      <4> QED
        BY <1>6, <3>2, <4>2, <4>3
    <3> QED
      BY <3>1, <3>2
  <2> QED
    BY <1>6, <2>1, <2>2, <2>3, <2>4 DEF NamespacesInv
<1>13. PointersInv(w) /\ BucketsInv(w)
  <2>1. \A o \in DOMAIN w.namespaces \ DOMAIN v.namespaces :
            /\ w.namespaces[o].root = SIZE_MAX
            /\ \A b \in Bucket : w.namespaces[o].buckets[b] = SIZE_MAX
    BY <1>6, <1>7 DEF root
  <2> QED
    BY <1>2, <1>6, <2>1, MountsKept
<1>14. ListsInv(w)
  BY <1>0, <1>2 DEF ListsInv
<1>15. InfosInv(w)
  <2>1. ASSUME NEW i \in DOMAIN v.infos
        PROVE  LET inf == w.infos[i]
               IN  /\ inf.namespace \in DOMAIN w.namespaces
                   /\ inf.mount_point \in {SIZE_MAX, w.namespaces[inf.namespace].root}
                   /\ i \in w.fds => inf.mount_point = SIZE_MAX
                   /\ inf.can_modify => \E p \in Users(w, inf.namespace) : w.processes[p].can_modify
    <3>1. /\ v.infos[i].namespace \in DOMAIN v.namespaces
          /\ v.infos[i].mount_point \in {SIZE_MAX, v.namespaces[v.infos[i].namespace].root}
          /\ i \in v.fds => v.infos[i].mount_point = SIZE_MAX
          /\ v.infos[i].can_modify => \E p \in Users(v, v.infos[i].namespace) : v.processes[p].can_modify
      BY <1>0 DEF InfosInv
    <3>2. v.infos[i].can_modify => \E p \in Users(w, v.infos[i].namespace) : w.processes[p].can_modify
      BY <1>4, <1>11, <3>1 DEF Users
    <3> QED
      BY <1>2, <1>5, <1>6, <3>1, <3>2
  <2>2. /\ info.namespace \in DOMAIN w.namespaces
        /\ info.mount_point \in {SIZE_MAX, w.namespaces[info.namespace].root}
        /\ d \notin w.fds
        /\ info.can_modify => \E p \in Users(w, info.namespace) : w.processes[p].can_modify
    <3>1. info.namespace = n /\ info.mount_point = root /\ info.can_modify = can
      BY DEF info, RootOf
    <3>2. d \notin w.fds
      BY <1>0, <1>2 DEF MapsInv
    <3>3. can => \E p \in Users(w, n) : w.processes[p].can_modify
      BY <1>4, <1>10, <1>11
    <3> QED
      BY <1>6, <3>1, <3>2, <3>3
  <2> QED
    BY <1>5, <2>1, <2>2 DEF InfosInv
<1> QED
  BY <1>9, <1>12, <1>13, <1>14, <1>15 DEF TablesInv

-----------------------------------------------------------------------------
(***************************************************************************)
(* directories.c                                                           *)
(***************************************************************************)
(* A walk along the next fields stays in a set that is closed under next.  *)
LEMMA ChainIn ==
  ASSUME NEW v, NEW C, NEW first \in Optional(C), SIZE_MAX \notin C,
         \A m \in C : v.mount_points[m].next \in Optional(C)
  PROVE  /\ DOMAIN Chain(v, first) = 0..MAX_MOUNT_POINTS
         /\ \A i \in 0..MAX_MOUNT_POINTS : Chain(v, first)[i] \in Optional(C)
<1> DEFINE Step(x) == IF x = SIZE_MAX THEN SIZE_MAX ELSE v.mount_points[x].next
           Is(f, n) == f = [i \in 0..n |-> IF i = 0 THEN first ELSE Step(f[i - 1])]
           Bad == {n \in Nat : ~\E f : Is(f, n)}
           N == MAX_MOUNT_POINTS
           c == Chain(v, first)
<1>0. N \in Nat
  <2>1. MAX("mount_points") \in Nat
    BY VfsAssumption DEF Kind
  <2> QED
    BY <2>1 DEF MAX
<1>1. Bad = {}
  <2> SUFFICES ASSUME Bad # {} PROVE FALSE
    OBVIOUS
  <2>1. PICK n \in Bad : \A m \in Bad : n <= m
    <3>1. Bad \in SUBSET Nat
      OBVIOUS
    <3> HIDE DEF Bad
    <3> QED
      BY <3>1, LeastNat
  <2>2. CASE n = 0
    <3> DEFINE f == [i \in 0..0 |-> first]
    <3>1. Is(f, 0)
      OBVIOUS
    <3> HIDE DEF f, Is
    <3> QED
      BY <2>1, <2>2, <3>1
  <2>3. CASE n # 0
    <3>1. n \in Nat /\ n - 1 \in Nat /\ ~(n <= n - 1)
      BY <2>1, <2>3
    <3>2. PICK f : Is(f, n - 1)
      <4> HIDE DEF Is
      <4> QED
        BY <2>1, <3>1
    <3> DEFINE g == [i \in 0..n |-> IF i = n THEN Step(f[n - 1]) ELSE f[i]]
    <3> HIDE DEF Step
    <3>3. \A i \in 0..(n - 1) : f[i] = IF i = 0 THEN first ELSE Step(f[i - 1])
      BY <3>2
    <3>4. \A i \in 0..n : g[i] = IF i = 0 THEN first ELSE Step(g[i - 1])
      <4> TAKE i \in 0..n
      <4>1. CASE i = n
        BY <3>1, <4>1, <2>3
      <4>2. CASE i # n
        <5>1. i \in 0..(n - 1) /\ (i # 0 => i - 1 \in 0..n /\ i - 1 # n)
          BY <3>1, <4>2
        <5>2. g[i] = f[i] /\ (i # 0 => g[i - 1] = f[i - 1])
          BY <4>2, <5>1
        <5> HIDE DEF g
        <5> QED
          BY <3>3, <5>1, <5>2
      <4> QED
        BY <4>1, <4>2
    <3>5. g = [i \in 0..n |-> g[i]]
      OBVIOUS
    <3> HIDE DEF g
    <3>6. Is(g, n)
      BY <3>4, <3>5
    <3> HIDE DEF Is
    <3> QED
      BY <2>1, <3>6
  <2> QED
    BY <2>2, <2>3
<1>2. c = CHOOSE f : Is(f, N)
  BY DEF Chain
<1>3. \E f : Is(f, N)
  <2> HIDE DEF Is
  <2> QED
    BY <1>0, <1>1
<1>4. Is(c, N)
  <2> HIDE DEF Is, c
  <2> QED
    BY <1>2, <1>3
<1> HIDE DEF c
<1>5. DOMAIN c = 0..N /\ \A i \in 0..N : c[i] = IF i = 0 THEN first ELSE Step(c[i - 1])
  <2> HIDE DEF Step
  <2> QED
    BY <1>4
<1> DEFINE Out == {i \in 0..N : c[i] \notin Optional(C)}
<1>6. Out = {}
  <2> SUFFICES ASSUME Out # {} PROVE FALSE
    OBVIOUS
  <2>1. PICK i \in Out : \A j \in Out : i <= j
    <3>1. Out \in SUBSET Nat
      BY <1>0
    <3> HIDE DEF Out
    <3> QED
      BY <3>1, LeastNat
  <2>2. i # 0
    BY <1>5, <2>1
  <2>3. i \in 0..N /\ i - 1 \in 0..N /\ ~(i <= i - 1)
    BY <1>0, <2>1, <2>2
  <2>4. c[i - 1] \in Optional(C)
    BY <2>1, <2>3
  <2>5. c[i] = Step(c[i - 1])
    <3> HIDE DEF Step
    <3> QED
      BY <1>5, <2>2, <2>3
  <2>6. c[i] \in Optional(C)
    BY <2>4, <2>5 DEF Optional
  <2> QED
    BY <2>1, <2>6
<1> QED
  BY <1>5, <1>6 DEF c

(* The memory with other locks; with other fds.                            *)
WithLocked(v, l) == [v EXCEPT !.locked = l]
WithFds(v, s) == [v EXCEPT !.fds = s]
(* Only the locks change, and only the fds.                                *)
LEMMA FieldState ==
  ASSUME NEW v \in VfsState
  PROVE  /\ \A l \in SUBSET (Kind \X Nat) :
              /\ WithLocked(v, l) \in VfsState /\ WithLocked(v, l).locked = l
              /\ SameButLocks(v, WithLocked(v, l))
         /\ \A s \in SUBSET Id("infos") :
              /\ WithFds(v, s) \in VfsState /\ WithFds(v, s).fds = s
              /\ \A f \in VfsFields : f # "fds" => WithFds(v, s)[f] = v[f]
<1>1. \A l \in SUBSET (Kind \X Nat) :
              /\ WithLocked(v, l) \in VfsState /\ WithLocked(v, l).locked = l
              /\ SameButLocks(v, WithLocked(v, l))
  BY DEF VfsState, SameButLocks, SameTables, WithLocked
<1>2. \A s \in SUBSET Id("infos") :
              /\ WithFds(v, s) \in VfsState /\ WithFds(v, s).fds = s
              /\ \A f \in VfsFields : f # "fds" => WithFds(v, s)[f] = v[f]
  BY DEF VfsState, VfsFields, WithFds
<1> QED
  BY <1>1, <1>2

(* No mount point in a bucket is without an enclosing one.                 *)
LEMMA NotFound ==
  ASSUME NEW v \in VfsState, PointersInv(v), NEW n \in DOMAIN v.namespaces, NEW inode \in Inode
  PROVE  LET r == find_mount_point(v, n, inode, SIZE_MAX)
         IN  /\ r.value = SIZE_MAX /\ r.vfs \in VfsState /\ SameButLocks(v, r.vfs)
             /\ r.vfs.locked \subseteq v.locked
<1> DEFINE chain == Chain(v, v.namespaces[n].buckets[hash[inode]])
           Hit(i)  == /\ v.mount_points[chain[i]].inode = inode
                      /\ v.mount_points[chain[i]].enclosing = SIZE_MAX
           onChain == {i \in DOMAIN chain : chain[i] # SIZE_MAX}
           visited == {i \in onChain : \A j \in 0..(i - 1) : ~Hit(j)}
           hits    == {i \in visited : Hit(i)}
           l == v.locked \ ({<<"namespaces", n>>} \cup {<<"mount_points", chain[i]>> : i \in visited})
           r == find_mount_point(v, n, inode, SIZE_MAX)
<1>1. hash[inode] \in Bucket
  BY VfsAssumption
<1>2. /\ v.namespaces[n].buckets[hash[inode]] \in Optional(Inner(v)) /\ SIZE_MAX \notin Inner(v)
      /\ \A m \in Inner(v) : v.mount_points[m].next \in Optional(Inner(v))
  <2>1. v.mount_points \in Table(Id("mount_points"), MountPoint) /\ "mount_points" \in Kind
    BY DEF VfsState, Kind
  <2>2. SIZE_MAX \notin DOMAIN v.mount_points
    BY <2>1, IsTable, SlotNumbers
  <2> QED
    BY <1>1, <2>2 DEF PointersInv, Inner
<1>3. DOMAIN chain = 0..MAX_MOUNT_POINTS /\ \A i \in 0..MAX_MOUNT_POINTS : chain[i] \in Optional(Inner(v))
  <2> HIDE DEF chain
  <2> QED
    BY <1>2, ChainIn DEF chain
<1>4. hits = {}
  <2> HIDE DEF chain
  <2> QED
    BY <1>3 DEF Optional, Inner
<1>5. r = WithValue([v EXCEPT !.locked = @ \ ({<<"namespaces", n>>} \cup {<<"mount_points", chain[i]>> : i \in visited})],
                    IF hits = {} THEN SIZE_MAX ELSE chain[Min(hits)])
  BY DEF find_mount_point
<1> HIDE DEF hits, r, visited
<1>6. r = WithValue([v EXCEPT !.locked = l], SIZE_MAX)
  BY <1>4, <1>5 DEF VfsState
<1> HIDE DEF l
<1>7. r.value = SIZE_MAX /\ r.vfs = WithLocked(v, l)
  BY <1>6 DEF WithValue, WithLocked
<1>8. l \subseteq v.locked /\ l \in SUBSET (Kind \X Nat)
  BY DEF l, VfsState
<1> QED
  BY <1>7, <1>8, FieldState DEF r

(* FreeDirectory empties a slot, and clears its bit if it was occupied.    *)
LEMMA DirectoryFreed ==
  ASSUME NEW v \in VfsState, NEW d \in Id("infos")
  PROVE  LET w == FreeDirectory(v, d)
         IN  /\ w \in VfsState /\ w.fds = v.fds \ {d}
             /\ w.used = IF d \in v.fds THEN [v.used EXCEPT !["infos"] = @ \ {d}] ELSE v.used
             /\ \A f \in VfsFields \ {"used", "fds"} : w[f] = v[f]
<1> DEFINE s == v.fds \ {d}
           u == WithFds(v, s)
           x == [u.used EXCEPT !["infos"] = @ \ {d}]
           w == FreeDirectory(v, d)
<1>1. s \in SUBSET Id("infos")
  BY DEF VfsState
<1>2. /\ u \in VfsState /\ u.fds = s /\ \A f \in VfsFields : f # "fds" => u[f] = v[f]
  BY <1>1, FieldState
<1>3. u.used = v.used
  BY <1>2 DEF VfsFields
<1>4. CASE d \in v.fds
  <2>1. w = [u EXCEPT !.used["infos"] = @ \ {d}]
    BY <1>4 DEF FreeDirectory, mark_slot_unused, WithFds, VfsState
  <2> HIDE DEF u, w
  <2>2. x \in [Kind -> SUBSET Nat]
    BY <1>2 DEF VfsState
  <2>3. w = [u EXCEPT !.used = x]
    BY <1>2, <2>1 DEF VfsState
  <2> HIDE DEF x
  <2>4. w \in VfsState /\ w.used = x /\ \A f \in VfsFields : f # "used" => w[f] = u[f]
    BY <1>2, <2>2, <2>3 DEF VfsState, VfsFields
  <2>5. w.fds = u.fds
    BY <2>4 DEF VfsFields
  <2> QED
    BY <1>2, <1>3, <1>4, <2>4, <2>5 DEF x, w
<1>5. CASE d \notin v.fds
  <2>1. w = v
    BY <1>5 DEF FreeDirectory
  <2>2. v.fds \ {d} = v.fds
    BY <1>5
  <2> QED
    BY <1>5, <2>1, <2>2
<1> QED
  BY <1>4, <1>5

(* What open_file does to the tables, and its reply: nothing and none; a   *)
(* file's descriptor was passed on, and the id may stay marked; or there   *)
(* is a new proxied directory.                                             *)
FileOpened(v, w) ==
  /\ w.infos = v.infos /\ w.fds = v.fds
  /\ \/ w.used = v.used
     \/ \E d \in Id("infos") \ v.used["infos"] : w.used = [v.used EXCEPT !["infos"] = @ \cup {d}]
  /\ w.replies = Append(v.replies, [status |-> "ok", gives |-> {FileDescriptor}])
DirectoryOpened(v, w, info) ==
  \E d \in Id("infos") \ v.used["infos"], inode \in Inode :
    /\ w.used = [v.used EXCEPT !["infos"] = @ \cup {d}]
    /\ w.infos = Put(v.infos, d, [info EXCEPT !.inode = inode]) /\ w.fds = v.fds \cup {d}
    /\ w.replies = Append(v.replies, [status |-> "ok", gives |-> {SlotNr(d)}])
OpenEffect(v, w, value, info) ==
  /\ w \in VfsState /\ value \in Status
  /\ w.processes = v.processes /\ w.namespaces = v.namespaces
  /\ w.mount_points = v.mount_points /\ w.lists = v.lists
  /\ w.locked \subseteq v.locked /\ w.storage \subseteq v.storage /\ w.transferred = v.transferred
  /\ \/ /\ w.used = v.used /\ w.infos = v.infos /\ w.fds = v.fds /\ w.replies = v.replies
        /\ value = "ok" => "directory_oom" \in w.met
     \/ value = "ok" /\ FileOpened(v, w)
     \/ value = "ok" /\ DirectoryOpened(v, w, info)

(* The slot of a directory is marked, and has the descriptor of the file   *)
(* system server.                                                          *)
LEMMA SlotOpened ==
  ASSUME NEW v \in VfsState
  PROVE  LET d == SlotFor(v, "infos")
             w == [SlotTaken(v, "infos") EXCEPT !.fds = @ \cup {d}]
         IN  /\ d \in Id("infos")
             /\ w \in VfsState /\ w.fds = v.fds \cup {d}
             /\ \A f \in VfsFields \ {"used", "fds", "met"} : w[f] = v[f]
             /\ v.met \subseteq w.met
             /\ w.met \cap MapCalls = {} =>
                  d \notin v.used["infos"] /\ w.used = [v.used EXCEPT !["infos"] = @ \cup {d}]
<1> DEFINE d == SlotFor(v, "infos")
           m == Marked(v, "infos", d)
           t == SlotTaken(v, "infos")
           full == FreeIds(v, "infos") = {}
           s == t.fds \cup {d}
           w == [t EXCEPT !.fds = @ \cup {d}]
<1>0. "infos" \in Kind /\ "full_map" \in AllCalls /\ full \in BOOLEAN
  BY DEF Kind, AllCalls
<1>1. d \in Id("infos") /\ d \in Nat
  BY <1>0, FoundSlot, SlotNumbers DEF SlotFor
<1>2. m \in VfsState /\ m.used = [v.used EXCEPT !["infos"] = @ \cup {d}] /\ m.met = v.met
  BY <1>0, <1>1, MarkedState
<1>3. \A f \in VfsFields \ {"used"} : m[f] = v[f]
  BY DEF Marked, VfsState, VfsFields
<1>4. t = Meet(m, full, "full_map")
  BY DEF SlotTaken, Marked
<1> HIDE DEF m, full, d
<1>5. t \in VfsState /\ m.met \subseteq t.met /\ (~full => t = m)
  BY <1>0, <1>2, <1>4, MetState
<1>6. \A f \in VfsFields \ {"met"} : t[f] = m[f]
  BY <1>2, <1>4 DEF Meet, VfsState, VfsFields
<1>7. t.met \cap MapCalls = {} => d \notin v.used["infos"] /\ t = m
  BY <1>0, TakenSlot DEF d, m
<1> HIDE DEF t
<1>8. w = WithFds(t, s)
  BY <1>5 DEF WithFds, VfsState
<1>9. s \in SUBSET Id("infos")
  BY <1>1, <1>5 DEF VfsState
<1> HIDE DEF s, w
<1>10. w \in VfsState /\ w.fds = s /\ \A f \in VfsFields : f # "fds" => w[f] = t[f]
  BY <1>5, <1>8, <1>9, FieldState
<1>11. w.met = t.met /\ w.used = t.used /\ t.fds = v.fds
  BY <1>3, <1>6, <1>10 DEF VfsFields
<1>12. \A f \in VfsFields \ {"used", "fds", "met"} : w[f] = v[f]
  BY <1>3, <1>6, <1>10
<1>13. w.fds = v.fds \cup {d}
  BY <1>10, <1>11 DEF s
<1> QED
  BY <1>1, <1>2, <1>5, <1>7, <1>10, <1>11, <1>12, <1>13 DEF d, w, t

(* The memory with another info.                                           *)
LEMMA AllocInfoState ==
  ASSUME NEW v \in VfsState, NEW d \in Id("infos"), NEW info \in DirectoryInfo, NEW oom
  PROVE  LET a == AllocInfo(v, d, info, oom)
         IN  /\ a.vfs \in VfsState /\ v.met \subseteq a.vfs.met
             /\ \A f \in VfsFields \ {"infos", "met"} : a.vfs[f] = v[f]
             /\ \/ a.value = SIZE_MAX /\ a.vfs.infos = v.infos /\ "directory_oom" \in a.vfs.met
                \/ a.value = d /\ a.vfs.infos = Put(v.infos, d, info) /\ a.vfs.met = v.met
<1> DEFINE a == AllocInfo(v, d, info, oom)
           t == Put(v.infos, d, info)
<1>0. "infos" \in Kind /\ StructOf("infos") = DirectoryInfo /\ "directory_oom" \in AllCalls
  BY DEF Kind, StructOf, AllCalls
<1>1. CASE "infos" \in oom \/ d \in DOMAIN v.infos
  <2>1. a.vfs = Meet(v, TRUE, "directory_oom") /\ a.value = SIZE_MAX
    BY <1>1 DEF AllocInfo, WithValue
  <2>2. a.vfs \in VfsState /\ "directory_oom" \in a.vfs.met /\ v.met \subseteq a.vfs.met
    BY <1>0, <2>1, MetState
  <2>3. \A f \in VfsFields \ {"met"} : a.vfs[f] = v[f]
    BY <2>1 DEF Meet, VfsState, VfsFields
  <2>4. a.vfs.infos = v.infos
    BY <2>3 DEF VfsFields
  <2> HIDE DEF a
  <2> QED
    BY <2>1, <2>2, <2>3, <2>4 DEF a
<1>2. CASE ~("infos" \in oom \/ d \in DOMAIN v.infos)
  <2>1. a.value = d /\ a.vfs = [v EXCEPT !.infos = Put(@, d, info)]
    BY <1>2 DEF AllocInfo, WithValue
  <2> HIDE DEF a
  <2>2. a.vfs = WithTable(v, "infos", t)
    BY <2>1 DEF VfsState, WithTable
  <2>3. t \in Table(Id("infos"), StructOf("infos"))
    BY <1>0, StateTables, PutTable
  <2> HIDE DEF t
  <2>4. a.vfs \in VfsState /\ a.vfs["infos"] = t /\ \A f \in VfsFields : f # "infos" => a.vfs[f] = v[f]
    BY <1>0, <2>2, <2>3, TableState
  <2>5. a.vfs.met = v.met
    BY <2>4 DEF VfsFields
  <2> QED
    BY <2>1, <2>4, <2>5 DEF a, t
<1> QED
  BY <1>1, <1>2

(* A bit that was clear is set and cleared.                                *)
LEMMA ClearedAgain ==
  ASSUME NEW u \in [Kind -> SUBSET Nat], NEW d, d \notin u["infos"]
  PROVE  [[u EXCEPT !["infos"] = @ \cup {d}] EXCEPT !["infos"] = @ \ {d}] = u
<1> DEFINE w == [[u EXCEPT !["infos"] = @ \cup {d}] EXCEPT !["infos"] = @ \ {d}]
<1>0. "infos" \in Kind
  BY DEF Kind
<1>1. \A k \in Kind : w[k] = u[k]
  BY <1>0
<1>2. w = [k \in Kind |-> w[k]] /\ u = [k \in Kind |-> u[k]]
  OBVIOUS
<1> HIDE DEF w
<1>3. w = u
  BY <1>1, <1>2
<1> QED
  BY <1>3 DEF w

(* While a file is opened its descriptor is in slot d.                     *)
Opening(v, f, d) ==
  /\ f \in VfsState /\ d \in Id("infos") \ v.used["infos"] /\ d \notin v.fds
  /\ f.used = [v.used EXCEPT !["infos"] = @ \cup {d}] /\ f.fds = v.fds \cup {d}
  /\ f.processes = v.processes /\ f.namespaces = v.namespaces
  /\ f.mount_points = v.mount_points /\ f.lists = v.lists /\ f.infos = v.infos
  /\ f.locked \subseteq v.locked /\ f.storage \subseteq v.storage /\ f.transferred = v.transferred
  /\ f.replies = v.replies

(* What stays whatever is met.                                             *)
Kept(v, w) ==
  /\ w \in VfsState /\ w.namespaces = v.namespaces /\ w.mount_points = v.mount_points
  /\ w.lists = v.lists /\ v.met \subseteq w.met

(* The descriptor of a file was sent on.                                   *)
LEMMA FileSent ==
  ASSUME NEW v \in VfsState, NEW f \in VfsState, NEW d \in Id("infos"), NEW taken, NEW info
  PROVE  LET w == FreeDirectory(Replied(f, d, taken), d)
         IN  /\ Kept(f, w)
             /\ Opening(v, f, d) => OpenEffect(v, w, "ok", info)
<1> DEFINE x == Reply(f, "ok", {FileDescriptor})
           s == IF taken THEN x.fds \ {d} ELSE x.fds
           y == Replied(f, d, taken)
           w == FreeDirectory(y, d)
<1>0. {FileDescriptor} \in SUBSET (Descriptor \cup {FileDescriptor}) /\ "ok" \in Status
  BY DEF Status
<1>1. /\ x \in VfsState /\ SameTables(f, x)
      /\ x.replies = Append(f.replies, [status |-> "ok", gives |-> {FileDescriptor}])
      /\ x.locked = f.locked /\ x.storage = f.storage /\ x.transferred = f.transferred
      /\ x.met = f.met
  BY <1>0, ReplyState
<1>2. y = [x EXCEPT !.fds = IF taken THEN @ \ {d} ELSE @]
  BY DEF Replied
<1> HIDE DEF x, y
<1>3. y = WithFds(x, s)
  BY <1>1, <1>2 DEF WithFds, VfsState
<1>4. s \in SUBSET Id("infos")
  BY <1>1 DEF VfsState
<1>5. y \in VfsState /\ y.fds = s /\ \A g \in VfsFields : g # "fds" => y[g] = x[g]
  BY <1>1, <1>3, <1>4, FieldState
<1>6. /\ w \in VfsState /\ w.fds = y.fds \ {d}
      /\ w.used = IF d \in y.fds THEN [y.used EXCEPT !["infos"] = @ \ {d}] ELSE y.used
      /\ \A g \in VfsFields \ {"used", "fds"} : w[g] = y[g]
  BY <1>5, DirectoryFreed
<1> HIDE DEF w
<1>7. /\ y.used = x.used /\ y.met = x.met /\ y.processes = x.processes /\ y.namespaces = x.namespaces
      /\ y.mount_points = x.mount_points /\ y.lists = x.lists /\ y.infos = x.infos /\ y.locked = x.locked
      /\ y.storage = x.storage /\ y.transferred = x.transferred /\ y.replies = x.replies
  BY <1>5 DEF VfsFields
<1>8. /\ w.met = y.met /\ w.processes = y.processes /\ w.namespaces = y.namespaces
      /\ w.mount_points = y.mount_points /\ w.lists = y.lists /\ w.infos = y.infos /\ w.locked = y.locked
      /\ w.storage = y.storage /\ w.transferred = y.transferred /\ w.replies = y.replies
  BY <1>6 DEF VfsFields
<1>9. ASSUME Opening(v, f, d)
      PROVE  OpenEffect(v, w, "ok", info)
  <2>1. /\ w.processes = v.processes /\ w.namespaces = v.namespaces
        /\ w.mount_points = v.mount_points /\ w.lists = v.lists /\ w.infos = v.infos
        /\ w.locked \subseteq v.locked /\ w.storage \subseteq v.storage /\ w.transferred = v.transferred
        /\ w.replies = Append(v.replies, [status |-> "ok", gives |-> {FileDescriptor}])
        /\ x.fds = v.fds \cup {d} /\ x.used = [v.used EXCEPT !["infos"] = @ \cup {d}]
        /\ d \notin v.fds /\ d \in Id("infos") \ v.used["infos"]
    BY <1>1, <1>7, <1>8, <1>9 DEF Opening, SameTables
  <2>2. w.fds = v.fds
    BY <1>5, <1>6, <2>1
  <2>3. w.used = v.used \/ w.used = [v.used EXCEPT !["infos"] = @ \cup {d}]
    <3>1. v.used \in [Kind -> SUBSET Nat]
      BY DEF VfsState
    <3>2. [[v.used EXCEPT !["infos"] = @ \cup {d}] EXCEPT !["infos"] = @ \ {d}] = v.used
      BY <2>1, <3>1, ClearedAgain
    <3> QED
      BY <1>6, <1>7, <2>1, <3>2
  <2>4. FileOpened(v, w)
    BY <2>1, <2>2, <2>3 DEF FileOpened
  <2> QED
    BY <1>0, <1>6, <2>1, <2>4 DEF OpenEffect
<1>10. Kept(f, w)
  BY <1>1, <1>6, <1>7, <1>8 DEF SameTables, Kept
<1> QED
  BY <1>9, <1>10 DEF w, y

(* A directory is proxied, unless there is no memory for its info.         *)
LEMMA DirectoryProxied ==
  ASSUME NEW v \in VfsState, NEW f \in VfsState, NEW d \in Id("infos"), NEW info \in DirectoryInfo,
         NEW inode \in Inode, NEW oom
  PROVE  LET r == Made(proxy_directory(f, d, info, inode, oom), d)
         IN  /\ Kept(f, r.vfs)
             /\ Opening(v, f, d) => OpenEffect(v, r.vfs, r.value, info)
<1> DEFINE i == [info EXCEPT !.inode = inode]
           a == AllocInfo(f, d, i, oom)
           p == proxy_directory(f, d, info, inode, oom)
           r == Made(p, d)
<1>0. i \in DirectoryInfo /\ "ok" \in Status /\ d # SIZE_MAX
  BY SlotNumbers DEF DirectoryInfo, Status, Kind
<1>1. p = IF a.value = SIZE_MAX THEN a ELSE WithValue(badge_and_send(a.vfs, SlotNr(d)), d)
  BY DEF proxy_directory
<1>2. r = WithValue(IF p.value = SIZE_MAX THEN FreeDirectory(p.vfs, d) ELSE p.vfs, "ok")
  BY DEF Made
<1> HIDE DEF i, p, r
<1>3. /\ a.vfs \in VfsState /\ f.met \subseteq a.vfs.met
      /\ \A g \in VfsFields \ {"infos", "met"} : a.vfs[g] = f[g]
      /\ \/ a.value = SIZE_MAX /\ a.vfs.infos = f.infos /\ "directory_oom" \in a.vfs.met
         \/ a.value = d /\ a.vfs.infos = Put(f.infos, d, i) /\ a.vfs.met = f.met
  BY <1>0, AllocInfoState
<1> HIDE DEF a
<1>4. /\ a.vfs.used = f.used /\ a.vfs.processes = f.processes /\ a.vfs.namespaces = f.namespaces
      /\ a.vfs.mount_points = f.mount_points /\ a.vfs.lists = f.lists /\ a.vfs.fds = f.fds
      /\ a.vfs.locked = f.locked /\ a.vfs.storage = f.storage /\ a.vfs.transferred = f.transferred
      /\ a.vfs.replies = f.replies
  BY <1>3 DEF VfsFields
<1>5. CASE a.value = SIZE_MAX
  <2> DEFINE w == FreeDirectory(a.vfs, d)
  <2>1. r.vfs = w /\ r.value = "ok"
    BY <1>1, <1>2, <1>5 DEF WithValue
  <2>2. /\ w \in VfsState /\ w.fds = a.vfs.fds \ {d}
        /\ w.used = IF d \in a.vfs.fds THEN [a.vfs.used EXCEPT !["infos"] = @ \ {d}] ELSE a.vfs.used
        /\ \A g \in VfsFields \ {"used", "fds"} : w[g] = a.vfs[g]
    BY <1>3, DirectoryFreed
  <2> HIDE DEF w
  <2>3. /\ w.met = a.vfs.met /\ w.processes = a.vfs.processes /\ w.namespaces = a.vfs.namespaces
        /\ w.mount_points = a.vfs.mount_points /\ w.lists = a.vfs.lists /\ w.infos = a.vfs.infos
        /\ w.locked = a.vfs.locked /\ w.storage = a.vfs.storage /\ w.transferred = a.vfs.transferred
        /\ w.replies = a.vfs.replies
    BY <2>2 DEF VfsFields
  <2>4. ASSUME Opening(v, f, d)
        PROVE  OpenEffect(v, w, "ok", info)
    <3>1. /\ w.processes = v.processes /\ w.namespaces = v.namespaces
          /\ w.mount_points = v.mount_points /\ w.lists = v.lists /\ w.infos = v.infos
          /\ w.locked \subseteq v.locked /\ w.storage \subseteq v.storage /\ w.transferred = v.transferred
          /\ w.replies = v.replies /\ a.vfs.fds = v.fds \cup {d}
          /\ a.vfs.used = [v.used EXCEPT !["infos"] = @ \cup {d}]
          /\ d \notin v.fds /\ d \in Id("infos") \ v.used["infos"]
      BY <1>0, <1>3, <1>4, <1>5, <2>3, <2>4 DEF Opening
    <3>2. v.used \in [Kind -> SUBSET Nat]
      BY DEF VfsState
    <3>3. [[v.used EXCEPT !["infos"] = @ \cup {d}] EXCEPT !["infos"] = @ \ {d}] = v.used
      BY <3>1, <3>2, ClearedAgain
    <3>4. w.used = v.used /\ w.fds = v.fds
      BY <2>2, <3>1, <3>3
    <3>5. "directory_oom" \in w.met
      BY <1>0, <1>3, <1>5, <2>3
    <3> QED
      BY <1>0, <2>2, <3>1, <3>4, <3>5 DEF OpenEffect
  <2>5. Kept(f, w)
    BY <1>3, <1>4, <2>2, <2>3 DEF Kept
  <2> QED
    BY <2>1, <2>4, <2>5 DEF r, p
<1>6. CASE a.value # SIZE_MAX
  <2> DEFINE w == Reply(a.vfs, "ok", {SlotNr(d)})
  <2>1. r.vfs = w /\ r.value = "ok"
    BY <1>0, <1>1, <1>2, <1>6 DEF WithValue, badge_and_send
  <2>2. {SlotNr(d)} \in SUBSET (Descriptor \cup {FileDescriptor})
    BY DescriptorTypes
  <2>3. /\ w \in VfsState /\ SameTables(a.vfs, w)
        /\ w.replies = Append(a.vfs.replies, [status |-> "ok", gives |-> {SlotNr(d)}])
        /\ w.locked = a.vfs.locked /\ w.storage = a.vfs.storage /\ w.transferred = a.vfs.transferred
        /\ w.met = a.vfs.met
    BY <1>0, <1>3, <2>2, ReplyState
  <2> HIDE DEF w
  <2>4. ASSUME Opening(v, f, d)
        PROVE  OpenEffect(v, w, "ok", info)
    <3>1. /\ w.processes = v.processes /\ w.namespaces = v.namespaces
          /\ w.mount_points = v.mount_points /\ w.lists = v.lists /\ w.infos = Put(v.infos, d, i)
          /\ w.locked \subseteq v.locked /\ w.storage \subseteq v.storage /\ w.transferred = v.transferred
          /\ w.replies = Append(v.replies, [status |-> "ok", gives |-> {SlotNr(d)}])
          /\ w.fds = v.fds \cup {d} /\ w.used = [v.used EXCEPT !["infos"] = @ \cup {d}]
          /\ d \in Id("infos") \ v.used["infos"]
      BY <1>3, <1>4, <1>6, <2>3, <2>4 DEF Opening, SameTables
    <3>2. DirectoryOpened(v, w, info)
      BY <3>1 DEF DirectoryOpened, i
    <3> QED
      BY <1>0, <2>3, <3>1, <3>2 DEF OpenEffect
  <2>5. Kept(f, w)
    BY <1>3, <1>4, <2>3 DEF Kept, SameTables
  <2> QED
    BY <2>1, <2>4, <2>5 DEF r, p
<1> QED
  BY <1>5, <1>6

(* A name is taken out of the thread's storage.                            *)
WithStorage(v, s) == [v EXCEPT !.storage = s]
(* The rest of the memory stays.                                           *)
LEMMA StorageState ==
  ASSUME NEW v \in VfsState, NEW s \in SUBSET Nat
  PROVE  /\ WithStorage(v, s) \in VfsState /\ WithStorage(v, s).storage = s
         /\ \A f \in VfsFields : f # "storage" => WithStorage(v, s)[f] = v[f]
BY DEF VfsState, VfsFields, WithStorage

(* A failed callback changes the map only, whatever is met.                *)
LEMMA SlotFailedState ==
  ASSUME NEW v \in VfsState, NEW kind \in Kind
  PROVE  LET w == SlotFailed(v, kind)
         IN  /\ w \in VfsState /\ v.met \subseteq w.met
             /\ \A g \in VfsFields \ {"used", "met"} : w[g] = v[g]
<1> DEFINE i == SlotFor(v, kind)
           m == Marked(v, kind, i)
           full == FreeIds(v, kind) = {}
           t == SlotTaken(v, kind)
           c == Cleared(v, kind)
           x == [t.used EXCEPT ![kind] = @ \ {c}]
           u == [t EXCEPT !.used = x]
           late == FreeIds(v, kind) # {} /\ c # i
           w == SlotFailed(v, kind)
<1>0. full \in BOOLEAN /\ late \in BOOLEAN /\ {"full_map", "late_failure"} \subseteq AllCalls
  BY DEF AllCalls
<1>1. i \in Nat
  BY FoundSlot, SlotNumbers DEF SlotFor
<1>2. m \in VfsState /\ m.met = v.met
  BY <1>1, MarkedState
<1>3. \A g \in VfsFields \ {"used"} : m[g] = v[g]
  BY DEF Marked, VfsState, VfsFields
<1>4. t = Meet(m, full, "full_map")
  BY DEF SlotTaken, Marked
<1>5. w = Meet([t EXCEPT !.used[kind] = @ \ {c}], late, "late_failure")
  BY DEF SlotFailed
<1> HIDE DEF full, late, m, t, c, w
<1>6. t \in VfsState /\ m.met \subseteq t.met
  BY <1>0, <1>2, <1>4, MetState
<1>7. \A g \in VfsFields \ {"met"} : t[g] = m[g]
  BY <1>2, <1>4 DEF Meet, VfsState, VfsFields
<1>8. x \in [Kind -> SUBSET Nat]
  BY <1>6 DEF VfsState
<1>9. [t EXCEPT !.used[kind] = @ \ {c}] = u
  BY <1>6 DEF VfsState
<1> HIDE DEF x
<1>10. u \in VfsState /\ u.met = t.met /\ \A g \in VfsFields \ {"used"} : u[g] = t[g]
  BY <1>6, <1>8 DEF VfsState, VfsFields
<1> HIDE DEF u
<1>11. w = Meet(u, late, "late_failure")
  BY <1>5, <1>9
<1>12. w \in VfsState /\ u.met \subseteq w.met
  BY <1>0, <1>10, <1>11, MetState
<1>13. \A g \in VfsFields \ {"met"} : w[g] = u[g]
  BY <1>10, <1>11 DEF Meet, VfsState, VfsFields
<1>14. \A g \in VfsFields \ {"used", "met"} : w[g] = v[g]
  BY <1>3, <1>7, <1>10, <1>13
<1>15. v.met \subseteq w.met
  BY <1>2, <1>6, <1>10, <1>12
<1> QED
  BY <1>12, <1>14, <1>15 DEF w

(* open_file in a directory for which no mount point can be found.         *)
LEMMA OpenFile ==
  ASSUME NEW v \in VfsState, PointersInv(v), NEW info \in DirectoryInfo, info.mount_point = SIZE_MAX,
         info.namespace \in DOMAIN v.namespaces, NEW answer \in Answer, NEW oom
  PROVE  LET r == open_file(v, info, answer, oom)
         IN  /\ Kept(v, r.vfs)
             /\ MapsInv(v) /\ r.vfs.met \cap MapCalls = {} => OpenEffect(v, r.vfs, r.value, info)
<1> DEFINE s == v.storage \ {1}
           x == WithStorage(v, s)
           d == SlotFor(x, "infos")
           o == [SlotTaken(x, "infos") EXCEPT !.fds = @ \cup {d}]
           n == info.namespace
           f == find_mount_point(o, n, answer.inode, SIZE_MAX)
           r == open_file(v, info, answer, oom)
<1>0. "infos" \in Kind /\ {"ENOMEM", "EIO", "ok"} \subseteq Status
  BY DEF Kind, Status
<1>1. s \in SUBSET Nat /\ s \subseteq v.storage
  BY DEF VfsState
<1>2. x \in VfsState /\ x.storage = s /\ \A g \in VfsFields : g # "storage" => x[g] = v[g]
  BY <1>1, StorageState
<1>3. x = [v EXCEPT !.storage = @ \ {1}]
  BY DEF WithStorage, VfsState
<1>4. answer.inode \in Inode /\ answer.taken \in BOOLEAN
      /\ answer.result \in {"open_fails", "stat_fails", "file", "directory"}
  BY DEF Answer
<1> HIDE DEF x, s
<1>5. /\ x.used = v.used /\ x.processes = v.processes /\ x.namespaces = v.namespaces
      /\ x.mount_points = v.mount_points /\ x.lists = v.lists /\ x.infos = v.infos /\ x.fds = v.fds
      /\ x.locked = v.locked /\ x.transferred = v.transferred /\ x.replies = v.replies /\ x.met = v.met
  BY <1>2 DEF VfsFields
<1>6. SlotFor(v, "infos") = d
  BY <1>5 DEF SlotFor, FreeIds
<1>7. r = OpenSent(x, d, info, answer, oom)
  BY <1>3, <1>6 DEF open_file
<1>8. r = CASE answer.result = "open_fails" -> WithValue(SlotFailed(x, "infos"), "ENOMEM")
            [] answer.result = "stat_fails" -> WithValue(FreeDirectory(o, d), "EIO")
            [] OTHER -> OpenFound(f.vfs, f.value, d, info, answer, oom)
  BY <1>7 DEF OpenSent
<1>9. /\ d \in Id("infos")
      /\ o \in VfsState /\ o.fds = x.fds \cup {d}
      /\ \A g \in VfsFields \ {"used", "fds", "met"} : o[g] = x[g]
      /\ x.met \subseteq o.met
      /\ o.met \cap MapCalls = {} =>
           d \notin x.used["infos"] /\ o.used = [x.used EXCEPT !["infos"] = @ \cup {d}]
  BY <1>2, SlotOpened
<1> HIDE DEF r, d, o
<1>10. /\ o.processes = v.processes /\ o.namespaces = v.namespaces
       /\ o.mount_points = v.mount_points /\ o.lists = v.lists /\ o.infos = v.infos
       /\ o.locked = v.locked /\ o.transferred = v.transferred /\ o.replies = v.replies
       /\ o.storage = s
  <2>1. /\ o.processes = x.processes /\ o.namespaces = x.namespaces
        /\ o.mount_points = x.mount_points /\ o.lists = x.lists /\ o.infos = x.infos
        /\ o.locked = x.locked /\ o.transferred = x.transferred /\ o.replies = x.replies
        /\ o.storage = x.storage
    BY <1>9 DEF VfsFields
  <2> QED
    BY <1>2, <1>5, <2>1
<1>11. ASSUME NEW y \in VfsState, SameButLocks(o, y), y.locked \subseteq o.locked, o.met \cap MapCalls = {},
              MapsInv(v)
       PROVE  Opening(v, y, d)
  <2>1. d \notin v.fds
    BY <1>5, <1>9, <1>11 DEF MapsInv
  <2> QED
    BY <1>1, <1>5, <1>9, <1>10, <1>11, <2>1 DEF Opening, SameButLocks, SameTables
<1>12. CASE answer.result = "open_fails"
  <2>1. r.vfs = SlotFailed(x, "infos") /\ r.value = "ENOMEM"
    BY <1>8, <1>12 DEF WithValue
  <2>2. SlotFailed(x, "infos") \in VfsState /\ x.met \subseteq SlotFailed(x, "infos").met
        /\ \A g \in VfsFields \ {"used", "met"} : SlotFailed(x, "infos")[g] = x[g]
    BY <1>0, <1>2, SlotFailedState
  <2>3. Kept(v, r.vfs)
    <3>1. /\ r.vfs.namespaces = x.namespaces /\ r.vfs.mount_points = x.mount_points /\ r.vfs.lists = x.lists
      BY <2>1, <2>2 DEF VfsFields
    <3> QED
      BY <1>5, <2>1, <2>2, <3>1 DEF Kept
  <2>4. ASSUME r.vfs.met \cap MapCalls = {}
        PROVE  OpenEffect(v, r.vfs, r.value, info)
    <3>1. r.vfs = x
      BY <1>0, <1>2, <2>1, <2>4, FailedSlot
    <3> QED
      BY <1>0, <1>1, <1>2, <1>5, <2>1, <3>1 DEF OpenEffect
  <2> QED
    BY <2>3, <2>4 DEF r
<1>13. CASE answer.result = "stat_fails"
  <2> DEFINE w == FreeDirectory(o, d)
  <2>1. r.vfs = w /\ r.value = "EIO"
    BY <1>8, <1>13 DEF WithValue
  <2>2. /\ w \in VfsState /\ w.fds = o.fds \ {d}
        /\ w.used = IF d \in o.fds THEN [o.used EXCEPT !["infos"] = @ \ {d}] ELSE o.used
        /\ \A g \in VfsFields \ {"used", "fds"} : w[g] = o[g]
    BY <1>9, DirectoryFreed
  <2> HIDE DEF w
  <2>3. /\ w.met = o.met /\ w.processes = o.processes /\ w.namespaces = o.namespaces
        /\ w.mount_points = o.mount_points /\ w.lists = o.lists /\ w.infos = o.infos
        /\ w.locked = o.locked /\ w.storage = o.storage /\ w.transferred = o.transferred
        /\ w.replies = o.replies
    BY <2>2 DEF VfsFields
  <2>4. ASSUME w.met \cap MapCalls = {}, MapsInv(v)
        PROVE  OpenEffect(v, w, "EIO", info)
    <3>1. v.used \in [Kind -> SUBSET Nat] /\ d \notin v.used["infos"] /\ d \notin v.fds
      BY <1>5, <1>9, <2>3, <2>4 DEF VfsState, MapsInv
    <3>2. [[v.used EXCEPT !["infos"] = @ \cup {d}] EXCEPT !["infos"] = @ \ {d}] = v.used
      BY <3>1, ClearedAgain
    <3>3. w.used = v.used /\ w.fds = v.fds
      BY <1>5, <1>9, <2>2, <2>3, <2>4, <3>1, <3>2
    <3> QED
      BY <1>0, <1>1, <1>10, <2>2, <2>3, <3>3 DEF OpenEffect
  <2>5. Kept(v, w)
    BY <1>5, <1>9, <1>10, <2>2, <2>3 DEF Kept
  <2> QED
    BY <2>1, <2>4, <2>5 DEF r
<1>14. CASE answer.result \in {"file", "directory"}
  <2>1. PointersInv(o) /\ n \in DOMAIN o.namespaces
    BY <1>10 DEF PointersInv, Inner
  <2>2. /\ f.value = SIZE_MAX /\ f.vfs \in VfsState /\ SameButLocks(o, f.vfs)
        /\ f.vfs.locked \subseteq o.locked
    BY <1>4, <1>9, <2>1, NotFound
  <2> HIDE DEF f
  <2>3. f.vfs.met = o.met /\ Kept(v, f.vfs)
    BY <1>5, <1>9, <1>10, <2>2 DEF SameButLocks, SameTables, Kept
  <2>4. MapsInv(v) /\ o.met \cap MapCalls = {} => Opening(v, f.vfs, d)
    BY <1>11, <2>2
  <2>5. r = OpenFound(f.vfs, f.value, d, info, answer, oom)
    BY <1>8, <1>14
  <2>6. CASE answer.result = "file"
    <3> DEFINE w == FreeDirectory(Replied(f.vfs, d, answer.taken), d)
    <3>1. r = WithValue(w, "ok")
      BY <2>2, <2>5, <2>6 DEF OpenFound
    <3>2. r.vfs = w /\ r.value = "ok"
      BY <3>1 DEF WithValue
    <3>3. /\ Kept(f.vfs, w)
          /\ Opening(v, f.vfs, d) => OpenEffect(v, w, "ok", info)
      BY <1>4, <1>9, <2>2, FileSent
    <3> HIDE DEF w
    <3>4. Kept(v, w) /\ (w.met \cap MapCalls = {} => o.met \cap MapCalls = {})
      BY <2>3, <3>3 DEF Kept
    <3> QED
      BY <2>4, <3>2, <3>3, <3>4 DEF r
  <2>7. CASE answer.result = "directory"
    <3> DEFINE m == Made(proxy_directory(f.vfs, d, info, answer.inode, oom), d)
    <3>1. r = m
      BY <2>2, <2>5, <2>7 DEF OpenFound
    <3>2. /\ Kept(f.vfs, m.vfs)
          /\ Opening(v, f.vfs, d) => OpenEffect(v, m.vfs, m.value, info)
      BY <1>4, <1>9, <2>2, DirectoryProxied
    <3> HIDE DEF m
    <3>3. Kept(v, m.vfs) /\ (m.vfs.met \cap MapCalls = {} => o.met \cap MapCalls = {})
      BY <2>3, <3>2 DEF Kept
    <3> QED
      BY <2>4, <3>1, <3>2, <3>3 DEF r
  <2> QED
    BY <1>14, <2>6, <2>7
<1> QED
  BY <1>4, <1>12, <1>13, <1>14

(* A list with one entry is asked once.                                    *)
LEMMA OneEntry ==
  ASSUME NEW v, NEW l, NEW args, DOMAIN v.lists[l] = {1}
  PROVE  iterate_over_mounted_list(v, l, args) = open_callback(v, v.lists[l][1], args)
<1> DEFINE s == v.lists[l]
           base == WithValue(v, "ENOENT")
           op(acc, e) == IF acc.value = "ok" THEN acc ELSE open_callback(acc.vfs, e, args)
           Is(it) == it = [S \in SUBSET {1} |-> IF S = {} THEN base ELSE op(it[S \ {Max(S)}], s[Max(S)])]
           f == [S \in SUBSET {1} |-> IF S = {} THEN base ELSE op(base, s[1])]
           it == CHOOSE g : Is(g)
<1>1. iterate_over_mounted_list(v, l, args) = it[{1}]
  BY DEF iterate_over_mounted_list, FoldLeft, MapThenFoldSet
<1>2. Max({1}) = 1
  BY DEF Max
<1>3. \A S \in SUBSET {1} : S # {} => S = {1} /\ S \ {Max(S)} = {}
  <2> TAKE S \in SUBSET {1}
  <2>1. S = {} \/ S = {1}
    OBVIOUS
  <2> QED
    BY <1>2, <2>1
<1>4. op(base, s[1]) = open_callback(v, v.lists[l][1], args)
  BY DEF WithValue
<1> HIDE DEF op, base, s
<1>5. Is(f)
  BY <1>2, <1>3
<1>6. Is(it)
  <2> HIDE DEF Is, f
  <2> QED
    BY <1>5
<1> HIDE DEF it
<1>7. it[{1}] = op(base, s[1])
  <2>1. it[{}] = base
    BY <1>6
  <2>2. it[{1}] = op(it[{1} \ {Max({1})}], s[Max({1})])
    BY <1>6
  <2>3. {1} \ {Max({1})} = {}
    BY <1>2
  <2> QED
    BY <1>2, <2>1, <2>2, <2>3
<1> QED
  BY <1>1, <1>4, <1>7

(* The effect of open_file when the locks of others are taken and given    *)
(* back around it.                                                         *)
LEMMA OpenAround ==
  ASSUME NEW v, NEW x, NEW y, NEW w \in VfsState, NEW info, NEW lock, NEW value,
         SameButLocks(v, x), x.locked \subseteq v.locked \cup {lock}, OpenEffect(x, y, value, info),
         SameButLocks(y, w), w.locked = y.locked \ {lock}
  PROVE  OpenEffect(v, w, value, info)
<1>1. /\ w.processes = v.processes /\ w.namespaces = v.namespaces
      /\ w.mount_points = v.mount_points /\ w.lists = v.lists
      /\ w.storage \subseteq v.storage /\ w.transferred = v.transferred
  BY DEF SameButLocks, SameTables, OpenEffect
<1>2. w.locked \subseteq v.locked
  BY DEF OpenEffect
<1>3. /\ w.used = y.used /\ w.infos = y.infos /\ w.fds = y.fds /\ w.replies = y.replies /\ w.met = y.met
      /\ x.used = v.used /\ x.infos = v.infos /\ x.fds = v.fds /\ x.replies = v.replies
  BY DEF SameButLocks, SameTables
<1>4. CASE /\ y.used = x.used /\ y.infos = x.infos /\ y.fds = x.fds /\ y.replies = x.replies
           /\ value = "ok" => "directory_oom" \in y.met
  BY <1>1, <1>2, <1>3, <1>4 DEF OpenEffect
<1>5. CASE value = "ok" /\ FileOpened(x, y)
  <2>1. FileOpened(v, w)
    BY <1>3, <1>5 DEF FileOpened
  <2> QED
    BY <1>1, <1>2, <1>5, <2>1 DEF OpenEffect
<1>6. CASE value = "ok" /\ DirectoryOpened(x, y, info)
  <2>1. DirectoryOpened(v, w, info)
    BY <1>3, <1>6 DEF DirectoryOpened
  <2> QED
    BY <1>1, <1>2, <1>6, <2>1 DEF OpenEffect
<1> QED
  BY <1>4, <1>5, <1>6 DEF OpenEffect

(* The same in a mount point.                                              *)
LEMMA OpenInMount ==
  ASSUME NEW v \in VfsState, PointersInv(v), ListsInv(v), NEW m \in DOMAIN v.mount_points,
         NEW info \in DirectoryInfo, info.mount_point = SIZE_MAX, info.namespace \in DOMAIN v.namespaces,
         NEW allow_create, NEW answer \in Answer, NEW oom
  PROVE  LET r == OpenIn(v, m, info, allow_create, answer, oom)
         IN  /\ r.value \in {"ok", "ENOENT"} /\ Kept(v, r.vfs) /\ <<"mount_points", m>> \notin r.vfs.locked
             /\ MapsInv(v) /\ r.vfs.met \cap MapCalls = {} => OpenEffect(v, r.vfs, r.value, info)
<1> DEFINE x == Lock(v, "mount_points", m)
           l == v.mount_points[m].list
           args == [info |-> info, allow_create |-> allow_create, answer |-> answer, oom |-> oom]
           entry == v.lists[l][1]
           c == open_callback(x, entry, args)
           f == open_file(x, info, answer, oom)
           r == OpenIn(v, m, info, allow_create, answer, oom)
<1>0. "mount_points" \in Kind /\ {"ok", "ENOENT"} \subseteq Status
  BY DEF Kind, Status
<1>1. v.mount_points \in Table(Id("mount_points"), MountPoint) /\ v.lists \in Table(Id("lists"), MountedList)
  BY DEF VfsState
<1>2. m \in Nat /\ l \in DOMAIN v.lists /\ v.lists[l] \in MountedList /\ Len(v.lists[l]) = 1
  <2>1. m \in Id("mount_points") /\ l \in DOMAIN v.lists
    BY <1>1, IsTable DEF ListsInv
  <2>2. v.lists[l] \in MountedList
    BY <1>1, <2>1, IsTable
  <2>3. m \in Nat
    BY <1>0, <2>1, SlotNumbers
  <2> QED
    BY <2>1, <2>2, <2>3 DEF ListsInv
<1>3. x \in VfsState /\ SameButLocks(v, x) /\ x.locked = v.locked \cup {<<"mount_points", m>>}
  BY <1>0, <1>2, LockState
<1> HIDE DEF x
<1>4. /\ x.used = v.used /\ x.mount_points = v.mount_points /\ x.lists = v.lists /\ x.infos = v.infos
      /\ x.fds = v.fds /\ x.namespaces = v.namespaces /\ x.met = v.met /\ x.replies = v.replies
  BY <1>3 DEF SameButLocks, SameTables
<1>5. PointersInv(x) /\ (MapsInv(v) => MapsInv(x))
  BY <1>4 DEF PointersInv, Inner, MapsInv, Kind
<1>6. DOMAIN x.lists[l] = {1}
  BY <1>2, <1>4 DEF MountedList
<1>7. iterate_over_mounted_list(x, l, args) = c
  BY <1>4, <1>6, OneEntry
<1>8. r = Unlocked(c, "mount_points", m)
  BY <1>7 DEF OpenIn, iterate_over_mount_point, x
<1>9. c = IF entry.create /\ ~allow_create THEN WithValue(x, "ENOENT") ELSE Done(f)
  BY DEF open_callback
<1>10. /\ Kept(x, f.vfs)
       /\ MapsInv(x) /\ f.vfs.met \cap MapCalls = {} => OpenEffect(x, f.vfs, f.value, info)
  BY <1>3, <1>4, <1>5, OpenFile
<1> HIDE DEF f, c, entry, args, r
<1> DEFINE w == Unlock(c.vfs, "mount_points", m)
<1>11. r.vfs = w /\ r.value = c.value
  BY <1>8 DEF Unlocked, WithValue
<1>12. c.value \in {"ok", "ENOENT"}
  BY <1>9 DEF Done, WithValue
<1>13. OpenEffect(x, x, "ENOENT", info)
  BY <1>0, <1>3 DEF OpenEffect
<1>14. /\ Kept(x, c.vfs)
       /\ MapsInv(x) /\ c.vfs.met \cap MapCalls = {} => OpenEffect(x, c.vfs, c.value, info)
  <2>1. Kept(x, x)
    BY <1>3 DEF Kept
  <2>2. \/ c.vfs = x /\ c.value = "ENOENT"
        \/ c.vfs = f.vfs /\ c.value = IF f.value = "ok" THEN "ok" ELSE "ENOENT"
    BY <1>9 DEF Done, WithValue
  <2>3. CASE c.vfs = x /\ c.value = "ENOENT"
    BY <1>13, <2>1, <2>3
  <2>4. CASE c.vfs = f.vfs /\ c.value = IF f.value = "ok" THEN "ok" ELSE "ENOENT"
    <3>1. f.value = "ok" <=> c.value = "ok"
      BY <2>4
    <3>2. OpenEffect(x, f.vfs, f.value, info) => OpenEffect(x, f.vfs, c.value, info)
      BY <1>0, <1>12, <3>1 DEF OpenEffect
    <3> QED
      BY <1>10, <2>4, <3>2
  <2> QED
    BY <2>2, <2>3, <2>4
<1>15. w \in VfsState /\ SameButLocks(c.vfs, w) /\ w.locked = c.vfs.locked \ {<<"mount_points", m>>}
  <2>1. c.vfs \in VfsState
    BY <1>14 DEF Kept
  <2> QED
    BY <1>0, <1>2, <2>1, LockState
<1> HIDE DEF w
<1>16. Kept(v, w)
  BY <1>4, <1>14, <1>15 DEF Kept, SameButLocks, SameTables
<1>17. ASSUME w.met \cap MapCalls = {}, MapsInv(v)
       PROVE  OpenEffect(v, w, c.value, info)
  <2>0. c.vfs.met \cap MapCalls = {}
    BY <1>15, <1>17 DEF SameButLocks
  <2>1. OpenEffect(x, c.vfs, c.value, info)
    BY <1>5, <1>14, <1>17, <2>0
  <2> QED
    BY <1>0, <1>3, <1>12, <1>15, <2>1, OpenAround
<1>18. <<"mount_points", m>> \notin w.locked
  BY <1>15
<1> QED
  BY <1>11, <1>12, <1>16, <1>17, <1>18 DEF r

-----------------------------------------------------------------------------
(***************************************************************************)
(* What handling a message may do to the memory v, where h are the         *)
(* descriptors that clients hold: everything that the properties say of a  *)
(* step.                                                                   *)
(***************************************************************************)
Given(w) == (UNION {w.replies[i].gives : i \in DOMAIN w.replies}) \ {FileDescriptor}
Frozen(v, w) ==
  \A n \in DOMAIN v.namespaces \cap DOMAIN w.namespaces :
    (\A p \in Users(v, n) : ~v.processes[p].can_modify)
      => (\A p \in Users(w, n) : ~w.processes[p].can_modify) /\ MountsIn(w, n) = MountsIn(v, n)
Unmarks(v, w) ==
  (\A i \in DOMAIN w.replies : w.replies[i].status \notin {"ok", "passed"})
    => \A k \in Kind : MarkedEmpty(w, k) \subseteq MarkedEmpty(v, k)
Good(v, w, h) ==
  /\ TablesInv(w)
  /\ HeldInv(w, h \cup Given(w))
  /\ w.locked \subseteq v.locked
  /\ "refused" \notin w.met => w.storage \ w.transferred \subseteq v.storage \ v.transferred
  /\ Frozen(v, w)
  /\ Unmarks(v, w)

(* Infos that a handler works with when it opens something.                *)
InfoOk(v, info) ==
  /\ info \in DirectoryInfo /\ info.namespace \in DOMAIN v.namespaces /\ info.mount_point = SIZE_MAX
  /\ info.can_modify => \E p \in Users(v, info.namespace) : v.processes[p].can_modify

(* One reply.                                                              *)
LEMMA OneReply ==
  ASSUME NEW w, NEW letter, w.replies = Append(<<>>, letter)
  PROVE  /\ DOMAIN w.replies = {1} /\ w.replies[1] = letter
         /\ Given(w) = letter.gives \ {FileDescriptor}
<1>1. w.replies = <<letter>>
  OBVIOUS
<1>2. DOMAIN w.replies = {1} /\ w.replies[1] = letter
  BY <1>1
<1>3. \A x : x \in Given(w) <=> x \in letter.gives \ {FileDescriptor}
  BY <1>2 DEF Given
<1>5. Given(w) = letter.gives \ {FileDescriptor}
  BY <1>3
<1> QED
  BY <1>2, <1>5

(* Nothing changes in the tables but infos, fds and their map.             *)
LEMMA InfosChanged ==
  ASSUME NEW v, NEW w \in VfsState, TablesInv(v), w.processes = v.processes, w.namespaces = v.namespaces,
         w.mount_points = v.mount_points, w.lists = v.lists, MapsInv(w), InfosInv(w)
  PROVE  TablesInv(w) /\ Frozen(v, w)
<1>1. PointersInv(w) /\ BucketsInv(w)
  BY MountsKept
<1>2. NamespacesInv(w)
  BY DEF TablesInv, NamespacesInv, Users
<1>3. ListsInv(w)
  BY DEF TablesInv, ListsInv
<1>4. Frozen(v, w)
  BY DEF Frozen, Users, MountsIn
<1> QED
  BY <1>1, <1>2, <1>3, <1>4 DEF TablesInv

(* The tables stay and there is a reply without a descriptor, or none.     *)
LEMMA GoodSame ==
  ASSUME NEW v, NEW w \in VfsState, NEW h, NEW e, TablesInv(v), HeldInv(v, h), SameTables(v, w),
         w.locked \subseteq v.locked,
         "refused" \notin w.met => w.storage \ w.transferred \subseteq v.storage \ v.transferred,
         w.replies = Append(<<>>, [status |-> e, gives |-> {}]) \/ w.replies = <<>>
  PROVE  Good(v, w, h)
<1>1. TablesInv(w)
  BY SameInv
<1>2. Given(w) = {}
  <2>1. CASE w.replies = Append(<<>>, [status |-> e, gives |-> {}])
    <3> DEFINE letter == [status |-> e, gives |-> {}]
    <3>1. letter.gives = {}
      OBVIOUS
    <3>2. Given(w) = letter.gives \ {FileDescriptor}
      <4> HIDE DEF letter
      <4> QED
        BY <2>1, OneReply DEF letter
    <3> QED
      BY <3>1, <3>2
  <2>2. CASE w.replies = <<>>
    <3>1. DOMAIN w.replies = {}
      BY <2>2
    <3> QED
      BY <2>2, <3>1 DEF Given
  <2> QED
    BY <2>1, <2>2
<1>3. HeldInv(w, h \cup Given(w))
  BY <1>2 DEF HeldInv, SameTables
<1>4. Frozen(v, w)
  BY DEF Frozen, Users, MountsIn, SameTables
<1>5. Unmarks(v, w)
  BY DEF Unmarks, MarkedEmpty, SameTables, Kind
<1> QED
  BY <1>1, <1>2, <1>3, <1>4, <1>5 DEF Good

(* Answering without doing anything.                                       *)
LEMMA GoodAnswer ==
  ASSUME NEW v, NEW h, NEW e \in Status, TablesInv(v), HeldInv(v, h), v.replies = <<>>
  PROVE  Good(v, return_value(v, e), h)
<1> DEFINE w == return_value(v, e)
<1>1. v \in VfsState
  BY DEF TablesInv
<1>2. {} \in SUBSET (Descriptor \cup {FileDescriptor})
  OBVIOUS
<1>3. w = Reply(v, e, {})
  BY DEF return_value
<1> HIDE DEF w
<1>4. /\ w \in VfsState /\ SameTables(v, w)
      /\ w.replies = Append(v.replies, [status |-> e, gives |-> {}])
      /\ w.locked = v.locked /\ w.storage = v.storage /\ w.transferred = v.transferred
      /\ w.met = v.met
  BY <1>1, <1>2, <1>3, ReplyState
<1>5. Good(v, w, h)
  BY <1>4, GoodSame
<1> QED
  BY <1>5 DEF w

(* Nothing is opened in the tables, or a file, or a directory.             *)
LEMMA GoodOpen ==
  ASSUME NEW v, NEW h, NEW r, NEW info, TablesInv(v), HeldInv(v, h), v.replies = <<>>,
         InfoOk(v, info), OpenEffect(v, r.vfs, r.value, info)
  PROVE  Good(v, ReplyError(r), h)
<1> DEFINE w == r.vfs
<1>0. v \in VfsState /\ w \in VfsState /\ r.value \in Status
  BY DEF TablesInv, OpenEffect
<1>1. /\ w.processes = v.processes /\ w.namespaces = v.namespaces
      /\ w.mount_points = v.mount_points /\ w.lists = v.lists
      /\ w.locked \subseteq v.locked /\ w.storage \ w.transferred \subseteq v.storage \ v.transferred
  BY DEF OpenEffect
<1>2. "infos" \in Kind /\ v.used \in [Kind -> SUBSET Nat]
  BY <1>0 DEF Kind, VfsState
<1>3. MapsInv(v) /\ InfosInv(v) /\ v.infos \in Table(Id("infos"), DirectoryInfo) /\ v.fds \subseteq Id("infos")
  BY <1>0 DEF TablesInv, VfsState
<1>4. CASE /\ w.used = v.used /\ w.infos = v.infos /\ w.fds = v.fds /\ w.replies = v.replies
           /\ r.value = "ok" => "directory_oom" \in w.met
  <2> DEFINE u == ReplyError(r)
  <2>1. SameTables(v, w)
    BY <1>1, <1>4 DEF SameTables
  <2>2. CASE r.value = "ok"
    <3>1. u = w
      BY <2>2 DEF ReplyError
    <3> QED
      BY <1>0, <1>1, <1>4, <2>1, <2>2, <3>1, GoodSame
  <2>3. CASE r.value # "ok"
    <3>1. u = Reply(w, r.value, {})
      BY <2>3 DEF ReplyError, return_value
    <3>2. {} \in SUBSET (Descriptor \cup {FileDescriptor})
      OBVIOUS
    <3> HIDE DEF u
    <3>3. /\ u \in VfsState /\ SameTables(w, u)
          /\ u.replies = Append(w.replies, [status |-> r.value, gives |-> {}])
          /\ u.locked = w.locked /\ u.storage = w.storage /\ u.transferred = w.transferred
          /\ u.met = w.met
      BY <1>0, <3>1, <3>2, ReplyState
    <3>4. SameTables(v, u)
      BY <2>1, <3>3 DEF SameTables
    <3>5. Good(v, u, h)
      BY <1>1, <1>4, <3>3, <3>4, GoodSame
    <3> QED
      BY <3>5 DEF u
  <2> QED
    BY <2>2, <2>3
<1>5. CASE r.value = "ok" /\ FileOpened(v, w)
  <2>1. ReplyError(r) = w
    BY <1>5 DEF ReplyError
  <2>2. /\ w.infos = v.infos /\ w.fds = v.fds
        /\ w.replies = Append(<<>>, [status |-> "ok", gives |-> {FileDescriptor}])
    BY <1>5 DEF FileOpened
  <2>3. /\ \A k \in Kind : v.used[k] \subseteq w.used[k] /\ w.used[k] \subseteq Id(k)
    <3>1. \A k \in Kind : v.used[k] \subseteq Id(k)
      BY <1>3 DEF MapsInv
    <3>2. v.used \in [Kind -> SUBSET Nat] /\ "infos" \in Kind
      BY <1>2, <1>3 DEF VfsState, Kind
    <3>3. \/ w.used = v.used
          \/ \E d \in Id("infos") \ v.used["infos"] : w.used = [v.used EXCEPT !["infos"] = @ \cup {d}]
      BY <1>5 DEF FileOpened
    <3>4. CASE w.used = v.used
      BY <3>1, <3>4
    <3>5. CASE \E d \in Id("infos") \ v.used["infos"] : w.used = [v.used EXCEPT !["infos"] = @ \cup {d}]
      <4> PICK d \in Id("infos") : w.used = [v.used EXCEPT !["infos"] = @ \cup {d}]
        BY <3>5
      <4> QED
        BY <3>1, <3>2
    <3> QED
      BY <3>3, <3>4, <3>5
  <2>4. MapsInv(w)
    BY <1>1, <1>2, <1>3, <2>2, <2>3 DEF MapsInv, Kind
  <2>5. InfosInv(w)
    BY <1>1, <1>3, <2>2 DEF InfosInv, Users
  <2>6. TablesInv(w) /\ Frozen(v, w)
    BY <1>0, <1>1, <2>4, <2>5, InfosChanged
  <2> DEFINE letter == [status |-> "ok", gives |-> {FileDescriptor}]
  <2>7. letter.gives = {FileDescriptor} /\ letter.status = "ok"
    OBVIOUS
  <2>8. /\ DOMAIN w.replies = {1} /\ w.replies[1] = letter
        /\ Given(w) = letter.gives \ {FileDescriptor}
    <3> HIDE DEF letter
    <3> QED
      BY <2>2, OneReply DEF letter
  <2> HIDE DEF letter
  <2>9. Given(w) = {}
    BY <2>7, <2>8
  <2>10. HeldInv(w, h \cup Given(w))
    BY <2>2, <2>9 DEF HeldInv
  <2>11. Unmarks(v, w)
    BY <2>7, <2>8 DEF Unmarks
  <2> QED
    BY <1>1, <2>1, <2>6, <2>8, <2>9, <2>10, <2>11 DEF Good
<1>6. CASE r.value = "ok" /\ DirectoryOpened(v, w, info)
  <2>0. ReplyError(r) = w
    BY <1>6 DEF ReplyError
  <2>1. PICK d \in Id("infos") \ v.used["infos"], inode \in Inode :
          /\ w.used = [v.used EXCEPT !["infos"] = @ \cup {d}]
          /\ w.infos = Put(v.infos, d, [info EXCEPT !.inode = inode]) /\ w.fds = v.fds \cup {d}
          /\ w.replies = Append(v.replies, [status |-> "ok", gives |-> {SlotNr(d)}])
    BY <1>6 DEF DirectoryOpened
  <2> DEFINE i == [info EXCEPT !.inode = inode]
  <2>2. /\ i \in DirectoryInfo /\ i.namespace = info.namespace /\ i.mount_point = SIZE_MAX
        /\ i.can_modify = info.can_modify
    BY DEF InfoOk, DirectoryInfo
  <2>14. w.infos = Put(v.infos, d, i) /\ d \in Id("infos")
    BY <2>1
  <2> HIDE DEF i
  <2>3. /\ d \notin DOMAIN v.infos /\ d \notin v.fds
    BY <1>2, <1>3 DEF MapsInv
  <2>4. /\ DOMAIN w.infos = DOMAIN v.infos \cup {d} /\ w.infos[d] = i
        /\ \A j \in DOMAIN v.infos : j # d => w.infos[j] = v.infos[j]
    <3> DEFINE t == Put(v.infos, d, i)
    <3>1. v.infos \in Table(Id("infos"), DirectoryInfo) /\ i \in DirectoryInfo /\ d \in Id("infos")
      BY <1>3, <2>2, <2>14
    <3>2. /\ DOMAIN t = DOMAIN v.infos \cup {d} /\ t[d] = i
          /\ \A j \in DOMAIN v.infos : j # d => t[j] = v.infos[j]
      BY DEF Put
    <3> HIDE DEF t
    <3>3. w.infos = t
      BY <2>14 DEF t
    <3> QED
      BY <3>2, <3>3
  <2>5. MapsInv(w)
    <3>1. \A k \in Kind : v.used[k] \subseteq w.used[k] /\ w.used[k] \subseteq Id(k)
      BY <1>2, <1>3, <2>1 DEF MapsInv
    <3>2. d \in w.used["infos"]
      BY <1>2, <2>1
    <3>3. \A k \in Kind : DOMAIN w[k] \subseteq w.used[k]
      BY <1>1, <1>3, <2>4, <3>1, <3>2 DEF MapsInv, Kind
    <3> QED
      BY <1>2, <1>3, <2>1, <3>1, <3>2, <3>3 DEF MapsInv
  <2>6. InfosInv(w)
    <3> SUFFICES ASSUME NEW j \in DOMAIN w.infos
                 PROVE  /\ w.infos[j].namespace \in DOMAIN w.namespaces
                        /\ w.infos[j].mount_point \in {SIZE_MAX, w.namespaces[w.infos[j].namespace].root}
                        /\ j \in w.fds => w.infos[j].mount_point = SIZE_MAX
                        /\ w.infos[j].can_modify =>
                             \E p \in Users(w, w.infos[j].namespace) : w.processes[p].can_modify
      BY DEF InfosInv
    <3>1. CASE j = d
      BY <1>1, <2>2, <2>4, <3>1 DEF InfoOk, Users
    <3>2. CASE j # d
      <4>1. j \in DOMAIN v.infos /\ w.infos[j] = v.infos[j] /\ (j \in w.fds <=> j \in v.fds)
        BY <2>1, <2>4, <3>2
      <4> QED
        BY <1>1, <1>3, <4>1 DEF InfosInv, Users
    <3> QED
      BY <3>1, <3>2
  <2>7. TablesInv(w) /\ Frozen(v, w)
    BY <1>0, <1>1, <2>5, <2>6, InfosChanged
  <2> DEFINE letter == [status |-> "ok", gives |-> {SlotNr(d)}]
  <2>8. letter.gives = {SlotNr(d)} /\ letter.status = "ok"
    OBVIOUS
  <2>9. /\ DOMAIN w.replies = {1} /\ w.replies[1] = letter
        /\ Given(w) = letter.gives \ {FileDescriptor}
    <3> HIDE DEF letter
    <3> QED
      BY <2>1, OneReply DEF letter
  <2> HIDE DEF letter
  <2>10. SlotNr(d) \in Descriptor /\ SlotNr(d).of = "slot" /\ SlotNr(d).id = d /\ SlotNr(d) # FileDescriptor
    BY DescriptorTypes
  <2>11. Given(w) = {SlotNr(d)}
    BY <2>8, <2>9, <2>10
  <2>12. HeldInv(w, h \cup Given(w))
    <3>1. \A b \in h : b.id # d
      BY <2>3 DEF HeldInv
    <3>2. \A b \in h : b.id \in DOMAIN w.infos /\ (b.of = "slot" <=> b.id \in w.fds)
      BY <2>1, <2>4, <3>1 DEF HeldInv
    <3> QED
      BY <2>1, <2>4, <2>10, <2>11, <3>2 DEF HeldInv
  <2>13. Unmarks(v, w)
    BY <2>8, <2>9 DEF Unmarks
  <2> QED
    BY <1>1, <2>0, <2>7, <2>9, <2>12, <2>13 DEF Good
<1> QED
  BY <1>4, <1>5, <1>6 DEF OpenEffect

(* Rights to a namespace are handed on, never made.                        *)
LEMMA SetUpFrozen ==
  ASSUME NEW v, NEW w \in VfsState, TablesInv(v), NEW n, NEW creator, NEW new, NEW flags,
         SetUpDone(v, w, n, creator, new, flags),
         "VFS_SHARE_NAMESPACE" \in flags => creator \in DOMAIN v.processes
  PROVE  Frozen(v, w)
<1> DEFINE c == CanModify(v, creator, flags)
           data == [fs_namespace |-> n, can_modify |-> c]
<1>1. /\ new \notin DOMAIN v.processes /\ w.processes = Put(v.processes, new, data)
  BY DEF SetUpDone
<1>2. /\ DOMAIN w.processes = DOMAIN v.processes \cup {new}
      /\ w.processes[new].fs_namespace = n /\ w.processes[new].can_modify = c
      /\ \A p \in DOMAIN v.processes : w.processes[p] = v.processes[p]
  <2> HIDE DEF c
  <2> QED
    BY <1>1 DEF Put
<1>3. c /\ "VFS_SHARE_NAMESPACE" \in flags => v.processes[creator].can_modify
  BY DEF CanModify
<1> HIDE DEF c, data
<1> SUFFICES ASSUME NEW o \in DOMAIN v.namespaces, o \in DOMAIN w.namespaces,
                    \A p \in Users(v, o) : ~v.processes[p].can_modify
             PROVE  /\ \A p \in Users(w, o) : ~w.processes[p].can_modify
                    /\ MountsIn(w, o) = MountsIn(v, o)
  BY DEF Frozen
<1>4. \A p \in Users(w, o) : p # new => p \in Users(v, o) /\ ~w.processes[p].can_modify
  BY <1>2 DEF Users
<1>5. CASE /\ "VFS_SHARE_NAMESPACE" \in flags
           /\ n = v.processes[creator].fs_namespace /\ n \in DOMAIN v.namespaces
           /\ w.namespaces = [v.namespaces EXCEPT ![n] = [v.namespaces[n] EXCEPT !.references = @ + 1]]
  <2>1. new \in Users(w, o) => ~w.processes[new].can_modify
    <3> HAVE new \in Users(w, o)
    <3>1. o = n
      BY <1>2 DEF Users
    <3>2. creator \in Users(v, o)
      BY <1>5, <3>1 DEF Users
    <3>3. ~c
      BY <1>3, <1>5, <3>2
    <3> QED
      BY <1>2, <3>3
  <2>2. MountsIn(w, o) = MountsIn(v, o)
    <3>1. v.namespaces \in Table(Id("namespaces"), Namespace)
      BY DEF TablesInv, VfsState
    <3>2. v.namespaces[o] \in Namespace
      BY <3>1, IsTable
    <3>3. w.namespaces[o].root = v.namespaces[o].root /\ w.namespaces[o].buckets = v.namespaces[o].buckets
      BY <1>5, <3>2 DEF Namespace
    <3> QED
      BY <3>3 DEF MountsIn
  <2> QED
    BY <1>4, <2>1, <2>2
<1>6. CASE /\ n \notin DOMAIN v.namespaces
           /\ w.namespaces = Put(v.namespaces, n, NewNamespace)
  <2>1. new \notin Users(w, o)
    BY <1>2, <1>6 DEF Users
  <2>2. w.namespaces[o] = v.namespaces[o]
    BY <1>6 DEF Put
  <2> QED
    BY <1>4, <2>1, <2>2 DEF MountsIn
<1> QED
  BY <1>5, <1>6 DEF SetUpDone

(* A process is set up, or nothing changes.                                *)
LEMMA GoodSetUp ==
  ASSUME NEW v, NEW h, TablesInv(v), HeldInv(v, h), v.replies = <<>>,
         NEW creator \in DOMAIN v.processes, NEW new \in Pid, NEW flags, NEW oom,
         set_up_filesystem_for_process(v, creator, new, flags, oom).vfs.met \cap MapCalls = {}
  PROVE  Good(v, ReplyError(set_up_filesystem_for_process(v, creator, new, flags, oom)), h)
<1> DEFINE r == set_up_filesystem_for_process(v, creator, new, flags, oom)
           w == r.vfs
<1>0. v \in VfsState
  BY DEF TablesInv
<1>1. v.processes[creator].fs_namespace \in DOMAIN v.namespaces
  BY DEF TablesInv, NamespacesInv
<1>2. \A n \in DOMAIN v.namespaces : v.namespaces[n].references > 0
  <2> TAKE n \in DOMAIN v.namespaces
  <2>1. /\ Users(v, n) # {} /\ v.namespaces[n].references = Cardinality(Users(v, n))
        /\ IsFiniteSet(DOMAIN v.processes) /\ Users(v, n) \subseteq DOMAIN v.processes
    BY DEF TablesInv, NamespacesInv, Users
  <2>2. IsFiniteSet(Users(v, n))
    BY <2>1, FS_Subset
  <2>3. Cardinality(Users(v, n)) \in Nat /\ Cardinality(Users(v, n)) # 0
    BY <2>1, <2>2, FS_CardinalityType, FS_EmptySet
  <2> QED
    BY <2>1, <2>3
<1>3. /\ w \in VfsState /\ Quiet(v, w)
      /\ \/ r.value = "ENOMEM" /\ SameTables(v, w) /\ w.replies = v.replies
         \/ r.value = "ok" /\ \E n \in Id("namespaces") : SetUpDone(v, w, n, creator, new, flags)
  BY <1>0, <1>1, <1>2, SetUp
<1> HIDE DEF r
<1>4. w.locked \subseteq v.locked /\ w.storage \ w.transferred \subseteq v.storage \ v.transferred
  BY <1>3 DEF Quiet
<1>5. CASE r.value = "ENOMEM" /\ SameTables(v, w) /\ w.replies = v.replies
  <2> DEFINE u == ReplyError(r)
  <2>1. u = Reply(w, "ENOMEM", {})
    BY <1>5 DEF ReplyError, return_value
  <2>2. {} \in SUBSET (Descriptor \cup {FileDescriptor}) /\ "ENOMEM" \in Status
    BY DEF Status
  <2> HIDE DEF u
  <2>3. /\ u \in VfsState /\ SameTables(w, u)
        /\ u.replies = Append(w.replies, [status |-> "ENOMEM", gives |-> {}])
        /\ u.locked = w.locked /\ u.storage = w.storage /\ u.transferred = w.transferred
        /\ u.met = w.met
    BY <1>3, <2>1, <2>2, ReplyState
  <2>4. SameTables(v, u)
    BY <1>5, <2>3 DEF SameTables
  <2>5. Good(v, u, h)
    BY <1>4, <1>5, <2>3, <2>4, GoodSame
  <2> QED
    BY <2>5 DEF u, r
<1>6. CASE r.value = "ok" /\ \E n \in Id("namespaces") : SetUpDone(v, w, n, creator, new, flags)
  <2>0. ReplyError(r) = w
    BY <1>6 DEF ReplyError
  <2>1. PICK n \in Id("namespaces") : SetUpDone(v, w, n, creator, new, flags)
    BY <1>6
  <2> DEFINE d == SlotFor(v, "infos")
             letter == [status |-> "ok", gives |-> {Info(d)}]
  <2>2. TablesInv(w) /\ Frozen(v, w)
    BY <1>3, <2>1, SetUpInv, SetUpFrozen
  <2>3. letter.gives = {Info(d)} /\ letter.status = "ok"
    OBVIOUS
  <2>4. /\ d \in Id("infos") \ v.used["infos"] /\ d \notin DOMAIN v.infos
        /\ w.replies = Append(<<>>, letter) /\ w.fds = v.fds
        /\ \E x : w.infos = Put(v.infos, d, x)
    BY <2>1 DEF SetUpDone
  <2> HIDE DEF letter, d
  <2>5. /\ DOMAIN w.replies = {1} /\ w.replies[1] = letter
        /\ Given(w) = letter.gives \ {FileDescriptor}
    BY <2>4, OneReply
  <2>6. Info(d) \in Descriptor /\ Info(d).of = "info" /\ Info(d).id = d /\ Info(d) # FileDescriptor
    BY <2>4, DescriptorTypes
  <2>7. Given(w) = {Info(d)}
    BY <2>3, <2>5, <2>6
  <2>8. DOMAIN w.infos = DOMAIN v.infos \cup {d}
    BY <2>4 DEF Put
  <2>9. d \notin v.fds
    BY <2>4 DEF TablesInv, MapsInv
  <2>10. HeldInv(w, h \cup Given(w))
    <3>1. \A b \in h : b.id # d
      BY <2>4 DEF HeldInv
    <3>2. \A b \in h : b.id \in DOMAIN w.infos /\ (b.of = "slot" <=> b.id \in w.fds)
      BY <2>4, <2>8, <3>1 DEF HeldInv
    <3> QED
      BY <2>4, <2>6, <2>7, <2>8, <2>9, <3>2 DEF HeldInv
  <2>11. Unmarks(v, w)
    BY <2>3, <2>5 DEF Unmarks
  <2>12. Good(v, w, h)
    BY <1>4, <2>2, <2>5, <2>10, <2>11 DEF Good
  <2> QED
    BY <2>0, <2>12 DEF r
<1> QED
  BY <1>3, <1>5, <1>6

(* What a handler finds when it has looked up the info of a descriptor.    *)
SameButInfos(v, x, lock) ==
  /\ x.used = v.used /\ x.processes = v.processes /\ x.namespaces = v.namespaces
  /\ x.mount_points = v.mount_points /\ x.lists = v.lists /\ x.fds = v.fds
  /\ DOMAIN x.infos = DOMAIN v.infos
  /\ x.storage = v.storage /\ x.transferred = v.transferred /\ x.replies = v.replies /\ x.met = v.met
  /\ x.locked \subseteq v.locked \cup {lock}

(* A descriptor's info is given the root's mount point, if there is one.   *)
LEMMA EnteredState ==
  ASSUME NEW v, NEW h, TablesInv(v), HeldInv(v, h), NEW d \in DOMAIN v.infos, d \notin v.fds
  PROVE  LET x == Entered(v, d)
             n == v.infos[d].namespace
         IN  /\ TablesInv(x) /\ HeldInv(x, h) /\ SameButInfos(v, x, <<"infos", d>>)
             /\ x.infos[d].namespace = n /\ x.infos[d].can_modify = v.infos[d].can_modify
             /\ x.infos[d].mount_point = v.namespaces[n].root
             /\ \A j \in DOMAIN v.infos : x.infos[j].namespace = v.infos[j].namespace
<1> DEFINE n == v.infos[d].namespace
           root == v.namespaces[n].root
           i == [v.infos[d] EXCEPT !.mount_point = root]
           t == [v.infos EXCEPT ![d] = i]
           l == Lock(v, "infos", d)
           y == WithTable(l, "infos", t)
           x == Entered(v, d)
<1>0. v \in VfsState /\ {"infos", "namespaces"} \subseteq Kind /\ StructOf("infos") = DirectoryInfo
  BY DEF TablesInv, Kind, StructOf
<1>1. v.infos \in Table(Id("infos"), DirectoryInfo) /\ v.namespaces \in Table(Id("namespaces"), Namespace)
  BY <1>0 DEF VfsState
<1>2. d \in Id("infos") /\ v.infos[d] \in DirectoryInfo
  BY <1>1, IsTable
<1>3. /\ n \in DOMAIN v.namespaces /\ v.infos[d].mount_point \in {SIZE_MAX, root}
      /\ InfosInv(v) /\ MapsInv(v)
  BY DEF TablesInv, InfosInv
<1>4. n \in Id("namespaces") /\ v.namespaces[n] \in Namespace
  BY <1>1, <1>3, IsTable
<1>5. d \in Nat /\ n \in Nat
  BY <1>0, <1>2, <1>4, SlotNumbers
<1>6. l \in VfsState /\ SameButLocks(v, l) /\ l.locked = v.locked \cup {<<"infos", d>>}
  <2>1. v \in VfsState /\ "infos" \in Kind /\ d \in Nat
    BY <1>0, <1>5
  <2>2. /\ Lock(v, "infos", d) \in VfsState /\ SameButLocks(v, Lock(v, "infos", d))
        /\ Lock(v, "infos", d).locked = v.locked \cup {<<"infos", d>>}
    BY <2>1, LockState, ZenonT(40)
  <2> QED
    BY <2>2
<1>7. /\ i \in DirectoryInfo /\ i.namespace = n /\ i.mount_point = root
      /\ i.can_modify = v.infos[d].can_modify
  BY <1>2, <1>4 DEF DirectoryInfo, Namespace
<1>8. x = IF v.infos[d].mount_point = SIZE_MAX
          THEN Unlock([l EXCEPT !.infos[d].mount_point = root], "namespaces", n) ELSE l
  BY DEF Entered
<1> HIDE DEF l, x, i
<1>9. /\ l.used = v.used /\ l.processes = v.processes /\ l.namespaces = v.namespaces
      /\ l.mount_points = v.mount_points /\ l.lists = v.lists /\ l.infos = v.infos /\ l.fds = v.fds
      /\ l.storage = v.storage /\ l.transferred = v.transferred /\ l.replies = v.replies
      /\ l.met = v.met
  BY <1>6 DEF SameButLocks, SameTables
<1>10. CASE v.infos[d].mount_point # SIZE_MAX
  <2>1. x = l
    BY <1>8, <1>10
  <2>2. TablesInv(l)
    BY <1>6, SameInv DEF SameButLocks
  <2>3. SameButInfos(v, l, <<"infos", d>>)
    BY <1>6, <1>9 DEF SameButInfos
  <2>4. HeldInv(l, h)
    BY <1>9 DEF HeldInv
  <2>5. l.infos[d] = v.infos[d] /\ v.infos[d].mount_point = root
    BY <1>3, <1>9, <1>10
  <2> QED
    BY <1>9, <2>1, <2>2, <2>3, <2>4, <2>5 DEF x
<1>11. CASE v.infos[d].mount_point = SIZE_MAX
  <2> DEFINE u == Unlock(y, "namespaces", n)
  <2>1. t \in Table(Id("infos"), StructOf("infos")) /\ DOMAIN t = DOMAIN v.infos
    BY <1>0, <1>1, <1>7, ChangeTable
  <2>2. t[d] = i /\ \A j \in DOMAIN v.infos : j # d => t[j] = v.infos[j]
    BY <1>1, IsTable
  <2>3. [l EXCEPT !.infos[d].mount_point = root] = y
    <3>1. [l EXCEPT !.infos[d].mount_point = root]
            = [l EXCEPT !.infos = [l.infos EXCEPT ![d] = [l.infos[d] EXCEPT !.mount_point = root]]]
      BY <1>6 DEF VfsState
    <3>2. [l.infos EXCEPT ![d] = [l.infos[d] EXCEPT !.mount_point = root]] = t
      BY <1>9 DEF i
    <3> QED
      BY <3>1, <3>2 DEF WithTable
  <2> HIDE DEF t
  <2>4. /\ y \in VfsState /\ y["infos"] = t
        /\ \A f \in VfsFields : f # "infos" => y[f] = l[f]
    BY <1>0, <1>6, <2>1, TableState
  <2> HIDE DEF y
  <2>5. u \in VfsState /\ SameButLocks(y, u) /\ u.locked = y.locked \ {<<"namespaces", n>>}
    <3>1. y \in VfsState /\ "namespaces" \in Kind /\ n \in Nat
      BY <1>0, <1>5, <2>4
    <3> HIDE DEF n
    <3> QED
      BY <3>1, LockState
  <2>6. x = u
    BY <1>8, <1>11, <2>3
  <2> HIDE DEF u
  <2>7. /\ y.used = v.used /\ y.processes = v.processes /\ y.namespaces = v.namespaces
        /\ y.mount_points = v.mount_points /\ y.lists = v.lists /\ y.fds = v.fds
        /\ y.storage = v.storage /\ y.transferred = v.transferred /\ y.replies = v.replies
        /\ y.met = v.met /\ y.locked = l.locked
    BY <1>9, <2>4 DEF VfsFields
  <2>8. /\ u.used = v.used /\ u.processes = v.processes /\ u.namespaces = v.namespaces
        /\ u.mount_points = v.mount_points /\ u.lists = v.lists /\ u.fds = v.fds
        /\ u.storage = v.storage /\ u.transferred = v.transferred /\ u.replies = v.replies
        /\ u.met = v.met /\ u.infos = t
    BY <2>4, <2>5, <2>7 DEF SameButLocks, SameTables
  <2>9. SameButInfos(v, u, <<"infos", d>>)
    BY <1>6, <2>1, <2>5, <2>7, <2>8 DEF SameButInfos
  <2>10. MapsInv(u)
    BY <1>3, <2>1, <2>8 DEF MapsInv, Kind
  <2>11. InfosInv(u)
    <3> SUFFICES ASSUME NEW j \in DOMAIN u.infos
                 PROVE  /\ u.infos[j].namespace \in DOMAIN u.namespaces
                        /\ u.infos[j].mount_point \in {SIZE_MAX, u.namespaces[u.infos[j].namespace].root}
                        /\ j \in u.fds => u.infos[j].mount_point = SIZE_MAX
                        /\ u.infos[j].can_modify =>
                             \E p \in Users(u, u.infos[j].namespace) : u.processes[p].can_modify
      BY DEF InfosInv
    <3>1. Users(u, u.infos[j].namespace) = Users(v, u.infos[j].namespace)
      BY <2>8 DEF Users
    <3>2. CASE j = d
      <4>1. u.infos[j] = i
        BY <2>2, <2>8, <3>2
      <4>2. v.infos[d].can_modify => \E p \in Users(v, n) : v.processes[p].can_modify
        BY <1>3 DEF InfosInv
      <4> QED
        BY <1>3, <1>7, <2>8, <3>1, <3>2, <4>1, <4>2
    <3>3. CASE j # d
      <4>1. j \in DOMAIN v.infos /\ u.infos[j] = v.infos[j]
        BY <2>1, <2>2, <2>8, <3>3
      <4> QED
        BY <1>3, <2>8, <3>1, <4>1 DEF InfosInv
    <3> QED
      BY <3>2, <3>3
  <2>12. TablesInv(u)
    BY <2>5, <2>8, <2>10, <2>11, InfosChanged
  <2>13. HeldInv(u, h)
    BY <2>1, <2>8 DEF HeldInv
  <2>14. u.infos[d] = i /\ \A j \in DOMAIN v.infos : u.infos[j].namespace = v.infos[j].namespace
    BY <1>7, <2>2, <2>8
  <2> QED
    BY <1>7, <2>6, <2>9, <2>12, <2>13, <2>14 DEF x
<1> QED
  BY <1>10, <1>11

(* What is good from there is good, when the lock is given back.           *)
LEMMA GoodAround ==
  ASSUME NEW v, NEW x, NEW w, NEW h, NEW d \in Id("infos"), SameButInfos(v, x, <<"infos", d>>), Good(x, w, h)
  PROVE  Good(v, Left(w, d), h)
<1> DEFINE u == Left(w, d)
<1>0. d \in Nat /\ w \in VfsState /\ "infos" \in Kind
  BY SlotNumbers DEF Kind, Good, TablesInv
<1>1. u \in VfsState /\ SameButLocks(w, u) /\ u.locked = w.locked \ {<<"infos", d>>}
  BY <1>0, LockState DEF Left
<1> HIDE DEF u
<1>2. /\ u.used = w.used /\ u.processes = w.processes /\ u.namespaces = w.namespaces
      /\ u.mount_points = w.mount_points /\ u.lists = w.lists /\ u.infos = w.infos /\ u.fds = w.fds
      /\ u.storage = w.storage /\ u.transferred = w.transferred /\ u.replies = w.replies /\ u.met = w.met
      /\ SameTables(w, u)
  BY <1>1 DEF SameButLocks, SameTables
<1>3. TablesInv(u)
  BY <1>1, <1>2, SameInv DEF Good
<1>4. Given(u) = Given(w)
  BY <1>2 DEF Given
<1>5. HeldInv(u, h \cup Given(u))
  BY <1>2, <1>4 DEF HeldInv, Good
<1>6. u.locked \subseteq v.locked
  BY <1>1 DEF Good, SameButInfos
<1>7. Frozen(v, u)
  BY <1>2 DEF Good, SameButInfos, Frozen, Users, MountsIn
<1>8. Unmarks(v, u)
  <2>1. \A k \in Kind : DOMAIN x[k] = DOMAIN v[k] /\ DOMAIN u[k] = DOMAIN w[k]
    BY <1>2 DEF SameButInfos, Kind
  <2>2. \A k \in Kind : MarkedEmpty(x, k) = MarkedEmpty(v, k) /\ MarkedEmpty(u, k) = MarkedEmpty(w, k)
    BY <1>2, <2>1 DEF SameButInfos, MarkedEmpty
  <2> QED
    BY <1>2, <2>2 DEF Good, Unmarks
<1>9. "refused" \notin u.met => u.storage \ u.transferred \subseteq v.storage \ v.transferred
  BY <1>2 DEF Good, SameButInfos
<1> QED
  BY <1>3, <1>5, <1>6, <1>7, <1>8, <1>9 DEF Good, u

(* An open that failed and another.                                        *)
LEMMA OpenTwice ==
  ASSUME NEW v, NEW y, NEW w, NEW e, NEW value, NEW info, OpenEffect(v, y, e, info), e # "ok",
         OpenEffect(y, w, value, info)
  PROVE  OpenEffect(v, w, value, info)
<1>1. /\ y.used = v.used /\ y.infos = v.infos /\ y.fds = v.fds /\ y.replies = v.replies
      /\ y.processes = v.processes /\ y.namespaces = v.namespaces
      /\ y.mount_points = v.mount_points /\ y.lists = v.lists
      /\ y.locked \subseteq v.locked /\ y.storage \subseteq v.storage /\ y.transferred = v.transferred
  BY DEF OpenEffect
<1>2. (FileOpened(y, w) => FileOpened(v, w)) /\ (DirectoryOpened(y, w, info) => DirectoryOpened(v, w, info))
  BY <1>1 DEF FileOpened, DirectoryOpened
<1> QED
  BY <1>1, <1>2 DEF OpenEffect

(* The reply to an error meets nothing.                                    *)
LEMMA ErrorMeets ==
  ASSUME NEW r, r.vfs \in VfsState
  PROVE  ReplyError(r).met = r.vfs.met
BY DEF ReplyError, return_value, Reply, VfsState

(* FD_OPEN of a descriptor for a mount point.                              *)
LEMMA GoodMountPointOpen ==
  ASSUME NEW v, NEW h, TablesInv(v), HeldInv(v, h), v.replies = <<>>, NEW d \in DOMAIN v.infos,
         v.infos[d].mount_point # SIZE_MAX, NEW flags, NEW env, env.first \in Answer, env.second \in Answer
  PROVE  LET w == mount_point_open(v, v.infos[d], flags, env)
         IN  "met" \in DOMAIN w /\ (w.met \cap MapCalls = {} => Good(v, w, h))
<1> DEFINE info == v.infos[d]
           m == info.mount_point
           n == info.namespace
           locked == Lock(v, "mount_points", m)
           x == Unlock(locked, "mount_points", m)
           inside == [info EXCEPT !.mount_point = v.mount_points[m].enclosing]
           a == OpenIn(locked, m, inside, TRUE, env.first, env.oom)
           b == OpenIn(x, m, inside, FALSE, env.first, env.oom)
           c == OpenIn(b.vfs, m, inside, TRUE, env.second, env.oom)
           w == mount_point_open(v, info, flags, env)
<1>0. v \in VfsState /\ "mount_points" \in Kind
  BY DEF TablesInv, Kind
<1>1. /\ v.infos \in Table(Id("infos"), DirectoryInfo) /\ v.mount_points \in Table(Id("mount_points"), MountPoint)
      /\ PointersInv(v) /\ MapsInv(v) /\ ListsInv(v) /\ InfosInv(v)
  BY <1>0 DEF TablesInv, VfsState
<1>2. info \in DirectoryInfo /\ n \in DOMAIN v.namespaces /\ m = v.namespaces[n].root
  BY <1>1, IsTable DEF InfosInv
<1>3. m \in DOMAIN v.mount_points /\ v.mount_points[m].enclosing = SIZE_MAX
  BY <1>1, <1>2 DEF PointersInv, Inner, Optional
<1>4. m \in Nat
  BY <1>0, <1>1, <1>3, IsTable, SlotNumbers
<1>5. InfoOk(v, inside) /\ inside \in DirectoryInfo /\ inside.mount_point = SIZE_MAX /\ inside.namespace = n
  <2>1. /\ inside \in DirectoryInfo /\ inside.mount_point = SIZE_MAX /\ inside.namespace = n
        /\ inside.can_modify = info.can_modify
    BY <1>2, <1>3 DEF DirectoryInfo, Optional
  <2>2. info.can_modify => \E p \in Users(v, n) : v.processes[p].can_modify
    BY <1>1 DEF InfosInv
  <2> HIDE DEF inside, info
  <2> QED
    BY <1>2, <2>1, <2>2 DEF InfoOk
<1>6. locked \in VfsState /\ SameButLocks(v, locked) /\ locked.locked = v.locked \cup {<<"mount_points", m>>}
  <2> HIDE DEF m
  <2> QED
    BY <1>0, <1>4, LockState
<1>7. w = ReplyError(IF {"OPEN_CREATE", "OPEN_EXCLUSIVE"} \subseteq flags THEN a
                     ELSE IF b.value # "ok" /\ "OPEN_CREATE" \in flags THEN c ELSE b)
  BY DEF mount_point_open
<1> HIDE DEF w, a, b, c, locked, inside, m, n
<1>8. x \in VfsState /\ SameButLocks(locked, x) /\ x.locked = locked.locked \ {<<"mount_points", m>>}
  BY <1>0, <1>4, <1>6, LockState
<1> HIDE DEF x
<1>9. SameButLocks(v, x) /\ x.locked \subseteq v.locked
  BY <1>6, <1>8 DEF SameButLocks, SameTables
<1>10. ASSUME NEW y \in VfsState, y.namespaces = v.namespaces, y.mount_points = v.mount_points, y.lists = v.lists
       PROVE  PointersInv(y) /\ ListsInv(y) /\ n \in DOMAIN y.namespaces /\ m \in DOMAIN y.mount_points
  BY <1>1, <1>2, <1>3, <1>10 DEF PointersInv, Inner, ListsInv
<1>11. ASSUME NEW y, SameTables(v, y) PROVE MapsInv(y)
  BY <1>1, <1>11 DEF SameTables, MapsInv, Kind
<1>12. ASSUME NEW r, w = ReplyError(r), r.vfs \in VfsState,
              r.vfs.met \cap MapCalls = {} => OpenEffect(v, r.vfs, r.value, inside)
       PROVE  "met" \in DOMAIN w /\ (w.met \cap MapCalls = {} => Good(v, w, h))
  <2>1. w.met = r.vfs.met
    BY <1>12, ErrorMeets
  <2>2. "met" \in DOMAIN w
    BY <1>12 DEF ReplyError, return_value, Reply, VfsState
  <2>3. ASSUME w.met \cap MapCalls = {} PROVE Good(v, w, h)
    <3>1. OpenEffect(v, r.vfs, r.value, inside)
      BY <1>12, <2>1, <2>3
    <3> QED
      BY <1>5, <1>12, <3>1, GoodOpen
  <2> QED
    BY <2>2, <2>3
<1>13. CASE {"OPEN_CREATE", "OPEN_EXCLUSIVE"} \subseteq flags
  <2>1. SameTables(v, locked) /\ PointersInv(locked) /\ ListsInv(locked) /\ MapsInv(locked)
        /\ n \in DOMAIN locked.namespaces /\ m \in DOMAIN locked.mount_points
    BY <1>6, <1>10, <1>11 DEF SameButLocks, SameTables
  <2>2. /\ Kept(locked, a.vfs) /\ <<"mount_points", m>> \notin a.vfs.locked
        /\ a.vfs.met \cap MapCalls = {} => OpenEffect(locked, a.vfs, a.value, inside)
    BY <1>5, <1>6, <2>1, OpenInMount DEF a
  <2>3. a.vfs \in VfsState /\ SameButLocks(a.vfs, a.vfs) /\ a.vfs.locked = a.vfs.locked \ {<<"mount_points", m>>}
    BY <2>2 DEF Kept, SameButLocks, SameTables
  <2>4. a.vfs.met \cap MapCalls = {} => OpenEffect(v, a.vfs, a.value, inside)
    BY <1>6, <2>2, <2>3, OpenAround
  <2>5. w = ReplyError(a)
    BY <1>7, <1>13
  <2>6. "met" \in DOMAIN w /\ (w.met \cap MapCalls = {} => Good(v, w, h))
    BY <1>12, <2>3, <2>4, <2>5
  <2> QED
    BY <2>6 DEF w
<1>14. CASE ~({"OPEN_CREATE", "OPEN_EXCLUSIVE"} \subseteq flags)
  <2>1. SameTables(v, x) /\ PointersInv(x) /\ ListsInv(x) /\ MapsInv(x)
        /\ n \in DOMAIN x.namespaces /\ m \in DOMAIN x.mount_points
    BY <1>8, <1>9, <1>10, <1>11 DEF SameButLocks, SameTables
  <2>2. /\ Kept(x, b.vfs) /\ <<"mount_points", m>> \notin b.vfs.locked
        /\ b.vfs.met \cap MapCalls = {} => OpenEffect(x, b.vfs, b.value, inside)
    BY <1>5, <1>8, <2>1, OpenInMount DEF b
  <2>3. b.vfs \in VfsState /\ SameButLocks(b.vfs, b.vfs) /\ b.vfs.locked = b.vfs.locked \ {<<"mount_points", m>>}
    BY <2>2 DEF Kept, SameButLocks, SameTables
  <2>4. b.vfs.met \cap MapCalls = {} => OpenEffect(v, b.vfs, b.value, inside)
    <3>1. x.locked \subseteq v.locked \cup {<<"mount_points", m>>}
      BY <1>9
    <3> QED
      BY <1>9, <2>2, <2>3, <3>1, OpenAround
  <2>5. CASE b.value # "ok" /\ "OPEN_CREATE" \in flags
    <3>1. /\ b.vfs.namespaces = v.namespaces /\ b.vfs.mount_points = v.mount_points
          /\ b.vfs.lists = v.lists
      BY <2>1, <2>2 DEF Kept, SameTables
    <3>2. PointersInv(b.vfs) /\ ListsInv(b.vfs) /\ n \in DOMAIN b.vfs.namespaces /\ m \in DOMAIN b.vfs.mount_points
      BY <1>10, <2>3, <3>1
    <3>3. /\ Kept(b.vfs, c.vfs)
          /\ MapsInv(b.vfs) /\ c.vfs.met \cap MapCalls = {} => OpenEffect(b.vfs, c.vfs, c.value, inside)
      BY <1>5, <2>3, <3>2, OpenInMount DEF c
    <3>4. ASSUME c.vfs.met \cap MapCalls = {}
          PROVE  OpenEffect(v, c.vfs, c.value, inside)
      <4>1. OpenEffect(v, b.vfs, b.value, inside)
        BY <2>4, <3>3, <3>4 DEF Kept
      <4>2. SameTables(v, b.vfs)
        BY <2>5, <4>1 DEF OpenEffect, SameTables, FileOpened, DirectoryOpened
      <4>3. MapsInv(b.vfs)
        BY <1>11, <4>2
      <4> QED
        BY <2>5, <3>3, <3>4, <4>1, <4>3, OpenTwice
    <3>5. c.vfs \in VfsState /\ w = ReplyError(c)
      BY <1>7, <1>14, <2>5, <3>3 DEF Kept
    <3>6. "met" \in DOMAIN w /\ (w.met \cap MapCalls = {} => Good(v, w, h))
      BY <1>12, <3>4, <3>5
    <3> QED
      BY <3>6 DEF w
  <2>6. CASE ~(b.value # "ok" /\ "OPEN_CREATE" \in flags)
    <3>1. w = ReplyError(b)
      BY <1>7, <1>14, <2>6
    <3>2. "met" \in DOMAIN w /\ (w.met \cap MapCalls = {} => Good(v, w, h))
      BY <1>12, <2>3, <2>4, <3>1
    <3> QED
      BY <3>2 DEF w
  <2> QED
    BY <2>5, <2>6
<1> QED
  BY <1>13, <1>14

(* FD_OPEN of a descriptor for a proxied directory.                        *)
LEMMA GoodDirectoryOpen ==
  ASSUME NEW v, NEW h, TablesInv(v), HeldInv(v, h), v.replies = <<>>, NEW d \in DOMAIN v.infos,
         d \in v.fds, NEW env, env.first \in Answer,
         directory_open(v, d, env).met \cap MapCalls = {}
  PROVE  Good(v, directory_open(v, d, env), h)
<1> DEFINE info == v.infos[d]
           n == info.namespace
           l == Lock(v, "infos", d)
           f == open_file(l, info, env.first, env.oom)
           r == Unlocked(f, "infos", d)
           u == Unlock(f.vfs, "infos", d)
           w == directory_open(v, d, env)
<1>0. v \in VfsState /\ "infos" \in Kind
  BY DEF TablesInv, Kind
<1>1. /\ v.infos \in Table(Id("infos"), DirectoryInfo)
      /\ PointersInv(v) /\ MapsInv(v) /\ InfosInv(v)
  BY <1>0 DEF TablesInv, VfsState
<1>2. InfoOk(v, info)
  BY <1>1, IsTable DEF InfosInv, InfoOk
<1>3. d \in Nat
  BY <1>0, <1>1, IsTable, SlotNumbers
<1>4. l \in VfsState /\ SameButLocks(v, l) /\ l.locked = v.locked \cup {<<"infos", d>>}
  BY <1>0, <1>3, LockState
<1>5. w = ReplyError(r)
  BY DEF directory_open
<1>6. r.vfs = u /\ r.value = f.value
  BY DEF Unlocked, WithValue
<1> HIDE DEF l, r, w
<1>7. PointersInv(l) /\ MapsInv(l) /\ n \in DOMAIN l.namespaces
  BY <1>1, <1>2, <1>4 DEF SameButLocks, SameTables, PointersInv, Inner, MapsInv, Kind, InfoOk
<1>8. /\ Kept(l, f.vfs)
      /\ f.vfs.met \cap MapCalls = {} => OpenEffect(l, f.vfs, f.value, info)
  BY <1>2, <1>4, <1>7, OpenFile DEF InfoOk
<1> HIDE DEF f
<1>9. f.vfs \in VfsState
  BY <1>8 DEF Kept
<1>10. u \in VfsState /\ SameButLocks(f.vfs, u) /\ u.locked = f.vfs.locked \ {<<"infos", d>>}
  BY <1>0, <1>3, <1>9, LockState
<1> HIDE DEF u
<1>11. w.met = u.met
  BY <1>5, <1>6, <1>10, ErrorMeets
<1>12. f.vfs.met \cap MapCalls = {}
  BY <1>10, <1>11 DEF SameButLocks, w
<1>13. OpenEffect(v, u, f.value, info)
  BY <1>4, <1>8, <1>10, <1>12, OpenAround
<1>14. Good(v, w, h)
  BY <1>2, <1>5, <1>6, <1>13, GoodOpen
<1> QED
  BY <1>14 DEF w

-----------------------------------------------------------------------------
(***************************************************************************)
(* Mounts.                                                                 *)
(***************************************************************************)
(* A list is allocated, or the tables stay.                                *)
LEMMA CreateList ==
  ASSUME NEW v \in VfsState, NEW oom
  PROVE  LET r == create_mounted_list_entry(v, oom)
         IN  /\ Grows(v, r.vfs)
             /\ r.vfs.met \cap MapCalls = {} =>
                  \/ /\ r.value = SIZE_MAX /\ r.vfs \in VfsState /\ SameTables(v, r.vfs)
                     /\ r.vfs.locked \subseteq v.locked /\ r.vfs.storage = v.storage
                     /\ r.vfs.transferred = v.transferred /\ r.vfs.replies = v.replies
                  \/ /\ r.value \in Id("lists") \ v.used["lists"] /\ r.value \notin DOMAIN v.lists
                     /\ r.vfs = Allocated(v, "lists", r.value, <<>>)
<1> DEFINE a == alloc_structure(v, "lists", <<>>, oom)
           i == a.value
           f == free_structure(a.vfs, "lists", i)
           r == create_mounted_list_entry(v, oom)
<1>0. "lists" \in Kind /\ "met" \in VfsFields /\ StructOf("lists") = MountedList /\ <<>> \in MountedList
  BY DEF Kind, VfsFields, StructOf, MountedList
<1>1. r = IF i # SIZE_MAX /\ "list_node" \in oom THEN WithValue(f, SIZE_MAX) ELSE a
  BY DEF create_mounted_list_entry
<1>2. Grows(v, a.vfs) /\ Grows(a.vfs, f)
  BY <1>0, StructuresGrow
<1>3. "met" \in DOMAIN v
  BY DEF VfsState
<1>4. "met" \in DOMAIN a.vfs /\ v.met \subseteq a.vfs.met /\ "met" \in DOMAIN f /\ a.vfs.met \subseteq f.met
  BY <1>2, <1>3 DEF Grows
<1>5. a.vfs.met \cap MapCalls = {} =>
        \/ i = SIZE_MAX /\ a.vfs = v
        \/ /\ i \in Id("lists") \ v.used["lists"] /\ i \notin DOMAIN v["lists"]
           /\ a.vfs = Allocated(v, "lists", i, <<>>)
  BY <1>0, AllocStructure
<1> HIDE DEF a, i, r
<1>6. CASE ~(i # SIZE_MAX /\ "list_node" \in oom)
  <2>1. r = a /\ r.vfs = a.vfs /\ r.value = i
    BY <1>1, <1>6 DEF i
  <2>2. SameTables(v, v)
    BY DEF SameTables
  <2> QED
    BY <1>2, <1>5, <2>1, <2>2 DEF r
<1>7. CASE i # SIZE_MAX /\ "list_node" \in oom
  <2>1. r.vfs = f /\ r.value = SIZE_MAX
    BY <1>1, <1>7 DEF WithValue
  <2>2. Grows(v, f)
    BY <1>4 DEF Grows
  <2>3. ASSUME f.met \cap MapCalls = {}
        PROVE  /\ f \in VfsState /\ SameTables(v, f) /\ f.locked \subseteq v.locked /\ f.storage = v.storage
               /\ f.transferred = v.transferred /\ f.replies = v.replies
    <3>1. /\ i \in Id("lists") \ v.used["lists"] /\ i \notin DOMAIN v["lists"]
          /\ a.vfs = Allocated(v, "lists", i, <<>>)
      BY <1>4, <1>5, <1>7, <2>3
    <3> DEFINE A == Allocated(v, "lists", i, <<>>)
    <3>2. /\ A \in VfsState /\ A.used = [v.used EXCEPT !["lists"] = @ \cup {i}]
          /\ A["lists"] = Put(v["lists"], i, <<>>)
          /\ \A g \in VfsFields \ {"used"} : g # "lists" => A[g] = v[g]
      BY <1>0, <3>1, AllocatedState
    <3> HIDE DEF A
    <3>3. i \in DOMAIN A["lists"]
      BY <3>2 DEF Put
    <3>4. f = free_structure(A, "lists", i)
      BY <3>1 DEF A
    <3> HIDE DEF f
    <3>5. /\ f \in VfsState /\ f["lists"] = Drop(A["lists"], i)
          /\ f.used = [A.used EXCEPT !["lists"] = @ \ {i}]
          /\ f.locked = A.locked \ {<<"lists", i>>}
          /\ \A g \in VfsFields \ {"used", "locked"} : g # "lists" => f[g] = A[g]
      BY <1>0, <3>2, <3>3, <3>4, FreeStructure
    <3>6. v["lists"] \in Table(Id("lists"), MountedList)
      BY DEF VfsState
    <3>7. f.lists = v.lists
      BY <3>1, <3>2, <3>5, <3>6, DropPut
    <3>8. f.used = v.used
      <4>1. v.used \in [Kind -> SUBSET Nat]
        BY DEF VfsState
      <4>2. \A k \in Kind : f.used[k] = v.used[k]
        BY <1>0, <3>1, <3>2, <3>5, <4>1
      <4>3. f.used = [k \in Kind |-> f.used[k]] /\ v.used = [k \in Kind |-> v.used[k]]
        BY <3>2, <3>5, <4>1
      <4> QED
        BY <4>2, <4>3
    <3>9. /\ f.processes = A.processes /\ f.namespaces = A.namespaces /\ f.mount_points = A.mount_points
          /\ f.infos = A.infos /\ f.fds = A.fds /\ f.storage = A.storage /\ f.transferred = A.transferred
          /\ f.replies = A.replies
      BY <3>5 DEF VfsFields
    <3>10. /\ A.processes = v.processes /\ A.namespaces = v.namespaces /\ A.mount_points = v.mount_points
           /\ A.infos = v.infos /\ A.fds = v.fds /\ A.storage = v.storage /\ A.transferred = v.transferred
           /\ A.replies = v.replies /\ A.locked = v.locked
      BY <3>2 DEF VfsFields
    <3> QED
      BY <3>5, <3>7, <3>8, <3>9, <3>10 DEF SameTables
  <2> QED
    BY <2>1, <2>2, <2>3 DEF r
<1> QED
  BY <1>6, <1>7

(* A list with one entry is there, and the entry's descriptor has left the *)
(* thread's storage.                                                       *)
ListAdded(v, w, i, entry) ==
  /\ w \in VfsState /\ i \in Id("lists") \ v.used["lists"] /\ i \notin DOMAIN v.lists
  /\ w.used = [v.used EXCEPT !["lists"] = @ \cup {i}] /\ w.lists = Put(v.lists, i, <<entry>>)
  /\ w.processes = v.processes /\ w.namespaces = v.namespaces /\ w.mount_points = v.mount_points
  /\ w.infos = v.infos /\ w.fds = v.fds
  /\ w.locked = v.locked /\ w.storage \subseteq v.storage /\ w.transferred = v.transferred
  /\ w.replies = v.replies /\ w.met = v.met

(* mounted_list_insert, into a new list.                                   *)
LEMMA InsertList ==
  ASSUME NEW v \in VfsState, NEW i \in Id("lists") \ v.used["lists"], i \notin DOMAIN v.lists,
         NEW create \in BOOLEAN
  PROVE  ListAdded(v, mounted_list_insert(Allocated(v, "lists", i, <<>>), i, create), i, [create |-> create])
<1> DEFINE A == Allocated(v, "lists", i, <<>>)
           entry == [create |-> create]
           t == Put(v.lists, i, <<entry>>)
           T == WithTable(A, "lists", t)
           s == A.storage \ {1}
           w == mounted_list_insert(A, i, create)
<1>0. /\ "lists" \in Kind /\ StructOf("lists") = MountedList /\ <<>> \in MountedList
      /\ <<entry>> \in MountedList /\ i \in Id("lists")
  BY DEF Kind, StructOf, MountedList
<1>1. /\ A \in VfsState /\ A.used = [v.used EXCEPT !["lists"] = @ \cup {i}]
      /\ A["lists"] = Put(v["lists"], i, <<>>)
      /\ \A g \in VfsFields \ {"used"} : g # "lists" => A[g] = v[g]
  BY <1>0, AllocatedState
<1>2. v.lists \in Table(Id("lists"), MountedList)
  BY DEF VfsState
<1> HIDE DEF A
<1>3. t \in Table(Id("lists"), StructOf("lists"))
  <2> HIDE DEF entry
  <2> QED
    BY <1>0, <1>2, PutTable
<1>4. [A.lists EXCEPT ![i] = Append(@, entry)] = t
  <2> DEFINE e == <<entry>>
  <2>1. Append(<<>>, entry) = e
    OBVIOUS
  <2> HIDE DEF e, entry
  <2>2. A.lists[i] = <<>> /\ DOMAIN A.lists = DOMAIN v.lists \cup {i} /\ i \in DOMAIN A.lists
    BY <1>1 DEF Put
  <2>3. \A j \in DOMAIN v.lists : j # i => A.lists[j] = v.lists[j]
    BY <1>1 DEF Put
  <2>4. [A.lists EXCEPT ![i] = Append(@, entry)] = [j \in DOMAIN v.lists \cup {i} |-> IF j = i THEN e ELSE v.lists[j]]
    BY <1>1, <2>1, <2>2, <2>3
  <2> QED
    BY <2>4 DEF Put, e
<1>5. s \in SUBSET Nat /\ s \subseteq A.storage
  BY <1>1 DEF VfsState
<1>6. w = WithStorage(T, s)
  <2>1. w = [A EXCEPT !.lists[i] = Append(@, entry), !.storage = @ \ {1}]
    BY DEF mounted_list_insert
  <2>2. w = [A EXCEPT !.lists = [A.lists EXCEPT ![i] = Append(@, entry)], !.storage = s]
    BY <1>1, <2>1 DEF VfsState
  <2>3. w = [A EXCEPT !.lists = t, !.storage = s]
    BY <1>4, <2>2
  <2> HIDE DEF w, t, s
  <2> QED
    BY <1>1, <2>3 DEF WithStorage, WithTable, VfsState
<1> HIDE DEF t, s, w
<1>7. T \in VfsState /\ T["lists"] = t /\ \A g \in VfsFields : g # "lists" => T[g] = A[g]
  BY <1>0, <1>1, <1>3, TableState
<1> HIDE DEF T
<1>8. w \in VfsState /\ w.storage = s /\ \A g \in VfsFields : g # "storage" => w[g] = T[g]
  BY <1>5, <1>6, <1>7, StorageState
<1>9. /\ w.lists = t /\ w.used = T.used /\ w.processes = T.processes /\ w.namespaces = T.namespaces
      /\ w.mount_points = T.mount_points /\ w.infos = T.infos /\ w.fds = T.fds /\ w.locked = T.locked
      /\ w.transferred = T.transferred /\ w.replies = T.replies /\ w.met = T.met
  BY <1>7, <1>8 DEF VfsFields
<1>10. /\ T.used = A.used /\ T.processes = A.processes /\ T.namespaces = A.namespaces
       /\ T.mount_points = A.mount_points /\ T.infos = A.infos /\ T.fds = A.fds /\ T.locked = A.locked
       /\ T.transferred = A.transferred /\ T.replies = A.replies /\ T.met = A.met
  BY <1>7 DEF VfsFields
<1>11. /\ A.processes = v.processes /\ A.namespaces = v.namespaces
       /\ A.mount_points = v.mount_points /\ A.infos = v.infos /\ A.fds = v.fds /\ A.locked = v.locked
       /\ A.transferred = v.transferred /\ A.replies = v.replies /\ A.met = v.met /\ A.storage = v.storage
  BY <1>1 DEF VfsFields
<1>12. w.storage \subseteq v.storage
  BY <1>5, <1>8, <1>11
<1>13. w.lists = Put(v.lists, i, <<entry>>)
  BY <1>9 DEF t
<1> HIDE DEF entry
<1>14. ListAdded(v, w, i, entry)
  BY <1>1, <1>8, <1>9, <1>10, <1>11, <1>12, <1>13 DEF ListAdded
<1> QED
  BY <1>14 DEF w, A, entry

(* A mount point m is there, as the root or at the front of a bucket.      *)
AsRoot(v, w, n, m, mp) ==
  /\ v.namespaces[n].root = SIZE_MAX
  /\ w.namespaces = [v.namespaces EXCEPT ![n] = [v.namespaces[n] EXCEPT !.root = m]]
  /\ w.mount_points = Put(v.mount_points, m, mp)
InFront(v, w, n, m, mp) ==
  LET b == hash[mp.inode]
      first == v.namespaces[n].buckets[b]
  IN  /\ v.namespaces[n].root # SIZE_MAX
      /\ w.namespaces = [v.namespaces EXCEPT ![n] =
                           [v.namespaces[n] EXCEPT !.buckets = [v.namespaces[n].buckets EXCEPT ![b] = m]]]
      /\ DOMAIN w.mount_points = DOMAIN v.mount_points \cup {m}
      /\ w.mount_points[m] = [mp EXCEPT !.next = first]
      /\ \A j \in DOMAIN v.mount_points :
           w.mount_points[j] = IF j = first THEN [v.mount_points[j] EXCEPT !.previous = m]
                               ELSE v.mount_points[j]
MountAdded(v, w, n, m, mp) ==
  /\ w \in VfsState /\ m \in Id("mount_points") \ v.used["mount_points"] /\ m \notin DOMAIN v.mount_points
  /\ w.used = [v.used EXCEPT !["mount_points"] = @ \cup {m}]
  /\ w.processes = v.processes /\ w.lists = v.lists /\ w.infos = v.infos /\ w.fds = v.fds
  /\ w.locked = v.locked /\ w.storage = v.storage /\ w.transferred = v.transferred
  /\ w.replies = v.replies
  /\ AsRoot(v, w, n, m, mp) \/ InFront(v, w, n, m, mp)

(* add_mount_point_to_namespace does that, or nothing.                     *)
LEMMA AddMount ==
  ASSUME NEW v \in VfsState, PointersInv(v), NEW n \in DOMAIN v.namespaces, NEW mp \in MountPoint, NEW oom
  PROVE  LET r == add_mount_point_to_namespace(v, n, mp, oom)
         IN  /\ Grows(v, r.vfs)
             /\ r.vfs.met \cap MapCalls = {} =>
                  \/ r.value = "ENOMEM" /\ r.vfs = v
                  \/ r.value = "ok" /\ \E m \in Id("mount_points") : MountAdded(v, r.vfs, n, m, mp)
<1> DEFINE b == hash[mp.inode]
           old == v.namespaces[n]
           first == old.buckets[b]
           asRoot == old.root = SIZE_MAX
           x == IF asRoot THEN mp ELSE [mp EXCEPT !.next = first]
           a == alloc_structure(v, "mount_points", x, oom)
           m == a.value
           R == [a.vfs EXCEPT !.namespaces[n].root = m]
           B == [a.vfs EXCEPT !.namespaces[n].buckets[b] = m,
                              !.mount_points = [i \in DOMAIN @ |->
                                 IF i = first THEN [@[i] EXCEPT !.previous = m] ELSE @[i]]]
           r == add_mount_point_to_namespace(v, n, mp, oom)
<1>0. /\ {"mount_points", "namespaces"} \subseteq Kind /\ StructOf("mount_points") = MountPoint
      /\ StructOf("namespaces") = Namespace
  BY DEF Kind, StructOf
<1>1. /\ v.namespaces \in Table(Id("namespaces"), Namespace)
      /\ v.mount_points \in Table(Id("mount_points"), MountPoint)
  BY DEF VfsState
<1>2. old \in Namespace /\ b \in Bucket
  <2>1. mp.inode \in Inode
    BY DEF MountPoint
  <2> QED
    BY <1>1, <2>1, IsTable, VfsAssumption
<1>3. first \in Optional(DOMAIN v.mount_points) /\ first \in Optional(Id("mount_points"))
  BY <1>2 DEF PointersInv, Optional, Inner, Namespace
<1>4. x \in MountPoint
  BY <1>3 DEF MountPoint
<1>5. r = IF m = SIZE_MAX THEN WithValue(a.vfs, "ENOMEM")
          ELSE IF asRoot THEN WithValue(R, "ok") ELSE WithValue(B, "ok")
  BY DEF add_mount_point_to_namespace
<1>6. Grows(v, a.vfs)
  BY <1>0, StructuresGrow
<1>7. Grows(a.vfs, R) /\ Grows(a.vfs, B)
  BY DEF Grows
<1>8. Grows(a.vfs, r.vfs) /\ Grows(v, r.vfs)
  <2> HIDE DEF a, R, B, asRoot, m, r
  <2>1. r.vfs \in {a.vfs, R, B}
    BY <1>5 DEF WithValue
  <2>2. Grows(a.vfs, r.vfs)
    BY <1>7, <2>1 DEF Grows
  <2> QED
    BY <1>6, <2>2 DEF Grows
<1> SUFFICES ASSUME r.vfs.met \cap MapCalls = {}
             PROVE  \/ r.value = "ENOMEM" /\ r.vfs = v
                    \/ r.value = "ok" /\ \E k \in Id("mount_points") : MountAdded(v, r.vfs, n, k, mp)
  BY <1>8
<1>9. a.vfs.met \cap MapCalls = {}
  <2>1. "met" \in DOMAIN v
    BY DEF VfsState
  <2>2. a.vfs.met \subseteq r.vfs.met
    BY <1>6, <1>8, <2>1 DEF Grows
  <2> QED
    BY <2>2
<1> HIDE DEF x, r
<1>10. \/ m = SIZE_MAX /\ a.vfs = v
       \/ /\ m \in Id("mount_points") \ v.used["mount_points"] /\ m \notin DOMAIN v["mount_points"]
          /\ a.vfs = Allocated(v, "mount_points", m, x)
  BY <1>0, <1>9, AllocStructure
<1>11. CASE m = SIZE_MAX /\ a.vfs = v
  BY <1>5, <1>11 DEF WithValue
<1>12. CASE /\ m \in Id("mount_points") \ v.used["mount_points"] /\ m \notin DOMAIN v["mount_points"]
            /\ a.vfs = Allocated(v, "mount_points", m, x)
  <2> DEFINE A == Allocated(v, "mount_points", m, x)
  <2>1. m # SIZE_MAX /\ m \in Id("mount_points") /\ "mount_points" \in Kind /\ "namespaces" \in Kind
    BY <1>0, <1>12, SlotNumbers
  <2> HIDE DEF m
  <2>2. /\ A \in VfsState /\ A.used = [v.used EXCEPT !["mount_points"] = @ \cup {m}]
        /\ A["mount_points"] = Put(v["mount_points"], m, x)
        /\ \A g \in VfsFields \ {"used"} : g # "mount_points" => A[g] = v[g]
    BY <1>0, <1>4, <2>1, AllocatedState
  <2>3. a.vfs = A
    BY <1>12
  <2> HIDE DEF A
  <2>4. /\ A.processes = v.processes /\ A.namespaces = v.namespaces /\ A.lists = v.lists
        /\ A.infos = v.infos /\ A.fds = v.fds /\ A.locked = v.locked /\ A.storage = v.storage
        /\ A.transferred = v.transferred /\ A.replies = v.replies
    BY <2>2 DEF VfsFields
  <2>5. CASE asRoot
    <3> DEFINE t == [v.namespaces EXCEPT ![n] = [old EXCEPT !.root = m]]
               w == WithTable(A, "namespaces", t)
    <3>1. [old EXCEPT !.root = m] \in Namespace
      BY <1>2, <2>1 DEF Namespace, Optional
    <3>2. t \in Table(Id("namespaces"), StructOf("namespaces"))
      BY <1>0, <1>1, <3>1, ChangeTable
    <3>3. r.vfs = R /\ r.value = "ok"
      BY <1>5, <2>1, <2>5 DEF WithValue
    <3>4. R = w
      <4>1. R = [A EXCEPT !.namespaces[n].root = m]
        BY <2>3
      <4>2. [A EXCEPT !.namespaces[n].root = m] = [A EXCEPT !.namespaces = [A.namespaces EXCEPT ![n] = [A.namespaces[n] EXCEPT !.root = m]]]
        BY <2>2 DEF VfsState
      <4>3. [A.namespaces EXCEPT ![n] = [A.namespaces[n] EXCEPT !.root = m]] = t
        BY <2>4
      <4> HIDE DEF R, t
      <4> QED
        BY <4>1, <4>2, <4>3 DEF WithTable
    <3> HIDE DEF t, R
    <3>5. w \in VfsState /\ w["namespaces"] = t /\ \A g \in VfsFields : g # "namespaces" => w[g] = A[g]
      BY <2>1, <2>2, <3>2, TableState
    <3> HIDE DEF w
    <3>6. /\ w.used = A.used /\ w.processes = A.processes /\ w.mount_points = A.mount_points
          /\ w.lists = A.lists /\ w.infos = A.infos /\ w.fds = A.fds /\ w.locked = A.locked
          /\ w.storage = A.storage /\ w.transferred = A.transferred /\ w.replies = A.replies
      BY <3>5 DEF VfsFields
    <3>7. x = mp
      BY <2>5 DEF x
    <3>8. AsRoot(v, w, n, m, mp)
      BY <2>2, <2>5, <3>5, <3>6, <3>7 DEF AsRoot, t
    <3>9. MountAdded(v, w, n, m, mp)
      BY <1>12, <2>2, <2>4, <3>5, <3>6, <3>8 DEF MountAdded
    <3> QED
      BY <2>1, <3>3, <3>4, <3>9
  <2>6. CASE ~asRoot
    <3> DEFINE new == [old EXCEPT !.buckets = [old.buckets EXCEPT ![b] = m]]
               t == [v.namespaces EXCEPT ![n] = new]
               q == A.mount_points
               p == [i \in DOMAIN q |-> IF i = first THEN [q[i] EXCEPT !.previous = m] ELSE q[i]]
               u == WithTable(A, "namespaces", t)
               w == WithTable(u, "mount_points", p)
    <3>1. new \in Namespace
      BY <1>2, <2>1 DEF Namespace, Optional
    <3>2. t \in Table(Id("namespaces"), StructOf("namespaces"))
      <4> HIDE DEF new, old
      <4> QED
        BY <1>0, <1>1, <3>1, ChangeTable
    <3>3. r.vfs = B /\ r.value = "ok"
      BY <1>5, <2>1, <2>6 DEF WithValue
    <3>4. B = w
      <4>1. B = [A EXCEPT !.namespaces[n].buckets[b] = m,
                          !.mount_points = [i \in DOMAIN @ |->
                             IF i = first THEN [@[i] EXCEPT !.previous = m] ELSE @[i]]]
        BY <2>3
      <4>2. B = [A EXCEPT !.namespaces = [A.namespaces EXCEPT ![n] = [A.namespaces[n] EXCEPT !.buckets =
                             [A.namespaces[n].buckets EXCEPT ![b] = m]]], !.mount_points = p]
        BY <2>2, <4>1 DEF VfsState
      <4>3. [A.namespaces EXCEPT ![n] = [A.namespaces[n] EXCEPT !.buckets =
                             [A.namespaces[n].buckets EXCEPT ![b] = m]]] = t
        BY <2>4
      <4> HIDE DEF B, t, p
      <4>4. B = [A EXCEPT !.namespaces = t, !.mount_points = p]
        BY <4>2, <4>3
      <4> QED
        BY <2>2, <4>4 DEF WithTable, VfsState
    <3>5. /\ DOMAIN q = DOMAIN v.mount_points \cup {m} /\ q[m] = x
          /\ \A j \in DOMAIN v.mount_points : q[j] = v.mount_points[j]
      BY <1>12, <2>2 DEF Put
    <3>6. q \in Table(Id("mount_points"), MountPoint)
      BY <2>2 DEF VfsState
    <3>7. p \in Table(Id("mount_points"), StructOf("mount_points"))
      <4>1. DOMAIN q \subseteq Id("mount_points") /\ \A i \in DOMAIN q : q[i] \in MountPoint
        BY <3>6, IsTable
      <4>2. \A i \in DOMAIN p : p[i] \in MountPoint
        BY <2>1, <4>1 DEF MountPoint, Optional
      <4>3. p = [i \in DOMAIN p |-> p[i]] /\ DOMAIN p = DOMAIN q
        OBVIOUS
      <4> HIDE DEF p
      <4> QED
        BY <1>0, <4>1, <4>2, <4>3, IsTable
    <3>8. first # m
      BY <1>3, <1>12, <2>1 DEF Optional
    <3>9. /\ DOMAIN p = DOMAIN v.mount_points \cup {m} /\ p[m] = x
          /\ \A j \in DOMAIN v.mount_points :
               p[j] = IF j = first THEN [v.mount_points[j] EXCEPT !.previous = m] ELSE v.mount_points[j]
      BY <3>5, <3>8
    <3> HIDE DEF t, B, p
    <3>10. u \in VfsState /\ u["namespaces"] = t /\ \A g \in VfsFields : g # "namespaces" => u[g] = A[g]
      BY <2>1, <2>2, <3>2, TableState
    <3> HIDE DEF u
    <3>11. w \in VfsState /\ w["mount_points"] = p /\ \A g \in VfsFields : g # "mount_points" => w[g] = u[g]
      BY <2>1, <3>7, <3>10, TableState
    <3> HIDE DEF w
    <3>12. /\ u.used = A.used /\ u.processes = A.processes
           /\ u.lists = A.lists /\ u.infos = A.infos /\ u.fds = A.fds /\ u.locked = A.locked
           /\ u.storage = A.storage /\ u.transferred = A.transferred /\ u.replies = A.replies
      BY <3>10 DEF VfsFields
    <3>13. /\ w.used = u.used /\ w.processes = u.processes /\ w.namespaces = u.namespaces
           /\ w.lists = u.lists /\ w.infos = u.infos /\ w.fds = u.fds /\ w.locked = u.locked
           /\ w.storage = u.storage /\ w.transferred = u.transferred /\ w.replies = u.replies
      BY <3>11 DEF VfsFields
    <3>14. x = [mp EXCEPT !.next = first]
      BY <2>6 DEF x
    <3>15. w.mount_points = p /\ w.namespaces = t
      BY <3>10, <3>11, <3>13
    <3>16. InFront(v, w, n, m, mp)
      BY <2>6, <3>9, <3>14, <3>15 DEF InFront, t
    <3>17. MountAdded(v, w, n, m, mp)
      BY <1>12, <2>2, <2>4, <3>11, <3>12, <3>13, <3>16 DEF MountAdded
    <3> QED
      BY <2>1, <3>3, <3>4, <3>17
  <2> QED
    BY <2>5, <2>6
<1> QED
  BY <1>10, <1>11, <1>12

(* What buckets lead to.                                                   *)
LEMMA InBuckets ==
  ASSUME NEW v \in VfsState, PointersInv(v)
  PROVE  /\ DOMAIN v.mount_points \subseteq Id("mount_points") /\ SIZE_MAX \notin Id("mount_points")
         /\ \A f \in Optional(Inner(v)) : Reached(v, f) \subseteq Inner(v)
         /\ \A n \in DOMAIN v.namespaces, b \in Bucket : BucketOf(v, n, b) \subseteq Inner(v)
         /\ \A n \in DOMAIN v.namespaces : MountsOf(v, n) \subseteq DOMAIN v.mount_points
         /\ \A f : \A m \in Reached(v, f) \cap DOMAIN v.mount_points :
              v.mount_points[m].next \in Reached(v, f) \cup {SIZE_MAX}
<1>1. v.mount_points \in Table(Id("mount_points"), MountPoint) /\ "mount_points" \in Kind
  BY DEF VfsState, Kind
<1>2. DOMAIN v.mount_points \subseteq Id("mount_points") /\ SIZE_MAX \notin Id("mount_points")
  BY <1>1, IsTable, SlotNumbers
<1>3. Inner(v) \in SUBSET Id("mount_points") /\ IsClosed(v, Inner(v))
  <2>1. Inner(v) \subseteq DOMAIN v.mount_points
    BY DEF Inner
  <2>2. \A m \in DOMAIN v.mount_points : v.mount_points[m].next \in Optional(Inner(v))
    BY DEF PointersInv
  <2> QED
    BY <1>2, <2>1, <2>2 DEF IsClosed, Optional
<1>4. \A f \in Optional(Inner(v)) : Reached(v, f) \subseteq Inner(v)
  <2> TAKE f \in Optional(Inner(v))
  <2>1. f \in Inner(v) \cup {SIZE_MAX}
    BY DEF Optional
  <2> QED
    BY <1>3, <2>1, ReachedFacts
<1>5. \A n \in DOMAIN v.namespaces, b \in Bucket : BucketOf(v, n, b) \subseteq Inner(v)
  BY <1>4 DEF PointersInv, BucketOf
<1>6. \A n \in DOMAIN v.namespaces : MountsOf(v, n) \subseteq DOMAIN v.mount_points
  <2> TAKE n \in DOMAIN v.namespaces
  <2>1. v.namespaces[n].root \in DOMAIN v.mount_points \cup {SIZE_MAX}
    BY DEF PointersInv, Optional
  <2>2. Inner(v) \subseteq DOMAIN v.mount_points
    BY DEF Inner
  <2>3. \A b \in Bucket : BucketOf(v, n, b) \subseteq DOMAIN v.mount_points
    BY <1>5, <2>2
  <2>4. UNION {BucketOf(v, n, b) : b \in Bucket} \subseteq DOMAIN v.mount_points
    BY <2>3
  <2>5. {v.namespaces[n].root} \ {SIZE_MAX} \subseteq DOMAIN v.mount_points
    BY <2>1
  <2> QED
    BY <2>4, <2>5 DEF MountsOf
<1>7. \A f : \A m \in Reached(v, f) \cap DOMAIN v.mount_points :
        v.mount_points[m].next \in Reached(v, f) \cup {SIZE_MAX}
  <2> TAKE f
  <2> TAKE m \in Reached(v, f) \cap DOMAIN v.mount_points
  <2> DEFINE x == v.mount_points[m].next
  <2>1. x \in Id("mount_points") \cup {SIZE_MAX}
    BY <1>2 DEF PointersInv, Optional, Inner
  <2>2. ASSUME NEW S \in SUBSET Id("mount_points"), f \in S \cup {SIZE_MAX}, IsClosed(v, S)
        PROVE  x \in S \cup {SIZE_MAX}
    <3>1. m \in S
      BY <2>2 DEF Reached
    <3> QED
      BY <2>2, <3>1 DEF IsClosed
  <2> HIDE DEF x
  <2>3. x # SIZE_MAX => x \in Reached(v, f)
    BY <2>1, <2>2 DEF Reached
  <2> QED
    BY <2>3 DEF x
<1> QED
  BY <1>2, <1>4, <1>5, <1>6, <1>7

(* A mount point outside of the buckets leads nowhere.                     *)
LEMMA ReachedApart ==
  ASSUME NEW v, NEW w, NEW m, NEW mp, m \notin DOMAIN v.mount_points, mp.next = SIZE_MAX,
         w.mount_points = Put(v.mount_points, m, mp), NEW f
  PROVE  Reached(w, f) = Reached(v, f)
<1>1. /\ DOMAIN w.mount_points = DOMAIN v.mount_points \cup {m} /\ w.mount_points[m] = mp
      /\ \A j \in DOMAIN v.mount_points : w.mount_points[j] = v.mount_points[j]
  BY DEF Put
<1>2. ASSUME NEW S PROVE IsClosed(w, S) <=> IsClosed(v, S)
  BY <1>1 DEF IsClosed
<1> QED
  BY <1>2 DEF Reached

(* A mount point in front of a bucket leads to it, and others do not lead  *)
(* to that mount point.                                                    *)
LEMMA ReachedInFront ==
  ASSUME NEW v \in VfsState, PointersInv(v), NEW w, NEW m \in Id("mount_points"), m \notin DOMAIN v.mount_points,
         NEW first \in Optional(Inner(v)), DOMAIN w.mount_points = DOMAIN v.mount_points \cup {m},
         w.mount_points[m].next = first,
         \A j \in DOMAIN v.mount_points : w.mount_points[j].next = v.mount_points[j].next
  PROVE  /\ Reached(w, m) = {m} \cup Reached(v, first)
         /\ \A f \in Optional(Inner(v)) : Reached(w, f) = Reached(v, f)
<1>1. /\ DOMAIN v.mount_points \subseteq Id("mount_points") /\ SIZE_MAX \notin Id("mount_points")
      /\ \A f \in Optional(Inner(v)) : Reached(v, f) \subseteq Inner(v)
      /\ \A f : \A j \in Reached(v, f) \cap DOMAIN v.mount_points :
           v.mount_points[j].next \in Reached(v, f) \cup {SIZE_MAX}
  BY InBuckets
<1>2. Inner(v) \subseteq DOMAIN v.mount_points
  BY DEF Inner
<1>3. ASSUME NEW S, IsClosed(w, S) PROVE IsClosed(v, S) /\ (m \in S => first \in S \cup {SIZE_MAX})
  BY <1>3 DEF IsClosed
<1>4. \A f \in Optional(Inner(v)) : Reached(w, f) = Reached(v, f)
  <2> TAKE f \in Optional(Inner(v))
  <2>1. ASSUME NEW S \in SUBSET Id("mount_points"), f \in S \cup {SIZE_MAX}, IsClosed(v, S)
        PROVE  Reached(w, f) \subseteq S
    <3> DEFINE T == S \cap DOMAIN v.mount_points
    <3>1. T \in SUBSET Id("mount_points") /\ f \in T \cup {SIZE_MAX}
      BY <1>2, <2>1 DEF Optional
    <3>2. IsClosed(w, T)
      <4> SUFFICES ASSUME NEW j \in T PROVE w.mount_points[j].next \in T \cup {SIZE_MAX}
        BY DEF IsClosed
      <4>1. v.mount_points[j].next \in S \cup {SIZE_MAX} /\ v.mount_points[j].next \in Optional(Inner(v))
        BY <2>1 DEF IsClosed, PointersInv
      <4> QED
        BY <1>2, <4>1 DEF Optional
    <3> HIDE DEF T
    <3>3. Reached(w, f) \subseteq T
      BY <3>1, <3>2, ReachedFacts
    <3> QED
      BY <3>3 DEF T
  <2>2. Reached(w, f) \subseteq Reached(v, f)
    <3>1. Reached(w, f) \subseteq Id("mount_points")
      BY ReachedFacts
    <3> QED
      BY <2>1, <3>1 DEF Reached
  <2>3. Reached(v, f) \subseteq Reached(w, f)
    BY <1>3 DEF Reached
  <2> QED
    BY <2>2, <2>3
<1>5. {m} \cup Reached(v, first) \subseteq Reached(w, m)
  <2> SUFFICES ASSUME NEW S \in SUBSET Id("mount_points"), m \in S \cup {SIZE_MAX}, IsClosed(w, S)
               PROVE  {m} \cup Reached(v, first) \subseteq S
    <3>1. Reached(v, first) \subseteq Id("mount_points")
      BY ReachedFacts
    <3> QED
      BY <3>1 DEF Reached
  <2>1. m \in S
    BY <1>1
  <2>2. first \in S \cup {SIZE_MAX} /\ IsClosed(v, S)
    BY <1>3, <2>1
  <2>3. Reached(v, first) \subseteq S
    BY <2>2, ReachedFacts
  <2> QED
    BY <2>1, <2>3
<1>6. Reached(w, m) \subseteq {m} \cup Reached(v, first)
  <2> DEFINE T == {m} \cup Reached(v, first)
  <2>1. T \in SUBSET Id("mount_points") /\ m \in T \cup {SIZE_MAX}
    BY ReachedFacts
  <2>2. first \in T \cup {SIZE_MAX}
    <3>1. first = SIZE_MAX \/ first \in Id("mount_points")
      BY <1>1, <1>2 DEF Optional
    <3> QED
      BY <3>1, ReachedFacts
  <2>3. \A j \in Reached(v, first) : w.mount_points[j].next \in T \cup {SIZE_MAX}
    BY <1>1, <1>2
  <2>4. IsClosed(w, T)
    BY <2>2, <2>3 DEF IsClosed
  <2> HIDE DEF T
  <2>5. Reached(w, m) \subseteq T
    BY <2>1, <2>4, ReachedFacts
  <2> QED
    BY <2>5 DEF T
<1> QED
  BY <1>4, <1>5, <1>6

(* A new list disturbs nothing.                                            *)
LEMMA ListAddedInv ==
  ASSUME NEW v, TablesInv(v), NEW w, NEW i, NEW entry, ListAdded(v, w, i, entry)
  PROVE  TablesInv(w) /\ Frozen(v, w) /\ \A k \in Kind : MarkedEmpty(w, k) \subseteq MarkedEmpty(v, k)
<1>0. v \in VfsState /\ w \in VfsState /\ "lists" \in Kind /\ v.used \in [Kind -> SUBSET Nat] /\ i \in Id("lists")
  BY DEF TablesInv, VfsState, Kind, ListAdded
<1>1. /\ w.processes = v.processes /\ w.namespaces = v.namespaces /\ w.mount_points = v.mount_points
      /\ w.infos = v.infos /\ w.fds = v.fds /\ i \notin DOMAIN v.lists
      /\ w.used = [v.used EXCEPT !["lists"] = @ \cup {i}] /\ w.lists = Put(v.lists, i, <<entry>>)
  BY DEF ListAdded
<1>2. DOMAIN w.lists = DOMAIN v.lists \cup {i} /\ \A l \in DOMAIN v.lists : w.lists[l] = v.lists[l]
  BY <1>1 DEF Put
<1>3. PointersInv(w) /\ BucketsInv(w)
  <2>1. w.namespaces = v.namespaces /\ w.mount_points = v.mount_points
    BY <1>1
  <2> QED
    BY <2>1, MountsKept
<1>4. NamespacesInv(w) /\ InfosInv(w)
  <2>1. \A o : Users(w, o) = Users(v, o)
    BY <1>1 DEF Users
  <2>2. NamespacesInv(v) /\ InfosInv(v)
    BY DEF TablesInv
  <2>3. w.processes = v.processes /\ w.namespaces = v.namespaces /\ w.infos = v.infos /\ w.fds = v.fds
    BY <1>1
  <2>4. NamespacesInv(w)
    BY <2>1, <2>2, <2>3 DEF NamespacesInv
  <2>5. InfosInv(w)
    BY <2>1, <2>2, <2>3 DEF InfosInv
  <2> QED
    BY <2>4, <2>5
<1>5. ListsInv(w)
  BY <1>1, <1>2 DEF TablesInv, ListsInv
<1>6. \A k \in Kind : w.used[k] = IF k = "lists" THEN v.used[k] \cup {i} ELSE v.used[k]
  BY <1>0, <1>1
<1>7. \A k \in Kind : DOMAIN w[k] = IF k = "lists" THEN DOMAIN v[k] \cup {i} ELSE DOMAIN v[k]
  BY <1>1, <1>2 DEF Kind
<1>8. MapsInv(w)
  <2>1. MapsInv(v)
    BY DEF TablesInv
  <2>2. w.used["infos"] = v.used["infos"]
    BY <1>6 DEF Kind
  <2> QED
    BY <1>0, <1>1, <1>6, <1>7, <2>1, <2>2 DEF MapsInv
<1>9. Frozen(v, w)
  BY <1>1 DEF Frozen, Users, MountsIn
<1>10. \A k \in Kind : MarkedEmpty(w, k) \subseteq MarkedEmpty(v, k)
  BY <1>1, <1>6, <1>7 DEF MarkedEmpty
<1> QED
  BY <1>0, <1>3, <1>4, <1>5, <1>8, <1>9, <1>10 DEF TablesInv

(* What a new mount point is.                                              *)
NewMount(v, n, mp) ==
  /\ mp \in MountPoint /\ mp.previous = SIZE_MAX /\ mp.next = SIZE_MAX
  /\ mp.enclosing = v.namespaces[n].root
  /\ mp.list \in DOMAIN v.lists /\ Len(v.lists[mp.list]) = 1
  /\ \A k \in DOMAIN v.mount_points : v.mount_points[k].list # mp.list

(* The parts of the invariant that do not look at the links.               *)
LEMMA MountAddedRest ==
  ASSUME NEW v, TablesInv(v), NEW w, NEW n \in DOMAIN v.namespaces, NEW m, NEW mp, NewMount(v, n, mp),
         MountAdded(v, w, n, m, mp)
  PROVE  MapsInv(w) /\ NamespacesInv(w) /\ ListsInv(w) /\ InfosInv(w)
<1>0. v \in VfsState /\ w \in VfsState /\ "mount_points" \in Kind /\ v.used \in [Kind -> SUBSET Nat]
  BY DEF TablesInv, VfsState, Kind, MountAdded
<1>1. /\ w.processes = v.processes /\ w.lists = v.lists /\ w.infos = v.infos /\ w.fds = v.fds
      /\ w.used = [v.used EXCEPT !["mount_points"] = @ \cup {m}]
      /\ m \in Id("mount_points") /\ m \notin DOMAIN v.mount_points
  BY DEF MountAdded
<1>2. v.namespaces \in Table(Id("namespaces"), Namespace) /\ v.mount_points \in Table(Id("mount_points"), MountPoint)
  BY <1>0 DEF VfsState
<1>3. v.namespaces[n] \in Namespace /\ \A k \in DOMAIN v.mount_points : v.mount_points[k] \in MountPoint
  BY <1>2, IsTable
<1>4. /\ DOMAIN w.namespaces = DOMAIN v.namespaces
      /\ \A o \in DOMAIN v.namespaces : w.namespaces[o].references = v.namespaces[o].references
      /\ \A o \in DOMAIN v.namespaces :
           w.namespaces[o].root = v.namespaces[o].root \/ v.namespaces[o].root = SIZE_MAX
  BY <1>3 DEF MountAdded, AsRoot, InFront, Namespace
<1>5. /\ DOMAIN w.mount_points = DOMAIN v.mount_points \cup {m}
      /\ w.mount_points[m].list = mp.list
      /\ \A k \in DOMAIN v.mount_points : w.mount_points[k].list = v.mount_points[k].list
  <2>1. CASE AsRoot(v, w, n, m, mp)
    BY <1>1, <2>1 DEF AsRoot, Put
  <2>2. CASE InFront(v, w, n, m, mp)
    BY <1>3, <2>2 DEF InFront, NewMount, MountPoint
  <2> QED
    BY <2>1, <2>2 DEF MountAdded
<1>6. MapsInv(w)
  <2>1. MapsInv(v)
    BY DEF TablesInv
  <2>2. \A k \in Kind : w.used[k] = IF k = "mount_points" THEN v.used[k] \cup {m} ELSE v.used[k]
    BY <1>0, <1>1
  <2>3. \A k \in Kind : DOMAIN w[k] = IF k = "mount_points" THEN DOMAIN v[k] \cup {m} ELSE DOMAIN v[k]
    BY <1>1, <1>4, <1>5 DEF Kind
  <2>4. w.used["infos"] = v.used["infos"]
    BY <2>2 DEF Kind
  <2> QED
    BY <1>1, <2>1, <2>2, <2>3, <2>4 DEF MapsInv
<1>7. NamespacesInv(w)
  <2>1. NamespacesInv(v)
    BY DEF TablesInv
  <2>2. \A o : Users(w, o) = Users(v, o)
    BY <1>1 DEF Users
  <2> QED
    BY <1>1, <1>4, <2>1, <2>2 DEF NamespacesInv
<1>8. ListsInv(w)
  <2>1. ListsInv(v)
    BY DEF TablesInv
  <2>2. \A k \in DOMAIN w.mount_points : /\ w.mount_points[k].list \in DOMAIN w.lists
                                         /\ Len(w.lists[w.mount_points[k].list]) = 1
    BY <1>1, <1>5, <2>1 DEF ListsInv, NewMount
  <2>3. \A k, o \in DOMAIN w.mount_points : w.mount_points[k].list = w.mount_points[o].list => k = o
    BY <1>1, <1>5, <2>1 DEF ListsInv, NewMount
  <2> QED
    BY <2>2, <2>3 DEF ListsInv
<1>9. InfosInv(w)
  <2>1. InfosInv(v)
    BY DEF TablesInv
  <2>2. \A o : Users(w, o) = Users(v, o)
    BY <1>1 DEF Users
  <2> QED
    BY <1>1, <1>4, <2>1, <2>2 DEF InfosInv
<1> QED
  BY <1>6, <1>7, <1>8, <1>9


(* The first mount of a namespace is in no bucket.                         *)
LEMMA RootLinks ==
  ASSUME NEW v, TablesInv(v), NEW w \in VfsState, NEW n \in DOMAIN v.namespaces, NEW m \in Id("mount_points"),
         m \notin DOMAIN v.mount_points, NEW mp, NewMount(v, n, mp), AsRoot(v, w, n, m, mp)
  PROVE  PointersInv(w) /\ BucketsInv(w)
<1>0. v \in VfsState /\ PointersInv(v) /\ BucketsInv(v)
  BY DEF TablesInv
<1>1. v.namespaces \in Table(Id("namespaces"), Namespace)
  BY <1>0 DEF VfsState
<1>2. \A o \in DOMAIN v.namespaces : v.namespaces[o] \in Namespace
  BY <1>1, IsTable
<1>3. /\ DOMAIN w.namespaces = DOMAIN v.namespaces
      /\ \A o \in DOMAIN v.namespaces : w.namespaces[o].buckets = v.namespaces[o].buckets
      /\ \A o \in DOMAIN v.namespaces : w.namespaces[o].root = IF o = n THEN m ELSE v.namespaces[o].root
      /\ v.namespaces[n].root = SIZE_MAX
  BY <1>2 DEF AsRoot, Namespace
<1>4. /\ DOMAIN w.mount_points = DOMAIN v.mount_points \cup {m} /\ w.mount_points[m] = mp
      /\ \A j \in DOMAIN v.mount_points : w.mount_points[j] = v.mount_points[j]
  BY DEF AsRoot, Put
<1>5. mp.next = SIZE_MAX /\ mp.enclosing = SIZE_MAX
  BY <1>3 DEF NewMount
<1>6. Inner(w) = Inner(v)
  BY <1>4, <1>5 DEF Inner
<1>7. \A f : Reached(w, f) = Reached(v, f)
  BY <1>5, ReachedApart DEF AsRoot
<1>8. \A o \in DOMAIN v.namespaces, b \in Bucket : BucketOf(w, o, b) = BucketOf(v, o, b)
  BY <1>3, <1>7 DEF BucketOf
<1>9. /\ SIZE_MAX \notin Id("mount_points") /\ DOMAIN v.mount_points \subseteq Id("mount_points")
      /\ \A o \in DOMAIN v.namespaces, b \in Bucket : BucketOf(v, o, b) \subseteq Inner(v)
      /\ \A o \in DOMAIN v.namespaces : MountsOf(v, o) \subseteq DOMAIN v.mount_points
  BY <1>0, InBuckets
<1>10. \A o \in DOMAIN v.namespaces : MountsOf(w, o) = MountsOf(v, o) \cup (IF o = n THEN {m} ELSE {})
  <2> TAKE o \in DOMAIN v.namespaces
  <2>1. \A j : j \in (UNION {BucketOf(w, o, b) : b \in Bucket}) <=> j \in (UNION {BucketOf(v, o, b) : b \in Bucket})
    BY <1>8
  <2>2. \A j : j \in MountsOf(w, o) <=> j \in MountsOf(v, o) \cup (IF o = n THEN {m} ELSE {})
    BY <1>3, <1>9, <2>1 DEF MountsOf
  <2> QED
    BY <2>2
<1>11. PointersInv(w)
  <2>1. \A o \in DOMAIN w.namespaces :
       /\ w.namespaces[o].root \in Optional(DOMAIN w.mount_points \ Inner(w))
       /\ \A b \in Bucket : w.namespaces[o].buckets[b] \in Optional(Inner(w))
    <3> TAKE o \in DOMAIN w.namespaces
    <3>1. /\ v.namespaces[o].root \in Optional(DOMAIN v.mount_points \ Inner(v))
          /\ \A b \in Bucket : v.namespaces[o].buckets[b] \in Optional(Inner(v))
      BY <1>0, <1>3 DEF PointersInv
    <3>2. m \notin Inner(v)
      BY DEF Inner
    <3> QED
      BY <1>3, <1>4, <1>6, <3>1, <3>2 DEF Optional
  <2>2. \A j \in DOMAIN w.mount_points : w.mount_points[j].next \in Optional(Inner(w))
    BY <1>0, <1>4, <1>5, <1>6 DEF PointersInv, Optional
  <2> QED
    BY <2>1, <2>2 DEF PointersInv
<1>12. BucketsInv(w)
  <2>1. ASSUME NEW o \in DOMAIN w.namespaces, NEW b \in Bucket
        PROVE  /\ LET first == w.namespaces[o].buckets[b]
                  IN  first # SIZE_MAX => w.mount_points[first].previous = SIZE_MAX
               /\ \A j \in BucketOf(w, o, b) :
                    /\ hash[w.mount_points[j].inode] = b
                    /\ IF w.mount_points[j].previous = SIZE_MAX THEN w.namespaces[o].buckets[b] = j
                       ELSE /\ w.mount_points[j].previous \in BucketOf(w, o, b)
                            /\ w.mount_points[w.mount_points[j].previous].next = j
                    /\ w.mount_points[j].next # SIZE_MAX => w.mount_points[w.mount_points[j].next].previous = j
    <3>1. o \in DOMAIN v.namespaces /\ w.namespaces[o].buckets = v.namespaces[o].buckets
          /\ BucketOf(w, o, b) = BucketOf(v, o, b) /\ BucketOf(v, o, b) \subseteq DOMAIN v.mount_points
      BY <1>3, <1>8, <1>9 DEF Inner
    <3>2. /\ v.namespaces[o].buckets[b] # SIZE_MAX => v.namespaces[o].buckets[b] \in DOMAIN v.mount_points
          /\ \A j \in DOMAIN v.mount_points :
               v.mount_points[j].next # SIZE_MAX => v.mount_points[j].next \in DOMAIN v.mount_points
      BY <1>0, <3>1 DEF PointersInv, Optional, Inner
    <3>3. /\ LET first == v.namespaces[o].buckets[b]
             IN  first # SIZE_MAX => v.mount_points[first].previous = SIZE_MAX
          /\ \A j \in BucketOf(v, o, b) :
                    /\ hash[v.mount_points[j].inode] = b
                    /\ IF v.mount_points[j].previous = SIZE_MAX THEN v.namespaces[o].buckets[b] = j
                       ELSE /\ v.mount_points[j].previous \in BucketOf(v, o, b)
                            /\ v.mount_points[v.mount_points[j].previous].next = j
                    /\ v.mount_points[j].next # SIZE_MAX => v.mount_points[v.mount_points[j].next].previous = j
      BY <1>0, <3>1 DEF BucketsInv
    <3> QED
      BY <1>4, <3>1, <3>2, <3>3
  <2>2. \A j \in DOMAIN w.mount_points : \E o \in DOMAIN w.namespaces : j \in MountsOf(w, o)
    <3>1. \A j \in DOMAIN v.mount_points : \E o \in DOMAIN v.namespaces : j \in MountsOf(v, o)
      BY <1>0 DEF BucketsInv
    <3> QED
      BY <1>3, <1>4, <1>10, <3>1
  <2>3. \A o, p \in DOMAIN w.namespaces : MountsOf(w, o) \cap MountsOf(w, p) # {} => o = p
    <3>1. \A o, p \in DOMAIN v.namespaces : MountsOf(v, o) \cap MountsOf(v, p) # {} => o = p
      BY <1>0 DEF BucketsInv
    <3>2. \A o \in DOMAIN v.namespaces : m \notin MountsOf(v, o)
      BY <1>9
    <3> QED
      BY <1>3, <1>10, <3>1, <3>2
  <2> QED
    BY <2>1, <2>2, <2>3 DEF BucketsInv
<1> QED
  BY <1>11, <1>12


(* A bucket with a new first mount point is still linked both ways: the    *)
(* old first one is linked back, and it is in no other bucket.             *)
LEMMA FrontLinks ==
  ASSUME NEW v, TablesInv(v), NEW w \in VfsState, NEW n \in DOMAIN v.namespaces, NEW m \in Id("mount_points"),
         m \notin DOMAIN v.mount_points, NEW mp, NewMount(v, n, mp), InFront(v, w, n, m, mp)
  PROVE  PointersInv(w) /\ BucketsInv(w)
<1> DEFINE b == hash[mp.inode]
           first == v.namespaces[n].buckets[b]
<1>0. v \in VfsState /\ PointersInv(v) /\ BucketsInv(v)
  BY DEF TablesInv
<1>1. v.namespaces \in Table(Id("namespaces"), Namespace) /\ v.mount_points \in Table(Id("mount_points"), MountPoint)
  BY <1>0 DEF VfsState
<1>2. /\ \A o \in DOMAIN v.namespaces : v.namespaces[o] \in Namespace
      /\ \A j \in DOMAIN v.mount_points : v.mount_points[j] \in MountPoint
  BY <1>1, IsTable
<1>3. b \in Bucket
  BY VfsAssumption DEF NewMount, MountPoint
<1>4. /\ DOMAIN w.namespaces = DOMAIN v.namespaces
      /\ \A o \in DOMAIN v.namespaces : w.namespaces[o].root = v.namespaces[o].root
      /\ \A o \in DOMAIN v.namespaces, c \in Bucket :
           w.namespaces[o].buckets[c] = IF o = n /\ c = b THEN m ELSE v.namespaces[o].buckets[c]
      /\ v.namespaces[n].root # SIZE_MAX
  BY <1>2, <1>3 DEF InFront, Namespace
<1>5. /\ DOMAIN w.mount_points = DOMAIN v.mount_points \cup {m}
      /\ w.mount_points[m] = [mp EXCEPT !.next = first]
      /\ \A j \in DOMAIN v.mount_points :
           w.mount_points[j] = IF j = first THEN [v.mount_points[j] EXCEPT !.previous = m]
                               ELSE v.mount_points[j]
  BY DEF InFront
<1> HIDE DEF b, first
<1>6. /\ w.mount_points[m].next = first /\ w.mount_points[m].previous = SIZE_MAX
      /\ hash[w.mount_points[m].inode] = b /\ w.mount_points[m].enclosing # SIZE_MAX
  <2>1. mp \in MountPoint /\ mp.previous = SIZE_MAX /\ mp.enclosing = v.namespaces[n].root
    BY DEF NewMount
  <2> QED
    BY <1>4, <1>5, <2>1 DEF MountPoint, b
<1>7. \A j \in DOMAIN v.mount_points :
        /\ w.mount_points[j].next = v.mount_points[j].next
        /\ w.mount_points[j].inode = v.mount_points[j].inode
        /\ w.mount_points[j].enclosing = v.mount_points[j].enclosing
        /\ w.mount_points[j].previous = IF j = first THEN m ELSE v.mount_points[j].previous
  BY <1>2, <1>5 DEF MountPoint
<1>8. Inner(w) = Inner(v) \cup {m} /\ m \notin Inner(v)
  <2>1. /\ DOMAIN w.mount_points = DOMAIN v.mount_points \cup {m} /\ w.mount_points[m].enclosing # SIZE_MAX
        /\ \A j \in DOMAIN v.mount_points : w.mount_points[j].enclosing = v.mount_points[j].enclosing
    BY <1>5, <1>6, <1>7
  <2> QED
    BY <2>1 DEF Inner
<1>9. first \in Optional(Inner(v))
  BY <1>0, <1>3 DEF PointersInv, first
<1>10. /\ Reached(w, m) = {m} \cup Reached(v, first)
       /\ \A f \in Optional(Inner(v)) : Reached(w, f) = Reached(v, f)
  <2>1. /\ DOMAIN w.mount_points = DOMAIN v.mount_points \cup {m} /\ w.mount_points[m].next = first
        /\ \A j \in DOMAIN v.mount_points : w.mount_points[j].next = v.mount_points[j].next
    BY <1>5, <1>6, <1>7
  <2> QED
    BY <1>0, <1>9, <2>1, ReachedInFront
<1>11. /\ BucketOf(w, n, b) = {m} \cup BucketOf(v, n, b)
       /\ \A o \in DOMAIN v.namespaces, c \in Bucket : ~(o = n /\ c = b) => BucketOf(w, o, c) = BucketOf(v, o, c)
  <2>1. w.namespaces[n].buckets[b] = m /\ v.namespaces[n].buckets[b] = first
    BY <1>3, <1>4 DEF first
  <2>2. ASSUME NEW o \in DOMAIN v.namespaces, NEW c \in Bucket, ~(o = n /\ c = b)
        PROVE  BucketOf(w, o, c) = BucketOf(v, o, c)
    <3>1. w.namespaces[o].buckets[c] = v.namespaces[o].buckets[c] /\ v.namespaces[o].buckets[c] \in Optional(Inner(v))
      BY <1>0, <1>4, <2>2 DEF PointersInv
    <3> QED
      BY <1>10, <3>1 DEF BucketOf
  <2> QED
    BY <1>10, <2>1, <2>2 DEF BucketOf
<1>12. /\ SIZE_MAX \notin Id("mount_points") /\ DOMAIN v.mount_points \subseteq Id("mount_points")
       /\ \A o \in DOMAIN v.namespaces, c \in Bucket : BucketOf(v, o, c) \subseteq Inner(v)
       /\ \A o \in DOMAIN v.namespaces : MountsOf(v, o) \subseteq DOMAIN v.mount_points
  BY <1>0, InBuckets
<1>13. \A o \in DOMAIN v.namespaces : MountsOf(w, o) = MountsOf(v, o) \cup (IF o = n THEN {m} ELSE {})
  <2> TAKE o \in DOMAIN v.namespaces
  <2>1. \A j : j \in (UNION {BucketOf(w, o, c) : c \in Bucket})
                 <=> j \in (UNION {BucketOf(v, o, c) : c \in Bucket}) \cup (IF o = n THEN {m} ELSE {})
    <3>1. CASE o = n
      <4>1. \A c \in Bucket : BucketOf(w, o, c) = BucketOf(v, o, c) \cup (IF c = b THEN {m} ELSE {})
        BY <1>11, <3>1
      <4> QED
        BY <1>3, <3>1, <4>1
    <3>2. CASE o # n
      BY <1>11, <3>2
    <3> QED
      BY <3>1, <3>2
  <2>2. w.namespaces[o].root = v.namespaces[o].root
    BY <1>4
  <2>3. \A j : j \in MountsOf(w, o) <=> j \in MountsOf(v, o) \cup (IF o = n THEN {m} ELSE {})
    BY <2>1, <2>2 DEF MountsOf
  <2> QED
    BY <2>3
<1>14. PointersInv(w)
  <2>1. \A o \in DOMAIN w.namespaces :
       /\ w.namespaces[o].root \in Optional(DOMAIN w.mount_points \ Inner(w))
       /\ \A c \in Bucket : w.namespaces[o].buckets[c] \in Optional(Inner(w))
    <3> TAKE o \in DOMAIN w.namespaces
    <3>1. /\ v.namespaces[o].root \in Optional(DOMAIN v.mount_points \ Inner(v))
          /\ \A c \in Bucket : v.namespaces[o].buckets[c] \in Optional(Inner(v))
      BY <1>0, <1>4 DEF PointersInv
    <3> QED
      BY <1>4, <1>5, <1>8, <3>1 DEF Optional
  <2>2. \A j \in DOMAIN w.mount_points : w.mount_points[j].next \in Optional(Inner(w))
    BY <1>0, <1>5, <1>6, <1>7, <1>8, <1>9 DEF PointersInv, Optional
  <2> QED
    BY <2>1, <2>2 DEF PointersInv
<1>15. ASSUME NEW o \in DOMAIN v.namespaces, NEW c \in Bucket
       PROVE  /\ BucketOf(v, o, c) \subseteq DOMAIN v.mount_points
              /\ v.namespaces[o].buckets[c] # SIZE_MAX =>
                   /\ v.namespaces[o].buckets[c] \in BucketOf(v, o, c)
                   /\ v.mount_points[v.namespaces[o].buckets[c]].previous = SIZE_MAX
              /\ \A j \in BucketOf(v, o, c) :
                   /\ hash[v.mount_points[j].inode] = c
                   /\ IF v.mount_points[j].previous = SIZE_MAX THEN v.namespaces[o].buckets[c] = j
                      ELSE /\ v.mount_points[j].previous \in BucketOf(v, o, c)
                           /\ v.mount_points[v.mount_points[j].previous].next = j
                   /\ v.mount_points[j].next # SIZE_MAX =>
                        /\ v.mount_points[j].next \in DOMAIN v.mount_points
                        /\ v.mount_points[v.mount_points[j].next].previous = j
  <2>1. BucketOf(v, o, c) \subseteq DOMAIN v.mount_points
    BY <1>12 DEF Inner
  <2>2. /\ v.namespaces[o].buckets[c] # SIZE_MAX => v.namespaces[o].buckets[c] \in DOMAIN v.mount_points
        /\ \A j \in DOMAIN v.mount_points :
             v.mount_points[j].next # SIZE_MAX => v.mount_points[j].next \in DOMAIN v.mount_points
    BY <1>0 DEF PointersInv, Optional, Inner
  <2>3. v.namespaces[o].buckets[c] # SIZE_MAX => v.namespaces[o].buckets[c] \in BucketOf(v, o, c)
    BY <1>12, <2>2, ReachedFacts DEF BucketOf
  <2> QED
    BY <1>0, <2>1, <2>2, <2>3 DEF BucketsInv
<1>16. BucketsInv(w)
  <2>1. ASSUME NEW o \in DOMAIN w.namespaces, NEW c \in Bucket
        PROVE  /\ LET f == w.namespaces[o].buckets[c]
                  IN  f # SIZE_MAX => w.mount_points[f].previous = SIZE_MAX
               /\ \A j \in BucketOf(w, o, c) :
                    /\ hash[w.mount_points[j].inode] = c
                    /\ IF w.mount_points[j].previous = SIZE_MAX THEN w.namespaces[o].buckets[c] = j
                       ELSE /\ w.mount_points[j].previous \in BucketOf(w, o, c)
                            /\ w.mount_points[w.mount_points[j].previous].next = j
                    /\ w.mount_points[j].next # SIZE_MAX => w.mount_points[w.mount_points[j].next].previous = j
    <3>0. m # SIZE_MAX /\ SIZE_MAX \notin DOMAIN v.mount_points /\ o \in DOMAIN v.namespaces
      BY <1>4, <1>12
    <3>1. CASE o = n /\ c = b
      <4>1. w.namespaces[n].buckets[b] = m /\ BucketOf(w, n, b) = {m} \cup BucketOf(v, n, b)
        BY <1>3, <1>4, <1>11
      <4>2. v.namespaces[n].buckets[b] = first
        BY DEF first
      <4>3. ASSUME NEW j \in BucketOf(v, n, b)
            PROVE  /\ j \in DOMAIN v.mount_points
                   /\ hash[v.mount_points[j].inode] = b
                   /\ j # first => /\ v.mount_points[j].previous # SIZE_MAX
                                   /\ v.mount_points[j].previous \in BucketOf(v, n, b)
                                   /\ v.mount_points[j].previous \in DOMAIN v.mount_points
                                   /\ v.mount_points[v.mount_points[j].previous].next = j
                   /\ v.mount_points[j].next # SIZE_MAX =>
                        /\ v.mount_points[j].next \in DOMAIN v.mount_points /\ v.mount_points[j].next # first
                        /\ v.mount_points[v.mount_points[j].next].previous = j
        BY <1>3, <1>15, <3>0, <4>2
      <4>4. first # SIZE_MAX => first \in BucketOf(v, n, b) /\ first \in DOMAIN v.mount_points
        BY <1>3, <1>15, <4>2
      <4>5. /\ hash[w.mount_points[m].inode] = b /\ w.mount_points[m].previous = SIZE_MAX
            /\ w.mount_points[m].next # SIZE_MAX => w.mount_points[w.mount_points[m].next].previous = m
        BY <1>6, <1>7, <4>4
      <4>6. ASSUME NEW j \in BucketOf(v, n, b)
            PROVE  /\ hash[w.mount_points[j].inode] = b
                   /\ w.mount_points[j].previous # SIZE_MAX
                   /\ w.mount_points[j].previous \in {m} \cup BucketOf(v, n, b)
                   /\ w.mount_points[w.mount_points[j].previous].next = j
                   /\ w.mount_points[j].next # SIZE_MAX => w.mount_points[w.mount_points[j].next].previous = j
        <5>1. CASE j = first
          BY <1>6, <1>7, <3>0, <4>3, <5>1
        <5>2. CASE j # first
          BY <1>7, <3>0, <4>3, <5>2
        <5> QED
          BY <5>1, <5>2
      <4> QED
        BY <3>1, <4>1, <4>5, <4>6
    <3>2. CASE ~(o = n /\ c = b)
      <4>1. /\ w.namespaces[o].buckets[c] = v.namespaces[o].buckets[c]
            /\ BucketOf(w, o, c) = BucketOf(v, o, c)
        BY <1>4, <1>11, <3>0, <3>2
      <4>2. first \notin BucketOf(v, o, c)
        <5> SUFFICES ASSUME first \in BucketOf(v, o, c) PROVE FALSE
          OBVIOUS
        <5>1. first # SIZE_MAX
          BY <1>15, <3>0
        <5>2. first \in BucketOf(v, n, b)
          BY <1>3, <1>15, <5>1 DEF first
        <5>3. c = b
          BY <1>3, <1>15, <3>0, <5>2
        <5>4. first \in MountsOf(v, n) /\ first \in MountsOf(v, o)
          BY <1>3, <5>2 DEF MountsOf
        <5>5. o = n
          BY <1>0, <3>0, <5>4 DEF BucketsInv
        <5> QED
          BY <3>2, <5>3, <5>5
      <4>3. ASSUME NEW j \in BucketOf(v, o, c)
            PROVE  /\ j \in DOMAIN v.mount_points /\ j # first
                   /\ v.mount_points[j].next # SIZE_MAX =>
                        /\ v.mount_points[j].next \in DOMAIN v.mount_points /\ v.mount_points[j].next # first
                        /\ v.mount_points[v.mount_points[j].next].previous = j
        <5>1. first # SIZE_MAX => v.mount_points[first].previous = SIZE_MAX
          BY <1>3, <1>15 DEF first
        <5> QED
          BY <1>15, <3>0, <4>2, <5>1
      <4>4. w.namespaces[o].buckets[c] # SIZE_MAX => w.mount_points[w.namespaces[o].buckets[c]].previous = SIZE_MAX
        BY <1>7, <1>15, <3>0, <4>1, <4>3
      <4>5. ASSUME NEW j \in BucketOf(v, o, c)
            PROVE  /\ hash[w.mount_points[j].inode] = c
                   /\ IF w.mount_points[j].previous = SIZE_MAX THEN v.namespaces[o].buckets[c] = j
                      ELSE /\ w.mount_points[j].previous \in BucketOf(v, o, c)
                           /\ w.mount_points[w.mount_points[j].previous].next = j
                   /\ w.mount_points[j].next # SIZE_MAX => w.mount_points[w.mount_points[j].next].previous = j
        <5>1. j \in DOMAIN v.mount_points /\ w.mount_points[j].previous = v.mount_points[j].previous
              /\ w.mount_points[j].next = v.mount_points[j].next
              /\ w.mount_points[j].inode = v.mount_points[j].inode
          BY <1>7, <4>3
        <5> QED
          BY <1>7, <1>15, <3>0, <4>3, <5>1
      <4> QED
        BY <4>1, <4>4, <4>5
    <3> QED
      BY <3>1, <3>2
  <2>2. \A j \in DOMAIN w.mount_points : \E o \in DOMAIN w.namespaces : j \in MountsOf(w, o)
    <3>1. \A j \in DOMAIN v.mount_points : \E o \in DOMAIN v.namespaces : j \in MountsOf(v, o)
      BY <1>0 DEF BucketsInv
    <3> QED
      BY <1>4, <1>5, <1>13, <3>1
  <2>3. \A o, p \in DOMAIN w.namespaces : MountsOf(w, o) \cap MountsOf(w, p) # {} => o = p
    <3>1. \A o, p \in DOMAIN v.namespaces : MountsOf(v, o) \cap MountsOf(v, p) # {} => o = p
      BY <1>0 DEF BucketsInv
    <3>2. \A o \in DOMAIN v.namespaces : m \notin MountsOf(v, o)
      BY <1>12
    <3> QED
      BY <1>4, <1>13, <3>1, <3>2
  <2> QED
    BY <2>1, <2>2, <2>3 DEF BucketsInv
<1> QED
  BY <1>14, <1>16


(* Adding a mount point to a namespace that some process may modify.       *)
LEMMA MountAddedInv ==
  ASSUME NEW v, TablesInv(v), NEW w, NEW n \in DOMAIN v.namespaces, NEW m, NEW mp, NewMount(v, n, mp),
         MountAdded(v, w, n, m, mp)
  PROVE  /\ TablesInv(w)
         /\ (\E p \in Users(v, n) : v.processes[p].can_modify) => Frozen(v, w)
<1>1. w \in VfsState /\ m \in Id("mount_points") /\ m \notin DOMAIN v.mount_points
  BY DEF MountAdded
<1>2. MapsInv(w) /\ NamespacesInv(w) /\ ListsInv(w) /\ InfosInv(w)
  BY MountAddedRest
<1>3. PointersInv(w) /\ BucketsInv(w)
  <2>1. CASE AsRoot(v, w, n, m, mp)
    BY <1>1, <2>1, RootLinks
  <2>2. CASE InFront(v, w, n, m, mp)
    BY <1>1, <2>2, FrontLinks
  <2> QED
    BY <2>1, <2>2 DEF MountAdded
<1>4. ASSUME \E p \in Users(v, n) : v.processes[p].can_modify PROVE Frozen(v, w)
  <2>1. w.processes = v.processes
    BY DEF MountAdded
  <2>2. \A o : Users(w, o) = Users(v, o)
    BY <2>1 DEF Users
  <2>3. \A o \in DOMAIN v.namespaces : o # n => w.namespaces[o] = v.namespaces[o]
    BY DEF MountAdded, AsRoot, InFront
  <2> QED
    BY <1>4, <2>1, <2>2, <2>3 DEF Frozen, MountsIn
<1> QED
  BY <1>1, <1>2, <1>3, <1>4 DEF TablesInv

(* The situations that are met on the way to a mount stay noted.           *)
LEMMA MountsGrow ==
  ASSUME NEW v, NEW n, NEW mp, NEW oom, NEW i, NEW create
  PROVE  /\ Grows(v, add_mount_point_to_namespace(v, n, mp, oom).vfs)
         /\ Grows(v, mounted_list_insert(v, i, create))
<1> DEFINE b == hash[mp.inode]
           old == v.namespaces[n]
           first == old.buckets[b]
           asRoot == old.root = SIZE_MAX
           x == IF asRoot THEN mp ELSE [mp EXCEPT !.next = first]
           a == alloc_structure(v, "mount_points", x, oom)
           m == a.value
           R == [a.vfs EXCEPT !.namespaces[n].root = m]
           B == [a.vfs EXCEPT !.namespaces[n].buckets[b] = m,
                              !.mount_points = [j \in DOMAIN @ |->
                                 IF j = first THEN [@[j] EXCEPT !.previous = m] ELSE @[j]]]
           r == add_mount_point_to_namespace(v, n, mp, oom)
<1>1. r = IF m = SIZE_MAX THEN WithValue(a.vfs, "ENOMEM")
          ELSE IF asRoot THEN WithValue(R, "ok") ELSE WithValue(B, "ok")
  BY DEF add_mount_point_to_namespace
<1>2. Grows(v, a.vfs)
  <2>1. "mount_points" \in Kind
    BY DEF Kind
  <2> QED
    BY <2>1, StructuresGrow
<1>3. Grows(a.vfs, R) /\ Grows(a.vfs, B)
  BY DEF Grows
<1>4. Grows(v, mounted_list_insert(v, i, create))
  BY DEF Grows, mounted_list_insert
<1> HIDE DEF a, R, B, asRoot, m, r
<1>5. r.vfs \in {a.vfs, R, B}
  BY <1>1 DEF WithValue
<1>6. Grows(a.vfs, r.vfs)
  BY <1>3, <1>5 DEF Grows
<1>7. Grows(v, r.vfs)
  BY <1>2, <1>6 DEF Grows
<1> QED
  BY <1>4, <1>7 DEF r

(* What mount does before its result is sent.                              *)
MountEffect(v, w, e, n) ==
  /\ TablesInv(w) /\ Frozen(v, w) /\ e \in Status
  /\ e # "ok" => \A k \in Kind : MarkedEmpty(w, k) \subseteq MarkedEmpty(v, k)
  /\ w.processes = v.processes /\ w.infos = v.infos /\ w.fds = v.fds /\ w.replies = v.replies
  /\ e = "ok" => w.namespaces[n].root # SIZE_MAX
  /\ w.locked \subseteq v.locked /\ w.storage \subseteq v.storage /\ w.transferred = v.transferred

(* Every way out of mount keeps the tables right.                          *)
LEMMA MountResult ==
  ASSUME NEW v, TablesInv(v), NEW info \in DirectoryInfo, info.namespace \in DOMAIN v.namespaces,
         info.mount_point = v.namespaces[info.namespace].root,
         info.can_modify => \E p \in Users(v, info.namespace) : v.processes[p].can_modify,
         NEW create \in BOOLEAN, NEW oom, mount(v, info, create, oom).vfs.met \cap MapCalls = {}
  PROVE  MountEffect(v, mount(v, info, create, oom).vfs, mount(v, info, create, oom).value, info.namespace)
<1> DEFINE n == info.namespace
           L == Lock(v, "namespaces", n)
           l == create_mounted_list_entry(L, oom)
           i == l.value
           x == mounted_list_insert(l.vfs, i, create)
           mp == [previous |-> SIZE_MAX, next |-> SIZE_MAX, enclosing |-> info.mount_point,
                  inode |-> info.inode, list |-> i]
           added == add_mount_point_to_namespace(x, n, mp, oom)
           r == IF i = SIZE_MAX THEN WithValue(l.vfs, "ENOMEM") ELSE added
           u == Unlock(r.vfs, "namespaces", n)
           M == mount(v, info, create, oom)
<1>0. v \in VfsState /\ "namespaces" \in Kind /\ n \in Id("namespaces") /\ n \in Nat
  <2>1. v \in VfsState /\ v.namespaces \in Table(Id("namespaces"), Namespace) /\ "namespaces" \in Kind
    BY DEF TablesInv, VfsState, Kind
  <2>2. n \in Id("namespaces")
    BY <2>1, IsTable
  <2> QED
    BY <2>1, <2>2, SlotNumbers
<1>1. M = IF ~info.can_modify THEN WithValue(v, "EPERM") ELSE WithValue(u, r.value)
  BY DEF mount
<1>2. CASE ~info.can_modify
  <2>1. M.vfs = v /\ M.value = "EPERM"
    BY <1>1, <1>2 DEF WithValue
  <2>2. Frozen(v, v)
    BY DEF Frozen
  <2>3. MountEffect(v, v, "EPERM", n)
    BY <2>2 DEF MountEffect, Status
  <2> QED
    BY <2>1, <2>3
<1>3. CASE info.can_modify
  <2>1. M.vfs = u /\ M.value = r.value
    BY <1>1, <1>3 DEF WithValue
  <2>2. L \in VfsState /\ SameButLocks(v, L) /\ L.locked = v.locked \cup {<<"namespaces", n>>}
    <3>1. v \in VfsState /\ "namespaces" \in Kind /\ n \in Nat
      BY <1>0
    <3> HIDE DEF n
    <3>2. /\ Lock(v, "namespaces", n) \in VfsState /\ SameButLocks(v, Lock(v, "namespaces", n))
          /\ Lock(v, "namespaces", n).locked = v.locked \cup {<<"namespaces", n>>}
      BY <3>1, LockState
    <3> QED
      BY <3>2
  <2> HIDE DEF L
  <2>3. TablesInv(L) /\ SameTables(v, L)
    BY <2>2, SameInv DEF SameButLocks
  <2>4. /\ Grows(L, l.vfs)
        /\ l.vfs.met \cap MapCalls = {} =>
                  \/ /\ l.value = SIZE_MAX /\ l.vfs \in VfsState /\ SameTables(L, l.vfs)
                     /\ l.vfs.locked \subseteq L.locked /\ l.vfs.storage = L.storage
                     /\ l.vfs.transferred = L.transferred /\ l.vfs.replies = L.replies
                  \/ /\ l.value \in Id("lists") \ L.used["lists"] /\ l.value \notin DOMAIN L.lists
                     /\ l.vfs = Allocated(L, "lists", l.value, <<>>)
    BY <2>2, CreateList
  <2>5. Grows(l.vfs, x) /\ Grows(x, added.vfs) /\ Grows(r.vfs, u)
    BY <1>0, MountsGrow, StructuresGrow
  <2>6. u.met \cap MapCalls = {}
    BY <2>1
  <2> HIDE DEF l, x, added, u, M
  <2>7. l.vfs.met \cap MapCalls = {} /\ r.vfs.met \cap MapCalls = {}
    <3>1. "met" \in DOMAIN L
      BY <2>2 DEF VfsState
    <3>2. r.vfs = IF i = SIZE_MAX THEN l.vfs ELSE added.vfs
      BY DEF WithValue
    <3> QED
      BY <2>4, <2>5, <2>6, <3>1, <3>2 DEF Grows
  <2>8. /\ r.vfs \in VfsState /\ TablesInv(r.vfs) /\ Frozen(v, r.vfs) /\ r.value \in Status
        /\ r.value # "ok" => \A k \in Kind : MarkedEmpty(r.vfs, k) \subseteq MarkedEmpty(v, k)
        /\ r.vfs.processes = v.processes /\ r.vfs.infos = v.infos /\ r.vfs.fds = v.fds
        /\ r.vfs.replies = v.replies /\ (r.value = "ok" => r.vfs.namespaces[n].root # SIZE_MAX)
        /\ r.vfs.locked \subseteq L.locked /\ r.vfs.storage \subseteq v.storage
        /\ r.vfs.transferred = v.transferred
    <3>0. /\ L.used = v.used /\ L.processes = v.processes /\ L.namespaces = v.namespaces
          /\ L.mount_points = v.mount_points /\ L.lists = v.lists /\ L.infos = v.infos /\ L.fds = v.fds
          /\ L.storage = v.storage /\ L.transferred = v.transferred /\ L.replies = v.replies
      BY <2>2 DEF SameButLocks, SameTables
    <3>1. CASE /\ l.value = SIZE_MAX /\ l.vfs \in VfsState /\ SameTables(L, l.vfs)
               /\ l.vfs.locked \subseteq L.locked /\ l.vfs.storage = L.storage
               /\ l.vfs.transferred = L.transferred /\ l.vfs.replies = L.replies
      <4> DEFINE y == l.vfs
      <4>1. r.vfs = y /\ r.value = "ENOMEM" /\ r.value \in Status /\ y \in VfsState
        BY <3>1 DEF WithValue, Status
      <4>2. TablesInv(y)
        BY <2>3, <3>1, SameInv
      <4>3. /\ y.used = v.used /\ y.processes = v.processes /\ y.namespaces = v.namespaces
            /\ y.mount_points = v.mount_points /\ y.lists = v.lists /\ y.infos = v.infos /\ y.fds = v.fds
            /\ y.locked \subseteq L.locked /\ y.storage = v.storage /\ y.transferred = v.transferred
            /\ y.replies = v.replies
        BY <3>0, <3>1 DEF SameTables
      <4> HIDE DEF y, r
      <4>4. Frozen(v, y)
        BY <4>3 DEF Frozen, Users, MountsIn
      <4>5. \A k \in Kind : MarkedEmpty(y, k) \subseteq MarkedEmpty(v, k)
        BY <4>3 DEF MarkedEmpty, Kind
      <4> QED
        BY <4>1, <4>2, <4>3, <4>4, <4>5
    <3>2. CASE /\ l.value \in Id("lists") \ L.used["lists"] /\ l.value \notin DOMAIN L.lists
               /\ l.vfs = Allocated(L, "lists", l.value, <<>>)
      <4>1. i # SIZE_MAX /\ i \in Id("lists") /\ r = added
        <5>1. "lists" \in Kind
          BY DEF Kind
        <5> QED
          BY <3>2, <5>1, SlotNumbers
      <4>2. ListAdded(L, x, i, [create |-> create])
        BY <2>2, <3>2, <4>1, InsertList DEF x
      <4>3. TablesInv(x) /\ Frozen(L, x) /\ \A k \in Kind : MarkedEmpty(x, k) \subseteq MarkedEmpty(L, k)
        BY <2>3, <4>2, ListAddedInv
      <4>4. /\ x \in VfsState /\ i \notin DOMAIN v.lists /\ x.lists = Put(v.lists, i, <<[create |-> create]>>)
            /\ x.processes = v.processes /\ x.namespaces = v.namespaces /\ x.mount_points = v.mount_points
            /\ x.infos = v.infos /\ x.fds = v.fds
            /\ x.locked = L.locked /\ x.storage \subseteq v.storage /\ x.transferred = v.transferred
            /\ x.replies = v.replies
        BY <3>0, <4>2 DEF ListAdded
      <4>5. i \in DOMAIN x.lists /\ Len(x.lists[i]) = 1
        BY <4>4 DEF Put
      <4>6. mp \in MountPoint
        <5>1. info.inode \in Inode /\ info.mount_point \in Optional(Id("mount_points"))
          BY DEF DirectoryInfo
        <5> QED
          BY <4>1, <5>1 DEF MountPoint, Optional
      <4>7. NewMount(x, n, mp)
        <5>1. \A k \in DOMAIN v.mount_points : v.mount_points[k].list \in DOMAIN v.lists
          BY DEF TablesInv, ListsInv
        <5>2. mp.previous = SIZE_MAX /\ mp.next = SIZE_MAX /\ mp.enclosing = v.namespaces[n].root /\ mp.list = i
          OBVIOUS
        <5> HIDE DEF mp
        <5> QED
          BY <4>4, <4>5, <4>6, <5>1, <5>2 DEF NewMount
      <4> HIDE DEF mp
      <4>8. PointersInv(x) /\ n \in DOMAIN x.namespaces
        BY <4>3, <4>4 DEF TablesInv
      <4>9. \/ added.value = "ENOMEM" /\ added.vfs = x
            \/ added.value = "ok" /\ \E m \in Id("mount_points") : MountAdded(x, added.vfs, n, m, mp)
        BY <2>7, <4>1, <4>4, <4>6, <4>8, AddMount DEF added
      <4> HIDE DEF r
      <4>10. Frozen(v, x) /\ \A k \in Kind : MarkedEmpty(x, k) \subseteq MarkedEmpty(v, k)
        <5>1. Frozen(v, x)
          BY <4>4 DEF Frozen, Users, MountsIn
        <5>2. \A k \in Kind : MarkedEmpty(L, k) = MarkedEmpty(v, k)
          BY <3>0 DEF MarkedEmpty, Kind
        <5> QED
          BY <4>3, <5>1, <5>2
      <4>11. CASE added.value = "ENOMEM" /\ added.vfs = x
        <5>1. "ENOMEM" \in Status
          BY DEF Status
        <5> QED
          BY <4>1, <4>3, <4>4, <4>10, <4>11, <5>1
      <4>12. CASE added.value = "ok" /\ \E m \in Id("mount_points") : MountAdded(x, added.vfs, n, m, mp)
        <5> PICK m \in Id("mount_points") : MountAdded(x, added.vfs, n, m, mp)
          BY <4>12
        <5> DEFINE y == added.vfs
        <5>1. \E p \in Users(x, n) : x.processes[p].can_modify
          BY <1>3, <4>4 DEF Users
        <5>2. TablesInv(y) /\ Frozen(x, y)
          BY <4>3, <4>7, <4>8, <5>1, MountAddedInv
        <5>3. /\ y \in VfsState /\ y.processes = x.processes /\ y.infos = x.infos /\ y.fds = x.fds
              /\ y.replies = x.replies
              /\ y.locked = x.locked /\ y.storage = x.storage /\ y.transferred = x.transferred
          BY DEF MountAdded
        <5>6. y.namespaces[n].root # SIZE_MAX
          <6>1. m # SIZE_MAX /\ x.namespaces \in Table(Id("namespaces"), Namespace) /\ "mount_points" \in Kind
            BY <4>4, SlotNumbers DEF VfsState, Kind
          <6>2. x.namespaces[n] \in Namespace
            BY <4>8, <6>1, IsTable
          <6>3. AsRoot(x, y, n, m, mp) \/ InFront(x, y, n, m, mp)
            BY DEF MountAdded
          <6> HIDE DEF y, n
          <6> QED
            BY <4>8, <6>1, <6>2, <6>3 DEF AsRoot, InFront, Namespace
        <5> HIDE DEF y
        <5>4. Frozen(v, y)
          <6>1. x.namespaces = v.namespaces /\ x.processes = v.processes
            BY <4>4
          <6> QED
            BY <5>2, <6>1 DEF Frozen, Users, MountsIn
        <5>5. r.vfs = y /\ r.value = "ok" /\ "ok" \in Status
          BY <4>1, <4>12 DEF y, Status
        <5> QED
          BY <4>4, <5>2, <5>3, <5>4, <5>5, <5>6
      <4> QED
        BY <4>9, <4>11, <4>12
    <3> QED
      BY <2>4, <2>7, <3>1, <3>2
  <2>9. u \in VfsState /\ SameButLocks(r.vfs, u) /\ u.locked = r.vfs.locked \ {<<"namespaces", n>>}
    <3> DEFINE y == r.vfs
    <3>1. y \in VfsState /\ "namespaces" \in Kind /\ n \in Nat
      BY <1>0, <2>8
    <3> HIDE DEF y, r, n
    <3>2. /\ Unlock(y, "namespaces", n) \in VfsState /\ SameButLocks(y, Unlock(y, "namespaces", n))
          /\ Unlock(y, "namespaces", n).locked = y.locked \ {<<"namespaces", n>>}
      BY <3>1, LockState
    <3> QED
      BY <3>2 DEF u, y
  <2> HIDE DEF r
  <2>10. TablesInv(u)
    BY <2>8, <2>9, SameInv DEF SameButLocks
  <2>11. /\ u.used = r.vfs.used /\ u.processes = r.vfs.processes /\ u.namespaces = r.vfs.namespaces
         /\ u.mount_points = r.vfs.mount_points /\ u.lists = r.vfs.lists /\ u.infos = r.vfs.infos
         /\ u.fds = r.vfs.fds /\ u.storage = r.vfs.storage /\ u.transferred = r.vfs.transferred
         /\ u.replies = r.vfs.replies
    BY <2>9 DEF SameButLocks, SameTables
  <2>12. Frozen(v, u)
    <3>1. u.processes = r.vfs.processes /\ u.namespaces = r.vfs.namespaces /\ Frozen(v, r.vfs)
      BY <2>8, <2>11
    <3> QED
      BY <3>1 DEF Frozen, Users, MountsIn
  <2>13. \A k \in Kind : MarkedEmpty(u, k) = MarkedEmpty(r.vfs, k)
    BY <2>11 DEF MarkedEmpty, Kind
  <2>14. u.locked \subseteq v.locked
    BY <2>2, <2>8, <2>9
  <2>15. MountEffect(v, u, r.value, n)
    BY <2>8, <2>10, <2>11, <2>12, <2>13, <2>14 DEF MountEffect
  <2> QED
    BY <2>1, <2>15 DEF M
<1> QED
  BY <1>2, <1>3 DEF DirectoryInfo


(* FD_MOUNT, on a descriptor that knows the root of its namespace.         *)
LEMMA GoodMount ==
  ASSUME NEW v, NEW h, TablesInv(v), HeldInv(v, h), v.replies = <<>>, NEW d \in DOMAIN v.infos,
         v.infos[d].mount_point = v.namespaces[v.infos[d].namespace].root, NEW create \in BOOLEAN, NEW oom,
         mount(v, v.infos[d], create, oom).vfs.met \cap MapCalls = {}
  PROVE  LET r == mount(v, v.infos[d], create, oom)
         IN  Good(v, return_value(r.vfs, r.value), h)
<1> DEFINE info == v.infos[d]
           r == mount(v, info, create, oom)
           x == r.vfs
           e == r.value
           w == return_value(x, e)
<1>1. v.infos \in Table(Id("infos"), DirectoryInfo) /\ InfosInv(v)
  BY DEF TablesInv, VfsState
<1>2. /\ info \in DirectoryInfo /\ info.namespace \in DOMAIN v.namespaces
      /\ info.can_modify => \E p \in Users(v, info.namespace) : v.processes[p].can_modify
  BY <1>1, IsTable DEF InfosInv
<1>3. MountEffect(v, x, e, info.namespace)
  <2>1. info.mount_point = v.namespaces[info.namespace].root /\ mount(v, info, create, oom).vfs.met \cap MapCalls = {}
    OBVIOUS
  <2> HIDE DEF info
  <2> QED
    BY <1>2, <2>1, MountResult
<1> HIDE DEF x, e
<1>4. x \in VfsState /\ e \in Status
  BY <1>3 DEF MountEffect, TablesInv
<1>5. /\ w \in VfsState /\ SameTables(x, w)
      /\ w.replies = Append(x.replies, [status |-> e, gives |-> {}])
      /\ w.locked = x.locked /\ w.storage = x.storage /\ w.transferred = x.transferred
  BY <1>4, ReplyState DEF return_value
<1> HIDE DEF w
<1>6. /\ x.replies = <<>> /\ x.infos = v.infos /\ x.fds = v.fds
      /\ x.locked \subseteq v.locked /\ x.storage \subseteq v.storage /\ x.transferred = v.transferred
      /\ TablesInv(x) /\ Frozen(v, x)
  BY <1>3 DEF MountEffect
<1>7. TablesInv(w)
  BY <1>5, <1>6, SameInv
<1>8. w.replies = Append(<<>>, [status |-> e, gives |-> {}])
  BY <1>5, <1>6
<1>9. DOMAIN w.replies = {1} /\ w.replies[1] = [status |-> e, gives |-> {}] /\ Given(w) = {}
  <2>1. /\ DOMAIN w.replies = {1} /\ w.replies[1] = [status |-> e, gives |-> {}]
        /\ Given(w) = [status |-> e, gives |-> {}].gives \ {FileDescriptor}
    BY <1>8, OneReply
  <2> QED
    BY <2>1
<1>10. w.infos = v.infos /\ w.fds = v.fds /\ w.processes = x.processes /\ w.namespaces = x.namespaces
  BY <1>5, <1>6 DEF SameTables
<1>11. HeldInv(w, h \cup Given(w))
  BY <1>9, <1>10 DEF HeldInv
<1>12. Frozen(v, w)
  BY <1>6, <1>10 DEF Frozen, Users, MountsIn
<1>13. Unmarks(v, w)
  <2> SUFFICES ASSUME w.replies[1].status \notin {"ok", "passed"}
               PROVE  \A k \in Kind : MarkedEmpty(w, k) \subseteq MarkedEmpty(v, k)
    BY <1>9 DEF Unmarks
  <2>1. \A k \in Kind : MarkedEmpty(x, k) \subseteq MarkedEmpty(v, k)
    BY <1>3, <1>9 DEF MountEffect
  <2>2. \A k \in Kind : MarkedEmpty(w, k) = MarkedEmpty(x, k)
    BY <1>5 DEF MarkedEmpty, SameTables, Kind
  <2> QED
    BY <2>1, <2>2
<1>14. w.locked \subseteq v.locked /\ w.storage \ w.transferred \subseteq v.storage \ v.transferred
  BY <1>5, <1>6
<1>15. Good(v, w, h)
  BY <1>7, <1>9, <1>11, <1>12, <1>13, <1>14 DEF Good
<1> QED
  BY <1>15 DEF w, x, e

(* FD_LINK and FD_UNLINK on a mount point.                                 *)
LEMMA GoodLinkAll ==
  ASSUME NEW v, NEW h, TablesInv(v), HeldInv(v, h), v.replies = <<>>, NEW m \in DOMAIN v.mount_points,
         NEW requires_create_flag, NEW answer
  PROVE  Good(v, LinkAll(v, m, requires_create_flag, answer), h)
<1> DEFINE l == Lock(v, "mount_points", m)
           u == Unlock(l, "mount_points", m)
           done == \E i \in DOMAIN v.lists[v.mount_points[m].list] :
                     link_callback(v.lists[v.mount_points[m].list][i], requires_create_flag, answer)
           e == IF done THEN "ok" ELSE "ENOENT"
<1>1. LinkAll(v, m, requires_create_flag, answer) = return_value(u, e)
  BY DEF LinkAll
<1>2. v \in VfsState /\ "mount_points" \in Kind /\ m \in Nat
  <2>1. v \in VfsState /\ v.mount_points \in Table(Id("mount_points"), MountPoint) /\ "mount_points" \in Kind
    BY DEF TablesInv, VfsState, Kind
  <2>2. m \in Id("mount_points")
    BY <2>1, IsTable
  <2> QED
    BY <2>1, <2>2, SlotNumbers
<1>3. l \in VfsState /\ SameButLocks(v, l) /\ l.locked = v.locked \cup {<<"mount_points", m>>}
  BY <1>2, LockState
<1> HIDE DEF l
<1>4. u \in VfsState /\ SameButLocks(l, u) /\ u.locked = l.locked \ {<<"mount_points", m>>}
  <2>1. l \in VfsState /\ "mount_points" \in Kind /\ m \in Nat
    BY <1>2, <1>3
  <2> QED
    BY <2>1, LockState
<1>5. e \in Status
  BY DEF Status
<1> HIDE DEF u, e
<1>6. /\ return_value(u, e) \in VfsState /\ SameTables(u, return_value(u, e))
      /\ return_value(u, e).replies = Append(u.replies, [status |-> e, gives |-> {}])
      /\ return_value(u, e).locked = u.locked /\ return_value(u, e).storage = u.storage
      /\ return_value(u, e).transferred = u.transferred
  BY <1>4, <1>5, ReplyState DEF return_value
<1> DEFINE w == return_value(u, e)
<1> HIDE DEF w
<1>7. /\ w \in VfsState /\ SameTables(v, w) /\ w.replies = Append(<<>>, [status |-> e, gives |-> {}])
      /\ w.locked \subseteq v.locked /\ w.storage = v.storage /\ w.transferred = v.transferred
  BY <1>3, <1>4, <1>6 DEF SameButLocks, SameTables, w
<1>8. Good(v, w, h)
  BY <1>7, GoodSame
<1> QED
  BY <1>1, <1>8 DEF w

(* A message that is passed on is answered by the one who takes it.        *)
LEMMA GoodPassThru ==
  ASSUME NEW v, NEW h, TablesInv(v), HeldInv(v, h), v.replies = <<>>, NEW moved
  PROVE  Good(v, pass_thru_directory_message(v, moved), h)
<1> DEFINE out == [v EXCEPT !.storage = @ \ moved, !.transferred = {}]
           s == IF 0 \in moved THEN Reply(out, "passed", {}) ELSE out
           p == moved # v.transferred
           w == Meet(s, p, "refused")
<1>1. pass_thru_directory_message(v, moved) = w
  BY DEF pass_thru_directory_message
<1>2. v \in VfsState
  BY DEF TablesInv
<1>3. /\ out \in VfsState /\ SameTables(v, out) /\ out.replies = v.replies /\ out.locked = v.locked
      /\ out.storage = v.storage \ moved /\ out.transferred = {}
  BY <1>2 DEF VfsState, SameTables
<1> HIDE DEF out
<1>4. /\ s \in VfsState /\ SameTables(v, s) /\ s.locked = v.locked /\ s.storage = v.storage \ moved
      /\ s.transferred = {}
      /\ \/ 0 \in moved /\ s.replies = Append(<<>>, [status |-> "passed", gives |-> {}])
         \/ 0 \notin moved /\ s.replies = <<>>
  <2>1. CASE 0 \in moved
    <3> DEFINE y == Reply(out, "passed", {})
    <3>1. "passed" \in Status
      BY DEF Status
    <3>2. /\ y \in VfsState /\ SameTables(out, y)
          /\ y.replies = Append(out.replies, [status |-> "passed", gives |-> {}])
          /\ y.locked = out.locked /\ y.storage = out.storage /\ y.transferred = out.transferred
      BY <1>3, <3>1, ReplyState
    <3>3. s = y
      BY <2>1
    <3> HIDE DEF y, s
    <3> QED
      BY <1>3, <2>1, <3>2, <3>3 DEF SameTables
  <2>2. CASE 0 \notin moved
    BY <1>3, <2>2
  <2> QED
    BY <2>1, <2>2
<1>5. p \in BOOLEAN /\ "refused" \in AllCalls
  BY DEF AllCalls
<1> HIDE DEF s
<1>6. w \in VfsState /\ (p => "refused" \in w.met)
  BY <1>4, <1>5, MetState
<1>7. SameTables(s, w) /\ w.locked = s.locked /\ w.storage = s.storage /\ w.transferred = s.transferred
      /\ w.replies = s.replies
  BY <1>4 DEF Meet, VfsState, SameTables
<1> HIDE DEF w
<1>8. SameTables(v, w) /\ w.locked \subseteq v.locked
  BY <1>4, <1>7 DEF SameTables
<1>9. "refused" \notin w.met => w.storage \ w.transferred \subseteq v.storage \ v.transferred
  BY <1>4, <1>6, <1>7
<1>10. w.replies = Append(<<>>, [status |-> "passed", gives |-> {}]) \/ w.replies = <<>>
  BY <1>4, <1>7
<1>11. Good(v, w, h)
  BY <1>6, <1>8, <1>9, <1>10, GoodSame
<1> QED
  BY <1>1, <1>11


-----------------------------------------------------------------------------
(***************************************************************************)
(* The steps: a message is received, handled and answered.                 *)
(***************************************************************************)
(* The situations met while a process is set up or a file system mounted   *)
(* stay noted, to the end of the message.                                  *)
LEMMA HandlersGrow ==
  ASSUME NEW v \in VfsState
  PROVE  /\ \A creator, new, flags, oom :
              Grows(v, set_up_filesystem_for_process(v, creator, new, flags, oom).vfs)
         /\ \A info, create, oom : Grows(v, mount(v, info, create, oom).vfs)
         /\ \A x, e, d : Grows(x, return_value(x, e)) /\ Grows(x, Left(x, d))
         /\ \A r : Grows(r.vfs, ReplyError(r))
<1>0. "namespaces" \in Kind /\ "infos" \in Kind
  BY DEF Kind
<1>1. ASSUME NEW creator, NEW new, NEW flags, NEW oom
      PROVE  Grows(v, set_up_filesystem_for_process(v, creator, new, flags, oom).vfs)
  <2> DEFINE a == NamespaceFor(v, creator, flags, oom)
             n == a.value
             w == a.vfs
             can == CanModify(v, creator, flags)
             data == [fs_namespace |-> n, can_modify |-> can]
             q == [w EXCEPT !.processes = Put(@, new, data)]
             o == open_root(q, n, can, oom)
             f == free_namespace(o.vfs, n)
             e == [f EXCEPT !.processes = Drop(@, new)]
             r == set_up_filesystem_for_process(v, creator, new, flags, oom)
  <2>1. r.vfs \in {w, free_namespace(w, n), e, o.vfs}
    BY DEF set_up_filesystem_for_process, WithValue
  <2>2. Grows(v, w)
    <3>1. CASE "VFS_SHARE_NAMESPACE" \in flags
      BY <3>1 DEF NamespaceFor, WithValue, Grows
    <3>2. CASE "VFS_SHARE_NAMESPACE" \notin flags
      <4>1. w = alloc_structure(v, "namespaces", NewNamespace, oom).vfs
        BY <3>2 DEF NamespaceFor, alloc_namespace
      <4>2. Grows(v, alloc_structure(v, "namespaces", NewNamespace, oom).vfs)
        BY <1>0, StructuresGrow
      <4> QED
        BY <4>1, <4>2
    <3> QED
      BY <3>1, <3>2
  <2>3. /\ Grows(w, free_namespace(w, n)) /\ Grows(w, q) /\ Grows(q, o.vfs)
        /\ Grows(o.vfs, f) /\ Grows(f, e)
    BY NamespacesGrow
  <2> HIDE DEF w, n, q, o, f, e, r
  <2> QED
    BY <2>1, <2>2, <2>3 DEF Grows, r
<1>2. ASSUME NEW info, NEW create, NEW oom PROVE Grows(v, mount(v, info, create, oom).vfs)
  <2> DEFINE n == info.namespace
             L == Lock(v, "namespaces", n)
             l == create_mounted_list_entry(L, oom)
             i == l.value
             x == mounted_list_insert(l.vfs, i, create)
             mp == [previous |-> SIZE_MAX, next |-> SIZE_MAX, enclosing |-> info.mount_point,
                    inode |-> info.inode, list |-> i]
             added == add_mount_point_to_namespace(x, n, mp, oom)
             r == IF i = SIZE_MAX THEN WithValue(l.vfs, "ENOMEM") ELSE added
             u == Unlock(r.vfs, "namespaces", n)
             a == alloc_structure(L, "lists", <<>>, oom)
             M == mount(v, info, create, oom)
  <2>1. M.vfs \in {v, u}
    BY DEF mount, WithValue
  <2>2. Grows(v, L) /\ Grows(l.vfs, x) /\ Grows(x, added.vfs) /\ Grows(r.vfs, u)
    BY <1>0, MountsGrow, StructuresGrow
  <2>3. Grows(L, l.vfs)
    <3> DEFINE f == free_structure(a.vfs, "lists", a.value)
    <3>1. "lists" \in Kind
      BY DEF Kind
    <3>2. Grows(L, a.vfs) /\ Grows(a.vfs, f)
      BY <3>1, StructuresGrow
    <3>3. l.vfs \in {a.vfs, f}
      BY DEF create_mounted_list_entry, WithValue
    <3> HIDE DEF L, l, a, f
    <3> QED
      BY <3>2, <3>3 DEF Grows
  <2>4. r.vfs \in {l.vfs, added.vfs}
    BY DEF WithValue
  <2> HIDE DEF L, l, x, added, r, u, M
  <2> QED
    BY <2>1, <2>2, <2>3, <2>4 DEF Grows, M
<1>3. \A x, e, d : Grows(x, return_value(x, e)) /\ Grows(x, Left(x, d))
  BY DEF Grows, return_value, Reply, Left, Unlock
<1>4. \A r : Grows(r.vfs, ReplyError(r))
  BY DEF Grows, ReplyError, return_value, Reply
<1> QED
  BY <1>1, <1>2, <1>3, <1>4

(* A message finds the tables as the last one left them.                   *)
LEMMA ReceivedState ==
  ASSUME VfsInv, NEW call
  PROVE  LET v == Received(call)
         IN  /\ TablesInv(v) /\ HeldInv(v, held) /\ SameTables(vfs, v)
             /\ v.replies = <<>> /\ v.met = {} /\ v.locked = vfs.locked
             /\ v.storage \ v.transferred \subseteq vfs.storage
<1> DEFINE C == Capabilities(call)
           v == [vfs EXCEPT !.storage = @ \cup C, !.transferred = C \ vfs.storage, !.replies = <<>>, !.met = {}]
<1>1. C \subseteq Nat
  BY DEF Capabilities
<1>2. vfs \in VfsState /\ TablesInv(vfs) /\ HeldInv(vfs, held)
  BY DEF VfsInv, TablesInv
<1> HIDE DEF C
<1>3. v \in VfsState
  <2>1. <<>> \in Seq(Letter)
    OBVIOUS
  <2>2. vfs.storage \in SUBSET Nat
    BY <1>2 DEF VfsState
  <2>3. C \ vfs.storage \in SUBSET Nat /\ vfs.storage \cup C \in SUBSET Nat
    BY <1>1, <2>2
  <2> QED
    BY <1>2, <2>1, <2>3 DEF VfsState
<1>4. /\ SameTables(vfs, v) /\ v.replies = <<>> /\ v.met = {} /\ v.locked = vfs.locked
      /\ v.storage = vfs.storage \cup C /\ v.transferred = C \ vfs.storage
  BY <1>2 DEF VfsState, SameTables
<1> HIDE DEF v
<1>5. TablesInv(v)
  BY <1>2, <1>3, <1>4, SameInv
<1>6. HeldInv(v, held)
  BY <1>2, <1>4 DEF HeldInv, SameTables
<1>7. v = Received(call)
  BY DEF Received, v, C
<1> QED
  BY <1>1, <1>4, <1>5, <1>6, <1>7


(* What a step does, beyond preserving the invariant.                      *)
StepOk ==
  /\ VfsInv'
  /\ vfs'.locked \subseteq vfs.locked
  /\ "refused" \notin Calls => vfs'.storage \subseteq vfs.storage
  /\ Frozen(vfs, vfs')
  /\ Unmarks(vfs, vfs')

(* A message whose handler is right makes such a step.                     *)
LEMMA HandledStep ==
  ASSUME VfsInv, NEW call, NEW w, Handled(w), Good(Received(call), w, held)
  PROVE  StepOk
<1> DEFINE v == Received(call)
           x == [w EXCEPT !.storage = @ \ w.transferred, !.transferred = {}]
<1>1. /\ TablesInv(v) /\ HeldInv(v, held) /\ SameTables(vfs, v)
      /\ v.replies = <<>> /\ v.met = {} /\ v.locked = vfs.locked
      /\ v.storage \ v.transferred \subseteq vfs.storage
  BY ReceivedState
<1>2. w.met \subseteq Calls /\ vfs' = x /\ held' = held \cup Given(w)
  BY DEF Handled, Given
<1> HIDE DEF v
<1>3. /\ TablesInv(w) /\ HeldInv(w, held \cup Given(w))
      /\ w.locked \subseteq v.locked
      /\ "refused" \notin w.met => w.storage \ w.transferred \subseteq v.storage \ v.transferred
      /\ Frozen(v, w) /\ Unmarks(v, w)
  BY DEF Good, v
<1>4. w \in VfsState
  BY <1>3 DEF TablesInv
<1>5. /\ x \in VfsState /\ SameTables(w, x) /\ x.locked = w.locked /\ x.storage = w.storage \ w.transferred
      /\ x.replies = w.replies
  BY <1>4 DEF VfsState, SameTables
<1> HIDE DEF x
<1>6. TablesInv(x) /\ HeldInv(x, held')
  <2>1. TablesInv(x)
    BY <1>3, <1>5, SameInv
  <2>2. HeldInv(x, held')
    BY <1>2, <1>3, <1>5 DEF HeldInv, SameTables
  <2> QED
    BY <2>1, <2>2
<1>7. VfsInv'
  <2>1. TablesInv(vfs') /\ HeldInv(vfs', held')
    BY <1>2, <1>6
  <2> QED
    BY <2>1 DEF VfsInv, TablesInv, HeldInv, MapsInv, NamespacesInv, Users, PointersInv, Inner, BucketsInv,
                ListsInv, InfosInv, BucketOf, MountsOf, Reached, IsClosed, VfsState
<1>8. x.locked \subseteq vfs.locked /\ ("refused" \notin Calls => x.storage \subseteq vfs.storage)
  BY <1>1, <1>2, <1>3, <1>5
<1>9. Frozen(vfs, x)
  <2>1. v.processes = vfs.processes /\ v.namespaces = vfs.namespaces /\ x.processes = w.processes /\ x.namespaces = w.namespaces
    BY <1>1, <1>5 DEF SameTables
  <2> QED
    BY <1>3, <2>1 DEF Frozen, Users, MountsIn
<1>10. Unmarks(vfs, x)
  <2>1. \A k \in Kind : MarkedEmpty(v, k) = MarkedEmpty(vfs, k)
    BY <1>1 DEF MarkedEmpty, SameTables, Kind
  <2>2. \A k \in Kind : MarkedEmpty(x, k) = MarkedEmpty(w, k)
    BY <1>5 DEF MarkedEmpty, SameTables, Kind
  <2> QED
    BY <1>3, <1>5, <2>1, <2>2 DEF Unmarks
<1>11. Frozen(vfs, vfs') /\ Unmarks(vfs, vfs')
  BY <1>2, <1>9, <1>10
<1> QED
  BY <1>2, <1>7, <1>8, <1>11 DEF StepOk


(* What the process server sends.                                          *)
LEMMA ProcessSteps ==
  ASSUME VfsInv, Calls \cap MapCalls = {}
  PROVE  /\ \A creator \in DOMAIN vfs.processes, new \in Pid : \A flags, oom :
              NewProcess(creator, new, flags, oom) => StepOk
         /\ UnknownVfsMessage => StepOk
<1>1. ASSUME NEW creator \in DOMAIN vfs.processes, NEW new \in Pid, NEW flags, NEW oom,
             NewProcess(creator, new, flags, oom)
      PROVE  StepOk
  <2> DEFINE v == Received("new_process")
             r == set_up_filesystem_for_process(v, creator, new, flags, oom)
             w == ReplyError(r)
  <2>1. Handled(w)
    BY <1>1 DEF NewProcess
  <2>2. TablesInv(v) /\ HeldInv(v, held) /\ SameTables(vfs, v) /\ v.replies = <<>>
    BY ReceivedState
  <2> HIDE DEF v
  <2>3. v \in VfsState
    BY <2>2 DEF TablesInv
  <2>4. "met" \in DOMAIN v
    BY <2>3 DEF VfsState
  <2>5. Grows(v, r.vfs) /\ Grows(r.vfs, w)
    BY <2>3, HandlersGrow
  <2>6. w.met \subseteq Calls
    BY <2>1 DEF Handled
  <2>7. r.vfs.met \cap MapCalls = {}
    <3> HIDE DEF r, w
    <3> QED
      BY <2>4, <2>5, <2>6 DEF Grows
  <2>8. creator \in DOMAIN v.processes
    BY <2>2 DEF SameTables
  <2>9. Good(v, w, held)
    BY <2>2, <2>7, <2>8, GoodSetUp
  <2> HIDE DEF w
  <2> QED
    BY <2>1, <2>9, HandledStep DEF v
<1>2. ASSUME UnknownVfsMessage PROVE StepOk
  <2> DEFINE v == Received("other")
             w == return_value(v, "EBADMSG")
  <2>1. Handled(w)
    BY <1>2 DEF UnknownVfsMessage
  <2>2. TablesInv(v) /\ HeldInv(v, held) /\ v.replies = <<>>
    BY ReceivedState
  <2>3. "EBADMSG" \in Status
    BY DEF Status
  <2> HIDE DEF v
  <2>4. Good(v, w, held)
    BY <2>2, <2>3, GoodAnswer
  <2> HIDE DEF w
  <2> QED
    BY <2>1, <2>4, HandledStep DEF v
<1> QED
  BY <1>1, <1>2

(* A handler that is right for a mount point's descriptor d makes such a   *)
(* step.                                                                   *)
LEMMA EnteredStep ==
  ASSUME VfsInv, NEW d, Info(d) \in held, NEW call, NEW w,
         LET x == Entered(Received(call), d)
         IN  /\ TablesInv(x) /\ HeldInv(x, held) /\ x.replies = <<>> /\ d \in DOMAIN x.infos
             /\ x.infos[d].mount_point = x.namespaces[x.infos[d].namespace].root
             => Good(x, w, held),
         Handled(Left(w, d))
  PROVE  StepOk
<1> DEFINE v == Received(call)
           x == Entered(v, d)
<1>1. TablesInv(v) /\ HeldInv(v, held) /\ v.replies = <<>>
  BY ReceivedState
<1>2. d \in DOMAIN v.infos /\ d \notin v.fds /\ d \in Id("infos")
  <2>1. v.infos \in Table(Id("infos"), DirectoryInfo)
    BY <1>1 DEF TablesInv, VfsState
  <2>2. Info(d).id = d /\ Info(d).of # "slot"
    BY DEF Info
  <2>3. d \in DOMAIN v.infos /\ d \notin v.fds
    BY <1>1, <2>2 DEF HeldInv
  <2> QED
    BY <2>1, <2>3, IsTable
<1> HIDE DEF v
<1>3. /\ TablesInv(x) /\ HeldInv(x, held) /\ SameButInfos(v, x, <<"infos", d>>)
      /\ x.infos[d].namespace = v.infos[d].namespace
      /\ x.infos[d].mount_point = v.namespaces[v.infos[d].namespace].root
  BY <1>1, <1>2, EnteredState
<1> HIDE DEF x
<1>4. /\ x.replies = <<>> /\ d \in DOMAIN x.infos
      /\ x.infos[d].mount_point = x.namespaces[x.infos[d].namespace].root
  BY <1>1, <1>2, <1>3 DEF SameButInfos
<1>5. Good(x, w, held)
  BY <1>3, <1>4 DEF x, v
<1>6. Good(v, Left(w, d), held)
  BY <1>2, <1>3, <1>5, GoodAround
<1> QED
  BY <1>6, HandledStep DEF v


(* A message is not handled where it meets what Calls leaves out.          *)
LEMMA NotLost ==
  ASSUME NEW v \in VfsState, NEW c \in AllCalls \ Calls
  PROVE  ~Handled(Meet(v, TRUE, c))
<1> DEFINE p == TRUE
           w == Meet(v, p, c)
<1>1. p \in BOOLEAN /\ p
  OBVIOUS
<1> HIDE DEF p
<1>2. c \in w.met
  BY <1>1, MetState
<1> HIDE DEF w
<1>3. ~Handled(w)
  BY <1>2 DEF Handled
<1> QED
  BY <1>3 DEF w, p

(* A root or mount point that is looked at is there.                       *)
LEMMA HasRoot ==
  ASSUME VfsInv, NEW d, Info(d) \in held, NEW call, NEW w, "unset_root" \notin Calls,
         Handled(AtRoot(Entered(Received(call), d), d, w))
  PROVE  LET x == Entered(Received(call), d)
         IN  /\ x.infos[d].mount_point # SIZE_MAX /\ x.infos[d].mount_point \in DOMAIN x.mount_points
             /\ Handled(w)
<1> DEFINE v == Received(call)
           x == Entered(v, d)
           n == vfs.infos[d].namespace
<1>1. TablesInv(v) /\ HeldInv(v, held) /\ SameTables(vfs, v)
  BY ReceivedState
<1>2. TablesInv(vfs) /\ HeldInv(vfs, held)
  BY DEF VfsInv
<1>3. v.infos = vfs.infos /\ v.fds = vfs.fds /\ v.namespaces = vfs.namespaces
  BY <1>1 DEF SameTables
<1>4. d \in DOMAIN vfs.infos /\ d \notin vfs.fds
  <2>1. Info(d).id = d /\ Info(d).of # "slot"
    BY DEF Info
  <2> QED
    BY <1>2, <2>1 DEF HeldInv
<1> HIDE DEF v
<1>5. /\ TablesInv(x) /\ SameButInfos(v, x, <<"infos", d>>)
      /\ x.infos[d].namespace = v.infos[d].namespace
      /\ x.infos[d].mount_point = v.namespaces[v.infos[d].namespace].root
  BY <1>1, <1>3, <1>4, EnteredState
<1>6. Handled(AtRoot(x, d, w))
  BY DEF v
<1> HIDE DEF x
<1>7. x.infos[d].mount_point # SIZE_MAX /\ Handled(w)
  <2>1. x \in VfsState /\ "unset_root" \in AllCalls \ Calls
    BY <1>5 DEF TablesInv, AllCalls, LostCalls
  <2>2. x.infos[d].mount_point # SIZE_MAX
    BY <1>6, <2>1, NotLost DEF AtRoot
  <2> QED
    BY <1>6, <2>2 DEF AtRoot
<1>8. x.infos[d].mount_point = vfs.namespaces[n].root /\ x.namespaces = vfs.namespaces
  BY <1>3, <1>5 DEF SameButInfos
<1>9. n \in DOMAIN vfs.namespaces
  BY <1>2, <1>4 DEF TablesInv, InfosInv
<1>10. vfs.namespaces[n].root \in DOMAIN x.mount_points
  BY <1>5, <1>7, <1>8, <1>9 DEF TablesInv, PointersInv, Optional
<1> QED
  BY <1>7, <1>8, <1>10 DEF x, v

(* A message for a proxied directory is handled where it is meant to be.   *)
LEMMA IsDirected ==
  ASSUME VfsInv, NEW call, NEW w, "misdirected" \notin Calls, Handled(Directed(call, w))
  PROVE  Handled(w)
<1> DEFINE v == Received(call)
<1>1. v \in VfsState
  BY ReceivedState DEF TablesInv
<1>2. "misdirected" \in AllCalls \ Calls
  BY DEF AllCalls, LostCalls
<1> HIDE DEF v
<1>3. ~Handled(Meet(v, TRUE, "misdirected"))
  BY <1>1, <1>2, NotLost
<1>4. CASE "as_tested" \in Calls
  BY <1>4 DEF Directed
<1>5. CASE "as_tested" \notin Calls
  BY <1>3, <1>5 DEF Directed, v
<1> QED
  BY <1>4, <1>5

(* FD_MOUNT for the descriptor of a root or mount point.                   *)
LEMMA MountSteps ==
  ASSUME VfsInv, Calls \cap MapCalls = {}, NEW d, Info(d) \in held
  PROVE  \A create \in BOOLEAN : \A oom : MountPointMount(d, create, oom) => StepOk
<1> SUFFICES ASSUME NEW create \in BOOLEAN, NEW oom, MountPointMount(d, create, oom) PROVE StepOk
  OBVIOUS
<1> DEFINE x == Entered(Received("mount"), d)
           r == mount(x, x.infos[d], create, oom)
           w == return_value(r.vfs, r.value)
<1>1. Handled(Left(w, d))
  BY DEF MountPointMount
<1>2. ASSUME TablesInv(x), HeldInv(x, held), x.replies = <<>>, d \in DOMAIN x.infos,
             x.infos[d].mount_point = x.namespaces[x.infos[d].namespace].root
      PROVE  Good(x, w, held)
  <2> HIDE DEF x
  <2>1. x \in VfsState
    BY <1>2 DEF TablesInv
  <2>2. Grows(x, r.vfs) /\ Grows(r.vfs, w) /\ Grows(w, Left(w, d))
    BY <2>1, HandlersGrow
  <2>3. Left(w, d).met \subseteq Calls
    BY <1>1 DEF Handled
  <2>4. "met" \in DOMAIN x
    BY <2>1 DEF VfsState
  <2>5. r.vfs.met \cap MapCalls = {}
    <3> HIDE DEF r, w
    <3> QED
      BY <2>2, <2>3, <2>4 DEF Grows
  <2> QED
    BY <1>2, <2>5, GoodMount
<1> HIDE DEF w
<1> QED
  BY <1>1, <1>2, EnteredStep

(* What clients send to the descriptor of a root or mount point.           *)
LEMMA MountPointSteps ==
  ASSUME VfsInv, SoundCalls, NEW d, Info(d) \in held
  PROVE  /\ \A call \in {"read", "unmount", "write", "truncate", "other"} : MountPointRefuse(d, call) => StepOk
         /\ MountPointStat(d) => StepOk
         /\ \A answer : MountPointLink(d, answer) \/ MountPointUnlink(d, answer) => StepOk
         /\ \A first, second \in Answer : \A flags, oom :
              MountPointOpen(d, flags, [first |-> first, second |-> second, oom |-> oom]) => StepOk
         /\ \A create \in BOOLEAN : \A oom : MountPointMount(d, create, oom) => StepOk
<1>0. "unset_root" \notin Calls /\ Calls \cap MapCalls = {}
  BY DEF SoundCalls, LostCalls
<1>1. ASSUME NEW call \in {"read", "unmount", "write", "truncate", "other"}, MountPointRefuse(d, call)
      PROVE  StepOk
  <2> DEFINE x == Entered(Received(call), d)
             e == MountPointRefusal(call)
             w == return_value(x, e)
  <2>1. Handled(Left(w, d))
    BY <1>1 DEF MountPointRefuse
  <2>2. e \in Status
    BY <1>1 DEF MountPointRefusal, Status
  <2>3. TablesInv(x) /\ HeldInv(x, held) /\ x.replies = <<>> => Good(x, w, held)
    <3> HIDE DEF x, e
    <3> QED
      BY <2>2, GoodAnswer
  <2> HIDE DEF w
  <2> QED
    BY <2>1, <2>3, EnteredStep
<1>2. ASSUME MountPointStat(d) PROVE StepOk
  <2> DEFINE x == Entered(Received("stat"), d)
             w == return_value(x, "ok")
  <2>1. Handled(Left(w, d))
    BY <1>2 DEF MountPointStat
  <2>2. TablesInv(x) /\ HeldInv(x, held) /\ x.replies = <<>> => Good(x, w, held)
    <3> HIDE DEF x
    <3>1. "ok" \in Status
      BY DEF Status
    <3> QED
      BY <3>1, GoodAnswer
  <2> HIDE DEF w
  <2> QED
    BY <2>1, <2>2, EnteredStep
<1>3. ASSUME NEW answer, MountPointLink(d, answer) PROVE StepOk
  <2> DEFINE x == Entered(Received("link"), d)
             m == x.infos[d].mount_point
             w == LinkAll(x, m, TRUE, answer)
  <2>1. Handled(AtRoot(x, d, Left(w, d)))
    BY <1>3 DEF MountPointLink, mount_point_link
  <2>2. m \in DOMAIN x.mount_points /\ Handled(Left(w, d))
    BY <2>1, <1>0, HasRoot
  <2>3. TablesInv(x) /\ HeldInv(x, held) /\ x.replies = <<>> => Good(x, w, held)
    <3> HIDE DEF x, m
    <3> QED
      BY <2>2, GoodLinkAll
  <2> HIDE DEF w
  <2> QED
    BY <2>2, <2>3, EnteredStep
<1>4. ASSUME NEW answer, MountPointUnlink(d, answer) PROVE StepOk
  <2> DEFINE x == Entered(Received("unlink"), d)
             m == x.infos[d].mount_point
             w == LinkAll(x, m, FALSE, answer)
  <2>1. Handled(AtRoot(x, d, Left(w, d)))
    BY <1>4 DEF MountPointUnlink, mount_point_unlink
  <2>2. m \in DOMAIN x.mount_points /\ Handled(Left(w, d))
    BY <2>1, <1>0, HasRoot
  <2>3. TablesInv(x) /\ HeldInv(x, held) /\ x.replies = <<>> => Good(x, w, held)
    <3> HIDE DEF x, m
    <3> QED
      BY <2>2, GoodLinkAll
  <2> HIDE DEF w
  <2> QED
    BY <2>2, <2>3, EnteredStep
<1>5. ASSUME NEW flags, NEW first \in Answer, NEW second \in Answer, NEW oom,
             MountPointOpen(d, flags, [first |-> first, second |-> second, oom |-> oom])
      PROVE  StepOk
  <2> DEFINE x == Entered(Received("open"), d)
             env == [first |-> first, second |-> second, oom |-> oom]
             w == mount_point_open(x, x.infos[d], flags, env)
  <2>1. Handled(AtRoot(x, d, Left(w, d)))
    BY <1>5 DEF MountPointOpen
  <2>2. x.infos[d].mount_point # SIZE_MAX /\ Handled(Left(w, d))
    BY <2>1, <1>0, HasRoot
  <2>3. env.first \in Answer /\ env.second \in Answer
    OBVIOUS
  <2>4. ASSUME TablesInv(x), HeldInv(x, held), x.replies = <<>>, d \in DOMAIN x.infos
        PROVE  Good(x, w, held)
    <3>1. "met" \in DOMAIN w /\ (w.met \cap MapCalls = {} => Good(x, w, held))
      <4> HIDE DEF x, env
      <4> QED
        BY <2>2, <2>3, <2>4, GoodMountPointOpen
    <3> HIDE DEF w
    <3>2. Left(w, d).met \subseteq Calls
      BY <2>2 DEF Handled
    <3>3. Left(w, d).met = w.met
      BY <3>1 DEF Left, Unlock
    <3> QED
      BY <1>0, <3>1, <3>2, <3>3
  <2> HIDE DEF w
  <2> QED
    BY <2>2, <2>4, EnteredStep
<1>6. \A create \in BOOLEAN : \A oom : MountPointMount(d, create, oom) => StepOk
  BY MountSteps DEF SoundCalls
<1> QED
  BY <1>1, <1>2, <1>3, <1>4, <1>5, <1>6

(* What clients send to the descriptor of a proxied directory.             *)
LEMMA DirectorySteps ==
  ASSUME VfsInv, SoundCalls, NEW d, SlotNr(d) \in held
  PROVE  /\ \A call, moved : DirectoryPassThru(d, call, moved) => StepOk
         /\ \A answer \in Answer : \A oom :
              DirectoryOpen(d, [first |-> answer, second |-> answer, oom |-> oom]) => StepOk
         /\ \A call : DirectoryRefuse(d, call) => StepOk
<1>0. "misdirected" \notin Calls /\ "mount_proxied" \notin Calls /\ Calls \cap MapCalls = {}
  BY DEF SoundCalls, LostCalls
<1>1. ASSUME NEW call, NEW moved, DirectoryPassThru(d, call, moved) PROVE StepOk
  <2> DEFINE v == Received(call)
             w == pass_thru_directory_message(v, moved)
  <2>1. Handled(w)
    <3>1. Handled(Directed(call, w))
      BY <1>1 DEF DirectoryPassThru
    <3> HIDE DEF w
    <3> QED
      BY <1>0, <3>1, IsDirected
  <2>2. TablesInv(v) /\ HeldInv(v, held) /\ v.replies = <<>>
    BY ReceivedState
  <2> HIDE DEF v
  <2>3. Good(v, w, held)
    BY <2>2, GoodPassThru
  <2> HIDE DEF w
  <2> QED
    BY <2>1, <2>3, HandledStep DEF v
<1>2. ASSUME NEW answer \in Answer, NEW oom,
             DirectoryOpen(d, [first |-> answer, second |-> answer, oom |-> oom])
      PROVE  StepOk
  <2> DEFINE v == Received("open")
             env == [first |-> answer, second |-> answer, oom |-> oom]
             w == directory_open(v, d, env)
  <2>1. Handled(w)
    <3>1. Handled(Directed("open", w))
      BY <1>2 DEF DirectoryOpen
    <3> HIDE DEF w
    <3> QED
      BY <1>0, <3>1, IsDirected
  <2>2. TablesInv(v) /\ HeldInv(v, held) /\ v.replies = <<>>
    BY ReceivedState
  <2>3. env.first \in Answer
    OBVIOUS
  <2> HIDE DEF v, env
  <2>4. d \in DOMAIN v.infos /\ d \in v.fds
    <3>1. SlotNr(d).id = d /\ SlotNr(d).of = "slot"
      BY DEF SlotNr
    <3> QED
      BY <2>2, <3>1 DEF HeldInv
  <2>5. w.met \cap MapCalls = {}
    BY <1>0, <2>1 DEF Handled
  <2>6. Good(v, w, held)
    BY <2>2, <2>3, <2>4, <2>5, GoodDirectoryOpen
  <2> HIDE DEF w
  <2> QED
    BY <2>1, <2>6, HandledStep DEF v
<1>3. ASSUME NEW call, DirectoryRefuse(d, call) PROVE StepOk
  <2> DEFINE v == Received(call)
             e == DirectoryRefusal(call)
             w == return_value(v, e)
             u == IF call = "mount" THEN Meet(v, TRUE, "mount_proxied") ELSE w
  <2>0. TablesInv(v) /\ HeldInv(v, held) /\ v.replies = <<>> /\ v \in VfsState
    BY ReceivedState DEF TablesInv
  <2>1. Handled(u)
    <3>1. Handled(Directed(call, u))
      BY <1>3 DEF DirectoryRefuse
    <3> HIDE DEF u
    <3> QED
      BY <1>0, <3>1, IsDirected
  <2>2. call # "mount"
    <3>1. "mount_proxied" \in AllCalls \ Calls
      BY <1>0 DEF AllCalls, LostCalls
    <3> HIDE DEF v
    <3> QED
      BY <2>0, <2>1, <3>1, NotLost
  <2>3. e \in Status /\ Handled(w)
    BY <2>1, <2>2 DEF Status, DirectoryRefusal
  <2> HIDE DEF v, e
  <2>4. Good(v, w, held)
    BY <2>0, <2>3, GoodAnswer
  <2> HIDE DEF w
  <2> QED
    BY <2>3, <2>4, HandledStep DEF v
<1> QED
  BY <1>1, <1>2, <1>3


(* Every message makes such a step.                                        *)
LEMMA NextStep ==
  ASSUME VfsInv, SoundCalls, Next
  PROVE  StepOk
<1>1. ASSUME NEW b \in held
      PROVE  (b.of = "info" => Info(b.id) \in held) /\ (b.of = "slot" => SlotNr(b.id) \in held)
  <2>1. b \in Descriptor
    BY DEF VfsInv, HeldInv
  <2>2. b = [of |-> b.of, id |-> b.id]
    BY <2>1 DEF Descriptor
  <2>3. b.of = "info" => b = Info(b.id)
    BY <2>2 DEF Info
  <2>4. b.of = "slot" => b = SlotNr(b.id)
    BY <2>2 DEF SlotNr
  <2> QED
    BY <2>3, <2>4
<1>2. CASE \E creator \in DOMAIN vfs.processes, new \in Pid, flags \in SUBSET Flags,
              oom \in Oom({"namespaces", "process", "infos"}) : NewProcess(creator, new, flags, oom)
  BY <1>2, ProcessSteps DEF SoundCalls
<1>3. CASE UnknownVfsMessage
  BY <1>3, ProcessSteps DEF SoundCalls
<1>4. ASSUME NEW b \in held, b.of = "info",
             \/ \E call \in {"read", "unmount", "write", "truncate", "other"} : MountPointRefuse(b.id, call)
             \/ MountPointStat(b.id)
             \/ \E answer \in Answer : MountPointLink(b.id, answer) \/ MountPointUnlink(b.id, answer)
             \/ \E flags \in SUBSET OpenFlags, first, second \in Answer, oom \in DirectoryOom :
                  MountPointOpen(b.id, flags, [first |-> first, second |-> second, oom |-> oom])
             \/ \E create \in BOOLEAN, oom \in Oom({"lists", "list_node", "mount_points"}) :
                  MountPointMount(b.id, create, oom)
      PROVE  StepOk
  <2> DEFINE d == b.id
  <2>1. Info(d) \in held
    BY <1>1, <1>4
  <2>2. /\ \A call \in {"read", "unmount", "write", "truncate", "other"} : MountPointRefuse(d, call) => StepOk
        /\ MountPointStat(d) => StepOk
        /\ \A answer : MountPointLink(d, answer) \/ MountPointUnlink(d, answer) => StepOk
        /\ \A first, second \in Answer : \A flags, oom :
             MountPointOpen(d, flags, [first |-> first, second |-> second, oom |-> oom]) => StepOk
        /\ \A create \in BOOLEAN : \A oom : MountPointMount(d, create, oom) => StepOk
    <3> HIDE DEF d
    <3> QED
      BY <2>1, MountPointSteps
  <2>3. CASE \E call \in {"read", "unmount", "write", "truncate", "other"} : MountPointRefuse(d, call)
    BY <2>2, <2>3
  <2>4. CASE MountPointStat(d) \/ \E answer \in Answer : MountPointLink(d, answer) \/ MountPointUnlink(d, answer)
    BY <2>2, <2>4
  <2>5. CASE \E flags \in SUBSET OpenFlags, first, second \in Answer, oom \in DirectoryOom :
               MountPointOpen(d, flags, [first |-> first, second |-> second, oom |-> oom])
    BY <2>2, <2>5
  <2>6. CASE \E create \in BOOLEAN, oom \in Oom({"lists", "list_node", "mount_points"}) :
               MountPointMount(d, create, oom)
    <3>1. PICK create \in BOOLEAN, oom \in Oom({"lists", "list_node", "mount_points"}) : MountPointMount(d, create, oom)
      BY <2>6
    <3> QED
      BY <2>2, <3>1
  <2> QED
    BY <1>4, <2>3, <2>4, <2>5, <2>6
<1>5. ASSUME NEW b \in held, b.of = "slot",
             \/ \E call \in {"read", "stat", "link", "unlink"} :
                  \E moved \in SUBSET Capabilities(call) : DirectoryPassThru(b.id, call, moved)
             \/ \E answer \in Answer, oom \in DirectoryOom :
                  DirectoryOpen(b.id, [first |-> answer, second |-> answer, oom |-> oom])
             \/ \E call \in {"write", "truncate", "mount", "unmount", "other"} : DirectoryRefuse(b.id, call)
      PROVE  StepOk
  <2> DEFINE d == b.id
  <2>1. SlotNr(d) \in held
    BY <1>1, <1>5
  <2>2. /\ \A call, moved : DirectoryPassThru(d, call, moved) => StepOk
        /\ \A answer \in Answer : \A oom :
             DirectoryOpen(d, [first |-> answer, second |-> answer, oom |-> oom]) => StepOk
        /\ \A call : DirectoryRefuse(d, call) => StepOk
    <3> HIDE DEF d
    <3> QED
      BY <2>1, DirectorySteps
  <2> QED
    BY <1>5, <2>2
<1> QED
  BY <1>2, <1>3, <1>4, <1>5 DEF Next

(* A structure is allocated where there is a slot and memory for it.       *)
LEMMA AllocSucceeds ==
  ASSUME NEW v \in VfsState, NEW kind \in Kind, NEW x, NEW oom, FreeIds(v, kind) # {},
         ~AllocFails(v, kind, oom)
  PROVE  LET r == alloc_structure(v, kind, x, oom)
         IN  r.vfs.met = v.met /\ r.value = SlotFor(v, kind) /\ r.value # SIZE_MAX
<1> DEFINE i == SlotFor(v, kind)
           s == Marked(v, kind, i)
<1>1. i \in Id(kind)
  BY FoundSlot
<1>2. i \in Nat /\ i # SIZE_MAX
  BY <1>1, SlotNumbers
<1>3. s \in VfsState /\ s.met = v.met
  BY <1>2, MarkedState
<1>4. SlotTaken(v, kind) = s
  <2>1. SlotTaken(v, kind) = Meet(s, FALSE, "full_map")
    BY DEF SlotTaken, Marked
  <2>2. FALSE \in BOOLEAN /\ "full_map" \in AllCalls
    BY DEF AllCalls
  <2> HIDE DEF s
  <2> QED
    BY <1>3, <2>1, <2>2, MetState
<1>5. alloc_structure(v, kind, x, oom) = WithValue([s EXCEPT ![kind] = Put(@, i, x)], i)
  BY <1>4 DEF alloc_structure
<1> HIDE DEF s
<1>6. [s EXCEPT ![kind] = Put(@, i, x)].met = v.met
  BY <1>3 DEF VfsState, Kind
<1> QED
  BY <1>2, <1>5, <1>6 DEF WithValue


(* The server starts with empty tables, which satisfy the invariant.       *)
LEMMA EmptyInv == TablesInv(Empty)
<1>1. ASSUME NEW S, NEW T PROVE [x \in {} |-> {}] \in Table(S, T)
  <2> DEFINE f == [x \in {} |-> {}]
  <2>1. f = [x \in DOMAIN f |-> f[x]] /\ DOMAIN f \subseteq S /\ \A x \in DOMAIN f : f[x] \in T
    OBVIOUS
  <2> HIDE DEF f
  <2>2. f \in Table(S, T)
    BY <2>1, IsTable
  <2> QED
    BY <2>2 DEF f
<1>2. /\ DOMAIN Empty.processes = {} /\ DOMAIN Empty.namespaces = {} /\ DOMAIN Empty.mount_points = {}
      /\ DOMAIN Empty.lists = {} /\ DOMAIN Empty.infos = {} /\ Empty.fds = {}
      /\ Empty.used = [k \in Kind |-> {}]
  BY DEF Empty
<1>3. Empty \in VfsState
  <2> DEFINE f == [x \in {} |-> {}]
             s == <<>>
  <2>1. /\ f \in Table(Pid, ProcessData) /\ f \in Table(Id("namespaces"), Namespace)
        /\ f \in Table(Id("mount_points"), MountPoint) /\ f \in Table(Id("lists"), MountedList)
        /\ f \in Table(Id("infos"), DirectoryInfo)
    BY <1>1
  <2>2. [k \in Kind |-> {}] \in [Kind -> SUBSET Nat] /\ s \in Seq(Letter)
    OBVIOUS
  <2>3. Empty = [used |-> [k \in Kind |-> {}], processes |-> f, namespaces |-> f, mount_points |-> f,
                 lists |-> f, infos |-> f, fds |-> {}, locked |-> {}, storage |-> {}, transferred |-> {},
                 replies |-> s, met |-> {}]
    BY DEF Empty
  <2> HIDE DEF f, s
  <2> QED
    BY <2>1, <2>2, <2>3 DEF VfsState
<1>4. MapsInv(Empty)
  <2>1. \A k \in Kind : DOMAIN Empty[k] = {}
    BY <1>2 DEF Kind
  <2> QED
    BY <1>2, <2>1 DEF MapsInv
<1>5. NamespacesInv(Empty)
  BY <1>2, FS_EmptySet DEF NamespacesInv
<1>6. PointersInv(Empty) /\ ListsInv(Empty) /\ InfosInv(Empty)
  BY <1>2 DEF PointersInv, ListsInv, InfosInv
<1>7. BucketsInv(Empty)
  BY <1>2 DEF BucketsInv
<1> QED
  BY <1>3, <1>4, <1>5, <1>6, <1>7 DEF TablesInv

(* There is room for the first process, and its root has the first slot.   *)
LEMMA FirstProcess ==
  LET r == set_up_filesystem_for_process(Empty, 1, 1, {}, {})
  IN  r.value = "ok" /\ r.vfs.met = {} /\ SlotFor(Empty, "infos") = 0
<1> DEFINE n == SlotFor(Empty, "namespaces")
           a == alloc_structure(Empty, "namespaces", NewNamespace, {})
           w == a.vfs
           can == CanModify(Empty, 1, {})
           data == [fs_namespace |-> n, can_modify |-> can]
           q == [w EXCEPT !.processes = Put(@, 1, data)]
           l == Lock(q, "namespaces", n)
           root == RootOf(n, can, q.namespaces[n].root)
           b == alloc_structure(l, "infos", root, {})
           u == Unlock(badge_and_send(b.vfs, Info(b.value)), "namespaces", n)
           o == open_root(q, n, can, {})
           r == set_up_filesystem_for_process(Empty, 1, 1, {}, {})
<1>0. {"namespaces", "infos"} \subseteq Kind /\ Empty \in VfsState /\ can \in BOOLEAN
  BY EmptyInv DEF TablesInv, Kind, CanModify
<1>1. \A k \in Kind : FreeIds(Empty, k) = Id(k) /\ DOMAIN Empty[k] = {} /\ Empty.used[k] = {}
  BY DEF FreeIds, Empty, Kind
<1>2. \A k \in Kind : FreeIds(Empty, k) # {} /\ ~AllocFails(Empty, k, {})
  BY <1>1, SlotNumbers DEF AllocFails
<1>3. SlotFor(Empty, "infos") = 0
  <2>1. FreeIds(Empty, "infos") = Id("infos") /\ 0 \in Id("infos") /\ Id("infos") \subseteq Nat
    BY <1>0, <1>1, SlotNumbers
  <2>2. \A x \in Id("infos") : 0 <= x
    BY <2>1
  <2>3. Min(Id("infos")) = 0
    BY <2>1, <2>2 DEF Min
  <2> QED
    BY <2>1, <2>3 DEF SlotFor
<1>4. w.met = Empty.met /\ a.value = n /\ n # SIZE_MAX
  BY <1>0, <1>2, AllocSucceeds
<1>5. Empty.met = {} /\ DOMAIN Empty.processes = {} /\ Empty.processes \in Table(Pid, ProcessData)
  BY <1>0 DEF Empty, VfsState
<1>6. n \in Id("namespaces") \ Empty.used["namespaces"] /\ w = Allocated(Empty, "namespaces", n, NewNamespace)
  BY <1>0, <1>4, <1>5, AllocStructure
<1>7. /\ w \in VfsState /\ w.used = [Empty.used EXCEPT !["namespaces"] = @ \cup {n}]
      /\ w["namespaces"] = Put(Empty["namespaces"], n, NewNamespace)
      /\ \A f \in VfsFields \ {"used"} : f # "namespaces" => w[f] = Empty[f]
  <2>1. NewNamespace \in StructOf("namespaces")
    BY NewNamespaceType DEF StructOf
  <2>2. /\ Allocated(Empty, "namespaces", n, NewNamespace) \in VfsState
        /\ Allocated(Empty, "namespaces", n, NewNamespace).used = [Empty.used EXCEPT !["namespaces"] = @ \cup {n}]
        /\ Allocated(Empty, "namespaces", n, NewNamespace)["namespaces"] = Put(Empty["namespaces"], n, NewNamespace)
        /\ \A f \in VfsFields \ {"used"} : f # "namespaces" => Allocated(Empty, "namespaces", n, NewNamespace)[f] = Empty[f]
    <3> HIDE DEF n
    <3> QED
      BY <1>0, <1>6, <2>1, AllocatedState
  <2> QED
    BY <1>6, <2>2
<1>8. NamespaceFor(Empty, 1, {}, {}) = a
  BY DEF NamespaceFor, alloc_namespace
<1>9. r = IF o.value # "ok" THEN WithValue([free_namespace(o.vfs, n) EXCEPT !.processes = Drop(@, 1)], o.value) ELSE o
  BY <1>4, <1>5, <1>8 DEF set_up_filesystem_for_process
<1> HIDE DEF n, a, can
<1>10. /\ w.processes = Empty.processes /\ w.infos = Empty.infos /\ w.met = {}
       /\ w.used["infos"] = {}
  <2>1. w.processes = Empty.processes /\ w.infos = Empty.infos
    BY <1>7 DEF VfsFields
  <2>2. Empty.used \in [Kind -> SUBSET Nat]
    BY <1>0 DEF VfsState
  <2> QED
    BY <1>0, <1>1, <1>4, <1>5, <1>7, <2>1, <2>2
<1> HIDE DEF w
<1>11. q \in VfsState /\ q.infos = Empty.infos /\ q.used["infos"] = {} /\ q.met = {} /\ q.namespaces = w.namespaces
  <2> DEFINE t == Put(w.processes, 1, data)
  <2>1. data \in ProcessData
    BY <1>0, <1>6 DEF ProcessData
  <2>2. t \in Table(Pid, ProcessData)
    <3> HIDE DEF data
    <3> QED
      BY <1>5, <1>10, <2>1, PutTable, VfsAssumption
  <2>3. q = WithProcesses(w, t)
    BY <1>7 DEF VfsState, WithProcesses
  <2> HIDE DEF q, t
  <2>4. /\ WithProcesses(w, t) \in VfsState
        /\ \A f \in VfsFields : f # "processes" => WithProcesses(w, t)[f] = w[f]
    BY <1>7, <2>2, ProcessState
  <2>5. q.infos = w.infos /\ q.used = w.used /\ q.met = w.met /\ q.namespaces = w.namespaces
    BY <2>3, <2>4 DEF VfsFields
  <2> QED
    BY <1>10, <2>3, <2>4, <2>5
<1> HIDE DEF q
<1>12. l \in VfsState /\ SameButLocks(q, l)
  <2>1. "namespaces" \in Kind /\ n \in Nat
    BY <1>0, <1>6, SlotNumbers
  <2> QED
    BY <1>11, <2>1, LockState
<1> HIDE DEF l
<1>13. l.infos = Empty.infos /\ l.used["infos"] = {} /\ l.met = {}
  BY <1>11, <1>12 DEF SameButLocks, SameTables
<1>14. FreeIds(l, "infos") # {} /\ ~AllocFails(l, "infos", {})
  <2>1. FreeIds(l, "infos") # {}
    BY <1>0, <1>13, SlotNumbers DEF FreeIds
  <2>2. DOMAIN l["infos"] = {}
    BY <1>13 DEF Empty
  <2> QED
    BY <2>1, <2>2 DEF AllocFails
<1>15. b.vfs.met = {} /\ b.value # SIZE_MAX
  <2>1. b.vfs.met = l.met /\ b.value # SIZE_MAX
    <3> HIDE DEF root
    <3>1. "infos" \in Kind
      BY <1>0
    <3> QED
      BY <1>12, <1>14, <3>1, AllocSucceeds
  <2> QED
    BY <1>13, <2>1
<1>16. "met" \in DOMAIN b.vfs
  <2>1. Grows(l, b.vfs)
    BY <1>0, StructuresGrow
  <2>2. "met" \in DOMAIN l
    BY <1>12 DEF VfsState
  <2> QED
    BY <2>1, <2>2 DEF Grows
<1>17. o = IF b.value = SIZE_MAX THEN WithValue(b.vfs, "ENOMEM") ELSE WithValue(u, "ok")
  BY DEF open_root, l, RootOf
<1> HIDE DEF b
<1>18. u.met = {}
  BY <1>15, <1>16 DEF Unlock, badge_and_send, Reply
<1> HIDE DEF u, o, r
<1>19. o.value = "ok" /\ o.vfs = u
  BY <1>15, <1>17 DEF WithValue
<1>20. r = o
  BY <1>9, <1>19
<1> QED
  BY <1>3, <1>18, <1>19, <1>20 DEF r

(* Init satisfies the invariant, with nothing held.                        *)
LEMMA InitInv ==
  ASSUME Init
  PROVE  VfsInv /\ vfs.locked = {} /\ vfs.storage = {}
<1> DEFINE p == 1
           none == {}
           r == set_up_filesystem_for_process(Empty, p, p, none, none)
<1>1. r.value = "ok" /\ r.vfs.met = {} /\ SlotFor(Empty, "infos") = 0
  BY FirstProcess
<1>2. TablesInv(Empty) /\ Empty \in VfsState
  BY EmptyInv DEF TablesInv
<1>3. DOMAIN Empty.namespaces = {} /\ Empty.fds = {} /\ Empty.locked = {} /\ Empty.storage = {} /\ DOMAIN Empty.infos = {}
  BY DEF Empty
<1>4. p \in Pid /\ "VFS_SHARE_NAMESPACE" \notin none
  BY VfsAssumption
<1>5. vfs = r.vfs /\ held = {Info(0)}
  BY DEF Init
<1>6. \A n \in DOMAIN Empty.namespaces : Empty.namespaces[n].references > 0
  BY <1>3
<1> HIDE DEF p, none
<1>7. /\ r.vfs \in VfsState /\ Quiet(Empty, r.vfs)
      /\ \E n \in Id("namespaces") : SetUpDone(Empty, r.vfs, n, p, p, none)
  <2>1. r.vfs.met \cap MapCalls = {} /\ r.value # "ENOMEM"
    BY <1>1
  <2>2. /\ r.vfs \in VfsState /\ Quiet(Empty, r.vfs)
        /\ \/ r.value = "ENOMEM" /\ SameTables(Empty, r.vfs) /\ r.vfs.replies = Empty.replies
           \/ r.value = "ok" /\ \E n \in Id("namespaces") : SetUpDone(Empty, r.vfs, n, p, p, none)
    BY <1>2, <1>4, <1>6, <2>1, SetUp
  <2> QED
    BY <2>1, <2>2
<1> HIDE DEF r
<1>8. PICK n \in Id("namespaces") : SetUpDone(Empty, r.vfs, n, p, p, none)
  BY <1>7
<1>9. TablesInv(r.vfs)
  BY <1>2, <1>4, <1>7, <1>8, SetUpInv
<1>10. r.vfs.fds = {} /\ 0 \in DOMAIN r.vfs.infos
  BY <1>1, <1>3, <1>8 DEF SetUpDone, Put
<1>11. HeldInv(r.vfs, {Info(0)})
  <2>1. 0 \in Id("infos")
    BY SlotNumbers DEF Kind
  <2>2. Info(0) \in Descriptor /\ Info(0).of = "info" /\ Info(0).id = 0
    BY <2>1, DescriptorTypes
  <2> HIDE DEF Info
  <2> QED
    BY <1>10, <2>2 DEF HeldInv
<1> QED
  BY <1>3, <1>5, <1>7, <1>9, <1>11 DEF VfsInv, Quiet


-----------------------------------------------------------------------------
(***************************************************************************)
(* The theorems.  They are about servers whose bit maps do not go wrong:   *)
(* no slot is wanted from a full map and, where maps have several words,   *)
(* no allocation fails behind the first one.  Both are what find_slot_for  *)
(* gets wrong; where every map is one word long, as many allocations fail  *)
(* as like.  Messages are the ones that reach a handler.                   *)
(***************************************************************************)
(* VfsInv is an invariant: the tables of the server are right after every  *)
(* message, and so are the descriptors it gave out.                        *)
THEOREM VfsInvariance ==
  ASSUME SoundCalls
  PROVE  Spec => []VfsInv
<1>1. Init => VfsInv
  BY InitInv
<1>2. VfsInv /\ [Next]_vars => VfsInv'
  <2> SUFFICES ASSUME VfsInv, [Next]_vars PROVE VfsInv'
    OBVIOUS
  <2>1. CASE Next
    BY <2>1, NextStep DEF StepOk
  <2>2. CASE UNCHANGED vars
    <3>1. vfs' = vfs /\ held' = held
      BY <2>2 DEF vars
    <3>2. TablesInv(vfs') /\ HeldInv(vfs', held')
      BY <3>1 DEF VfsInv
    <3> QED
      BY <3>2 DEF VfsInv, TablesInv, HeldInv, MapsInv, NamespacesInv, Users, PointersInv, Inner, BucketsInv,
                  ListsInv, InfosInv, BucketOf, MountsOf, Reached, IsClosed, VfsState
  <2> QED
    BY <2>1, <2>2
<1> QED
  BY <1>1, <1>2, PTL DEF Spec

(* UsedCoversOccupied: what alloc_structure has put into a slot is marked  *)
(* in its bit map, so find_slot_for offers no slot twice.                  *)
THEOREM UsedCorrect ==
  ASSUME SoundCalls
  PROVE  Spec => []UsedCoversOccupied
<1>1. VfsInv => UsedCoversOccupied
  <2> SUFFICES ASSUME VfsInv PROVE UsedCoversOccupied
    OBVIOUS
  <2>1. vfs \in VfsState /\ MapsInv(vfs) /\ held \subseteq Descriptor
    BY DEF VfsInv, TablesInv, HeldInv
  <2>2. vfs.used \in [Kind -> SUBSET (UNION {Id(k) : k \in Kind})]
    <3>1. vfs.used \in [Kind -> SUBSET Nat] /\ \A k \in Kind : vfs.used[k] \subseteq Id(k)
      BY <2>1 DEF VfsState, MapsInv
    <3> QED
      BY <3>1
  <2>3. /\ vfs.processes \in Table(Pid, ProcessData) /\ vfs.namespaces \in Table(Id("namespaces"), Namespace)
        /\ vfs.mount_points \in Table(Id("mount_points"), MountPoint)
        /\ vfs.lists \in Table(Id("lists"), MountedList) /\ vfs.infos \in Table(Id("infos"), DirectoryInfo)
        /\ vfs.fds \subseteq Id("infos")
    BY <2>1 DEF VfsState
  <2>4. /\ DOMAIN vfs.namespaces \subseteq Id("namespaces")
        /\ \A n \in DOMAIN vfs.namespaces : vfs.namespaces[n] \in Namespace
    BY <2>3, IsTable
  <2>5. /\ DOMAIN vfs.mount_points \subseteq Id("mount_points")
        /\ \A m \in DOMAIN vfs.mount_points : vfs.mount_points[m] \in MountPoint
    BY <2>3, IsTable
  <2>6. /\ DOMAIN vfs.lists \subseteq Id("lists")
        /\ \A l \in DOMAIN vfs.lists : vfs.lists[l] \in MountedList
    BY <2>3, IsTable
  <2>7. /\ DOMAIN vfs.infos \subseteq Id("infos")
        /\ \A d \in DOMAIN vfs.infos : vfs.infos[d] \in DirectoryInfo
    BY <2>3, IsTable
  <2>8. TypeOK
    BY <2>1, <2>2, <2>3, <2>4, <2>5, <2>6, <2>7 DEF TypeOK
  <2> QED
    BY <2>1, <2>8 DEF UsedCoversOccupied, MapsInv
<1> QED
  BY <1>1, VfsInvariance, PTL

(* ReferencesExact: alloc_namespace, the sharing of a namespace and        *)
(* free_namespace on the error paths count its processes exactly.          *)
THEOREM ReferencesCorrect ==
  ASSUME SoundCalls
  PROVE  Spec => []ReferencesExact
<1>1. VfsInv => ReferencesExact
  <2> SUFFICES ASSUME VfsInv PROVE ReferencesExact
    OBVIOUS
  <2>1. NamespacesInv(vfs)
    BY DEF VfsInv, TablesInv
  <2>2. \A n : UsersOf(n) = Users(vfs, n)
    BY DEF UsersOf, Users
  <2> QED
    BY <2>1, <2>2 DEF ReferencesExact, NamespacesInv
<1> QED
  BY <1>1, VfsInvariance, PTL

(* MountsWellFormed: add_mount_point_to_namespace keeps the buckets of all *)
(* namespaces doubly linked and apart from one another.                    *)
THEOREM MountsCorrect ==
  ASSUME SoundCalls
  PROVE  Spec => []MountsWellFormed
<1>1. VfsInv => MountsWellFormed
  <2> SUFFICES ASSUME VfsInv PROVE MountsWellFormed
    OBVIOUS
  <2> DEFINE mp == vfs.mount_points
  <2>1. vfs \in VfsState /\ PointersInv(vfs) /\ BucketsInv(vfs) /\ ListsInv(vfs)
    BY DEF VfsInv, TablesInv
  <2>2. /\ DOMAIN mp \subseteq Id("mount_points") /\ SIZE_MAX \notin Id("mount_points")
        /\ \A n \in DOMAIN vfs.namespaces, b \in Bucket : BucketOf(vfs, n, b) \subseteq Inner(vfs)
        /\ \A n \in DOMAIN vfs.namespaces : MountsOf(vfs, n) \subseteq DOMAIN mp
    BY <2>1, InBuckets
  <2>3. ASSUME NEW n \in DOMAIN vfs.namespaces, NEW b \in Bucket, NEW m \in BucketOf(vfs, n, b)
        PROVE  /\ hash[mp[m].inode] = b
               /\ m # vfs.namespaces[n].root
               /\ IF mp[m].previous = SIZE_MAX THEN vfs.namespaces[n].buckets[b] = m
                  ELSE mp[m].previous \in BucketOf(vfs, n, b) /\ mp[mp[m].previous].next = m
               /\ mp[m].next # SIZE_MAX => mp[mp[m].next].previous = m
    <3>1. vfs.namespaces[n].root \in Optional(DOMAIN mp \ Inner(vfs))
      BY <2>1 DEF PointersInv
    <3>2. m \in Inner(vfs) /\ m # SIZE_MAX
      BY <2>2 DEF Inner
    <3>3. m # vfs.namespaces[n].root
      BY <3>1, <3>2 DEF Optional
    <3> QED
      BY <2>1, <3>3 DEF BucketsInv
  <2>4. ASSUME NEW m \in DOMAIN mp
        PROVE  Cardinality({n \in DOMAIN vfs.namespaces : m \in MountsOf(vfs, n)}) = 1
    <3>1. PICK o \in DOMAIN vfs.namespaces : m \in MountsOf(vfs, o)
      BY <2>1 DEF BucketsInv
    <3>2. \A n \in DOMAIN vfs.namespaces : m \in MountsOf(vfs, n) => n = o
      BY <2>1, <3>1 DEF BucketsInv
    <3>3. {n \in DOMAIN vfs.namespaces : m \in MountsOf(vfs, n)} = {o}
      BY <3>1, <3>2
    <3> QED
      BY <3>3, FS_Singleton
  <2>5. /\ \A m, o \in DOMAIN mp : mp[m].list = mp[o].list => m = o
        /\ \A m \in DOMAIN mp : mp[m].list \in DOMAIN vfs.lists /\ Len(vfs.lists[mp[m].list]) = 1
    BY <2>1 DEF ListsInv
  <2> QED
    BY <2>2, <2>3, <2>4, <2>5 DEF MountsWellFormed
<1> QED
  BY <1>1, VfsInvariance, PTL

(* DescriptorsValid: a badge that a client holds leads handle_vfs_message  *)
(* and handle_directory_message to a directory info that exists, in a      *)
(* namespace that exists.                                                  *)
THEOREM DescriptorsCorrect ==
  ASSUME SoundCalls
  PROVE  Spec => []DescriptorsValid
<1>1. VfsInv => DescriptorsValid
  <2> SUFFICES ASSUME VfsInv, NEW b \in held
               PROVE  /\ b.id \in DOMAIN vfs.infos
                      /\ vfs.infos[b.id].namespace \in DOMAIN vfs.namespaces
                      /\ b.of = "info" => vfs.infos[b.id].mount_point
                                            \in {SIZE_MAX, vfs.namespaces[vfs.infos[b.id].namespace].root}
                      /\ b.of = "slot" => b.id \in vfs.fds
    BY DEF DescriptorsValid
  <2>1. InfosInv(vfs) /\ b.id \in DOMAIN vfs.infos /\ (b.of = "slot" => b.id \in vfs.fds)
    BY DEF VfsInv, TablesInv, HeldInv
  <2> QED
    BY <2>1 DEF InfosInv
<1> QED
  BY <1>1, VfsInvariance, PTL

(* NothingHeld: every way through a handler unlocks what it locked and     *)
(* leaves no capability behind, as long as file system servers take what   *)
(* is passed on to them.                                                   *)
THEOREM NothingHeldCorrect ==
  ASSUME SoundCalls, "refused" \notin Calls
  PROVE  Spec => []NothingHeld
<1>1. Init => NothingHeld
  BY InitInv DEF NothingHeld
<1>2. VfsInv /\ NothingHeld /\ [Next]_vars => NothingHeld'
  <2> SUFFICES ASSUME VfsInv, NothingHeld, [Next]_vars PROVE NothingHeld'
    OBVIOUS
  <2>1. CASE Next
    BY <2>1, NextStep DEF StepOk, NothingHeld
  <2>2. CASE UNCHANGED vars
    BY <2>2 DEF vars, NothingHeld
  <2> QED
    BY <2>1, <2>2
<1> QED
  BY <1>1, <1>2, VfsInvariance, PTL DEF Spec

(* ReadOnlyStaysFixed: set_up_filesystem_for_process and mount pass rights *)
(* on and add none, so a namespace nobody may modify keeps its mounts.     *)
THEOREM ReadOnlyCorrect ==
  ASSUME SoundCalls
  PROVE  Spec => ReadOnlyStaysFixed
<1> DEFINE A == \A n \in DOMAIN vfs.namespaces \cap DOMAIN vfs'.namespaces :
                  ReadOnly(n) => ReadOnly(n)' /\ MountsIn(vfs', n) = MountsIn(vfs, n)
<1>1. VfsInv /\ [Next]_vars => [A]_vars
  <2> SUFFICES ASSUME VfsInv, Next PROVE A
    OBVIOUS
  <2>1. Frozen(vfs, vfs')
    BY NextStep DEF StepOk
  <2> QED
    BY <2>1 DEF Frozen, ReadOnly, UsersOf, Users
<1> QED
  BY <1>1, VfsInvariance, PTL DEF Spec, ReadOnlyStaysFixed

(* FailureUnmarks: a message that find_slot_for or a callback of it fails  *)
(* leaves no bit set without a structure, as structures.h says.            *)
THEOREM FailureCorrect ==
  ASSUME SoundCalls
  PROVE  Spec => FailureUnmarks
<1> DEFINE A == (\A i \in DOMAIN vfs'.replies : vfs'.replies[i].status \notin {"ok", "passed"})
                  => \A k \in Kind : MarkedEmpty(vfs', k) \subseteq MarkedEmpty(vfs, k)
<1>1. VfsInv /\ [Next]_vars => [A]_vars
  <2> SUFFICES ASSUME VfsInv, Next PROVE A
    OBVIOUS
  <2>1. Unmarks(vfs, vfs')
    BY NextStep DEF StepOk
  <2> QED
    BY <2>1 DEF Unmarks
<1> QED
  BY <1>1, VfsInvariance, PTL DEF Spec, FailureUnmarks
=============================================================================
