-------------------------------- MODULE Heap --------------------------------
(***************************************************************************)
(* The kernel's heap (src/core/kernel/heap.c, heap.h): a list of blocks in *)
(* one stretch of memory, each with a header in front of it.  Objects are  *)
(* locked (immovable) or may be moved: an allocation may take the place of *)
(* movable blocks, which it first moves elsewhere by calling itself.  The  *)
(* owner of a moved object is told where it has gone.                      *)
(*                                                                         *)
(* Addresses and sizes are numbers, a header takes HEADER of them, and a   *)
(* pointer to an object points behind its header.  `headers` has an entry  *)
(* for every address where a header is; writing a header, or an object,    *)
(* over another header makes that entry go away.  The kernel is not        *)
(* preempted, so every call is one step.  What an object's bytes are is    *)
(* the object they belong to.  The functions of heap.c take a heap and     *)
(* return one, as a record with the fields of struct heap, the headers and *)
(* the pointers that the objects' owners hold.                             *)
(***************************************************************************)
EXTENDS Naturals, Integers, Sequences, FiniteSets, FiniteSetsExt, SequencesExt

CONSTANTS
  HEADER,        \* sizeof(struct heap_header)
  ALIGN,         \* sizes are rounded up to a multiple of it
  SIZE_T,        \* size_t counts modulo this
  KernelEnd,     \* init_block.kernel_end; the kernel starts at address 0
  MemoryEnd,     \* init_block.memory_end
  StackSize,     \* STACK_SIZE
  BinarySize,    \* bflt_allocation_size of the process server
  Regions,       \* memory that devices use: pairs of a start and an end
  MaxRegions,    \* how many of them a machine has
  Object,        \* kernel objects, and memory that user land allocates
  Sizes,         \* the sizes asked for
  Calls          \* the calls that are made, see below

NULL == 0

ASSUME HeapAssumption ==
  /\ {HEADER, ALIGN, KernelEnd, MemoryEnd, StackSize, BinarySize} \subseteq Nat \ {0}
  /\ KernelEnd + HEADER < MemoryEnd /\ 2 * MemoryEnd < SIZE_T
  /\ Regions \subseteq {r \in (KernelEnd..MemoryEnd) \X (KernelEnd..MemoryEnd) : r[1] < r[2]}
  /\ NULL \notin Object /\ Sizes \subseteq Nat

(***************************************************************************)
(* Calls.  Freeing a block is told apart by what follows it, because       *)
(* heap_free does not relink the list in the second case (see the README): *)
(*   free, drop                   the block after it is taken, or it is    *)
(*                                the last                                 *)
(*   free_before_available,       the block after it is available          *)
(*   drop_before_available                                                 *)
(* `drop` is an allocation into a slot that turns out to be unusable.      *)
(***************************************************************************)
AllHeapCalls == {"alloc", "lock", "unlock", "free", "free_before_available",
                 "drop", "drop_before_available"}
ASSUME HeapCallsAssumption == Calls \subseteq AllHeapCalls

VARIABLES
  heap_base,      \* heap->heap_base
  used_memory,    \* heap->used_memory
  headers,        \* the headers in memory, by their address
  pointers,       \* the pointer that an object's owner holds, or NULL
  status,         \* "ok", or that the kernel hangs or follows a wild pointer
  booted,         \* main_init has been called
  locked_regions  \* regions of devices that have been locked

vars == <<heap_base, used_memory, headers, pointers, status, booted, locked_regions>>

AVAILABLE == "available"
IMMOVABLE == "immovable"
MOVABLE == "movable"

heap == [heap_base |-> heap_base, used_memory |-> used_memory, headers |-> headers,
         pointers |-> pointers, status |-> status]
total_memory == MemoryEnd

(* Unsigned arithmetic. *)
Wrap(n) == n % SIZE_T
Aligned(n) == ((n + HEADER + ALIGN - 1) \div ALIGN) * ALIGN

Kind(h, a) == h.headers[a].kind
NextOf(h, a) == h.headers[a].next
PrevOf(h, a) == h.headers[a].prev

(* The blocks of the list, as far as there are headers and none comes twice. *)
RECURSIVE ChainFrom(_, _, _)
ChainFrom(h, a, seen) ==
  IF a \notin DOMAIN h.headers \ seen THEN <<>>
  ELSE <<a>> \o ChainFrom(h, NextOf(h, a), seen \cup {a})
Chain(h) == ChainFrom(h, h.heap_base, {})
Blocks(h) == Range(Chain(h))

(* A list that points at what is no header any more, or at itself: whatever  *)
(* walks it next reads bytes of something else or does not end, and nothing  *)
(* is known from then on.                                                    *)
Intact(h) ==
  /\ \A a \in Blocks(h) : PrevOf(h, a) \in DOMAIN h.headers \cup {NULL}
  /\ NextOf(h, Last(Chain(h))) = NULL

Wild(h) == [h EXCEPT !.status = "wild"]
Settle(h) == IF h.status = "ok" /\ ~Intact(h) THEN Wild(h) ELSE h


-----------------------------------------------------------------------------
(* Writing a header at address a, over whatever headers were there. *)
WriteHeader(h, a, x) ==
  [h EXCEPT !.headers =
     [b \in {b \in DOMAIN @ : b + HEADER <= a \/ a + HEADER <= b} \cup {a} |->
        IF b = a THEN x ELSE @[b]]]

(* The bytes of a block are written: headers inside are gone. *)
WriteBlock(h, a) ==
  [h EXCEPT !.headers =
     [b \in {b \in DOMAIN @ : ~(a < b /\ b < a + @[a].size)} |-> @[b]]]

(* The header of a block that left the list is not read again. *)
Forget(h, a) == [h EXCEPT !.headers = [b \in DOMAIN @ \ {a} |-> @[b]]]

(* b->prev = a, where b may be NULL. *)
LinkBack(h, b, a) ==
  IF b = NULL THEN h
  ELSE IF b \notin DOMAIN h.headers THEN Wild(h)
  ELSE [h EXCEPT !.headers[b].prev = a]

(* There is room for a header on both sides. *)
CanSplit(h, a, at) == at < Wrap(h.headers[a].size - HEADER) /\ at > HEADER

(* Mutant: the block after the split is not told its new neighbour. *)
split_header_no_back_link(h, a, at) ==
  IF ~CanSplit(h, a, at) THEN h
  ELSE [WriteHeader(h, a + at,
          [size |-> h.headers[a].size - at, kind |-> AVAILABLE, old_kind |-> AVAILABLE,
           update_ref |-> FALSE, contents |-> NULL, next |-> NextOf(h, a), prev |-> a])
        EXCEPT !.headers[a].size = at, !.headers[a].next = a + at]

split_header(h, a, at) ==
  IF ~CanSplit(h, a, at) THEN h
  ELSE LET x == h.headers[a]
           new_header == [size |-> x.size - at, kind |-> AVAILABLE, old_kind |-> AVAILABLE,
                          update_ref |-> FALSE, contents |-> NULL,
                          next |-> x.next, prev |-> a]
       IN [LinkBack(WriteHeader(h, a + at, new_header), x.next, a + at)
             EXCEPT !.headers[a].size = at, !.headers[a].next = a + at]

-----------------------------------------------------------------------------
(* Mutant: locked memory is not counted. *)
CountLocked_not(h, a) == h
CountLocked(h, a) == [h EXCEPT !.used_memory = @ + h.headers[a].size]

(* heap_lock_existing_region: one round of its loop, for the block at a.   *)
(* `start` is the region's start less a header.                            *)
LockRound(h, a, start, end) ==
  LET x == h.headers[a]
      before == start - a
      upto == end - a
      Round(g, next) == [heap |-> g, next |-> next]
      (* The region begins in the last bytes of the block: they go to the  *)
      (* block after it, whose header moves down.                          *)
      Trimmed ==
        LET g == [h EXCEPT !.headers[a].size = before]
            moved == [h.headers[x.next] EXCEPT !.size = @ + (x.size - before)]
        IN IF x.next = NULL THEN Round(g, NULL)
           ELSE IF Kind(h, x.next) # AVAILABLE THEN Round(g, x.next)
           ELSE Round([WriteHeader(g, start, moved) EXCEPT !.headers[a].next = start], start)
      (* The region ends in the header of the block, which moves down. *)
      Lowered ==
        LET g == WriteHeader([h EXCEPT !.headers[x.prev].size = @ - upto,
                                       !.headers[x.prev].next = a - upto],
                             a - upto, [x EXCEPT !.size = @ + upto])
        IN Round(g, a - upto)
      TooLow == upto <= HEADER /\ x.prev # NULL
      Taken ==
        LET g == IF end < a + x.size /\ ~TooLow THEN split_header(h, a, upto) ELSE h
            y == g.headers[a]
            u == CountLocked(g, a)
        IN IF a <= start
           THEN Round([u EXCEPT !.headers[a].kind = IMMOVABLE,
                                !.headers[a].update_ref = FALSE], y.next)
           ELSE LET v == IF y.prev = NULL THEN [u EXCEPT !.heap_base = y.next]
                         ELSE [u EXCEPT !.headers[y.prev].next = y.next]
                IN Round(Forget(LinkBack(v, y.next, y.prev), a), y.next)
  IN CASE a + x.size <= start \/ a >= end \/ x.kind # AVAILABLE -> Round(h, x.next)
       [] OTHER ->
          CASE start > a /\ before >= Wrap(x.size - HEADER) -> Trimmed
            [] start > a /\ CanSplit(h, a, before) ->
                 Round(split_header(h, a, before), start)
            [] OTHER -> IF end < a + x.size /\ TooLow /\ Kind(h, x.prev) = AVAILABLE
                        THEN Lowered ELSE Taken

RECURSIVE LockFrom(_, _, _, _)
LockFrom(h, a, start, end) ==
  IF a = NULL THEN h
  ELSE LET r == LockRound(h, a, start, end) IN LockFrom(r.heap, r.next, start, end)

(* Mutant: no room for the header of the locked block. *)
heap_lock_existing_region_no_header(h, start, end) ==
  LockFrom(h, h.heap_base, start, end)

heap_lock_existing_region(h, start, end) ==
  LockFrom(h, h.heap_base, Wrap(start - HEADER), end)

(* heap_init.  The first header would lie on the kernel, so the heap       *)
(* starts above it.                                                        *)
heap_init ==
  heap_lock_existing_region(
    [heap_base |-> KernelEnd, used_memory |-> KernelEnd,
     headers |-> [a \in {KernelEnd} |->
       [size |-> MemoryEnd - KernelEnd, kind |-> AVAILABLE, old_kind |-> AVAILABLE,
        update_ref |-> FALSE, contents |-> NULL, next |-> NULL, prev |-> NULL]],
     pointers |-> [o \in Object |-> NULL], status |-> "ok"],
    0, KernelEnd)

-----------------------------------------------------------------------------
(* heap_alloc's search for consecutive blocks that an allocation of this   *)
(* size can take, from the one at `start` to the one at `end`.  to_move    *)
(* counts what would have to move, available_memory what is free           *)
(* elsewhere.  It starts over at `end` when too much would have to move;   *)
(* when `start` is `end` already, that changes nothing, for ever.          *)
NotFound == [found |-> "no"]
Endless == [found |-> "endless"]

RECURSIVE Search(_, _, _, _, _, _, _)
Search(h, size, start, end, total_size, to_move, available_memory) ==
  LET x == h.headers[end]
      free == Wrap(total_memory - h.used_memory)
      move == to_move + (IF x.kind = MOVABLE THEN x.size ELSE 0)
      left == Wrap(available_memory - (IF x.kind = AVAILABLE THEN x.size ELSE 0))
      Restart(a) == Search(h, size, a, a, h.headers[a].size, 0, free)
  IN CASE x.kind = IMMOVABLE ->
            IF x.next = NULL THEN NotFound ELSE Restart(x.next)
       [] x.kind # IMMOVABLE /\ total_size >= size ->
            IF move <= left
            THEN [found |-> "yes", start |-> start, end |-> end,
                  total_size |-> total_size, to_move |-> move]
            ELSE IF start = end THEN Endless ELSE Restart(end)
       [] OTHER ->
            IF x.next = NULL THEN NotFound
            ELSE Search(h, size, start, x.next, total_size + h.headers[x.next].size,
                        move, left)

(* The blocks from a to b, in the order of the list. *)
RECURSIVE Series(_, _, _)
Series(h, a, b) == IF a = b THEN <<a>> ELSE <<a>> \o Series(h, NextOf(h, a), b)

SizeOf(h, S) == MapThenSumSet(LAMBDA a : h.headers[a].size, S)

(* The blocks S of an allocation are marked immovable while some of them   *)
(* are moved, so that nothing is moved to where the allocation will be.    *)
MarkSeries(h, S) ==
  [h EXCEPT !.headers = [a \in DOMAIN @ |->
              IF a \in S THEN [@[a] EXCEPT !.old_kind = h.headers[a].kind, !.kind = IMMOVABLE]
              ELSE @[a]],
            !.used_memory = @ + SizeOf(h, {a \in S : Kind(h, a) = AVAILABLE})]

(* Mutant: the loop runs on to the end of the list. *)
RevertSeries_all(h, S) ==
  [h EXCEPT !.headers = [a \in DOMAIN @ |-> [@[a] EXCEPT !.kind = h.headers[a].old_kind]],
            !.used_memory = Wrap(@ - SizeOf(h, {a \in S : h.headers[a].old_kind = AVAILABLE}))]

(* An allocation that failed puts them back.  What was moved is free now.  *)
RevertSeries(h, S) ==
  [h EXCEPT !.headers = [a \in DOMAIN @ |->
              IF a \in S THEN [@[a] EXCEPT !.kind = h.headers[a].old_kind] ELSE @[a]],
            !.used_memory = Wrap(@ - SizeOf(h, {a \in S : h.headers[a].old_kind = AVAILABLE}))]

(* Mutant: the new block does not know its owner. *)
MoveBlock_unregistered(h, a, d) ==
  LET x == h.headers[a] IN
  [h EXCEPT !.headers[d].contents = x.contents,
            !.headers[d].kind = MOVABLE,
            !.headers[a].old_kind = AVAILABLE,
            !.pointers = IF x.update_ref THEN [@ EXCEPT ![x.contents] = d + HEADER] ELSE @]

(* The block at a is moved to the block at d and its owner is told. *)
MoveBlock(h, a, d) ==
  LET x == h.headers[a] IN
  [h EXCEPT !.headers[d].contents = x.contents,
            !.headers[d].update_ref = x.update_ref,
            !.headers[d].kind = MOVABLE,
            !.headers[a].old_kind = AVAILABLE,
            !.pointers = IF x.update_ref THEN [@ EXCEPT ![x.contents] = d + HEADER] ELSE @]

(* The first and last blocks found become one allocated block, cut to size. *)
TakeSeries(h, found, size) ==
  LET s == found.start
      e == h.headers[found.end]
      whole == [h.headers[s] EXCEPT !.size = found.end + e.size - s, !.kind = IMMOVABLE,
                  !.old_kind = AVAILABLE, !.next = e.next, !.update_ref = FALSE,
                  !.contents = NULL]
      g == LinkBack([h EXCEPT !.headers[s] = whole,
                              !.used_memory = @ + IF found.to_move = 0 THEN whole.size ELSE 0],
                    e.next, s)
      cut == split_header(g, s, size)
  IN WriteBlock([cut EXCEPT !.used_memory =
                   @ - IF CanSplit(g, s, size) THEN whole.size - size ELSE 0], s)

RECURSIVE heap_alloc(_, _), MoveSeries(_, _)
(* Moves the blocks in the sequence s that were movable.  The heap that    *)
(* remains and whether there was room for all.  The calls of heap_alloc    *)
(* for their new places leave the blocks of s alone: they are marked.      *)
MoveSeries(h, s) ==
  IF s = <<>> THEN [heap |-> h, moved |-> TRUE]
  ELSE IF h.headers[Head(s)].old_kind # MOVABLE THEN MoveSeries(h, Tail(s))
  ELSE LET r == heap_alloc(h, h.headers[Head(s)].size - HEADER)
       IN IF r.pointer = NULL THEN [heap |-> r.heap, moved |-> FALSE]
          ELSE MoveSeries(MoveBlock(r.heap, Head(s), r.pointer - HEADER), Tail(s))

(* heap_alloc: the heap, and a pointer to the new block or NULL. *)
heap_alloc(h, actual_size) ==
  LET size == Wrap(Aligned(actual_size))
      free == Wrap(total_memory - h.used_memory)
      f == Search(h, size, h.heap_base, h.heap_base, h.headers[h.heap_base].size, 0, free)
      at == size - (f.total_size - h.headers[f.end].size)
      g == IF Kind(h, f.end) = AVAILABLE /\ at < h.headers[f.end].size
           THEN split_header(h, f.end, at) ELSE h
      s == Series(g, f.start, f.end)
      m == MoveSeries(MarkSeries(g, Range(s)), s)
      Result(x, p) == [heap |-> x, pointer |-> p]
  IN IF ~Intact(h) THEN Result(Wild(h), NULL)
     ELSE IF size > free \/ f.found = "no" THEN Result(h, NULL)
     ELSE IF f.found = "endless" THEN Result([h EXCEPT !.status = "hung"], NULL)
     ELSE IF f.to_move = 0 THEN Result(TakeSeries(g, f, size), f.start + HEADER)
     ELSE IF m.moved THEN Result(TakeSeries(m.heap, f, size), f.start + HEADER)
     ELSE IF m.heap.status = "ok" THEN Result(RevertSeries(m.heap, Range(s)), NULL)
     ELSE Result(m.heap, NULL)

-----------------------------------------------------------------------------
(* heap_free.  When the next block is available its size is added, but it  *)
(* stays in the list, and it is the block after the next but one that is   *)
(* linked back; at the end of the list this reads through NULL.            *)
MergeNext(h, a) ==
  LET n == NextOf(h, a)
      g == [h EXCEPT !.headers[a].size = @ + h.headers[n].size]
      n2 == NextOf(h, n)
  IN CASE n = NULL -> h
       [] OTHER -> IF Kind(h, n) # AVAILABLE THEN h
                   ELSE IF n2 = NULL THEN [g EXCEPT !.status = "wild"]
                   ELSE LinkBack(g, NextOf(h, n2), a)

MergePrev(h, a) ==
  LET p == PrevOf(h, a)
      x == h.headers[a]
  IN CASE p = NULL -> h
       [] OTHER -> IF Kind(h, p) # AVAILABLE THEN h
                   ELSE Forget(LinkBack([h EXCEPT !.headers[p].size = @ + x.size,
                                                  !.headers[p].next = x.next],
                                        x.next, p), a)

(* Mutant: the block is merged but the used memory is not given back. *)
heap_free_keeps_count(h, pointer) ==
  LET a == pointer - HEADER
  IN IF ~Intact(h) THEN Wild(h)
     ELSE MergePrev(MergeNext([h EXCEPT !.headers[a].kind = AVAILABLE,
                                   !.headers[a].old_kind = AVAILABLE,
                                   !.headers[a].update_ref = FALSE,
                                   !.headers[a].contents = NULL], a), a)

heap_free(h, pointer) ==
  LET a == pointer - HEADER
  IN IF ~Intact(h) THEN Wild(h)
     ELSE MergePrev(MergeNext([h EXCEPT !.headers[a].kind = AVAILABLE,
                                   !.headers[a].old_kind = AVAILABLE,
                                   !.headers[a].update_ref = FALSE,
                                   !.headers[a].contents = NULL,
                                   !.used_memory = Wrap(@ - h.headers[a].size)], a), a)

heap_set_update_capability(h, pointer) ==
  [h EXCEPT !.headers[pointer - HEADER].update_ref = TRUE]
heap_unlock(h, pointer) == [h EXCEPT !.headers[pointer - HEADER].kind = MOVABLE]
heap_lock(h, pointer) ==
  [h EXCEPT !.headers[pointer - HEADER].kind = IF @ = MOVABLE THEN IMMOVABLE ELSE @]

-----------------------------------------------------------------------------
Becomes(h) ==
  LET g == Settle(h) IN
  /\ heap_base' = g.heap_base
  /\ used_memory' = g.used_memory
  /\ headers' = g.headers
  /\ pointers' = g.pointers
  /\ status' = g.status

Runs(call) == call \in Calls /\ booted /\ status = "ok"
BeforeAvailable(h, p) ==
  LET n == NextOf(h, p - HEADER) IN n \in DOMAIN h.headers /\ Kind(h, n) = AVAILABLE

(* The platform's _start: the heap, and a stack in it. *)
HeapInit ==
  LET h == heap_alloc(heap_init, StackSize).heap
  IN /\ heap_base = h.heap_base
     /\ used_memory = h.used_memory
     /\ headers = h.headers
     /\ pointers = h.pointers
     /\ status = h.status
     /\ booted = FALSE
     /\ locked_regions = {}

(* after_sp_set: the video memory and sound buffers are taken out.  They   *)
(* lie clear of the stack and of one another, headers included.            *)
LockRegion(r) ==
  /\ ~booted /\ status = "ok"
  /\ Cardinality(locked_regions) < MaxRegions
  /\ \A q \in locked_regions : r[2] <= q[1] \/ q[2] <= r[1]
  /\ \A a \in Blocks(heap) : Kind(heap, a) # IMMOVABLE \/ r[2] <= a
                             \/ a + headers[a].size <= r[1]
  /\ Becomes(heap_lock_existing_region(heap, r[1], r[2]))
  /\ locked_regions' = locked_regions \cup {r}
  /\ UNCHANGED booted

(* main_init: memory for the process server, which stays locked. *)
MainInit ==
  /\ ~booted /\ status = "ok"
  /\ LET r == heap_alloc(heap, BinarySize) IN r.pointer # NULL /\ Becomes(r.heap)
  /\ booted' = TRUE
  /\ UNCHANGED locked_regions

(* address_space_alloc and populate_capability_slot: the object is         *)
(* allocated, its capability is told of and it is unlocked.                *)
Alloc(o, n) ==
  /\ Runs("alloc") /\ pointers[o] = NULL
  /\ LET r == heap_alloc(heap, n)
         p == r.pointer
         h == [r.heap EXCEPT !.headers[p - HEADER].contents = o, !.pointers[o] = p]
     IN IF p = NULL THEN Becomes(r.heap)
        ELSE Becomes(heap_unlock(heap_set_update_capability(h, p), p))
  /\ UNCHANGED <<booted, locked_regions>>

(* The same, but the slot for the capability cannot be used. *)
AllocAndDrop(n) ==
  /\ booted /\ status = "ok"
  /\ LET r == heap_alloc(heap, n) IN
     /\ r.pointer # NULL
     /\ Runs(IF BeforeAvailable(r.heap, r.pointer) THEN "drop_before_available" ELSE "drop")
     /\ Becomes(heap_free(r.heap, r.pointer))
  /\ UNCHANGED <<booted, locked_regions>>

(* untyped_lock, untyped_unlock, and the kernel's own locks on objects. *)
Lock(o) ==
  /\ Runs("lock") /\ pointers[o] # NULL
  /\ Becomes(heap_lock(heap, pointers[o]))
  /\ UNCHANGED <<booted, locked_regions>>

Unlock(o) ==
  /\ Runs("unlock") /\ pointers[o] # NULL
  /\ Becomes(heap_unlock(heap, pointers[o]))
  /\ UNCHANGED <<booted, locked_regions>>

(* delete_capability of the last capability to an object. *)
Free(o) ==
  /\ status = "ok" /\ pointers[o] # NULL
  /\ Runs(IF BeforeAvailable(heap, pointers[o]) THEN "free_before_available" ELSE "free")
  /\ Becomes([heap_free(heap, pointers[o]) EXCEPT !.pointers[o] = NULL])
  /\ UNCHANGED <<booted, locked_regions>>

HeapNext ==
  \/ \E r \in Regions : LockRegion(r)
  \/ MainInit
  \/ \E n \in Sizes : (\E o \in Object : Alloc(o, n)) \/ AllocAndDrop(n)
  \/ \E o \in Object : Lock(o) \/ Unlock(o) \/ Free(o)

HeapSpec == HeapInit /\ [][HeapNext]_vars

-----------------------------------------------------------------------------
(* Types of the variables; sizes of blocks are positive and within memory. *)
HeapTypeOK ==
  /\ heap_base \in DOMAIN headers
  /\ used_memory \in 0..SIZE_T - 1
  /\ \A a \in DOMAIN headers :
       headers[a] \in [size : 1..MemoryEnd, kind : {AVAILABLE, IMMOVABLE, MOVABLE},
                       old_kind : {AVAILABLE, IMMOVABLE, MOVABLE}, update_ref : BOOLEAN,
                       contents : Object \cup {NULL}, next : 0..MemoryEnd, prev : 0..MemoryEnd]
  /\ pointers \in [Object -> 0..MemoryEnd]
  /\ status \in {"ok", "hung", "wild"}
  /\ booted \in BOOLEAN
  /\ locked_regions \subseteq Regions

(* The list is sound: each block is linked back to the one before and ends *)
(* where the next one begins, the last where the memory ends, with nothing *)
(* in between but memory of devices and bits that are no use beside it.    *)
BlockListSound ==
  /\ HeapTypeOK
  /\ status = "ok" =>
      LET c == Chain(heap)
          limit == Append(Tail(c), MemoryEnd)
      IN \A i \in DOMAIN c :
           LET ends == c[i] + headers[c[i]].size IN
           /\ headers[c[i]].prev = IF i = 1 THEN NULL ELSE c[i - 1]
           /\ ends <= limit[i]
           /\ \A b \in ends..limit[i] - 1 :
                \E r \in locked_regions : r[1] - HEADER <= b /\ b < r[2] + HEADER

(* used_memory counts everything that is not in an available block. *)
UsedMemoryExact ==
  status = "ok" =>
    total_memory - used_memory = SizeOf(heap, {a \in Blocks(heap) : Kind(heap, a) = AVAILABLE})

(* Wherever its owner's pointer points there is the object itself, in an   *)
(* allocated block of the list, and no other object's memory overlaps it.  *)
ObjectsFollowed ==
  status = "ok" => \A o \in Object : pointers[o] # NULL =>
    LET a == pointers[o] - HEADER IN
    /\ a \in Blocks(heap)
    /\ headers[a].contents = o
    /\ headers[a].kind # AVAILABLE
    /\ \A b \in Blocks(heap) \ {a} :
         headers[b].kind # AVAILABLE => b + headers[b].size <= a \/ a + headers[a].size <= b

(* Memory that a device uses is never free memory and never an object's,   *)
(* and the heap keeps no header in it.                                     *)
DevicesUndisturbed ==
  status = "ok" => \A r \in locked_regions, a \in Blocks(heap) :
    /\ r[2] <= a \/ a + HEADER <= r[1]
    /\ (Kind(heap, a) # IMMOVABLE \/ headers[a].contents # NULL) =>
         r[2] <= a \/ a + headers[a].size <= r[1]

(* A locked object stays where it is, and locked, until it is unlocked or  *)
(* freed, whatever other calls do.                                         *)
LockedStays ==
  [][\A o \in Object :
       (pointers[o] # NULL /\ pointers'[o] # NULL
          /\ Kind(heap, pointers[o] - HEADER) = IMMOVABLE /\ ~Unlock(o))
       => pointers'[o] = pointers[o] /\ headers'[pointers[o] - HEADER].kind = IMMOVABLE]_vars
=============================================================================
