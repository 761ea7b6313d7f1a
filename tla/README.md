# A verification project for cenix

cenix is a small capability-based microkernel for the 68000 with its first
user-land servers.  This directory holds TLA+ models of its kernel and of the
servers, the TLC runs that check them on small instances and TLAPS proofs about
the scheduler, the endpoints, the thread objects, the capability lists, the VFS
server, the initrd file system and the start of user land.

## 1. Inventory

Paths are relative to `src/core/`.

| Part | State | Operations | Hard behaviour |
|---|---|---|---|
| linked lists, `kernel/linked_list.h` | `start`/`end` in a container or in every item, `prev`/`next` in the items | init, append, pop, remove, update address; without container: init, insert, update address, delete | macros that trust one link without looking at the others; stale links that bite many operations later |
| scheduler, `kernel/scheduler.c` | run queue, current thread, pending switch; per thread execution mode, queue membership, saved registers, running flag | queue, resume, suspend, yield, exception, context switch | one fact held in several places; a lost thread never runs again |
| IPC, `kernel/ipc.c` | per endpoint two queues of blocked threads; per thread what it waits on, its message and badge | send, receive, transfer of up to four capabilities, destruction, relocation | rendezvous in both orders, order of messages, partial transfers |
| threads, `kernel/threads.c` | ids in use, hash table of threads | alloc, destroy, move, set root node, resume, suspend, registers | destroyed or moved while in queues; ids run out and are reused |
| capabilities, `kernel/capabilities.c` | slots in nodes, threaded by a resource list and a derivation list | populate, copy, move, delete, revoke, move of a node, lookup through nested nodes | lists through memory that moves; owner of a resource; derivation trees |
| heap, `kernel/heap.c` | block list, kinds, references to update | alloc (moving other blocks, recursively), free, lock, unlock | an allocation moves objects in the middle of an operation; reverting a failed one |
| boot and traps, `kernel/main.c`, `kernel/arch/68000` | | set-up of the first thread, trap and exception entry | |
| VFS server, `vfs_server/` | bit maps and tables of structures: process data, namespaces, mount points, mounted lists, open directories | messages on three kinds of badge: new process; read, stat, open, link, unlink, mount on the root or a mount point; the same on a proxied directory | error paths that leave bits, locks, references and structures behind; rights copied into descriptors; replies sent twice or never |
| initrd file system, `initrd_fs/` | a node for received and temporary capabilities; no table of open files: the badge of a descriptor is an address in the archive | read, fast read, stat, open; others refused | the directory tree exists only in comparisons of paths; clipping of sizes; leftovers in the node |
| process server, `process_server/` | pid set, nodes of threads and of memory | allocate pid, exec from the initrd, start of the two servers | error paths; three processes that start each other and wait for each other |
| archives and binaries, `common/jax.c`, `common/bflt.c` | | next file, find; verify, load | offsets from several bases; which entry matches |

How they interact.  A thread traps; the trap handler looks up the capability it
invokes and calls the handler of the object behind it (thread, endpoint, node,
address space, untyped memory); handlers call the scheduler; then the trap
handler calls `try_context_switch`.  The kernel is not preempted: interrupts
stay masked until the return to user mode, and there is no timer.  So the
interleaving is that of whole traps of different threads, and the kernel's hard
problems are long sequences of legal calls over shared pointer structures.
An allocation may move any unlocked object; the heap then tells the object's
capability, which tells every capability to it and the object's `on_moved`
handler.  The servers talk to each other only through endpoints.

What makes each part correct:

* lists hold exactly the items that say they are in them;
* every runnable thread is on the run queue or runs, no blocked one is, and the
  processor holds the context of the current thread;
* messages are handed over once, in order, to one receiver, with the sender's
  badge; two threads that could meet never both wait;
* a message neither loses nor duplicates a capability and reports what it gave;
* the thread table finds exactly the living threads; nothing refers to a freed or
  moved one;
* a resource is freed with its last capability; when it moves all capabilities
  to it learn of it; revocation finds all that was derived;
* a namespace lives as long as a process uses it, mount points are found in the
  bucket they belong to, every descriptor leads to a structure that exists, and
  a right that was taken away is not regained;
* a message to a server leaves no lock, bit or capability behind;
* what the initrd file system shows is the tree the archive was made from;
* a started process runs the binary that was asked for, relocated right, and
  in the end all servers are up or an assertion has said why not.

`PROJECT.json` lists the hazards of the code, each at its line, with the
properties that cover it or the reason none does yet.

## 2. Modules

| Module | Models | Used by |
|---|---|---|
| `LinkedList` | the lists with a container, by their pointers; `Members` is what `LIST_ITER` visits and `IsQueueOf` what a well-formed list is | all |
| `NoContainerList` | the lists without a container | `Capabilities` |
| `Scheduler` | `scheduler.c`; each C function is an operator from a kernel state to a kernel state | `Ipc` |
| `Ipc` | `ipc.c` and the traps, one action per system call | `KernelObjects`, proofs |
| `Rendezvous` | abstract specification of endpoints: sequences of letters and of receivers | `IpcRefinement` |
| `IpcRefinement` | the refinement mapping: the sequence that a list of pointers stands for, and `Ipc` as a `Rendezvous` | `MCIpc`, `IpcProofs` |
| `KernelObjects` | `threads.c`: creation, destruction and relocation of threads, relocation of endpoints, the thread table, composed with `Ipc` | |
| `Capabilities` | the slots and lists of `capabilities.c` | |
| `Heap` | `heap.c` and its use by the platform, `main_init` and the address space | |
| `VfsServer` | `vfs_server/`, one action per message | `UserLand` |
| `InitrdFs` | `initrd_fs/` and the reading of archives | |
| `Bflt` | `common/bflt.c` and the arguments on a new stack, as pure operators; `LoadedRight` is the reference definition they are checked against | `UserLand` |
| `UserLand` | the start of the system: process server, VFS server (the operators of `VfsServer`) and initrd file system, with their messages | |
| `MCIpc`, `MCKernelObjects`, `MCCapabilities`, `MCHeap`, `MCVfsServer`, `MCInitrdFs`, `MCUserLand` | instances for TLC | |
| `LinkedListProofs`, `NatLemmas` | lemmas about lists and numbers | the modules below |
| `IpcProofs`, `KernelObjectsProofs`, `CapabilitiesProofs`, `VfsServerProofs`, `InitrdFsProofs`, `UserLandProofs` | theorems | |

### How state and actions correspond to the code

A trap is atomic, but inside it functions of several files change state one
after the other.  Hence the style: a record (`K` in `Ipc`, `M` in
`Capabilities`) holds the state, each C function maps such a record to another
under its C name, and an action composes them in the order of the calls:
`Send` is `endpoint_send`, which calls `resume_thread` or
`suspend_thread`, followed by `try_context_switch`.

* *Lists.*  Each macro is an operator that reads and writes what the macro
  does, including what it forgets: `LIST_POP_FROM_START` leaves the `prev` of
  the new first item as it is.
* *Registers.*  A register file is modelled by whose it is.  `cpu` is the thread
  whose context the processor holds; `saved[t]` says that `thread->registers`
  is where t must continue.
* *Priorities.*  The code has 64 queues and uses number 63 only.
* *Messages.*  Payload, four optional capability addresses and the mask
  `to_copy`.  `delivery` is what the last trap wrote into a receiver's buffer.
* *Capability spaces in `Ipc`.*  A set of slots per thread; an address outside it
  fails to be looked up.
* *Addresses.*  In `KernelObjects` an element of `Thread` is an address that can
  hold a thread; in `Capabilities` a slot is a place in memory and an index.
  Freed or abandoned memory keeps its contents.
* *The heap seen from the objects.*  In `KernelObjects` and `Capabilities` only its
  effect: an allocation may move an object to any free address, then the object's
  `on_moved` handler runs.  An object moves between two traps; that it may
  move in the middle of the allocating handler is not modelled.
* *The heap itself.*  In `Heap` memory is a range of numbers, a header takes
  `HEADER` of them and sizes are rounded up to `ALIGN`.  `headers` maps the addresses
  where a header is to its fields.  A header goes away when another header or the
  bytes of an object are written over it.  An object's bytes are modelled by
  whose they are (`contents`), the three kinds of update reference by whether the
  owner is told (`update_ref`), and the owners' pointers are `pointers`.  A whole
  call, with the calls of `heap_alloc` to itself, is one step.  `status` becomes
  `"hung"` when the search cannot end, and `"wild"` when the list leads to
  something that is no header; from then on nothing is claimed.

* *The VFS server.*  It has one thread and handles a message to the end, its calls of
  file system servers included, before it receives the next.  So a message is
  one step, and what others decide is an input of it: the message, the
  answers, and which allocation fails (`oom`).  The record `vfs` is the server's
  memory.  A table is a function from the slots that hold a capability, a bit map
  the set of its bits (`used`), `locked` the memory that is locked (the kernel does not
  count locks), `storage` the occupied slots for received capabilities.  `held` are
  the descriptors that clients have.  `replies` and `met` describe the last message
  only.  A reply is received: a client that does not would block the server,
  which has no timeout.
* *The initrd file system.*  An archive is a tree that the properties know; the server
  sees full paths at addresses.  `walks` is what the holder of a descriptor has
  read so far.
* *Binaries.*  Memory is counted in words of 32 bits; addresses, offsets and the file
  are as in the code.
* *The start of user land.*  An endpoint is what `Rendezvous` promises, so a message is
  a joint step of sender and receiver; between messages a process is alone.  `refuse`
  and `oom` are what the kernel may refuse, at every step whose answer the code looks at.
  `init_process_table` (`processes.c:20-60`) looks at none of its five: they always
  succeed here.  A failed assertion yields for ever (`common/assert.c`) and is the
  place `"failed"`.
* *Results that are no results.*  `invoke_capability` returns its error numbers as they are
  (`capabilities.c:854-873`, with a TODO), so a server that locks an empty slot gets
  `ECAPINVAL`, 7, and not `NULL`.  `InitrdFs` follows the code: it goes on with address 7.

### Calls that are told apart

The constant `Calls` says which calls are made.  Most are the system calls
themselves.  Some stand for a call *in a situation the code does
not survive*; these have names of their own, so that a run or a theorem that
leaves them out says so:

| Call | Situation | What happens |
|---|---|---|
| `suspend_stale` | `THREAD_SUSPEND` of a thread on the run queue whose own `prev` is wrong | `LIST_POP_FROM_START` left the `prev` of the new first item naming the popped one, and `LIST_REMOVE` trusts it: the thread stays on the queue |
| `delete_thread_stale`, `relocate_stale` (`KernelObjects`) | the thread is on the run queue or waits, and its own `prev` is wrong or its flags name the queue it is not in | `LIST_REMOVE` and `LIST_UPDATE_ADDRESS` trust them: the queue keeps the old address |
| `delete_thread_running` | a thread deletes itself | `current_thread` dangles |
| `alloc_thread_failing` | the destination slot is unusable | the freed thread stays in the table |
| `copy_stale`, `move_stale`, `delete_stale`, `revoke_stale`, `relocate_stale` (`Capabilities`) | the call follows the `prev` of a slot, and that is wrong: an insertion into a list of several left it so | the lists are linked wrongly; run `capabilities_shared` |
| `delete_badged` | a badged capability is deleted that others were derived from, and whose parent is there | `merge_derivation_lists` sets the parent's pointer at `capabilities.c:48` and overwrites it at line 70, or closes a cycle |
| `relocate_linked` | the moved node holds several capabilities to one resource | `on_node_moved` repairs slots one by one through links that name the old memory: the list is left pointing there |
| `reuse_parent` | an empty slot that a `derived_from` still names is used again | writes into the new occupant |
| `copy_empty`, `move_empty` | the source slot holds no capability | stale contents are linked |
| `free_before_available`, `drop_before_available` | the block after the freed one is available | run `heap_merge` |
| `late_failure` | an allocation or open fails whose id is not in the first word of the bit map | `find_slot_for` has advanced its pointer and clears a bit of another word (`structures.c:174`): the slot stays marked, `FailureUnmarks` is violated |
| `full_map` | a slot is wanted and all are in use | the callback runs for id 0, whose structure exists; with an open that is a live descriptor, and `UsedCoversOccupied` is violated |
| `directory_oom` | no memory for the info of an opened directory | an inner `result` shadows the outer one (`directories.c:151`, `173`), `open_file` returns 0 and nobody replies: the client waits for ever |
| `misdirected` | a message for a proxied directory | `proxy_directory` badges it as a mount point (`directories.c:103`), so `main_loop` (`main.c:83-88`) calls `handle_mount_point_message`, which takes the slot's number for an address; the model ends |
| `mount_proxied` | `FD_MOUNT` for a proxied directory | `directories.c:242` uses the slot's number as an address; the model ends |
| `unset_root` | `FD_OPEN`, `FD_LINK` or `FD_UNLINK` before a root is mounted | the mount point is looked for at address `SIZE_MAX`; the model ends |
| `refused` (`VfsServer`) | a file system server takes only some capabilities of a message that is passed on | `^=` at `directories.c:194` does not flag the others: they stay in the storage |
| `refused` (`InitrdFs`) | the client does not take the descriptor | run `initrd_leftover` |
| `short_buffer` | a directory is read into less than an entry | `handle_read` widens the size to a whole entry and writes behind the buffer |
| `unsent` | a message comes without the buffer or the name it needs | the server reads and writes from address 7 on; the answer is given all the same |
| `empty_last` | the archive ends with an entry without data, such as an empty directory | `jax_next_file` wants a byte behind the header and does not see it |
| `root_stat` | the root directory's inode is asked for | it is that of the archive's first entry |

`as_tested` is no such situation but a change: with it, messages for proxied directories
reach `handle_directory_message`, as `vfs_server/test.c` calls it and as the code
evidently means.  The run `vfs_server` has it and neither `misdirected` nor
`mount_proxied`; what it shows of proxied directories holds of the handler, which the
program does not reach.  `copy_shared` is a copy of one of several capabilities, which
`CapabilitiesProofs` leaves out and the run `capability_lists` makes.

No program of the repository uses `THREAD_SUSPEND` or `NODE_REVOKE` yet, and
threads are only deleted on error paths of the process server; capabilities are
copied and nodes moved all the time.  What to keep in mind when reading the passing
runs: in `Ipc` and `KernelObjects` a thread is suspended, deleted or moved in any queue, first,
middle or last, as long as its own `prev` is right, so not while it is first because of
a pop; in `Capabilities` lists of up to four come up, as long as no wrong `prev` is followed;
in `Heap` blocks are only freed when a taken block, or the end of memory, follows.

Other things the models showed, and no run is about: the search of
`heap_alloc` starts over at the block it ended at, which is no progress when the
series is that one block (`"hung"` in `Heap`); names of entries in a subdirectory
are read two bytes too long (`initrd_fs/main.c:125` subtracts one less than the length
of the prefix where line 130 skips one more; `EntryName`); a regular file opened
through the VFS server keeps its id marked for good if the client takes the
descriptor, since `free_structure` finds the slot empty (`FreeDirectory`); a
second mount on the root goes to bucket `hash(0)` under a key that no open looks
for, so `open_mount_point` is not reached.

## 3. Runs

| Run | Expected | Bounds | Shows |
|---|---|---|---|
| `ipc_safety` | pass | 3 threads, 2 endpoints, 2 badges, one payload, no capabilities | `TypeOK`, `RunqueueExact`, `BlockedExact`, `ProcessorOwned`; `Ipc` implements `Rendezvous` |
| `ipc_transfer` | pass | 2 threads, 1 endpoint, 2 slots each, a node and a file, messages with up to 2 capabilities whose addresses may coincide, be absent or not resolve | `OriginalsConserved`, `TransferReported`, `FlagsNameQueue` |
| `ipc_liveness` | pass | 3 threads, 1 endpoint | `NoStarvation` under `Cooperation` |
| `objects_lifetimes` | pass | 4 addresses, ids 1..3 of which 1 and 3 share a bucket, 2 endpoint addresses | `ObjectsTypeOK`, `ThreadTableExact`, `NoDanglingThread`, `QueuesFollowObjects` |
| `capability_lists` | pass | 2 nodes of 2 slots in 3 places, 2 resources | `TypeOK`, `MovesReachAll`, `FreedWithLast`, `DerivationsExact`, `RevokeLeavesOriginal` |
| `capabilities_shared` | violation | 1 resource | a resource is freed while a capability to it is left |
| `heap_objects` | pass | memory of 40, headers of 3, up to two regions of devices out of six, 3 objects, 4 sizes | `BlockListSound`, `UsedMemoryExact`, `ObjectsFollowed`, `DevicesUndisturbed`, `LockedStays` |
| `heap_merge` | violation | the same, one region | the memory of a living object is free |
| `vfs_server` | pass | 3 processes, 3 slots per table, 2 inodes in 2 buckets, at most one failing allocation per message | `UsedCoversOccupied`, `ReferencesExact`, `MountsWellFormed`, `DescriptorsValid`, `NothingHeld`, `ReadOnlyStaysFixed`, `FailureUnmarks` |
| `initrd_fs` | pass | all archives of up to 3 entries with the names a and ab, sizes 0 and 2, reads of 1 and 4 bytes, messages with and without a buffer and a name | `WalksExact`, `NodeEmpty`, `InodesIdentify`, `OpenExact` |
| `initrd_leftover` | violation | archives of at most one entry | a descriptor stays in the server's node |
| `user_land_boot` | pass | archives with both kinds of binary and every target of a relocation, with files that are no binaries, with a missing file, and no archive at all; refusals of the kernel at every step that looks for one | `ExecAllOrNothing`, `ImagesRight`, `RootShared`; `EventuallyBoots` under `BootFairness` |

Why the bounds are enough.  A list operation tells apart the first, a middle and
the last item; three threads give a queue of two with one running, and a popped
thread that comes back while its successor is still queued, which is what the
stale `prev` needs.  In `objects_lifetimes` a queue of two has a thread deleted, moved or
suspended at either end, and a destroyed or moved endpoint has up to two threads
waiting.  Two endpoints are needed since all queues share the link
field `blocked_queue`.  Three ids with a collision give a bucket of two, an empty
one and exhaustion.  Two slots per node and a free place let two capabilities to
one resource be in one node or in two, and either node move; four slots let an original be
copied three times, or one of its badged copies again, and then be revoked.  In `Heap` a header is
not a multiple of the alignment, as in the code; a memory of 40 holds three objects with
little to spare, so that allocations move one or two others, call themselves, split,
leave remainders too small for a header, and fail after some blocks have moved (the
mutants of `ObjectsFollowed` and `LockedStays` need such behaviours).  The regions lie
right behind the stack, in the middle and at the end of memory, as on the machine, and
so close to one another that what is between them can hold no block.  They are
larger than a header because the code's are; for a smaller one right behind
the stack `heap_lock_existing_region` would take all memory after it out of the
heap.

In `VfsServer` three processes give a creator, one that shares and one that has its own
namespace, or three that share; three slots per table hold the structures of all of
these, or run short.  A map is one word of three bits and, as `Calls` does not have
`full_map`, no slot is asked for when all are in use; `late_failure` needs a second
word and cannot happen here.  In the code a map has 256 ids in 8 words, and both can
happen; the properties are not about them.  Two inodes in two buckets
give a bucket of two mount points, an empty one, and a root, whose inode 0 shares
its bucket.  In `InitrdFs` three entries are a directory in a directory with a file, or
siblings of which one name starts with another; a read of 1 leaves a rest, a read of 4
is clipped by the file of size 2, by the limit of fast reads and by the buffer.  The
limit (3) lies between the size of a file and what is asked for.  In `UserLand` a
binary has text, data and bss with one word to relocate in text and in data (or in the
GOT), which leads to every word of the image, its last included.

The theorems remove the bounds for the run queue, the endpoints and their refinement, the
transfer of capabilities, the thread table, objects that come, go and move, the lists of capabilities
through which objects are owned, revoked and relocated, the tables of the VFS
server, the archives that initrd_fs serves, the process and root set-up of user land and
the binaries it loads.

`CHECK_DEADLOCK FALSE` in all runs but those of `InitrdFs`: the kernel really may stop.
When every thread waits or has faulted it idles, and nothing can wake it since there are
no interrupts.  The start of user land ends, the VFS server's clients may have used up
the process ids or the slots, and a run of the other modules may use up what it can do.
The initrd file system can always be asked something.

`SYMMETRY` permutes threads, endpoints, nodes, places and resources in the runs
that check invariants, action properties and the (safety-only) refinement; no
run with fairness uses it.  The sets have no distinguished element in those runs; in
`vfs_server` process 1, which the server sets up itself, is not permuted.
`VIEW LiveState` drops what no step reads before it is written: links of
items that are in no list, messages of threads that are not blocked, contents of
slots that hold no capability, and in the servers what describes the last message
only.

### Fairness

The kernel has no timer, so it guarantees nothing by itself: a thread that never
traps keeps the processor.  `Cooperation` assumes that running threads yield in the
end if others wait, that is `WF_vars(Yield)` with its enabling condition written
out.  Nothing else is assumed; no thread is obliged to receive, send or resume.
`NoStarvation` then is a statement about the queue: a thread that may run does
run.

`BootFairness` is weak fairness of the steps of each of the three processes, and of each
pair of a sender and a receiver that are both at the endpoint.  The first is what
`NoStarvation` gives: the run queue is first in, first out, and each of the three
processes in the end waits for a message or, after a failed assertion, yields for ever.  The
second is what `Rendezvous` promises: two that could meet never both wait.  No process
is assumed to succeed; that an allocation is refused is always possible.

### What the violations say

* `capabilities_shared`: `LIST_INSERT_NO_CONTAINER` inserts before the last item and
  does not set that item's `prev`.
* `heap_merge`: `heap_free` adds the size of the next block without taking it off the
  list, and links the wrong block back.  Most blocks are allocated from the front
  of a larger available one, so the situation is the common one.
* `initrd_leftover`: the loop after a message deletes slots 0 to 4 of the node,
  "delete any leftover capabilities that were transferred and temporary capabilities not
  sent." (`initrd_fs/main.c:366`), and the descriptor that `handle_open` makes is in slot 5 (line 187).  When the client has no room
  for it, it stays there, and every later open fails.

## 4. Proofs

`LinkedListProofs` proves what appending, popping and removing do to a
well-formed queue of any length, and that they leave other queues over the same
link field alone.  Lists have no induction in this prover, so `Members` is
defined as the least set that holds the first item and is closed under `next`;
the lemmas argue with closed sets directly.

`IpcProofs` proves, for all sets of threads, endpoints, badges, slots and messages
and all `Calls` without `suspend_stale`:

| Theorem | Statement |
|---|---|
| `TypeCorrect` | `Spec => []TypeOK` |
| `RunqueueCorrect` | `Spec => []RunqueueExact` |
| `BlockedCorrect` | `Spec => []BlockedExact` |
| `ProcessorCorrect` | `Spec => []ProcessorOwned` |

All four follow from `Invariance`, `Spec => []IInv(K)`.  None of the four properties is
inductive alone.  `IInv` is the conjunction of

* `KernelState`, the types;
* `RunInv`: the run queue is exact, and if the running thread is itself queued (it
  resumed itself) its `prev` is accurate.  The last part is the strengthening
  that matters: such a thread may block or fault, and is then removed by
  `LIST_REMOVE`, which is correct for it only since it was appended after the last
  pop;
* `CpuInv`: whose context the processor holds, what is saved, who is flagged;
* `QueuesInv`: the two queues of every endpoint are exact, disjoint, not both in use,
  and waiting senders have a message and a badge;
* `ModesInv`: blocked means blocked on an endpoint.

The argument follows the code.  The invariant is stated on a kernel state, not
on the variables.  At the entry of a trap the state is `Entered`; each handler is
shown to end in a state `Handled` (the processor still holds the old context,
a switch is pending if the current thread may not go on); `try_context_switch` turns
every `Handled` state into one that satisfies `IInv`.  So each C function has its
lemma and each action cites those of the functions it calls.

Its second part goes on from `Invariance`, with the messages' capabilities:

| Theorem | Statement | `Calls` without |
|---|---|---|
| `FlagsCorrect` | `Spec => []FlagsNameQueue` | `suspend_stale`, `delete_endpoint` |
| `OriginalsCorrect` | `Spec => []OriginalsConserved`, if `Conserved(InitialSlots)` | `suspend_stale` |
| `TransferCorrect` | `Spec => TransferReported` | `suspend_stale` |

`TrapEffect` goes through the actions once and says what a trap does to slots and
deliveries: nothing, or one transfer between a sender and a receiver; the last two
theorems are then about `TransferredState` alone.  `FlagsCorrect` needs the
invariant `FlagsInv`, and no destruction of endpoints: it resumes the
threads that wait but leaves their flags as they are.

Its third part proves `RefinementCorrect`, `Spec => ImplementsRendezvous`, for all `Calls`
without `suspend_stale`: for any number of threads and endpoints, `Ipc` implements
`Rendezvous`.  The argument has four layers.

1. *A queue is a sequence.*  `Lists(q, Item, c, next)` says that q is what `LIST_ITER` visits.
   `QueueHasSequence` finds one for every well-formed queue without induction on it: the
   ends of paths from the first item form a set that is closed under `next`, so the last item is
   among them.  `QueueOfIs` shows, by the least counterexample, that the recursive function in
   `QueueOf` computes that sequence.  Appending to the list is then `Append` (`SequenceAppend`), popping
   is `Head` and `Tail` (`SequencePop`), and both leave other lists over the same link field
   alone (`SequenceFrame`).
2. *All queues at once.*  `SequenceJoin` and `SequenceLeave` say so of the two queues of every
   endpoint, which share one link field, `LettersAppend`, `LettersTail` and `LettersFrame`
   of the messages that wait in them: a message that waits is not overwritten.
3. *Handlers.*  `SendRendezvous`, `ReceiveRendezvous`, `AllocRendezvous` and `DestroyRendezvous`: each handler
   is one `Send`, `Receive` or `Reopen`, and `try_context_switch` after it changes nothing
   that the mapping reads.
4. *Traps.*  `TrapRendezvous` goes through the actions, `StepRefines` turns what it finds into
   a step of `Rendezvous`, and `RendezvousInit` and `RendezvousNext` are the two halves
   of the refinement.

It needs one invariant more than `IInv`, `UnusedInv`: both containers of an address that holds no
endpoint are empty.  `QueuesInv` speaks of existing endpoints only, and the mapping reads all.
TLC checked it first, on the instance of `ipc_safety`.

The first part of `KernelObjectsProofs` proves `ThreadTableCorrect`, `ObjectsSpec => []ThreadTableExact`, for
any hash function, number of ids and addresses, for `Calls` without
`alloc_thread_failing`.  `TableInv` is on the pointers: each bucket is a doubly linked
list of exactly the living threads whose id hashes to it, the ids of living
threads are distinct and are the ones marked.  `NatLemmas` has the one fact on numbers it
needs, that a nonempty set of naturals has a least element, proved without the
library's induction theorem.

Its second part has the rest of `KernelObjects`.  `UnmaintainedCalls` are
`suspend_stale`, `delete_thread_stale`, `delete_thread_running` and
`relocate_stale`: threads that are on the run queue or wait are deleted and moved, as
long as their own links and flags are right.  For `Calls` without them (and without `alloc_thread_failing` where the
property speaks of the table):

| Theorem | Statement |
|---|---|
| `ObjectsInvariance` | `ObjectsSpec => []ObjectsInv` |
| `ObjectsTypeCorrect` | `ObjectsSpec => []ObjectsTypeOK` |
| `NoDanglingCorrect` | `ObjectsSpec => []NoDanglingThread` |
| `QueuesFollowCorrect` | `ObjectsSpec => []QueuesFollowObjects` |

The invariant of `IpcProofs` does not hold of the whole memory here, since memory that was
freed keeps its contents: a dead thread may still look queued.  `ObjectsInv` says that
it holds of the state in which the fields of dead memory are replaced by quiet values
(`Over`, `Mix`, `Live`).  Each C function is shown to commute with this
replacement, because a trap of living threads never reaches dead memory; so the
lemmas of `IpcProofs` on handlers are used as they are.  Creation, deletion and
relocation get lemmas of their own.  A thread that leaves may be in a queue: `RemoveQueue` (of
`LinkedListProofs`) and `UpdateQueue` say that `LIST_REMOVE` and `LIST_UPDATE_ADDRESS` take one item
out of a well-formed queue, or put its new address in its place, if its own `prev` is right,
whatever the others' are.  `RunnerLeaves` and `RunnerMoves` apply them to the run queue,
`WaiterLeaves` and `WaiterMoves` to the queues of an endpoint.

`CapabilitiesProofs` proves, for any number of nodes, places and resources, any number of
slots per node and `SoundCalls` (that is, `Calls` without `copy_shared`, `copy_stale`,
`relocate_linked`, `reuse_parent`, `copy_empty` and `move_empty`):

| Theorem | Statement |
|---|---|
| `Invariance` | `Spec => []IInv` |
| `TypesKept` | `Spec => []TypeOK` |
| `AllReached` | `Spec => []MovesReachAll` |
| `FreedThen` | `Spec => []FreedWithLast` |
| `DerivedFound` | `Spec => []DerivationsExact` |

The calls left out are those of section 2 after which lists are wrong, and `copy_shared`,
which makes lists of three and more.  What is left is copying the only
capability to a resource, moving, deleting, revoking, and relocating nodes, in any order.
Then a resource has one capability or two (and no call can be `move_stale`, `delete_stale`,
`revoke_stale`, `relocate_stale` or `delete_badged`), so the invariant needs no induction along lists: `CapInv`
says of each slot that it is alone (`AloneOk`) or one of a pair (`PairOk`), and of a pair that it is a parent
and the capability derived from it (`ParentOf`) or two copies whose parent is gone
(`Siblings`), with every link of both lists.  `MemOk` adds that the heap's record leads to the
first of the two (`OwnerOk`), that a resource is allocated exactly while some slot has it, and
that no loop runs for ever.  None of the properties is inductive alone: that moving a
resource reaches both capabilities rests on the resource list, which a deletion repairs
correctly only if the derivation list is right too.

A call touches one resource's capabilities; `OneGroup` says what it owes about these and that
the others stay as they are, and each C function has a lemma with that conclusion.
The hard step is the relocation of a node, in which `on_node_moved` repairs slot by slot.
`LoopInv` is the loop's invariant: the capabilities whose slots were passed count at the new
place, the others still at the old one, and the slots that are left are exact copies of the old
ones.  `OnNodeMovedSteps` shows that the recursive function that stands for the loop
exists, and that `LoopInv` holds after any number of rounds by the least counterexample
(`LeastNat` in `NatLemmas`).  The hypothesis on `relocate_linked` is what makes a round right: of
two capabilities in a pair only one moves, so the other's links name memory that is not left behind.

`VfsServerProofs` proves, for all processes, inodes, buckets and hash functions, under
`SoundCalls`:

* no slot is wanted from a full map (`full_map`);
* where some bit map is longer than a word, no allocation fails behind the first one
  (`late_failure`).  Where every map is one word, `OneWord`, any allocation may fail:
  there is nothing behind the first word (`FirstWord`).  `MapCalls` is the set of the
  calls so excluded;
* messages reach a handler of the module, so none of `LostCalls` is made.

| Theorem | Statement | also without |
|---|---|---|
| `VfsInvariance` | `Spec => []VfsInv` | |
| `UsedCorrect` | `Spec => []UsedCoversOccupied` | |
| `ReferencesCorrect` | `Spec => []ReferencesExact` | |
| `MountsCorrect` | `Spec => []MountsWellFormed` | |
| `DescriptorsCorrect` | `Spec => []DescriptorsValid` | |
| `NothingHeldCorrect` | `Spec => []NothingHeld` | `refused` |
| `ReadOnlyCorrect` | `Spec => ReadOnlyStaysFixed` | |
| `FailureCorrect` | `Spec => FailureUnmarks` | |

The calls left out are those of the table in section 2, each with the reason why the
property fails with it.  `VfsInv` is a conjunction on the server's memory: types;
`MapsInv` (what is occupied is marked); `NamespacesInv` (a namespace exists while it is
referred to, with the right count); `PointersInv` (a mount point is the root of its
namespace or in a bucket; one in a bucket has an enclosing mount point, so that no
open asks for it); `BucketsInv` (double links); `ListsInv` (one mounted list per mount
point); `InfosInv` and `HeldInv` (what descriptors lead to).  Again each C function has a
lemma, `Good(v, w, h)` says what a handler owes from memory `v` to memory `w`, and
`StepOk` what a message owes.  That no call of `MapCalls` was met is known only of a
whole message; `Grows` (what was met is never forgotten) carries it back to every call
inside.  TLC checked `VfsInv` first, on the run's instance (17450 states).

`InitrdFsProofs` proves, for all archives, names, sizes and buffers, none at all included:

| Theorem | Statement | `Calls` without |
|---|---|---|
| `WalksCorrect` | `Spec => []WalksExact` | `empty_last` |
| `OpenCorrect` | `Spec => OpenExact` | `refused`, `empty_last` |
| `InodesCorrect` | `Spec => []InodesIdentify` | `root_stat` |
| `NodeEmptyCorrect` | `Spec => []NodeEmpty` | `refused` |

Each call left out is one of the table in section 2, and no theorem leaves out more than it
needs.  The first part is about paths.  The server knows no tree, it compares
characters; `InDirectory` shows that its comparison of a directory's path with an
entry's holds exactly when the entry is in that directory, `PathsDiffer` that no
two entries have one path, and `MatchesName` that the comparison with a name that is
asked for, which goes on to the zero byte, is equality.  `PathExists` shows that the
recursion in `Path` has a solution, and `InOrderIs` that a finite set of numbers can be put
in order; both argue by the least counterexample.  The second part follows
messages: `DirectoryRead` and `FileRead` say what one read gives, `WalkSteps` what a message can do
to the reader of one descriptor.  `WalksInv` is inductive where `WalksExact` is not: a
reader in the middle of a directory has seen exactly the entries before its position, and
there is another one at or behind it, which is why `next_entry_position` is never given
for nothing; at position 0 it has seen nothing or all.  `InodesInv` says that an inode is the
descriptor's own address, and that what was seen in a directory is in it.  TLC checked
both first, on the run's instance (28234 states).

`UserLandProofs` proves `ExecCorrect`, `BootSpec => []ExecAllOrNothing`, without any
hypothesis (a process has a thread and memory, or neither, and the ids of those that have
them are marked; the id of a refused one stays marked too, of which the property says
nothing), and `RootCorrect`, `BootSpec => []RootShared`, for `Calls` without `MapCalls`;
archives, refusals and sizes are arbitrary.  The first needs `PidsInv`, how far the process server has got and
which ids, threads and memory there are then.  The second adds `PlacesAt`, which places the three
processes can be at together, and `MemoryAt`, what the VFS server's memory holds at
each of them; it reuses the lemmas of `VfsServerProofs` on its set-up, on new
processes and on mounts.  TLC checked `BootInv` on the instance of `user_land_boot` (6452
states).

The third part proves `ImagesCorrect`, `BootSpec => []ImagesRight`, also without any hypothesis:
binaries of any size, with any relocations and any GOT, at any address, are loaded
as `Home` says.  `Home` counts words (the place of a word is how many come before
it), the code subtracts addresses; `Addresses` shows that they agree, by the
cardinality of intervals.  `After` is the closed form of the loop over the relocations:
what each word is after `n` of them.  `RelocatedIs` shows by the least counterexample that
the recursive function which stands for the loop is that one; it holds because
no word has two relocations, so that what the loop reads is still what the file had.
`GotKnown` says the same of the GOT, whose loop reads its end mark after the relocations were
made: none of them is for the mark, nor for a word in front of it.  `CopiedIs`, `RelocatedAs` and `FixedUpAs`
follow the memory through the three loops of `bflt_load`, words around the allocation included,
which is why nothing outside is written; `ArgumentsIs` shows that the arguments on the
stack lie above the image.  `ImagesInv` is inductive together with `PidsInv`, which says
that a process's id is a new one, so that its image replaces no other.

Assumptions, all named and evaluated by TLC on the runs: `ThreadAssumption` (NULL is no
thread), `IpcAssumption` (NULL is no endpoint and no capability, messages have four
capability fields), `DeliveryAssumption` (a delivery is not NULL),
`KernelObjectsAssumption` (there are ids, a hash function gives buckets),
`CapabilitiesAssumption` (NULL is no slot, nodes have slots 0 to a number), `VfsAssumption`
(tables are whole words, SIZE_MAX is no slot, process 1 and inode 0 exist),
`InitrdAssumption` (archives are as `utils/jax` writes them, names hold no zero byte, a
directory entry's header fits in a message),
`UserLandAssumption` (more than three process ids), `BfltAssumption` (the header's size and the largest
field are numbers) and `ArchiveAssumption` (the archive lies below the heap; a server in
it that the loader accepts is a binary, fits in its file and has room on its stack for
two arguments and a return address, where `elf2flt` gives 4096 bytes).

Only model-checked:

* `RevokeLeavesOriginal`, and the other properties of `Capabilities` for lists of more than two;
* `NoStarvation` and `EventuallyBoots`: liveness;
* `Heap`: `heap_alloc` calls itself and is modelled with recursive operators, which the
  prover does not support.  Its five properties are checked on the small heaps of the runs.

## 5. Not modelled

`PROJECT.json` gives the reason for each component that is left out.  In detail:

* *Kernel.*  The lookup of capabilities through nested nodes and their locks, the
  contents of registers, the console, the loading of the boot image, debug output.
* *VFS server.*  What follows the calls `misdirected`, `mount_proxied` and `unset_root` of
  section 2: it depends on what is at the addresses that the server then uses.  A mounted list that grows beyond one
  link, which no message leads to, since every mount starts a list of its own.
  Mounting a descriptor of the VFS server itself: the server would wait for itself.
  Clients are assumed to supply the reply endpoint, the name or the descriptor that a
  message needs, and to receive the reply; the creator of a new process is a
  process that the server knows.
* *Archives.*  Those in which another regular file, whose name only starts with the one
  looked for, comes first: `jax_find` would pick it.  The byte order of fields.
* *Binaries.*  `IsBinary` says what a binary made by the tools looks like.  Files that break
  it, such as one with relocations outside of the image or a GOT without an end mark,
  are loaded without any check; what is written then is anywhere.
* *initrd file system.*  What a message without a buffer or a name makes of the memory at
  address 7, and what is written behind a buffer smaller than a directory entry: no
  property is about what the server writes, since the code does not keep to the buffer.
* *Process server.*  Refusals inside `init_process_table`.  A refused node shows as the refusal of
  what is to be put into it; if the memory of the ids, or its lock, were refused, the code
  would write through the error number.  `release_pid` is called nowhere.  `PID_MAX` is 1024 while the nodes that are indexed by
  pid have 2^9 slots, so ids from 512 on have no slot; the
  models have a handful.
* *Others.*  The C library routines, the host tool `jax` and the test harness;
  `debug_console` and `service_manager` are empty.

## 6. Plan

1. `CapabilitySpace`: nested nodes, `look_up_capability` with its locks,
   `update_capability_addresses`, `populate_capability_slot`, `node_destructor`, the
   nesting limit.  Every lock that is taken is released; the address kept in a
   slot is where the slot is.
2. `VfsServer` composed with `InitrdFs`: opening a path through the VFS server reaches
   the file of the archive, with the answers of the file system server no longer free.
3. Theorems: those of `Capabilities` for `Calls` with `copy_shared`, `RevokeLeavesOriginal` among them:
   the invariant must then say of lists of any length, with a last `prev` that may be
   wrong, what it now says of pairs.
