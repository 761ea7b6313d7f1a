--------------------------- MODULE KernelObjects ----------------------------
(***************************************************************************)
(* The lives of threads and endpoints: alloc_thread, thread_destructor,    *)
(* the table of thread ids and set_root_node (src/core/kernel/threads.c),  *)
(* and what happens when the heap moves a thread or an endpoint to another *)
(* address (on_thread_moved, on_endpoint_moved).                           *)
(*                                                                         *)
(* An element of Thread is here an address that can hold a thread, and     *)
(* `allocated` are the addresses that do.  Freed memory keeps its          *)
(* contents: nothing in the kernel clears it.  Which free address an       *)
(* allocation gets, and which objects it moves, is up to the heap.  What   *)
(* is in a thread's capability space is left out; only whether the thread  *)
(* has a root node yet is kept, without which it can invoke nothing.       *)
(***************************************************************************)
EXTENDS Ipc

CONSTANTS
  MaxThreadId,   \* ids are 1..MaxThreadId, id 0 is the kernel's
  Bucket,        \* the buckets of the hash table
  bucket_of(_)   \* hash(id) % NUM_BUCKETS

ThreadId == 0..MaxThreadId

ASSUME KernelObjectsAssumption ==
  /\ MaxThreadId \in Nat \ {0}
  /\ \A id \in ThreadId : bucket_of(id) \in Bucket

(***************************************************************************)
(* Calls of this module.  Those with a suffix are told apart because the   *)
(* lists are not maintained in all of them (see the README):               *)
(*   delete_thread          another thread than the running one            *)
(*   delete_thread_stale    one whose links or flags in a queue are wrong  *)
(*   delete_thread_running  the running one                                *)
(*   relocate               the heap moves a thread                        *)
(*   relocate_stale         one whose links or flags in a queue are wrong  *)
(*   alloc_thread_failing   creation into a slot that cannot be used       *)
(***************************************************************************)
AllObjectCalls ==
  AllCalls \cup {"alloc_thread", "alloc_thread_failing", "set_root_node",
    "delete_thread", "delete_thread_stale", "delete_thread_running",
    "relocate", "relocate_stale", "relocate_endpoint"}

VARIABLES
  allocated,          \* addresses that hold a thread
  thread_id,          \* thread->thread_id
  used_thread_ids,    \* used_thread_ids, as the set of its bits
  thread_hash_table,  \* thread_hash_table
  table_entry,        \* thread->table_entry
  root                \* thread->root_capability is set

tableVars == <<allocated, thread_id, used_thread_ids, thread_hash_table,
               table_entry, root>>
objectVars == <<vars, tableVars>>

-----------------------------------------------------------------------------
(* Mutant: a thread that waits for a message is left in the queue. *)
unlink_runner(k, t) ==
  LET l == LIST_REMOVE(k.priority_queue, k.runqueue_entry, t)
  IN  IF ~k.runqueue[t] THEN k
      ELSE [k EXCEPT !.priority_queue = l.container, !.runqueue_entry = l.field]

(* thread_destructor, on the scheduler's and the endpoints' lists.         *)
unlink_thread(k, t) ==
  LET l  == LIST_REMOVE(k.priority_queue, k.runqueue_entry, t)
      k1 == IF ~k.runqueue[t] THEN k
            ELSE [k EXCEPT !.priority_queue = l.container, !.runqueue_entry = l.field]
      e  == k.blocked_on[t]
      s  == LIST_REMOVE(k.blocked_sending[e], k.blocked_queue, t)
      r  == LIST_REMOVE(k.blocked_receiving[e], k.blocked_queue, t)
  IN  IF e = NULL THEN k1
      ELSE IF "SEND" \in k.blocked_flags[t]
      THEN [k1 EXCEPT !.blocked_sending[e] = s.container,
                      !.blocked_queue = s.field]
      ELSE [k1 EXCEPT !.blocked_receiving[e] = r.container,
                      !.blocked_queue = r.field]

(* memset and the initial execution mode of alloc_thread. *)
cleared_thread(k, t) ==
  LET Zero(f) == [prev |-> [f.prev EXCEPT ![t] = NULL], next |-> [f.next EXCEPT ![t] = NULL]]
  IN  [k EXCEPT !.exec_mode[t] = {SUSPENDED},
                !.runqueue[t] = FALSE,
                !.runqueue_entry = Zero(@),
                !.currently_running[t] = FALSE,
                !.saved[t] = TRUE,
                !.blocked_queue = Zero(@),
                !.blocked_on[t] = NULL,
                !.blocked_flags[t] = {},
                !.sending_badge[t] = NULL,
                !.message_buffer[t] = NULL,
                !.slots[t] = [s \in Slot |-> NULL]]

(* Mutant: the search runs one id too far. *)
FreeIdsTooFar == (0..MaxThreadId + 1) \ used_thread_ids

(* The lowest id whose bit is clear. *)
FreeIds == ThreadId \ used_thread_ids
new_thread_id == CHOOSE id \in FreeIds : \A other \in FreeIds : id <= other

(***************************************************************************)
(* address_space_alloc for a thread: alloc_thread, then                    *)
(* populate_capability_slot.  When the slot cannot be used the memory is   *)
(* freed again, without thread_destructor.                                 *)
(***************************************************************************)
AllocThread(t, call) ==
  /\ t \notin allocated
  /\ FreeIds # {}
  /\ Trap(call, cleared_thread(K0, t))
  /\ LET id == new_thread_id
         b == bucket_of(id)
         l == LIST_APPEND(thread_hash_table[b],
                [prev |-> [table_entry.prev EXCEPT ![t] = NULL],
                 next |-> [table_entry.next EXCEPT ![t] = NULL]], t)
     IN  /\ used_thread_ids' = used_thread_ids \cup {id}
         /\ thread_id' = [thread_id EXCEPT ![t] = id]
         /\ thread_hash_table' = [thread_hash_table EXCEPT ![b] = l.container]
         /\ table_entry' = l.field
  /\ root' = [root EXCEPT ![t] = FALSE]
  /\ allocated' = IF call = "alloc_thread" THEN allocated \cup {t} ELSE allocated

(* THREAD_SET_ROOT_NODE with a node that the calling thread holds. *)
SetRootNode(t) == /\ t \in allocated
                  /\ Trap("set_root_node", K0)
                  /\ root' = [root EXCEPT ![t] = TRUE]
                  /\ UNCHANGED <<allocated, thread_id, used_thread_ids,
                                 thread_hash_table, table_entry>>

(* A thread that waits on an endpoint knows what is before it there, and   *)
(* its flags name the queue it is in.                                      *)
WaiterKnown(t) ==
  LET e == blocked_on[t]
  IN  e # NULL =>
        IF "SEND" \in blocked_flags[t]
        THEN /\ t \in Sending(e)
             /\ PrevAccurate(blocked_sending[e], blocked_queue, Sending(e), t)
        ELSE /\ "RECEIVE" \in blocked_flags[t]
             /\ t \in Receiving(e)
             /\ PrevAccurate(blocked_receiving[e], blocked_queue, Receiving(e), t)

PlaceKnown(t) == RunnerKnown(t) /\ WaiterKnown(t)

(* The last capability to thread t is deleted. *)
DeleteThread(t) ==
  /\ t \in allocated
  /\ root[t]
  /\ Trap(IF t = current_thread THEN "delete_thread_running"
          ELSE IF PlaceKnown(t) THEN "delete_thread" ELSE "delete_thread_stale",
          unlink_thread(K0, t))
  /\ LET b == bucket_of(thread_id[t])
         l == LIST_REMOVE(thread_hash_table[b], table_entry, t)
     IN  /\ thread_hash_table' = [thread_hash_table EXCEPT ![b] = l.container]
         /\ table_entry' = l.field
         /\ used_thread_ids' = used_thread_ids \ {thread_id[t]}
  /\ allocated' = allocated \ {t}
  /\ UNCHANGED <<thread_id, root>>

-----------------------------------------------------------------------------
CopyLinks(f, from, to) == [prev |-> [f.prev EXCEPT ![to] = f.prev[from]],
                           next |-> [f.next EXCEPT ![to] = f.next[from]]]

(* memmove of the thread struct from one address to the other. *)
copy_thread(k, from, to) ==
  LET Copy(f) == [f EXCEPT ![to] = f[from]]
  IN  [k EXCEPT !.exec_mode = Copy(@), !.runqueue = Copy(@),
                !.runqueue_entry = CopyLinks(@, from, to),
                !.currently_running = Copy(@), !.saved = Copy(@),
                !.blocked_queue = CopyLinks(@, from, to),
                !.blocked_on = Copy(@), !.blocked_flags = Copy(@),
                !.sending_badge = Copy(@), !.message_buffer = Copy(@),
                !.slots = Copy(@)]

(* on_thread_moved, on the scheduler's and the endpoints' lists.  The      *)
(* processor's registers are those of the same thread as before.           *)
on_thread_moved(k, from, t) ==
  LET l  == LIST_UPDATE_ADDRESS(k.priority_queue, k.runqueue_entry, t)
      k1 == IF ~k.runqueue[t] THEN k
            ELSE [k EXCEPT !.priority_queue = l.container, !.runqueue_entry = l.field]
      e  == k.blocked_on[t]
      s  == LIST_UPDATE_ADDRESS(k.blocked_sending[e], k.blocked_queue, t)
      r  == LIST_UPDATE_ADDRESS(k.blocked_receiving[e], k.blocked_queue, t)
      k2 == IF e = NULL \/ k.blocked_flags[t] = {} THEN k1
            ELSE IF "SEND" \in k.blocked_flags[t]
            THEN [k1 EXCEPT !.blocked_sending[e] = s.container,
                            !.blocked_queue = s.field]
            ELSE [k1 EXCEPT !.blocked_receiving[e] = r.container,
                            !.blocked_queue = r.field]
  IN  [k2 EXCEPT !.current_thread = IF k.currently_running[t] THEN t ELSE @,
                 !.cpu = IF @ = from THEN t ELSE @]

(* An allocation by the running thread makes the heap move a thread. *)
RelocateThread(from, to) ==
  /\ from \in allocated
  /\ to \notin allocated
  /\ Trap(IF PlaceKnown(from) THEN "relocate" ELSE "relocate_stale",
          on_thread_moved(copy_thread(K0, from, to), from, to))
  /\ LET b == bucket_of(thread_id[from])
         l == LIST_UPDATE_ADDRESS(thread_hash_table[b], CopyLinks(table_entry, from, to), to)
     IN  /\ thread_hash_table' = [thread_hash_table EXCEPT ![b] = l.container]
         /\ table_entry' = l.field
  /\ thread_id' = [thread_id EXCEPT ![to] = thread_id[from]]
  /\ root' = [root EXCEPT ![to] = root[from]]
  /\ allocated' = (allocated \ {from}) \cup {to}
  /\ UNCHANGED used_thread_ids

(* on_endpoint_moved: the threads in both queues are told the new address. *)
on_endpoint_moved(k, from, to) ==
  LET next == k.blocked_queue.next
      W == Members(Thread, k.blocked_sending[from].start, next)
             \cup Members(Thread, k.blocked_receiving[from].start, next)
  IN  [k EXCEPT
        !.blocked_on = [t \in Thread |-> IF t \in W THEN to ELSE k.blocked_on[t]],
        !.blocked_sending[to] = k.blocked_sending[from], !.blocked_sending[from] = LIST_INIT,
        !.blocked_receiving[to] = k.blocked_receiving[from], !.blocked_receiving[from] = LIST_INIT,
        !.endpoints = (@ \ {from}) \cup {to}]

RelocateEndpoint(from, to) ==
  /\ from \in endpoints
  /\ to \notin endpoints
  /\ Trap("relocate_endpoint", on_endpoint_moved(K0, from, to))
  /\ UNCHANGED tableVars

-----------------------------------------------------------------------------
(* main_init: the root thread is the only one, with id 1 and a root node.  *)
ObjectsInit ==
  /\ Init
  /\ LET r == current_thread
     IN  /\ allocated = {r}
         /\ thread_id = [t \in Thread |-> IF t = r THEN 1 ELSE 0]
         /\ used_thread_ids = {0, 1}
         /\ thread_hash_table = [b \in Bucket |->
              IF b = bucket_of(1) THEN [start |-> r, end |-> r] ELSE LIST_INIT]
         /\ table_entry = NoLinks(Thread)
         /\ root = [t \in Thread |-> t = r]

(* A yield and an exception need no capability; an invocation is looked up *)
(* below the root node of the running thread and names an allocated thread.*)
Uninvoked == (Yield \/ Exception) /\ UNCHANGED tableVars

Invoked ==
  \/ /\ \/ \E e \in Endpoint, badge \in Badge :
             \/ \E m \in SendMessages : Send(e, badge, m)
             \/ \E m \in RecvMessages : Receive(e, badge, m)
        \/ \E t \in allocated : Resume(t) \/ Suspend(t)
        \/ \E e \in Endpoint : AllocEndpoint(e) \/ DeleteEndpoint(e)
     /\ UNCHANGED tableVars
  \/ \E t \in Thread : \/ \E call \in {"alloc_thread", "alloc_thread_failing"} :
                            AllocThread(t, call)
                       \/ SetRootNode(t)
                       \/ DeleteThread(t)
  \/ \E from, to \in Thread : RelocateThread(from, to)
  \/ \E from, to \in Endpoint : RelocateEndpoint(from, to)

ObjectsNext == \/ Uninvoked
               \/ current_thread # NULL /\ root[current_thread] /\ Invoked

ObjectsSpec == ObjectsInit /\ [][ObjectsNext]_objectVars

-----------------------------------------------------------------------------
(* The kernel state and the thread table keep their types; no id outside    *)
(* the range of used_thread_ids is ever handed out.                         *)
ObjectsTypeOK ==
  /\ TypeOK
  /\ allocated \subseteq Thread
  /\ thread_id \in [Thread -> ThreadId]
  /\ used_thread_ids \subseteq ThreadId
  /\ thread_hash_table \in [Bucket -> Container(Thread)]
  /\ table_entry \in LinkField(Thread)
  /\ root \in [Thread -> BOOLEAN]

InBucket(b) == Members(Thread, thread_hash_table[b].start, table_entry.next)

(***************************************************************************)
(* look_up_thread_by_id finds every thread and only threads: each bucket   *)
(* holds exactly the allocated threads whose id hashes to it, no two have  *)
(* the same id, and the ids in use are theirs and the kernel's.  Every     *)
(* absolute capability address is resolved through this table.             *)
(***************************************************************************)
ThreadTableExact ==
  /\ \A b \in Bucket :
       IsQueueOf(thread_hash_table[b], table_entry.next, Thread,
                 {t \in allocated : bucket_of(thread_id[t]) = b})
  /\ \A t, u \in allocated : thread_id[t] = thread_id[u] => t = u
  /\ used_thread_ids = {0} \cup {thread_id[t] : t \in allocated}

(***************************************************************************)
(* The kernel holds no reference to memory that is not a thread: whatever  *)
(* has been destroyed or moved away is in no list and does not run.        *)
(***************************************************************************)
NoDanglingThread ==
  /\ current_thread \in allocated \cup {NULL}
  /\ Members(Thread, priority_queue.start, runqueue_entry.next) \subseteq allocated
  /\ \A e \in endpoints : Sending(e) \cup Receiving(e) \subseteq allocated
  /\ \A b \in Bucket : InBucket(b) \subseteq allocated

(***************************************************************************)
(* The queues stay exact while threads and endpoints come, go and move:    *)
(* each holds the allocated threads that say they are in it, the running   *)
(* thread may run and is the one marked as running, and no thread waits on *)
(* an endpoint that is gone.                                               *)
(***************************************************************************)
QueuesFollowObjects ==
  /\ IsQueueOf(priority_queue, runqueue_entry.next, Thread,
               {t \in allocated : exec_mode[t] = RUNNING /\ runqueue[t]})
  /\ \A t \in allocated : exec_mode[t] = RUNNING => runqueue[t] \/ t = current_thread
  /\ \A e \in endpoints : Sending(e) \cup Receiving(e) = {t \in allocated : blocked_on[t] = e}
  /\ \A t \in allocated : /\ currently_running[t] <=> t = current_thread
                          /\ blocked_on[t] \in endpoints \cup {NULL}
  /\ cpu = current_thread
=============================================================================
