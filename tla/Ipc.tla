-------------------------------- MODULE Ipc ---------------------------------
(***************************************************************************)
(* Synchronous message passing between threads, src/core/kernel/ipc.c, on  *)
(* top of the scheduler, with the traps (arch/68000/interrupts.c) through  *)
(* which a thread reaches both.                                            *)
(*                                                                         *)
(* Every thread here is allocated and has its root node; module          *)
(* KernelObjects adds their creation, destruction and relocation.  A       *)
(* capability space is the set of slots below the thread's root node: a    *)
(* slot address looks up its slot, any other address fails to.  The        *)
(* capability a thread invokes is abstracted to the endpoint or thread it  *)
(* names and, for an endpoint, its badge.                                  *)
(***************************************************************************)
EXTENDS Naturals, FiniteSets, Scheduler

CONSTANTS
  Endpoint,
  Badge,          \* the badges of the endpoint capabilities threads hold
  Slot,           \* capability slots below a thread's root node
  Resource,       \* what the capabilities in those slots refer to
  Node,           \* the resources that are capability nodes
  InitialSlots,   \* Thread -> Slot -> the capability there at the start
  SendMessages,   \* the messages that threads send
  RecvMessages,   \* the message structs that threads receive into
  Calls           \* the calls that threads make

(***************************************************************************)
(* "suspend_stale" is the suspension of a thread that is on the run queue  *)
(* and whose links there are wrong; the README says why it is told apart.  *)
(***************************************************************************)
AllCalls == {"yield", "exception", "send", "receive", "resume", "suspend",
             "suspend_stale", "alloc_endpoint", "delete_endpoint"}

(***************************************************************************)
(* struct ipc_message: the payload, an address (or NULL, a depth of zero)  *)
(* in each of its four capability slots, and which of those to copy.       *)
(***************************************************************************)
IPC_CAPABILITY_SLOTS == 0..3
IsMessage(m) == /\ DOMAIN m = {"buffer", "capabilities", "to_copy"}
                /\ DOMAIN m.capabilities = IPC_CAPABILITY_SLOTS
                /\ m.to_copy \subseteq IPC_CAPABILITY_SLOTS

Capability == [resource : Resource, original : BOOLEAN]

ASSUME IpcAssumption ==
  /\ NULL \notin Endpoint
  /\ \A c \in Capability : c # NULL
  /\ Node \subseteq Resource
  /\ InitialSlots \in [Thread -> [Slot -> Capability \cup {NULL}]]
  /\ \A m \in SendMessages \cup RecvMessages : IsMessage(m)

VARIABLES
  endpoints,         \* the endpoints that are allocated
  blocked_sending,   \* endpoint->blocked_sending
  blocked_receiving, \* endpoint->blocked_receiving
  blocked_queue,     \* thread->blocked_queue
  blocked_on,        \* thread->blocked_on
  blocked_flags,     \* the THREAD_BLOCKED_ON_* bits of thread->flags
  sending_badge,     \* thread->sending_badge
  message_buffer,    \* *thread->message_buffer, while the thread is blocked
  delivery,          \* the message the last trap wrote to a receiver's struct
  slots              \* the capability slots of each thread

ipcVars == <<endpoints, blocked_sending, blocked_receiving, blocked_queue,
             blocked_on, blocked_flags, sending_badge, message_buffer,
             delivery, slots>>

vars == <<schedulerVars, ipcVars>>

(* The kernel state the C functions work on. *)
K == [exec_mode |-> exec_mode, runqueue |-> runqueue,
      runqueue_entry |-> runqueue_entry, priority_queue |-> priority_queue,
      current_thread |-> current_thread,
      pending_context_switch |-> pending_context_switch,
      currently_running |-> currently_running, saved |-> saved, cpu |-> cpu,
      endpoints |-> endpoints, blocked_sending |-> blocked_sending,
      blocked_receiving |-> blocked_receiving, blocked_queue |-> blocked_queue,
      blocked_on |-> blocked_on, blocked_flags |-> blocked_flags,
      sending_badge |-> sending_badge, message_buffer |-> message_buffer,
      delivery |-> delivery, slots |-> slots]

(* A message as its receiver finds it. *)
Delivery == [to : Thread, buffer : {m.buffer : m \in SendMessages}, badge : Badge,
             transferred : SUBSET IPC_CAPABILITY_SLOTS]

ASSUME DeliveryAssumption == \A d \in Delivery : d # NULL

KernelState ==
  [exec_mode : [Thread -> ExecMode],
   runqueue : [Thread -> BOOLEAN],
   runqueue_entry : LinkField(Thread),
   priority_queue : Container(Thread),
   current_thread : Thread \cup {NULL},
   pending_context_switch : BOOLEAN,
   currently_running : [Thread -> BOOLEAN],
   saved : [Thread -> BOOLEAN],
   cpu : Thread \cup {NULL},
   endpoints : SUBSET Endpoint,
   blocked_sending : [Endpoint -> Container(Thread)],
   blocked_receiving : [Endpoint -> Container(Thread)],
   blocked_queue : LinkField(Thread),
   blocked_on : [Thread -> Endpoint \cup {NULL}],
   blocked_flags : [Thread -> SUBSET {"SEND", "RECEIVE"}],
   sending_badge : [Thread -> Badge \cup {NULL}],
   message_buffer : [Thread -> SendMessages \cup RecvMessages \cup {NULL}],
   delivery : Delivery \cup {NULL},
   slots : [Thread -> [Slot -> Capability \cup {NULL}]]]

Become(k) ==
  /\ exec_mode' = k.exec_mode
  /\ runqueue' = k.runqueue
  /\ runqueue_entry' = k.runqueue_entry
  /\ priority_queue' = k.priority_queue
  /\ current_thread' = k.current_thread
  /\ pending_context_switch' = k.pending_context_switch
  /\ currently_running' = k.currently_running
  /\ saved' = k.saved
  /\ cpu' = k.cpu
  /\ endpoints' = k.endpoints
  /\ blocked_sending' = k.blocked_sending
  /\ blocked_receiving' = k.blocked_receiving
  /\ blocked_queue' = k.blocked_queue
  /\ blocked_on' = k.blocked_on
  /\ blocked_flags' = k.blocked_flags
  /\ sending_badge' = k.sending_badge
  /\ message_buffer' = k.message_buffer
  /\ delivery' = k.delivery
  /\ slots' = k.slots

-----------------------------------------------------------------------------
(* Mutant: whether the destination is taken is not checked. *)
RefusedButOverwriting(r, sending, receiving, source, dest, should_copy) ==
  \/ source = NULL \/ dest = NULL
  \/ source \notin Slot
  \/ r.slots[sending][source] = NULL
  \/ should_copy /\ r.slots[sending][source].resource \in Node
  \/ dest \notin Slot

(* Mutant: a copy is as original as what it is a copy of. *)
ExactCopyOf(cap) == cap

(***************************************************************************)
(* transfer_capabilities: the loop body for index i.  r holds the slots    *)
(* and the transferred_capabilities mask as the loop has left them.        *)
(***************************************************************************)
Refused(r, sending, receiving, source, dest, should_copy) ==
  \/ source = NULL \/ dest = NULL
  \/ source \notin Slot
  \/ r.slots[sending][source] = NULL
  \/ should_copy /\ r.slots[sending][source].resource \in Node
  \/ dest \notin Slot
  \/ r.slots[receiving][dest] # NULL

CopyOf(cap) == [resource |-> cap.resource, original |-> FALSE]

transfer_capability(r, sending, receiving, sent, recv, i) ==
  LET source == sent.capabilities[i]
      dest   == recv.capabilities[i]
      cap    == r.slots[sending][source]
      should_copy == i \in sent.to_copy
      moved  == [r.slots EXCEPT ![sending][source] = NULL]
  IN  IF Refused(r, sending, receiving, source, dest, should_copy) THEN r
      ELSE [slots |-> IF should_copy
                      THEN [r.slots EXCEPT ![receiving][dest] = CopyOf(cap)]
                      ELSE [moved EXCEPT ![receiving][dest] = cap],
            transferred |-> r.transferred \cup {i}]

transfer_capabilities(s, sending, receiving, sent, recv) ==
  LET Step(r, i) == transfer_capability(r, sending, receiving, sent, recv, i)
  IN  Step(Step(Step(Step([slots |-> s, transferred |-> {}], 0), 1), 2), 3)

(* Mutant: the badge is not written. *)
DeliveredUnbadged(receiving, buffer, badge, r) ==
  [to |-> receiving, buffer |-> buffer, badge |-> NULL,
   transferred |-> r.transferred]

(* The payload, badge and transferred_capabilities written to a receiver.  *)
Delivered(receiving, buffer, badge, r) ==
  [to |-> receiving, buffer |-> buffer, badge |-> badge,
   transferred |-> r.transferred]

(* The calling thread waits on queue `queue` of endpoint e.                *)
block_current_thread(k, e, badge, m, flag) ==
  LET t == k.current_thread
      s == LIST_APPEND(k.blocked_sending[e], k.blocked_queue, t)
      r == LIST_APPEND(k.blocked_receiving[e], k.blocked_queue, t)
      l == IF flag = "SEND" THEN s ELSE r
      q == IF flag = "SEND"
           THEN [k EXCEPT !.blocked_sending[e] = l.container]
           ELSE [k EXCEPT !.blocked_receiving[e] = l.container]
      k1 == [q EXCEPT !.blocked_queue = l.field,
                      !.message_buffer[t] = m,
                      !.sending_badge[t] = badge,
                      !.blocked_on[t] = e,
                      !.blocked_flags[t] = @ \cup {flag}]
  IN  suspend_thread(k1, t, BLOCKED)

(* Mutant: the THREAD_BLOCKED_ON_* flag stays set. *)
released_still_flagged(k, t, flag) == [k EXCEPT !.blocked_on[t] = NULL]

(* A thread that waited is taken out of its queue: it waits no longer.     *)
released(k, t, flag) == [k EXCEPT !.blocked_flags[t] = @ \ {flag},
                                  !.blocked_on[t] = NULL]

endpoint_send(k, e, badge, m) ==
  LET receiving == k.blocked_receiving[e].start
      l == LIST_POP_FROM_START(k.blocked_receiving[e], k.blocked_queue)
      r == transfer_capabilities(k.slots, k.current_thread, receiving,
                                 m, k.message_buffer[receiving])
      k1 == [released(k, receiving, "RECEIVE") EXCEPT
              !.blocked_receiving[e] = l.container,
              !.blocked_queue = l.field,
              !.delivery = Delivered(receiving, m.buffer, badge, r),
              !.slots = r.slots]
  IN  IF LIST_CAN_POP(k.blocked_receiving[e])
      THEN resume_thread(k1, receiving, BLOCKED)
      ELSE block_current_thread(k, e, badge, m, "SEND")

endpoint_receive(k, e, badge, m) ==
  LET sending == k.blocked_sending[e].start
      sent == k.message_buffer[sending]
      l == LIST_POP_FROM_START(k.blocked_sending[e], k.blocked_queue)
      r == transfer_capabilities(k.slots, sending, k.current_thread, sent, m)
      k1 == [released(k, sending, "SEND") EXCEPT
              !.blocked_sending[e] = l.container,
              !.blocked_queue = l.field,
              !.delivery = Delivered(k.current_thread, sent.buffer,
                                     k.sending_badge[sending], r),
              !.slots = r.slots]
  IN  IF LIST_CAN_POP(k.blocked_sending[e])
      THEN resume_thread(k1, sending, BLOCKED)
      ELSE block_current_thread(k, e, badge, m, "RECEIVE")

(* Mutant: the threads that waited still name the endpoint. *)
endpoint_destructor_named(k, e) ==
  LET next == k.blocked_queue.next
      W == Members(Thread, k.blocked_sending[e].start, next)
             \cup Members(Thread, k.blocked_receiving[e].start, next)
  IN  [k EXCEPT
        !.exec_mode = [t \in Thread |-> IF t \in W
                                        THEN (k.exec_mode[t] \cup {SUSPENDED}) \ {BLOCKED}
                                        ELSE k.exec_mode[t]],
        !.blocked_sending[e] = LIST_INIT,
        !.blocked_receiving[e] = LIST_INIT,
        !.endpoints = @ \ {e}]

(***************************************************************************)
(* endpoint_destructor, and the free that follows it.  The loops walk both *)
(* queues and turn every waiting thread from blocked into suspended; the   *)
(* THREAD_BLOCKED_ON_* flags are left as they are.  No waiting thread is   *)
(* on the run queue (RunqueueExact), so suspend_thread never gets to its   *)
(* LIST_REMOVE and the iterations are independent of each other.  The      *)
(* freed containers are never read before alloc_endpoint sets them again.  *)
(***************************************************************************)
endpoint_destructor(k, e) ==
  LET next == k.blocked_queue.next
      W == Members(Thread, k.blocked_sending[e].start, next)
             \cup Members(Thread, k.blocked_receiving[e].start, next)
  IN  [k EXCEPT
        !.exec_mode = [t \in Thread |-> IF t \in W
                                        THEN (k.exec_mode[t] \cup {SUSPENDED}) \ {BLOCKED}
                                        ELSE k.exec_mode[t]],
        !.blocked_on = [t \in Thread |-> IF t \in W THEN NULL ELSE k.blocked_on[t]],
        !.blocked_sending[e] = LIST_INIT,
        !.blocked_receiving[e] = LIST_INIT,
        !.endpoints = @ \ {e}]

alloc_endpoint(k, e) ==
  [k EXCEPT !.endpoints = @ \cup {e},
            !.blocked_sending[e] = LIST_INIT,
            !.blocked_receiving[e] = LIST_INIT]

-----------------------------------------------------------------------------
(* The state the kernel first enters user mode in: main_init has resumed   *)
(* the root thread, which the first try_context_switch has just loaded.    *)
Init ==
  \E root \in Thread :
    /\ exec_mode = [t \in Thread |-> IF t = root THEN RUNNING ELSE {SUSPENDED}]
    /\ runqueue = [t \in Thread |-> FALSE]
    /\ runqueue_entry = NoLinks(Thread)
    /\ priority_queue = LIST_INIT
    /\ current_thread = root
    /\ pending_context_switch = FALSE
    /\ currently_running = [t \in Thread |-> t = root]
    /\ saved = [t \in Thread |-> t # root]
    /\ cpu = root
    /\ endpoints = {}
    /\ blocked_sending = [e \in Endpoint |-> LIST_INIT]
    /\ blocked_receiving = [e \in Endpoint |-> LIST_INIT]
    /\ blocked_queue = NoLinks(Thread)
    /\ blocked_on = [t \in Thread |-> NULL]
    /\ blocked_flags = [t \in Thread |-> {}]
    /\ sending_badge = [t \in Thread |-> NULL]
    /\ message_buffer = [t \in Thread |-> NULL]
    /\ delivery = NULL
    /\ slots = InitialSlots

(***************************************************************************)
(* A trap by the running thread: the handler, then try_context_switch.     *)
(* K0 is the state at its entry, no message delivered yet.                 *)
(***************************************************************************)
Trap(call, k) == /\ call \in Calls
                 /\ current_thread # NULL
                 /\ Become(try_context_switch(k))

K0 == [K EXCEPT !.delivery = NULL]

Yield == Trap("yield", yield_thread(K0))

(* handle_thread_exception *)
Exception == Trap("exception", suspend_thread(K0, current_thread, SUSPENDED))

Send(e, badge, m) == /\ e \in endpoints
                     /\ Trap("send", endpoint_send(K0, e, badge, m))

Receive(e, badge, m) == /\ e \in endpoints
                        /\ Trap("receive", endpoint_receive(K0, e, badge, m))

Resume(t) == Trap("resume", resume_thread(K0, t, SUSPENDED))

(* A thread on the run queue knows what is before it there. *)
RunnerKnown(t) ==
  runqueue[t] => PrevAccurate(priority_queue, runqueue_entry,
                              Members(Thread, priority_queue.start, runqueue_entry.next), t)

Suspend(t) == Trap(IF RunnerKnown(t) THEN "suspend" ELSE "suspend_stale",
                   suspend_thread(K0, t, SUSPENDED))

AllocEndpoint(e) == /\ e \notin endpoints
                    /\ Trap("alloc_endpoint", alloc_endpoint(K0, e))

(* The last capability to e is deleted. *)
DeleteEndpoint(e) == /\ e \in endpoints
                     /\ Trap("delete_endpoint", endpoint_destructor(K0, e))

Next ==
  \/ Yield
  \/ Exception
  \/ \E e \in Endpoint, badge \in Badge :
       \/ \E m \in SendMessages : Send(e, badge, m)
       \/ \E m \in RecvMessages : Receive(e, badge, m)
  \/ \E t \in Thread : Resume(t) \/ Suspend(t)
  \/ \E e \in Endpoint : AllocEndpoint(e) \/ DeleteEndpoint(e)

Spec == Init /\ [][Next]_vars

(***************************************************************************)
(* The kernel has no timer: a thread keeps the processor until it traps.   *)
(* Threads cooperate if one that runs while others wait for the processor  *)
(* yields in the end.  This is WF_vars(Yield), with ENABLED <<Yield>>_vars *)
(* written out: without another thread on the run queue a yield changes    *)
(* nothing.                                                                *)
(***************************************************************************)
OthersQueued == \E t \in Thread : runqueue[t] /\ t # current_thread
Cooperation == []<>~OthersQueued \/ []<><<Yield>>_vars

FairSpec == Spec /\ Cooperation

-----------------------------------------------------------------------------
(* Every trap leaves kernel state of the types the code declares; above     *)
(* all, what is delivered is a message some thread sent, under a badge      *)
(* some thread holds, and waiting threads have the message they wait with.  *)
TypeOK == K \in KernelState

(***************************************************************************)
(* The run queue holds exactly the threads that say they are on it; these  *)
(* are runnable, and every runnable thread is on it or running.  A thread  *)
(* that is lost from the queue would never run again, one left on it would *)
(* run while it waits for a message.                                       *)
(***************************************************************************)
RunqueueExact ==
  /\ IsQueueOf(priority_queue, runqueue_entry.next, Thread, {t \in Thread : runqueue[t]})
  /\ \A t \in Thread : /\ runqueue[t] => exec_mode[t] = RUNNING
                       /\ exec_mode[t] = RUNNING => runqueue[t] \/ t = current_thread

Sending(e) == Members(Thread, blocked_sending[e].start, blocked_queue.next)
Receiving(e) == Members(Thread, blocked_receiving[e].start, blocked_queue.next)

(***************************************************************************)
(* The two queues of every endpoint hold exactly the threads that are      *)
(* blocked on it, each in one of them; at most one of them has threads     *)
(* waiting (two threads that could meet never wait for each other); and a  *)
(* thread is blocked on an endpoint exactly when its execution mode says   *)
(* so.                                                                     *)
(***************************************************************************)
BlockedExact ==
  /\ \A e \in endpoints :
       /\ IsQueueOf(blocked_sending[e], blocked_queue.next, Thread, Sending(e))
       /\ IsQueueOf(blocked_receiving[e], blocked_queue.next, Thread, Receiving(e))
       /\ Sending(e) \cup Receiving(e) = {t \in Thread : blocked_on[t] = e}
       /\ Sending(e) = {} \/ Receiving(e) = {}
  /\ \A t \in Thread : /\ BLOCKED \in exec_mode[t] <=> blocked_on[t] # NULL
                       /\ blocked_on[t] \in endpoints \cup {NULL}

(* The THREAD_BLOCKED_ON_* flags, by which thread_destructor and           *)
(* on_thread_moved choose the queue of a blocked thread, name that queue.  *)
FlagsNameQueue ==
  \A e \in endpoints, t \in Thread :
    /\ t \in Sending(e) => "SEND" \in blocked_flags[t]
    /\ t \in Receiving(e) => blocked_flags[t] = {"RECEIVE"}

(***************************************************************************)
(* After every trap the processor holds the context of a thread that may   *)
(* run, or idles because no thread may; every other thread's context is in *)
(* its registers field; and THREAD_CURRENTLY_RUNNING, by which             *)
(* on_thread_moved finds the running thread, marks that thread alone.      *)
(***************************************************************************)
ProcessorOwned ==
  /\ ~pending_context_switch
  /\ cpu = current_thread
  /\ current_thread # NULL => exec_mode[current_thread] = RUNNING
  /\ current_thread = NULL => \A t \in Thread : exec_mode[t] # RUNNING
  /\ \A t \in Thread : /\ saved[t] <=> t # current_thread
                       /\ currently_running[t] <=> t = current_thread

(* The slots that hold an original capability to r. *)
Originals(r) == {p \in Thread \X Slot : slots[p[1]][p[2]] = [resource |-> r, original |-> TRUE]}

(***************************************************************************)
(* Messages never lose or duplicate the original capability to a resource, *)
(* and never copy a node: transfer_capabilities, run over all slots of a   *)
(* message whose indices may name the same source or destination, moves    *)
(* or copies each at most once.                                            *)
(***************************************************************************)
OriginalsConserved ==
  \A r \in Resource :
    /\ \E p \in Originals(r) : Originals(r) = {p}
    /\ r \in Node => \A t \in Thread, s \in Slot :
                       slots[t][s] # NULL /\ slots[t][s].resource = r
                         => slots[t][s].original

(***************************************************************************)
(* A trap fills capability slots of the thread it delivers a message to    *)
(* and of no other, as many as transferred_capabilities reports, each of   *)
(* them empty before; it takes capabilities only out of slots of the       *)
(* sender, never out of the receiver's.                                    *)
(***************************************************************************)
TransferReported ==
  [][LET filled(t)  == {s \in Slot : slots[t][s] = NULL /\ slots'[t][s] # NULL}
         emptied(t) == {s \in Slot : slots[t][s] # NULL /\ slots'[t][s] = NULL}
         changed(t) == {s \in Slot : slots[t][s] # slots'[t][s]}
     IN  \A t \in Thread :
           /\ changed(t) = filled(t) \cup emptied(t)
           /\ filled(t) = {} \/ emptied(t) = {}
           /\ Cardinality(filled(t)) = IF delivery' # NULL /\ delivery'.to = t
                                       THEN Cardinality(delivery'.transferred)
                                       ELSE 0]_vars

(* A thread that may run does run, as long as the running threads yield.   *)
NoStarvation ==
  \A t \in Thread : exec_mode[t] = RUNNING
                      ~> current_thread = t \/ exec_mode[t] # RUNNING
=============================================================================
