----------------------------- MODULE IpcProofs ------------------------------
(***************************************************************************)
(* Proofs about module Ipc, for any number of threads, endpoints, badges,  *)
(* slots and messages.  The invariant IInv is stated on a kernel state k,  *)
(* so that it can be followed through the functions a trap calls: a trap   *)
(* starts in a state Entered, each handler ends in one Handled, and        *)
(* try_context_switch turns that into IInv again.  The second half proves  *)
(* that the endpoints implement Rendezvous: what a queue is as a sequence, *)
(* what each handler does to those sequences, and which step of Rendezvous *)
(* every trap is.                                                          *)
(***************************************************************************)
EXTENDS IpcRefinement, LinkedListProofs, NatLemmas, Sequences, FiniteSetTheorems,
        FunctionTheorems

-----------------------------------------------------------------------------
(* The invariant, on a kernel state.                                       *)

Queued(k) == {t \in Thread : k.runqueue[t]}

RunQueueIs(k, M) == IsQueueOf(k.priority_queue, k.runqueue_entry.next, Thread, M)

PrevKnown(k, t) == PrevAccurate(k.priority_queue, k.runqueue_entry, Queued(k), t)

(* The run queue holds the runnable threads.  A thread that runs and is on *)
(* the run queue all the same (it has resumed itself) was appended since   *)
(* the last pop, so its `prev` is accurate and LIST_REMOVE works on it.    *)
RunInv(k) ==
  /\ RunQueueIs(k, Queued(k))
  /\ \A t \in Thread : k.runqueue[t] => k.exec_mode[t] = RUNNING
  /\ \A t \in Thread : k.exec_mode[t] = RUNNING => k.runqueue[t] \/ t = k.current_thread
  /\ k.current_thread # NULL /\ k.runqueue[k.current_thread]
       => PrevKnown(k, k.current_thread)

(* The processor, between a handler and the context switch after it.       *)
CpuHeld(k) ==
  /\ k.current_thread # NULL
  /\ k.cpu = k.current_thread
  /\ \A t \in Thread : /\ k.saved[t] <=> t # k.current_thread
                       /\ k.currently_running[t] <=> t = k.current_thread
  /\ k.exec_mode[k.current_thread] # RUNNING => k.pending_context_switch

(* The processor, between two traps. *)
CpuInv(k) ==
  /\ ~k.pending_context_switch
  /\ k.cpu = k.current_thread
  /\ k.current_thread # NULL => k.exec_mode[k.current_thread] = RUNNING
  /\ k.current_thread = NULL => \A t \in Thread : k.exec_mode[t] # RUNNING
  /\ \A t \in Thread : /\ k.saved[t] <=> t # k.current_thread
                       /\ k.currently_running[t] <=> t = k.current_thread

SchedulerFrame(k, q) ==
  /\ q.current_thread = k.current_thread
  /\ q.currently_running = k.currently_running
  /\ q.saved = k.saved
  /\ q.cpu = k.cpu

EndpointFrame(k, q) ==
  /\ q.endpoints = k.endpoints
  /\ q.blocked_sending = k.blocked_sending
  /\ q.blocked_receiving = k.blocked_receiving
  /\ q.blocked_queue = k.blocked_queue
  /\ q.blocked_on = k.blocked_on
  /\ q.blocked_flags = k.blocked_flags
  /\ q.sending_badge = k.sending_badge
  /\ q.message_buffer = k.message_buffer
  /\ q.delivery = k.delivery
  /\ q.slots = k.slots

RunQueueFrame(k, q) ==
  /\ q.runqueue = k.runqueue
  /\ q.runqueue_entry = k.runqueue_entry
  /\ q.priority_queue = k.priority_queue

-----------------------------------------------------------------------------
(* queue_thread appends the thread unless it is queued already; where the  *)
(* prev links of queued threads were accurate they stay so.                *)
LEMMA QueueThread ==
  ASSUME NEW k \in KernelState, NEW t \in Thread, RunQueueIs(k, Queued(k))
  PROVE  LET q == queue_thread(k, t)
         IN  /\ q \in KernelState
             /\ RunQueueIs(q, Queued(q))
             /\ q.runqueue = [k.runqueue EXCEPT ![t] = TRUE]
             /\ SchedulerFrame(k, q) /\ EndpointFrame(k, q)
             /\ q.exec_mode = k.exec_mode
             /\ q.pending_context_switch = k.pending_context_switch
             /\ ~k.runqueue[t] => PrevKnown(q, t)
             /\ \A u \in Queued(k) : PrevKnown(k, u) => PrevKnown(q, u)
<1> DEFINE q == queue_thread(k, t)
<1>1. CASE k.runqueue[t]
  <2>1. q = k
    BY <1>1 DEF queue_thread
  <2>2. k.runqueue = [k.runqueue EXCEPT ![t] = TRUE]
    BY <1>1 DEF KernelState
  <2> QED
    BY <1>1, <2>1, <2>2 DEF SchedulerFrame, EndpointFrame
<1>2. CASE ~k.runqueue[t]
  <2> DEFINE c == k.priority_queue
             f == k.runqueue_entry
             l == LIST_APPEND(c, f, t)
             M == Queued(k)
  <2>0. c \in Container(Thread) /\ f \in LinkField(Thread) /\ NULL \notin Thread /\ t \notin M
        /\ k.runqueue \in [Thread -> BOOLEAN]
    BY <1>2, ThreadAssumption DEF KernelState, Queued
  <2>1. q = [k EXCEPT !.runqueue = [k.runqueue EXCEPT ![t] = TRUE],
                      !.priority_queue = l.container, !.runqueue_entry = l.field]
    BY <1>2 DEF queue_thread
  <2>2. /\ l.container \in Container(Thread) /\ l.field \in LinkField(Thread)
        /\ IsQueueOf(l.container, l.field.next, Thread, M \cup {t})
    BY <2>0, AppendQueue DEF RunQueueIs
  <2>3. /\ PrevAccurate(l.container, l.field, M \cup {t}, t)
        /\ \A u \in M : PrevAccurate(c, f, M, u)
             => PrevAccurate(l.container, l.field, M \cup {t}, u)
    BY <2>0, AppendPrev DEF RunQueueIs
  <2> HIDE DEF l
  <2>a. k.runqueue \in [Thread -> BOOLEAN] /\ [k.runqueue EXCEPT ![t] = TRUE] \in [Thread -> BOOLEAN]
    BY <2>0
  <2>3a. q \in KernelState
    BY <2>1, <2>2, <2>a, ZenonT(60) DEF KernelState
  <2>4. /\ q.runqueue = [k.runqueue EXCEPT ![t] = TRUE]
        /\ q.priority_queue = l.container
        /\ q.runqueue_entry = l.field
        /\ SchedulerFrame(k, q) /\ EndpointFrame(k, q)
        /\ q.exec_mode = k.exec_mode
        /\ q.pending_context_switch = k.pending_context_switch
    BY <2>0, <2>1 DEF KernelState, SchedulerFrame, EndpointFrame
  <2> HIDE DEF q
  <2>5. Queued(q) = M \cup {t}
    BY <2>0, <2>4 DEF Queued
  <2>6. RunQueueIs(q, Queued(q))
    BY <2>2, <2>4, <2>5 DEF RunQueueIs
  <2>7. /\ PrevKnown(q, t)
        /\ \A u \in Queued(k) : PrevKnown(k, u) => PrevKnown(q, u)
    BY <2>3, <2>4, <2>5 DEF PrevKnown
  <2> QED
    BY <1>2, <2>3a, <2>4, <2>6, <2>7 DEF q
<1> QED
  BY <1>1, <1>2

(* resume_thread keeps the run queue right, whatever the reason. *)
LEMMA ResumeThread ==
  ASSUME NEW k \in KernelState, NEW t \in Thread, NEW reason \in {BLOCKED, SUSPENDED},
         RunInv(k)
  PROVE  LET q == resume_thread(k, t, reason)
         IN  /\ q \in KernelState
             /\ RunInv(q)
             /\ q.exec_mode = [k.exec_mode EXCEPT ![t] = @ \ {reason}]
             /\ SchedulerFrame(k, q) /\ EndpointFrame(k, q)
             /\ k.pending_context_switch => q.pending_context_switch
<1> DEFINE q == resume_thread(k, t, reason)
           mode == [k.exec_mode EXCEPT ![t] = @ \ {reason}]
           k1 == [k EXCEPT !.exec_mode[t] = @ \ {reason}]
           k2 == queue_thread(k1, t)
<1>0. /\ k.exec_mode \in [Thread -> ExecMode] /\ k.runqueue \in [Thread -> BOOLEAN]
      /\ k.pending_context_switch \in BOOLEAN
      /\ NULL \notin Thread
  BY ThreadAssumption DEF KernelState
<1>1. mode \in [Thread -> ExecMode]
  BY <1>0 DEF ExecMode
<1>2. mode[t] = k.exec_mode[t] \ {reason} /\ \A u \in Thread : u # t => mode[u] = k.exec_mode[u]
  BY <1>0
<1>3. \A u \in Thread : k.exec_mode[u] = RUNNING => mode[u] = RUNNING
  BY <1>2 DEF RUNNING
<1>d. q = IF k1.exec_mode[t] # RUNNING THEN k1
          ELSE [k2 EXCEPT !.pending_context_switch = @ \/ k.current_thread = NULL]
  BY DEF resume_thread
<1>e. k1 = [k EXCEPT !.exec_mode = mode]
  BY DEF KernelState
<1> HIDE DEF mode, k1
<1>4. /\ k1 \in KernelState
      /\ k1.exec_mode = mode
      /\ k1.pending_context_switch = k.pending_context_switch
      /\ SchedulerFrame(k, k1) /\ EndpointFrame(k, k1) /\ RunQueueFrame(k, k1)
  BY <1>1, <1>e DEF KernelState, SchedulerFrame, EndpointFrame, RunQueueFrame
<1>5. q = IF mode[t] # RUNNING THEN k1
          ELSE [k2 EXCEPT !.pending_context_switch = @ \/ k.current_thread = NULL]
  BY <1>4, <1>d
<1>6. Queued(k1) = Queued(k) /\ RunQueueIs(k1, Queued(k1))
  BY <1>4 DEF Queued, RunQueueIs, RunQueueFrame, RunInv
<1>7. CASE mode[t] # RUNNING
  <2>1. q = k1
    BY <1>5, <1>7
  <2>2. RunInv(k1)
    BY <1>2, <1>3, <1>4, <1>6, <1>7
    DEF RunInv, RunQueueFrame, SchedulerFrame, PrevKnown
  <2> QED
    BY <1>4, <2>1, <2>2 DEF mode
<1>8. CASE mode[t] = RUNNING
  <2>1. /\ k2 \in KernelState
        /\ RunQueueIs(k2, Queued(k2))
        /\ k2.runqueue = [k1.runqueue EXCEPT ![t] = TRUE]
        /\ SchedulerFrame(k1, k2) /\ EndpointFrame(k1, k2)
        /\ k2.exec_mode = k1.exec_mode
        /\ k2.pending_context_switch = k1.pending_context_switch
        /\ ~k1.runqueue[t] => PrevKnown(k2, t)
        /\ \A u \in Queued(k1) : PrevKnown(k1, u) => PrevKnown(k2, u)
    BY <1>4, <1>6, QueueThread
  <2>2. q = [k2 EXCEPT !.pending_context_switch = @ \/ k.current_thread = NULL]
    BY <1>5, <1>8
  <2> HIDE DEF k2
  <2>3. /\ q \in KernelState
        /\ q.pending_context_switch = (k2.pending_context_switch \/ k.current_thread = NULL)
        /\ q.exec_mode = k2.exec_mode
    BY <1>0, <1>4, <2>1, <2>2, ZenonT(60) DEF KernelState
  <2>4. SchedulerFrame(k2, q) /\ EndpointFrame(k2, q) /\ RunQueueFrame(k2, q)
    BY <2>1, <2>2 DEF KernelState, SchedulerFrame, EndpointFrame, RunQueueFrame
  <2> HIDE DEF q
  <2>5. /\ q.runqueue = [k.runqueue EXCEPT ![t] = TRUE]
        /\ q.exec_mode = mode
        /\ q.current_thread = k.current_thread
    BY <1>4, <2>1, <2>3, <2>4 DEF RunQueueFrame, SchedulerFrame
  <2>6. RunQueueIs(q, Queued(q))
    BY <2>1, <2>4 DEF RunQueueIs, Queued, RunQueueFrame
  <2>7. ASSUME q.current_thread # NULL, q.runqueue[q.current_thread]
        PROVE  PrevKnown(q, q.current_thread)
    <3> DEFINE c == k.current_thread
    <3>1. c \in Thread
      BY <2>5, <2>7 DEF KernelState
    <3>2. PrevKnown(k2, c)
      <4>1. CASE k.runqueue[c]
        <5>1. PrevKnown(k, c)
          BY <2>5, <2>7, <4>1 DEF RunInv
        <5>2. PrevKnown(k1, c) /\ c \in Queued(k1)
          BY <1>4, <1>6, <3>1, <4>1, <5>1 DEF PrevKnown, RunQueueFrame, Queued
        <5> QED
          BY <2>1, <5>2
      <4>2. CASE ~k.runqueue[c]
        <5>1. c = t /\ ~k1.runqueue[t]
          BY <1>0, <1>4, <2>5, <2>7, <3>1, <4>2 DEF RunQueueFrame
        <5> QED
          BY <2>1, <5>1
      <4> QED
        BY <4>1, <4>2
    <3>3. Queued(q) = Queued(k2)
      BY <2>4 DEF Queued, RunQueueFrame
    <3> QED
      BY <2>4, <2>5, <3>2, <3>3 DEF PrevKnown, RunQueueFrame
  <2>8. /\ \A u \in Thread : q.runqueue[u] => q.exec_mode[u] = RUNNING
        /\ \A u \in Thread : q.exec_mode[u] = RUNNING => q.runqueue[u] \/ u = q.current_thread
    BY <1>0, <1>2, <1>3, <1>8, <2>5 DEF RunInv
  <2>9. RunInv(q)
    BY <2>6, <2>7, <2>8 DEF RunInv
  <2>10. SchedulerFrame(k, q) /\ EndpointFrame(k, q)
    BY <1>4, <2>1, <2>4 DEF SchedulerFrame, EndpointFrame
  <2> QED
    BY <1>4, <2>1, <2>3, <2>5, <2>9, <2>10 DEF q, mode
<1> QED
  BY <1>7, <1>8

(* suspend_thread takes the thread off the run queue, if it is on it and   *)
(* its `prev` is accurate.                                                 *)
LEMMA SuspendThread ==
  ASSUME NEW k \in KernelState, NEW t \in Thread, NEW mode \in {BLOCKED, SUSPENDED},
         RunInv(k), k.runqueue[t] => t = k.current_thread \/ PrevKnown(k, t)
  PROVE  LET q == suspend_thread(k, t, mode)
         IN  /\ q \in KernelState
             /\ RunInv(q)
             /\ q.exec_mode = [k.exec_mode EXCEPT ![t] = @ \cup {mode}]
             /\ SchedulerFrame(k, q) /\ EndpointFrame(k, q)
             /\ k.pending_context_switch \/ k.current_thread = t
                  => q.pending_context_switch
<1> DEFINE q == suspend_thread(k, t, mode)
           new == [k.exec_mode EXCEPT ![t] = @ \cup {mode}]
           k1 == [k EXCEPT !.pending_context_switch = @ \/ k.current_thread = t,
                           !.exec_mode[t] = @ \cup {mode}]
           l == LIST_REMOVE(k.priority_queue, k.runqueue_entry, t)
           M == Queued(k)
<1>0. /\ k.exec_mode \in [Thread -> ExecMode] /\ k.runqueue \in [Thread -> BOOLEAN]
      /\ k.pending_context_switch \in BOOLEAN
      /\ NULL \notin Thread
      /\ k.priority_queue \in Container(Thread) /\ k.runqueue_entry \in LinkField(Thread)
  BY ThreadAssumption DEF KernelState
<1>1. new \in [Thread -> ExecMode]
  BY <1>0 DEF ExecMode
<1>2. new[t] # RUNNING /\ \A u \in Thread : u # t => new[u] = k.exec_mode[u]
  BY <1>0 DEF RUNNING
<1>3. q = IF ~k.runqueue[t] THEN k1
          ELSE [k1 EXCEPT !.runqueue[t] = FALSE, !.priority_queue = l.container,
                          !.runqueue_entry = l.field]
  BY DEF suspend_thread
<1>4. k1 = [k EXCEPT !.pending_context_switch = (k.pending_context_switch \/ k.current_thread = t),
                     !.exec_mode = new]
  BY DEF KernelState
<1> HIDE DEF new, k1
<1>5. /\ k1 \in KernelState
      /\ k1.exec_mode = new
      /\ k1.pending_context_switch = (k.pending_context_switch \/ k.current_thread = t)
  BY <1>0, <1>1, <1>4, ZenonT(60) DEF KernelState
<1>6. SchedulerFrame(k, k1) /\ EndpointFrame(k, k1) /\ RunQueueFrame(k, k1)
  BY <1>4 DEF KernelState, SchedulerFrame, EndpointFrame, RunQueueFrame
<1>7. CASE ~k.runqueue[t]
  <2>1. q = k1
    BY <1>3, <1>7
  <2>2. Queued(k1) = M
    BY <1>6 DEF Queued, RunQueueFrame
  <2>3. RunInv(k1)
    BY <1>2, <1>5, <1>6, <1>7, <2>2
    DEF RunInv, RunQueueIs, RunQueueFrame, SchedulerFrame, PrevKnown
  <2> QED
    BY <1>5, <1>6, <2>1, <2>3 DEF new
<1>8. CASE k.runqueue[t]
  <2>1. /\ t \in M /\ PrevAccurate(k.priority_queue, k.runqueue_entry, M, t)
        /\ IsQueueOf(k.priority_queue, k.runqueue_entry.next, Thread, M)
    BY <1>0, <1>8 DEF RunInv, RunQueueIs, Queued, PrevKnown
  <2>a. \A u \in M \ {t} : PrevAccurate(k.priority_queue, k.runqueue_entry, M, u)
          => PrevAccurate(l.container, l.field, M \ {t}, u)
    <3> HIDE DEF M
    <3> QED
      BY <1>0, <2>1, RemoveOther
  <2>2. /\ l.container \in Container(Thread) /\ l.field \in LinkField(Thread)
        /\ IsQueueOf(l.container, l.field.next, Thread, M \ {t})
    BY <1>0, <2>1, RemoveQueue DEF RunInv, RunQueueIs
  <2> HIDE DEF l
  <2>3. q = [k1 EXCEPT !.runqueue[t] = FALSE, !.priority_queue = l.container,
                       !.runqueue_entry = l.field]
    BY <1>3, <1>8
  <2>4. [k1.runqueue EXCEPT ![t] = FALSE] \in [Thread -> BOOLEAN]
    BY <1>0, <1>6 DEF RunQueueFrame
  <2>5. /\ q \in KernelState
        /\ q.runqueue = [k1.runqueue EXCEPT ![t] = FALSE]
        /\ q.priority_queue = l.container
        /\ q.runqueue_entry = l.field
        /\ q.exec_mode = k1.exec_mode
        /\ q.pending_context_switch = k1.pending_context_switch
    BY <1>5, <2>2, <2>3, <2>4, ZenonT(60) DEF KernelState
  <2>6. SchedulerFrame(k1, q) /\ EndpointFrame(k1, q)
    BY <1>5, <2>3 DEF KernelState, SchedulerFrame, EndpointFrame
  <2> HIDE DEF q
  <2>7. Queued(q) = M \ {t}
    BY <1>0, <1>6, <2>5 DEF Queued, RunQueueFrame
  <2>8. RunInv(q)
    <3>1. q.current_thread = k.current_thread
      BY <1>6, <2>6 DEF SchedulerFrame
    <3>2. ASSUME q.current_thread # NULL, q.runqueue[q.current_thread]
          PROVE  PrevKnown(q, q.current_thread)
      <4>1. k.current_thread \in M \ {t}
        BY <1>0, <2>7, <3>1, <3>2 DEF Queued, KernelState
      <4>2. PrevAccurate(k.priority_queue, k.runqueue_entry, M, k.current_thread)
        BY <3>1, <3>2, <4>1 DEF RunInv, Queued, PrevKnown
      <4> QED
        BY <2>5, <2>7, <2>a, <3>1, <4>1, <4>2 DEF PrevKnown
    <3>3. \A u \in Thread : q.runqueue[u] <=> u # t /\ k.runqueue[u]
      BY <1>0, <1>6, <2>5 DEF RunQueueFrame
    <3>4. /\ \A u \in Thread : q.runqueue[u] => q.exec_mode[u] = RUNNING
          /\ \A u \in Thread : q.exec_mode[u] = RUNNING => q.runqueue[u] \/ u = q.current_thread
      BY <1>2, <1>5, <2>5, <3>1, <3>3 DEF RunInv
    <3>5. RunQueueIs(q, Queued(q))
      BY <2>2, <2>5, <2>7 DEF RunQueueIs
    <3> QED
      BY <3>2, <3>4, <3>5 DEF RunInv
  <2>9. SchedulerFrame(k, q) /\ EndpointFrame(k, q)
    BY <1>6, <2>6 DEF SchedulerFrame, EndpointFrame
  <2> QED
    BY <1>5, <2>5, <2>8, <2>9 DEF q, new
<1> QED
  BY <1>0, <1>7, <1>8

(* try_context_switch gives the processor to the first runnable thread, or *)
(* to nobody when there is none.                                           *)
LEMMA ContextSwitch ==
  ASSUME NEW k \in KernelState, RunInv(k), CpuHeld(k)
  PROVE  LET q == try_context_switch(k)
         IN  /\ q \in KernelState
             /\ RunInv(q)
             /\ CpuInv(q)
             /\ q.exec_mode = k.exec_mode
             /\ EndpointFrame(k, q)
<1> DEFINE q == try_context_switch(k)
           k1 == [k EXCEPT !.pending_context_switch = FALSE]
           k2 == take_next_thread(k1)
           next == k.priority_queue.start
           k3 == pause_current_thread(k2, next)
           t == k.current_thread
<1>0. /\ k.exec_mode \in [Thread -> ExecMode] /\ k.runqueue \in [Thread -> BOOLEAN]
      /\ k.saved \in [Thread -> BOOLEAN] /\ k.currently_running \in [Thread -> BOOLEAN]
      /\ NULL \notin Thread
      /\ k.priority_queue \in Container(Thread) /\ k.runqueue_entry \in LinkField(Thread)
      /\ t \in Thread
      /\ next \in Thread \cup {NULL}
  BY ThreadAssumption DEF KernelState, CpuHeld, Container
<1>1. CASE ~k.pending_context_switch
  <2>1. q = k
    BY <1>1 DEF try_context_switch
  <2>2. CpuInv(k)
    BY <1>0, <1>1 DEF CpuHeld, CpuInv
  <2> QED
    BY <2>1, <2>2 DEF EndpointFrame
<1>2. CASE k.pending_context_switch
  <2>1. q = load_thread(k3, next)
    BY <1>2 DEF try_context_switch
  <2>2. /\ k1 \in KernelState
        /\ ~k1.pending_context_switch
        /\ k1.exec_mode = k.exec_mode
        /\ SchedulerFrame(k, k1) /\ EndpointFrame(k, k1) /\ RunQueueFrame(k, k1)
    BY DEF KernelState, SchedulerFrame, EndpointFrame, RunQueueFrame
  <2> HIDE DEF k1, q
  \* the first thread leaves the queue
  <2>3. /\ k2 \in KernelState
        /\ ~k2.pending_context_switch
        /\ k2.exec_mode = k.exec_mode
        /\ SchedulerFrame(k, k2) /\ EndpointFrame(k, k2)
        /\ next # NULL => /\ next \in Queued(k)
                          /\ k2.runqueue = [k.runqueue EXCEPT ![next] = FALSE]
        /\ next = NULL => /\ k2 = k1
                          /\ Queued(k) = {}
        /\ RunQueueIs(k2, Queued(k2))
    <3>1. CASE next = NULL
      <4>1. k2 = k1
        BY <2>2, <3>1 DEF take_next_thread, LIST_CAN_POP, RunQueueFrame
      <4>2. Queued(k) = {}
        BY <3>1 DEF RunInv, RunQueueIs, IsQueueOf
      <4>3. RunQueueIs(k1, Queued(k1))
        BY <2>2 DEF RunQueueFrame, RunInv, RunQueueIs, Queued
      <4> QED
        BY <2>2, <3>1, <4>1, <4>2, <4>3
    <3>2. CASE next # NULL
      <4> DEFINE l == LIST_POP_FROM_START(k.priority_queue, k.runqueue_entry)
      <4>1. k2 = [k1 EXCEPT !.priority_queue = l.container, !.runqueue_entry = l.field,
                            !.runqueue[next] = FALSE]
        BY <2>2, <3>2 DEF take_next_thread, LIST_CAN_POP, RunQueueFrame
      <4>2. /\ next \in Queued(k)
            /\ l.container \in Container(Thread) /\ l.field \in LinkField(Thread)
            /\ IsQueueOf(l.container, l.field.next, Thread, Queued(k) \ {next})
        BY <1>0, <3>2, PopQueue DEF RunInv, RunQueueIs, LIST_CAN_POP
      <4>3. [k1.runqueue EXCEPT ![next] = FALSE] \in [Thread -> BOOLEAN]
        BY <1>0, <2>2 DEF RunQueueFrame
      <4> HIDE DEF l
      <4>4. /\ k2 \in KernelState
            /\ k2.runqueue = [k1.runqueue EXCEPT ![next] = FALSE]
            /\ k2.priority_queue = l.container
            /\ k2.runqueue_entry = l.field
            /\ k2.exec_mode = k1.exec_mode
            /\ k2.pending_context_switch = k1.pending_context_switch
        BY <2>2, <4>1, <4>2, <4>3, ZenonT(60) DEF KernelState
      <4>5. SchedulerFrame(k1, k2) /\ EndpointFrame(k1, k2)
        BY <2>2, <4>1 DEF KernelState, SchedulerFrame, EndpointFrame
      <4> HIDE DEF k2
      <4>6. Queued(k2) = Queued(k) \ {next}
        BY <1>0, <2>2, <3>2, <4>4 DEF Queued, RunQueueFrame
      <4>7. RunQueueIs(k2, Queued(k2))
        BY <4>2, <4>4, <4>6 DEF RunQueueIs
      <4>8. SchedulerFrame(k, k2) /\ EndpointFrame(k, k2)
        BY <2>2, <4>5 DEF SchedulerFrame, EndpointFrame
      <4> QED
        BY <2>2, <3>2, <4>2, <4>4, <4>7, <4>8 DEF RunQueueFrame
    <3> QED
      BY <3>1, <3>2
  <2> HIDE DEF k2
  <2>4. /\ k2.saved = k.saved /\ k2.currently_running = k.currently_running
        /\ k2.cpu = t /\ k2.current_thread = t
    BY <2>3 DEF SchedulerFrame, CpuHeld
  \* the registers of the thread that ran are saved
  <2> DEFINE s == save_registers(k2, t)
  <2>5. /\ s \in KernelState
        /\ s.saved = [k.saved EXCEPT ![t] = TRUE]
        /\ s.currently_running = [k.currently_running EXCEPT ![t] = FALSE]
        /\ s.cpu = t /\ s.current_thread = t
        /\ s.exec_mode = k.exec_mode /\ ~s.pending_context_switch
        /\ RunQueueFrame(k2, s) /\ EndpointFrame(k, s)
    <3>1. s = [k2 EXCEPT !.saved[t] = TRUE, !.currently_running[t] = FALSE]
      BY <2>4 DEF save_registers
    <3>2. /\ [k2.saved EXCEPT ![t] = TRUE] \in [Thread -> BOOLEAN]
          /\ [k2.currently_running EXCEPT ![t] = FALSE] \in [Thread -> BOOLEAN]
      BY <1>0, <2>4
    <3>3. /\ s \in KernelState
          /\ s.saved = [k2.saved EXCEPT ![t] = TRUE]
          /\ s.currently_running = [k2.currently_running EXCEPT ![t] = FALSE]
          /\ s.cpu = k2.cpu /\ s.current_thread = k2.current_thread
          /\ s.exec_mode = k2.exec_mode
          /\ s.pending_context_switch = k2.pending_context_switch
      BY <2>3, <3>1, <3>2, ZenonT(60) DEF KernelState
    <3>4. RunQueueFrame(k2, s) /\ EndpointFrame(k2, s)
      BY <2>3, <3>1 DEF KernelState, RunQueueFrame, EndpointFrame
    <3> HIDE DEF s
    <3>5. EndpointFrame(k, s)
      BY <2>3, <3>4 DEF EndpointFrame
    <3> QED
      BY <2>3, <2>4, <3>3, <3>4, <3>5
  <2>6. k3 = IF k.exec_mode[t] = RUNNING
             THEN IF next = NULL THEN k2 ELSE queue_thread(s, t)
             ELSE [s EXCEPT !.current_thread = NULL]
    BY <1>0, <2>3, <2>4 DEF pause_current_thread
  <2> HIDE DEF s, k3
  <2>7. Queued(s) = Queued(k2) /\ RunQueueIs(s, Queued(s))
    BY <2>3, <2>5 DEF RunQueueFrame, Queued, RunQueueIs
  <2>8. CASE k.exec_mode[t] = RUNNING /\ next = NULL
    <3>1. k3 = k1
      BY <2>3, <2>6, <2>8
    <3>2. q = k1
      BY <1>0, <2>1, <2>2, <2>8, <3>1 DEF load_thread, SchedulerFrame
    <3>3. Queued(k1) = Queued(k)
      BY <2>2 DEF Queued, RunQueueFrame
    <3>4. RunInv(k1)
      BY <2>2, <3>3 DEF RunInv, RunQueueIs, PrevKnown, RunQueueFrame, SchedulerFrame
    <3>5. CpuInv(k1)
      BY <1>0, <2>2, <2>8 DEF CpuInv, CpuHeld, SchedulerFrame
    <3> QED
      BY <2>2, <3>2, <3>4, <3>5 DEF q
  <2>9. CASE k.exec_mode[t] = RUNNING /\ next # NULL
    <3>1. k3 = queue_thread(s, t)
      BY <2>6, <2>9
    <3>2. /\ k3 \in KernelState
          /\ RunQueueIs(k3, Queued(k3))
          /\ k3.runqueue = [s.runqueue EXCEPT ![t] = TRUE]
          /\ SchedulerFrame(s, k3) /\ EndpointFrame(s, k3)
          /\ k3.exec_mode = s.exec_mode
          /\ k3.pending_context_switch = s.pending_context_switch
          /\ ~s.runqueue[t] => PrevKnown(k3, t)
      BY <1>0, <2>5, <2>7, <3>1, QueueThread, ZenonT(60)
    <3>3. k3.saved[next] /\ k3.saved = [k.saved EXCEPT ![t] = TRUE]
          /\ k3.currently_running = [k.currently_running EXCEPT ![t] = FALSE]
      BY <1>0, <2>5, <2>9, <3>2 DEF SchedulerFrame, CpuHeld
    <3>4. q = [k3 EXCEPT !.cpu = next, !.saved[next] = FALSE, !.current_thread = next,
                         !.currently_running[next] = TRUE]
      BY <2>1, <2>9, <3>3 DEF load_thread
    <3>5. /\ [k3.saved EXCEPT ![next] = FALSE] \in [Thread -> BOOLEAN]
          /\ [k3.currently_running EXCEPT ![next] = TRUE] \in [Thread -> BOOLEAN]
      BY <1>0, <2>9, <3>3
    <3>6. /\ q \in KernelState
          /\ q.saved = [k3.saved EXCEPT ![next] = FALSE]
          /\ q.currently_running = [k3.currently_running EXCEPT ![next] = TRUE]
          /\ q.cpu = next /\ q.current_thread = next
          /\ q.exec_mode = k3.exec_mode
          /\ q.pending_context_switch = k3.pending_context_switch
      BY <1>0, <2>9, <3>2, <3>4, <3>5, ZenonT(60) DEF KernelState
    <3>7. RunQueueFrame(k3, q) /\ EndpointFrame(k3, q)
      BY <3>2, <3>4 DEF KernelState, RunQueueFrame, EndpointFrame
    <3>8. EndpointFrame(k, q)
      BY <2>5, <3>2, <3>7 DEF EndpointFrame
    <3>9. CpuInv(q)
      BY <1>0, <2>5, <2>9, <3>2, <3>3, <3>6, <2>3 DEF CpuInv, CpuHeld, RunInv, Queued
    <3>10. Queued(q) = Queued(k3)
      BY <3>7 DEF Queued, RunQueueFrame
    <3>11. q.runqueue = [[k.runqueue EXCEPT ![next] = FALSE] EXCEPT ![t] = TRUE]
      BY <2>3, <2>5, <2>9, <3>2, <3>7 DEF RunQueueFrame
    <3>12. q.runqueue[next] => PrevKnown(q, next)
      <4>1. SUFFICES ASSUME q.runqueue[next] PROVE PrevKnown(q, next)
        OBVIOUS
      <4>2. next = t
        BY <1>0, <2>9, <3>11, <4>1
      <4>3. ~s.runqueue[t]
        BY <1>0, <2>3, <2>5, <2>9, <4>2 DEF RunQueueFrame
      <4> QED
        BY <3>2, <3>7, <3>10, <4>2, <4>3 DEF PrevKnown, RunQueueFrame
    <3>13. RunQueueIs(q, Queued(q))
      BY <3>2, <3>7, <3>10 DEF RunQueueIs, RunQueueFrame
    <3>14. /\ \A u \in Thread : q.runqueue[u] => q.exec_mode[u] = RUNNING
           /\ \A u \in Thread : q.exec_mode[u] = RUNNING => q.runqueue[u] \/ u = q.current_thread
      BY <1>0, <2>5, <2>9, <3>2, <3>6, <3>11 DEF RunInv
    <3>15. RunInv(q)
      BY <3>6, <3>12, <3>13, <3>14 DEF RunInv
    <3> QED
      BY <2>5, <3>2, <3>6, <3>8, <3>9, <3>15 DEF q
  <2>10. CASE k.exec_mode[t] # RUNNING
    <3>1. k3 = [s EXCEPT !.current_thread = NULL]
      BY <2>6, <2>10
    <3>k. k3 \in KernelState
      BY <2>5, <3>1 DEF KernelState
    <3>2. /\ k3.saved = s.saved /\ k3.currently_running = s.currently_running
          /\ k3.current_thread = NULL
          /\ k3.exec_mode = s.exec_mode
          /\ k3.pending_context_switch = s.pending_context_switch
      BY <2>5, <3>1 DEF KernelState
    <3>3. RunQueueFrame(s, k3) /\ EndpointFrame(s, k3)
      BY <2>5, <3>1 DEF KernelState, RunQueueFrame, EndpointFrame
    <3>4. RunQueueFrame(k2, k3) /\ EndpointFrame(k, k3)
      BY <2>5, <3>3 DEF RunQueueFrame, EndpointFrame
    <3>5. CASE next = NULL
      <4>1. q = [k3 EXCEPT !.cpu = NULL]
        BY <2>1, <3>2, <3>5 DEF load_thread
      <4>q. q \in KernelState
        BY <3>k, <4>1 DEF KernelState
      <4>2. /\ q.saved = k3.saved /\ q.currently_running = k3.currently_running
            /\ q.current_thread = NULL /\ q.cpu = NULL
            /\ q.exec_mode = k3.exec_mode
            /\ q.pending_context_switch = k3.pending_context_switch
        BY <3>2, <3>k, <4>1 DEF KernelState
      <4>3. RunQueueFrame(k3, q) /\ EndpointFrame(k3, q)
        BY <3>k, <4>1 DEF KernelState, RunQueueFrame, EndpointFrame
      <4>4. EndpointFrame(k, q) /\ RunQueueFrame(k, q)
        BY <2>2, <2>3, <3>4, <3>5, <4>3 DEF RunQueueFrame, EndpointFrame
      <4>5. \A u \in Thread : k.exec_mode[u] # RUNNING /\ ~k.runqueue[u]
        BY <2>3, <2>10, <3>5 DEF RunInv, Queued
      <4>6. CpuInv(q)
        BY <1>0, <2>5, <3>2, <4>2, <4>5 DEF CpuInv, CpuHeld
      <4>7. Queued(q) = Queued(k)
        BY <4>4 DEF Queued, RunQueueFrame
      <4>8. RunInv(q)
        BY <2>5, <3>2, <4>2, <4>4, <4>5, <4>7 DEF RunInv, RunQueueIs, RunQueueFrame
      <4> QED
        BY <2>5, <3>2, <4>2, <4>4, <4>6, <4>8, <4>q DEF q
    <3>6. CASE next # NULL
      <4>1. next \in Thread /\ next # t /\ k.exec_mode[next] = RUNNING
        BY <1>0, <2>3, <2>10, <3>6 DEF RunInv, Queued
      <4>2. k3.saved[next]
        BY <1>0, <2>5, <3>2, <4>1 DEF CpuHeld
      <4>3. q = [k3 EXCEPT !.cpu = next, !.saved[next] = FALSE, !.current_thread = next,
                           !.currently_running[next] = TRUE]
        BY <2>1, <3>6, <4>2 DEF load_thread
      <4>4. /\ [k3.saved EXCEPT ![next] = FALSE] \in [Thread -> BOOLEAN]
            /\ [k3.currently_running EXCEPT ![next] = TRUE] \in [Thread -> BOOLEAN]
        BY <1>0, <2>5, <3>2, <4>1, ZenonT(60)
      <4>q. q \in KernelState
        BY <3>k, <4>1, <4>3, <4>4, ZenonT(60) DEF KernelState
      <4>5. /\ q.saved = [k3.saved EXCEPT ![next] = FALSE]
            /\ q.currently_running = [k3.currently_running EXCEPT ![next] = TRUE]
            /\ q.cpu = next /\ q.current_thread = next
            /\ q.exec_mode = k3.exec_mode
            /\ q.pending_context_switch = k3.pending_context_switch
        BY <3>k, <4>3 DEF KernelState
      <4>6. RunQueueFrame(k3, q) /\ EndpointFrame(k3, q)
        BY <3>k, <4>3 DEF KernelState, RunQueueFrame, EndpointFrame
      <4>7. EndpointFrame(k, q) /\ RunQueueFrame(k2, q)
        BY <3>4, <4>6 DEF RunQueueFrame, EndpointFrame
      <4>8. CpuInv(q)
        BY <1>0, <2>5, <3>2, <4>1, <4>5 DEF CpuInv, CpuHeld
      <4>9. Queued(q) = Queued(k2)
        BY <4>7 DEF Queued, RunQueueFrame
      <4>10. q.runqueue = [k.runqueue EXCEPT ![next] = FALSE]
        BY <2>3, <3>6, <4>7 DEF RunQueueFrame
      <4>11. RunQueueIs(q, Queued(q))
        BY <2>3, <4>7, <4>9 DEF RunQueueIs, RunQueueFrame
      <4>12. RunInv(q)
        BY <1>0, <2>5, <2>10, <3>2, <4>1, <4>5, <4>10, <4>11 DEF RunInv
      <4> QED
        BY <2>5, <3>2, <4>5, <4>7, <4>8, <4>12, <4>q DEF q
    <3> QED
      BY <3>5, <3>6
  <2> QED
    BY <2>8, <2>9, <2>10
<1> QED
  BY <1>1, <1>2

-----------------------------------------------------------------------------
(***************************************************************************)
(* The two queues of an endpoint, A and B, in either role: `on` is         *)
(* blocked_on, f is blocked_queue.                                         *)
(***************************************************************************)
Waiting(A, f, e) == Members(Thread, A[e].start, f.next)

TwoQueues(A, B, f, on, e) ==
  /\ IsQueueOf(A[e], f.next, Thread, Waiting(A, f, e))
  /\ IsQueueOf(B[e], f.next, Thread, Waiting(B, f, e))
  /\ Waiting(A, f, e) \cup Waiting(B, f, e) = {t \in Thread : on[t] = e}
  /\ Waiting(A, f, e) = {} \/ Waiting(B, f, e) = {}

(* Thread t joins queue A[e] of the endpoints E, or the first one leaves it. *)
Joined(A, B, f, on, E, e, t) ==
  LET l == LIST_APPEND(A[e], f, t)
      a == [A EXCEPT ![e] = l.container]
      o == [on EXCEPT ![t] = e]
  IN  /\ a \in [Endpoint -> Container(Thread)]
      /\ l.field \in LinkField(Thread)
      /\ \A d \in E :
           /\ TwoQueues(a, B, l.field, o, d)
           /\ Waiting(a, l.field, d) = Waiting(A, f, d) \cup (IF d = e THEN {t} ELSE {})
           /\ Waiting(B, l.field, d) = Waiting(B, f, d)

Left(A, B, f, on, E, e) ==
  LET l == LIST_POP_FROM_START(A[e], f)
      t == A[e].start
      a == [A EXCEPT ![e] = l.container]
      o == [on EXCEPT ![t] = NULL]
  IN  /\ t \in Waiting(A, f, e)
      /\ t \in Thread /\ on[t] = e
      /\ a \in [Endpoint -> Container(Thread)]
      /\ l.field \in LinkField(Thread)
      /\ \A d \in E :
           /\ TwoQueues(a, B, l.field, o, d)
           /\ Waiting(a, l.field, d) = Waiting(A, f, d) \ {t}
           /\ Waiting(B, l.field, d) = Waiting(B, f, d)

(* LIST_APPEND to one queue of an endpoint leaves all others as they are,  *)
(* although they thread the same link field.                               *)
LEMMA JoinQueue ==
  ASSUME NEW A \in [Endpoint -> Container(Thread)], NEW B \in [Endpoint -> Container(Thread)],
         NEW f \in LinkField(Thread), NEW on \in [Thread -> Endpoint \cup {NULL}],
         NEW E \in SUBSET Endpoint, \A d \in E : TwoQueues(A, B, f, on, d),
         NEW e \in E, ~LIST_CAN_POP(B[e]), NEW t \in Thread, on[t] = NULL
  PROVE  Joined(A, B, f, on, E, e, t)
<1> DEFINE c == A[e]
           l == LIST_APPEND(c, f, t)
           a == [A EXCEPT ![e] = l.container]
           o == [on EXCEPT ![t] = e]
           M == Waiting(A, f, e)
<1>0. /\ NULL \notin Thread /\ e \in Endpoint /\ NULL \notin Endpoint
      /\ c \in Container(Thread)
      /\ IsQueueOf(c, f.next, Thread, M)
      /\ Waiting(B, f, e) = {}
  BY ThreadAssumption, IpcAssumption DEF TwoQueues, LIST_CAN_POP, IsQueueOf
<1>1. \A d \in E : t \notin Waiting(A, f, d) /\ t \notin Waiting(B, f, d)
  BY <1>0 DEF TwoQueues
<1>2. /\ l.container \in Container(Thread) /\ l.field \in LinkField(Thread)
      /\ IsQueueOf(l.container, l.field.next, Thread, M \cup {t})
  BY <1>0, <1>1, AppendQueue
<1>3. ASSUME NEW D \in Container(Thread), NEW N, IsQueueOf(D, f.next, Thread, N),
             M \cap N = {}, t \notin N
      PROVE  IsQueueOf(D, l.field.next, Thread, N)
  BY <1>0, <1>1, <1>3, AppendOther
<1> HIDE DEF l
<1>4. /\ a \in [Endpoint -> Container(Thread)] /\ a[e] = l.container
      /\ \A d \in Endpoint : d # e => a[d] = A[d]
  BY <1>0, <1>2
<1>5. o[t] = e /\ \A u \in Thread : u # t => o[u] = on[u]
  BY <1>0
<1> HIDE DEF a, o, M, c
<1>6. \A d \in E : IsQueueOf(B[d], l.field.next, Thread, Waiting(B, f, d))
  <2>1. SUFFICES ASSUME NEW d \in E
                 PROVE  IsQueueOf(B[d], l.field.next, Thread, Waiting(B, f, d))
    OBVIOUS
  <2>2. M \cap Waiting(B, f, d) = {}
    BY <1>0 DEF TwoQueues, M
  <2>3. IsQueueOf(B[d], f.next, Thread, Waiting(B, f, d)) /\ B[d] \in Container(Thread)
    BY DEF TwoQueues
  <2> QED
    BY <1>1, <1>3, <2>2, <2>3
<1>7. \A d \in E : d # e => IsQueueOf(A[d], l.field.next, Thread, Waiting(A, f, d))
  <2>1. SUFFICES ASSUME NEW d \in E, d # e
                 PROVE  IsQueueOf(A[d], l.field.next, Thread, Waiting(A, f, d))
    OBVIOUS
  <2>2. M \cap Waiting(A, f, d) = {}
    BY <2>1 DEF TwoQueues, M
  <2>3. IsQueueOf(A[d], f.next, Thread, Waiting(A, f, d)) /\ A[d] \in Container(Thread)
    BY DEF TwoQueues
  <2> QED
    BY <1>1, <1>3, <2>2, <2>3
<1>8. ASSUME NEW d \in E
      PROVE  /\ TwoQueues(a, B, l.field, o, d)
             /\ Waiting(a, l.field, d) = Waiting(A, f, d) \cup (IF d = e THEN {t} ELSE {})
             /\ Waiting(B, l.field, d) = Waiting(B, f, d)
  <2>1. Waiting(B, l.field, d) = Waiting(B, f, d)
    BY <1>6 DEF Waiting, IsQueueOf
  <2>2. CASE d = e
    <3>1. Waiting(a, l.field, e) = M \cup {t}
      BY <1>2, <1>4 DEF Waiting, IsQueueOf
    <3>2. M \cup {t} = {u \in Thread : o[u] = e}
      BY <1>0, <1>5 DEF TwoQueues, M
    <3> QED
      BY <1>0, <1>2, <1>4, <1>6, <2>1, <2>2, <3>1, <3>2 DEF TwoQueues, M
  <2>3. CASE d # e
    <3>1. Waiting(a, l.field, d) = Waiting(A, f, d)
      BY <1>4, <1>7, <2>3 DEF Waiting, IsQueueOf
    <3>2. {u \in Thread : o[u] = d} = {u \in Thread : on[u] = d}
      BY <1>0, <1>5, <2>3
    <3> QED
      BY <1>4, <1>6, <1>7, <2>1, <2>3, <3>1, <3>2 DEF TwoQueues
  <2> QED
    BY <2>2, <2>3
<1> QED
  BY <1>2, <1>4, <1>8 DEF Joined, l, a, o, c

(* LIST_POP_FROM_START from one queue does so too.                         *)
LEMMA LeaveQueue ==
  ASSUME NEW A \in [Endpoint -> Container(Thread)], NEW B \in [Endpoint -> Container(Thread)],
         NEW f \in LinkField(Thread), NEW on \in [Thread -> Endpoint \cup {NULL}],
         NEW E \in SUBSET Endpoint, \A d \in E : TwoQueues(A, B, f, on, d),
         NEW e \in E, LIST_CAN_POP(A[e])
  PROVE  Left(A, B, f, on, E, e)
<1> DEFINE c == A[e]
           l == LIST_POP_FROM_START(c, f)
           t == c.start
           a == [A EXCEPT ![e] = l.container]
           o == [on EXCEPT ![t] = NULL]
           M == Waiting(A, f, e)
<1>0. /\ NULL \notin Thread /\ e \in Endpoint /\ NULL \notin Endpoint
      /\ c \in Container(Thread)
      /\ IsQueueOf(c, f.next, Thread, M)
  BY ThreadAssumption, IpcAssumption DEF TwoQueues
<1>1. /\ t \in M
      /\ l.container \in Container(Thread) /\ l.field \in LinkField(Thread)
      /\ IsQueueOf(l.container, l.field.next, Thread, M \ {t})
  BY <1>0, PopQueue
<1>2. t \in Thread /\ on[t] = e /\ Waiting(B, f, e) = {}
  BY <1>0, <1>1 DEF TwoQueues
<1>3. ASSUME NEW D \in Container(Thread), NEW N, IsQueueOf(D, f.next, Thread, N),
             M \cap N = {}
      PROVE  IsQueueOf(D, l.field.next, Thread, N)
  BY <1>0, <1>1, <1>3, PopOther
<1> HIDE DEF l
<1>4. /\ a \in [Endpoint -> Container(Thread)] /\ a[e] = l.container
      /\ \A d \in Endpoint : d # e => a[d] = A[d]
  BY <1>0, <1>1
<1>5. o[t] = NULL /\ \A u \in Thread : u # t => o[u] = on[u]
  BY <1>2
<1> HIDE DEF a, o, M, c, t
<1>6. \A d \in E : IsQueueOf(B[d], l.field.next, Thread, Waiting(B, f, d))
  <2>1. SUFFICES ASSUME NEW d \in E
                 PROVE  IsQueueOf(B[d], l.field.next, Thread, Waiting(B, f, d))
    OBVIOUS
  <2>2. M \cap Waiting(B, f, d) = {}
    BY <1>2 DEF TwoQueues, M
  <2>3. IsQueueOf(B[d], f.next, Thread, Waiting(B, f, d)) /\ B[d] \in Container(Thread)
    BY DEF TwoQueues
  <2> QED
    BY <1>3, <2>2, <2>3
<1>7. \A d \in E : d # e => IsQueueOf(A[d], l.field.next, Thread, Waiting(A, f, d))
  <2>1. SUFFICES ASSUME NEW d \in E, d # e
                 PROVE  IsQueueOf(A[d], l.field.next, Thread, Waiting(A, f, d))
    OBVIOUS
  <2>2. M \cap Waiting(A, f, d) = {}
    BY <2>1 DEF TwoQueues, M
  <2>3. IsQueueOf(A[d], f.next, Thread, Waiting(A, f, d)) /\ A[d] \in Container(Thread)
    BY DEF TwoQueues
  <2> QED
    BY <1>3, <2>2, <2>3
<1>8. ASSUME NEW d \in E
      PROVE  /\ TwoQueues(a, B, l.field, o, d)
             /\ Waiting(a, l.field, d) = Waiting(A, f, d) \ {t}
             /\ Waiting(B, l.field, d) = Waiting(B, f, d)
  <2>1. Waiting(B, l.field, d) = Waiting(B, f, d)
    BY <1>6 DEF Waiting, IsQueueOf
  <2>2. CASE d = e
    <3>1. Waiting(a, l.field, e) = M \ {t}
      BY <1>1, <1>4 DEF Waiting, IsQueueOf
    <3>2. M \ {t} = {u \in Thread : o[u] = e}
      BY <1>0, <1>2, <1>5 DEF TwoQueues, M
    <3> QED
      BY <1>1, <1>2, <1>4, <1>6, <2>1, <2>2, <3>1, <3>2 DEF TwoQueues, M
  <2>3. CASE d # e
    <3>1. Waiting(a, l.field, d) = Waiting(A, f, d)
      BY <1>4, <1>7, <2>3 DEF Waiting, IsQueueOf
    <3>2. {u \in Thread : o[u] = d} = {u \in Thread : on[u] = d}
      BY <1>0, <1>2, <1>5, <2>3
    <3>3. t \notin Waiting(A, f, d)
      BY <1>2, <2>3 DEF TwoQueues
    <3> QED
      BY <1>4, <1>6, <1>7, <2>1, <2>3, <3>1, <3>2, <3>3 DEF TwoQueues
  <2> QED
    BY <2>2, <2>3
<1> QED
  BY <1>1, <1>2, <1>4, <1>8 DEF Left, l, a, o, c, t, M

-----------------------------------------------------------------------------
(* The queues of every endpoint, and the messages of those that send. *)
QueuesInv(k) ==
  \A e \in k.endpoints :
    /\ TwoQueues(k.blocked_sending, k.blocked_receiving, k.blocked_queue, k.blocked_on, e)
    /\ \A t \in Waiting(k.blocked_sending, k.blocked_queue, e) :
         k.message_buffer[t] \in SendMessages /\ k.sending_badge[t] \in Badge

(* A thread is blocked exactly while it is in one of them. *)
ModesInv(k) ==
  \A t \in Thread : /\ BLOCKED \in k.exec_mode[t] <=> k.blocked_on[t] # NULL
                    /\ k.blocked_on[t] \in k.endpoints \cup {NULL}

(* The state between a handler and the context switch that follows it. *)
Handled(k) == /\ k \in KernelState
              /\ RunInv(k)
              /\ CpuHeld(k)
              /\ QueuesInv(k)
              /\ ModesInv(k)

(* The state between two traps: the inductive invariant. *)
IInv(k) == /\ k \in KernelState
           /\ RunInv(k)
           /\ CpuInv(k)
           /\ QueuesInv(k)
           /\ ModesInv(k)

AllSchedulerFrame(k, q) == /\ SchedulerFrame(k, q)
                           /\ RunQueueFrame(k, q)
                           /\ q.exec_mode = k.exec_mode
                           /\ q.pending_context_switch = k.pending_context_switch

(* The run queue does not depend on the endpoints.                         *)
LEMMA FramedScheduler ==
  ASSUME NEW k, NEW q, RunInv(k), AllSchedulerFrame(k, q)
  PROVE  RunInv(q)
<1>1. Queued(q) = Queued(k)
  BY DEF Queued, AllSchedulerFrame, RunQueueFrame
<1> QED
  BY <1>1 DEF RunInv, RunQueueIs, PrevKnown, AllSchedulerFrame, RunQueueFrame, SchedulerFrame

(* The endpoints' queues do not depend on the scheduler.                   *)
LEMMA FramedQueues ==
  ASSUME NEW k, NEW q, QueuesInv(k), EndpointFrame(k, q)
  PROVE  QueuesInv(q)
BY DEF QueuesInv, EndpointFrame

(* After any handler, the context switch restores the invariant. *)
LEMMA SwitchAfterHandler ==
  ASSUME NEW k, Handled(k)
  PROVE  IInv(try_context_switch(k))
<1> DEFINE q == try_context_switch(k)
<1>1. /\ q \in KernelState /\ RunInv(q) /\ CpuInv(q)
      /\ q.exec_mode = k.exec_mode /\ EndpointFrame(k, q)
  BY ContextSwitch DEF Handled
<1> HIDE DEF q
<1>2. QueuesInv(q)
  BY <1>1, FramedQueues DEF Handled
<1>3. ModesInv(q)
  BY <1>1 DEF Handled, ModesInv, EndpointFrame
<1> QED
  BY <1>1, <1>2, <1>3 DEF IInv, q

(***************************************************************************)
(* transfer_capabilities leaves slots that hold capabilities or nothing,   *)
(* whatever is in the two messages.                                        *)
(***************************************************************************)
IsTransfer(r) == /\ r.slots \in [Thread -> [Slot -> Capability \cup {NULL}]]
                 /\ r.transferred \in SUBSET IPC_CAPABILITY_SLOTS

(* One index of a message: the slots keep their types.                     *)
LEMMA TransferStep ==
  ASSUME NEW r, IsTransfer(r), NEW sending \in Thread, NEW receiving \in Thread,
         NEW sent, NEW recv, NEW i \in IPC_CAPABILITY_SLOTS
  PROVE  IsTransfer(transfer_capability(r, sending, receiving, sent, recv, i))
<1> DEFINE source == sent.capabilities[i]
           dest == recv.capabilities[i]
           cap == r.slots[sending][source]
           should_copy == i \in sent.to_copy
           moved == [r.slots EXCEPT ![sending][source] = NULL]
           copied == CopyOf(cap)
           refused == Refused(r, sending, receiving, source, dest, should_copy)
           result == transfer_capability(r, sending, receiving, sent, recv, i)
<1>1. CASE refused
  <2>1. result = r
    BY <1>1 DEF transfer_capability
  <2> QED
    BY <2>1
<1>2. CASE ~refused
  <2>1. result = [slots |-> IF should_copy
                            THEN [r.slots EXCEPT ![receiving][dest] = copied]
                            ELSE [moved EXCEPT ![receiving][dest] = cap],
                  transferred |-> r.transferred \cup {i}]
    BY <1>2 DEF transfer_capability
  <2>2. source \in Slot /\ dest \in Slot /\ cap \in Capability
    BY <1>2 DEF IsTransfer, Refused
  <2>3. copied \in Capability
    BY <2>2 DEF Capability, CopyOf
  <2>4. moved \in [Thread -> [Slot -> Capability \cup {NULL}]]
    BY <2>2 DEF IsTransfer
  <2> HIDE DEF copied, cap, source, dest, moved
  <2>5. [r.slots EXCEPT ![receiving][dest] = copied] \in [Thread -> [Slot -> Capability \cup {NULL}]]
    BY <2>2, <2>3 DEF IsTransfer
  <2>6. [moved EXCEPT ![receiving][dest] = cap] \in [Thread -> [Slot -> Capability \cup {NULL}]]
    BY <2>2, <2>4
  <2> QED
    BY <2>1, <2>5, <2>6 DEF IsTransfer
<1> QED
  BY <1>1, <1>2

(* All indices of a message.                                               *)
LEMMA TransferType ==
  ASSUME NEW s \in [Thread -> [Slot -> Capability \cup {NULL}]],
         NEW sending \in Thread, NEW receiving \in Thread, NEW sent, NEW recv
  PROVE  IsTransfer(transfer_capabilities(s, sending, receiving, sent, recv))
<1> DEFINE Step(r, i) == transfer_capability(r, sending, receiving, sent, recv, i)
           r0 == [slots |-> s, transferred |-> {}]
           r1 == Step(r0, 0)
           r2 == Step(r1, 1)
           r3 == Step(r2, 2)
<1>0. 0 \in IPC_CAPABILITY_SLOTS /\ 1 \in IPC_CAPABILITY_SLOTS /\ 2 \in IPC_CAPABILITY_SLOTS
      /\ 3 \in IPC_CAPABILITY_SLOTS
  BY DEF IPC_CAPABILITY_SLOTS
<1>1. IsTransfer(r0)
  BY DEF IsTransfer
<1>2. IsTransfer(r1)
  BY <1>0, <1>1, TransferStep
<1>3. IsTransfer(r2)
  BY <1>0, <1>2, TransferStep
<1>4. IsTransfer(r3)
  BY <1>0, <1>3, TransferStep
<1>5. IsTransfer(Step(r3, 3))
  BY <1>0, <1>4, TransferStep
<1> QED
  BY <1>5 DEF transfer_capabilities

-----------------------------------------------------------------------------
(* The handlers.  A handler starts with the calling thread running. *)
Entered(k) == Handled(k) /\ k.exec_mode[k.current_thread] = RUNNING

(* The types of the fields, and that the caller is not blocked.            *)
LEMMA EnteredFacts ==
  ASSUME NEW k, Entered(k)
  PROVE  /\ k \in KernelState
         /\ k.current_thread \in Thread
         /\ k.blocked_on[k.current_thread] = NULL
         /\ k.endpoints \in SUBSET Endpoint
         /\ k.blocked_sending \in [Endpoint -> Container(Thread)]
         /\ k.blocked_receiving \in [Endpoint -> Container(Thread)]
         /\ k.blocked_queue \in LinkField(Thread)
         /\ k.blocked_on \in [Thread -> Endpoint \cup {NULL}]
         /\ k.blocked_flags \in [Thread -> SUBSET {"SEND", "RECEIVE"}]
         /\ k.sending_badge \in [Thread -> Badge \cup {NULL}]
         /\ k.message_buffer \in [Thread -> SendMessages \cup RecvMessages \cup {NULL}]
         /\ k.slots \in [Thread -> [Slot -> Capability \cup {NULL}]]
         /\ k.exec_mode \in [Thread -> ExecMode]
<1>1. k \in KernelState /\ k.current_thread # NULL
  BY DEF Entered, Handled, CpuHeld
<1>2. k.current_thread \in Thread
  BY <1>1 DEF KernelState
<1>3. BLOCKED \notin k.exec_mode[k.current_thread]
  BY DEF Entered, RUNNING
<1>4. k.blocked_on[k.current_thread] = NULL
  BY <1>2, <1>3 DEF Entered, Handled, ModesInv
<1> QED
  BY <1>1, <1>2, <1>4 DEF KernelState

(***************************************************************************)
(* What a handler does to the endpoints, as a relation between the state k *)
(* it starts in and the state q it ends in: the caller joins a queue of    *)
(* endpoint e, or thread t leaves one and a message is handed over.        *)
(***************************************************************************)
Senders(k, e) == Waiting(k.blocked_sending, k.blocked_queue, e)
Receivers(k, e) == Waiting(k.blocked_receiving, k.blocked_queue, e)

Blocks(k, q, e, flag) ==
  LET t == k.current_thread
      added(d, queue) == IF d = e /\ queue = flag THEN {t} ELSE {}
  IN  /\ q.endpoints = k.endpoints
      /\ q.slots = k.slots /\ q.delivery = k.delivery
      /\ q.blocked_on = [k.blocked_on EXCEPT ![t] = e]
      /\ q.blocked_flags = [k.blocked_flags EXCEPT ![t] = @ \cup {flag}]
      /\ \A d \in k.endpoints : /\ Senders(q, d) = Senders(k, d) \cup added(d, "SEND")
                                /\ Receivers(q, d) = Receivers(k, d) \cup added(d, "RECEIVE")

Releases(k, q, e, t, flag) ==
  /\ q.endpoints = k.endpoints
  /\ t \in IF flag = "SEND" THEN Senders(k, e) ELSE Receivers(k, e)
  /\ q.blocked_on = [k.blocked_on EXCEPT ![t] = NULL]
  /\ q.blocked_flags = [k.blocked_flags EXCEPT ![t] = @ \ {flag}]
  /\ \A d \in k.endpoints : /\ Senders(q, d) = Senders(k, d) \ {t}
                            /\ Receivers(q, d) = Receivers(k, d) \ {t}

HandsOver(k, q, sending, receiving, sent, recv) ==
  LET r == transfer_capabilities(k.slots, sending, receiving, sent, recv)
  IN  /\ q.slots = r.slots
      /\ q.delivery \in Delivery
      /\ q.delivery.to = receiving /\ q.delivery.transferred = r.transferred

(***************************************************************************)
(* The same by the lists that are written: the caller is appended to queue *)
(* `flag` of endpoint e, with its message and badge, or the first thread   *)
(* of that queue is popped.                                                *)
(***************************************************************************)
Queues(k, flag) == IF flag = "SEND" THEN k.blocked_sending ELSE k.blocked_receiving

Opposite(flag) == IF flag = "SEND" THEN "RECEIVE" ELSE "SEND"

Appended(k, q, e, badge, m, flag) ==
  LET t == k.current_thread
      l == LIST_APPEND(Queues(k, flag)[e], k.blocked_queue, t)
  IN  /\ Queues(q, flag) = [Queues(k, flag) EXCEPT ![e] = l.container]
      /\ Queues(q, Opposite(flag)) = Queues(k, Opposite(flag))
      /\ q.blocked_queue = l.field
      /\ q.message_buffer = [k.message_buffer EXCEPT ![t] = m]
      /\ q.sending_badge = [k.sending_badge EXCEPT ![t] = badge]

Popped(k, q, e, flag) ==
  LET l == LIST_POP_FROM_START(Queues(k, flag)[e], k.blocked_queue)
  IN  /\ Queues(q, flag) = [Queues(k, flag) EXCEPT ![e] = l.container]
      /\ Queues(q, Opposite(flag)) = Queues(k, Opposite(flag))
      /\ q.blocked_queue = l.field
      /\ q.message_buffer = k.message_buffer
      /\ q.sending_badge = k.sending_badge

Delivers(q, t, badge, buffer) ==
  /\ q.delivery \in Delivery
  /\ q.delivery.to = t /\ q.delivery.badge = badge /\ q.delivery.buffer = buffer

(***************************************************************************)
(* The calling thread joins queue A of endpoint e (the senders or the      *)
(* receivers) while queue B is empty, and is blocked.  q is the state      *)
(* before suspend_thread.                                                  *)
(***************************************************************************)
LEMMA BlockCaller ==
  ASSUME NEW k, Entered(k), NEW q \in KernelState, AllSchedulerFrame(k, q),
         QueuesInv(q), q.endpoints = k.endpoints, NEW e \in k.endpoints,
         q.blocked_on = [k.blocked_on EXCEPT ![k.current_thread] = e]
  PROVE  /\ Handled(suspend_thread(q, k.current_thread, BLOCKED))
         /\ EndpointFrame(q, suspend_thread(q, k.current_thread, BLOCKED))
<1> DEFINE t == k.current_thread
           r == suspend_thread(q, t, BLOCKED)
<1>0. /\ t \in Thread /\ NULL \notin Endpoint /\ e \in Endpoint
      /\ k.exec_mode \in [Thread -> ExecMode]
      /\ k.blocked_on \in [Thread -> Endpoint \cup {NULL}]
  BY EnteredFacts, IpcAssumption
<1>1. RunInv(q)
  BY FramedScheduler DEF Entered, Handled
<1>2. q.current_thread = t
  BY DEF AllSchedulerFrame, SchedulerFrame
<1>3. /\ r \in KernelState /\ RunInv(r)
      /\ r.exec_mode = [q.exec_mode EXCEPT ![t] = @ \cup {BLOCKED}]
      /\ SchedulerFrame(q, r) /\ EndpointFrame(q, r)
      /\ q.pending_context_switch \/ q.current_thread = t => r.pending_context_switch
  BY <1>0, <1>1, <1>2, SuspendThread
<1> HIDE DEF r
<1>4. CpuHeld(r)
  BY <1>2, <1>3 DEF Entered, Handled, CpuHeld, AllSchedulerFrame, SchedulerFrame
<1>5. QueuesInv(r)
  BY <1>3, FramedQueues
<1>6. ModesInv(r)
  <2>1. /\ r.exec_mode = [k.exec_mode EXCEPT ![t] = @ \cup {BLOCKED}]
        /\ r.blocked_on = [k.blocked_on EXCEPT ![t] = e]
        /\ r.endpoints = k.endpoints
    BY <1>3 DEF AllSchedulerFrame, EndpointFrame
  <2> QED
    BY <1>0, <2>1 DEF ModesInv, Entered, Handled
<1> QED
  BY <1>3, <1>4, <1>5, <1>6 DEF Handled, r

(***************************************************************************)
(* The first thread t of queue A of endpoint e has left it; q is the state *)
(* before resume_thread.                                                   *)
(***************************************************************************)
LEMMA ReleaseWaiter ==
  ASSUME NEW k, Entered(k), NEW q \in KernelState, AllSchedulerFrame(k, q),
         QueuesInv(q), q.endpoints = k.endpoints, NEW t \in Thread,
         q.blocked_on = [k.blocked_on EXCEPT ![t] = NULL]
  PROVE  /\ Handled(resume_thread(q, t, BLOCKED))
         /\ EndpointFrame(q, resume_thread(q, t, BLOCKED))
<1> DEFINE r == resume_thread(q, t, BLOCKED)
<1>0. /\ NULL \notin Endpoint
      /\ k.exec_mode \in [Thread -> ExecMode]
      /\ k.blocked_on \in [Thread -> Endpoint \cup {NULL}]
      /\ k.current_thread \in Thread
  BY EnteredFacts, IpcAssumption
<1>1. RunInv(q)
  BY FramedScheduler DEF Entered, Handled
<1>2. /\ r \in KernelState /\ RunInv(r)
      /\ r.exec_mode = [q.exec_mode EXCEPT ![t] = @ \ {BLOCKED}]
      /\ SchedulerFrame(q, r) /\ EndpointFrame(q, r)
      /\ q.pending_context_switch => r.pending_context_switch
  BY <1>1, ResumeThread
<1> HIDE DEF r
<1>3. /\ r.exec_mode = [k.exec_mode EXCEPT ![t] = @ \ {BLOCKED}]
      /\ r.blocked_on = [k.blocked_on EXCEPT ![t] = NULL]
      /\ r.endpoints = k.endpoints
  BY <1>2 DEF AllSchedulerFrame, EndpointFrame
<1>4. r.exec_mode[k.current_thread] = RUNNING
  BY <1>0, <1>3 DEF Entered, RUNNING
<1>5. CpuHeld(r)
  BY <1>2, <1>4 DEF Entered, Handled, CpuHeld, AllSchedulerFrame, SchedulerFrame
<1>6. QueuesInv(r)
  BY <1>2, FramedQueues
<1>7. ModesInv(r)
  BY <1>0, <1>3 DEF ModesInv, Entered, Handled
<1> QED
  BY <1>2, <1>5, <1>6, <1>7 DEF Handled, r

(* With no receiver waiting the caller joins the queue of senders.         *)
LEMMA BlockToSend ==
  ASSUME NEW k, Entered(k), NEW e \in k.endpoints, NEW badge \in Badge,
         NEW m \in SendMessages, ~LIST_CAN_POP(k.blocked_receiving[e])
  PROVE  /\ Handled(block_current_thread(k, e, badge, m, "SEND"))
         /\ Blocks(k, block_current_thread(k, e, badge, m, "SEND"), e, "SEND")
         /\ Appended(k, block_current_thread(k, e, badge, m, "SEND"), e, badge, m, "SEND")
<1> DEFINE t == k.current_thread
           A == k.blocked_sending
           B == k.blocked_receiving
           f == k.blocked_queue
           on == k.blocked_on
           l == LIST_APPEND(A[e], f, t)
           a == [A EXCEPT ![e] = l.container]
           o == [on EXCEPT ![t] = e]
           q1 == [k EXCEPT !.blocked_sending[e] = l.container]
           q == [q1 EXCEPT !.blocked_queue = l.field,
                           !.message_buffer[t] = m,
                           !.sending_badge[t] = badge,
                           !.blocked_on[t] = e,
                           !.blocked_flags[t] = @ \cup {"SEND"}]
<1>0. /\ k \in KernelState /\ t \in Thread /\ on[t] = NULL
      /\ A \in [Endpoint -> Container(Thread)] /\ B \in [Endpoint -> Container(Thread)]
      /\ f \in LinkField(Thread) /\ on \in [Thread -> Endpoint \cup {NULL}]
      /\ k.endpoints \in SUBSET Endpoint
      /\ k.blocked_flags \in [Thread -> SUBSET {"SEND", "RECEIVE"}]
      /\ k.sending_badge \in [Thread -> Badge \cup {NULL}]
      /\ k.message_buffer \in [Thread -> SendMessages \cup RecvMessages \cup {NULL}]
  BY EnteredFacts
<1>1. \A d \in k.endpoints : TwoQueues(A, B, f, on, d)
  BY DEF Entered, Handled, QueuesInv, TwoQueues
<1>2. /\ a \in [Endpoint -> Container(Thread)]
      /\ l.field \in LinkField(Thread)
      /\ \A d \in k.endpoints :
           /\ TwoQueues(a, B, l.field, o, d)
           /\ Waiting(a, l.field, d) = Waiting(A, f, d) \cup (IF d = e THEN {t} ELSE {})
           /\ Waiting(B, l.field, d) = Waiting(B, f, d)
  <2>1. Joined(A, B, f, on, k.endpoints, e, t)
    BY <1>0, <1>1, JoinQueue
  <2> QED
    BY <2>1 DEF Joined
<1>3. block_current_thread(k, e, badge, m, "SEND") = suspend_thread(q, t, BLOCKED)
  BY DEF block_current_thread
<1> DEFINE mb == [k.message_buffer EXCEPT ![t] = m]
           sb == [k.sending_badge EXCEPT ![t] = badge]
           fl == [k.blocked_flags EXCEPT ![t] = @ \cup {"SEND"}]
<1> HIDE DEF l
<1>4. /\ o \in [Thread -> Endpoint \cup {NULL}]
      /\ mb \in [Thread -> SendMessages \cup RecvMessages \cup {NULL}]
      /\ sb \in [Thread -> Badge \cup {NULL}]
      /\ fl \in [Thread -> SUBSET {"SEND", "RECEIVE"}]
  BY <1>0
<1>5a. q1 = [k EXCEPT !.blocked_sending = a]
  OBVIOUS
<1>5b. /\ q1.blocked_queue = f /\ q1.blocked_on = on
       /\ q1.blocked_flags = k.blocked_flags
       /\ q1.sending_badge = k.sending_badge
       /\ q1.message_buffer = k.message_buffer
  BY <1>0 DEF KernelState
<1>5c. q = [q1 EXCEPT !.blocked_queue = l.field, !.message_buffer = mb,
                      !.sending_badge = sb, !.blocked_on = o, !.blocked_flags = fl]
  BY <1>5b
<1> HIDE DEF q1, q, a, o, mb, sb, fl
<1>5. q1 \in KernelState
  BY <1>0, <1>2, <1>5a, ZenonT(60) DEF KernelState
<1>5d. /\ q1.blocked_sending = a
       /\ q1.blocked_receiving = B
       /\ q1.endpoints = k.endpoints
       /\ q1.slots = k.slots /\ q1.delivery = k.delivery
  BY <1>0, <1>5a DEF KernelState
<1>6. AllSchedulerFrame(k, q1)
  BY <1>0, <1>5a DEF KernelState, AllSchedulerFrame, SchedulerFrame, RunQueueFrame
<1>7. q \in KernelState
  BY <1>2, <1>4, <1>5, <1>5c DEF KernelState
<1>8. /\ q.blocked_sending = a
      /\ q.blocked_receiving = B
      /\ q.endpoints = k.endpoints
      /\ q.blocked_queue = l.field
      /\ q.blocked_on = o
      /\ q.message_buffer = mb
      /\ q.sending_badge = sb
      /\ q.blocked_flags = fl
      /\ q.slots = k.slots /\ q.delivery = k.delivery
  BY <1>5, <1>5c, <1>5d DEF KernelState
<1>9. AllSchedulerFrame(q1, q)
  BY <1>5, <1>5c DEF KernelState, AllSchedulerFrame, SchedulerFrame, RunQueueFrame
<1>10. AllSchedulerFrame(k, q)
  BY <1>6, <1>9 DEF AllSchedulerFrame, SchedulerFrame, RunQueueFrame
<1>11. QueuesInv(q)
  <2>1. SUFFICES ASSUME NEW d \in k.endpoints
                 PROVE  /\ TwoQueues(q.blocked_sending, q.blocked_receiving, q.blocked_queue,
                                     q.blocked_on, d)
                        /\ \A u \in Waiting(q.blocked_sending, q.blocked_queue, d) :
                             q.message_buffer[u] \in SendMessages /\ q.sending_badge[u] \in Badge
    BY <1>8 DEF QueuesInv
  <2>2. TwoQueues(q.blocked_sending, q.blocked_receiving, q.blocked_queue, q.blocked_on, d)
    BY <1>2, <1>8 DEF TwoQueues
  <2>3. \A u \in Waiting(k.blocked_sending, f, d) :
          /\ u \in Thread /\ u # t
          /\ k.message_buffer[u] \in SendMessages /\ k.sending_badge[u] \in Badge
    BY <1>0, <1>1, IpcAssumption DEF Entered, Handled, QueuesInv, TwoQueues
  <2> QED
    BY <1>0, <1>2, <1>8, <2>2, <2>3 DEF mb, sb
<1> DEFINE z == suspend_thread(q, t, BLOCKED)
<1>12. Handled(z) /\ EndpointFrame(q, z)
  BY <1>7, <1>8, <1>10, <1>11, BlockCaller DEF o
<1> HIDE DEF z
<1>13. Blocks(k, z, e, "SEND")
  BY <1>2, <1>8, <1>12 DEF Blocks, EndpointFrame, Senders, Receivers, o, fl
<1>14. Appended(k, z, e, badge, m, "SEND")
  BY <1>8, <1>12 DEF Appended, Queues, Opposite, EndpointFrame, a, mb, sb, l
<1> QED
  BY <1>3, <1>12, <1>13, <1>14 DEF z

(* With no sender waiting the caller joins the queue of receivers.         *)
LEMMA BlockToRecv ==
  ASSUME NEW k, Entered(k), NEW e \in k.endpoints, NEW badge \in Badge,
         NEW m \in RecvMessages, ~LIST_CAN_POP(k.blocked_sending[e])
  PROVE  /\ Handled(block_current_thread(k, e, badge, m, "RECEIVE"))
         /\ Blocks(k, block_current_thread(k, e, badge, m, "RECEIVE"), e, "RECEIVE")
         /\ Appended(k, block_current_thread(k, e, badge, m, "RECEIVE"), e, badge, m, "RECEIVE")
<1> DEFINE t == k.current_thread
           A == k.blocked_receiving
           B == k.blocked_sending
           f == k.blocked_queue
           on == k.blocked_on
           l == LIST_APPEND(A[e], f, t)
           a == [A EXCEPT ![e] = l.container]
           o == [on EXCEPT ![t] = e]
           q1 == [k EXCEPT !.blocked_receiving[e] = l.container]
           q == [q1 EXCEPT !.blocked_queue = l.field,
                           !.message_buffer[t] = m,
                           !.sending_badge[t] = badge,
                           !.blocked_on[t] = e,
                           !.blocked_flags[t] = @ \cup {"RECEIVE"}]
<1>0. /\ k \in KernelState /\ t \in Thread /\ on[t] = NULL
      /\ A \in [Endpoint -> Container(Thread)] /\ B \in [Endpoint -> Container(Thread)]
      /\ f \in LinkField(Thread) /\ on \in [Thread -> Endpoint \cup {NULL}]
      /\ k.endpoints \in SUBSET Endpoint
      /\ k.blocked_flags \in [Thread -> SUBSET {"SEND", "RECEIVE"}]
      /\ k.sending_badge \in [Thread -> Badge \cup {NULL}]
      /\ k.message_buffer \in [Thread -> SendMessages \cup RecvMessages \cup {NULL}]
  BY EnteredFacts
<1>1. \A d \in k.endpoints : TwoQueues(A, B, f, on, d)
  BY DEF Entered, Handled, QueuesInv, TwoQueues
<1>2. /\ a \in [Endpoint -> Container(Thread)]
      /\ l.field \in LinkField(Thread)
      /\ \A d \in k.endpoints :
           /\ TwoQueues(a, B, l.field, o, d)
           /\ Waiting(a, l.field, d) = Waiting(A, f, d) \cup (IF d = e THEN {t} ELSE {})
           /\ Waiting(B, l.field, d) = Waiting(B, f, d)
  <2>1. Joined(A, B, f, on, k.endpoints, e, t)
    BY <1>0, <1>1, JoinQueue
  <2> QED
    BY <2>1 DEF Joined
<1>3. block_current_thread(k, e, badge, m, "RECEIVE") = suspend_thread(q, t, BLOCKED)
  BY DEF block_current_thread
<1> DEFINE mb == [k.message_buffer EXCEPT ![t] = m]
           sb == [k.sending_badge EXCEPT ![t] = badge]
           fl == [k.blocked_flags EXCEPT ![t] = @ \cup {"RECEIVE"}]
<1> HIDE DEF l
<1>4. /\ o \in [Thread -> Endpoint \cup {NULL}]
      /\ mb \in [Thread -> SendMessages \cup RecvMessages \cup {NULL}]
      /\ sb \in [Thread -> Badge \cup {NULL}]
      /\ fl \in [Thread -> SUBSET {"SEND", "RECEIVE"}]
  BY <1>0
<1>5a. q1 = [k EXCEPT !.blocked_receiving = a]
  OBVIOUS
<1>5b. /\ q1.blocked_queue = f /\ q1.blocked_on = on
       /\ q1.blocked_flags = k.blocked_flags
       /\ q1.sending_badge = k.sending_badge
       /\ q1.message_buffer = k.message_buffer
  BY <1>0 DEF KernelState
<1>5c. q = [q1 EXCEPT !.blocked_queue = l.field, !.message_buffer = mb,
                      !.sending_badge = sb, !.blocked_on = o, !.blocked_flags = fl]
  BY <1>5b
<1> HIDE DEF q1, q, a, o, mb, sb, fl
<1>5. q1 \in KernelState
  BY <1>0, <1>2, <1>5a, ZenonT(60) DEF KernelState
<1>5d. /\ q1.blocked_receiving = a
       /\ q1.blocked_sending = B
       /\ q1.endpoints = k.endpoints
       /\ q1.slots = k.slots /\ q1.delivery = k.delivery
  BY <1>0, <1>5a DEF KernelState
<1>6. AllSchedulerFrame(k, q1)
  BY <1>0, <1>5a DEF KernelState, AllSchedulerFrame, SchedulerFrame, RunQueueFrame
<1>7. q \in KernelState
  BY <1>2, <1>4, <1>5, <1>5c DEF KernelState
<1>8. /\ q.blocked_receiving = a
      /\ q.blocked_sending = B
      /\ q.endpoints = k.endpoints
      /\ q.blocked_queue = l.field
      /\ q.blocked_on = o
      /\ q.message_buffer = mb
      /\ q.sending_badge = sb
      /\ q.blocked_flags = fl
      /\ q.slots = k.slots /\ q.delivery = k.delivery
  BY <1>5, <1>5c, <1>5d DEF KernelState
<1>9. AllSchedulerFrame(q1, q)
  BY <1>5, <1>5c DEF KernelState, AllSchedulerFrame, SchedulerFrame, RunQueueFrame
<1>10. AllSchedulerFrame(k, q)
  BY <1>6, <1>9 DEF AllSchedulerFrame, SchedulerFrame, RunQueueFrame
<1>11. QueuesInv(q)
  <2>1. SUFFICES ASSUME NEW d \in k.endpoints
                 PROVE  /\ TwoQueues(q.blocked_sending, q.blocked_receiving, q.blocked_queue,
                                     q.blocked_on, d)
                        /\ \A u \in Waiting(q.blocked_sending, q.blocked_queue, d) :
                             q.message_buffer[u] \in SendMessages /\ q.sending_badge[u] \in Badge
    BY <1>8 DEF QueuesInv
  <2>2. TwoQueues(q.blocked_sending, q.blocked_receiving, q.blocked_queue, q.blocked_on, d)
    BY <1>2, <1>8 DEF TwoQueues
  <2>3. \A u \in Waiting(k.blocked_sending, f, d) :
          /\ u \in Thread /\ u # t
          /\ k.message_buffer[u] \in SendMessages /\ k.sending_badge[u] \in Badge
    BY <1>0, <1>1, IpcAssumption DEF Entered, Handled, QueuesInv, TwoQueues
  <2> QED
    BY <1>0, <1>2, <1>8, <2>2, <2>3 DEF mb, sb
<1> DEFINE z == suspend_thread(q, t, BLOCKED)
<1>12. Handled(z) /\ EndpointFrame(q, z)
  BY <1>7, <1>8, <1>10, <1>11, BlockCaller DEF o
<1> HIDE DEF z
<1>13. Blocks(k, z, e, "RECEIVE")
  BY <1>2, <1>8, <1>12 DEF Blocks, EndpointFrame, Senders, Receivers, o, fl
<1>14. Appended(k, z, e, badge, m, "RECEIVE")
  BY <1>8, <1>12 DEF Appended, Queues, Opposite, EndpointFrame, a, mb, sb, l
<1> QED
  BY <1>3, <1>12, <1>13, <1>14 DEF z

(* endpoint_send hands a message over or blocks the caller. *)
LEMMA EndpointSend ==
  ASSUME NEW k, Entered(k), NEW e \in k.endpoints, NEW badge \in Badge,
         NEW m \in SendMessages
  PROVE  LET q == endpoint_send(k, e, badge, m)
         IN  /\ Handled(q)
             /\ \/ Blocks(k, q, e, "SEND")
                \/ \E t \in Thread : Releases(k, q, e, t, "RECEIVE")
                                    /\ \E recv : HandsOver(k, q, k.current_thread, t, m, recv)
             /\ ~LIST_CAN_POP(k.blocked_receiving[e])
                  => q.delivery = k.delivery /\ Appended(k, q, e, badge, m, "SEND")
             /\ LIST_CAN_POP(k.blocked_receiving[e])
                  => /\ Popped(k, q, e, "RECEIVE")
                     /\ Delivers(q, k.blocked_receiving[e].start, badge, m.buffer)
<1> DEFINE A == k.blocked_receiving
           B == k.blocked_sending
           f == k.blocked_queue
           on == k.blocked_on
           t == A[e].start
           l == LIST_POP_FROM_START(A[e], f)
           a == [A EXCEPT ![e] = l.container]
           o == [on EXCEPT ![t] = NULL]
<1>1. CASE ~LIST_CAN_POP(A[e])
  BY <1>1, BlockToSend DEF endpoint_send, Blocks
<1>2. CASE LIST_CAN_POP(A[e])
  <2> DEFINE sent == k.message_buffer[t]
             r == transfer_capabilities(k.slots, k.current_thread, t, m, sent)
             given == Delivered(t, m.buffer, badge, r)
             fl == [k.blocked_flags EXCEPT ![t] = @ \ {"RECEIVE"}]
             q1 == released(k, t, "RECEIVE")
             q == [q1 EXCEPT !.blocked_receiving[e] = l.container,
                             !.blocked_queue = l.field,
                             !.delivery = given,
                             !.slots = r.slots]
  <2>0. /\ k \in KernelState /\ k.current_thread \in Thread
        /\ A \in [Endpoint -> Container(Thread)] /\ B \in [Endpoint -> Container(Thread)]
        /\ f \in LinkField(Thread) /\ on \in [Thread -> Endpoint \cup {NULL}]
        /\ k.endpoints \in SUBSET Endpoint
        /\ k.blocked_flags \in [Thread -> SUBSET {"SEND", "RECEIVE"}]
        /\ k.slots \in [Thread -> [Slot -> Capability \cup {NULL}]]
    BY EnteredFacts
  <2>1. \A d \in k.endpoints : TwoQueues(A, B, f, on, d)
    BY DEF Entered, Handled, QueuesInv, TwoQueues
  <2>2. /\ t \in Waiting(A, f, e)
        /\ t \in Thread
        /\ a \in [Endpoint -> Container(Thread)]
        /\ l.field \in LinkField(Thread)
        /\ \A d \in k.endpoints :
             /\ TwoQueues(a, B, l.field, o, d)
             /\ Waiting(a, l.field, d) = Waiting(A, f, d) \ {t}
             /\ Waiting(B, l.field, d) = Waiting(B, f, d)
    <3>1. Left(A, B, f, on, k.endpoints, e)
      BY <1>2, <2>0, <2>1, LeaveQueue
    <3> QED
      BY <3>1 DEF Left
  <2>3. endpoint_send(k, e, badge, m) = resume_thread(q, t, BLOCKED)
    BY <1>2 DEF endpoint_send
  <2>4. IsTransfer(r)
    BY <2>0, <2>2, TransferType
  <2> HIDE DEF l, r
  <2>5. given \in Delivery
    BY <2>2, <2>4 DEF Delivery, Delivered, IsTransfer
  <2>5a. /\ given.to = t /\ given.transferred = r.transferred
         /\ given.badge = badge /\ given.buffer = m.buffer
    BY DEF Delivered
  <2> HIDE DEF given
  <2>6. /\ o \in [Thread -> Endpoint \cup {NULL}]
        /\ fl \in [Thread -> SUBSET {"SEND", "RECEIVE"}]
        /\ r.slots \in [Thread -> [Slot -> Capability \cup {NULL}]]
    BY <2>0, <2>2, <2>4 DEF IsTransfer
  <2>6a. /\ q1 \in KernelState
         /\ q1.blocked_receiving = A /\ q1.blocked_sending = B
         /\ q1.endpoints = k.endpoints
         /\ q1.blocked_queue = f /\ q1.blocked_on = o
         /\ q1.message_buffer = k.message_buffer
         /\ q1.sending_badge = k.sending_badge
         /\ q1.blocked_flags = fl
    BY <2>0, <2>6 DEF KernelState, released
  <2>6b. AllSchedulerFrame(k, q1)
    BY <2>0 DEF KernelState, released, AllSchedulerFrame, SchedulerFrame, RunQueueFrame
  <2> HIDE DEF q1
  <2>7. q \in KernelState
    BY <2>2, <2>5, <2>6, <2>6a DEF KernelState
  <2>8. /\ q.blocked_receiving = a
        /\ q.blocked_sending = B
        /\ q.endpoints = k.endpoints
        /\ q.blocked_queue = l.field
        /\ q.blocked_on = o
        /\ q.message_buffer = k.message_buffer
        /\ q.sending_badge = k.sending_badge
        /\ q.blocked_flags = fl
        /\ q.slots = r.slots /\ q.delivery = given
    BY <2>6a DEF KernelState
  <2>9a. AllSchedulerFrame(q1, q)
    BY <2>6a DEF KernelState, AllSchedulerFrame, SchedulerFrame, RunQueueFrame
  <2>9. AllSchedulerFrame(k, q)
    BY <2>6b, <2>9a DEF AllSchedulerFrame, SchedulerFrame, RunQueueFrame
  <2> HIDE DEF q, a, o, fl
  <2>10. QueuesInv(q)
    <3>1. SUFFICES ASSUME NEW d \in k.endpoints
                   PROVE  /\ TwoQueues(q.blocked_sending, q.blocked_receiving, q.blocked_queue,
                                       q.blocked_on, d)
                          /\ \A u \in Waiting(q.blocked_sending, q.blocked_queue, d) :
                               q.message_buffer[u] \in SendMessages /\ q.sending_badge[u] \in Badge
      BY <2>8 DEF QueuesInv
    <3>2. TwoQueues(q.blocked_sending, q.blocked_receiving, q.blocked_queue, q.blocked_on, d)
      BY <2>2, <2>8 DEF TwoQueues
    <3>3. \A u \in Waiting(k.blocked_sending, f, d) :
            k.message_buffer[u] \in SendMessages /\ k.sending_badge[u] \in Badge
      BY DEF Entered, Handled, QueuesInv
    <3> QED
      BY <2>2, <2>8, <3>2, <3>3
  <2> DEFINE z == resume_thread(q, t, BLOCKED)
  <2>11. Handled(z) /\ EndpointFrame(q, z)
    BY <2>2, <2>7, <2>8, <2>9, <2>10, ReleaseWaiter DEF o
  <2> HIDE DEF z
  <2>12. \A d \in k.endpoints : t \notin Waiting(B, f, d)
    BY <2>1, <2>2 DEF TwoQueues
  <2>13. Releases(k, z, e, t, "RECEIVE")
    BY <2>2, <2>8, <2>11, <2>12 DEF Releases, EndpointFrame, Senders, Receivers, o, fl
  <2>14. HandsOver(k, z, k.current_thread, t, m, sent)
    BY <2>5, <2>5a, <2>8, <2>11 DEF HandsOver, EndpointFrame, r
  <2>15. Popped(k, z, e, "RECEIVE")
    BY <2>8, <2>11 DEF Popped, Queues, Opposite, EndpointFrame, a, l
  <2>16. Delivers(z, t, badge, m.buffer)
    BY <2>5, <2>5a, <2>8, <2>11 DEF Delivers, EndpointFrame
  <2> QED
    BY <1>2, <2>2, <2>3, <2>11, <2>13, <2>14, <2>15, <2>16 DEF z
<1> QED
  BY <1>1, <1>2

(* endpoint_receive hands a message over or blocks the caller. *)
LEMMA EndpointReceive ==
  ASSUME NEW k, Entered(k), NEW e \in k.endpoints, NEW badge \in Badge,
         NEW m \in RecvMessages
  PROVE  LET q == endpoint_receive(k, e, badge, m)
         IN  /\ Handled(q)
             /\ \/ Blocks(k, q, e, "RECEIVE")
                \/ \E t \in Thread : Releases(k, q, e, t, "SEND")
                                    /\ \E sent : HandsOver(k, q, t, k.current_thread, sent, m)
             /\ ~LIST_CAN_POP(k.blocked_sending[e])
                  => q.delivery = k.delivery /\ Appended(k, q, e, badge, m, "RECEIVE")
             /\ LIST_CAN_POP(k.blocked_sending[e])
                  => LET t == k.blocked_sending[e].start
                     IN  /\ Popped(k, q, e, "SEND")
                         /\ Delivers(q, k.current_thread, k.sending_badge[t],
                                     k.message_buffer[t].buffer)
<1> DEFINE A == k.blocked_sending
           B == k.blocked_receiving
           f == k.blocked_queue
           on == k.blocked_on
           t == A[e].start
           l == LIST_POP_FROM_START(A[e], f)
           a == [A EXCEPT ![e] = l.container]
           o == [on EXCEPT ![t] = NULL]
<1>1. CASE ~LIST_CAN_POP(A[e])
  BY <1>1, BlockToRecv DEF endpoint_receive, Blocks
<1>2. CASE LIST_CAN_POP(A[e])
  <2> DEFINE sent == k.message_buffer[t]
             r == transfer_capabilities(k.slots, t, k.current_thread, sent, m)
             given == Delivered(k.current_thread, sent.buffer, k.sending_badge[t], r)
             fl == [k.blocked_flags EXCEPT ![t] = @ \ {"SEND"}]
             q1 == released(k, t, "SEND")
             q == [q1 EXCEPT !.blocked_sending[e] = l.container,
                             !.blocked_queue = l.field,
                             !.delivery = given,
                             !.slots = r.slots]
  <2>0. /\ k \in KernelState /\ k.current_thread \in Thread
        /\ A \in [Endpoint -> Container(Thread)] /\ B \in [Endpoint -> Container(Thread)]
        /\ f \in LinkField(Thread) /\ on \in [Thread -> Endpoint \cup {NULL}]
        /\ k.endpoints \in SUBSET Endpoint
        /\ k.blocked_flags \in [Thread -> SUBSET {"SEND", "RECEIVE"}]
        /\ k.slots \in [Thread -> [Slot -> Capability \cup {NULL}]]
    BY EnteredFacts
  <2>1. \A d \in k.endpoints : TwoQueues(A, B, f, on, d)
    BY DEF Entered, Handled, QueuesInv, TwoQueues
  <2>2. /\ t \in Waiting(A, f, e)
        /\ t \in Thread
        /\ a \in [Endpoint -> Container(Thread)]
        /\ l.field \in LinkField(Thread)
        /\ \A d \in k.endpoints :
             /\ TwoQueues(a, B, l.field, o, d)
             /\ Waiting(a, l.field, d) = Waiting(A, f, d) \ {t}
             /\ Waiting(B, l.field, d) = Waiting(B, f, d)
    <3>1. Left(A, B, f, on, k.endpoints, e)
      BY <1>2, <2>0, <2>1, LeaveQueue
    <3> QED
      BY <3>1 DEF Left
  <2>3. endpoint_receive(k, e, badge, m) = resume_thread(q, t, BLOCKED)
    BY <1>2 DEF endpoint_receive
  <2>4. IsTransfer(r)
    BY <2>0, <2>2, TransferType
  <2> HIDE DEF l, r
  <2>5. given \in Delivery
    <3>1. sent \in SendMessages /\ k.sending_badge[t] \in Badge
      BY <2>2 DEF Entered, Handled, QueuesInv
    <3> QED
      BY <2>0, <2>4, <3>1 DEF Delivery, Delivered, IsTransfer
  <2>5a. /\ given.to = k.current_thread /\ given.transferred = r.transferred
         /\ given.badge = k.sending_badge[t] /\ given.buffer = sent.buffer
    BY DEF Delivered
  <2> HIDE DEF given
  <2>6. /\ o \in [Thread -> Endpoint \cup {NULL}]
        /\ fl \in [Thread -> SUBSET {"SEND", "RECEIVE"}]
        /\ r.slots \in [Thread -> [Slot -> Capability \cup {NULL}]]
    BY <2>0, <2>2, <2>4 DEF IsTransfer
  <2>6a. /\ q1 \in KernelState
         /\ q1.blocked_sending = A /\ q1.blocked_receiving = B
         /\ q1.endpoints = k.endpoints
         /\ q1.blocked_queue = f /\ q1.blocked_on = o
         /\ q1.message_buffer = k.message_buffer
         /\ q1.sending_badge = k.sending_badge
         /\ q1.blocked_flags = fl
    BY <2>0, <2>6 DEF KernelState, released
  <2>6b. AllSchedulerFrame(k, q1)
    BY <2>0 DEF KernelState, released, AllSchedulerFrame, SchedulerFrame, RunQueueFrame
  <2> HIDE DEF q1
  <2>7. q \in KernelState
    BY <2>2, <2>5, <2>6, <2>6a DEF KernelState
  <2>8. /\ q.blocked_sending = a
        /\ q.blocked_receiving = B
        /\ q.endpoints = k.endpoints
        /\ q.blocked_queue = l.field
        /\ q.blocked_on = o
        /\ q.message_buffer = k.message_buffer
        /\ q.sending_badge = k.sending_badge
        /\ q.blocked_flags = fl
        /\ q.slots = r.slots /\ q.delivery = given
    BY <2>6a DEF KernelState
  <2>9a. AllSchedulerFrame(q1, q)
    BY <2>6a DEF KernelState, AllSchedulerFrame, SchedulerFrame, RunQueueFrame
  <2>9. AllSchedulerFrame(k, q)
    BY <2>6b, <2>9a DEF AllSchedulerFrame, SchedulerFrame, RunQueueFrame
  <2> HIDE DEF q, a, o, fl
  <2>10. QueuesInv(q)
    <3>1. SUFFICES ASSUME NEW d \in k.endpoints
                   PROVE  /\ TwoQueues(q.blocked_sending, q.blocked_receiving, q.blocked_queue,
                                       q.blocked_on, d)
                          /\ \A u \in Waiting(q.blocked_sending, q.blocked_queue, d) :
                               q.message_buffer[u] \in SendMessages /\ q.sending_badge[u] \in Badge
      BY <2>8 DEF QueuesInv
    <3>2. TwoQueues(q.blocked_sending, q.blocked_receiving, q.blocked_queue, q.blocked_on, d)
      BY <2>2, <2>8 DEF TwoQueues
    <3>3. \A u \in Waiting(k.blocked_sending, f, d) :
            k.message_buffer[u] \in SendMessages /\ k.sending_badge[u] \in Badge
      BY DEF Entered, Handled, QueuesInv
    <3> QED
      BY <2>2, <2>8, <3>2, <3>3
  <2> DEFINE z == resume_thread(q, t, BLOCKED)
  <2>11. Handled(z) /\ EndpointFrame(q, z)
    BY <2>2, <2>7, <2>8, <2>9, <2>10, ReleaseWaiter DEF o
  <2> HIDE DEF z
  <2>12. \A d \in k.endpoints : t \notin Waiting(B, f, d)
    BY <2>1, <2>2 DEF TwoQueues
  <2>13. Releases(k, z, e, t, "SEND")
    BY <2>2, <2>8, <2>11, <2>12 DEF Releases, EndpointFrame, Senders, Receivers, o, fl
  <2>14. HandsOver(k, z, t, k.current_thread, sent, m)
    BY <2>5, <2>5a, <2>8, <2>11 DEF HandsOver, EndpointFrame, r
  <2>15. Popped(k, z, e, "SEND")
    BY <2>8, <2>11 DEF Popped, Queues, Opposite, EndpointFrame, a, l
  <2>16. Delivers(z, k.current_thread, k.sending_badge[t], sent.buffer)
    BY <2>5, <2>5a, <2>8, <2>11 DEF Delivers, EndpointFrame
  <2> QED
    BY <1>2, <2>2, <2>3, <2>11, <2>13, <2>14, <2>15, <2>16 DEF z
<1> QED
  BY <1>1, <1>2

(* A new endpoint has nobody in its queues, and nobody is blocked on it.   *)
LEMMA NewEndpoint ==
  ASSUME NEW k, Entered(k), NEW e \in Endpoint, e \notin k.endpoints
  PROVE  Handled(alloc_endpoint(k, e))
<1> DEFINE q == alloc_endpoint(k, e)
           f == k.blocked_queue
<1>0. /\ k \in KernelState
      /\ k.endpoints \in SUBSET Endpoint
      /\ k.blocked_sending \in [Endpoint -> Container(Thread)]
      /\ k.blocked_receiving \in [Endpoint -> Container(Thread)]
      /\ f.next \in [Thread -> Thread \cup {NULL}]
      /\ NULL \notin Thread /\ NULL \notin Endpoint
      /\ LIST_INIT \in Container(Thread)
  BY EnteredFacts, ThreadAssumption, IpcAssumption DEF LinkField, Container, LIST_INIT
<1>1. q \in KernelState
  <2>1. /\ [k.blocked_sending EXCEPT ![e] = LIST_INIT] \in [Endpoint -> Container(Thread)]
        /\ [k.blocked_receiving EXCEPT ![e] = LIST_INIT] \in [Endpoint -> Container(Thread)]
    BY <1>0
  <2> QED
    BY <1>0, <2>1 DEF alloc_endpoint, KernelState
<1>2. /\ q.endpoints = k.endpoints \cup {e}
      /\ q.blocked_sending = [k.blocked_sending EXCEPT ![e] = LIST_INIT]
      /\ q.blocked_receiving = [k.blocked_receiving EXCEPT ![e] = LIST_INIT]
      /\ q.blocked_queue = f
      /\ q.blocked_on = k.blocked_on
      /\ q.message_buffer = k.message_buffer
      /\ q.sending_badge = k.sending_badge
  BY <1>0 DEF alloc_endpoint, KernelState
<1>3. AllSchedulerFrame(k, q)
  BY <1>0 DEF alloc_endpoint, KernelState, AllSchedulerFrame, SchedulerFrame, RunQueueFrame
<1> HIDE DEF q
<1>4. RunInv(q)
  BY <1>3, FramedScheduler DEF Entered, Handled
<1>5. CpuHeld(q)
  BY <1>3 DEF Entered, Handled, CpuHeld, AllSchedulerFrame, SchedulerFrame
<1>6. ModesInv(q)
  BY <1>2, <1>3 DEF Entered, Handled, ModesInv, AllSchedulerFrame
<1>7. QueuesInv(q)
  <2>1. SUFFICES ASSUME NEW d \in q.endpoints
                 PROVE  /\ TwoQueues(q.blocked_sending, q.blocked_receiving, f, k.blocked_on, d)
                        /\ \A u \in Waiting(q.blocked_sending, f, d) :
                             k.message_buffer[u] \in SendMessages /\ k.sending_badge[u] \in Badge
    BY <1>2 DEF QueuesInv
  <2>2. CASE d = e
    <3>1. q.blocked_sending[d] = LIST_INIT /\ q.blocked_receiving[d] = LIST_INIT
      BY <1>0, <1>2, <2>2
    <3>2. IsQueueOf(LIST_INIT, f.next, Thread, {}) /\ LIST_INIT.start = NULL
      BY <1>0, EmptyQueue DEF LIST_INIT
    <3>3. Waiting(q.blocked_sending, f, d) = {} /\ Waiting(q.blocked_receiving, f, d) = {}
      BY <3>1, <3>2 DEF Waiting, IsQueueOf
    <3>4. {t \in Thread : k.blocked_on[t] = e} = {}
      BY <1>0 DEF Entered, Handled, ModesInv
    <3> QED
      BY <2>2, <3>1, <3>2, <3>3, <3>4 DEF TwoQueues
  <2>3. CASE d # e
    <3>1. /\ d \in k.endpoints
          /\ q.blocked_sending[d] = k.blocked_sending[d]
          /\ q.blocked_receiving[d] = k.blocked_receiving[d]
      BY <1>0, <1>2, <2>3
    <3>2. /\ Waiting(q.blocked_sending, f, d) = Waiting(k.blocked_sending, f, d)
          /\ Waiting(q.blocked_receiving, f, d) = Waiting(k.blocked_receiving, f, d)
      BY <3>1 DEF Waiting
    <3> QED
      BY <3>1, <3>2 DEF Entered, Handled, QueuesInv, TwoQueues
  <2> QED
    BY <2>2, <2>3
<1> QED
  BY <1>1, <1>4, <1>5, <1>6, <1>7 DEF Handled, q

(* The destructor releases, suspended, every thread that waits.            *)
LEMMA DestroyEndpoint ==
  ASSUME NEW k, Entered(k), NEW e \in k.endpoints
  PROVE  Handled(endpoint_destructor(k, e))
<1> DEFINE q == endpoint_destructor(k, e)
           f == k.blocked_queue
           W == Members(Thread, k.blocked_sending[e].start, f.next)
                  \cup Members(Thread, k.blocked_receiving[e].start, f.next)
           mode == [t \in Thread |-> IF t \in W
                                     THEN (k.exec_mode[t] \cup {SUSPENDED}) \ {BLOCKED}
                                     ELSE k.exec_mode[t]]
           on == [t \in Thread |-> IF t \in W THEN NULL ELSE k.blocked_on[t]]
<1>0. /\ k \in KernelState
      /\ k.endpoints \in SUBSET Endpoint /\ e \in Endpoint
      /\ k.blocked_sending \in [Endpoint -> Container(Thread)]
      /\ k.blocked_receiving \in [Endpoint -> Container(Thread)]
      /\ k.blocked_on \in [Thread -> Endpoint \cup {NULL}]
      /\ k.exec_mode \in [Thread -> ExecMode]
      /\ k.current_thread \in Thread
      /\ NULL \notin Thread /\ NULL \notin Endpoint
      /\ LIST_INIT \in Container(Thread)
  BY EnteredFacts, ThreadAssumption, IpcAssumption DEF LinkField, Container, LIST_INIT
<1>1. W = {t \in Thread : k.blocked_on[t] = e}
  BY DEF Entered, Handled, QueuesInv, TwoQueues, Waiting
<1>2. q = [k EXCEPT !.exec_mode = mode, !.blocked_on = on,
                    !.blocked_sending[e] = LIST_INIT, !.blocked_receiving[e] = LIST_INIT,
                    !.endpoints = @ \ {e}]
  BY DEF endpoint_destructor
<1> HIDE DEF W, q
<1>3. mode \in [Thread -> ExecMode] /\ on \in [Thread -> Endpoint \cup {NULL}]
  BY <1>0 DEF ExecMode
<1>4. /\ \A t \in W : t \in Thread /\ mode[t] # RUNNING /\ BLOCKED \notin mode[t] /\ on[t] = NULL
      /\ \A t \in Thread : t \notin W => mode[t] = k.exec_mode[t] /\ on[t] = k.blocked_on[t]
  BY <1>1 DEF RUNNING, BLOCKED, SUSPENDED
<1>5. \A t \in W : k.exec_mode[t] # RUNNING
  BY <1>0, <1>1 DEF Entered, Handled, ModesInv, RUNNING
<1> HIDE DEF mode, on
<1>6. q \in KernelState
  <2>1. /\ [k.blocked_sending EXCEPT ![e] = LIST_INIT] \in [Endpoint -> Container(Thread)]
        /\ [k.blocked_receiving EXCEPT ![e] = LIST_INIT] \in [Endpoint -> Container(Thread)]
    BY <1>0
  <2> QED
    BY <1>0, <1>2, <1>3, <2>1 DEF KernelState
<1>7. /\ q.endpoints = k.endpoints \ {e}
      /\ q.blocked_sending = [k.blocked_sending EXCEPT ![e] = LIST_INIT]
      /\ q.blocked_receiving = [k.blocked_receiving EXCEPT ![e] = LIST_INIT]
      /\ q.blocked_queue = f
      /\ q.blocked_on = on
      /\ q.exec_mode = mode
      /\ q.message_buffer = k.message_buffer
      /\ q.sending_badge = k.sending_badge
      /\ q.pending_context_switch = k.pending_context_switch
  BY <1>0, <1>2 DEF KernelState
<1>8. SchedulerFrame(k, q) /\ RunQueueFrame(k, q)
  BY <1>0, <1>2 DEF KernelState, SchedulerFrame, RunQueueFrame
<1>9. Queued(q) = Queued(k)
  BY <1>8 DEF Queued, RunQueueFrame
<1>10. RunInv(q)
  BY <1>4, <1>5, <1>7, <1>8, <1>9
  DEF Entered, Handled, RunInv, RunQueueIs, PrevKnown, RunQueueFrame, SchedulerFrame
<1>11. CpuHeld(q)
  <2>1. q.exec_mode[k.current_thread] = RUNNING
    BY <1>0, <1>4, <1>5, <1>7 DEF Entered
  <2> QED
    BY <1>7, <1>8, <2>1 DEF Entered, Handled, CpuHeld, SchedulerFrame
<1>12. ModesInv(q)
  BY <1>0, <1>1, <1>4, <1>7 DEF Entered, Handled, ModesInv
<1>13. QueuesInv(q)
  <2>1. SUFFICES ASSUME NEW d \in k.endpoints, d # e
                 PROVE  /\ TwoQueues(q.blocked_sending, q.blocked_receiving, f, on, d)
                        /\ \A u \in Waiting(q.blocked_sending, f, d) :
                             k.message_buffer[u] \in SendMessages /\ k.sending_badge[u] \in Badge
    BY <1>7 DEF QueuesInv
  <2>2. /\ q.blocked_sending[d] = k.blocked_sending[d]
        /\ q.blocked_receiving[d] = k.blocked_receiving[d]
    BY <1>0, <1>7, <2>1
  <2>3. /\ Waiting(q.blocked_sending, f, d) = Waiting(k.blocked_sending, f, d)
        /\ Waiting(q.blocked_receiving, f, d) = Waiting(k.blocked_receiving, f, d)
    BY <2>2 DEF Waiting
  <2>4. {t \in Thread : on[t] = d} = {t \in Thread : k.blocked_on[t] = d}
    BY <1>0, <1>1, <1>4, <2>1
  <2> QED
    BY <2>2, <2>3, <2>4 DEF Entered, Handled, QueuesInv, TwoQueues
<1> QED
  BY <1>6, <1>10, <1>11, <1>12, <1>13 DEF Handled, q

(* yield_thread asks for a context switch and changes nothing else. *)
LEMMA YieldThread ==
  ASSUME NEW k, Entered(k)
  PROVE  Handled(yield_thread(k))
<1> DEFINE q == yield_thread(k)
<1>0. k \in KernelState
  BY EnteredFacts
<1>1. q \in KernelState
  BY <1>0 DEF yield_thread, KernelState
<1>2. /\ q.exec_mode = k.exec_mode
      /\ SchedulerFrame(k, q)
      /\ RunQueueFrame(k, q)
  BY <1>0 DEF yield_thread, KernelState, SchedulerFrame, RunQueueFrame
<1>3. EndpointFrame(k, q)
  BY <1>0 DEF yield_thread, KernelState, EndpointFrame
<1> HIDE DEF q
<1>4. Queued(q) = Queued(k)
  BY <1>2 DEF Queued, RunQueueFrame
<1>5. RunInv(q)
  BY <1>2, <1>4
  DEF Entered, Handled, RunInv, RunQueueIs, PrevKnown, RunQueueFrame, SchedulerFrame
<1>6. CpuHeld(q)
  BY <1>2 DEF Entered, Handled, CpuHeld, SchedulerFrame
<1>7. QueuesInv(q)
  BY <1>3, FramedQueues DEF Entered, Handled
<1>8. ModesInv(q)
  BY <1>2, <1>3 DEF Entered, Handled, ModesInv, EndpointFrame
<1> QED
  BY <1>1, <1>5, <1>6, <1>7, <1>8 DEF Handled, q

(* A thread is suspended: by an exception, by itself, or by another thread *)
(* while it is not on the run queue or knows what is before it there.      *)
LEMMA SuspendHandled ==
  ASSUME NEW k, Entered(k), NEW t \in Thread,
         k.runqueue[t] => t = k.current_thread \/ PrevKnown(k, t)
  PROVE  Handled(suspend_thread(k, t, SUSPENDED))
<1> DEFINE r == suspend_thread(k, t, SUSPENDED)
<1>0. k \in KernelState /\ k.current_thread \in Thread /\ k.exec_mode \in [Thread -> ExecMode]
  BY EnteredFacts DEF KernelState
<1>1. /\ r \in KernelState /\ RunInv(r)
      /\ r.exec_mode = [k.exec_mode EXCEPT ![t] = @ \cup {SUSPENDED}]
      /\ SchedulerFrame(k, r) /\ EndpointFrame(k, r)
      /\ k.pending_context_switch \/ k.current_thread = t => r.pending_context_switch
  BY <1>0, SuspendThread DEF Entered, Handled
<1> HIDE DEF r
<1>2. CpuHeld(r)
  <2>1. k.current_thread # t => r.exec_mode[k.current_thread] = RUNNING
    BY <1>0, <1>1 DEF Entered
  <2> QED
    BY <1>1, <2>1 DEF Entered, Handled, CpuHeld, SchedulerFrame
<1>3. QueuesInv(r)
  BY <1>1, FramedQueues DEF Entered, Handled
<1>4. ModesInv(r)
  <2>1. \A u \in Thread : BLOCKED \in r.exec_mode[u] <=> BLOCKED \in k.exec_mode[u]
    BY <1>0, <1>1 DEF BLOCKED, SUSPENDED
  <2> QED
    BY <1>1, <2>1 DEF Entered, Handled, ModesInv, EndpointFrame
<1> QED
  BY <1>1, <1>2, <1>3, <1>4 DEF Handled, r

(* THREAD_RESUME lifts a suspension; a blocked thread stays blocked. *)
LEMMA ResumeHandled ==
  ASSUME NEW k, Entered(k), NEW t \in Thread
  PROVE  Handled(resume_thread(k, t, SUSPENDED))
<1> DEFINE r == resume_thread(k, t, SUSPENDED)
<1>0. k \in KernelState /\ k.current_thread \in Thread /\ k.exec_mode \in [Thread -> ExecMode]
  BY EnteredFacts DEF KernelState
<1>1. /\ r \in KernelState /\ RunInv(r)
      /\ r.exec_mode = [k.exec_mode EXCEPT ![t] = @ \ {SUSPENDED}]
      /\ SchedulerFrame(k, r) /\ EndpointFrame(k, r)
      /\ k.pending_context_switch => r.pending_context_switch
  BY <1>0, ResumeThread DEF Entered, Handled
<1> HIDE DEF r
<1>2. CpuHeld(r)
  <2>1. r.exec_mode[k.current_thread] = RUNNING
    BY <1>0, <1>1 DEF Entered, RUNNING
  <2> QED
    BY <1>1, <2>1 DEF Entered, Handled, CpuHeld, SchedulerFrame
<1>3. QueuesInv(r)
  BY <1>1, FramedQueues DEF Entered, Handled
<1>4. ModesInv(r)
  <2>1. \A u \in Thread : BLOCKED \in r.exec_mode[u] <=> BLOCKED \in k.exec_mode[u]
    BY <1>0, <1>1 DEF BLOCKED, SUSPENDED
  <2> QED
    BY <1>1, <2>1 DEF Entered, Handled, ModesInv, EndpointFrame
<1> QED
  BY <1>1, <1>2, <1>3, <1>4 DEF Handled, r

-----------------------------------------------------------------------------
(* The state at the entry of a trap: the caller runs, nothing is pending.  *)
LEMMA TrapEntry ==
  ASSUME IInv(K), current_thread # NULL
  PROVE  /\ Entered(K0)
         /\ K0.current_thread = current_thread
         /\ K0.runqueue = runqueue
         /\ K0.endpoints = endpoints
<1>0. K \in KernelState
  BY DEF IInv
<1>1. K0 \in KernelState
  BY <1>0 DEF K0, KernelState
<1>2. AllSchedulerFrame(K, K0)
  BY DEF K0, K, AllSchedulerFrame, SchedulerFrame, RunQueueFrame
<1>3. /\ K0.endpoints = K.endpoints
      /\ K0.blocked_sending = K.blocked_sending
      /\ K0.blocked_receiving = K.blocked_receiving
      /\ K0.blocked_queue = K.blocked_queue
      /\ K0.blocked_on = K.blocked_on
      /\ K0.message_buffer = K.message_buffer
      /\ K0.sending_badge = K.sending_badge
  BY DEF K0, K
<1>4. /\ K.current_thread = current_thread
      /\ K.runqueue = runqueue
      /\ K.endpoints = endpoints
  BY DEF K
<1>5. RunInv(K0)
  BY <1>2, FramedScheduler DEF IInv
<1>6. K0.exec_mode[K0.current_thread] = RUNNING /\ CpuHeld(K0)
  BY <1>2, <1>4 DEF IInv, CpuInv, CpuHeld, AllSchedulerFrame, SchedulerFrame
<1>7. QueuesInv(K0)
  BY <1>3 DEF IInv, QueuesInv
<1>8. ModesInv(K0)
  BY <1>2, <1>3 DEF IInv, ModesInv, AllSchedulerFrame
<1> QED
  BY <1>1, <1>2, <1>3, <1>4, <1>5, <1>6, <1>7, <1>8
  DEF Entered, Handled, AllSchedulerFrame, SchedulerFrame, RunQueueFrame

(* The state a trap ends in is the one its handlers computed. *)
LEMMA BecomeState ==
  ASSUME NEW k \in KernelState, Become(k)
  PROVE  K' = k
BY DEF Become, K, KernelState

(* Whatever handler a trap runs, the invariant holds again at its end. *)
LEMMA TrapInv ==
  ASSUME NEW k, Handled(k), NEW call, Trap(call, k)
  PROVE  IInv(K')
<1>1. IInv(try_context_switch(k))
  BY SwitchAfterHandler
<1>2. try_context_switch(k) \in KernelState
  BY <1>1 DEF IInv
<1>3. K' = try_context_switch(k)
  BY <1>2, BecomeState DEF Trap
<1> QED
  BY <1>1, <1>3

(* The root thread has just been loaded, every queue is empty. *)
LEMMA InitInv == Init => IInv(K)
<1> SUFFICES ASSUME Init PROVE IInv(K)
  OBVIOUS
<1>1. PICK root \in Thread :
        /\ exec_mode = [t \in Thread |-> IF t = root THEN RUNNING ELSE {SUSPENDED}]
        /\ runqueue = [t \in Thread |-> FALSE]
        /\ current_thread = root
        /\ currently_running = [t \in Thread |-> t = root]
        /\ saved = [t \in Thread |-> t # root]
        /\ cpu = root
  BY DEF Init
<1>2. /\ runqueue_entry = NoLinks(Thread)
      /\ priority_queue = LIST_INIT
      /\ pending_context_switch = FALSE
      /\ endpoints = {}
      /\ blocked_sending = [e \in Endpoint |-> LIST_INIT]
      /\ blocked_receiving = [e \in Endpoint |-> LIST_INIT]
      /\ blocked_queue = NoLinks(Thread)
      /\ blocked_on = [t \in Thread |-> NULL]
      /\ blocked_flags = [t \in Thread |-> {}]
      /\ sending_badge = [t \in Thread |-> NULL]
      /\ message_buffer = [t \in Thread |-> NULL]
      /\ delivery = NULL
      /\ slots = InitialSlots
  BY DEF Init
<1>3. NoLinks(Thread) \in LinkField(Thread) /\ LIST_INIT \in Container(Thread)
  BY DEF NoLinks, LinkField, LIST_INIT, Container
<1>4. K \in KernelState
  <2>1. exec_mode \in [Thread -> ExecMode]
    BY <1>1 DEF ExecMode, RUNNING
  <2>2. slots \in [Thread -> [Slot -> Capability \cup {NULL}]]
    BY <1>2, IpcAssumption
  <2>3. /\ runqueue \in [Thread -> BOOLEAN]
        /\ current_thread \in Thread \cup {NULL}
        /\ cpu \in Thread \cup {NULL}
    BY <1>1
  <2>4. currently_running \in [Thread -> BOOLEAN] /\ saved \in [Thread -> BOOLEAN]
    BY <1>1
  <2>5. /\ blocked_sending \in [Endpoint -> Container(Thread)]
        /\ blocked_receiving \in [Endpoint -> Container(Thread)]
        /\ blocked_on \in [Thread -> Endpoint \cup {NULL}]
        /\ blocked_flags \in [Thread -> SUBSET {"SEND", "RECEIVE"}]
        /\ sending_badge \in [Thread -> Badge \cup {NULL}]
        /\ message_buffer \in [Thread -> SendMessages \cup RecvMessages \cup {NULL}]
    BY <1>2, <1>3
  <2> QED
    BY <1>2, <1>3, <2>1, <2>2, <2>3, <2>4, <2>5 DEF K, KernelState
<1>5. RunInv(K)
  <2>1. Queued(K) = {}
    BY <1>1 DEF Queued, K
  <2>2. IsQueueOf(LIST_INIT, NoLinks(Thread).next, Thread, {})
    BY <1>3, ThreadAssumption, EmptyQueue DEF LinkField, LIST_INIT
  <2> QED
    BY <1>1, <1>2, <2>1, <2>2 DEF RunInv, RunQueueIs, K, RUNNING
<1>6. CpuInv(K)
  BY <1>1, <1>2, ThreadAssumption DEF CpuInv, K
<1>7. QueuesInv(K)
  BY <1>2 DEF QueuesInv, K
<1>8. ModesInv(K)
  BY <1>1, <1>2 DEF ModesInv, K, RUNNING, BLOCKED, SUSPENDED
<1> QED
  BY <1>4, <1>5, <1>6, <1>7, <1>8 DEF IInv

(* Who is suspended, on the run queue, knows what is before it there.      *)
LEMMA SuspendedKnown ==
  ASSUME "suspend_stale" \notin Calls, IInv(K), NEW t \in Thread, Suspend(t)
  PROVE  /\ Trap("suspend", suspend_thread(K0, t, SUSPENDED))
         /\ K0.runqueue[t] => PrevKnown(K0, t)
<1>1. RunnerKnown(t) /\ Trap("suspend", suspend_thread(K0, t, SUSPENDED))
  BY DEF Suspend, Trap
<1>2. /\ K.runqueue = runqueue /\ K.priority_queue = priority_queue
      /\ K.runqueue_entry = runqueue_entry
      /\ K0.runqueue = runqueue /\ K0.priority_queue = priority_queue
      /\ K0.runqueue_entry = runqueue_entry
  BY DEF K0, K
<1>3. Members(Thread, priority_queue.start, runqueue_entry.next) = Queued(K0)
  BY <1>2 DEF IInv, RunInv, RunQueueIs, IsQueueOf, Queued
<1> QED
  BY <1>1, <1>2, <1>3 DEF RunnerKnown, PrevKnown

(* No step leaves the invariant, unless LIST_REMOVE is used on a thread    *)
(* whose `prev` is wrong.                                                  *)
LEMMA NextInv ==
  ASSUME "suspend_stale" \notin Calls, IInv(K), [Next]_vars
  PROVE  IInv(K')
<1>0. current_thread # NULL =>
        /\ Entered(K0) /\ K0.current_thread = current_thread
        /\ K0.runqueue = runqueue /\ K0.endpoints = endpoints
        /\ current_thread \in Thread /\ endpoints \subseteq Endpoint
  <2> SUFFICES ASSUME current_thread # NULL
               PROVE  /\ Entered(K0) /\ K0.current_thread = current_thread
                      /\ K0.runqueue = runqueue /\ K0.endpoints = endpoints
                      /\ current_thread \in Thread /\ endpoints \subseteq Endpoint
    OBVIOUS
  <2>1. /\ Entered(K0) /\ K0.current_thread = current_thread
        /\ K0.runqueue = runqueue /\ K0.endpoints = endpoints
    BY TrapEntry
  <2>2. K0.current_thread \in Thread /\ K0.endpoints \in SUBSET Endpoint
    BY <2>1, EnteredFacts
  <2> QED
    BY <2>1, <2>2
<1>1. CASE Yield
  <2>1. Trap("yield", yield_thread(K0))
    BY <1>1 DEF Yield
  <2>2. current_thread # NULL
    BY <2>1 DEF Trap
  <2> QED
    BY <1>0, <2>1, <2>2, YieldThread, TrapInv
<1>2. CASE Exception
  <2>1. Trap("exception", suspend_thread(K0, current_thread, SUSPENDED))
    BY <1>2 DEF Exception
  <2>2. current_thread # NULL
    BY <2>1 DEF Trap
  <2>3. Handled(suspend_thread(K0, current_thread, SUSPENDED))
    BY <1>0, <2>2, SuspendHandled
  <2> QED
    BY <2>1, <2>3, TrapInv
<1>3. ASSUME NEW e \in Endpoint, NEW badge \in Badge, NEW m \in SendMessages,
             Send(e, badge, m)
      PROVE  IInv(K')
  <2>1. e \in endpoints /\ Trap("send", endpoint_send(K0, e, badge, m))
    BY <1>3 DEF Send
  <2>2. current_thread # NULL
    BY <2>1 DEF Trap
  <2>3. Handled(endpoint_send(K0, e, badge, m))
    BY <1>0, <2>1, <2>2, EndpointSend
  <2> QED
    BY <2>1, <2>3, TrapInv
<1>4. ASSUME NEW e \in Endpoint, NEW badge \in Badge, NEW m \in RecvMessages,
             Receive(e, badge, m)
      PROVE  IInv(K')
  <2>1. e \in endpoints /\ Trap("receive", endpoint_receive(K0, e, badge, m))
    BY <1>4 DEF Receive
  <2>2. current_thread # NULL
    BY <2>1 DEF Trap
  <2>3. Handled(endpoint_receive(K0, e, badge, m))
    BY <1>0, <2>1, <2>2, EndpointReceive
  <2> QED
    BY <2>1, <2>3, TrapInv
<1>5. ASSUME NEW t \in Thread, Resume(t)
      PROVE  IInv(K')
  <2>1. Trap("resume", resume_thread(K0, t, SUSPENDED))
    BY <1>5 DEF Resume
  <2>2. current_thread # NULL
    BY <2>1 DEF Trap
  <2>3. Handled(resume_thread(K0, t, SUSPENDED))
    BY <1>0, <2>2, ResumeHandled
  <2> QED
    BY <2>1, <2>3, TrapInv
<1>6. ASSUME NEW t \in Thread, Suspend(t)
      PROVE  IInv(K')
  <2>1. /\ Trap("suspend", suspend_thread(K0, t, SUSPENDED))
        /\ K0.runqueue[t] => PrevKnown(K0, t)
    BY <1>6, SuspendedKnown
  <2>2. current_thread # NULL
    BY <2>1 DEF Trap
  <2>3. Handled(suspend_thread(K0, t, SUSPENDED))
    BY <1>0, <2>1, <2>2, SuspendHandled
  <2> QED
    BY <2>1, <2>3, TrapInv
<1>7. ASSUME NEW e \in Endpoint, AllocEndpoint(e)
      PROVE  IInv(K')
  <2>1. e \notin endpoints /\ Trap("alloc_endpoint", alloc_endpoint(K0, e))
    BY <1>7 DEF AllocEndpoint
  <2>2. current_thread # NULL
    BY <2>1 DEF Trap
  <2>3. Handled(alloc_endpoint(K0, e))
    BY <1>0, <2>1, <2>2, NewEndpoint
  <2> QED
    BY <2>1, <2>3, TrapInv
<1>8. ASSUME NEW e \in Endpoint, DeleteEndpoint(e)
      PROVE  IInv(K')
  <2>1. e \in endpoints /\ Trap("delete_endpoint", endpoint_destructor(K0, e))
    BY <1>8 DEF DeleteEndpoint
  <2>2. current_thread # NULL
    BY <2>1 DEF Trap
  <2>3. Handled(endpoint_destructor(K0, e))
    BY <1>0, <2>1, <2>2, DestroyEndpoint
  <2> QED
    BY <2>1, <2>3, TrapInv
<1>9. CASE UNCHANGED vars
  <2>1. K' = K
    BY <1>9 DEF vars, schedulerVars, ipcVars, K
  <2> QED
    BY <2>1
<1> QED
  BY <1>1, <1>2, <1>3, <1>4, <1>5, <1>6, <1>7, <1>8, <1>9 DEF Next

(* The invariant, stated on the variables. *)
Inv == IInv(K)

(* The checked properties are parts of the invariant. *)
LEMMA InvImplies ==
  ASSUME Inv
  PROVE  TypeOK /\ RunqueueExact /\ BlockedExact /\ ProcessorOwned
<1>0. IInv(K)
  BY DEF Inv
<1>1. TypeOK
  BY <1>0 DEF IInv, TypeOK
<1>2. RunqueueExact
  BY <1>0 DEF IInv, RunInv, RunQueueIs, Queued, RunqueueExact, K
<1>3. BlockedExact
  <2>1. QueuesInv(K) /\ ModesInv(K)
    BY <1>0 DEF IInv
  <2>2. \A e \in endpoints : TwoQueues(blocked_sending, blocked_receiving, blocked_queue,
                                       blocked_on, e)
    BY <2>1 DEF QueuesInv, K
  <2>3. \A t \in Thread : /\ BLOCKED \in exec_mode[t] <=> blocked_on[t] # NULL
                          /\ blocked_on[t] \in endpoints \cup {NULL}
    BY <2>1 DEF ModesInv, K
  <2> QED
    BY <2>2, <2>3 DEF BlockedExact, TwoQueues, Waiting, Sending, Receiving
<1>4. ProcessorOwned
  BY <1>0 DEF IInv, CpuInv, ProcessorOwned, K
<1> QED
  BY <1>1, <1>2, <1>3, <1>4

-----------------------------------------------------------------------------
(* The inductive invariant holds in every reachable state, as long as no   *)
(* thread suspends another one that is waiting for the processor with a    *)
(* wrong `prev`.                                                           *)
THEOREM Invariance ==
  ASSUME "suspend_stale" \notin Calls
  PROVE  Spec => []Inv
<1>1. Init => Inv
  BY InitInv DEF Inv
<1>2. Inv /\ [Next]_vars => Inv'
  BY NextInv DEF Inv
<1> QED
  BY <1>1, <1>2, PTL DEF Spec

(* Every field of every kernel object keeps its type: no trap follows a    *)
(* NULL link or writes a thread where an endpoint belongs.                 *)
THEOREM TypeCorrect ==
  ASSUME "suspend_stale" \notin Calls
  PROVE  Spec => []TypeOK
<1>1. Inv => TypeOK
  BY InvImplies
<1> QED
  BY <1>1, Invariance, PTL

(* queue_thread, suspend_thread and try_context_switch keep the run queue  *)
(* exact, for any number of threads.                                       *)
THEOREM RunqueueCorrect ==
  ASSUME "suspend_stale" \notin Calls
  PROVE  Spec => []RunqueueExact
<1>1. Inv => RunqueueExact
  BY InvImplies
<1> QED
  BY <1>1, Invariance, PTL

(* endpoint_send, endpoint_receive and endpoint_destructor keep the queues *)
(* of every endpoint exact, for any number of endpoints and threads.       *)
THEOREM BlockedCorrect ==
  ASSUME "suspend_stale" \notin Calls
  PROVE  Spec => []BlockedExact
<1>1. Inv => BlockedExact
  BY InvImplies
<1> QED
  BY <1>1, Invariance, PTL

(* try_context_switch saves and loads register files so that no context is *)
(* lost or run twice, and idles only when no thread may run.               *)
THEOREM ProcessorCorrect ==
  ASSUME "suspend_stale" \notin Calls
  PROVE  Spec => []ProcessorOwned
<1>1. Inv => ProcessorOwned
  BY InvImplies
<1> QED
  BY <1>1, Invariance, PTL

-----------------------------------------------------------------------------
(***************************************************************************)
(* What messages do with the capabilities they carry, and with the flags   *)
(* of the threads that wait for them: OriginalsConserved, TransferReported *)
(* and FlagsNameQueue, on top of the invariant above.  Every trap of Ipc   *)
(* is classified once (TrapEffect) by what it does to slots, delivery and  *)
(* the queues; each property then looks at the classes only.               *)
(***************************************************************************)
SlotMap == [Thread -> [Slot -> Capability \cup {NULL}]]

(***************************************************************************)
(* One index of a message, written out: nothing happens, or the capability *)
(* of a filled slot of the sender is moved or copied to an empty slot of   *)
(* the receiver.                                                           *)
(***************************************************************************)
Moves(s, u, sending, receiving, source, dest) ==
  /\ u[receiving][dest] = s[sending][source]
  /\ u[sending][source] = NULL
  /\ \A t \in Thread, x \in Slot :
       <<t, x>> \notin {<<sending, source>>, <<receiving, dest>>} => u[t][x] = s[t][x]

Copies(s, u, sending, receiving, source, dest) ==
  /\ s[sending][source].resource \notin Node
  /\ u[receiving][dest] = CopyOf(s[sending][source])
  /\ \A t \in Thread, x \in Slot :
       <<t, x>> # <<receiving, dest>> => u[t][x] = s[t][x]

Transfers(s, u, sending, receiving) ==
  \E source \in Slot, dest \in Slot :
    /\ s[sending][source] # NULL
    /\ s[receiving][dest] = NULL
    /\ \/ Moves(s, u, sending, receiving, source, dest)
       \/ Copies(s, u, sending, receiving, source, dest)

(* The loop body of transfer_capabilities does one of those.               *)
LEMMA TransferCases ==
  ASSUME NEW r, IsTransfer(r), NEW sending \in Thread, NEW receiving \in Thread,
         NEW sent, NEW recv, NEW i \in IPC_CAPABILITY_SLOTS,
         sending # receiving
  PROVE  LET q == transfer_capability(r, sending, receiving, sent, recv, i)
         IN  \/ q = r
             \/ /\ Transfers(r.slots, q.slots, sending, receiving)
                /\ q.transferred = r.transferred \cup {i}
<1> DEFINE source == sent.capabilities[i]
           dest == recv.capabilities[i]
           cap == r.slots[sending][source]
           should_copy == i \in sent.to_copy
           moved == [r.slots EXCEPT ![sending][source] = NULL]
           refused == Refused(r, sending, receiving, source, dest, should_copy)
           q == transfer_capability(r, sending, receiving, sent, recv, i)
<1>1. CASE refused
  BY <1>1 DEF transfer_capability
<1>2. CASE ~refused
  <2>1. q = [slots |-> IF should_copy
                       THEN [r.slots EXCEPT ![receiving][dest] = CopyOf(cap)]
                       ELSE [moved EXCEPT ![receiving][dest] = cap],
             transferred |-> r.transferred \cup {i}]
    BY <1>2 DEF transfer_capability
  <2>2. /\ source \in Slot /\ dest \in Slot
        /\ r.slots[sending][source] # NULL
        /\ r.slots[receiving][dest] = NULL
        /\ should_copy => cap.resource \notin Node
    BY <1>2 DEF Refused
  <2>3. r.slots \in SlotMap
    BY DEF IsTransfer, SlotMap
  <2> HIDE DEF source, dest, should_copy
  <2>4. CASE should_copy
    <3>1. q.slots = [r.slots EXCEPT ![receiving][dest] = CopyOf(cap)]
      BY <2>1, <2>4
    <3>2. Copies(r.slots, q.slots, sending, receiving, source, dest)
      BY <2>2, <2>3, <2>4, <3>1 DEF Copies, SlotMap
    <3> QED
      BY <2>1, <2>2, <3>2 DEF Transfers
  <2>5. CASE ~should_copy
    <3>1. q.slots = [moved EXCEPT ![receiving][dest] = cap]
      BY <2>1, <2>5
    <3>2. /\ moved \in [Thread -> [Slot -> Capability \cup {NULL}]]
          /\ moved[sending][source] = NULL
          /\ \A t \in Thread, x \in Slot :
               <<t, x>> # <<sending, source>> => moved[t][x] = r.slots[t][x]
      BY <2>2, <2>3 DEF SlotMap
    <3> HIDE DEF moved, cap
    <3>3. /\ q.slots[receiving][dest] = cap
          /\ \A t \in Thread, x \in Slot :
               <<t, x>> # <<receiving, dest>> => q.slots[t][x] = moved[t][x]
      BY <2>2, <3>1, <3>2
    <3>4. Moves(r.slots, q.slots, sending, receiving, source, dest)
      BY <2>2, <3>2, <3>3 DEF Moves, cap
    <3> QED
      BY <2>1, <2>2, <3>4 DEF Transfers
  <2> QED
    BY <2>4, <2>5
<1> QED
  BY <1>1, <1>2

-----------------------------------------------------------------------------
(***************************************************************************)
(* Original capabilities, on a map of slots.                               *)
(***************************************************************************)
OriginalOf(r) == [resource |-> r, original |-> TRUE]
OriginalsIn(s, r) == {p \in Thread \X Slot : s[p[1]][p[2]] = OriginalOf(r)}

OneOriginal(s, r) == \E p \in OriginalsIn(s, r) : OriginalsIn(s, r) = {p}
NodeOriginal(s, r) == \A t \in Thread, x \in Slot :
                        s[t][x] # NULL /\ s[t][x].resource = r => s[t][x].original

Conserved(s) == \A r \in Resource : /\ OneOriginal(s, r)
                                    /\ r \in Node => NodeOriginal(s, r)

(* Moving a capability moves the only original, copying one adds none.     *)
LEMMA TransfersConserve ==
  ASSUME NEW s \in SlotMap, NEW u \in SlotMap, NEW sending \in Thread,
         NEW receiving \in Thread, sending # receiving,
         Transfers(s, u, sending, receiving), Conserved(s)
  PROVE  Conserved(u)
<1>1. PICK source \in Slot, dest \in Slot :
        /\ s[sending][source] # NULL
        /\ s[receiving][dest] = NULL
        /\ \/ Moves(s, u, sending, receiving, source, dest)
           \/ Copies(s, u, sending, receiving, source, dest)
  BY DEF Transfers
<1>2. SUFFICES ASSUME NEW r \in Resource
               PROVE  OneOriginal(u, r) /\ (r \in Node => NodeOriginal(u, r))
  BY DEF Conserved
<1>3. PICK p \in Thread \X Slot : OriginalsIn(s, r) = {p}
  BY DEF Conserved, OneOriginal, OriginalsIn
<1>4. OriginalOf(r) \in Capability /\ OriginalOf(r) # NULL
  BY IpcAssumption DEF OriginalOf, Capability
<1> DEFINE from == <<sending, source>>
           to == <<receiving, dest>>
           v(w) == s[w[1]][w[2]]
<1>5. /\ from \in Thread \X Slot /\ to \in Thread \X Slot /\ from # to
      /\ p \in Thread \X Slot
  OBVIOUS
<1>6. CASE Moves(s, u, sending, receiving, source, dest)
  <2>1. \A w \in Thread \X Slot : u[w[1]][w[2]] = IF w = to THEN v(from)
                                                  ELSE IF w = from THEN NULL ELSE v(w)
    BY <1>5, <1>6 DEF Moves
  <2>2. OriginalsIn(u, r) = IF p = from THEN {to} ELSE {p}
    BY <1>1, <1>3, <1>4, <1>5, <2>1 DEF OriginalsIn
  <2>3. OneOriginal(u, r)
    BY <2>2, <1>5 DEF OneOriginal
  <2>4. r \in Node => NodeOriginal(u, r)
    <3> SUFFICES ASSUME r \in Node, NEW t \in Thread, NEW x \in Slot,
                        u[t][x] # NULL, u[t][x].resource = r
                 PROVE  u[t][x].original
      BY DEF NodeOriginal
    <3>1. NodeOriginal(s, r)
      BY DEF Conserved
    <3>2. u[t][x] \in {s[t][x], s[sending][source]}
      BY <1>6 DEF Moves
    <3> QED
      BY <1>1, <3>1, <3>2 DEF NodeOriginal
  <2> QED
    BY <2>3, <2>4
<1>7. CASE Copies(s, u, sending, receiving, source, dest)
  <2>1. \A w \in Thread \X Slot : u[w[1]][w[2]] = IF w = to THEN CopyOf(v(from)) ELSE v(w)
    BY <1>5, <1>7 DEF Copies
  <2>2. CopyOf(v(from)) # OriginalOf(r)
    <3>1. CopyOf(v(from)).original = FALSE /\ OriginalOf(r).original = TRUE
      BY DEF CopyOf, OriginalOf
    <3> QED
      BY <3>1
  <2>3. v(to) = NULL
    BY <1>1
  <2>4. OriginalsIn(u, r) = OriginalsIn(s, r)
    BY <1>4, <1>5, <2>1, <2>2, <2>3 DEF OriginalsIn
  <2>5. OneOriginal(u, r)
    BY <2>4 DEF OneOriginal, Conserved
  <2>6. r \in Node => NodeOriginal(u, r)
    <3> SUFFICES ASSUME r \in Node, NEW t \in Thread, NEW x \in Slot,
                        u[t][x] # NULL, u[t][x].resource = r
                 PROVE  u[t][x].original
      BY DEF NodeOriginal
    <3>1. NodeOriginal(s, r)
      BY DEF Conserved
    <3>2. CopyOf(s[sending][source]).resource \notin Node
      BY <1>7 DEF Copies, CopyOf
    <3>3. u[t][x] = s[t][x] \/ u[t][x] = CopyOf(s[sending][source])
      BY <1>7 DEF Copies
    <3> QED
      BY <3>1, <3>2, <3>3 DEF NodeOriginal
  <2> QED
    BY <2>5, <2>6
<1> QED
  BY <1>1, <1>6, <1>7

-----------------------------------------------------------------------------
(***************************************************************************)
(* What transferred_capabilities reports: from slots s to slots u, as many *)
(* slots of the receiver were filled as there are indices in `reported`,   *)
(* the sender's were only emptied, and no others changed.                  *)
(***************************************************************************)
Filled(s, u, t) == {x \in Slot : s[t][x] = NULL /\ u[t][x] # NULL}

Reports(s, u, reported, sending, receiving) ==
  /\ IsFiniteSet(reported)
  /\ IsFiniteSet(Filled(s, u, receiving))
  /\ Cardinality(Filled(s, u, receiving)) = Cardinality(reported)
  /\ \A x \in Slot : u[receiving][x] # s[receiving][x] => s[receiving][x] = NULL
  /\ \A x \in Slot : u[sending][x] # s[sending][x] => u[sending][x] = NULL
  /\ \A t \in Thread \ {sending, receiving}, x \in Slot : u[t][x] = s[t][x]

(* Another index of the message fills one more slot and reports it.        *)
LEMMA TransfersReported ==
  ASSUME NEW s \in SlotMap, NEW u \in SlotMap, NEW z \in SlotMap,
         NEW sending \in Thread, NEW receiving \in Thread, sending # receiving,
         NEW reported, Reports(s, u, reported, sending, receiving),
         NEW i, i \notin reported, Transfers(u, z, sending, receiving)
  PROVE  Reports(s, z, reported \cup {i}, sending, receiving)
<1>1. PICK source \in Slot, dest \in Slot :
        /\ u[sending][source] # NULL
        /\ u[receiving][dest] = NULL
        /\ \/ Moves(u, z, sending, receiving, source, dest)
           \/ Copies(u, z, sending, receiving, source, dest)
  BY DEF Transfers
<1>2. z[receiving][dest] # NULL
  <2>1. u[sending][source] \in Capability
    BY <1>1 DEF SlotMap
  <2>2. CopyOf(u[sending][source]) \in Capability
    BY <2>1 DEF CopyOf, Capability
  <2> QED
    BY <1>1, <2>1, <2>2, IpcAssumption DEF Moves, Copies
<1>3. \A x \in Slot : x # dest => z[receiving][x] = u[receiving][x]
  BY <1>1 DEF Moves, Copies
<1>4. \A x \in Slot : z[sending][x] = u[sending][x] \/ z[sending][x] = NULL
  BY <1>1 DEF Moves, Copies
<1>5. \A t \in Thread \ {sending, receiving}, x \in Slot : z[t][x] = u[t][x]
  BY <1>1 DEF Moves, Copies
<1>6. s[receiving][dest] = NULL
  BY <1>1 DEF Reports
<1>7. /\ Filled(s, z, receiving) = Filled(s, u, receiving) \cup {dest}
      /\ dest \notin Filled(s, u, receiving)
  BY <1>1, <1>2, <1>3, <1>6 DEF Filled
<1>8. /\ IsFiniteSet(Filled(s, z, receiving))
      /\ Cardinality(Filled(s, z, receiving)) = Cardinality(Filled(s, u, receiving)) + 1
  BY <1>7, FS_AddElement DEF Reports
<1>9. /\ IsFiniteSet(reported \cup {i})
      /\ Cardinality(reported \cup {i}) = Cardinality(reported) + 1
  BY FS_AddElement DEF Reports
<1> QED
  BY <1>3, <1>4, <1>5, <1>6, <1>8, <1>9 DEF Reports

(* The state of the loop after the indices below n.                        *)
Below(n) == {i \in IPC_CAPABILITY_SLOTS : i < n}

Looped(s, r, n, sending, receiving) ==
  /\ IsTransfer(r)
  /\ r.transferred \subseteq Below(n)
  /\ Reports(s, r.slots, r.transferred, sending, receiving)
  /\ Conserved(s) => Conserved(r.slots)

(* One iteration of the loop.                                              *)
LEMMA LoopStep ==
  ASSUME NEW s \in SlotMap, NEW r, NEW sending \in Thread, NEW receiving \in Thread,
         sending # receiving, NEW sent, NEW recv, NEW n \in IPC_CAPABILITY_SLOTS,
         Looped(s, r, n, sending, receiving), NEW next, next = n + 1
  PROVE  Looped(s, transfer_capability(r, sending, receiving, sent, recv, n), next,
                sending, receiving)
<1> DEFINE q == transfer_capability(r, sending, receiving, sent, recv, n)
<1>1. IsTransfer(r) /\ IsTransfer(q)
  BY TransferStep DEF Looped
<1>2. \/ q = r
      \/ /\ Transfers(r.slots, q.slots, sending, receiving)
         /\ q.transferred = r.transferred \cup {n}
  BY <1>1, TransferCases
<1>3. /\ r.slots \in SlotMap /\ q.slots \in SlotMap
      /\ n \notin r.transferred
      /\ r.transferred \cup {n} \subseteq Below(next)
      /\ r.transferred \subseteq Below(next)
  BY <1>1 DEF Looped, Below, IsTransfer, SlotMap, IPC_CAPABILITY_SLOTS
<1>g. SUFFICES Looped(s, q, next, sending, receiving)
  OBVIOUS
<1> HIDE DEF q
<1>4. CASE q = r
  BY <1>1, <1>3, <1>4 DEF Looped
<1>5. CASE /\ Transfers(r.slots, q.slots, sending, receiving)
           /\ q.transferred = r.transferred \cup {n}
  <2>0. Reports(s, r.slots, r.transferred, sending, receiving)
    BY DEF Looped
  <2>1. Reports(s, q.slots, r.transferred \cup {n}, sending, receiving)
    BY <1>3, <1>5, <2>0, TransfersReported
  <2>2. Conserved(s) => Conserved(q.slots)
    BY <1>3, <1>5, TransfersConserve DEF Looped
  <2> QED
    BY <1>1, <1>3, <1>5, <2>1, <2>2 DEF Looped
<1> QED
  BY <1>2, <1>4, <1>5

(* transfer_capabilities keeps every original in one place and reports     *)
(* exactly the slots it filled, whatever the addresses in both messages.   *)
LEMMA TransferAll ==
  ASSUME NEW s \in SlotMap, NEW sending \in Thread, NEW receiving \in Thread,
         sending # receiving, NEW sent, NEW recv
  PROVE  LET r == transfer_capabilities(s, sending, receiving, sent, recv)
         IN  /\ Reports(s, r.slots, r.transferred, sending, receiving)
             /\ Conserved(s) => Conserved(r.slots)
<1> DEFINE Step(r, i) == transfer_capability(r, sending, receiving, sent, recv, i)
           L(r, n) == Looped(s, r, n, sending, receiving)
           r0 == [slots |-> s, transferred |-> {}]
           r1 == Step(r0, 0)
           r2 == Step(r1, 1)
           r3 == Step(r2, 2)
           r4 == Step(r3, 3)
<1>0. /\ 0 \in IPC_CAPABILITY_SLOTS /\ 1 \in IPC_CAPABILITY_SLOTS
      /\ 2 \in IPC_CAPABILITY_SLOTS /\ 3 \in IPC_CAPABILITY_SLOTS
      /\ 1 = 0 + 1 /\ 2 = 1 + 1 /\ 3 = 2 + 1 /\ 4 = 3 + 1
  BY DEF IPC_CAPABILITY_SLOTS
<1>1. Looped(s, r0, 0, sending, receiving)
  <2>1. Filled(s, s, receiving) = {}
    BY DEF Filled
  <2>2. Reports(s, s, {}, sending, receiving)
    BY <2>1, FS_EmptySet DEF Reports
  <2> QED
    BY <2>2 DEF Looped, IsTransfer, SlotMap
<1>2. Looped(s, r1, 1, sending, receiving)
  BY <1>0, <1>1, LoopStep
<1>3. Looped(s, r2, 2, sending, receiving)
  BY <1>0, <1>2, LoopStep
<1>4. Looped(s, r3, 3, sending, receiving)
  BY <1>0, <1>3, LoopStep
<1>5. Looped(s, r4, 4, sending, receiving)
  BY <1>0, <1>4, LoopStep
<1>6. transfer_capabilities(s, sending, receiving, sent, recv) = r4
  BY DEF transfer_capabilities
<1> HIDE DEF r4
<1> QED
  BY <1>5, <1>6 DEF Looped

-----------------------------------------------------------------------------
(***************************************************************************)
(* What a handler does to slots and delivery: nothing, or one transfer     *)
(* between two different threads.                                          *)
(***************************************************************************)
SlotEffect(k, q) ==
  \/ q.slots = k.slots /\ q.delivery = k.delivery
  \/ \E sending \in Thread, receiving \in Thread : \E sent, recv :
       sending # receiving /\ HandsOver(k, q, sending, receiving, sent, recv)

(***************************************************************************)
(* FlagsNameQueue is not inductive: a flag left over from an earlier wait  *)
(* would still be there in the next one.  The strengthening says that a    *)
(* thread in a queue has the flag of that queue and no other, and a thread *)
(* that does not wait has none.                                            *)
(***************************************************************************)
FlagsInv(k) ==
  /\ \A t \in Thread : k.blocked_on[t] = NULL => k.blocked_flags[t] = {}
  /\ \A e \in k.endpoints, t \in Thread :
       /\ t \in Senders(k, e) => k.blocked_flags[t] = {"SEND"}
       /\ t \in Receivers(k, e) => k.blocked_flags[t] = {"RECEIVE"}

(* A thread that waits is blocked on the endpoint it waits at.             *)
LEMMA WaitingOn ==
  ASSUME NEW k, QueuesInv(k), NEW e \in k.endpoints, NEW t \in Thread,
         t \in Senders(k, e) \cup Receivers(k, e)
  PROVE  k.blocked_on[t] = e
BY DEF QueuesInv, TwoQueues, Senders, Receivers

(* The caller takes the flag of the queue it joins, having had none.       *)
LEMMA BlocksFlags ==
  ASSUME NEW k, Entered(k), FlagsInv(k), NEW q, NEW e \in k.endpoints,
         NEW flag \in {"SEND", "RECEIVE"}, Blocks(k, q, e, flag)
  PROVE  FlagsInv(q)
<1> DEFINE t == k.current_thread
<1>0. /\ t \in Thread /\ k.blocked_on[t] = NULL
      /\ k.blocked_on \in [Thread -> Endpoint \cup {NULL}]
      /\ k.blocked_flags \in [Thread -> SUBSET {"SEND", "RECEIVE"}]
      /\ k.endpoints \in SUBSET Endpoint /\ NULL \notin Endpoint
      /\ QueuesInv(k)
  BY EnteredFacts, IpcAssumption DEF Entered, Handled
<1>1. k.blocked_flags[t] = {}
  BY <1>0 DEF FlagsInv
<1>2. \A d \in k.endpoints : t \notin Senders(k, d) /\ t \notin Receivers(k, d)
  BY <1>0, WaitingOn
<1>3. /\ q.endpoints = k.endpoints
      /\ \A u \in Thread : q.blocked_on[u] = IF u = t THEN e ELSE k.blocked_on[u]
      /\ \A u \in Thread : q.blocked_flags[u] = IF u = t THEN {flag} ELSE k.blocked_flags[u]
  BY <1>0, <1>1 DEF Blocks
<1>4. \A d \in k.endpoints, u \in Thread :
        /\ u \in Senders(q, d) => u \in Senders(k, d) \/ (u = t /\ flag = "SEND")
        /\ u \in Receivers(q, d) => u \in Receivers(k, d) \/ (u = t /\ flag = "RECEIVE")
  BY DEF Blocks
<1> QED
  BY <1>0, <1>2, <1>3, <1>4 DEF FlagsInv

(* A thread that is released loses the only flag it had.                   *)
LEMMA ReleasesFlags ==
  ASSUME NEW k, Entered(k), FlagsInv(k), NEW q, NEW e \in k.endpoints, NEW t \in Thread,
         NEW flag \in {"SEND", "RECEIVE"}, Releases(k, q, e, t, flag)
  PROVE  FlagsInv(q)
<1>0. /\ k.blocked_on \in [Thread -> Endpoint \cup {NULL}]
      /\ k.blocked_flags \in [Thread -> SUBSET {"SEND", "RECEIVE"}]
  BY EnteredFacts
<1>1. k.blocked_flags[t] = {flag}
  BY DEF FlagsInv, Releases
<1>2. /\ q.endpoints = k.endpoints
      /\ \A u \in Thread : q.blocked_on[u] = IF u = t THEN NULL ELSE k.blocked_on[u]
      /\ \A u \in Thread : q.blocked_flags[u] = IF u = t THEN {} ELSE k.blocked_flags[u]
  BY <1>0, <1>1 DEF Releases
<1>3. \A d \in k.endpoints : /\ Senders(q, d) = Senders(k, d) \ {t}
                             /\ Receivers(q, d) = Receivers(k, d) \ {t}
  BY DEF Releases
<1> QED
  BY <1>2, <1>3 DEF FlagsInv

(* The thread that is released is not the caller: it waited.               *)
LEMMA ReleasesOther ==
  ASSUME NEW k, Entered(k), NEW q, NEW e \in k.endpoints, NEW t \in Thread,
         NEW flag \in {"SEND", "RECEIVE"}, Releases(k, q, e, t, flag)
  PROVE  t # k.current_thread
<1>1. k.blocked_on[k.current_thread] = NULL /\ e # NULL
  BY EnteredFacts, IpcAssumption
<1>2. k.blocked_on[t] = e
  BY WaitingOn DEF Releases, Entered, Handled
<1> QED
  BY <1>1, <1>2

(* The handlers that leave the endpoints alone.                            *)
LEMMA FramedEffect ==
  ASSUME NEW k, NEW q, EndpointFrame(k, q)
  PROVE  SlotEffect(k, q) /\ (FlagsInv(k) => FlagsInv(q))
BY DEF EndpointFrame, SlotEffect, FlagsInv, Senders, Receivers

(* endpoint_send.                                                          *)
LEMMA SendEffect ==
  ASSUME NEW k, Entered(k), NEW e \in k.endpoints, NEW badge \in Badge,
         NEW m \in SendMessages
  PROVE  LET q == endpoint_send(k, e, badge, m)
         IN  SlotEffect(k, q) /\ (FlagsInv(k) => FlagsInv(q))
<1> DEFINE q == endpoint_send(k, e, badge, m)
<1>1. \/ Blocks(k, q, e, "SEND")
      \/ \E t \in Thread : Releases(k, q, e, t, "RECEIVE")
                             /\ \E recv : HandsOver(k, q, k.current_thread, t, m, recv)
  BY EndpointSend
<1> HIDE DEF q
<1>2. CASE Blocks(k, q, e, "SEND")
  <2>1. SlotEffect(k, q)
    BY <1>2 DEF Blocks, SlotEffect
  <2> QED
    BY <1>2, <2>1, BlocksFlags DEF q
<1>3. ASSUME NEW t \in Thread, Releases(k, q, e, t, "RECEIVE"),
             NEW recv, HandsOver(k, q, k.current_thread, t, m, recv)
      PROVE  SlotEffect(k, q) /\ (FlagsInv(k) => FlagsInv(q))
  <2>1. t # k.current_thread /\ k.current_thread \in Thread
    BY <1>3, ReleasesOther, EnteredFacts
  <2> QED
    BY <1>3, <2>1, ReleasesFlags DEF SlotEffect
<1> QED
  BY <1>1, <1>2, <1>3 DEF q

(* endpoint_receive.                                                       *)
LEMMA ReceiveEffect ==
  ASSUME NEW k, Entered(k), NEW e \in k.endpoints, NEW badge \in Badge,
         NEW m \in RecvMessages
  PROVE  LET q == endpoint_receive(k, e, badge, m)
         IN  SlotEffect(k, q) /\ (FlagsInv(k) => FlagsInv(q))
<1> DEFINE q == endpoint_receive(k, e, badge, m)
<1>1. \/ Blocks(k, q, e, "RECEIVE")
      \/ \E t \in Thread : Releases(k, q, e, t, "SEND")
                             /\ \E sent : HandsOver(k, q, t, k.current_thread, sent, m)
  BY EndpointReceive
<1> HIDE DEF q
<1>2. CASE Blocks(k, q, e, "RECEIVE")
  <2>1. SlotEffect(k, q)
    BY <1>2 DEF Blocks, SlotEffect
  <2> QED
    BY <1>2, <2>1, BlocksFlags DEF q
<1>3. ASSUME NEW t \in Thread, Releases(k, q, e, t, "SEND"),
             NEW sent, HandsOver(k, q, t, k.current_thread, sent, m)
      PROVE  SlotEffect(k, q) /\ (FlagsInv(k) => FlagsInv(q))
  <2>1. t # k.current_thread /\ k.current_thread \in Thread
    BY <1>3, ReleasesOther, EnteredFacts
  <2> QED
    BY <1>3, <2>1, ReleasesFlags DEF SlotEffect
<1> QED
  BY <1>1, <1>2, <1>3 DEF q

(* alloc_endpoint: nobody waits at the new endpoint.                       *)
LEMMA AllocEffect ==
  ASSUME NEW k, Entered(k), NEW e \in Endpoint, e \notin k.endpoints
  PROVE  LET q == alloc_endpoint(k, e)
         IN  SlotEffect(k, q) /\ (FlagsInv(k) => FlagsInv(q))
<1> DEFINE q == alloc_endpoint(k, e)
<1>0. /\ k \in KernelState
      /\ k.endpoints \in SUBSET Endpoint
      /\ k.blocked_sending \in [Endpoint -> Container(Thread)]
      /\ k.blocked_receiving \in [Endpoint -> Container(Thread)]
  BY EnteredFacts
<1>1. /\ q.slots = k.slots /\ q.delivery = k.delivery
      /\ q.blocked_on = k.blocked_on /\ q.blocked_flags = k.blocked_flags
      /\ q.endpoints = k.endpoints \cup {e}
      /\ q.blocked_queue = k.blocked_queue
      /\ q.blocked_sending = [k.blocked_sending EXCEPT ![e] = LIST_INIT]
      /\ q.blocked_receiving = [k.blocked_receiving EXCEPT ![e] = LIST_INIT]
  BY <1>0 DEF KernelState, alloc_endpoint
<1> HIDE DEF q
<1>2. \A d \in k.endpoints : Senders(q, d) = Senders(k, d) /\ Receivers(q, d) = Receivers(k, d)
  BY <1>0, <1>1 DEF Senders, Receivers, Waiting
<1>3. Senders(q, e) = {} /\ Receivers(q, e) = {}
  <2>1. Members(Thread, LIST_INIT.start, k.blocked_queue.next) = {}
    <3>1. k.blocked_queue.next \in [Thread -> Thread \cup {NULL}] /\ LIST_INIT.start = NULL
      BY EnteredFacts DEF LinkField, LIST_INIT
    <3> QED
      BY <3>1, EmptyQueue, ThreadAssumption
  <2> QED
    BY <1>0, <1>1, <2>1 DEF Senders, Receivers, Waiting
<1> QED
  BY <1>1, <1>2, <1>3 DEF SlotEffect, FlagsInv, q

(* endpoint_destructor keeps slots and delivery.                           *)
LEMMA DestroyEffect ==
  ASSUME NEW k, Entered(k), NEW e \in k.endpoints
  PROVE  SlotEffect(k, endpoint_destructor(k, e))
<1>1. k \in KernelState
  BY EnteredFacts
<1>2. /\ endpoint_destructor(k, e).slots = k.slots
      /\ endpoint_destructor(k, e).delivery = k.delivery
  BY <1>1 DEF KernelState, endpoint_destructor
<1> QED
  BY <1>2 DEF SlotEffect

-----------------------------------------------------------------------------
(* The context switch at the end of a trap leaves the endpoints alone.     *)
LEMMA TrapFrame ==
  ASSUME NEW k, Handled(k), NEW call, Trap(call, k)
  PROVE  EndpointFrame(k, K')
<1>1. try_context_switch(k) \in KernelState /\ EndpointFrame(k, try_context_switch(k))
  BY ContextSwitch DEF Handled
<1> QED
  BY <1>1, BecomeState DEF Trap

(* The effect of a trap is that of its handler.                            *)
LEMMA TrapEffect ==
  ASSUME NEW k, NEW q, Handled(q), NEW call, Trap(call, q), SlotEffect(k, q)
  PROVE  /\ SlotEffect(k, K')
         /\ FlagsInv(q) => FlagsInv(K')
<1>1. EndpointFrame(q, K')
  BY TrapFrame
<1>2. SlotEffect(k, K')
  BY <1>1 DEF SlotEffect, HandsOver, EndpointFrame
<1>3. FlagsInv(q) => FlagsInv(K')
  BY <1>1, FramedEffect
<1> QED
  BY <1>2, <1>3

(* Every step of Ipc, by its effect on slots, delivery and flags.          *)
LEMMA NextEffect ==
  ASSUME "suspend_stale" \notin Calls, IInv(K), Next
  PROVE  /\ SlotEffect(K0, K')
         /\ "delete_endpoint" \notin Calls /\ FlagsInv(K0) => FlagsInv(K')
<1> DEFINE Goal == /\ SlotEffect(K0, K')
                   /\ "delete_endpoint" \notin Calls /\ FlagsInv(K0) => FlagsInv(K')
           Effect(q) == SlotEffect(K0, q) /\ (FlagsInv(K0) => FlagsInv(q))
<1>a. ASSUME NEW call, NEW q, Trap(call, q), Handled(q), Effect(q)
      PROVE  Goal
  BY <1>a, TrapEffect
<1>b. current_thread # NULL
  BY DEF Next, Yield, Exception, Send, Receive, Resume, Suspend, AllocEndpoint,
         DeleteEndpoint, Trap
<1>0. /\ Entered(K0) /\ K0.current_thread = current_thread
      /\ K0.runqueue = runqueue /\ K0.endpoints = endpoints
  BY <1>b, TrapEntry
<1>c. /\ K0 \in KernelState /\ current_thread \in Thread /\ RunInv(K0)
      /\ runqueue[current_thread] => current_thread = K0.current_thread
  BY <1>0, EnteredFacts DEF Entered, Handled
<1>1. CASE Yield
  <2> DEFINE q == yield_thread(K0)
  <2>1. Handled(q)
    BY <1>0, YieldThread
  <2>2. EndpointFrame(K0, q)
    BY <1>c DEF yield_thread, KernelState, EndpointFrame
  <2> QED
    BY <1>1, <1>a, <2>1, <2>2, FramedEffect DEF Yield
<1>2. CASE Exception
  <2> DEFINE q == suspend_thread(K0, current_thread, SUSPENDED)
  <2>1. Handled(q)
    BY <1>0, <1>c, SuspendHandled
  <2>2. EndpointFrame(K0, q)
    BY <1>0, <1>c, SuspendThread
  <2> QED
    BY <1>2, <1>a, <2>1, <2>2, FramedEffect DEF Exception
<1>3. ASSUME NEW e \in Endpoint, NEW badge \in Badge, NEW m \in SendMessages,
             Send(e, badge, m)
      PROVE  Goal
  <2> DEFINE q == endpoint_send(K0, e, badge, m)
  <2>1. e \in K0.endpoints /\ Trap("send", q)
    BY <1>0, <1>3 DEF Send
  <2>2. Handled(q)
    BY <1>0, <2>1, EndpointSend
  <2>3. Effect(q)
    BY <1>0, <2>1, SendEffect
  <2> QED
    BY <1>a, <2>1, <2>2, <2>3
<1>4. ASSUME NEW e \in Endpoint, NEW badge \in Badge, NEW m \in RecvMessages,
             Receive(e, badge, m)
      PROVE  Goal
  <2> DEFINE q == endpoint_receive(K0, e, badge, m)
  <2>1. e \in K0.endpoints /\ Trap("receive", q)
    BY <1>0, <1>4 DEF Receive
  <2>2. Handled(q)
    BY <1>0, <2>1, EndpointReceive
  <2>3. Effect(q)
    BY <1>0, <2>1, ReceiveEffect
  <2> QED
    BY <1>a, <2>1, <2>2, <2>3
<1>5. ASSUME NEW t \in Thread, Resume(t)
      PROVE  Goal
  <2> DEFINE q == resume_thread(K0, t, SUSPENDED)
  <2>1. Handled(q)
    BY <1>0, ResumeHandled
  <2>2. EndpointFrame(K0, q)
    BY <1>c, ResumeThread
  <2> QED
    BY <1>5, <1>a, <2>1, <2>2, FramedEffect DEF Resume
<1>6. ASSUME NEW t \in Thread, Suspend(t)
      PROVE  Goal
  <2> DEFINE q == suspend_thread(K0, t, SUSPENDED)
  <2>0. Trap("suspend", q) /\ (K0.runqueue[t] => PrevKnown(K0, t))
    BY <1>6, SuspendedKnown
  <2>1. Handled(q)
    BY <1>0, <2>0, SuspendHandled
  <2>2. EndpointFrame(K0, q)
    BY <1>c, <2>0, SuspendThread
  <2> QED
    BY <1>a, <2>0, <2>1, <2>2, FramedEffect
<1>7. ASSUME NEW e \in Endpoint, AllocEndpoint(e)
      PROVE  Goal
  <2> DEFINE q == alloc_endpoint(K0, e)
  <2>1. e \notin K0.endpoints /\ Trap("alloc_endpoint", q)
    BY <1>0, <1>7 DEF AllocEndpoint
  <2>2. Handled(q)
    BY <1>0, <2>1, NewEndpoint
  <2>3. Effect(q)
    BY <1>0, <2>1, AllocEffect
  <2> QED
    BY <1>a, <2>1, <2>2, <2>3
<1>8. ASSUME NEW e \in Endpoint, DeleteEndpoint(e)
      PROVE  Goal
  <2> DEFINE q == endpoint_destructor(K0, e)
  <2>1. e \in K0.endpoints /\ Trap("delete_endpoint", q)
    BY <1>0, <1>8 DEF DeleteEndpoint
  <2>2. Handled(q)
    BY <1>0, <2>1, DestroyEndpoint
  <2>3. SlotEffect(K0, q)
    BY <1>0, <2>1, DestroyEffect
  <2>4. "delete_endpoint" \in Calls
    BY <2>1 DEF Trap
  <2> QED
    BY <2>1, <2>2, <2>3, <2>4, TrapEffect
<1> QED
  BY <1>1, <1>2, <1>3, <1>4, <1>5, <1>6, <1>7, <1>8 DEF Next

(* A trap starts with the slots, flags and queues the last one left.       *)
LEMMA TrapStart ==
  ASSUME IInv(K)
  PROVE  /\ K0.slots = slots /\ K0.delivery = NULL
         /\ FlagsInv(K) => FlagsInv(K0)
         /\ slots \in SlotMap
<1>0. K \in KernelState
  BY DEF IInv
<1>1. /\ K0.slots = slots /\ K0.delivery = NULL
      /\ K0.endpoints = K.endpoints
      /\ K0.blocked_sending = K.blocked_sending
      /\ K0.blocked_receiving = K.blocked_receiving
      /\ K0.blocked_queue = K.blocked_queue
      /\ K0.blocked_on = K.blocked_on /\ K0.blocked_flags = K.blocked_flags
  BY DEF K0, K
<1>2. slots \in SlotMap
  BY <1>0 DEF K, KernelState, SlotMap
<1> QED
  BY <1>1, <1>2 DEF FlagsInv, Senders, Receivers

-----------------------------------------------------------------------------
(* The THREAD_BLOCKED_ON_* flags name the queue a thread waits in, as long *)
(* as no endpoint is destroyed while threads wait at it: nothing clears    *)
(* the flags of those.                                                     *)
THEOREM FlagsCorrect ==
  ASSUME "suspend_stale" \notin Calls, "delete_endpoint" \notin Calls
  PROVE  Spec => []FlagsNameQueue
<1>1. Init => FlagsInv(K)
  BY DEF Init, K, FlagsInv
<1>2. Inv /\ FlagsInv(K) /\ [Next]_vars => FlagsInv(K)'
  <2> SUFFICES ASSUME Inv, FlagsInv(K), [Next]_vars PROVE FlagsInv(K')
    OBVIOUS
  <2>1. CASE Next
    BY <2>1, NextEffect, TrapStart DEF Inv
  <2>2. CASE UNCHANGED vars
    <3>1. K' = K
      BY <2>2 DEF vars, schedulerVars, ipcVars, K
    <3> QED
      BY <3>1
  <2> QED
    BY <2>1, <2>2
<1>3. FlagsInv(K) => FlagsNameQueue
  BY DEF FlagsInv, FlagsNameQueue, K, Senders, Receivers, Waiting, Sending, Receiving
<1> QED
  BY <1>1, <1>2, <1>3, Invariance, PTL DEF Spec

(* Messages neither lose nor duplicate the original capability to any      *)
(* resource, and never copy a node, if that is so when the system starts:  *)
(* for any messages, any number of slots and any calls but one.            *)
THEOREM OriginalsCorrect ==
  ASSUME "suspend_stale" \notin Calls, Conserved(InitialSlots)
  PROVE  Spec => []OriginalsConserved
<1>1. Conserved(slots) <=> OriginalsConserved
  BY DEF Conserved, OriginalsConserved, OneOriginal, NodeOriginal, Originals,
         OriginalsIn, OriginalOf
<1>2. Init => OriginalsConserved
  BY <1>1 DEF Init
<1>3. Inv /\ OriginalsConserved /\ [Next]_vars => OriginalsConserved'
  <2> SUFFICES ASSUME Inv, Conserved(slots), [Next]_vars PROVE Conserved(slots')
    BY <1>1 DEF Conserved, OriginalsConserved, OneOriginal, NodeOriginal, Originals,
                OriginalsIn, OriginalOf
  <2>1. CASE Next
    <3>1. SlotEffect(K0, K') /\ K0.slots = slots /\ slots \in SlotMap /\ K'.slots = slots'
      BY <2>1, NextEffect, TrapStart DEF Inv, K
    <3> QED
      BY <3>1, TransferAll DEF SlotEffect, HandsOver
  <2>2. CASE UNCHANGED vars
    BY <2>2 DEF vars, ipcVars
  <2> QED
    BY <2>1, <2>2
<1> QED
  BY <1>2, <1>3, Invariance, PTL DEF Spec

(* A trap fills slots of the thread it delivers to and of no other, as     *)
(* many as transferred_capabilities reports, and empties only slots of the *)
(* sender.                                                                 *)
THEOREM TransferCorrect ==
  ASSUME "suspend_stale" \notin Calls
  PROVE  Spec => TransferReported
<1> DEFINE filled(t)  == {s \in Slot : slots[t][s] = NULL /\ slots'[t][s] # NULL}
           emptied(t) == {s \in Slot : slots[t][s] # NULL /\ slots'[t][s] = NULL}
           changed(t) == {s \in Slot : slots[t][s] # slots'[t][s]}
           Reported == \A t \in Thread :
                         /\ changed(t) = filled(t) \cup emptied(t)
                         /\ filled(t) = {} \/ emptied(t) = {}
                         /\ Cardinality(filled(t)) =
                              IF delivery' # NULL /\ delivery'.to = t
                              THEN Cardinality(delivery'.transferred) ELSE 0
<1>1. Inv /\ [Next]_vars => [Reported]_vars
  <2> SUFFICES ASSUME Inv, Next, NEW t \in Thread
               PROVE  /\ changed(t) = filled(t) \cup emptied(t)
                      /\ filled(t) = {} \/ emptied(t) = {}
                      /\ Cardinality(filled(t)) =
                           IF delivery' # NULL /\ delivery'.to = t
                           THEN Cardinality(delivery'.transferred) ELSE 0
    OBVIOUS
  <2>0. /\ SlotEffect(K0, K') /\ K0.slots = slots /\ K0.delivery = NULL
        /\ slots \in SlotMap /\ K'.slots = slots' /\ K'.delivery = delivery'
    BY NextEffect, TrapStart DEF Inv, K
  <2>1. CASE slots' = slots /\ delivery' = NULL
    BY <2>1, FS_EmptySet
  <2>2. ASSUME NEW sending \in Thread, NEW receiving \in Thread, NEW sent, NEW recv,
               sending # receiving, HandsOver(K0, K', sending, receiving, sent, recv)
        PROVE  /\ changed(t) = filled(t) \cup emptied(t)
               /\ filled(t) = {} \/ emptied(t) = {}
               /\ Cardinality(filled(t)) =
                    IF delivery' # NULL /\ delivery'.to = t
                    THEN Cardinality(delivery'.transferred) ELSE 0
    <3> DEFINE r == transfer_capabilities(slots, sending, receiving, sent, recv)
    <3>1. Reports(slots, r.slots, r.transferred, sending, receiving)
      BY <2>0, <2>2, TransferAll
    <3>2. /\ slots' = r.slots
          /\ delivery' # NULL
          /\ delivery'.to = receiving /\ delivery'.transferred = r.transferred
      BY <2>0, <2>2, DeliveryAssumption DEF HandsOver
    <3>3. Reports(slots, slots', delivery'.transferred, sending, receiving)
      BY <3>1, <3>2
    <3> HIDE DEF r
    <3>4. filled(t) = Filled(slots, slots', t)
      BY DEF Filled
    <3>5. CASE t = receiving
      <4>1. emptied(t) = {}
        BY <3>3, <3>5 DEF Reports
      <4>2. changed(t) = filled(t)
        BY <3>3, <3>5 DEF Reports
      <4>3. Cardinality(filled(t)) = Cardinality(delivery'.transferred)
        BY <3>3, <3>4, <3>5 DEF Reports
      <4> QED
        BY <3>2, <3>5, <4>1, <4>2, <4>3
    <3>6. CASE t = sending
      <4>1. filled(t) = {} /\ changed(t) = emptied(t)
        BY <3>3, <3>6 DEF Reports
      <4> QED
        BY <2>2, <3>2, <3>6, <4>1, FS_EmptySet
    <3>7. CASE t \notin {sending, receiving}
      <4>1. filled(t) = {} /\ changed(t) = {} /\ emptied(t) = {}
        BY <3>3, <3>7 DEF Reports
      <4> QED
        BY <3>2, <3>7, <4>1, FS_EmptySet
    <3> QED
      BY <3>5, <3>6, <3>7
  <2> QED
    BY <2>0, <2>1, <2>2 DEF SlotEffect
<1>2. Spec => [][Reported]_vars
  BY <1>1, Invariance, PTL DEF Spec
<1> QED
  BY <1>2, PTL DEF TransferReported

-----------------------------------------------------------------------------
(* The refinement: queues as sequences.                                    *)

(***************************************************************************)
(* q is what LIST_ITER visits, in order, in the list with container c.     *)
(***************************************************************************)
Lists(q, Item, c, next) ==
  /\ q \in Seq(Item)
  /\ c.start = NULL <=> Len(q) = 0
  /\ c.end = NULL <=> Len(q) = 0
  /\ Len(q) # 0 => q[1] = c.start /\ q[Len(q)] = c.end /\ next[c.end] = NULL
  /\ \A i \in 1..Len(q) : i # Len(q) => next[q[i]] = q[i + 1]
  /\ \A i, j \in 1..Len(q) : q[i] = q[j] => i = j

(* A queue has such a sequence: the set of all items at the end of a path  *)
(* from the first is closed under `next`, so the last item is one of them. *)
LEMMA QueueHasSequence ==
  ASSUME NEW Item, NULL \notin Item, NEW c \in Container(Item),
         NEW next \in [Item -> Item \cup {NULL}], NEW M, IsQueueOf(c, next, Item, M)
  PROVE  \E q : Lists(q, Item, c, next)
<1>0. /\ c.start \in Item \cup {NULL} /\ c.end \in Item \cup {NULL}
      /\ M = Members(Item, c.start, next)
  BY DEF Container, IsQueueOf
<1>1. /\ ClosedFrom(M, c.start, next) /\ M \subseteq Item
      /\ \A S \in SUBSET Item : ClosedFrom(S, c.start, next) => M \subseteq S
  BY <1>0, MembersLeast
<1>2. CASE M = {}
  <2>1. c.start = NULL /\ c.end = NULL
    BY <1>2 DEF IsQueueOf
  <2>2. Lists(<<>>, Item, c, next)
    BY <2>1 DEF Lists
  <2> QED
    BY <2>2
<1>3. CASE M # {}
  <2>1. /\ c.start \in Item /\ c.end \in M /\ next[c.end] = NULL /\ c.start # NULL /\ c.end # NULL
        /\ \A i \in M : next[i] # c.start
        /\ \A i, j \in M : next[i] = next[j] /\ next[i] # NULL => i = j
    BY <1>0, <1>3 DEF IsQueueOf
  <2> DEFINE Path(q, n) == /\ q \in [1..n -> M] /\ q[1] = c.start
                           /\ \A i \in 1..n : i # n => next[q[i]] = q[i + 1]
             S == {x \in Item : \E n \in Nat \ {0} : \E q : Path(q, n) /\ q[n] = x}
  <2>2. c.start \in S
    <3>1. c.start \in M
      BY <1>1, <2>1 DEF ClosedFrom
    <3>2. Path([i \in 1..1 |-> c.start], 1)
      BY <3>1
    <3>3. [i \in 1..1 |-> c.start][1] = c.start
      OBVIOUS
    <3> HIDE DEF Path
    <3> QED
      BY <2>1, <3>2, <3>3
  <2>3. ASSUME NEW x \in S, next[x] # NULL
        PROVE  next[x] \in S
    <3>1. PICK n \in Nat \ {0} : \E q : Path(q, n) /\ q[n] = x
      OBVIOUS
    <3>2. PICK q : Path(q, n) /\ q[n] = x
      BY <3>1
    <3>3. x \in M /\ next[x] \in M /\ next[x] \in Item
      BY <1>1, <2>3, <3>2 DEF ClosedFrom
    <3> DEFINE p == [i \in 1..n + 1 |-> IF i = n + 1 THEN next[x] ELSE q[i]]
    <3>4. Path(p, n + 1)
      <4>1. p \in [1..n + 1 -> M] /\ p[1] = c.start
        BY <3>2, <3>3
      <4>2. ASSUME NEW i \in 1..n + 1, i # n + 1
            PROVE  next[p[i]] = p[i + 1]
        BY <3>2, <4>2
      <4> QED
        BY <4>1, <4>2
    <3>5. p[n + 1] = next[x]
      OBVIOUS
    <3> HIDE DEF Path, p
    <3> QED
      BY <3>3, <3>4, <3>5
  <2>4. ClosedFrom(S, c.start, next) /\ S \in SUBSET Item
    BY <2>2, <2>3 DEF ClosedFrom
  <2>5. c.end \in S
    BY <1>1, <2>1, <2>4
  <2>6. PICK n \in Nat \ {0} : \E q : Path(q, n) /\ q[n] = c.end
    BY <2>5
  <2>7. PICK q : Path(q, n) /\ q[n] = c.end
    BY <2>6
  <2>8. q \in Seq(Item) /\ Len(q) = n
    BY <1>1, <2>7
  <2>9. \A i, j \in 1..n : q[i] = q[j] => i = j
    <3> DEFINE Bad == {i \in 1..n : \E j \in 1..n : i < j /\ q[i] = q[j]}
    <3>1. SUFFICES ASSUME Bad # {} PROVE FALSE
      BY <2>6
    <3>a. Bad \in SUBSET Nat
      OBVIOUS
    <3>2. PICK i \in Bad : \A k \in Bad : i <= k
      <4> HIDE DEF Bad
      <4> QED
        BY <3>1, <3>a, LeastNat
    <3>3. PICK j \in 1..n : i < j /\ q[i] = q[j]
      OBVIOUS
    <3>4. i \in 1..n /\ j - 1 \in 1..n /\ next[q[j - 1]] = q[j] /\ q[j - 1] \in M /\ q[j] \in Item
      BY <1>1, <2>6, <2>7, <3>3
    <3>5. i # 1
      BY <2>1, <2>7, <3>3, <3>4
    <3>6. i - 1 \in 1..n /\ next[q[i - 1]] = q[i] /\ q[i - 1] \in M
      BY <2>6, <2>7, <3>4, <3>5
    <3>7. q[i - 1] = q[j - 1]
      BY <2>1, <3>3, <3>4, <3>6
    <3>8. i - 1 \in Bad
      BY <3>3, <3>4, <3>6, <3>7
    <3> QED
      BY <3>2, <3>4, <3>8
  <2>10. Lists(q, Item, c, next)
    BY <2>1, <2>6, <2>7, <2>8, <2>9 DEF Lists
  <2> QED
    BY <2>10
<1> QED
  BY <1>2, <1>3

(* LIST_ITER visits the items of the sequence and no others.               *)
LEMMA ListsMembers ==
  ASSUME NEW Item, NULL \notin Item, NEW c \in Container(Item),
         NEW next \in [Item -> Item \cup {NULL}], NEW q, Lists(q, Item, c, next)
  PROVE  Members(Item, c.start, next) = {q[i] : i \in 1..Len(q)}
<1> DEFINE M == Members(Item, c.start, next)
           R == {q[i] : i \in 1..Len(q)}
<1>0. /\ c.start \in Item \cup {NULL} /\ q \in Seq(Item) /\ Len(q) \in Nat
      /\ c.start # NULL => 1 \in 1..Len(q) /\ q[1] = c.start
      /\ \A i \in 1..Len(q) : q[i] \in Item
  BY DEF Container, Lists
<1>1. /\ ClosedFrom(M, c.start, next)
      /\ \A S \in SUBSET Item : ClosedFrom(S, c.start, next) => M \subseteq S
  BY <1>0, MembersLeast
<1>2. M \subseteq R
  <2>1. R \in SUBSET Item
    BY <1>0
  <2>2. c.start # NULL => c.start \in R
    BY <1>0
  <2>3. ASSUME NEW x \in R, next[x] # NULL
        PROVE  next[x] \in R
    <3>1. PICK i \in 1..Len(q) : x = q[i]
      OBVIOUS
    <3>2. i # Len(q)
      BY <1>0, <2>3, <3>1 DEF Lists
    <3>3. next[x] = q[i + 1] /\ i + 1 \in 1..Len(q)
      BY <1>0, <3>1, <3>2 DEF Lists
    <3> QED
      BY <3>3
  <2> QED
    BY <1>1, <2>1, <2>2, <2>3 DEF ClosedFrom
<1>3. R \subseteq M
  <2> DEFINE Bad == {i \in 1..Len(q) : q[i] \notin M}
  <2>1. SUFFICES ASSUME Bad # {} PROVE FALSE
    OBVIOUS
  <2>a. Bad \in SUBSET Nat
    BY <1>0, <2>1
  <2>2. PICK i \in Bad : \A k \in Bad : i <= k
    <3> HIDE DEF Bad
    <3> QED
      BY <2>1, <2>a, LeastNat
  <2>3. i # 1
    BY <1>0, <1>1 DEF ClosedFrom, Lists
  <2>4. i - 1 \in 1..Len(q) /\ i - 1 \notin Bad
    BY <1>0, <2>2, <2>3
  <2>5. next[q[i - 1]] = q[i] /\ q[i] # NULL
    BY <1>0, <2>4 DEF Lists
  <2> QED
    BY <1>1, <2>4, <2>5 DEF ClosedFrom
<1> QED
  BY <1>2, <1>3

(* The refinement mapping reads off the sequence.                          *)
LEMMA QueueOfIs ==
  ASSUME NULL \notin Thread, NEW c \in Container(Thread),
         NEW next \in [Thread -> Thread \cup {NULL}], NEW q, Lists(q, Thread, c, next)
  PROVE  QueueOf(c, next) = q
<1> DEFINE n == Cardinality(Members(Thread, c.start, next))
           at[i \in 1..n] == IF i = 1 THEN c.start ELSE next[at[i - 1]]
           Follows(f) == f = [i \in 1..n |-> IF i = 1 THEN c.start ELSE next[f[i - 1]]]
<1>0. q \in Seq(Thread) /\ Len(q) \in Nat /\ q \in [1..Len(q) -> Thread]
  BY DEF Lists
<1>1. n = Len(q)
  <2> DEFINE R == {q[i] : i \in 1..Len(q)}
  <2>1. q \in [1..Len(q) -> R]
    BY <1>0
  <2>2. q \in Bijection(1..Len(q), R)
    <3>1. \A i, j \in 1..Len(q) : q[i] = q[j] => i = j
      BY DEF Lists
    <3>2. \A x \in R : \E i \in 1..Len(q) : q[i] = x
      OBVIOUS
    <3> HIDE DEF R
    <3> QED
      BY <2>1, <3>1, <3>2, Fun_IsInj, Fun_IsSurj DEF Bijection
  <2>3. Cardinality(R) = Len(q)
    BY <1>0, <2>2, FS_CountingElements DEF ExistsBijection
  <2>4. Members(Thread, c.start, next) = R
    BY ListsMembers
  <2> QED
    BY <2>3, <2>4
<1>2. QueueOf(c, next) = at
  BY DEF QueueOf
<1>3. at = CHOOSE f : Follows(f)
  OBVIOUS
<1>4. Follows(q)
  <2>1. ASSUME NEW i \in 1..Len(q)
        PROVE  q[i] = IF i = 1 THEN c.start ELSE next[q[i - 1]]
    <3>1. CASE i = 1
      <4>1. Len(q) # 0
        BY <1>0
      <4> QED
        BY <3>1, <4>1 DEF Lists
    <3>2. CASE i # 1
      <4>1. i - 1 \in 1..Len(q) /\ i - 1 # Len(q) /\ (i - 1) + 1 = i
        BY <1>0, <3>2
      <4>2. next[q[i - 1]] = q[(i - 1) + 1]
        BY <4>1 DEF Lists
      <4> QED
        BY <3>2, <4>1, <4>2
    <3> QED
      BY <3>1, <3>2
  <2> HIDE DEF n
  <2> QED
    BY <1>0, <1>1, <2>1
<1>5. Follows(at)
  BY <1>3, <1>4
<1> HIDE DEF at, n
<1>7. at = [i \in 1..n |-> at[i]] /\ q = [i \in 1..n |-> q[i]]
  BY <1>0, <1>1, <1>5
<1>8. \A i \in 1..n : at[i] = q[i]
  <2> DEFINE Bad == {i \in 1..n : at[i] # q[i]}
  <2>1. SUFFICES ASSUME Bad # {} PROVE FALSE
    OBVIOUS
  <2>a. Bad \in SUBSET Nat
    BY <1>0, <1>1, <2>1
  <2>2. PICK i \in Bad : \A k \in Bad : i <= k
    <3> HIDE DEF Bad
    <3> QED
      BY <2>1, <2>a, LeastNat
  <2>3. /\ at[i] = IF i = 1 THEN c.start ELSE next[at[i - 1]]
        /\ q[i] = IF i = 1 THEN c.start ELSE next[q[i - 1]]
    BY <1>4, <1>5
  <2>4. i # 1
    BY <2>3
  <2>5. i - 1 \in 1..n /\ i - 1 \notin Bad
    BY <1>0, <1>1, <2>2, <2>4
  <2> QED
    BY <2>3, <2>4, <2>5
<1> QED
  BY <1>2, <1>7, <1>8

(* A queue is the sequence that the refinement mapping reads off.          *)
LEMMA QueueSequence ==
  ASSUME NULL \notin Thread, NEW c \in Container(Thread),
         NEW next \in [Thread -> Thread \cup {NULL}], NEW M, IsQueueOf(c, next, Thread, M)
  PROVE  /\ Lists(QueueOf(c, next), Thread, c, next)
         /\ M = {QueueOf(c, next)[i] : i \in 1..Len(QueueOf(c, next))}
<1>1. PICK q : Lists(q, Thread, c, next)
  BY QueueHasSequence
<1>2. QueueOf(c, next) = q
  BY <1>1, QueueOfIs
<1>3. Members(Thread, c.start, next) = {q[i] : i \in 1..Len(q)}
  BY <1>1, ListsMembers
<1>4. M = Members(Thread, c.start, next)
  BY DEF IsQueueOf
<1> QED
  BY <1>1, <1>2, <1>3, <1>4

(* It is the same while no `next` of its items is written.                 *)
LEMMA SequenceFrame ==
  ASSUME NULL \notin Thread, NEW c \in Container(Thread),
         NEW f \in [Thread -> Thread \cup {NULL}], NEW g \in [Thread -> Thread \cup {NULL}],
         NEW M, IsQueueOf(c, f, Thread, M), \A i \in M : g[i] = f[i]
  PROVE  QueueOf(c, g) = QueueOf(c, f)
<1> DEFINE q == QueueOf(c, f)
<1>1. Lists(q, Thread, c, f) /\ M = {q[i] : i \in 1..Len(q)}
  BY QueueSequence
<1> HIDE DEF q
<1>2. Len(q) \in Nat /\ \A i \in 1..Len(q) : g[q[i]] = f[q[i]]
  BY <1>1 DEF Lists
<1>3. Len(q) # 0 => g[c.end] = f[c.end]
  BY <1>1, <1>2 DEF Lists
<1>4. Lists(q, Thread, c, g)
  BY <1>1, <1>2, <1>3 DEF Lists
<1> QED
  BY <1>4, QueueOfIs DEF q

(* LIST_APPEND appends to it.                                              *)
LEMMA SequenceAppend ==
  ASSUME NULL \notin Thread, NEW c \in Container(Thread), NEW f \in LinkField(Thread),
         NEW M, IsQueueOf(c, f.next, Thread, M), NEW t \in Thread, t \notin M
  PROVE  LET l == LIST_APPEND(c, f, t)
         IN  QueueOf(l.container, l.field.next) = Append(QueueOf(c, f.next), t)
<1> DEFINE l == LIST_APPEND(c, f, t)
           q == QueueOf(c, f.next)
           p == Append(q, t)
<1>0. f.next \in [Thread -> Thread \cup {NULL}] /\ c.end \in Thread \cup {NULL}
  BY DEF LinkField, Container
<1>1. Lists(q, Thread, c, f.next) /\ M = {q[i] : i \in 1..Len(q)}
  BY <1>0, QueueSequence
<1> HIDE DEF q
<1>2. /\ q \in Seq(Thread) /\ Len(q) \in Nat /\ \A i \in 1..Len(q) : q[i] \in Thread /\ q[i] # t
      /\ c.start = NULL <=> Len(q) = 0
      /\ c.end = NULL <=> Len(q) = 0
      /\ Len(q) # 0 => q[1] = c.start /\ q[Len(q)] = c.end
  BY <1>1 DEF Lists
<1>3. /\ p \in Seq(Thread) /\ Len(p) = Len(q) + 1 /\ p[Len(p)] = t
      /\ \A i \in 1..Len(q) : p[i] = q[i]
  BY <1>2
<1> HIDE DEF p
<1>4. /\ l.container.end = t
      /\ l.container.start = IF c.end = NULL THEN t ELSE c.start
      /\ l.field.next = IF c.end = NULL THEN [f.next EXCEPT ![t] = NULL]
                        ELSE [f.next EXCEPT ![c.end] = t, ![t] = NULL]
  BY DEF LIST_APPEND
<1>5. l.container \in Container(Thread) /\ l.field.next \in [Thread -> Thread \cup {NULL}]
  BY <1>0, AppendQueue DEF LinkField
<1> HIDE DEF l
<1>6. /\ l.field.next[t] = NULL
      /\ \A i \in 1..Len(q) : i # Len(q) => l.field.next[q[i]] = q[i + 1]
      /\ Len(q) # 0 => l.field.next[q[Len(q)]] = t
  <2>1. l.field.next[t] = NULL
    BY <1>0, <1>4
  <2>2. Len(q) # 0 => l.field.next[q[Len(q)]] = t
    BY <1>0, <1>2, <1>4
  <2>3. ASSUME NEW i \in 1..Len(q), i # Len(q)
        PROVE  l.field.next[q[i]] = q[i + 1]
    <3>1. f.next[q[i]] = q[i + 1]
      BY <1>1, <2>3 DEF Lists
    <3>2. q[i] # q[Len(q)] /\ Len(q) # 0 /\ Len(q) \in 1..Len(q)
      BY <1>1, <1>2, <2>3 DEF Lists
    <3> QED
      BY <1>0, <1>2, <1>4, <3>1, <3>2
  <2> QED
    BY <2>1, <2>2, <2>3
<1>7. \A i \in 1..Len(p) : i # Len(p) => l.field.next[p[i]] = p[i + 1]
  <2> SUFFICES ASSUME NEW i \in 1..Len(p), i # Len(p) PROVE l.field.next[p[i]] = p[i + 1]
    OBVIOUS
  <2>1. i \in 1..Len(q) /\ p[i] = q[i] /\ Len(q) # 0
    BY <1>2, <1>3
  <2>2. CASE i = Len(q)
    BY <1>3, <1>6, <2>1, <2>2
  <2>3. CASE i # Len(q)
    <3>1. i + 1 \in 1..Len(q)
      BY <1>2, <2>1, <2>3
    <3> QED
      BY <1>3, <1>6, <2>1, <2>3, <3>1
  <2> QED
    BY <2>2, <2>3
<1>8. \A i, j \in 1..Len(p) : p[i] = p[j] => i = j
  <2> SUFFICES ASSUME NEW i \in 1..Len(p), NEW j \in 1..Len(p), p[i] = p[j] PROVE i = j
    OBVIOUS
  <2>1. \A h \in 1..Len(p) : h # Len(p) => h \in 1..Len(q)
    BY <1>2, <1>3
  <2>2. \A g, h \in 1..Len(q) : q[g] = q[h] => g = h
    BY <1>1 DEF Lists
  <2> QED
    BY <1>2, <1>3, <2>1, <2>2
<1>9. Len(p) # 0 /\ p[1] = l.container.start
  <2>1. CASE Len(q) = 0
    BY <1>2, <1>3, <1>4, <2>1
  <2>2. CASE Len(q) # 0
    <3>1. 1 \in 1..Len(q)
      BY <1>2, <2>2
    <3> QED
      BY <1>2, <1>3, <1>4, <2>2, <3>1
  <2> QED
    BY <1>2, <1>3, <2>1, <2>2
<1>10. l.container.start # NULL /\ l.container.end # NULL
  BY <1>2, <1>4
<1>11. Lists(p, Thread, l.container, l.field.next)
  BY <1>3, <1>4, <1>6, <1>7, <1>8, <1>9, <1>10 DEF Lists
<1>12. QueueOf(l.container, l.field.next) = p
  BY <1>5, <1>11, QueueOfIs
<1> QED
  BY <1>12 DEF l, p, q

(* LIST_POP_FROM_START takes its head off.                                 *)
LEMMA SequencePop ==
  ASSUME NULL \notin Thread, NEW c \in Container(Thread), NEW f \in LinkField(Thread),
         NEW M, IsQueueOf(c, f.next, Thread, M), LIST_CAN_POP(c)
  PROVE  LET l == LIST_POP_FROM_START(c, f)
         IN  /\ QueueOf(c, f.next) # <<>>
             /\ Head(QueueOf(c, f.next)) = c.start
             /\ QueueOf(l.container, l.field.next) = Tail(QueueOf(c, f.next))
<1> DEFINE l == LIST_POP_FROM_START(c, f)
           q == QueueOf(c, f.next)
           p == Tail(q)
<1>0. f.next \in [Thread -> Thread \cup {NULL}] /\ c.start \in Thread /\ c.end \in Thread \cup {NULL}
  BY DEF LinkField, Container, LIST_CAN_POP
<1>1. Lists(q, Thread, c, f.next)
  BY <1>0, QueueSequence
<1> HIDE DEF q
<1>2. /\ q \in Seq(Thread) /\ Len(q) \in Nat \ {0} /\ \A i \in 1..Len(q) : q[i] \in Thread
      /\ q[1] = c.start /\ q[Len(q)] = c.end /\ f.next[c.end] = NULL
      /\ \A i \in 1..Len(q) : i # Len(q) => f.next[q[i]] = q[i + 1]
      /\ \A i, j \in 1..Len(q) : q[i] = q[j] => i = j
      /\ c.end # NULL
  BY <1>0, <1>1 DEF Lists
<1>3. q # <<>> /\ Head(q) = c.start
  BY <1>2
<1>4. /\ p \in Seq(Thread) /\ Len(p) = Len(q) - 1
      /\ \A i \in 1..Len(p) : p[i] = q[i + 1]
  BY <1>2, <1>3
<1> HIDE DEF p
<1>5. /\ l.container.start = f.next[c.start]
      /\ l.container.end = IF f.next[c.start] = NULL THEN NULL ELSE c.end
      /\ l.field.next = [f.next EXCEPT ![c.start] = NULL]
  BY DEF LIST_POP_FROM_START
<1>6. l.container \in Container(Thread) /\ l.field.next \in [Thread -> Thread \cup {NULL}]
  BY <1>0, <1>5, PopQueue DEF LinkField, LIST_CAN_POP
<1> HIDE DEF l
<1>7. \A i \in 1..Len(p) : l.field.next[p[i]] = f.next[p[i]] /\ i + 1 \in 1..Len(q) /\ i + 1 # 1
  <2> SUFFICES ASSUME NEW i \in 1..Len(p)
               PROVE  l.field.next[p[i]] = f.next[p[i]] /\ i + 1 \in 1..Len(q) /\ i + 1 # 1
    OBVIOUS
  <2>1. i + 1 \in 1..Len(q) /\ i + 1 # 1 /\ 1 \in 1..Len(q) /\ p[i] = q[i + 1]
    BY <1>2, <1>4
  <2>2. q[i + 1] # q[1]
    BY <1>2, <2>1
  <2> QED
    BY <1>0, <1>2, <1>5, <2>1, <2>2
<1>8. ASSUME Len(p) = 0
      PROVE  Lists(p, Thread, l.container, l.field.next)
  <2>a. Len(q) = 1
    BY <1>2, <1>4, <1>8
  <2>1. c.start = c.end
    BY <1>2, <2>a
  <2>2. l.container.start = NULL /\ l.container.end = NULL
    BY <1>2, <1>5, <2>1
  <2> QED
    <3>1. \A i \in 1..Len(p) : FALSE
      BY <1>8
    <3> QED
      BY <1>4, <1>8, <2>2, <3>1 DEF Lists
<1>9. ASSUME Len(p) # 0
      PROVE  Lists(p, Thread, l.container, l.field.next)
  <2>1. 1 \in 1..Len(q) /\ 1 # Len(q) /\ 1 \in 1..Len(p) /\ p[1] = q[2] /\ Len(p) \in 1..Len(p)
    BY <1>2, <1>4, <1>9
  <2>2. l.container.start = p[1] /\ p[1] \in Thread
    BY <1>2, <1>4, <1>5, <2>1
  <2>3. l.container.end = c.end /\ p[Len(p)] = c.end /\ l.field.next[c.end] = NULL
    BY <1>2, <1>4, <1>5, <1>7, <2>1, <2>2
  <2>4. ASSUME NEW i \in 1..Len(p), i # Len(p)
        PROVE  l.field.next[p[i]] = p[i + 1]
    <3>1. i + 1 \in 1..Len(p) /\ i + 1 # Len(q) /\ i + 1 \in 1..Len(q)
      BY <1>2, <1>4, <2>4
    <3>2. p[i] = q[i + 1] /\ p[i + 1] = q[(i + 1) + 1]
      BY <1>4, <3>1
    <3>3. f.next[q[i + 1]] = q[(i + 1) + 1]
      BY <1>2, <3>1
    <3> QED
      BY <1>7, <3>2, <3>3
  <2>5. \A i, j \in 1..Len(p) : p[i] = p[j] => i = j
    <3> SUFFICES ASSUME NEW i \in 1..Len(p), NEW j \in 1..Len(p), p[i] = p[j] PROVE i = j
      OBVIOUS
    <3>1. i + 1 = j + 1
      BY <1>2, <1>4, <1>7
    <3> QED
      BY <3>1
  <2> QED
    BY <1>2, <1>4, <1>9, <2>2, <2>3, <2>4, <2>5 DEF Lists
<1>10. Lists(p, Thread, l.container, l.field.next)
  BY <1>8, <1>9
<1>11. QueueOf(l.container, l.field.next) = p
  BY <1>6, <1>10, QueueOfIs
<1> QED
  BY <1>3, <1>11 DEF l, p, q

(* An empty container is the empty sequence.                               *)
LEMMA SequenceEmpty ==
  ASSUME NULL \notin Thread, NEW next \in [Thread -> Thread \cup {NULL}]
  PROVE  QueueOf(LIST_INIT, next) = <<>>
<1>1. Lists(<<>>, Thread, LIST_INIT, next) /\ LIST_INIT \in Container(Thread)
  BY DEF Lists, LIST_INIT, Container
<1> QED
  BY <1>1, QueueOfIs

(* One queue is that sequence, whichever container it is read from.        *)
QueuesOf(A, f) == [d \in Endpoint |-> QueueOf(A[d], f.next)]

(***************************************************************************)
(* The containers of an endpoint that does not exist are empty.            *)
(***************************************************************************)
Unused(A, B, E) == \A d \in Endpoint \ E : A[d] = LIST_INIT /\ B[d] = LIST_INIT

(* What the sequence of queue A[d] is.                                     *)
SequenceTyped(q, A, f, on, E, d) ==
  /\ q \in Seq(Thread)
  /\ \A i \in 1..Len(q) : on[q[i]] = d
  /\ d \in E => \A i \in 1..Len(q) : q[i] \in Waiting(A, f, d)
  /\ q = <<>> <=> ~LIST_CAN_POP(A[d])

(* The sequences of queue A[e] and of all others when a thread joins.      *)
SequenceJoined(A, B, f, e, t) ==
  LET l == LIST_APPEND(A[e], f, t)
      a == [A EXCEPT ![e] = l.container]
  IN  /\ QueuesOf(a, l.field) = [QueuesOf(A, f) EXCEPT ![e] = Append(@, t)]
      /\ QueuesOf(B, l.field) = QueuesOf(B, f)

SequenceLeft(A, B, f, e) ==
  LET l == LIST_POP_FROM_START(A[e], f)
      a == [A EXCEPT ![e] = l.container]
  IN  /\ QueuesOf(A, f)[e] # <<>> /\ Head(QueuesOf(A, f)[e]) = A[e].start
      /\ QueuesOf(a, l.field) = [QueuesOf(A, f) EXCEPT ![e] = Tail(@)]
      /\ QueuesOf(B, l.field) = QueuesOf(B, f)

(* The sequences of two queues, and the threads in them.                   *)
LEMMA SequenceTypes ==
  ASSUME NEW A \in [Endpoint -> Container(Thread)], NEW B \in [Endpoint -> Container(Thread)],
         NEW f \in LinkField(Thread), NEW on \in [Thread -> Endpoint \cup {NULL}],
         NEW E \in SUBSET Endpoint, \A d \in E : TwoQueues(A, B, f, on, d),
         Unused(A, B, E), NEW d \in Endpoint
  PROVE  SequenceTyped(QueuesOf(A, f)[d], A, f, on, E, d)
<1> DEFINE q == QueueOf(A[d], f.next)
<1>a. QueuesOf(A, f)[d] = q
  BY DEF QueuesOf
<1>0. /\ NULL \notin Thread /\ A[d] \in Container(Thread)
      /\ f.next \in [Thread -> Thread \cup {NULL}]
  BY ThreadAssumption DEF LinkField
<1>1. CASE d \in E
  <2>1. IsQueueOf(A[d], f.next, Thread, Waiting(A, f, d))
    BY <1>1 DEF TwoQueues
  <2>2. Lists(q, Thread, A[d], f.next) /\ Waiting(A, f, d) = {q[i] : i \in 1..Len(q)}
    BY <1>0, <2>1, QueueSequence
  <2> HIDE DEF q
  <2>3. q \in Seq(Thread) /\ (q = <<>> <=> Len(q) = 0) /\ (A[d].start = NULL <=> Len(q) = 0)
    BY <2>2 DEF Lists
  <2>4. \A i \in 1..Len(q) : q[i] \in Waiting(A, f, d) /\ on[q[i]] = d
    BY <1>1, <2>2 DEF TwoQueues
  <2> QED
    BY <1>a, <2>3, <2>4 DEF LIST_CAN_POP, SequenceTyped
<1>2. CASE d \notin E
  <2>1. A[d] = LIST_INIT /\ q = <<>>
    BY <1>0, <1>2, SequenceEmpty DEF Unused
  <2>2. Len(q) = 0 /\ q \in Seq(Thread)
    BY <2>1
  <2> QED
    BY <1>a, <1>2, <2>1, <2>2 DEF LIST_CAN_POP, LIST_INIT, SequenceTyped
<1> QED
  BY <1>1, <1>2

(* A thread that joins queue A[e] comes last in it, and in no other.       *)
LEMMA SequenceJoin ==
  ASSUME NEW A \in [Endpoint -> Container(Thread)], NEW B \in [Endpoint -> Container(Thread)],
         NEW f \in LinkField(Thread), NEW on \in [Thread -> Endpoint \cup {NULL}],
         NEW E \in SUBSET Endpoint, \A d \in E : TwoQueues(A, B, f, on, d),
         Unused(A, B, E), NEW e \in E, NEW t \in Thread, on[t] = NULL
  PROVE  SequenceJoined(A, B, f, e, t)
<1> DEFINE c == A[e]
           l == LIST_APPEND(c, f, t)
           a == [A EXCEPT ![e] = l.container]
           M == Waiting(A, f, e)
<1>0. /\ NULL \notin Thread /\ e \in Endpoint /\ NULL \notin Endpoint
      /\ c \in Container(Thread)
      /\ IsQueueOf(c, f.next, Thread, M)
      /\ t \notin M
      /\ f.next \in [Thread -> Thread \cup {NULL}]
  BY ThreadAssumption, IpcAssumption DEF TwoQueues, LinkField
<1>1. QueueOf(l.container, l.field.next) = Append(QueueOf(c, f.next), t)
  BY <1>0, SequenceAppend
<1>2. l.field \in LinkField(Thread) /\ l.container \in Container(Thread)
  BY <1>0, AppendQueue
<1>3. \A i \in Thread : i \notin M /\ i # t => l.field.next[i] = f.next[i]
  <2>1. c.end # NULL => c.end \in M
    BY <1>0 DEF IsQueueOf
  <2> QED
    BY <1>0, <2>1 DEF LIST_APPEND
<1> HIDE DEF l
<1>4. l.field.next \in [Thread -> Thread \cup {NULL}]
  BY <1>2 DEF LinkField
<1>5. ASSUME NEW C \in Container(Thread), NEW N, IsQueueOf(C, f.next, Thread, N),
             N \subseteq Thread, M \cap N = {}, t \notin N
      PROVE  QueueOf(C, l.field.next) = QueueOf(C, f.next)
  BY <1>0, <1>3, <1>4, <1>5, SequenceFrame
<1>6. QueueOf(LIST_INIT, l.field.next) = QueueOf(LIST_INIT, f.next)
  BY <1>0, <1>4, SequenceEmpty
<1>7. \A d \in E : /\ Waiting(A, f, d) \subseteq Thread /\ t \notin Waiting(A, f, d)
                   /\ Waiting(B, f, d) \subseteq Thread /\ t \notin Waiting(B, f, d)
                   /\ M \cap Waiting(B, f, d) = {}
                   /\ d # e => M \cap Waiting(A, f, d) = {}
  BY <1>0 DEF TwoQueues, M
<1>8. /\ a[e] = l.container
      /\ \A d \in Endpoint : d # e => a[d] = A[d]
  BY <1>0
<1> HIDE DEF a, M
<1>9. ASSUME NEW d \in Endpoint
      PROVE  QueueOf(B[d], l.field.next) = QueueOf(B[d], f.next)
  <2>1. CASE d \in E
    BY <1>5, <1>7, <2>1 DEF TwoQueues
  <2>2. CASE d \notin E
    BY <1>6, <2>2 DEF Unused
  <2> QED
    BY <2>1, <2>2
<1>10. ASSUME NEW d \in Endpoint, d # e
       PROVE  QueueOf(a[d], l.field.next) = QueueOf(A[d], f.next)
  <2>1. CASE d \in E
    BY <1>5, <1>7, <1>8, <1>10, <2>1 DEF TwoQueues
  <2>2. CASE d \notin E
    BY <1>6, <1>8, <1>10, <2>2 DEF Unused
  <2> QED
    BY <2>1, <2>2
<1>11. QueuesOf(B, l.field) = QueuesOf(B, f)
  BY <1>9 DEF QueuesOf
<1>12. QueuesOf(a, l.field) = [QueuesOf(A, f) EXCEPT ![e] = Append(@, t)]
  BY <1>0, <1>1, <1>8, <1>10, Zenon DEF QueuesOf
<1> QED
  BY <1>11, <1>12 DEF l, a, SequenceJoined

(* The thread that leaves queue A[e] came first in it.                     *)
LEMMA SequenceLeave ==
  ASSUME NEW A \in [Endpoint -> Container(Thread)], NEW B \in [Endpoint -> Container(Thread)],
         NEW f \in LinkField(Thread), NEW on \in [Thread -> Endpoint \cup {NULL}],
         NEW E \in SUBSET Endpoint, \A d \in E : TwoQueues(A, B, f, on, d),
         Unused(A, B, E), NEW e \in E, LIST_CAN_POP(A[e])
  PROVE  SequenceLeft(A, B, f, e)
<1> DEFINE c == A[e]
           l == LIST_POP_FROM_START(c, f)
           a == [A EXCEPT ![e] = l.container]
           M == Waiting(A, f, e)
<1>0. /\ NULL \notin Thread /\ e \in Endpoint
      /\ c \in Container(Thread)
      /\ IsQueueOf(c, f.next, Thread, M)
      /\ f.next \in [Thread -> Thread \cup {NULL}]
  BY ThreadAssumption DEF TwoQueues, LinkField
<1>1. /\ QueueOf(c, f.next) # <<>> /\ Head(QueueOf(c, f.next)) = c.start
      /\ QueueOf(l.container, l.field.next) = Tail(QueueOf(c, f.next))
  BY <1>0, SequencePop
<1>2. l.field \in LinkField(Thread) /\ l.container \in Container(Thread) /\ c.start \in M
  BY <1>0, PopQueue
<1>3. \A i \in Thread : i \notin M => l.field.next[i] = f.next[i]
  BY <1>0, <1>2 DEF LIST_POP_FROM_START
<1> HIDE DEF l
<1>4. l.field.next \in [Thread -> Thread \cup {NULL}]
  BY <1>2 DEF LinkField
<1>5. ASSUME NEW C \in Container(Thread), NEW N, IsQueueOf(C, f.next, Thread, N),
             N \subseteq Thread, M \cap N = {}
      PROVE  QueueOf(C, l.field.next) = QueueOf(C, f.next)
  BY <1>0, <1>3, <1>4, <1>5, SequenceFrame
<1>6. QueueOf(LIST_INIT, l.field.next) = QueueOf(LIST_INIT, f.next)
  BY <1>0, <1>4, SequenceEmpty
<1>7. \A d \in E : /\ Waiting(A, f, d) \subseteq Thread
                   /\ Waiting(B, f, d) \subseteq Thread
                   /\ M \cap Waiting(B, f, d) = {}
                   /\ d # e => M \cap Waiting(A, f, d) = {}
  BY <1>0 DEF TwoQueues, M
<1>8. /\ a[e] = l.container
      /\ \A d \in Endpoint : d # e => a[d] = A[d]
  BY <1>0
<1> HIDE DEF a, M
<1>9. ASSUME NEW d \in Endpoint
      PROVE  QueueOf(B[d], l.field.next) = QueueOf(B[d], f.next)
  <2>1. CASE d \in E
    BY <1>5, <1>7, <2>1 DEF TwoQueues
  <2>2. CASE d \notin E
    BY <1>6, <2>2 DEF Unused
  <2> QED
    BY <2>1, <2>2
<1>10. ASSUME NEW d \in Endpoint, d # e
       PROVE  QueueOf(a[d], l.field.next) = QueueOf(A[d], f.next)
  <2>1. CASE d \in E
    BY <1>5, <1>7, <1>8, <1>10, <2>1 DEF TwoQueues
  <2>2. CASE d \notin E
    BY <1>6, <1>8, <1>10, <2>2 DEF Unused
  <2> QED
    BY <2>1, <2>2
<1>11. QueuesOf(B, l.field) = QueuesOf(B, f)
  BY <1>9 DEF QueuesOf
<1>12. QueuesOf(a, l.field) = [QueuesOf(A, f) EXCEPT ![e] = Tail(@)]
  BY <1>0, <1>1, <1>8, <1>10, Zenon DEF QueuesOf
<1>13. QueuesOf(A, f)[e] = QueueOf(c, f.next)
  BY <1>0 DEF QueuesOf
<1> QED
  BY <1>1, <1>11, <1>12, <1>13 DEF l, a, c, SequenceLeft

-----------------------------------------------------------------------------
(* The messages waiting in a queue of senders.                             *)

(* The messages that the threads of q wait to send.                        *)
LettersFrom(q, badges, messages) ==
  [i \in DOMAIN q |-> [from |-> q[i], badge |-> badges[q[i]],
                       buffer |-> messages[q[i]].buffer]]

Sendable == {m.buffer : m \in SendMessages}

LettersSent == [from : Thread, badge : Badge, buffer : Sendable]

AreLetters(p, q, badges, messages) ==
  /\ p \in Seq(LettersSent) /\ Len(p) = Len(q)
  /\ \A i \in 1..Len(q) :
       p[i] = [from |-> q[i], badge |-> badges[q[i]], buffer |-> messages[q[i]].buffer]
  /\ p = <<>> <=> q = <<>>

(* What becomes of them when thread t joins, or the first one leaves.      *)
LettersJoined(q, t, badges, messages, badge, m) ==
  LettersFrom(Append(q, t), [badges EXCEPT ![t] = badge], [messages EXCEPT ![t] = m])
    = Append(LettersFrom(q, badges, messages),
             [from |-> t, badge |-> badge, buffer |-> m.buffer])

LettersLeft(q, badges, messages) ==
  LET p == LettersFrom(q, badges, messages)
  IN  /\ p # <<>>
      /\ Head(p) = [from |-> Head(q), badge |-> badges[Head(q)],
                    buffer |-> messages[Head(q)].buffer]
      /\ LettersFrom(Tail(q), badges, messages) = Tail(p)

(* They are letters, as many and in the same order.                        *)
LEMMA LettersTypes ==
  ASSUME NEW q \in Seq(Thread), NEW badges, NEW messages,
         \A i \in 1..Len(q) : badges[q[i]] \in Badge /\ messages[q[i]] \in SendMessages
  PROVE  AreLetters(LettersFrom(q, badges, messages), q, badges, messages)
<1> DEFINE p == LettersFrom(q, badges, messages)
<1>1. Len(q) \in Nat /\ DOMAIN q = 1..Len(q) /\ \A i \in 1..Len(q) : q[i] \in Thread
  OBVIOUS
<1>2. p = [i \in 1..Len(q) |-> [from |-> q[i], badge |-> badges[q[i]],
                                 buffer |-> messages[q[i]].buffer]]
  BY <1>1 DEF LettersFrom
<1>3. \A i \in 1..Len(q) : [from |-> q[i], badge |-> badges[q[i]],
                            buffer |-> messages[q[i]].buffer] \in LettersSent
  BY <1>1 DEF LettersSent, Sendable
<1> HIDE DEF p
<1>4. p \in [1..Len(q) -> LettersSent]
  BY <1>2, <1>3
<1>5. p \in Seq(LettersSent) /\ Len(p) = Len(q)
  BY <1>1, <1>4
<1>6. p = <<>> <=> q = <<>>
  BY <1>5
<1> QED
  BY <1>2, <1>5, <1>6 DEF p, AreLetters

(* A thread that joins adds its message at the end.                        *)
LEMMA LettersAppend ==
  ASSUME NEW q \in Seq(Thread), NEW t \in Thread, \A i \in 1..Len(q) : q[i] # t,
         NEW badges \in [Thread -> Badge \cup {NULL}], NEW badge \in Badge,
         NEW messages \in [Thread -> SendMessages \cup RecvMessages \cup {NULL}],
         NEW m \in SendMessages,
         \A i \in 1..Len(q) : badges[q[i]] \in Badge /\ messages[q[i]] \in SendMessages
  PROVE  LettersJoined(q, t, badges, messages, badge, m)
<1> DEFINE r == Append(q, t)
           b == [badges EXCEPT ![t] = badge]
           s == [messages EXCEPT ![t] = m]
           letter == [from |-> t, badge |-> badge, buffer |-> m.buffer]
           p == LettersFrom(q, badges, messages)
           z == LettersFrom(r, b, s)
<1>1. /\ Len(q) \in Nat /\ r \in Seq(Thread) /\ Len(r) = Len(q) + 1 /\ r[Len(r)] = t
      /\ \A i \in 1..Len(q) : r[i] = q[i] /\ q[i] \in Thread
  OBVIOUS
<1> HIDE DEF r
<1>2. b[t] = badge /\ s[t] = m /\ \A u \in Thread : u # t => b[u] = badges[u] /\ s[u] = messages[u]
  OBVIOUS
<1> HIDE DEF b, s
<1>3. \A i \in 1..Len(r) : b[r[i]] \in Badge /\ s[r[i]] \in SendMessages
  <2> SUFFICES ASSUME NEW i \in 1..Len(r) PROVE b[r[i]] \in Badge /\ s[r[i]] \in SendMessages
    OBVIOUS
  <2>1. CASE i = Len(r)
    BY <1>1, <1>2, <2>1
  <2>2. CASE i # Len(r)
    <3>1. i \in 1..Len(q)
      BY <1>1, <2>2
    <3> QED
      BY <1>1, <1>2, <3>1
  <2> QED
    BY <2>1, <2>2
<1>4. AreLetters(p, q, badges, messages)
  BY LettersTypes, Zenon
<1>5. AreLetters(z, r, b, s)
  <2>1. r \in Seq(Thread)
    BY <1>1
  <2> QED
    BY <1>3, <2>1, LettersTypes, Zenon
<1>6. letter \in LettersSent
  BY DEF LettersSent, Sendable
<1> DEFINE w == Append(p, letter)
<1> HIDE DEF p, z, letter
<1>7. /\ w \in Seq(LettersSent) /\ Len(w) = Len(p) + 1 /\ w[Len(w)] = letter
      /\ \A i \in 1..Len(p) : w[i] = p[i]
  BY <1>4, <1>6 DEF AreLetters
<1> HIDE DEF w
<1>8. ASSUME NEW i \in 1..Len(r)
      PROVE  z[i] = w[i]
  <2>1. CASE i = Len(r)
    <3>1. z[i] = letter
      BY <1>1, <1>2, <1>5, <2>1 DEF letter, AreLetters
    <3> QED
      BY <1>1, <1>4, <1>7, <2>1, <3>1 DEF AreLetters
  <2>2. CASE i # Len(r)
    <3>1. i \in 1..Len(q)
      BY <1>1, <2>2
    <3>2. z[i] = [from |-> q[i], badge |-> badges[q[i]], buffer |-> messages[q[i]].buffer]
      BY <1>1, <1>2, <1>5, <3>1 DEF AreLetters
    <3>3. w[i] = p[i] /\ p[i] = z[i]
      BY <1>4, <1>7, <3>1, <3>2 DEF AreLetters
    <3> QED
      BY <3>3
  <2> QED
    BY <2>1, <2>2
<1>9. z = w
  <2>1. /\ z = [i \in 1..Len(r) |-> z[i]]
        /\ w = [i \in 1..Len(r) |-> w[i]]
    BY <1>1, <1>4, <1>5, <1>7 DEF AreLetters
  <2> QED
    BY <1>8, <2>1
<1> QED
  BY <1>9 DEF z, w, r, b, s, letter, p, LettersJoined

(* When the first one leaves, its message is the one that is taken.        *)
LEMMA LettersTail ==
  ASSUME NEW q \in Seq(Thread), q # <<>>, NEW badges, NEW messages,
         \A i \in 1..Len(q) : badges[q[i]] \in Badge /\ messages[q[i]] \in SendMessages
  PROVE  LettersLeft(q, badges, messages)
<1> DEFINE p == LettersFrom(q, badges, messages)
           r == Tail(q)
           z == LettersFrom(r, badges, messages)
<1>1. /\ Len(q) \in Nat \ {0} /\ r \in Seq(Thread) /\ Len(r) = Len(q) - 1 /\ Head(q) = q[1]
      /\ \A i \in 1..Len(r) : r[i] = q[i + 1] /\ i + 1 \in 1..Len(q)
      /\ 1 \in 1..Len(q)
  OBVIOUS
<1> HIDE DEF r
<1>2. AreLetters(p, q, badges, messages)
  BY LettersTypes, Zenon
<1>3. \A i \in 1..Len(r) : badges[r[i]] \in Badge /\ messages[r[i]] \in SendMessages
  BY <1>1
<1>4. AreLetters(z, r, badges, messages)
  <2>1. r \in Seq(Thread)
    BY <1>1
  <2> QED
    BY <1>3, <2>1, LettersTypes, Zenon
<1> DEFINE w == Tail(p)
<1> HIDE DEF p, z
<1>5. /\ w \in Seq(LettersSent) /\ Len(w) = Len(p) - 1 /\ Head(p) = p[1]
      /\ \A i \in 1..Len(w) : w[i] = p[i + 1]
  BY <1>1, <1>2 DEF AreLetters
<1> HIDE DEF w
<1>6. ASSUME NEW i \in 1..Len(r)
      PROVE  z[i] = w[i]
  <2>1. i + 1 \in 1..Len(q) /\ i \in 1..Len(w) /\ r[i] = q[i + 1]
    BY <1>1, <1>2, <1>5 DEF AreLetters
  <2>2. w[i] = p[i + 1]
    BY <1>5, <2>1
  <2>3. z[i] = [from |-> q[i + 1], badge |-> badges[q[i + 1]], buffer |-> messages[q[i + 1]].buffer]
    BY <1>4, <2>1 DEF AreLetters
  <2>4. p[i + 1] = [from |-> q[i + 1], badge |-> badges[q[i + 1]], buffer |-> messages[q[i + 1]].buffer]
    BY <1>2, <2>1 DEF AreLetters
  <2> QED
    BY <2>2, <2>3, <2>4
<1>7. z = w
  <2>1. /\ z = [i \in 1..Len(r) |-> z[i]]
        /\ w = [i \in 1..Len(r) |-> w[i]]
    BY <1>1, <1>2, <1>4, <1>5 DEF AreLetters
  <2> QED
    BY <1>6, <2>1
<1> QED
  BY <1>1, <1>2, <1>5, <1>7 DEF p, z, w, r, AreLetters, LettersLeft

(* Messages of threads that are not in q do not matter.                    *)
LEMMA LettersFrame ==
  ASSUME NEW q \in Seq(Thread), NEW b, NEW s, NEW badges, NEW messages,
         \A i \in 1..Len(q) : b[q[i]] = badges[q[i]] /\ s[q[i]] = messages[q[i]]
  PROVE  LettersFrom(q, b, s) = LettersFrom(q, badges, messages)
<1>1. DOMAIN q = 1..Len(q)
  OBVIOUS
<1> QED
  BY <1>1 DEF LettersFrom

-----------------------------------------------------------------------------
(* The steps of Rendezvous that the handlers take.                         *)

(***************************************************************************)
(* The variables of Rendezvous, read off a kernel state.                   *)
(***************************************************************************)
SendingOf(k) == QueuesOf(k.blocked_sending, k.blocked_queue)

SendersOf(k) == [e \in Endpoint |->
                   LettersFrom(SendingOf(k)[e], k.sending_badge, k.message_buffer)]

ReceiversOf(k) == QueuesOf(k.blocked_receiving, k.blocked_queue)

UnusedInv(k) == Unused(k.blocked_sending, k.blocked_receiving, k.endpoints)

(* Nobody waits anywhere as t.                                             *)
WaitsNowhere(k, t) ==
  \A e \in Endpoint : /\ \A i \in DOMAIN SendersOf(k)[e] : SendersOf(k)[e][i].from # t
                      /\ \A i \in DOMAIN ReceiversOf(k)[e] : ReceiversOf(k)[e][i] # t

(* The steps of Rendezvous, by what a handler does.                        *)
SendStep(k, q, e, letter) ==
  /\ q.endpoints = k.endpoints
  /\ UnusedInv(q)
  /\ WaitsNowhere(k, letter.from)
  /\ ReceiversOf(k)[e] = <<>>
       => /\ SendersOf(q) = [SendersOf(k) EXCEPT ![e] = Append(@, letter)]
          /\ ReceiversOf(q) = ReceiversOf(k)
          /\ q.delivery = k.delivery
  /\ ReceiversOf(k)[e] # <<>>
       => /\ ReceiversOf(q) = [ReceiversOf(k) EXCEPT ![e] = Tail(@)]
          /\ SendersOf(q) = SendersOf(k)
          /\ Delivers(q, Head(ReceiversOf(k)[e]), letter.badge, letter.buffer)

ReceiveStep(k, q, e, t) ==
  /\ q.endpoints = k.endpoints
  /\ UnusedInv(q)
  /\ WaitsNowhere(k, t)
  /\ SendersOf(k)[e] = <<>>
       => /\ ReceiversOf(q) = [ReceiversOf(k) EXCEPT ![e] = Append(@, t)]
          /\ SendersOf(q) = SendersOf(k)
          /\ q.delivery = k.delivery
  /\ SendersOf(k)[e] # <<>>
       => /\ SendersOf(q) = [SendersOf(k) EXCEPT ![e] = Tail(@)]
          /\ ReceiversOf(q) = ReceiversOf(k)
          /\ Delivers(q, t, Head(SendersOf(k)[e]).badge, Head(SendersOf(k)[e]).buffer)

ReopenStep(k, q, e) ==
  /\ q.endpoints = IF e \in k.endpoints THEN k.endpoints \ {e} ELSE k.endpoints \cup {e}
  /\ UnusedInv(q)
  /\ SendersOf(q) = [SendersOf(k) EXCEPT ![e] = <<>>]
  /\ ReceiversOf(q) = [ReceiversOf(k) EXCEPT ![e] = <<>>]
  /\ q.delivery = k.delivery

(* The queues of a state that a handler is entered in, in both roles.      *)
LEMMA EnteredQueues ==
  ASSUME NEW k, Entered(k), UnusedInv(k)
  PROVE  /\ \A d \in k.endpoints :
              /\ TwoQueues(k.blocked_sending, k.blocked_receiving, k.blocked_queue, k.blocked_on, d)
              /\ TwoQueues(k.blocked_receiving, k.blocked_sending, k.blocked_queue, k.blocked_on, d)
         /\ Unused(k.blocked_sending, k.blocked_receiving, k.endpoints)
         /\ Unused(k.blocked_receiving, k.blocked_sending, k.endpoints)
BY DEF Entered, Handled, QueuesInv, TwoQueues, UnusedInv, Unused

(* The threads in these queues wait, and those that send have a message.   *)
LEMMA WaitingThreads ==
  ASSUME NEW k, Entered(k), UnusedInv(k), NEW d \in Endpoint
  PROVE  LET s == SendingOf(k)[d]
             r == ReceiversOf(k)[d]
         IN  /\ s \in Seq(Thread) /\ r \in Seq(Thread)
             /\ \A i \in 1..Len(s) : /\ k.blocked_on[s[i]] = d
                                     /\ k.sending_badge[s[i]] \in Badge
                                     /\ k.message_buffer[s[i]] \in SendMessages
             /\ \A i \in 1..Len(r) : k.blocked_on[r[i]] = d
             /\ s = <<>> <=> ~LIST_CAN_POP(k.blocked_sending[d])
             /\ r = <<>> <=> ~LIST_CAN_POP(k.blocked_receiving[d])
             /\ AreLetters(SendersOf(k)[d], s, k.sending_badge, k.message_buffer)
             /\ SendersOf(k)[d] = LettersFrom(s, k.sending_badge, k.message_buffer)
<1> DEFINE A == k.blocked_sending
           B == k.blocked_receiving
           f == k.blocked_queue
           on == k.blocked_on
           E == k.endpoints
           s == SendingOf(k)[d]
           r == ReceiversOf(k)[d]
<1>0. /\ A \in [Endpoint -> Container(Thread)] /\ B \in [Endpoint -> Container(Thread)]
      /\ f \in LinkField(Thread) /\ on \in [Thread -> Endpoint \cup {NULL}]
      /\ E \in SUBSET Endpoint
  BY EnteredFacts
<1>1. /\ \A e \in E : TwoQueues(A, B, f, on, e) /\ TwoQueues(B, A, f, on, e)
      /\ Unused(A, B, E) /\ Unused(B, A, E)
  BY EnteredQueues
<1>2. SequenceTyped(s, A, f, on, E, d) /\ SequenceTyped(r, B, f, on, E, d)
  BY <1>0, <1>1, SequenceTypes DEF SendingOf, ReceiversOf
<1> HIDE DEF s, r
<1>3. /\ s \in Seq(Thread)
      /\ \A i \in 1..Len(s) : on[s[i]] = d
      /\ d \in E => \A i \in 1..Len(s) : s[i] \in Waiting(A, f, d)
      /\ s = <<>> <=> ~LIST_CAN_POP(A[d])
  BY <1>2 DEF SequenceTyped
<1>4. /\ r \in Seq(Thread)
      /\ \A i \in 1..Len(r) : on[r[i]] = d
      /\ r = <<>> <=> ~LIST_CAN_POP(B[d])
  BY <1>2 DEF SequenceTyped
<1>5. \A i \in 1..Len(s) : k.sending_badge[s[i]] \in Badge /\ k.message_buffer[s[i]] \in SendMessages
  <2>1. CASE d \in E
    BY <1>3, <2>1 DEF Entered, Handled, QueuesInv
  <2>2. CASE d \notin E
    <3>1. ~LIST_CAN_POP(A[d])
      BY <1>1, <2>2 DEF Unused, LIST_CAN_POP, LIST_INIT
    <3>2. s = <<>>
      BY <1>3, <3>1
    <3>3. Len(s) = 0
      BY <3>2
    <3> QED
      BY <3>3
  <2> QED
    BY <2>1, <2>2
<1>6. SendersOf(k)[d] = LettersFrom(s, k.sending_badge, k.message_buffer)
  BY DEF SendersOf, s
<1>7. AreLetters(SendersOf(k)[d], s, k.sending_badge, k.message_buffer)
  BY <1>3, <1>5, <1>6, LettersTypes, Zenon
<1> QED
  BY <1>3, <1>4, <1>5, <1>6, <1>7 DEF s, r

(* A thread that runs does not wait.                                       *)
LEMMA CallerWaitsNowhere ==
  ASSUME NEW k, Entered(k), UnusedInv(k)
  PROVE  WaitsNowhere(k, k.current_thread)
<1> DEFINE t == k.current_thread
<1>0. k.blocked_on[t] = NULL /\ NULL \notin Endpoint
  BY EnteredFacts, IpcAssumption
<1>1. ASSUME NEW e \in Endpoint
      PROVE  /\ \A i \in DOMAIN SendersOf(k)[e] : SendersOf(k)[e][i].from # t
             /\ \A i \in DOMAIN ReceiversOf(k)[e] : ReceiversOf(k)[e][i] # t
  <2> DEFINE s == SendingOf(k)[e]
             r == ReceiversOf(k)[e]
             p == SendersOf(k)[e]
  <2>1. /\ s \in Seq(Thread) /\ r \in Seq(Thread)
        /\ \A i \in 1..Len(s) : k.blocked_on[s[i]] = e
        /\ \A i \in 1..Len(r) : k.blocked_on[r[i]] = e
        /\ AreLetters(p, s, k.sending_badge, k.message_buffer)
    BY WaitingThreads
  <2> HIDE DEF s, r, p
  <2>2. DOMAIN r = 1..Len(r)
    BY <2>1
  <2>a. p \in Seq(LettersSent) /\ Len(p) = Len(s)
    BY <2>1 DEF AreLetters
  <2>b. DOMAIN p = 1..Len(s)
    BY <2>a
  <2>3. \A i \in 1..Len(s) : p[i].from = s[i]
    <3> SUFFICES ASSUME NEW i \in 1..Len(s) PROVE p[i].from = s[i]
      OBVIOUS
    <3>1. p[i] = [from |-> s[i], badge |-> k.sending_badge[s[i]],
                  buffer |-> k.message_buffer[s[i]].buffer]
      BY <2>1 DEF AreLetters
    <3> QED
      BY <3>1
  <2> QED
    BY <1>0, <2>1, <2>2, <2>b, <2>3 DEF s, r, p
<1> QED
  BY <1>1 DEF WaitsNowhere

(* What is written for the caller changes no waiting thread's message.     *)
OthersKept(k, badge, m, d) ==
  LettersFrom(SendingOf(k)[d], [k.sending_badge EXCEPT ![k.current_thread] = badge],
              [k.message_buffer EXCEPT ![k.current_thread] = m]) = SendersOf(k)[d]

(* The caller waits nowhere, so no letter is read from what it writes.     *)
LEMMA OthersLetters ==
  ASSUME NEW k, Entered(k), UnusedInv(k), NEW badge, NEW m, NEW d \in Endpoint
  PROVE  OthersKept(k, badge, m, d)
<1> DEFINE t == k.current_thread
           b == [k.sending_badge EXCEPT ![t] = badge]
           s == [k.message_buffer EXCEPT ![t] = m]
           p == SendingOf(k)[d]
<1>0. /\ k.blocked_on[t] = NULL /\ NULL \notin Endpoint
      /\ k.sending_badge \in [Thread -> Badge \cup {NULL}]
      /\ k.message_buffer \in [Thread -> SendMessages \cup RecvMessages \cup {NULL}]
  BY EnteredFacts, IpcAssumption
<1>1. /\ p \in Seq(Thread) /\ \A i \in 1..Len(p) : k.blocked_on[p[i]] = d
      /\ SendersOf(k)[d] = LettersFrom(p, k.sending_badge, k.message_buffer)
  BY WaitingThreads
<1> HIDE DEF p
<1>2. \A i \in 1..Len(p) : p[i] \in Thread /\ p[i] # t
  BY <1>0, <1>1
<1>3. \A i \in 1..Len(p) : b[p[i]] = k.sending_badge[p[i]] /\ s[p[i]] = k.message_buffer[p[i]]
  BY <1>0, <1>2
<1> HIDE DEF b, s
<1>4. LettersFrom(p, b, s) = LettersFrom(p, k.sending_badge, k.message_buffer)
  BY <1>1, <1>3, LettersFrame
<1> QED
  BY <1>1, <1>4 DEF p, b, s, OthersKept

(* endpoint_send is the Send of Rendezvous.                                *)
LEMMA SendRendezvous ==
  ASSUME NEW k, Entered(k), UnusedInv(k), NEW e \in k.endpoints, NEW badge \in Badge,
         NEW m \in SendMessages
  PROVE  LET letter == [from |-> k.current_thread, badge |-> badge, buffer |-> m.buffer]
         IN  SendStep(k, endpoint_send(k, e, badge, m), e, letter)
<1> DEFINE A == k.blocked_sending
           B == k.blocked_receiving
           f == k.blocked_queue
           on == k.blocked_on
           E == k.endpoints
           t == k.current_thread
           q == endpoint_send(k, e, badge, m)
           letter == [from |-> t, badge |-> badge, buffer |-> m.buffer]
<1>0. /\ A \in [Endpoint -> Container(Thread)] /\ B \in [Endpoint -> Container(Thread)]
      /\ f \in LinkField(Thread) /\ on \in [Thread -> Endpoint \cup {NULL}]
      /\ E \in SUBSET Endpoint /\ t \in Thread /\ on[t] = NULL /\ e \in Endpoint
      /\ k.sending_badge \in [Thread -> Badge \cup {NULL}]
      /\ k.message_buffer \in [Thread -> SendMessages \cup RecvMessages \cup {NULL}]
      /\ NULL \notin Endpoint
  BY EnteredFacts, IpcAssumption
<1>1. /\ \A d \in E : TwoQueues(A, B, f, on, d) /\ TwoQueues(B, A, f, on, d)
      /\ Unused(A, B, E) /\ Unused(B, A, E)
  BY EnteredQueues
<1>2. /\ q.endpoints = E
      /\ ~LIST_CAN_POP(B[e]) => q.delivery = k.delivery /\ Appended(k, q, e, badge, m, "SEND")
      /\ LIST_CAN_POP(B[e]) => /\ Popped(k, q, e, "RECEIVE")
                               /\ Delivers(q, B[e].start, badge, m.buffer)
  <2>1. /\ \/ Blocks(k, q, e, "SEND")
           \/ \E u \in Thread : Releases(k, q, e, u, "RECEIVE")
        /\ ~LIST_CAN_POP(B[e]) => q.delivery = k.delivery /\ Appended(k, q, e, badge, m, "SEND")
        /\ LIST_CAN_POP(B[e]) => /\ Popped(k, q, e, "RECEIVE")
                                 /\ Delivers(q, B[e].start, badge, m.buffer)
    BY EndpointSend
  <2>2. q.endpoints = E
    BY <2>1 DEF Blocks, Releases
  <2> QED
    BY <2>1, <2>2
<1> HIDE DEF q
<1>3. \A d \in Endpoint :
        /\ SendingOf(k)[d] \in Seq(Thread) /\ ReceiversOf(k)[d] \in Seq(Thread)
        /\ \A i \in 1..Len(SendingOf(k)[d]) :
             /\ on[SendingOf(k)[d][i]] = d
             /\ k.sending_badge[SendingOf(k)[d][i]] \in Badge
             /\ k.message_buffer[SendingOf(k)[d][i]] \in SendMessages
        /\ ReceiversOf(k)[d] = <<>> <=> ~LIST_CAN_POP(B[d])
        /\ SendersOf(k)[d] = LettersFrom(SendingOf(k)[d], k.sending_badge, k.message_buffer)
  BY WaitingThreads
<1>4. WaitsNowhere(k, letter.from)
  BY CallerWaitsNowhere
<1>5. ASSUME ~LIST_CAN_POP(B[e])
      PROVE  /\ UnusedInv(q)
             /\ SendersOf(q) = [SendersOf(k) EXCEPT ![e] = Append(@, letter)]
             /\ ReceiversOf(q) = ReceiversOf(k)
             /\ q.delivery = k.delivery
  <2> DEFINE l == LIST_APPEND(A[e], f, t)
             a == [A EXCEPT ![e] = l.container]
             b == [k.sending_badge EXCEPT ![t] = badge]
             s == [k.message_buffer EXCEPT ![t] = m]
  <2>1. /\ q.blocked_sending = a /\ q.blocked_receiving = B /\ q.blocked_queue = l.field
        /\ q.sending_badge = b /\ q.message_buffer = s /\ q.delivery = k.delivery
    BY <1>2, <1>5 DEF Appended, Queues, Opposite
  <2>2. /\ QueuesOf(a, l.field) = [QueuesOf(A, f) EXCEPT ![e] = Append(@, t)]
        /\ QueuesOf(B, l.field) = QueuesOf(B, f)
    <3>1. SequenceJoined(A, B, f, e, t)
      BY <1>0, <1>1, SequenceJoin
    <3> QED
      BY <3>1 DEF SequenceJoined
  <2>3. UnusedInv(q)
    <3>1. \A d \in Endpoint \ E : a[d] = A[d]
      BY <1>0
    <3> QED
      BY <1>1, <1>2, <2>1, <3>1 DEF UnusedInv, Unused
  <2> HIDE DEF a, l
  <2>4. /\ ReceiversOf(q) = ReceiversOf(k)
        /\ SendingOf(q) = [SendingOf(k) EXCEPT ![e] = Append(@, t)]
    BY <2>1, <2>2 DEF ReceiversOf, SendingOf
  <2>5. SendingOf(k) = [d \in Endpoint |-> SendingOf(k)[d]]
    BY DEF SendingOf, QueuesOf
  <2>6. \A d \in Endpoint : SendingOf(q)[d] = IF d = e THEN Append(SendingOf(k)[d], t)
                                              ELSE SendingOf(k)[d]
    BY <1>0, <2>4, <2>5
  <2>7. \A d \in Endpoint : \A i \in 1..Len(SendingOf(k)[d]) : SendingOf(k)[d][i] # t
    BY <1>0, <1>3
  <2>8. LettersFrom(Append(SendingOf(k)[e], t), b, s) = Append(SendersOf(k)[e], letter)
    <3> DEFINE p == SendingOf(k)[e]
    <3>1. /\ p \in Seq(Thread) /\ \A i \in 1..Len(p) : p[i] # t
          /\ \A i \in 1..Len(p) : k.sending_badge[p[i]] \in Badge
                                  /\ k.message_buffer[p[i]] \in SendMessages
          /\ SendersOf(k)[e] = LettersFrom(p, k.sending_badge, k.message_buffer)
      BY <1>0, <1>3, <2>7
    <3> HIDE DEF p
    <3>2. LettersFrom(Append(p, t), b, s)
            = Append(LettersFrom(p, k.sending_badge, k.message_buffer), letter)
      <4>1. LettersJoined(p, t, k.sending_badge, k.message_buffer, badge, m)
        BY <1>0, <3>1, LettersAppend
      <4> QED
        BY <4>1 DEF LettersJoined
    <3> QED
      BY <3>1, <3>2 DEF p
  <2>9. \A d \in Endpoint : LettersFrom(SendingOf(k)[d], b, s) = SendersOf(k)[d]
    <3>1. \A d \in Endpoint : OthersKept(k, badge, m, d)
      BY OthersLetters
    <3> QED
      BY <3>1 DEF OthersKept
  <2> HIDE DEF b, s, letter
  <2>10. SendersOf(q) = [d \in Endpoint |-> LettersFrom(SendingOf(q)[d], b, s)]
    BY <2>1 DEF SendersOf
  <2>11. SendersOf(k) = [d \in Endpoint |-> SendersOf(k)[d]]
    BY DEF SendersOf
  <2>12. SendersOf(q) = [SendersOf(k) EXCEPT ![e] = Append(@, letter)]
    <3>1. \A d \in Endpoint : LettersFrom(SendingOf(q)[d], b, s)
            = IF d = e THEN Append(SendersOf(k)[e], letter) ELSE SendersOf(k)[d]
      BY <2>6, <2>8, <2>9
    <3> QED
      BY <1>0, <2>10, <2>11, <3>1
  <2> QED
    BY <2>1, <2>3, <2>4, <2>12
<1>6. ASSUME LIST_CAN_POP(B[e])
      PROVE  /\ UnusedInv(q)
             /\ ReceiversOf(q) = [ReceiversOf(k) EXCEPT ![e] = Tail(@)]
             /\ SendersOf(q) = SendersOf(k)
             /\ Delivers(q, Head(ReceiversOf(k)[e]), letter.badge, letter.buffer)
  <2> DEFINE l == LIST_POP_FROM_START(B[e], f)
             a == [B EXCEPT ![e] = l.container]
  <2>1. /\ q.blocked_receiving = a /\ q.blocked_sending = A /\ q.blocked_queue = l.field
        /\ q.sending_badge = k.sending_badge /\ q.message_buffer = k.message_buffer
    BY <1>2, <1>6 DEF Popped, Queues, Opposite
  <2>2. /\ Head(QueuesOf(B, f)[e]) = B[e].start
        /\ QueuesOf(a, l.field) = [QueuesOf(B, f) EXCEPT ![e] = Tail(@)]
        /\ QueuesOf(A, l.field) = QueuesOf(A, f)
    <3>1. SequenceLeft(B, A, f, e)
      BY <1>0, <1>1, <1>6, SequenceLeave
    <3> QED
      BY <3>1 DEF SequenceLeft
  <2>3. UnusedInv(q)
    <3>1. \A d \in Endpoint \ E : a[d] = B[d]
      BY <1>0
    <3> QED
      BY <1>1, <1>2, <2>1, <3>1 DEF UnusedInv, Unused
  <2> HIDE DEF a, l
  <2>4. /\ ReceiversOf(q) = [ReceiversOf(k) EXCEPT ![e] = Tail(@)]
        /\ SendingOf(q) = SendingOf(k)
        /\ Head(ReceiversOf(k)[e]) = B[e].start
    BY <2>1, <2>2 DEF ReceiversOf, SendingOf
  <2>5. SendersOf(q) = SendersOf(k)
    BY <2>1, <2>4 DEF SendersOf
  <2>6. Delivers(q, Head(ReceiversOf(k)[e]), letter.badge, letter.buffer)
    BY <1>2, <1>6, <2>4
  <2> QED
    BY <2>3, <2>4, <2>5, <2>6
<1>7. ReceiversOf(k)[e] = <<>> <=> ~LIST_CAN_POP(B[e])
  BY <1>0, <1>3
<1> HIDE DEF letter
<1> QED
  BY <1>2, <1>4, <1>5, <1>6, <1>7 DEF SendStep, q, letter

(* endpoint_receive is the Receive of Rendezvous.                          *)
LEMMA ReceiveRendezvous ==
  ASSUME NEW k, Entered(k), UnusedInv(k), NEW e \in k.endpoints, NEW badge \in Badge,
         NEW m \in RecvMessages
  PROVE  ReceiveStep(k, endpoint_receive(k, e, badge, m), e, k.current_thread)
<1> DEFINE A == k.blocked_sending
           B == k.blocked_receiving
           f == k.blocked_queue
           on == k.blocked_on
           E == k.endpoints
           t == k.current_thread
           q == endpoint_receive(k, e, badge, m)
<1>0. /\ A \in [Endpoint -> Container(Thread)] /\ B \in [Endpoint -> Container(Thread)]
      /\ f \in LinkField(Thread) /\ on \in [Thread -> Endpoint \cup {NULL}]
      /\ E \in SUBSET Endpoint /\ t \in Thread /\ on[t] = NULL /\ e \in Endpoint
  BY EnteredFacts
<1>1. /\ \A d \in E : TwoQueues(A, B, f, on, d) /\ TwoQueues(B, A, f, on, d)
      /\ Unused(A, B, E) /\ Unused(B, A, E)
  BY EnteredQueues
<1>2. /\ q.endpoints = E
      /\ ~LIST_CAN_POP(A[e]) => q.delivery = k.delivery /\ Appended(k, q, e, badge, m, "RECEIVE")
      /\ LIST_CAN_POP(A[e]) => /\ Popped(k, q, e, "SEND")
                               /\ Delivers(q, t, k.sending_badge[A[e].start],
                                           k.message_buffer[A[e].start].buffer)
  <2>1. /\ \/ Blocks(k, q, e, "RECEIVE")
           \/ \E u \in Thread : Releases(k, q, e, u, "SEND")
        /\ ~LIST_CAN_POP(A[e]) => q.delivery = k.delivery /\ Appended(k, q, e, badge, m, "RECEIVE")
        /\ LIST_CAN_POP(A[e]) => /\ Popped(k, q, e, "SEND")
                                 /\ Delivers(q, t, k.sending_badge[A[e].start],
                                             k.message_buffer[A[e].start].buffer)
    BY EndpointReceive
  <2>2. q.endpoints = E
    BY <2>1 DEF Blocks, Releases
  <2> QED
    BY <2>1, <2>2
<1> HIDE DEF q
<1> DEFINE s == SendingOf(k)[e]
           p == SendersOf(k)[e]
<1>3. /\ s \in Seq(Thread)
      /\ \A i \in 1..Len(s) : /\ k.sending_badge[s[i]] \in Badge
                              /\ k.message_buffer[s[i]] \in SendMessages
      /\ s = <<>> <=> ~LIST_CAN_POP(A[e])
      /\ p = LettersFrom(s, k.sending_badge, k.message_buffer)
      /\ p = <<>> <=> s = <<>>
  BY <1>0, WaitingThreads DEF AreLetters
<1>4. WaitsNowhere(k, t)
  BY CallerWaitsNowhere
<1>5. ASSUME ~LIST_CAN_POP(A[e])
      PROVE  /\ UnusedInv(q)
             /\ ReceiversOf(q) = [ReceiversOf(k) EXCEPT ![e] = Append(@, t)]
             /\ SendersOf(q) = SendersOf(k)
             /\ q.delivery = k.delivery
  <2> DEFINE l == LIST_APPEND(B[e], f, t)
             a == [B EXCEPT ![e] = l.container]
  <2>1. /\ q.blocked_receiving = a /\ q.blocked_sending = A /\ q.blocked_queue = l.field
        /\ q.sending_badge = [k.sending_badge EXCEPT ![t] = badge]
        /\ q.message_buffer = [k.message_buffer EXCEPT ![t] = m]
        /\ q.delivery = k.delivery
    BY <1>2, <1>5 DEF Appended, Queues, Opposite
  <2>2. /\ QueuesOf(a, l.field) = [QueuesOf(B, f) EXCEPT ![e] = Append(@, t)]
        /\ QueuesOf(A, l.field) = QueuesOf(A, f)
    <3>1. SequenceJoined(B, A, f, e, t)
      BY <1>0, <1>1, SequenceJoin
    <3> QED
      BY <3>1 DEF SequenceJoined
  <2>3. UnusedInv(q)
    <3>1. \A d \in Endpoint \ E : a[d] = B[d]
      BY <1>0
    <3> QED
      BY <1>1, <1>2, <2>1, <3>1 DEF UnusedInv, Unused
  <2> HIDE DEF a, l
  <2>4. /\ ReceiversOf(q) = [ReceiversOf(k) EXCEPT ![e] = Append(@, t)]
        /\ SendingOf(q) = SendingOf(k)
    BY <2>1, <2>2 DEF ReceiversOf, SendingOf
  <2>5. SendersOf(q) = SendersOf(k)
    <3>1. SendersOf(k) = [d \in Endpoint |-> SendersOf(k)[d]]
      BY DEF SendersOf
    <3>2. SendersOf(q) = [d \in Endpoint |-> SendersOf(k)[d]]
      <4>1. \A d \in Endpoint : OthersKept(k, badge, m, d)
        BY OthersLetters
      <4> QED
        BY <2>1, <2>4, <4>1 DEF SendersOf, OthersKept
    <3> QED
      BY <3>1, <3>2
  <2> QED
    BY <2>1, <2>3, <2>4, <2>5
<1>6. ASSUME LIST_CAN_POP(A[e])
      PROVE  /\ UnusedInv(q)
             /\ SendersOf(q) = [SendersOf(k) EXCEPT ![e] = Tail(@)]
             /\ ReceiversOf(q) = ReceiversOf(k)
             /\ Delivers(q, t, Head(p).badge, Head(p).buffer)
  <2> DEFINE l == LIST_POP_FROM_START(A[e], f)
             a == [A EXCEPT ![e] = l.container]
  <2>1. /\ q.blocked_sending = a /\ q.blocked_receiving = B /\ q.blocked_queue = l.field
        /\ q.sending_badge = k.sending_badge /\ q.message_buffer = k.message_buffer
    BY <1>2, <1>6 DEF Popped, Queues, Opposite
  <2>2. /\ Head(QueuesOf(A, f)[e]) = A[e].start
        /\ QueuesOf(a, l.field) = [QueuesOf(A, f) EXCEPT ![e] = Tail(@)]
        /\ QueuesOf(B, l.field) = QueuesOf(B, f)
    <3>1. SequenceLeft(A, B, f, e)
      BY <1>0, <1>1, <1>6, SequenceLeave
    <3> QED
      BY <3>1 DEF SequenceLeft
  <2>3. UnusedInv(q)
    <3>1. \A d \in Endpoint \ E : a[d] = A[d]
      BY <1>0
    <3> QED
      BY <1>1, <1>2, <2>1, <3>1 DEF UnusedInv, Unused
  <2> HIDE DEF a, l
  <2>4. /\ ReceiversOf(q) = ReceiversOf(k)
        /\ SendingOf(q) = [SendingOf(k) EXCEPT ![e] = Tail(@)]
        /\ Head(s) = A[e].start
    BY <2>1, <2>2 DEF ReceiversOf, SendingOf
  <2>5. SendingOf(k) = [d \in Endpoint |-> SendingOf(k)[d]]
    BY DEF SendingOf, QueuesOf
  <2>6. \A d \in Endpoint : SendingOf(q)[d] = IF d = e THEN Tail(s) ELSE SendingOf(k)[d]
    BY <1>0, <2>4, <2>5
  <2>7. LettersLeft(s, k.sending_badge, k.message_buffer)
    <3> HIDE DEF s
    <3>1. s # <<>>
      BY <1>3, <1>6
    <3> QED
      BY <1>3, <3>1, LettersTail
  <2>8. /\ Head(p) = [from |-> Head(s), badge |-> k.sending_badge[Head(s)],
                      buffer |-> k.message_buffer[Head(s)].buffer]
        /\ LettersFrom(Tail(s), k.sending_badge, k.message_buffer) = Tail(p)
    <3> HIDE DEF s, p
    <3> QED
      BY <1>3, <2>7 DEF LettersLeft
  <2>9. Delivers(q, t, Head(p).badge, Head(p).buffer)
    <3> HIDE DEF s, p
    <3>1. Head(p).badge = k.sending_badge[A[e].start] /\ Head(p).buffer = k.message_buffer[A[e].start].buffer
      BY <2>4, <2>8
    <3> QED
      BY <1>2, <1>6, <3>1
  <2>10. SendersOf(q) = [d \in Endpoint |-> LettersFrom(SendingOf(q)[d], k.sending_badge,
                                                        k.message_buffer)]
    BY <2>1 DEF SendersOf
  <2>11. /\ SendersOf(k) = [d \in Endpoint |-> SendersOf(k)[d]]
         /\ \A d \in Endpoint : SendersOf(k)[d] = LettersFrom(SendingOf(k)[d], k.sending_badge,
                                                              k.message_buffer)
    BY DEF SendersOf
  <2>12. SendersOf(q) = [SendersOf(k) EXCEPT ![e] = Tail(@)]
    <3>1. \A d \in Endpoint : LettersFrom(SendingOf(q)[d], k.sending_badge, k.message_buffer)
            = IF d = e THEN Tail(p) ELSE SendersOf(k)[d]
      BY <2>6, <2>8, <2>11
    <3> QED
      BY <1>0, <2>10, <2>11, <3>1
  <2> QED
    BY <2>3, <2>4, <2>9, <2>12
<1> QED
  <2> HIDE DEF s
  <2> QED
    BY <1>2, <1>3, <1>4, <1>5, <1>6 DEF ReceiveStep, q

(* Two empty containers, in a state that differs in nothing else.          *)
LEMMA EmptiedRendezvous ==
  ASSUME NEW k, Entered(k), UnusedInv(k), NEW e \in Endpoint, NEW q,
         q.blocked_sending = [k.blocked_sending EXCEPT ![e] = LIST_INIT],
         q.blocked_receiving = [k.blocked_receiving EXCEPT ![e] = LIST_INIT],
         q.blocked_queue = k.blocked_queue,
         q.sending_badge = k.sending_badge, q.message_buffer = k.message_buffer,
         q.delivery = k.delivery,
         q.endpoints = IF e \in k.endpoints THEN k.endpoints \ {e} ELSE k.endpoints \cup {e}
  PROVE  ReopenStep(k, q, e)
<1> DEFINE f == k.blocked_queue
<1>0. /\ k.blocked_sending \in [Endpoint -> Container(Thread)]
      /\ k.blocked_receiving \in [Endpoint -> Container(Thread)]
      /\ f.next \in [Thread -> Thread \cup {NULL}] /\ NULL \notin Thread
  BY EnteredFacts, ThreadAssumption DEF LinkField
<1>1. QueueOf(LIST_INIT, f.next) = <<>>
  BY <1>0, SequenceEmpty
<1>2. \A d \in Endpoint :
        /\ q.blocked_sending[d] = IF d = e THEN LIST_INIT ELSE k.blocked_sending[d]
        /\ q.blocked_receiving[d] = IF d = e THEN LIST_INIT ELSE k.blocked_receiving[d]
  BY <1>0
<1>3. UnusedInv(q)
  BY <1>2 DEF UnusedInv, Unused
<1>4. \A d \in Endpoint : /\ SendingOf(q)[d] = IF d = e THEN <<>> ELSE SendingOf(k)[d]
                          /\ ReceiversOf(q)[d] = IF d = e THEN <<>> ELSE ReceiversOf(k)[d]
  BY <1>1, <1>2 DEF SendingOf, ReceiversOf, QueuesOf
<1>5. ReceiversOf(q) = [ReceiversOf(k) EXCEPT ![e] = <<>>]
  <2>1. /\ ReceiversOf(q) = [d \in Endpoint |-> ReceiversOf(q)[d]]
        /\ ReceiversOf(k) = [d \in Endpoint |-> ReceiversOf(k)[d]]
    BY DEF ReceiversOf, QueuesOf
  <2> QED
    BY <1>4, <2>1
<1>6. SendersOf(q) = [SendersOf(k) EXCEPT ![e] = <<>>]
  <2>1. LettersFrom(<<>>, k.sending_badge, k.message_buffer) = <<>>
    <3>1. <<>> \in Seq(Thread) /\ Len(<<>>) = 0
      OBVIOUS
    <3>2. AreLetters(LettersFrom(<<>>, k.sending_badge, k.message_buffer), <<>>,
                     k.sending_badge, k.message_buffer)
      <4>1. \A i \in 1..Len(<<>>) : FALSE
        BY <3>1
      <4> QED
        BY <3>1, <4>1, LettersTypes
    <3> QED
      BY <3>2 DEF AreLetters
  <2>2. /\ SendersOf(q) = [d \in Endpoint |-> SendersOf(q)[d]]
        /\ SendersOf(k) = [d \in Endpoint |-> SendersOf(k)[d]]
    BY DEF SendersOf
  <2>3. \A d \in Endpoint : SendersOf(q)[d] = IF d = e THEN <<>> ELSE SendersOf(k)[d]
    BY <1>4, <2>1 DEF SendersOf
  <2> QED
    BY <2>2, <2>3
<1> QED
  BY <1>3, <1>5, <1>6 DEF ReopenStep

(* alloc_endpoint is a Reopen.                                             *)
LEMMA AllocRendezvous ==
  ASSUME NEW k, Entered(k), UnusedInv(k), NEW e \in Endpoint, e \notin k.endpoints
  PROVE  ReopenStep(k, alloc_endpoint(k, e), e)
<1> DEFINE q == alloc_endpoint(k, e)
<1>1. k \in KernelState
  BY EnteredFacts
<1>2. /\ q.endpoints = k.endpoints \cup {e}
      /\ q.blocked_sending = [k.blocked_sending EXCEPT ![e] = LIST_INIT]
      /\ q.blocked_receiving = [k.blocked_receiving EXCEPT ![e] = LIST_INIT]
      /\ q.blocked_queue = k.blocked_queue
      /\ q.sending_badge = k.sending_badge /\ q.message_buffer = k.message_buffer
      /\ q.delivery = k.delivery
  BY <1>1 DEF KernelState, alloc_endpoint
<1> HIDE DEF q
<1> QED
  BY <1>2, EmptiedRendezvous DEF q

(* endpoint_destructor is one too.                                         *)
LEMMA DestroyRendezvous ==
  ASSUME NEW k, Entered(k), UnusedInv(k), NEW e \in k.endpoints
  PROVE  ReopenStep(k, endpoint_destructor(k, e), e)
<1> DEFINE q == endpoint_destructor(k, e)
<1>1. k \in KernelState /\ e \in Endpoint
  BY EnteredFacts
<1>2. /\ q.endpoints = k.endpoints \ {e}
      /\ q.blocked_sending = [k.blocked_sending EXCEPT ![e] = LIST_INIT]
      /\ q.blocked_receiving = [k.blocked_receiving EXCEPT ![e] = LIST_INIT]
      /\ q.blocked_queue = k.blocked_queue
      /\ q.sending_badge = k.sending_badge /\ q.message_buffer = k.message_buffer
      /\ q.delivery = k.delivery
  BY <1>1 DEF KernelState, endpoint_destructor
<1> HIDE DEF q
<1> QED
  BY <1>1, <1>2, EmptiedRendezvous DEF q

(* A step of Rendezvous, on kernel states; an OtherStep leaves its         *)
(* variables alone.                                                        *)
OtherStep(k, q) ==
  /\ q.endpoints = k.endpoints
  /\ UnusedInv(q)
  /\ SendersOf(q) = SendersOf(k) /\ ReceiversOf(q) = ReceiversOf(k)
  /\ q.delivery = k.delivery

RendezvousStep(k, q) ==
  \/ OtherStep(k, q)
  \/ \E e \in k.endpoints : \/ \E letter \in LettersSent : SendStep(k, q, e, letter)
                            \/ \E t \in Thread : ReceiveStep(k, q, e, t)
  \/ \E e \in Endpoint : ReopenStep(k, q, e)

(* It does not depend on the scheduler.                                    *)
LEMMA RendezvousFrame ==
  ASSUME NEW k, NEW q, NEW z, RendezvousStep(k, q), EndpointFrame(q, z)
  PROVE  RendezvousStep(k, z)
<1>1. /\ SendersOf(z) = SendersOf(q) /\ ReceiversOf(z) = ReceiversOf(q)
      /\ z.endpoints = q.endpoints /\ z.delivery = q.delivery
      /\ UnusedInv(q) => UnusedInv(z)
  BY DEF EndpointFrame, SendersOf, ReceiversOf, SendingOf, UnusedInv
<1>2. OtherStep(k, q) => OtherStep(k, z)
  BY <1>1 DEF OtherStep
<1>3. \A e, letter : SendStep(k, q, e, letter) => SendStep(k, z, e, letter)
  BY <1>1 DEF SendStep, Delivers
<1>4. \A e, t : ReceiveStep(k, q, e, t) => ReceiveStep(k, z, e, t)
  BY <1>1 DEF ReceiveStep, Delivers
<1>5. \A e : ReopenStep(k, q, e) => ReopenStep(k, z, e)
  BY <1>1 DEF ReopenStep
<1> QED
  BY <1>2, <1>3, <1>4, <1>5 DEF RendezvousStep

(* Every trap is one step of Rendezvous.                                   *)
LEMMA TrapRendezvous ==
  ASSUME "suspend_stale" \notin Calls, IInv(K), UnusedInv(K0), Next
  PROVE  RendezvousStep(K0, K')
<1> DEFINE Goal == RendezvousStep(K0, K')
<1>a. ASSUME NEW call, NEW q, Trap(call, q), Handled(q), RendezvousStep(K0, q)
      PROVE  Goal
  <2>1. EndpointFrame(q, K')
    BY <1>a, TrapFrame
  <2> QED
    BY <1>a, <2>1, RendezvousFrame
<1>b. current_thread # NULL
  BY DEF Next, Yield, Exception, Send, Receive, Resume, Suspend, AllocEndpoint,
         DeleteEndpoint, Trap
<1>0. /\ Entered(K0) /\ K0.current_thread = current_thread
      /\ K0.runqueue = runqueue /\ K0.endpoints = endpoints
  BY <1>b, TrapEntry
<1>c. /\ K0 \in KernelState /\ current_thread \in Thread /\ RunInv(K0)
      /\ runqueue[current_thread] => current_thread = K0.current_thread
  BY <1>0, EnteredFacts DEF Entered, Handled
<1>d. ASSUME NEW q, EndpointFrame(K0, q)
      PROVE  RendezvousStep(K0, q)
  <2>1. RendezvousStep(K0, K0)
    BY DEF RendezvousStep, OtherStep
  <2> QED
    BY <1>d, <2>1, RendezvousFrame
<1>1. CASE Yield
  <2> DEFINE q == yield_thread(K0)
  <2>1. Handled(q)
    BY <1>0, YieldThread
  <2>2. EndpointFrame(K0, q)
    BY <1>c DEF yield_thread, KernelState, EndpointFrame
  <2> QED
    BY <1>1, <1>a, <1>d, <2>1, <2>2 DEF Yield
<1>2. CASE Exception
  <2> DEFINE q == suspend_thread(K0, current_thread, SUSPENDED)
  <2>1. Handled(q)
    BY <1>0, <1>c, SuspendHandled
  <2>2. EndpointFrame(K0, q)
    BY <1>0, <1>c, SuspendThread
  <2> QED
    BY <1>2, <1>a, <1>d, <2>1, <2>2 DEF Exception
<1>3. ASSUME NEW e \in Endpoint, NEW badge \in Badge, NEW m \in SendMessages,
             Send(e, badge, m)
      PROVE  Goal
  <2> DEFINE q == endpoint_send(K0, e, badge, m)
             letter == [from |-> K0.current_thread, badge |-> badge, buffer |-> m.buffer]
  <2>1. e \in K0.endpoints /\ Trap("send", q)
    BY <1>0, <1>3 DEF Send
  <2>2. Handled(q)
    BY <1>0, <2>1, EndpointSend
  <2>3. SendStep(K0, q, e, letter)
    BY <1>0, <2>1, SendRendezvous
  <2>4. letter \in LettersSent
    BY <1>0, <1>c DEF LettersSent, Sendable
  <2> HIDE DEF q, letter
  <2>5. RendezvousStep(K0, q)
    BY <2>1, <2>3, <2>4 DEF RendezvousStep
  <2> QED
    BY <1>a, <2>1, <2>2, <2>5
<1>4. ASSUME NEW e \in Endpoint, NEW badge \in Badge, NEW m \in RecvMessages,
             Receive(e, badge, m)
      PROVE  Goal
  <2> DEFINE q == endpoint_receive(K0, e, badge, m)
  <2>1. e \in K0.endpoints /\ Trap("receive", q)
    BY <1>0, <1>4 DEF Receive
  <2>2. Handled(q)
    BY <1>0, <2>1, EndpointReceive
  <2>3. ReceiveStep(K0, q, e, current_thread)
    BY <1>0, <2>1, ReceiveRendezvous
  <2> HIDE DEF q
  <2>5. RendezvousStep(K0, q)
    BY <1>c, <2>1, <2>3 DEF RendezvousStep
  <2> QED
    BY <1>a, <2>1, <2>2, <2>5
<1>5. ASSUME NEW t \in Thread, Resume(t)
      PROVE  Goal
  <2> DEFINE q == resume_thread(K0, t, SUSPENDED)
  <2>1. Handled(q)
    BY <1>0, ResumeHandled
  <2>2. EndpointFrame(K0, q)
    BY <1>c, ResumeThread
  <2> QED
    BY <1>5, <1>a, <1>d, <2>1, <2>2 DEF Resume
<1>6. ASSUME NEW t \in Thread, Suspend(t)
      PROVE  Goal
  <2> DEFINE q == suspend_thread(K0, t, SUSPENDED)
  <2>0. Trap("suspend", q) /\ (K0.runqueue[t] => PrevKnown(K0, t))
    BY <1>6, SuspendedKnown
  <2>1. Handled(q)
    BY <1>0, <2>0, SuspendHandled
  <2>2. EndpointFrame(K0, q)
    BY <1>c, <2>0, SuspendThread
  <2> QED
    BY <1>a, <1>d, <2>0, <2>1, <2>2
<1>7. ASSUME NEW e \in Endpoint, AllocEndpoint(e)
      PROVE  Goal
  <2> DEFINE q == alloc_endpoint(K0, e)
  <2>1. e \notin K0.endpoints /\ Trap("alloc_endpoint", q)
    BY <1>0, <1>7 DEF AllocEndpoint
  <2>2. Handled(q)
    BY <1>0, <2>1, NewEndpoint
  <2>3. ReopenStep(K0, q, e)
    BY <1>0, <2>1, AllocRendezvous
  <2> HIDE DEF q
  <2> QED
    BY <1>a, <2>1, <2>2, <2>3 DEF RendezvousStep
<1>8. ASSUME NEW e \in Endpoint, DeleteEndpoint(e)
      PROVE  Goal
  <2> DEFINE q == endpoint_destructor(K0, e)
  <2>1. e \in K0.endpoints /\ Trap("delete_endpoint", q)
    BY <1>0, <1>8 DEF DeleteEndpoint
  <2>2. Handled(q)
    BY <1>0, <2>1, DestroyEndpoint
  <2>3. ReopenStep(K0, q, e)
    BY <1>0, <2>1, DestroyRendezvous
  <2> HIDE DEF q
  <2> QED
    BY <1>a, <2>1, <2>2, <2>3 DEF RendezvousStep
<1> QED
  BY <1>1, <1>2, <1>3, <1>4, <1>5, <1>6, <1>7, <1>8 DEF Next

(* The mapping reads the same off K, and off the state a trap starts in.   *)
LEMMA Mapped ==
  /\ K0.endpoints = endpoints /\ K0.delivery = NULL
  /\ SendersOf(K0) = [e \in Endpoint |-> Letters(e)]
  /\ ReceiversOf(K0) = [e \in Endpoint |-> QueueOf(blocked_receiving[e], blocked_queue.next)]
  /\ UnusedInv(K) <=> UnusedInv(K0)
  /\ K.endpoints = endpoints /\ K.delivery = delivery
  /\ SendersOf(K) = [e \in Endpoint |-> Letters(e)]
  /\ ReceiversOf(K) = [e \in Endpoint |-> QueueOf(blocked_receiving[e], blocked_queue.next)]
<1>1. /\ K.endpoints = endpoints /\ K.delivery = delivery
      /\ K.blocked_sending = blocked_sending /\ K.blocked_receiving = blocked_receiving
      /\ K.blocked_queue = blocked_queue /\ K.sending_badge = sending_badge
      /\ K.message_buffer = message_buffer
  BY DEF K
<1>2. /\ K0.endpoints = endpoints /\ K0.delivery = NULL
      /\ K0.blocked_sending = blocked_sending /\ K0.blocked_receiving = blocked_receiving
      /\ K0.blocked_queue = blocked_queue /\ K0.sending_badge = sending_badge
      /\ K0.message_buffer = message_buffer
  BY DEF K0, K
<1>3. /\ SendersOf(K) = [e \in Endpoint |-> Letters(e)]
      /\ ReceiversOf(K) = [e \in Endpoint |-> QueueOf(blocked_receiving[e], blocked_queue.next)]
  BY <1>1 DEF SendersOf, ReceiversOf, SendingOf, QueuesOf, Letters, LettersFrom
<1>4. /\ SendersOf(K0) = [e \in Endpoint |-> Letters(e)]
      /\ ReceiversOf(K0) = [e \in Endpoint |-> QueueOf(blocked_receiving[e], blocked_queue.next)]
  BY <1>2 DEF SendersOf, ReceiversOf, SendingOf, QueuesOf, Letters, LettersFrom
<1>5. UnusedInv(K) <=> UnusedInv(K0)
  BY <1>1, <1>2 DEF UnusedInv
<1> QED
  BY <1>1, <1>2, <1>3, <1>4, <1>5

(* What a trap does to the mapped variables is a step of Rendezvous.       *)
LEMMA StepRefines ==
  ASSUME K \in KernelState, RendezvousStep(K0, K')
  PROVE  Endpoints!Next
<1> DEFINE S == [e \in Endpoint |-> Letters(e)]
           R == [e \in Endpoint |-> QueueOf(blocked_receiving[e], blocked_queue.next)]
           D == IF delivery = NULL THEN NULL
                ELSE [to |-> delivery.to, badge |-> delivery.badge, buffer |-> delivery.buffer]
<1>0. /\ K0.endpoints = endpoints /\ K0.delivery = NULL
      /\ SendersOf(K0) = S /\ ReceiversOf(K0) = R
  BY Mapped
<1>1. /\ K'.endpoints = endpoints' /\ K'.delivery = delivery'
      /\ SendersOf(K') = S' /\ ReceiversOf(K') = R'
  <2>1. /\ K'.endpoints = endpoints' /\ K'.delivery = delivery'
        /\ K'.blocked_sending = blocked_sending' /\ K'.blocked_receiving = blocked_receiving'
        /\ K'.blocked_queue = blocked_queue' /\ K'.sending_badge = sending_badge'
        /\ K'.message_buffer = message_buffer'
    BY DEF K
  <2>2. SendersOf(K') = S' /\ ReceiversOf(K') = R'
    BY <2>1 DEF SendersOf, ReceiversOf, SendingOf, QueuesOf, Letters, LettersFrom
  <2> QED
    BY <2>1, <2>2
<1>2. endpoints \subseteq Endpoint
  BY DEF K, KernelState
<1>3. D' = IF delivery' = NULL THEN NULL
           ELSE [to |-> delivery'.to, badge |-> delivery'.badge, buffer |-> delivery'.buffer]
  OBVIOUS
<1>4. ASSUME NEW t, NEW badge, NEW buffer, Delivers(K', t, badge, buffer)
      PROVE  D' = [to |-> t, badge |-> badge, buffer |-> buffer]
  <2>1. delivery' # NULL
    BY <1>1, <1>4, DeliveryAssumption DEF Delivers
  <2> QED
    BY <1>1, <1>3, <1>4, <2>1 DEF Delivers
<1>5. ASSUME NEW t, WaitsNowhere(K0, t)
      PROVE  ~Endpoints!Waits(t)
  BY <1>0, <1>5 DEF WaitsNowhere, Endpoints!Waits
<1>6. LettersSent = Endpoints!Letter
  BY DEF LettersSent, Sendable, Endpoints!Letter
<1>7. ASSUME OtherStep(K0, K')
      PROVE  Endpoints!Next
  BY <1>0, <1>1, <1>3, <1>7 DEF OtherStep, Endpoints!Next, Endpoints!Other
<1>8. ASSUME NEW e \in Endpoint, ReopenStep(K0, K', e)
      PROVE  Endpoints!Next
  <2>1. Endpoints!Reopen(e)
    BY <1>0, <1>1, <1>3, <1>8 DEF ReopenStep, Endpoints!Reopen
  <2> QED
    BY <2>1 DEF Endpoints!Next
<1>9. ASSUME NEW e \in endpoints, NEW letter \in LettersSent, SendStep(K0, K', e, letter)
      PROVE  Endpoints!Next
  <2>1. /\ endpoints' = endpoints /\ ~Endpoints!Waits(letter.from)
        /\ R[e] = <<>> => /\ S' = [S EXCEPT ![e] = Append(@, letter)]
                          /\ R' = R /\ D' = NULL
        /\ R[e] # <<>> => /\ R' = [R EXCEPT ![e] = Tail(@)]
                          /\ S' = S
                          /\ D' = [to |-> Head(R[e]), badge |-> letter.badge,
                                   buffer |-> letter.buffer]
    <3> HIDE DEF S, R, D
    <3> QED
      BY <1>0, <1>1, <1>3, <1>4, <1>5, <1>9 DEF SendStep
  <2>2. Endpoints!Send(e, letter)
    BY <2>1 DEF Endpoints!Send, Endpoints!HandOver
  <2> QED
    BY <1>2, <1>6, <2>2 DEF Endpoints!Next
<1>10. ASSUME NEW e \in endpoints, NEW t \in Thread, ReceiveStep(K0, K', e, t)
       PROVE  Endpoints!Next
  <2>1. /\ endpoints' = endpoints /\ ~Endpoints!Waits(t)
        /\ S[e] = <<>> => /\ R' = [R EXCEPT ![e] = Append(@, t)]
                          /\ S' = S /\ D' = NULL
        /\ S[e] # <<>> => /\ S' = [S EXCEPT ![e] = Tail(@)]
                          /\ R' = R
                          /\ D' = [to |-> t, badge |-> Head(S[e]).badge,
                                   buffer |-> Head(S[e]).buffer]
    <3> HIDE DEF S, R, D
    <3> QED
      BY <1>0, <1>1, <1>3, <1>4, <1>5, <1>10 DEF ReceiveStep
  <2>2. Endpoints!Receive(e, t)
    BY <2>1 DEF Endpoints!Receive, Endpoints!HandOver
  <2> QED
    BY <1>2, <2>2 DEF Endpoints!Next
<1> QED
  BY <1>0, <1>7, <1>8, <1>9, <1>10 DEF RendezvousStep

(* At boot no endpoint exists and nobody waits.                            *)
LEMMA RendezvousInit == Init => Endpoints!Init /\ UnusedInv(K)
<1> SUFFICES ASSUME Init PROVE Endpoints!Init /\ UnusedInv(K)
  OBVIOUS
<1>1. /\ endpoints = {} /\ delivery = NULL
      /\ blocked_sending = [e \in Endpoint |-> LIST_INIT]
      /\ blocked_receiving = [e \in Endpoint |-> LIST_INIT]
      /\ blocked_queue = NoLinks(Thread)
  BY DEF Init
<1>2. blocked_queue.next \in [Thread -> Thread \cup {NULL}]
  BY <1>1 DEF NoLinks
<1>3. QueueOf(LIST_INIT, blocked_queue.next) = <<>>
  BY <1>2, SequenceEmpty, ThreadAssumption
<1>4. [e \in Endpoint |-> QueueOf(blocked_receiving[e], blocked_queue.next)]
        = [e \in Endpoint |-> <<>>]
  BY <1>1, <1>3
<1>5. ASSUME NEW e \in Endpoint
      PROVE  Letters(e) = <<>>
  <2>1. QueueOf(blocked_sending[e], blocked_queue.next) = <<>>
    BY <1>1, <1>3
  <2> QED
    BY <2>1 DEF Letters
<1>6. [e \in Endpoint |-> Letters(e)] = [e \in Endpoint |-> <<>>]
  BY <1>5
<1>7. Endpoints!Init
  BY <1>1, <1>4, <1>6 DEF Endpoints!Init
<1>8. UnusedInv(K)
  <2>1. K.blocked_sending = blocked_sending /\ K.blocked_receiving = blocked_receiving
    BY DEF K
  <2> QED
    BY <1>1, <2>1 DEF UnusedInv, Unused
<1> QED
  BY <1>7, <1>8

(* Every step maps to a step of Rendezvous or changes nothing there.       *)
LEMMA RendezvousNext ==
  ASSUME "suspend_stale" \notin Calls, IInv(K), UnusedInv(K), [Next]_vars
  PROVE  [Endpoints!Next]_(Endpoints!vars) /\ UnusedInv(K)'
<1>1. CASE Next
  <2>1. UnusedInv(K0)
    BY Mapped
  <2>2. RendezvousStep(K0, K')
    BY <1>1, <2>1, TrapRendezvous
  <2>3. K \in KernelState
    BY DEF IInv
  <2>4. Endpoints!Next
    BY <2>2, <2>3, StepRefines
  <2>5. UnusedInv(K')
    BY <2>2 DEF RendezvousStep, OtherStep, SendStep, ReceiveStep, ReopenStep
  <2> QED
    BY <2>4, <2>5
<1>2. CASE UNCHANGED vars
  <2>1. /\ endpoints' = endpoints /\ delivery' = delivery
        /\ blocked_sending' = blocked_sending /\ blocked_receiving' = blocked_receiving
        /\ blocked_queue' = blocked_queue /\ sending_badge' = sending_badge
        /\ message_buffer' = message_buffer
    BY <1>2 DEF vars, ipcVars
  <2>2. UNCHANGED Endpoints!vars
    BY <2>1 DEF Endpoints!vars, Letters
  <2>3. K'.blocked_sending = K.blocked_sending /\ K'.blocked_receiving = K.blocked_receiving
        /\ K'.endpoints = K.endpoints
    BY <2>1 DEF K
  <2>4. UnusedInv(K')
    BY <2>3 DEF UnusedInv
  <2> QED
    BY <2>2, <2>4
<1> QED
  BY <1>1, <1>2

(* endpoint_send and endpoint_receive hand every message over once, in     *)
(* order, to one thread, with the badge and the payload it was sent with,  *)
(* whatever traps come between: for any number of threads and endpoints    *)
(* the kernel's queues implement the rendezvous that endpoints promise.    *)
THEOREM RefinementCorrect ==
  ASSUME "suspend_stale" \notin Calls
  PROVE  Spec => ImplementsRendezvous
<1>1. Init => Endpoints!Init /\ UnusedInv(K)
  BY RendezvousInit
<1>2. Inv /\ UnusedInv(K) /\ [Next]_vars => [Endpoints!Next]_(Endpoints!vars) /\ UnusedInv(K)'
  BY RendezvousNext DEF Inv
<1> QED
  BY <1>1, <1>2, Invariance, PTL DEF Spec, ImplementsRendezvous, Endpoints!Spec
=============================================================================
