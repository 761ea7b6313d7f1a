----------------------------- MODULE Scheduler ------------------------------
(***************************************************************************)
(* The scheduler of the kernel, src/core/kernel/scheduler.c.               *)
(*                                                                         *)
(* The kernel runs with interrupts masked: from a trap to the return to    *)
(* user mode nothing else happens, so a trap is one atomic step.  Inside   *)
(* it, functions of several files change the state one after the other.    *)
(* Each C function is therefore an operator from a kernel state k to a     *)
(* kernel state, k being a record with one field per variable below (and   *)
(* per variable of the modules that extend this one), and the trap is      *)
(* their composition.                                                      *)
(*                                                                         *)
(* Abstractions: of the 64 priority queues only number 63 is ever used     *)
(* (queue_thread has priorities as a TODO), so there is one queue and      *)
(* `thread->runqueue` says whether the thread is on it.  A register file   *)
(* is modelled by whose it is: `cpu` is the thread whose context the       *)
(* processor holds, NULL being the idle loop; saved[t] says that           *)
(* thread->registers is the context t must continue from.                  *)
(***************************************************************************)
EXTENDS LinkedList

CONSTANT Thread

ASSUME ThreadAssumption == NULL \notin Thread

VARIABLES
  exec_mode,              \* thread->exec_mode, as the set of its bits
  runqueue,               \* thread->runqueue # NULL
  runqueue_entry,         \* thread->runqueue_entry
  priority_queue,         \* scheduler_state.priority_queues[63]
  current_thread,         \* scheduler_state.current_thread
  pending_context_switch, \* scheduler_state.pending_context_switch
  currently_running,      \* thread->flags & THREAD_CURRENTLY_RUNNING
  saved,                  \* thread->registers is up to date
  cpu                     \* whose context the processor's registers hold

schedulerVars == <<exec_mode, runqueue, runqueue_entry, priority_queue,
                   current_thread, pending_context_switch, currently_running,
                   saved, cpu>>

BLOCKED == "BLOCKED"
SUSPENDED == "SUSPENDED"
ExecMode == SUBSET {BLOCKED, SUSPENDED}
RUNNING == {}

(* Mutant: a thread that is queued already is queued again. *)
queue_thread_again(k, t) ==
  LET l == LIST_APPEND(k.priority_queue, k.runqueue_entry, t)
  IN  [k EXCEPT !.runqueue[t] = TRUE,
                !.priority_queue = l.container,
                !.runqueue_entry = l.field]

queue_thread(k, t) ==
  IF k.runqueue[t] THEN k
  ELSE LET l == LIST_APPEND(k.priority_queue, k.runqueue_entry, t)
       IN  [k EXCEPT !.runqueue[t] = TRUE,
                     !.priority_queue = l.container,
                     !.runqueue_entry = l.field]

resume_thread(k, t, reason) ==
  LET k1 == [k EXCEPT !.exec_mode[t] = @ \ {reason}]
      k2 == queue_thread(k1, t)
  IN  IF k1.exec_mode[t] # RUNNING THEN k1
      ELSE [k2 EXCEPT !.pending_context_switch = @ \/ k.current_thread = NULL]

suspend_thread(k, t, new_exec_mode) ==
  LET k1 == [k EXCEPT !.pending_context_switch = @ \/ k.current_thread = t,
                      !.exec_mode[t] = @ \cup {new_exec_mode}]
      l  == LIST_REMOVE(k.priority_queue, k.runqueue_entry, t)
  IN  IF ~k.runqueue[t] THEN k1
      ELSE [k1 EXCEPT !.runqueue[t] = FALSE,
                      !.priority_queue = l.container,
                      !.runqueue_entry = l.field]

yield_thread(k) == [k EXCEPT !.pending_context_switch = TRUE]

(* Lines 90-102: the first thread of the queue, if there is one, leaves it. *)
take_next_thread(k) ==
  LET l == LIST_POP_FROM_START(k.priority_queue, k.runqueue_entry)
  IN  IF ~LIST_CAN_POP(k.priority_queue) THEN k
      ELSE [k EXCEPT !.priority_queue = l.container,
                     !.runqueue_entry = l.field,
                     !.runqueue[k.priority_queue.start] = FALSE]

(* Mutant: THREAD_CURRENTLY_RUNNING stays set. *)
save_registers_only(k, t) == [k EXCEPT !.saved[t] = (k.cpu = t)]

(* `thread->registers = *registers` and clearing THREAD_CURRENTLY_RUNNING. *)
save_registers(k, t) ==
  [k EXCEPT !.saved[t] = (k.cpu = t),
            !.currently_running[t] = FALSE]

(* Mutant: the thread that is preempted is not queued again. *)
pause_without_queueing(k, next) ==
  LET t == k.current_thread
  IN  IF t = NULL THEN k
      ELSE IF k.exec_mode[t] = RUNNING
      THEN IF next = NULL THEN k ELSE save_registers(k, t)
      ELSE [save_registers(k, t) EXCEPT !.current_thread = NULL]

(* Lines 111-136: the thread that was running is queued again if another   *)
(* one preempts it, and is put aside if it may no longer run.              *)
pause_current_thread(k, next) ==
  LET t == k.current_thread
  IN  IF t = NULL THEN k
      ELSE IF k.exec_mode[t] = RUNNING
      THEN IF next = NULL THEN k ELSE queue_thread(save_registers(k, t), t)
      ELSE [save_registers(k, t) EXCEPT !.current_thread = NULL]

(* Lines 138-152: the next thread's context is loaded, or the idle loop is *)
(* entered when nothing is left to run.                                    *)
load_thread(k, next) ==
  IF next # NULL
  THEN [k EXCEPT !.cpu = IF k.saved[next] THEN next ELSE NULL,
                 !.saved[next] = FALSE,
                 !.current_thread = next,
                 !.currently_running[next] = TRUE]
  ELSE IF k.current_thread = NULL THEN [k EXCEPT !.cpu = NULL]
  ELSE k

try_context_switch(k) ==
  LET k1   == [k EXCEPT !.pending_context_switch = FALSE]
      next == k.priority_queue.start
  IN  IF ~k.pending_context_switch THEN k
      ELSE load_thread(pause_current_thread(take_next_thread(k1), next), next)
=============================================================================
