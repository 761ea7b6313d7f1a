-------------------------- MODULE MCKernelObjects ---------------------------
(* Small instances of KernelObjects for TLC. *)
EXTENDS KernelObjects, TLC

CONSTANTS t1, t2, t3, t4, x, y

NoCapabilities == [i \in IPC_CAPABILITY_SLOTS |-> NULL]
PlainSend == {[buffer |-> "m", capabilities |-> NoCapabilities, to_copy |-> {}]}
PlainRecv == {[buffer |-> "", capabilities |-> NoCapabilities, to_copy |-> {}]}
NoSlots == [t \in Thread |-> [s \in Slot |-> NULL]]

(* Ids 1 and 3 collide. *)
Hash(id) == id % 2

(***************************************************************************)
(* What a step may still read, with a thread's id in the place of its      *)
(* address: nothing of memory that is not a thread, no links of a thread   *)
(* that is in no list, no wrong `prev` (the calls that would read it are   *)
(* not in the run, and it does not become right again before the thread    *)
(* leaves the queue), no message of a thread that is not blocked.          *)
(***************************************************************************)
IdOf(t) == IF t \in allocated THEN thread_id[t] ELSE NULL
Links(c, f, M, t) == <<IF PrevAccurate(c, f, M, t) THEN IdOf(f.prev[t]) ELSE "wrong", IdOf(f.next[t])>>
Ends(c) == <<IdOf(c.start), IdOf(c.end)>>

RunnerLinks(t) ==
  IF runqueue[t] THEN Links(priority_queue, runqueue_entry, {u \in allocated : runqueue[u]}, t)
  ELSE NULL
WaiterLinks(t) ==
  LET e == blocked_on[t]
  IN  IF e = NULL THEN NULL
      ELSE IF t \in Sending(e) THEN Links(blocked_sending[e], blocked_queue, Sending(e), t)
      ELSE Links(blocked_receiving[e], blocked_queue, Receiving(e), t)

LiveThread(t) ==
  <<thread_id[t], root[t], exec_mode[t], currently_running[t], saved[t],
    runqueue[t], RunnerLinks(t), blocked_on[t], blocked_flags[t], WaiterLinks(t),
    IdOf(table_entry.prev[t]), IdOf(table_entry.next[t])>>

LiveState ==
  <<{LiveThread(t) : t \in allocated}, Ends(priority_queue), IdOf(current_thread), IdOf(cpu),
    pending_context_switch, used_thread_ids,
    [e \in endpoints |-> <<Ends(blocked_sending[e]), Ends(blocked_receiving[e])>>],
    [b \in Bucket |-> Ends(thread_hash_table[b])]>>

Symmetry == Permutations(Endpoint)
=============================================================================
