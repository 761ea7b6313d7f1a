------------------------------- MODULE MCIpc --------------------------------
(* Small instances of Ipc for TLC. *)
EXTENDS IpcRefinement, TLC

CONSTANTS t1, t2, t3, x, y, node, file, s1, s2, elsewhere

NoCapabilities == [i \in IPC_CAPABILITY_SLOTS |-> NULL]

(* Messages without capabilities: for the runs about scheduling. *)
PlainSend == {[buffer |-> "m", capabilities |-> NoCapabilities, to_copy |-> {}]}
PlainRecv == {[buffer |-> "", capabilities |-> NoCapabilities, to_copy |-> {}]}
NoSlots == [t \in Thread |-> [s \in Slot |-> NULL]]

(* Messages with up to two capabilities, whose addresses may coincide, be  *)
(* absent or lie outside the thread's capability space.                    *)
First2(a, b) == [i \in IPC_CAPABILITY_SLOTS |-> CASE i = 0 -> a [] i = 1 -> b [] OTHER -> NULL]
CapSend == {[buffer |-> "m", capabilities |-> First2(a, b), to_copy |-> c] :
              a \in {s1, s2}, b \in {NULL, s1, s2, elsewhere}, c \in SUBSET {0, 1}}
CapRecv == {[buffer |-> "", capabilities |-> First2(a, b), to_copy |-> {}] :
              a \in {NULL, s1, s2}, b \in {s1, s2, elsewhere}}
RootSlots == [t \in Thread |-> [s \in Slot |->
                IF t = t1 THEN [resource |-> IF s = s1 THEN node ELSE file, original |-> TRUE]
                ELSE NULL]]

Symmetry == Permutations(Thread) \cup Permutations(Endpoint)

(***************************************************************************)
(* The state without what no step reads again: the links of a thread that  *)
(* is in no list (LIST_APPEND writes both before anything reads them), the *)
(* message and badge of a thread that is not blocked, `prev` in the queues *)
(* of endpoints (threads are not destroyed here) and a wrong `prev` on the *)
(* run queue (the call suspend_stale is in no run).                        *)
(***************************************************************************)
Live(P(_), f) == [t \in Thread |-> IF P(t) THEN f[t] ELSE NULL]
Queued(t) == runqueue[t]
KnownQueued(t) == runqueue[t] /\ RunnerKnown(t)
Blocked(t) == blocked_on[t] # NULL
LiveState ==
  <<exec_mode, {t \in Thread : KnownQueued(t)}, Live(KnownQueued, runqueue_entry.prev),
    Live(Queued, runqueue_entry.next), priority_queue, current_thread,
    pending_context_switch, currently_running, saved, cpu, endpoints,
    blocked_sending, blocked_receiving, Live(Blocked, blocked_queue.next),
    blocked_on, blocked_flags, runqueue,
    Live(Blocked, sending_badge), Live(Blocked, message_buffer), delivery,
    slots>>
=============================================================================
