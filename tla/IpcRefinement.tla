--------------------------- MODULE IpcRefinement ----------------------------
(* The endpoints of Ipc as an implementation of Rendezvous.                *)
EXTENDS Ipc

(***************************************************************************)
(* The refinement mapping to Rendezvous: a queue of threads is the         *)
(* sequence found by following `next` from `start`.                        *)
(***************************************************************************)
QueueOf(c, next) ==
  LET n == Cardinality(Members(Thread, c.start, next))
      at[i \in 1..n] == IF i = 1 THEN c.start ELSE next[at[i - 1]]
  IN  at

Letters(e) ==
  LET q == QueueOf(blocked_sending[e], blocked_queue.next)
  IN  [i \in DOMAIN q |-> [from |-> q[i], badge |-> sending_badge[q[i]],
                           buffer |-> message_buffer[q[i]].buffer]]

Endpoints == INSTANCE Rendezvous WITH
  Buffer    <- {m.buffer : m \in SendMessages},
  open      <- endpoints,
  senders   <- [e \in Endpoint |-> Letters(e)],
  receivers <- [e \in Endpoint |-> QueueOf(blocked_receiving[e], blocked_queue.next)],
  delivery  <- IF delivery = NULL THEN NULL
               ELSE [to |-> delivery.to, badge |-> delivery.badge, buffer |-> delivery.buffer]

(* The kernel's endpoints implement the rendezvous they promise: messages  *)
(* are handed over once, in order, with the sender's badge and payload,    *)
(* and no waiting thread ever runs.                                        *)
ImplementsRendezvous == Endpoints!Spec
=============================================================================
