----------------------------- MODULE Rendezvous -----------------------------
(***************************************************************************)
(* What endpoints promise: synchronous, first-come first-served message    *)
(* passing.  A thread that sends waits until its message is taken, one     *)
(* that receives waits until it is given a message; each message goes to   *)
(* exactly one receiver, with the badge of the capability it was sent      *)
(* through, and a thread that waits does nothing else.  There are no       *)
(* lists, flags or run queues here.                                        *)
(***************************************************************************)
EXTENDS Sequences

CONSTANTS Thread, Endpoint, Badge, Buffer, NULL

VARIABLES
  open,       \* the endpoints that exist
  senders,    \* endpoint -> the messages waiting, oldest first
  receivers,  \* endpoint -> the threads waiting for one, oldest first
  delivery    \* the message handed over in the last step, or NULL

vars == <<open, senders, receivers, delivery>>

Letter == [from : Thread, badge : Badge, buffer : Buffer]

Init == /\ open = {}
        /\ senders = [e \in Endpoint |-> <<>>]
        /\ receivers = [e \in Endpoint |-> <<>>]
        /\ delivery = NULL

Waits(t) == \E e \in Endpoint :
              \/ \E i \in DOMAIN senders[e] : senders[e][i].from = t
              \/ \E i \in DOMAIN receivers[e] : receivers[e][i] = t

HandOver(letter, t) == delivery' = [to |-> t, badge |-> letter.badge,
                                    buffer |-> letter.buffer]

Send(e, letter) ==
  /\ e \in open
  /\ IF receivers[e] = <<>>
     THEN /\ senders' = [senders EXCEPT ![e] = Append(@, letter)]
          /\ delivery' = NULL
          /\ UNCHANGED receivers
     ELSE /\ HandOver(letter, Head(receivers[e]))
          /\ receivers' = [receivers EXCEPT ![e] = Tail(@)]
          /\ UNCHANGED senders
  /\ ~Waits(letter.from)
  /\ UNCHANGED open

Receive(e, t) ==
  /\ e \in open
  /\ IF senders[e] = <<>>
     THEN /\ receivers' = [receivers EXCEPT ![e] = Append(@, t)]
          /\ delivery' = NULL
          /\ UNCHANGED senders
     ELSE /\ HandOver(Head(senders[e]), t)
          /\ senders' = [senders EXCEPT ![e] = Tail(@)]
          /\ UNCHANGED receivers
  /\ ~Waits(t)
  /\ UNCHANGED open

(* An endpoint comes into being, or goes and releases whoever waits on it. *)
Reopen(e) == /\ open' = IF e \in open THEN open \ {e} ELSE open \cup {e}
             /\ senders' = [senders EXCEPT ![e] = <<>>]
             /\ receivers' = [receivers EXCEPT ![e] = <<>>]
             /\ delivery' = NULL

(* Threads do something else. *)
Other == delivery' = NULL /\ UNCHANGED <<open, senders, receivers>>

Next == \/ Other
        \/ \E e \in Endpoint : \/ Reopen(e)
                               \/ \E letter \in Letter : Send(e, letter)
                               \/ \E t \in Thread : Receive(e, t)

Spec == Init /\ [][Next]_vars
=============================================================================
