---------------------------- MODULE BoundedQueue ----------------------------
(***************************************************************************)
(* What a mailbox and a message queue of rt-thread/src/ipc.c promise: a    *)
(* queue of at most Capacity messages that are put at its end, or, urgent  *)
(* ones, at its front, and taken from its front one by one, each by one    *)
(* receiver.  A receiver may hold the message it took for a while before   *)
(* it returns with it.                                                     *)
(***************************************************************************)
EXTENDS Naturals, Sequences

CONSTANTS
    Message, Receiver, Capacity,
    Nothing     \* what a receiver holds that has taken no message

VARIABLES
    queue,      \* the messages in the order of their reception
    held        \* the message each receiver has taken and not returned yet

Init == queue = <<>> /\ held = [r \in Receiver |-> Nothing]

Put(m) ==
    /\ Len(queue) < Capacity
    /\ queue' = Append(queue, m)
    /\ UNCHANGED held

PutFirst(m) ==
    /\ Len(queue) < Capacity
    /\ queue' = <<m>> \o queue
    /\ UNCHANGED held

\* A receiver takes the first message, and returns with it ...
Take(r) ==
    /\ queue # <<>> /\ held[r] = Nothing
    /\ held' = [held EXCEPT ![r] = Head(queue)]
    /\ queue' = Tail(queue)

Return(r) ==
    /\ held[r] # Nothing
    /\ held' = [held EXCEPT ![r] = Nothing]
    /\ UNCHANGED queue

\* ... or does both in one step.
Receive ==
    /\ queue # <<>>
    /\ queue' = Tail(queue)
    /\ UNCHANGED held

Clear == queue' = <<>> /\ UNCHANGED held

Next ==
    \/ \E m \in Message : Put(m) \/ PutFirst(m)
    \/ \E r \in Receiver : Take(r) \/ Return(r)
    \/ Receive \/ Clear

Spec == Init /\ [][Next]_<<queue, held>>
=============================================================================
