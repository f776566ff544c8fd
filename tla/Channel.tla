------------------------------ MODULE Channel -------------------------------
(* The parameters that the mailbox and the message queue share. *)
EXTENDS Waiting

CONSTANTS
    Message,    \* the values that are sent
    Capacity,   \* mb->size, mq->max_msgs
    EntryMax,   \* RT_MB_ENTRY_MAX, RT_MQ_ENTRY_MAX
    Nothing     \* no message

\* mb->size and mq->max_msgs are of the type whose maximum EntryMax is.
ASSUME CapacityAssumption ==
    Capacity \in Nat \ {0} /\ EntryMax \in Nat /\ Capacity <= EntryMax
ASSUME NothingAssumption == Nothing \notin Message
=============================================================================
