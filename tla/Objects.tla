------------------------------ MODULE Objects -------------------------------
(***************************************************************************)
(* Threads and an interrupt handler that share one object: a mailbox, a    *)
(* message queue, an event, a memory pool, a completion or the console.    *)
(***************************************************************************)
EXTENDS Mailbox, MessageQueue, Event, Mempool, Completion,
        Serial

ASSUME KindsAssumption ==
    Kinds \subseteq {"mailbox", "queue", "event", "pool", "completion",
               "serial"}

ObjectsInit ==
    /\ Init
    /\ obj \in MailboxInit \cup MessageQueueInit \cup EventInit
               \cup MempoolInit \cup CompletionInit \cup SerialInit
    /\ call = [t \in Thread \cup {Handler} |-> NoCall]

ObjectsNext ==
    \/ Elsewhere \/ BlockSchedule \/ WaitFailed
    \/ MbStep \/ MqStep \/ EventStep \/ MpStep \/ CompletionStep
    \/ SerialStep

ObjectsSpec == ObjectsInit /\ [][ObjectsNext]_allVars

-----------------------------------------------------------------------------
ObjectsTypeOK ==
    /\ k \in KernelState
    /\ pc \in [Thread -> Label \cup {"block", "woken", "fill", "copy",
                                     "retry", "done", "ask"}]
    /\ IsMailbox \/ IsQueue => obj.entry \in 0 .. Capacity
    /\ IsMailbox =>
          /\ obj.msg_pool \in [0 .. (Capacity - 1) -> Message \cup {Nothing}]
          /\ {obj.in_offset, obj.out_offset} \subseteq 0 .. (Capacity - 1)
    /\ IsQueue => /\ obj.next \in [Cell -> Cell \cup {Null}]
                  /\ obj.data \in [Cell -> Message \cup {Nothing}]
    /\ IsEvent => obj.set \subseteq EventBit
    /\ IsSerial => /\ {obj.put_index, obj.get_index} \subseteq Index
                   /\ obj.rx_sem \in 0 .. RxValueMax
    /\ IsPool => obj.header \in [Block_ -> Block_ \cup {NoBlock, Pool}]

-----------------------------------------------------------------------------
(* The mailbox and the message queue as queues *)

Content == IF IsMailbox THEN Mails ELSE IF IsQueue THEN Messages ELSE <<>>

\* The message that a receiver has unlinked and not copied yet.
InHand ==
    [t \in Thread \cup {Handler} |->
        IF IsQueue /\ t \in Carrying /\ call[t].op = "recv"
        THEN obj.data[call[t].cell] ELSE Nothing]

Queue == INSTANCE BoundedQueue
             WITH Receiver <- Thread \cup {Handler}, queue <- Content, held <- InHand

\* The ring of the mailbox and the linked cells of the message queue are a
\* bounded queue: messages leave in the order they were linked, urgent ones
\* first, only at the front or all together by a reset, and none is doubled
\* or changed, in the queue or while a receiver copies it, whatever way
\* senders, receivers, an interrupt handler and a reset cross.
ImplementsQueue == Queue!Spec

-----------------------------------------------------------------------------
(* Wakeups *)

\* What the threads on each list wait for.
Offered(w) ==
    CASE IsMailbox -> IF w = Receivers THEN obj.entry ELSE Capacity - obj.entry
      [] IsQueue   -> IF w = Receivers THEN obj.entry ELSE Len(Spare)
      [] IsPool    -> obj.block_free_count
      [] OTHER     -> 0

\* The calls that wait there.
WaitingOp(w) ==
    IF IsPool THEN "alloc" ELSE IF w = Receivers THEN "recv" ELSE "send"

\* No lost wakeup: where threads wait for messages, for room or for blocks,
\* all that is there is for threads that were woken and are on their way to
\* fetch it, whoever else takes or gives in the meantime, times out or
\* resets.
WaitersServed ==
    \A w \in WaitList :
        k.wait[w] # <<>> => Offered(w) <= Cardinality(Woken(WaitingOp(w)))
=============================================================================
