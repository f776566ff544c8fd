---------------------------- MODULE MessageQueue ----------------------------
(***************************************************************************)
(* The message queue of rt-thread/src/ipc.c: Capacity cells, linked into   *)
(* the queue (msg_queue_head .. msg_queue_tail) or into the free list      *)
(* (msg_queue_free).  A sender unlinks a free cell in one critical         *)
(* section, fills it with interrupts enabled and links it in a second one; *)
(* a receiver unlinks, copies and frees in the same way.  The copy is      *)
(* modelled with the second critical section: in between nobody else       *)
(* touches a cell in a caller's hands, which is what CellsAccounted says.  *)
(***************************************************************************)
EXTENDS Channel

Null == 0
Cell == 1 .. Capacity

\* rt_mq_init: the cells are pushed on the free list one by one.
MessageQueueInit ==
    [kind : {"queue"} \cap Kinds, flag : Flags,
     next : {[c \in Cell |-> c - 1]}, data : [Cell -> {Nothing}],
     msg_queue_head : {Null}, msg_queue_tail : {Null},
     msg_queue_free : {Capacity}, entry : {0}]

IsQueue == obj.kind = "queue"

\* The cells of the queue and the free cells.
Queued == Chain(obj.next, obj.msg_queue_head, Capacity)

Spare == Chain(obj.next, obj.msg_queue_free, Capacity)

-----------------------------------------------------------------------------
(* The lists *)

\* msg_queue_free is advanced past the cell a sender takes.
Allotted(o) == [o EXCEPT !.msg_queue_free = o.next[o.msg_queue_free]]

Counted(o) == [o EXCEPT !.entry = IF @ < EntryMax THEN @ + 1 ELSE @]

\* The second half of rt_mq_send_wait.
Linked(o, c, m) ==
    LET tail == o.msg_queue_tail
        n == [o.next EXCEPT ![c] = Null]
    IN  Counted([o EXCEPT !.data[c] = m, !.msg_queue_tail = c,
                          !.next = IF tail # Null THEN [n EXCEPT ![tail] = c]
                                                  ELSE n,
                          !.msg_queue_head = IF @ = Null THEN c ELSE @])

\* Mistake: an urgent message to an empty queue does not become its tail.
LinkedFirst_NoTail(o, c, m) ==
    Counted([o EXCEPT !.data[c] = m, !.next[c] = o.msg_queue_head,
                      !.msg_queue_head = c])

\* The second half of rt_mq_urgent.
LinkedFirst(o, c, m) ==
    Counted([o EXCEPT !.data[c] = m, !.next[c] = o.msg_queue_head,
                      !.msg_queue_head = c,
                      !.msg_queue_tail = IF @ = Null THEN c ELSE @])

\* rt_mq_recv and the reset take the first message off the queue ...
Unlinked(o) ==
    LET c == o.msg_queue_head
    IN  [o EXCEPT !.msg_queue_head = o.next[c],
                  !.msg_queue_tail = IF @ = c THEN Null ELSE @]

\* ... and push its cell on the free list.
Freed(o, c) ==
    [o EXCEPT !.next[c] = o.msg_queue_free, !.msg_queue_free = c]

-----------------------------------------------------------------------------
(* rt_mq_send_wait, rt_mq_send, rt_mq_urgent *)

MqSendRound(m, time) ==
    \/ /\ obj.msg_queue_free # Null
       /\ obj' = Allotted(obj)
       /\ Enter([op |-> "send", msg |-> m, cell |-> obj.msg_queue_free])
       /\ GoOn("fill")
    \/ /\ obj.msg_queue_free = Null /\ time # 0
       /\ Block(Enqueue(Reset(k, Me), Senders, Me), time)
       /\ Enter([op |-> "send", msg |-> m, time |-> time])
       /\ UNCHANGED obj
    \/ /\ obj.msg_queue_free = Null /\ time = 0
       /\ Finish(Reset(k, Me))
       /\ UNCHANGED obj

MqSend(m, time) ==
    /\ IsQueue /\ Calling
    /\ time # 0 => k.lock = 0
    /\ obj.msg_queue_free # Null \/ time # 0
    /\ MqSendRound(m, time)

MqSendAgain ==
    /\ IsQueue /\ Inside("woken", "send") /\ k.error[Me] = "ok"
    /\ MqSendRound(call[Me].msg, Rest(Me))

MqSendEnd ==
    /\ IsQueue /\ Inside("fill", "send")
    /\ obj' = Linked(obj, call[Me].cell, call[Me].msg)
    /\ FinishWaking(Receivers)

MqUrgent(m) ==
    /\ IsQueue /\ Calling /\ obj.msg_queue_free # Null
    /\ obj' = Allotted(obj)
    /\ Enter([op |-> "urgent", msg |-> m, cell |-> obj.msg_queue_free])
    /\ GoOn("fill")

MqUrgentEnd ==
    /\ IsQueue /\ Inside("fill", "urgent")
    /\ obj' = LinkedFirst(obj, call[Me].cell, call[Me].msg)
    /\ FinishWaking(Receivers)

\* rt_mq_send and rt_mq_urgent in an interrupt handler.
MqSendIrq(op, m) ==
    /\ IsQueue /\ obj.msg_queue_free # Null
    /\ HandlerEnters([op |-> op, at |-> isr, msg |-> m,
                      cell |-> obj.msg_queue_free])
    /\ obj' = Allotted(obj)
    /\ UNCHANGED vars

MqSendIrqEnd ==
    LET h == call[Handler]
    IN  /\ IsQueue
        /\ \/ HandlerInside("send") /\ obj' = Linked(obj, h.cell, h.msg)
           \/ HandlerInside("urgent") /\ obj' = LinkedFirst(obj, h.cell, h.msg)
        /\ HandlerWakes(Receivers)
        /\ HandlerLeaves

-----------------------------------------------------------------------------
(* rt_mq_recv *)

MqRecvRound(time) ==
    \/ /\ obj.entry # 0
       /\ obj' = [Unlinked(obj) EXCEPT !.entry = @ - 1]
       /\ Enter([op |-> "recv", cell |-> obj.msg_queue_head])
       /\ GoOn("copy")
    \/ /\ obj.entry = 0 /\ time # 0
       /\ Block(Enqueue(Reset(k, Me), Receivers, Me), time)
       /\ Enter([op |-> "recv", time |-> time])
       /\ UNCHANGED obj
    \/ /\ obj.entry = 0 /\ time = 0
       /\ Finish([k EXCEPT !.error[Me] = "timeout"])
       /\ UNCHANGED obj

MqRecv(time) ==
    /\ IsQueue /\ Calling
    /\ time # 0 => k.lock = 0
    /\ obj.entry # 0 \/ time # 0
    /\ MqRecvRound(time)

MqRecvAgain ==
    /\ IsQueue /\ Inside("woken", "recv") /\ k.error[Me] = "ok"
    /\ MqRecvRound(Rest(Me))

\* Mistake: the cell is freed and no waiting sender is woken.
MqRecvEnd_NoWake ==
    /\ IsQueue /\ Inside("copy", "recv")
    /\ obj' = Freed(obj, call[Me].cell)
    /\ Finish(k)

MqRecvEnd ==
    /\ IsQueue /\ Inside("copy", "recv")
    /\ obj' = Freed(obj, call[Me].cell)
    /\ FinishWaking(Senders)

\* rt_mq_recv with timeout 0 in an interrupt handler.
MqRecvIrq ==
    /\ IsQueue /\ obj.entry # 0
    /\ HandlerEnters([op |-> "recv", at |-> isr, cell |-> obj.msg_queue_head])
    /\ obj' = [Unlinked(obj) EXCEPT !.entry = @ - 1]
    /\ UNCHANGED vars

MqRecvIrqEnd ==
    /\ IsQueue /\ HandlerInside("recv")
    /\ obj' = Freed(obj, call[Handler].cell)
    /\ HandlerWakes(Senders)
    /\ HandlerLeaves

\* One round of the loop of the reset.
Drained(o, c) == Freed(Unlinked(o), c)

AllDrained(o, s) ==
    LET round[i \in 0 .. Len(s)] ==
            IF i = 0 THEN o ELSE Drained(round[i - 1], s[i])
    IN  round[Len(s)]

\* rt_mq_control(RT_IPC_CMD_RESET)
MqReset ==
    /\ IsQueue /\ Calling
    /\ ThenSchedule(_ipc_list_resume_all(_ipc_list_resume_all(k, Receivers),
                                         Senders), "sched")
    /\ obj' = [AllDrained(obj, Queued) EXCEPT !.entry = 0]
    /\ UNCHANGED call

-----------------------------------------------------------------------------
MqStep ==
    \/ \E m \in Message :
          \/ MqUrgent(m)
          \/ \E op \in {"send", "urgent"} : MqSendIrq(op, m)
          \/ \E time \in Times \cup {0, Forever} : MqSend(m, time)
    \/ \E time \in Times \cup {0, Forever} : MqRecv(time)
    \/ MqSendAgain \/ MqSendEnd \/ MqUrgentEnd \/ MqSendIrqEnd
    \/ MqRecvAgain \/ MqRecvEnd \/ MqRecvIrq \/ MqRecvIrqEnd \/ MqReset

\* The messages in the order of their reception.
Messages ==
    LET q == Queued IN [i \in 1 .. Len(q) |-> obj.data[q[i]]]

\* The callers that have a cell in their hands.
Carrying == {t \in Thread \cup {Handler} : "cell" \in DOMAIN call[t]}

\* Every cell is in exactly one place: in the queue, in the free list, or in
\* the hands of one caller between its two critical sections.  The chains
\* end, the tail is the end of the queue and entry its length.
CellsAccounted ==
    IsQueue =>
        LET q == Queued
            all == q \o Spare
        IN  /\ NoDup(all)
            /\ \A t, u \in Carrying : call[t].cell = call[u].cell => t = u
            /\ Cell \ Members(all) = {call[t].cell : t \in Carrying}
            /\ obj.entry = Len(q)
            /\ obj.msg_queue_tail = IF q = <<>> THEN Null ELSE Last(q)
=============================================================================
