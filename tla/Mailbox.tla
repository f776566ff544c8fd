------------------------------ MODULE Mailbox -------------------------------
(***************************************************************************)
(* The mailbox of rt-thread/src/ipc.c: a ring of Capacity words with an    *)
(* input and an output offset and a count, and two lists of waiting        *)
(* threads, the receivers of an empty and the senders of a full mailbox.   *)
(* Calls with timeout 0 that cannot go on return and change nothing.       *)
(***************************************************************************)
EXTENDS Channel

\* rt_mb_init.  The pool is not initialised.
MailboxInit ==
    [kind : {"mailbox"} \cap Kinds, flag : Flags,
     msg_pool : [0 .. (Capacity - 1) -> {Nothing}],
     entry : {0}, in_offset : {0}, out_offset : {0}]

IsMailbox == obj.kind = "mailbox"

\* Mistake: the offset is not wrapped.
Up_NoWrap(i) == i + 1

Up(i) == IF i + 1 >= Capacity THEN 0 ELSE i + 1

Down(i) == IF i > 0 THEN i - 1 ELSE Capacity - 1

\* Mistake: the input offset stays at the last word.
Posted_NoWrap(o, m) ==
    [o EXCEPT !.msg_pool[o.in_offset] = m,
              !.in_offset = IF o.in_offset + 1 > Capacity - 1
                            THEN Capacity - 1 ELSE o.in_offset + 1,
              !.entry = IF o.entry < EntryMax THEN o.entry + 1 ELSE o.entry]

\* The end of rt_mb_send_wait, with room for the mail.
Posted(o, m) ==
    [o EXCEPT !.msg_pool[o.in_offset] = m, !.in_offset = Up(o.in_offset),
              !.entry = IF o.entry < EntryMax THEN o.entry + 1 ELSE o.entry]

\* rt_mb_urgent
PostedFirst(o, m) ==
    LET i == Down(o.out_offset)
    IN  [o EXCEPT !.msg_pool[i] = m, !.out_offset = i, !.entry = o.entry + 1]

\* The end of rt_mb_recv.
Fetched(o) ==
    [o EXCEPT !.out_offset = Up(o.out_offset), !.entry = o.entry - 1]

-----------------------------------------------------------------------------
(* rt_mb_send_wait, rt_mb_send, rt_mb_urgent *)

\* The loop, entered with interrupts disabled.
MbSendRound(m, time) ==
    \/ /\ obj.entry # Capacity
       /\ obj' = Posted(obj, m)
       /\ FinishWaking(Receivers)
    \/ /\ obj.entry = Capacity /\ time # 0
       /\ Block(Enqueue(Reset(k, Me), Senders, Me), time)
       /\ Enter([op |-> "send", msg |-> m, time |-> time])
       /\ UNCHANGED obj
    \/ /\ obj.entry = Capacity /\ time = 0
       /\ Finish(Reset(k, Me))
       /\ UNCHANGED obj

MbSend(m, time) ==
    /\ IsMailbox /\ Calling
    /\ time # 0 => k.lock = 0
    /\ obj.entry # Capacity \/ time # 0
    /\ MbSendRound(m, time)

MbSendAgain ==
    /\ IsMailbox /\ Inside("woken", "send") /\ k.error[Me] = "ok"
    /\ MbSendRound(call[Me].msg, Rest(Me))

MbUrgent(m) ==
    /\ IsMailbox /\ Calling /\ obj.entry # Capacity
    /\ obj' = PostedFirst(obj, m)
    /\ FinishWaking(Receivers)

\* rt_mb_send and rt_mb_urgent in an interrupt handler.
MbSendIrq(m) ==
    /\ IsMailbox /\ isr \in Open /\ Quiet /\ obj.entry # Capacity
    /\ obj' \in {Posted(obj, m), PostedFirst(obj, m)}
    /\ HandlerWakes(Receivers)
    /\ UNCHANGED call

-----------------------------------------------------------------------------
(* rt_mb_recv *)

MbRecvRound(time) ==
    \/ /\ obj.entry # 0
       /\ obj' = Fetched(obj)
       /\ FinishWaking(Senders)
    \/ /\ obj.entry = 0 /\ time # 0
       /\ Block(Enqueue(Reset(k, Me), Receivers, Me), time)
       /\ Enter([op |-> "recv", time |-> time])
       /\ UNCHANGED obj
    \/ /\ obj.entry = 0 /\ time = 0
       /\ Finish([k EXCEPT !.error[Me] = "timeout"])
       /\ UNCHANGED obj

MbRecv(time) ==
    /\ IsMailbox /\ Calling
    /\ time # 0 => k.lock = 0
    /\ obj.entry # 0 \/ time # 0
    /\ MbRecvRound(time)

MbRecvAgain ==
    /\ IsMailbox /\ Inside("woken", "recv") /\ k.error[Me] = "ok"
    /\ MbRecvRound(Rest(Me))

\* rt_mb_recv with timeout 0 in an interrupt handler.
MbRecvIrq ==
    /\ IsMailbox /\ isr \in Open /\ Quiet /\ obj.entry # 0
    /\ obj' = Fetched(obj)
    /\ HandlerWakes(Senders)
    /\ UNCHANGED call

\* rt_mb_control(RT_IPC_CMD_RESET)
MbReset ==
    /\ IsMailbox /\ Calling
    /\ ThenSchedule(_ipc_list_resume_all(_ipc_list_resume_all(k, Receivers),
                                         Senders), "sched")
    /\ obj' = [obj EXCEPT !.entry = 0, !.in_offset = 0, !.out_offset = 0]
    /\ UNCHANGED call

-----------------------------------------------------------------------------
MbStep ==
    \/ \E m \in Message : \/ MbUrgent(m) \/ MbSendIrq(m)
                          \/ \E time \in Times \cup {0, Forever} : MbSend(m, time)
    \/ \E time \in Times \cup {0, Forever} : MbRecv(time)
    \/ MbSendAgain \/ MbRecvAgain \/ MbRecvIrq \/ MbReset

\* The mails in the order of their reception.
Mails ==
    [i \in 1 .. obj.entry |-> obj.msg_pool[(obj.out_offset + i - 1) % Capacity]]
=============================================================================
