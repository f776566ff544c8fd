------------------------------ MODULE Waiting -------------------------------
(***************************************************************************)
(* What the waiting calls of the mailbox, the message queue, the event,    *)
(* the memory pool and the completion have in common, over the threads and *)
(* interrupts of module Scheduler.                                         *)
(*                                                                         *)
(* obj is the object the threads and one interrupt handler work with; its  *)
(* fields depend on its kind.  call holds the local variables of the call  *)
(* each of them is in.  A call that waits suspends its thread on a list of *)
(* the object, starts the thread timer, calls rt_schedule and, when it is  *)
(* resumed, looks at the object again: it may have to wait another time,   *)
(* for the rest of its timeout.                                            *)
(***************************************************************************)
EXTENDS Scheduler, Links

CONSTANTS
    Times,      \* timeouts in ticks of the waiting calls
    Forever,    \* RT_WAITING_FOREVER
    Receivers,  \* parent.suspend_thread of the object
    Senders,    \* suspend_sender_thread of a mailbox or a message queue
    Handler,    \* the interrupt handler that uses the object
    Kinds,      \* the kinds of objects, see module Objects
    Flags       \* the flags they are made with

ASSUME ThreadAssumption == IsFiniteSet(Thread)
ASSUME TimesAssumption == Times \subseteq Nat \ {0} /\ Forever \notin Nat
ASSUME ListsAssumption == WaitList = {Receivers, Senders} /\ Receivers # Senders
ASSUME HandlerAssumption == Handler \notin Thread
ASSUME FlagsAssumption == Flags \subseteq {"fifo", "prio"}

VARIABLES obj, call

allVars == <<vars, obj, call>>

Me == k.current

\* at: what a handler has interrupted.
NoCall == [op |-> "none", at |-> "none"]

\* No handler is in the middle of a call.
Quiet == call[Handler] = NoCall

\* The current thread may make a call, or is at label l of one.
Calling == InThread /\ Quiet

Inside(l, op) == At(l) /\ Quiet /\ call[Me].op = op

Enter(c) == call' = [call EXCEPT ![Me] = c]

Leave == Enter(NoCall)

\* A call ends with kernel n, without rt_schedule.
Finish(n) == k' = n /\ Goto("run") /\ Leave /\ UNCHANGED <<isr, picked, owed>>

\* A call ends by waking the first thread of a list, if there is one.
FinishWaking(w) ==
    /\ Leave
    /\ IF k.wait[w] # <<>>
       THEN ThenSchedule(_ipc_list_resume(k, w), "sched")
       ELSE Goto("run") /\ UNCHANGED <<k, isr, picked, owed>>

\* Code between two critical sections of a call.
GoOn(l) == Goto(l) /\ UNCHANGED <<k, isr, picked, owed>>

\* The part of a handler that wakes the first thread of a list.
HandlerWakes(w) ==
    IF k.wait[w] # <<>>
    THEN /\ k' = rt_schedule(_ipc_list_resume(k, w))
         /\ Settle
         /\ UNCHANGED <<pc, isr, picked>>
    ELSE UNCHANGED vars

\* A handler starts with interrupts enabled; where it enables them itself,
\* the tick interrupt may come in, and it goes on when that is over.
HandlerEnters(c) ==
    /\ isr \in Open /\ Quiet
    /\ call' = [call EXCEPT ![Handler] = c]

HandlerInside(op) ==
    /\ ~ Quiet /\ call[Handler].op = op
    /\ isr = call[Handler].at

HandlerLeaves == call' = [call EXCEPT ![Handler] = NoCall]

-----------------------------------------------------------------------------
(* The wait *)

\* _ipc_list_suspend with the flag of the object.
Enqueue(n, w, t) ==
    IF obj.flag = "fifo" THEN SuspendFifo(n, w, t) ELSE SuspendPrio(n, w, t)

\* The current thread waits in kernel n, where it is on a suspend list
\* already: its timer is started and rt_schedule comes next.
Block(n, time) ==
    ThenSchedule(IF time = Forever THEN n ELSE rt_timer_start(n, Me, time),
                 "block")

Reset(n, t) == [n EXCEPT !.error[t] = "ok"]

BlockSchedule == Quiet /\ ScheduleFrom("block", "woken") /\ UNCHANGED <<obj, call>>

\* A wait ends with -RT_ETIMEOUT or -RT_ERROR, and so does its call.
WaitFailed ==
    /\ At("woken") /\ Quiet /\ call[Me].op \in {"send", "recv", "event", "alloc"}
    /\ k.error[Me] # "ok"
    /\ Finish(k)
    /\ UNCHANGED obj

\* Mistake: the next round waits for the whole timeout again.
Rest_Whole(t) == call[t].time

\* What is left of a call's timeout.  k.left goes on counting after the
\* timer was stopped, so it is timeout - (rt_tick_get() - start), or 0.
Rest(t) == IF call[t].time = Forever THEN Forever ELSE k.left[t]

-----------------------------------------------------------------------------
\* Everything else: the threads, unless a handler is in the middle of a
\* call, and the tick, unless a handler that interrupted it is.
Elsewhere ==
    /\ \/ Quiet /\ ThreadStep
       \/ call[Handler].at = "none" /\ TickStep
    /\ UNCHANGED <<obj, call>>

\* Resumed from the wait of a call of this kind, and not back in it yet.
Woken(op) ==
    {t \in Thread : /\ pc[t] \in {"block", "woken", "retry"} /\ call[t].op = op
                    /\ k.error[t] = "ok"
                    /\ \A w \in WaitList : t \notin Members(k.wait[w])}

\* A call of a mailbox or a message queue waits no longer than its timeout,
\* however often it is woken and finds what it waits for gone: the timer of
\* the next round ends no later than that of the last one.
RestShrinks ==
    [][\A t \in Thread :
          pc[t] = "woken" /\ pc'[t] = "block" /\ call[t].time # Forever =>
              /\ t \in Members(k'.timers)
              /\ k'.left[t] <= k.left[t]]_allVars
=============================================================================
