------------------------------- MODULE Event --------------------------------
(***************************************************************************)
(* The event of rt-thread/src/ipc.c: a set of events that threads wait for *)
(* all or some of, and may consume.  A send goes through all waiters.      *)
(***************************************************************************)
EXTENDS Waiting

CONSTANT EventBit    \* the bits of event->set

\* rt_event_init
EventInit == [kind : {"event"} \cap Kinds, flag : Flags, set : {{}}]

IsEvent == obj.kind = "event"

\* event_info of a thread in rt_event_recv; event_set is set in its call.
Option == [all : BOOLEAN, clear : BOOLEAN]

\* RT_EVENT_FLAG_AND or RT_EVENT_FLAG_OR
Holds(set, want, option) ==
    IF option.all THEN want \subseteq set ELSE want \cap set # {}

\* rt_event_recv with events there.  event_set is not read again.
EventTake(want, option) ==
    /\ IsEvent /\ Calling /\ k.lock = 0
    /\ Holds(obj.set, want, option)
    /\ obj' = IF option.clear THEN [obj EXCEPT !.set = @ \ want] ELSE obj
    /\ Done(Reset(k, Me))
    /\ UNCHANGED call

\* rt_event_recv with timeout 0 and without events.
EventTry(want, option) ==
    /\ IsEvent /\ Calling /\ k.lock = 0
    /\ ~ Holds(obj.set, want, option)
    /\ Done([k EXCEPT !.error[Me] = "timeout"])
    /\ UNCHANGED <<obj, call>>

EventWait(want, option, time) ==
    /\ IsEvent /\ Calling /\ k.lock = 0
    /\ ~ Holds(obj.set, want, option)
    /\ Block(Enqueue(Reset(k, Me), Receivers, Me), time)
    /\ Enter([op |-> "event", set |-> want, option |-> option])
    /\ UNCHANGED obj

\* The return after a wait: thread->event_set is what is reported.
EventReturn ==
    /\ IsEvent /\ Inside("woken", "event") /\ k.error[Me] = "ok"
    /\ Finish(k)
    /\ UNCHANGED obj

-----------------------------------------------------------------------------
(* rt_event_send *)

\* Mistake: the search ends with the first thread that is resumed.
SendTo_First(s, t) ==
    LET c == s.call[t]
        got == IF c.option.all THEN c.set ELSE c.set \cap s.set
    IN  IF s.k # k \/ ~ Holds(s.set, c.set, c.option) THEN s
        ELSE [k |-> rt_thread_resume(s.k, t),
              set |-> IF c.option.clear THEN s.set \ got ELSE s.set,
              call |-> [s.call EXCEPT ![t].set = got]]

\* Mistake: a thread that waits for some of the events consumes none.
SendTo_OrKept(s, t) ==
    LET c == s.call[t]
        got == IF c.option.all THEN c.set ELSE c.set \cap s.set
    IN  IF ~ Holds(s.set, c.set, c.option) THEN s
        ELSE [k |-> rt_thread_resume(s.k, t),
              set |-> IF c.option.clear /\ c.option.all THEN s.set \ got ELSE s.set,
              call |-> [s.call EXCEPT ![t].set = got]]

\* One round of the loop over the waiting threads.
SendTo(s, t) ==
    LET c == s.call[t]
        got == IF c.option.all THEN c.set ELSE c.set \cap s.set
    IN  IF ~ Holds(s.set, c.set, c.option) THEN s
        ELSE [k |-> rt_thread_resume(s.k, t),
              set |-> IF c.option.clear THEN s.set \ got ELSE s.set,
              call |-> [s.call EXCEPT ![t].set = got]]

Sent(bits) ==
    LET s == k.wait[Receivers]
        round[i \in 0 .. Len(s)] ==
            IF i = 0 THEN [k |-> k, set |-> obj.set \cup bits, call |-> call]
            ELSE SendTo(round[i - 1], s[i])
    IN  round[Len(s)]

EventSend(bits) ==
    /\ IsEvent /\ Calling
    /\ obj' = [obj EXCEPT !.set = Sent(bits).set]
    /\ call' = Sent(bits).call
    /\ IF Sent(bits).k # k THEN ThenSchedule(Sent(bits).k, "sched")
                           ELSE UNCHANGED vars

EventSendIrq(bits) ==
    /\ IsEvent /\ isr \in Open
    /\ obj' = [obj EXCEPT !.set = Sent(bits).set]
    /\ call' = Sent(bits).call
    /\ IF Sent(bits).k # k
       THEN /\ k' = rt_schedule(Sent(bits).k)
            /\ Settle
            /\ UNCHANGED <<pc, isr, picked>>
       ELSE UNCHANGED vars

\* rt_event_control(RT_IPC_CMD_RESET)
EventReset ==
    /\ IsEvent /\ Calling
    /\ ThenSchedule(_ipc_list_resume_all(k, Receivers), "sched")
    /\ obj' = [obj EXCEPT !.set = {}]
    /\ UNCHANGED call

-----------------------------------------------------------------------------
EventStep ==
    \/ \E want \in SUBSET EventBit \ {{}} :
          \/ \E option \in Option :
                \/ EventTake(want, option) \/ EventTry(want, option)
                \/ \E time \in Times \cup {Forever} : EventWait(want, option, time)
          \/ EventSend(want) \/ EventSendIrq(want)
    \/ EventReturn \/ EventReset

\* No missed event: no thread waits for events that are there.
NoMissedEvent ==
    IsEvent => \A t \in Members(k.wait[Receivers]) :
                  ~ Holds(obj.set, call[t].set, call[t].option)

\* The threads that a send resumes in this step.
Served ==
    {t \in Members(k.wait[Receivers]) :
        t \notin Members(k'.wait[Receivers]) /\ k'.error[t] = "ok"}

\* A thread that a send resumes is told what it asked for, all of it, or some
\* of it and nothing else, though other waiters of the same send have consumed
\* events before it; and an event is consumed once: it is left in the set or
\* reported to one of those that clear, never to two and never both.
EventReported ==
    [][IsEvent =>
          \A t \in Served :
             LET told == call'[t].set
             IN  /\ IF call[t].option.all THEN told = call[t].set
                    ELSE told # {} /\ told \subseteq call[t].set
                 /\ call[t].option.clear =>
                       /\ told \cap obj'.set = {}
                       /\ \A u \in Served \ {t} :
                             call[u].option.clear =>
                                told \cap call'[u].set = {}]_allVars
=============================================================================
