----------------------------- MODULE Scheduler ------------------------------
(***************************************************************************)
(* The threads, the tick interrupt and a device interrupt of an RT-Thread  *)
(* uniprocessor, over the kernel of module Kernel.                         *)
(*                                                                         *)
(* Only the current thread executes, and only outside interrupts.  A       *)
(* critical section (rt_hw_interrupt_disable .. enable) is one action;     *)
(* where a function enables interrupts and then calls rt_schedule, the     *)
(* thread's pc waits at that call and interrupts may come in between.      *)
(*                                                                         *)
(* The API calls are the atomic ones: rt_thread_delete, rt_thread_detach   *)
(* and rt_thread_resume are made with interrupts disabled, as the kernel's *)
(* own callers make them (ipc.c, mempool.c, the device drivers' handlers). *)
(* Module UnguardedCalls has the calls an application makes without.       *)
(***************************************************************************)
EXTENDS Kernel

CONSTANTS
    Calls,      \* the API calls the threads make
    Delays,     \* arguments of rt_thread_sleep
    MaxNest     \* bound on nested rt_enter_critical

CallNames == {"startup", "create", "yield", "sleep", "suspend", "resume",
              "priority", "critical", "exit", "delete", "irq"}

ASSUME CallsAssumption == Calls \subseteq CallNames
ASSUME DelaysAssumption == Delays \subseteq Nat
ASSUME MaxNestAssumption == MaxNest \in Nat

VARIABLES
    k,       \* the kernel
    pc,      \* where each thread is between two critical sections
    isr,     \* the interrupt in progress
    picked,  \* rt_thread_defunct_dequeue: the entry the idle thread has read
    owed     \* a priority changed and rt_schedule has not been called since

vars == <<k, pc, isr, picked, owed>>

\* A thread is in its own code, about to call rt_schedule, about to call it
\* from rt_thread_sleep, back from that call, or (the idle thread) between
\* reading the defunct list and unlinking what it read.
Label == {"run", "sched", "sleep", "slept", "reclaim"}

\* No interrupt; rt_tick_increase after its critical section, before its
\* calls of rt_schedule and of rt_timer_check (interrupts enabled); the loop
\* of rt_timer_check.
Interrupt == {"none", "expired", "tick", "check"}

\* Interrupts are enabled.
Open == {"none", "expired", "tick"}

\* The current thread executes and is at label l.
At(l) == isr = "none" /\ pc[k.current] = l

Goto(l) == pc' = [pc EXCEPT ![k.current] = l]

\* A step in which rt_schedule is called settles an outstanding reschedule,
\* unless the scheduler is locked.
Settle == owed' = (owed /\ k.lock # 0)

Init ==
    /\ k = KernelInit
    /\ pc = [t \in Thread |-> "run"]
    /\ isr = "none"
    /\ picked = Idle
    /\ owed = FALSE

-----------------------------------------------------------------------------
(* Calls of the current thread.  The idle thread makes none of them. *)

InThread == At("run") /\ k.current # Idle

May(call) == call \in Calls /\ InThread

\* The critical section of a call that goes on to call rt_schedule.
ThenSchedule(n, l) == k' = n /\ Goto(l) /\ UNCHANGED <<isr, picked, owed>>

\* A call that ends without rt_schedule.
Done(n) == k' = n /\ UNCHANGED <<pc, isr, picked, owed>>

Startup(t) ==
    /\ May("startup")
    /\ k.stat[t] = "init"
    /\ ThenSchedule(rt_thread_startup(k, t), "sched")

\* rt_thread_create or rt_thread_init on the memory of a reclaimed thread.
Create(t) ==
    /\ May("create")
    /\ k.stat[t] = "close" /\ t \notin Members(k.defunct) /\ t # picked
    /\ k' = _thread_init(k, t)
    /\ pc' = [pc EXCEPT ![t] = "run"]
    /\ UNCHANGED <<isr, picked, owed>>

\* Interrupts stay disabled until the call of rt_schedule returns.
Yield ==
    /\ May("yield")
    /\ k' = rt_thread_yield(k, k.current)
    /\ Settle
    /\ UNCHANGED <<pc, isr, picked>>

\* rt_thread_sleep, and rt_thread_delay_until, which sleeps for the ticks that
\* are left until the caller's next wakeup, or not at all.
Sleep(n) ==
    /\ May("sleep")
    /\ ThenSchedule(rt_thread_sleep(k, k.current, n), "sleep")

\* The end of rt_thread_sleep, after rt_schedule.
WakeUp ==
    /\ At("slept")
    /\ k' = [k EXCEPT !.error[k.current] = IF @ = "timeout" THEN "ok" ELSE @]
    /\ Goto("run")
    /\ UNCHANGED <<isr, picked, owed>>

Suspend ==
    /\ May("suspend")
    /\ ThenSchedule(rt_thread_suspend(k, k.current), "sched")

\* Every caller of rt_thread_resume in the kernel calls rt_schedule next.
Resume(t) ==
    /\ May("resume")
    /\ k.stat[t] = "suspend"
    /\ ThenSchedule(rt_thread_resume(k, t), "sched")

SetPriority(t, p) ==
    /\ May("priority")
    /\ t # Idle
    /\ k' = ChangePriority(k, t, p)
    /\ owed' = TRUE
    /\ UNCHANGED <<pc, isr, picked>>

EnterCritical ==
    /\ May("critical")
    /\ k.lock < MaxNest
    /\ Done(rt_enter_critical(k))

\* Mistake: the outermost rt_exit_critical does not call rt_schedule.
ExitCritical_NoSchedule == May("critical") /\ Done(rt_exit_critical(k))

ExitCritical ==
    /\ May("critical")
    /\ IF k.lock <= 1 THEN ThenSchedule(rt_exit_critical(k), "sched")
                      ELSE Done(rt_exit_critical(k))

\* A thread's entry function returns.  With the scheduler locked it would
\* return into nothing: the program must not do that.
Exit ==
    /\ May("exit")
    /\ k.lock = 0
    /\ ThenSchedule(_thread_exit(k, k.current), "sched")

\* rt_thread_delete or rt_thread_detach of another thread.
Delete(t) ==
    /\ May("delete")
    /\ t \notin {Idle, k.current} /\ k.stat[t] # "close"
    /\ Done(rt_thread_delete(k, t))

\* The call of rt_schedule that a critical section was followed by.
ScheduleFrom(l, next) ==
    /\ At(l)
    /\ k' = rt_schedule(k)
    /\ Goto(next)
    /\ Settle
    /\ UNCHANGED <<isr, picked>>

CallSchedule == ScheduleFrom("sched", "run") \/ ScheduleFrom("sleep", "slept")

-----------------------------------------------------------------------------
(* The idle thread: rt_defunct_execute *)

\* rt_thread_defunct_dequeue reads the head with interrupts enabled ...
IdlePick ==
    /\ k.current = Idle /\ At("run")
    /\ k.defunct # <<>>
    /\ picked' = Head(k.defunct)
    /\ Goto("reclaim")
    /\ UNCHANGED <<k, isr, owed>>

\* ... and unlinks what it read; the thread object is freed.
IdleReclaim ==
    /\ k.current = Idle /\ At("reclaim")
    /\ k' = Unlink(k, picked)
    /\ picked' = Idle
    /\ Goto("run")
    /\ UNCHANGED <<isr, owed>>

-----------------------------------------------------------------------------
(* Interrupts *)

\* SysTick_Handler: the critical section of rt_tick_increase.
Tick ==
    /\ isr = "none"
    /\ k' = rt_tick_increase(k)
    /\ isr' = IF SliceEnds(k) THEN "expired" ELSE "tick"
    /\ UNCHANGED <<pc, picked, owed>>

\* A used-up time slice: rt_tick_increase calls rt_schedule.
TickSchedule ==
    /\ isr = "expired"
    /\ k' = rt_schedule(k)
    /\ isr' = "tick"
    /\ Settle
    /\ UNCHANGED <<pc, picked>>

\* rt_timer_check disables interrupts.
TimerCheck ==
    /\ isr = "tick"
    /\ isr' = "check"
    /\ UNCHANGED <<k, pc, picked, owed>>

\* One timed-out timer of the loop of rt_timer_check.
TimerFire ==
    /\ isr = "check" /\ TimerDue(k)
    /\ k' = FireFirst(k)
    /\ Settle
    /\ UNCHANGED <<pc, isr, picked>>

\* The loop ends and so does the interrupt.
TickEnd ==
    /\ isr = "check" /\ ~ TimerDue(k)
    /\ isr' = "none"
    /\ UNCHANGED <<k, pc, picked, owed>>

\* A device interrupt whose handler resumes a thread that waits for it.  It
\* may nest in the tick interrupt while interrupts are enabled there.
Irq(t) ==
    /\ "irq" \in Calls
    /\ isr \in Open
    /\ k.stat[t] = "suspend"
    /\ k' = rt_schedule(rt_thread_resume(k, t))
    /\ Settle
    /\ UNCHANGED <<pc, isr, picked>>

-----------------------------------------------------------------------------
ThreadStep ==
    \/ \E t \in Thread : \/ Startup(t) \/ Create(t) \/ Resume(t) \/ Delete(t)
                         \/ \E p \in Priority : SetPriority(t, p)
    \/ \E n \in Delays : Sleep(n)
    \/ Yield \/ WakeUp \/ Suspend
    \/ EnterCritical \/ ExitCritical \/ Exit \/ CallSchedule
    \/ IdlePick \/ IdleReclaim

TickStep == Tick \/ TickSchedule \/ TimerCheck \/ TimerFire \/ TickEnd

Next == ThreadStep \/ TickStep \/ \E t \in Thread : Irq(t)

Spec == Init /\ [][Next]_vars

\* The tick interrupt keeps coming and its handler goes on: one of its steps
\* is always possible.
Fairness == WF_vars(TickStep)

FairSpec == Spec /\ Fairness

-----------------------------------------------------------------------------
TypeOK ==
    /\ k \in KernelState
    /\ pc \in [Thread -> Label]
    /\ isr \in Interrupt
    /\ picked \in Thread
    /\ owed \in BOOLEAN

\* The ready table, the bitmap, the suspend lists, the timer list and the
\* defunct list agree with the threads' states after every critical section
\* of scheduler.c, thread.c, timer.c and idle.c: a thread is never on two
\* lists, never lost, and a timer that fires finds its thread suspended
\* (the assertion of _thread_timeout).
ListsConsistent == Consistent(k)

\* Priority scheduling: whenever a thread executes its own code with the
\* scheduler unlocked and no reschedule owed, it is running and no ready
\* thread is more urgent (rt_schedule is called wherever it must be).
HighestRuns == At("run") /\ k.lock = 0 /\ ~ owed => MostUrgentRuns(k)

\* rt_enter_critical: while the scheduler is locked the processor is not
\* taken from the current thread, whatever interrupts and calls do.
LockHolds == [][k.lock # 0 => k'.current = k.current]_vars

\* What the idle thread frees is a closed thread that is on no list.
FreedIsUnused ==
    [][\A t \in Thread : picked = t /\ picked' # t /\ t # Idle =>
          /\ k'.stat[t] = "close"
          /\ t \notin Members(k'.defunct) \cup Members(k'.timers)
          /\ \A p \in Priority : t \notin Members(k'.ready[p])]_vars

\* Round robin: a thread that is ready at the most urgent level does not
\* stay there for ever while another thread of no higher priority executes
\* (rt_tick_increase sets the yield flag when the time slice is used up).
Stuck(t) ==
    /\ k.lock = 0
    /\ k.stat[t] = "ready"
    /\ \A u \in Thread : k.stat[u] \in {"ready", "running"} =>
                            k.prio[t] <= k.prio[u]

RoundRobin == \A t \in Thread : []<>(~ Stuck(t))

\* A thread that sleeps is made ready again.
SleepEnds ==
    \A t \in Thread : (t \in Members(k.timers)) ~> (t \notin Members(k.timers))
=============================================================================
