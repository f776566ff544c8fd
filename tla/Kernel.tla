------------------------------- MODULE Kernel -------------------------------
(***************************************************************************)
(* The state and the elementary operations of the RT-Thread kernel core    *)
(* (uniprocessor build): rt-thread/src/scheduler.c, thread.c, timer.c,     *)
(* clock.c, idle.c and the two list helpers of ipc.c.                      *)
(*                                                                         *)
(* The kernel is a record k and every kernel function is an operator from  *)
(* a kernel to a kernel, so that an action of a specification composes     *)
(* them as the C code composes calls.  An operator is executed with        *)
(* interrupts disabled; where the code enables them between two calls the  *)
(* specifications have two actions.                                        *)
(*                                                                         *)
(* Fields of k:                                                            *)
(*   stat     thread->stat & RT_THREAD_STAT_MASK                           *)
(*   yield    thread->stat & RT_THREAD_STAT_YIELD                          *)
(*   prio     thread->current_priority (0 is the most urgent)              *)
(*   error    thread->error                                                *)
(*   slice    thread->remaining_tick                                       *)
(*   ready    rt_thread_priority_table                                     *)
(*   group    rt_thread_ready_priority_group, as the set of its bits       *)
(*   wait     the suspend lists of the IPC objects                         *)
(*   defunct  _rt_thread_defunct                                           *)
(*   current  rt_current_thread                                            *)
(*   lock     rt_scheduler_lock_nest                                       *)
(*   timers   _timer_list, restricted to the threads' own timers           *)
(*   left     ticks until the thread timer's timeout_tick, 0 once reached  *)
(***************************************************************************)
EXTENDS LinkedLists

CONSTANTS
    Thread,      \* thread control blocks, the idle thread included
    Idle,        \* the idle thread
    Main,        \* the main thread, started by rt_application_init
    Priorities,  \* RT_THREAD_PRIORITY_MAX
    InitPrio,    \* the priority each thread is initialised with
    Slice,       \* init_tick: the time slice of every thread
    WaitList     \* the suspend lists of the IPC objects of the system

ASSUME IdleAssumption == Idle \in Thread
ASSUME MainAssumption == Main \in Thread /\ Main # Idle
ASSUME PrioritiesAssumption == Priorities \in Nat \ {0}
ASSUME InitPrioAssumption ==
    /\ InitPrio \in [Thread -> 0 .. (Priorities - 1)]
    /\ InitPrio[Idle] = Priorities - 1      \* rt_thread_idle_init
    /\ InitPrio[Main] < InitPrio[Idle]      \* RT_MAIN_THREAD_PRIORITY
ASSUME SliceAssumption == Slice \in Nat \ {0}

Priority == 0 .. (Priorities - 1)

Stat == {"init", "suspend", "ready", "running", "close"}

Error == {"ok", "timeout", "error"}

KernelState ==
    [stat : [Thread -> Stat], yield : [Thread -> BOOLEAN],
     prio : [Thread -> Priority], error : [Thread -> Error],
     slice : [Thread -> 1 .. Slice],
     ready : [Priority -> Seq(Thread)], group : SUBSET Priority,
     wait : [WaitList -> Seq(Thread)], defunct : Seq(Thread),
     current : Thread, lock : Nat,
     timers : Seq(Thread), left : [Thread -> Nat]]

-----------------------------------------------------------------------------
(* Lists.  A thread has one list node, thread->tlist, and one timer node. *)

\* rt_list_remove(&thread->tlist), whichever list the node is on.
Unlink(k, t) ==
    [k EXCEPT !.ready = [p \in Priority |-> Without(k.ready[p], t)],
              !.wait = [w \in WaitList |-> Without(k.wait[w], t)],
              !.defunct = Without(k.defunct, t)]

-----------------------------------------------------------------------------
(* scheduler.c *)

rt_schedule_insert_thread(k, t) ==
    IF t = k.current
    THEN [k EXCEPT !.stat[t] = "running"]
    ELSE [k EXCEPT !.stat[t] = "ready",
                   !.ready[k.prio[t]] = Append(k.ready[k.prio[t]], t),
                   !.group = k.group \cup {k.prio[t]}]

rt_schedule_remove_thread(k, t) ==
    LET u == Unlink(k, t)
    IN  IF u.ready[k.prio[t]] = <<>>
        THEN [u EXCEPT !.group = k.group \ {k.prio[t]}]
        ELSE u

\* _scheduler_get_highest_priority_thread: the priority, then the thread.
HighestPriority(k) == Min(k.group)

HighestThread(k) == Head(k.ready[HighestPriority(k)])

\* The running thread keeps the processor.
KeepsRunning(k) ==
    /\ k.stat[k.current] = "running"
    /\ \/ k.prio[k.current] < HighestPriority(k)
       \/ k.prio[k.current] = HighestPriority(k) /\ ~ k.yield[k.current]

\* rt_schedule, switch to the highest ready thread.  The context switch
\* itself (PendSV) is the change of k.current.
SwitchTo(k) ==
    LET from    == k.current
        to      == HighestThread(k)
        running == k.stat[from] = "running"
        k1 == [k EXCEPT !.yield[from] = IF running THEN FALSE ELSE @,
                        !.current = to]
        k2 == IF running THEN rt_schedule_insert_thread(k1, from) ELSE k1
    IN  [rt_schedule_remove_thread(k2, to) EXCEPT !.stat[to] = "running"]

\* rt_schedule, the current thread goes on.
Stay(k) ==
    [rt_schedule_remove_thread([k EXCEPT !.yield[k.current] = FALSE],
                               k.current)
        EXCEPT !.stat[k.current] = "running"]

\* Mistake: the nest count is not tested.
rt_schedule_Unlocked(k) ==
    IF k.group = {} THEN k
    ELSE IF KeepsRunning(k) THEN Stay(k) ELSE SwitchTo(k)

rt_schedule(k) ==
    IF k.lock # 0 \/ k.group = {} THEN k
    ELSE IF KeepsRunning(k) THEN Stay(k) ELSE SwitchTo(k)

rt_enter_critical(k) == [k EXCEPT !.lock = @ + 1]

\* Without the call of rt_schedule that follows when the nest reaches 0.
rt_exit_critical(k) == [k EXCEPT !.lock = IF @ = 0 THEN 0 ELSE @ - 1]

-----------------------------------------------------------------------------
(* timer.c, the threads' one-shot timers *)

\* rt_timer_stop and the list part of rt_timer_detach.
rt_timer_stop(k, t) == [k EXCEPT !.timers = Without(k.timers, t)]

\* rt_timer_control(RT_TIMER_CTRL_SET_TIME, n), then rt_timer_start: after
\* every timer that is due at the same tick or before.
rt_timer_start(k, t, n) ==
    LET s    == Without(k.timers, t)
        left == [k.left EXCEPT ![t] = n]
    IN  [k EXCEPT !.timers = InsertAt(s, FirstOf(s, {i \in 1 .. Len(s) :
                                                     left[s[i]] > n}), t),
                  !.left = left]

-----------------------------------------------------------------------------
(* thread.c *)

_thread_init(k, t) ==
    [k EXCEPT !.stat[t] = "init", !.yield[t] = FALSE, !.error[t] = "ok",
              !.prio[t] = InitPrio[t], !.slice[t] = Slice]

rt_thread_suspend(k, t) ==
    IF k.stat[t] \notin {"ready", "running"} THEN k
    ELSE rt_timer_stop([rt_schedule_remove_thread(k, t)
                            EXCEPT !.stat[t] = "suspend"], t)

\* Mistake: the timer of the resumed thread is left running.
ResumeBody_TimerLeft(k, t) == rt_schedule_insert_thread(Unlink(k, t), t)

\* rt_thread_resume after its test of thread->stat.
ResumeBody(k, t) ==
    rt_schedule_insert_thread(rt_timer_stop(Unlink(k, t), t), t)

rt_thread_resume(k, t) ==
    IF k.stat[t] # "suspend" THEN k ELSE ResumeBody(k, t)

\* rt_thread_startup up to its call of rt_schedule.
rt_thread_startup(k, t) ==
    rt_thread_resume([k EXCEPT !.stat[t] = "suspend", !.yield[t] = FALSE], t)

\* rt_thread_control(RT_THREAD_CTRL_CHANGE_PRIORITY).
ChangePriority(k, t, p) ==
    IF k.stat[t] = "ready"
    THEN rt_schedule_insert_thread(
             [rt_schedule_remove_thread(k, t) EXCEPT !.prio[t] = p], t)
    ELSE [k EXCEPT !.prio[t] = p]

\* The part of rt_thread_delete and rt_thread_detach that runs with
\* interrupts enabled, and the critical section after it.
TakeOff(k, t) ==
    IF k.stat[t] = "init" THEN k ELSE rt_schedule_remove_thread(k, t)

\* Mistake: the timer of the closed thread is not detached.
Bury_TimerLeft(k, t) ==
    [k EXCEPT !.stat[t] = "close", !.yield[t] = FALSE,
              !.defunct = <<t>> \o k.defunct]

\* rt_thread_defunct_enqueue inserts at the head.
Bury(k, t) ==
    [rt_timer_stop(k, t) EXCEPT !.stat[t] = "close", !.yield[t] = FALSE,
                                !.defunct = <<t>> \o k.defunct]

\* rt_thread_delete with nothing between its two parts.
rt_thread_delete(k, t) ==
    IF k.stat[t] = "close" THEN k ELSE Bury(TakeOff(k, t), t)

\* _thread_exit up to its call of rt_schedule.
_thread_exit(k, t) == Bury(rt_schedule_remove_thread(k, t), t)

\* _thread_timeout, called by rt_timer_check with the timer already removed.
_thread_timeout(k, t) ==
    rt_schedule(rt_schedule_insert_thread(
        [Unlink(k, t) EXCEPT !.error[t] = "timeout"], t))

\* rt_thread_sleep up to its call of rt_schedule.
rt_thread_sleep(k, t, n) ==
    rt_timer_start(rt_thread_suspend([k EXCEPT !.error[t] = "ok"], t), t, n)

\* rt_thread_yield.
rt_thread_yield(k, t) ==
    rt_schedule([k EXCEPT !.slice[t] = Slice, !.yield[t] = TRUE])

-----------------------------------------------------------------------------
(* clock.c and the loop of rt_timer_check *)

\* The current thread's time slice ends with this tick.
SliceEnds(k) == k.slice[k.current] = 1

\* Mistake: the time slice is not reloaded.
rt_tick_increase_NoReload(k) ==
    LET c == k.current
    IN  [k EXCEPT !.slice[c] = @ - 1, !.yield[c] = @ \/ SliceEnds(k)]

\* Mistake: a used-up time slice does not set the yield flag.
rt_tick_increase_NoYield(k) ==
    LET c == k.current
        n == [k EXCEPT !.left = [t \in Thread |->
                                    IF @[t] = 0 THEN 0 ELSE @[t] - 1]]
    IN  IF SliceEnds(k)
        THEN [n EXCEPT !.slice[c] = Slice]
        ELSE [n EXCEPT !.slice[c] = @ - 1]

\* rt_tick_increase up to its call of rt_schedule or rt_timer_check.
rt_tick_increase(k) ==
    LET c == k.current
        n == [k EXCEPT !.left = [t \in Thread |->
                                    IF @[t] = 0 THEN 0 ELSE @[t] - 1]]
    IN  IF SliceEnds(k)
        THEN [n EXCEPT !.slice[c] = Slice, !.yield[c] = TRUE]
        ELSE [n EXCEPT !.slice[c] = @ - 1]

\* The first timer of the list has timed out.
TimerDue(k) == k.timers # <<>> /\ k.left[Head(k.timers)] = 0

\* Mistake: the timer that fires stays on the list.
FireFirst_Kept(k) == _thread_timeout(k, Head(k.timers))

\* One round of the loop: the first timer is removed and its function runs.
FireFirst(k) ==
    _thread_timeout([k EXCEPT !.timers = Tail(k.timers)], Head(k.timers))

-----------------------------------------------------------------------------
(* ipc.c: the suspend list of an object *)

\* _ipc_list_suspend with RT_IPC_FLAG_FIFO.
SuspendFifo(k, w, t) ==
    [rt_thread_suspend(k, t) EXCEPT !.wait[w] = Append(@, t)]

\* _ipc_list_suspend with RT_IPC_FLAG_PRIO: before the first thread of a
\* strictly lower priority.
SuspendPrio(k, w, t) ==
    LET s == k.wait[w]
    IN  [rt_thread_suspend(k, t) EXCEPT
            !.wait[w] = InsertAt(@, FirstOf(s, {i \in 1 .. Len(s) :
                                        k.prio[t] < k.prio[s[i]]}), t)]

\* _ipc_list_resume of a non-empty list.
_ipc_list_resume(k, w) == rt_thread_resume(k, Head(k.wait[w]))

\* One round of the loop of _ipc_list_resume_all.
ResumeWithError(k, t) == rt_thread_resume([k EXCEPT !.error[t] = "error"], t)

\* _ipc_list_resume_all with interrupts disabled: round i resumes the i-th
\* of the threads that wait.
_ipc_list_resume_all(k, w) ==
    LET s == k.wait[w]
        round[i \in 0 .. Len(s)] ==
            IF i = 0 THEN k ELSE ResumeWithError(round[i - 1], s[i])
    IN  round[Len(s)]

-----------------------------------------------------------------------------
\* rtthread_startup: rt_system_scheduler_init, the start of the main and of
\* the idle thread, and rt_system_scheduler_start, which runs the main thread.
KernelInit ==
    [stat    |-> [t \in Thread |-> IF t = Main THEN "running"
                                  ELSE IF t = Idle THEN "ready" ELSE "init"],
     yield   |-> [t \in Thread |-> FALSE],
     prio    |-> InitPrio,
     error   |-> [t \in Thread |-> "ok"],
     slice   |-> [t \in Thread |-> Slice],
     ready   |-> [p \in Priority |-> IF p = InitPrio[Idle] THEN <<Idle>>
                                                           ELSE <<>>],
     group   |-> {InitPrio[Idle]},
     wait    |-> [w \in WaitList |-> <<>>],
     defunct |-> <<>>,
     current |-> Main,
     lock    |-> 0,
     timers  |-> <<>>,
     left    |-> [t \in Thread |-> 0]]

-----------------------------------------------------------------------------
(* Consistency of the kernel's lists with the threads' states *)

\* The ready table holds each ready thread once, at its priority, and the
\* bitmap has the bits of the levels in use.
ReadyConsistent(k) ==
    /\ \A p \in Priority :
          /\ NoDup(k.ready[p])
          /\ Members(k.ready[p]) =
                {t \in Thread : k.stat[t] = "ready" /\ k.prio[t] = p}
    /\ k.group = {p \in Priority : k.ready[p] # <<>>}

\* A thread that waits for an object is suspended and waits for one only.
WaitConsistent(k) ==
    \A w \in WaitList :
        /\ NoDup(k.wait[w])
        /\ \A t \in Members(k.wait[w]) :
              /\ k.stat[t] = "suspend"
              /\ \A v \in WaitList \ {w} : t \notin Members(k.wait[v])

\* An active thread timer belongs to a suspended thread: the assertion of
\* _thread_timeout.
TimersConsistent(k) ==
    /\ NoDup(k.timers)
    /\ \A t \in Members(k.timers) : k.stat[t] = "suspend"

\* Only the current thread runs; it is on no ready list, and it has left
\* the running state only to be switched out by the next rt_schedule.
CurrentConsistent(k) ==
    /\ k.stat[k.current] \in {"running", "suspend", "close"}
    /\ \A t \in Thread : k.stat[t] = "running" => t = k.current

DefunctConsistent(k) ==
    /\ NoDup(k.defunct)
    /\ \A t \in Members(k.defunct) : k.stat[t] = "close"

\* The idle thread is always there to be switched to.
IdleConsistent(k) == k.stat[Idle] \in {"ready", "running"}

Consistent(k) ==
    /\ ReadyConsistent(k)
    /\ WaitConsistent(k)
    /\ TimersConsistent(k)
    /\ CurrentConsistent(k)
    /\ DefunctConsistent(k)
    /\ IdleConsistent(k)

\* The current thread runs and no ready thread is more urgent.
MostUrgentRuns(k) ==
    /\ k.stat[k.current] = "running"
    /\ \A t \in Thread :
          k.stat[t] = "ready" => k.prio[k.current] <= k.prio[t]
=============================================================================
