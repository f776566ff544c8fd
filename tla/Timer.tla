------------------------------- MODULE Timer --------------------------------
(***************************************************************************)
(* The hard timers of rt-thread/src/timer.c: a list of started timers      *)
(* sorted by a tick that wraps around, checked by the tick interrupt.      *)
(* The skip list has one level (RT_TIMER_SKIP_LIST_LEVEL) and there is no  *)
(* timer thread (RT_USING_TIMER_SOFT is off).                              *)
(*                                                                         *)
(* A timer function runs inside rt_timer_check, with interrupts disabled,  *)
(* and may call the timer API on any timer, its own included.              *)
(***************************************************************************)
EXTENDS Integers, LinkedLists

CONSTANTS
    Timers,     \* struct rt_timer objects
    NoTimer,
    TickMax,    \* RT_TICK_MAX, 2^32 - 1 in the code
    InitTicks   \* values given to init_tick

Half == TickMax \div 2

ASSUME TickMaxAssumption == TickMax \in Nat /\ Half > 1
ASSUME NoTimerAssumption == NoTimer \notin Timers
\* RT_ASSERT(time < RT_TICK_MAX / 2).  0 is left out: a timer that is
\* restarted for 0 ticks is due again at once and rt_timer_check never ends.
ASSUME InitTicksAssumption == InitTicks # {} /\ InitTicks \subseteq 1 .. Half - 1

VARIABLES
    tick,     \* rt_tick
    timer,    \* the fields of each timer
    list,     \* _timer_list
    phase,    \* where the tick interrupt is
    firing,   \* the timer whose function runs
    popped    \* the local list of rt_timer_check still holds it

vars == <<tick, timer, list, phase, firing, popped>>

\* rt_tick_t arithmetic.
Minus(x, y) == (x - y) % (TickMax + 1)

\* Mistake: a tick wider than its maximum.
Plus_NoWrap(x, y) == x + y

Plus(x, y) == (x + y) % (TickMax + 1)

Linked(t) == t \in Members(list)

-----------------------------------------------------------------------------
\* _timer_remove: off whichever list the node is on.
Unlinked(s, t) == Without(s, t)

LeavesPopped(t) == popped /\ firing # t

\* Mistake: ticks are compared as if they never wrapped around.
Position_NoWrap(s, timeout) ==
    FirstOf(s, {i \in 1 .. Len(s) : timer[s[i]].timeout > timeout})

\* The walk of rt_timer_start stops before the first timer that is due
\* strictly later, in the order of wrapping ticks.
Position(s, timeout) ==
    FirstOf(s, {i \in 1 .. Len(s) :
                  /\ Minus(timer[s[i]].timeout, timeout) # 0
                  /\ Minus(timer[s[i]].timeout, timeout) < Half})

\* rt_timer_start
StartTimer(t) ==
    LET s == Unlinked(list, t)
        timeout == Plus(tick, timer[t].init)
    IN  /\ list' = InsertAt(s, Position(s, timeout), t)
        /\ timer' = [timer EXCEPT ![t].timeout = timeout, ![t].active = TRUE]

\* _timer_remove and the clearing of RT_TIMER_FLAG_ACTIVATED.
StopTimer(t) ==
    /\ list' = Unlinked(list, t)
    /\ timer' = [timer EXCEPT ![t].active = FALSE]

-----------------------------------------------------------------------------
Init ==
    /\ tick = 0
    \* rt_timer_init
    /\ timer \in [Timers -> [active : {FALSE}, periodic : BOOLEAN,
                             init : InitTicks, timeout : {0}]]
    /\ list = <<>>
    /\ phase = "idle"
    /\ firing = NoTimer
    /\ popped = FALSE

\* The API is called from threads and other interrupts, or by a timer
\* function from within rt_timer_check.
Callable == phase \in {"idle", "tick", "callback"}

Start(t) ==
    /\ Callable
    /\ StartTimer(t)
    /\ popped' = LeavesPopped(t)
    /\ UNCHANGED <<tick, phase, firing>>

\* rt_timer_stop, and rt_timer_detach or rt_timer_delete of a stopped timer.
Stop(t) ==
    /\ Callable /\ timer[t].active
    /\ StopTimer(t)
    /\ popped' = LeavesPopped(t)
    /\ UNCHANGED <<tick, phase, firing>>

\* rt_timer_detach or rt_timer_delete, then rt_timer_init or rt_timer_create
\* of a timer in its place.
Renew(t) ==
    /\ Callable
    /\ list' = Unlinked(list, t)
    /\ \E init \in InitTicks, periodic \in BOOLEAN :
          timer' = [timer EXCEPT ![t] = [active |-> FALSE,
                       periodic |-> periodic, init |-> init, timeout |-> 0]]
    /\ popped' = LeavesPopped(t)
    /\ UNCHANGED <<tick, phase, firing>>

(* rt_timer_control; its queries are in module TimerQuery *)

SetTime(t, n) ==
    /\ Callable
    /\ timer' = [timer EXCEPT ![t].init = n]
    /\ UNCHANGED <<tick, list, phase, firing, popped>>

\* RT_TIMER_CTRL_SET_ONESHOT and SET_PERIODIC.  A timer function does not
\* make its own timer one-shot: rt_timer_check would leave it off the list
\* with RT_TIMER_FLAG_ACTIVATED still set.
SetPeriodic(t, p) ==
    /\ Callable /\ (p \/ ~ popped \/ firing # t)
    /\ timer' = [timer EXCEPT ![t].periodic = p]
    /\ UNCHANGED <<tick, list, phase, firing, popped>>

-----------------------------------------------------------------------------
\* rt_tick_increase: ++ rt_tick; interrupts are enabled again before
\* rt_timer_check disables them.
TickIncrease ==
    /\ phase = "idle"
    /\ tick' = Plus(tick, 1)
    /\ phase' = "tick"
    /\ UNCHANGED <<timer, list, firing, popped>>

CheckBegin ==
    /\ phase = "tick"
    /\ phase' = "check"
    /\ UNCHANGED <<tick, timer, list, firing, popped>>

\* Mistake: the same, in rt_timer_check.
Due_NoWrap == list # <<>> /\ tick >= timer[Head(list)].timeout

Due == list # <<>> /\ Minus(tick, timer[Head(list)].timeout) < Half

\* Mistake: RT_TIMER_FLAG_ACTIVATED of a one-shot timer is not cleared.
Fire_StaysActive ==
    /\ phase = "check" /\ Due
    /\ firing' = Head(list)
    /\ popped' = TRUE
    /\ list' = Tail(list)
    /\ phase' = "callback"
    /\ UNCHANGED <<tick, timer>>

\* The first timer has timed out: it moves to the local list, and its
\* function is called.
Fire ==
    /\ phase = "check" /\ Due
    /\ firing' = Head(list)
    /\ popped' = TRUE
    /\ list' = Tail(list)
    /\ timer' = [timer EXCEPT ![Head(list)].active = @ /\ timer[Head(list)].periodic]
    /\ phase' = "callback"
    /\ UNCHANGED tick

\* The function returns.  A timer it has not started, stopped or deleted is
\* still on the local list: a periodic one is started again.
Return ==
    /\ phase = "callback"
    /\ IF popped /\ timer[firing].periodic /\ timer[firing].active
       THEN StartTimer(firing) ELSE UNCHANGED <<timer, list>>
    /\ phase' = "check"
    /\ popped' = FALSE
    /\ firing' = NoTimer
    /\ UNCHANGED tick

CheckEnd ==
    /\ phase = "check" /\ ~ Due
    /\ phase' = "idle"
    /\ UNCHANGED <<tick, timer, list, firing, popped>>

TickStep == TickIncrease \/ CheckBegin \/ Fire \/ Return \/ CheckEnd

Next ==
    \/ \E t \in Timers :
          \/ Start(t) \/ Stop(t) \/ Renew(t)
          \/ \E n \in InitTicks : SetTime(t, n)
          \/ \E p \in BOOLEAN : SetPeriodic(t, p)
    \/ TickStep

Spec == Init /\ [][Next]_vars

-----------------------------------------------------------------------------
TypeOK ==
    /\ tick \in 0 .. TickMax
    /\ timer \in [Timers -> [active : BOOLEAN, periodic : BOOLEAN,
                             init : InitTicks, timeout : 0 .. TickMax]]
    /\ list \in Seq(Timers)
    /\ phase \in {"idle", "tick", "check", "callback"}
    /\ firing \in Timers \cup {NoTimer}
    /\ popped \in BOOLEAN

\* RT_TIMER_FLAG_ACTIVATED tells the truth: every timer on the list has it,
\* and a timer that has it is on the list, once, or its function is running,
\* whatever the timer functions start, stop, delete or make periodic.
ActiveIsLinked ==
    /\ NoDup(list)
    /\ \A t \in Timers :
          /\ Linked(t) => timer[t].active
          /\ timer[t].active => Linked(t) \/ (popped /\ firing = t)

\* Ticks until a linked timer is due.
Remaining(t) == Minus(timer[t].timeout, tick)

\* The list is sorted by the time that remains, across the wrap-around of
\* rt_tick, so that looking at the first timer is enough.
Sorted == Ordered(list, [t \in Timers |-> Remaining(t)])

\* The promise of the service: the function of a timer runs exactly when the
\* ticks it was started for have passed, never early, never late, never
\* twice, across the wrap-around of rt_tick.
Promise ==
    INSTANCE Countdown WITH
        Timer <- Timers, MaxDelay <- Half - 1,
        left <- [t \in Timers |-> IF Linked(t) THEN Remaining(t) ELSE -1],
        running <- firing

FiresOnTime == Promise!CountdownSpec

=============================================================================
