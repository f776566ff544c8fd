----------------------------- MODULE TimerQuery -----------------------------
(***************************************************************************)
(* The queries of rt_timer_control, with the answer they store through     *)
(* their argument.                                                         *)
(***************************************************************************)
EXTENDS Timer

VARIABLE reply    \* the answer to the last query, while nothing else happens

NoReply == [cmd |-> "none", of |-> NoTimer, value |-> 0]

\* The case of RT_TIMER_CTRL_GET_STATE has no break: the state it stores is
\* overwritten by the next case, RT_TIMER_CTRL_GET_REMAIN_TIME.
Get(t, cmd) ==
    /\ Callable
    /\ reply' = [cmd |-> cmd, of |-> t, value |-> timer[t].timeout]
    /\ UNCHANGED vars

QueryInit == Init /\ reply = NoReply

QueryNext ==
    \/ Next /\ reply' = NoReply
    \/ \E t \in Timers, cmd \in {"state", "remain"} : Get(t, cmd)

QuerySpec == QueryInit /\ [][QueryNext]_<<vars, reply>>

\* "get timer run state active or deactive" (rtdef.h): the answer to
\* RT_TIMER_CTRL_GET_STATE is RT_TIMER_FLAG_ACTIVATED (1) or DEACTIVATED (0),
\* as the timer is.
StateAnswered ==
    reply.cmd = "state" =>
        reply.value = IF timer[reply.of].active THEN 1 ELSE 0
=============================================================================
