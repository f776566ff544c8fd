----------------------------- MODULE Countdown ------------------------------
(***************************************************************************)
(* What the timer service promises: the function of a timer started for n  *)
(* ticks runs at the n-th tick after its start, unless the timer is        *)
(* started anew or stopped before, and at no other time.  There is no tick *)
(* counter here, so nothing wraps around.                                  *)
(***************************************************************************)
EXTENDS Integers

CONSTANTS Timer, NoTimer, MaxDelay

VARIABLES
    left,      \* ticks until each timer fires, Off if it is not started
    running    \* the timer whose function runs

Off == -1

CountdownInit == left = [t \in Timer |-> Off] /\ running = NoTimer

Started(t) == \E n \in 1 .. MaxDelay : left' = [left EXCEPT ![t] = n]

Start(t) == Started(t) /\ UNCHANGED running

Stop(t) == left' = [left EXCEPT ![t] = Off] /\ UNCHANGED running

Fire(t) ==
    /\ running = NoTimer /\ left[t] = 0
    /\ left' = [left EXCEPT ![t] = Off]
    /\ running' = t

\* The function returns; a periodic timer is started again.
Return ==
    /\ running # NoTimer
    /\ UNCHANGED left \/ Started(running)
    /\ running' = NoTimer

\* Time passes only when every timer that is due has fired.
Tick ==
    /\ running = NoTimer
    /\ \A t \in Timer : left[t] # 0
    /\ left' = [t \in Timer |-> IF left[t] = Off THEN Off ELSE left[t] - 1]
    /\ UNCHANGED running

CountdownNext ==
    (\E t \in Timer : Start(t) \/ Stop(t) \/ Fire(t)) \/ Return \/ Tick

CountdownSpec == CountdownInit /\ [][CountdownNext]_<<left, running>>
=============================================================================
