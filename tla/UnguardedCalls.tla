--------------------------- MODULE UnguardedCalls ---------------------------
(***************************************************************************)
(* rt_thread_delete (rt_thread_detach has the same body) called by an      *)
(* application thread with interrupts enabled.  rt_thread_delete takes the *)
(* thread off its list before it enters its critical section, so the tick  *)
(* interrupt, and every thread it switches to, may run between the two.    *)
(***************************************************************************)
EXTENDS Scheduler

VARIABLE doomed    \* the thread each rt_thread_delete in progress deletes

unguardedVars == <<vars, doomed>>

UnguardedInit == Init /\ doomed = [t \in Thread |-> Idle]

DeleteBegin(t) ==
    /\ InThread
    /\ t \notin {Idle, k.current} /\ k.stat[t] # "close"
    /\ ThenSchedule(TakeOff(k, t), "delete")
    /\ doomed' = [doomed EXCEPT ![k.current] = t]

DeleteEnd ==
    /\ At("delete")
    /\ ThenSchedule(Bury(k, doomed[k.current]), "run")
    /\ UNCHANGED doomed

UnguardedNext ==
    \/ Next /\ UNCHANGED doomed
    \/ \E t \in Thread : DeleteBegin(t)
    \/ DeleteEnd

UnguardedSpec == UnguardedInit /\ [][UnguardedNext]_unguardedVars

\* "The thread object will be removed from thread queue": a deleted thread
\* is on the defunct list only, where the idle thread frees it.
DeletedIsOffTheQueues ==
    \A t \in Thread : k.stat[t] = "close" =>
        /\ t \notin Members(k.timers)
        /\ \A p \in Priority : t \notin Members(k.ready[p])
=============================================================================
