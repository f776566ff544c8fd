----------------------------- MODULE Completion -----------------------------
(***************************************************************************)
(* The completion of rt-thread/components/drivers/ipc/completion.c: a flag *)
(* that one thread waits for and that a handler or another thread sets.    *)
(***************************************************************************)
EXTENDS Waiting

\* rt_completion_init; flag is RT_COMPLETED.
CompletionInit == [kind : {"completion"} \cap Kinds, done : {FALSE}]

IsCompletion == obj.kind = "completion"

\* A completion has one waiting thread.  The assertion of rt_completion_wait
\* tests it while that thread is suspended; a second thread that comes after
\* rt_completion_done, before the first has run, would share the completion.
OnlyMe == \A t \in Thread : call[t].op # "wait"

Clear == obj' = [obj EXCEPT !.done = FALSE]

\* rt_completion_wait with the flag set.
WaitNot ==
    /\ IsCompletion /\ Calling /\ OnlyMe /\ obj.done
    /\ Clear
    /\ UNCHANGED <<vars, call>>

WaitBegin(time) ==
    /\ IsCompletion /\ Calling /\ k.lock = 0 /\ OnlyMe /\ ~ obj.done
    /\ Block(SuspendFifo(Reset(k, Me), Receivers, Me), time)
    /\ Enter([op |-> "wait", time |-> time])
    /\ UNCHANGED obj

\* thread->error is the result, and the flag is cleared whatever it is.
WaitEnd ==
    /\ IsCompletion /\ Inside("woken", "wait")
    /\ Clear
    /\ Finish(k)

-----------------------------------------------------------------------------
(* rt_completion_done: the flag is tested with interrupts enabled; if it   *)
(* is set, nothing happens.                                                *)

DoneBegin ==
    /\ IsCompletion /\ Calling /\ ~ obj.done
    /\ Enter([op |-> "done"])
    /\ GoOn("done")
    /\ UNCHANGED obj

DoneEnd ==
    /\ IsCompletion /\ Inside("done", "done")
    /\ obj' = [obj EXCEPT !.done = TRUE]
    /\ FinishWaking(Receivers)

DoneIrq ==
    /\ IsCompletion /\ ~ obj.done
    /\ HandlerEnters([op |-> "done", at |-> isr])
    /\ UNCHANGED <<vars, obj>>

\* Mistake: the flag is set and the waiter not resumed.
DoneIrqEnd_NoWake ==
    /\ IsCompletion /\ HandlerInside("done")
    /\ obj' = [obj EXCEPT !.done = TRUE]
    /\ UNCHANGED vars
    /\ HandlerLeaves

DoneIrqEnd ==
    /\ IsCompletion /\ HandlerInside("done")
    /\ obj' = [obj EXCEPT !.done = TRUE]
    /\ HandlerWakes(Receivers)
    /\ HandlerLeaves

CompletionStep ==
    \/ WaitNot \/ WaitEnd \/ DoneBegin \/ DoneEnd \/ DoneIrq \/ DoneIrqEnd
    \/ \E time \in Times \cup {Forever} : WaitBegin(time)

-----------------------------------------------------------------------------
\* The flag and the suspend list agree, though done and the timeout of the
\* waiter cross: no thread waits for a completion that is done, and one that
\* was resumed by done finds it so.
DoneSeen ==
    IsCompletion => /\ obj.done => k.wait[Receivers] = <<>>
                    /\ Woken("wait") # {} => obj.done
=============================================================================
