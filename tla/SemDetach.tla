----------------------------- MODULE SemDetach ------------------------------
(***************************************************************************)
(* rt_sem_detach and rt_sem_delete: _ipc_list_resume_all with interrupts   *)
(* enabled, then the end of the object.  Each round of the loop tests the  *)
(* list before it disables interrupts.                                     *)
(***************************************************************************)
EXTENDS Semaphore

VARIABLE gone    \* the semaphores that are being detached or are detached

detachVars == <<allVars, gone>>

DetachInit == SemInit /\ gone = {}

Detach(s) ==
    /\ InThread /\ s \notin gone
    /\ ThenSchedule(k, "detach")
    /\ want' = [want EXCEPT ![Me] = s]
    /\ gone' = gone \cup {s}
    /\ UNCHANGED <<sem, credit>>

\* while (!rt_list_isempty(list)); rt_sem_detach ends without rt_schedule.
DetachTest ==
    /\ At("detach")
    /\ Goto(IF k.wait[want[Me]] = <<>> THEN "run" ELSE "resuming")
    /\ owed' = (owed \/ k.wait[want[Me]] = <<>>)
    /\ UNCHANGED <<k, isr, picked, semVars, gone>>

\* The critical section of the loop.
DetachResume ==
    /\ At("resuming") /\ k.wait[want[Me]] # <<>>
    /\ ThenSchedule(ResumeWithError(k, Head(k.wait[want[Me]])), "detach")
    /\ UNCHANGED <<semVars, gone>>

\* Nobody uses a semaphore that is being detached.
DetachNext ==
    \/ Next /\ UNCHANGED <<semVars, gone>>
    \/ (SemSchedule \/ SemReturn) /\ UNCHANGED gone
    \/ \E s \in WaitList \ gone : SemStep(s) /\ UNCHANGED gone
    \/ \E s \in WaitList : Detach(s)
    \/ DetachTest \/ DetachResume

DetachSpec == DetachInit /\ [][DetachNext]_detachVars

\* "get next suspended thread": inside its critical section the loop of
\* _ipc_list_resume_all finds a suspended thread on the list.
FindsSuspendedThread == At("resuming") => k.wait[want[Me]] # <<>>
=============================================================================
