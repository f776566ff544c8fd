------------------------------- MODULE Mutex --------------------------------
(***************************************************************************)
(* The mutexes of rt-thread/src/ipc.c over the threads and interrupts of   *)
(* module Scheduler.  A mutex is identified with its suspend list, a       *)
(* member of WaitList, which is ordered by priority whatever flag the      *)
(* mutex was created with.                                                 *)
(***************************************************************************)
EXTENDS Scheduler

CONSTANTS
    HoldMax,    \* RT_MUTEX_HOLD_MAX
    NoThread,   \* RT_NULL as an owner
    Times,      \* timeouts in ticks of the waiting calls
    Forever     \* RT_WAITING_FOREVER

ASSUME HoldMaxAssumption == HoldMax \in Nat \ {0}
ASSUME NoThreadAssumption == NoThread \notin Thread
ASSUME TimesAssumption == Times \subseteq Nat \ {0} /\ Forever \notin Times
ASSUME MutexAssumption == WaitList # {}

NoPriority == 255    \* original_priority of a free mutex

VARIABLES
    mutex,   \* struct rt_mutex: value, owner, original (priority), hold
    want,    \* the mutex of the waiting rt_mutex_take each thread is in
    held     \* how often each thread has been told RT_EOK and not released

mutexVars == <<mutex, want, held>>
allVars == <<vars, mutexVars>>

Free == [value |-> 1, owner |-> NoThread, original |-> NoPriority, hold |-> 0]

\* rt_mutex_init or rt_mutex_create of every mutex.
MutexInit ==
    /\ Init
    /\ mutex = [m \in WaitList |-> Free]
    /\ want = [t \in Thread |-> CHOOSE m \in WaitList : TRUE]
    /\ held = [t \in Thread |-> [m \in WaitList |-> 0]]

-----------------------------------------------------------------------------
(* rt_mutex_take.  It asserts that the scheduler is not locked. *)

CanTake == InThread /\ k.lock = 0

Me == k.current

Granted(t, m) == held' = [held EXCEPT ![t][m] = @ + 1]

NoError == Done([k EXCEPT !.error[Me] = "ok"])

\* Mistake: the hold count has no limit.
TakeAgain_NoLimit(m) ==
    /\ CanTake /\ mutex[m].owner = Me
    /\ mutex' = [mutex EXCEPT ![m].hold = @ + 1]
    /\ Granted(Me, m)
    /\ NoError
    /\ UNCHANGED want

TakeAgain(m) ==
    /\ CanTake /\ mutex[m].owner = Me /\ mutex[m].hold < HoldMax
    /\ mutex' = [mutex EXCEPT ![m].hold = @ + 1]
    /\ Granted(Me, m)
    /\ NoError
    /\ UNCHANGED want

\* -RT_EFULL
TakeFull(m) ==
    /\ CanTake /\ mutex[m].owner = Me /\ mutex[m].hold = HoldMax
    /\ NoError
    /\ UNCHANGED mutexVars

TakeFree(m) ==
    /\ CanTake /\ mutex[m].owner # Me /\ mutex[m].value > 0
    /\ mutex' = [mutex EXCEPT ![m] =
           [value |-> @.value - 1, owner |-> Me, original |-> k.prio[Me],
            hold |-> @.hold + 1]]
    /\ Granted(Me, m)
    /\ NoError
    /\ UNCHANGED want

\* rt_mutex_trytake and RT_WAITING_NO: -RT_ETIMEOUT at once.
TakeBusy(m) ==
    /\ CanTake /\ mutex[m].owner # Me /\ mutex[m].value = 0
    /\ Done([k EXCEPT !.error[Me] = "timeout"])
    /\ UNCHANGED mutexVars

\* Mistakes: no inheritance, and an owner that stays on its old ready list.
Boost_None(n, m, t) == n

Boost_NoRequeue(n, m, t) ==
    LET owner == mutex[m].owner
    IN  IF n.prio[t] < n.prio[owner]
        THEN [n EXCEPT !.prio[owner] = n.prio[t]] ELSE n

\* The owner inherits the priority of the thread that is about to wait.
Boost(n, m, t) ==
    LET owner == mutex[m].owner
    IN  IF n.prio[t] < n.prio[owner]
        THEN ChangePriority(n, owner, n.prio[t]) ELSE n

TakeWait(m, time) ==
    /\ CanTake /\ mutex[m].owner # Me /\ mutex[m].value = 0
    /\ LET n == SuspendPrio(Boost([k EXCEPT !.error[Me] = "ok"], m, Me), m, Me)
       IN  ThenSchedule(IF time = Forever THEN n
                        ELSE rt_timer_start(n, Me, time), "take")
    /\ want' = [want EXCEPT ![Me] = m]
    /\ UNCHANGED <<mutex, held>>

TakeSchedule == ScheduleFrom("take", "taken") /\ UNCHANGED mutexVars

\* Mistake: thread->error is not looked at.
TakeReturn_Unchecked ==
    /\ At("taken")
    /\ Granted(Me, want[Me])
    /\ Goto("run")
    /\ UNCHANGED <<k, isr, picked, owed, mutex, want>>

\* The return of a waiting rt_mutex_take: thread->error.
TakeReturn ==
    /\ At("taken")
    /\ IF k.error[Me] = "ok" THEN Granted(Me, want[Me]) ELSE UNCHANGED held
    /\ Goto("run")
    /\ UNCHANGED <<k, isr, picked, owed, mutex, want>>

-----------------------------------------------------------------------------
(* rt_mutex_release *)

\* Mistake: the inherited priority is kept.
Restore_None(n, m) == n

\* The owner's priority before the first take.
Restore(n, m) ==
    IF mutex[m].original # n.prio[mutex[m].owner]
    THEN ChangePriority(n, mutex[m].owner, mutex[m].original) ELSE n

ReleaseNotOwner(m) ==
    /\ InThread /\ mutex[m].owner # Me
    /\ Done([k EXCEPT !.error[Me] = "error"])
    /\ UNCHANGED mutexVars

Released(m) == held' = [held EXCEPT ![Me][m] = @ - 1]

ReleaseNested(m) ==
    /\ InThread /\ mutex[m].owner = Me /\ mutex[m].hold > 1
    /\ mutex' = [mutex EXCEPT ![m].hold = @ - 1]
    /\ Released(m)
    /\ UNCHANGED <<vars, want>>

\* Mistakes: rt_schedule is not called, and the mutex is set free although
\* the first waiter takes its success for granted.
ReleaseHandOver_NoSchedule(m) ==
    LET heir == Head(k.wait[m])
        n    == Restore(k, m)
    IN  /\ InThread /\ mutex[m].owner = Me /\ mutex[m].hold = 1
        /\ k.wait[m] # <<>>
        /\ mutex' = [mutex EXCEPT ![m].owner = heir,
                                  ![m].original = n.prio[heir]]
        /\ Done(_ipc_list_resume(n, m))
        /\ Released(m)
        /\ UNCHANGED want

ReleaseHandOver_NoOwner(m) ==
    /\ InThread /\ mutex[m].owner = Me /\ mutex[m].hold = 1
    /\ k.wait[m] # <<>>
    /\ mutex' = [mutex EXCEPT ![m] = Free]
    /\ ThenSchedule(_ipc_list_resume(Restore(k, m), m), "sched")
    /\ Released(m)
    /\ UNCHANGED want

\* The first waiter becomes the owner, with the priority it has now as the
\* one to return to, before it is resumed.
ReleaseHandOver(m) ==
    LET heir == Head(k.wait[m])
        n    == Restore(k, m)
    IN  /\ InThread /\ mutex[m].owner = Me /\ mutex[m].hold = 1
        /\ k.wait[m] # <<>>
        /\ mutex' = [mutex EXCEPT ![m].owner = heir,
                                  ![m].original = n.prio[heir]]
        /\ ThenSchedule(_ipc_list_resume(n, m), "sched")
        /\ Released(m)
        /\ UNCHANGED want

\* No waiter: the priority is restored and rt_schedule is not called, so a
\* more urgent thread may be left ready.
ReleaseFree(m) ==
    /\ InThread /\ mutex[m].owner = Me /\ mutex[m].hold = 1
    /\ k.wait[m] = <<>>
    /\ mutex' = [mutex EXCEPT ![m] = [Free EXCEPT !.value = mutex[m].value + 1]]
    /\ k' = Restore(k, m)
    /\ owed' = (owed \/ k'.prio[Me] # k.prio[Me])
    /\ Released(m)
    /\ UNCHANGED <<pc, isr, picked, want>>

-----------------------------------------------------------------------------
MutexStep(m) ==
    \/ TakeAgain(m) \/ TakeFull(m) \/ TakeFree(m) \/ TakeBusy(m)
    \/ \E time \in Times \cup {Forever} : TakeWait(m, time)
    \/ ReleaseNotOwner(m) \/ ReleaseNested(m)
    \/ ReleaseHandOver(m) \/ ReleaseFree(m)

MutexNext ==
    \/ Next /\ UNCHANGED mutexVars
    \/ TakeSchedule \/ TakeReturn
    \/ \E m \in WaitList : MutexStep(m)

MutexSpec == MutexInit /\ [][MutexNext]_allVars

-----------------------------------------------------------------------------
MutexTypeOK ==
    /\ k \in KernelState
    /\ pc \in [Thread -> Label \cup {"take", "taken"}]
    /\ isr \in Interrupt /\ picked \in Thread /\ owed \in BOOLEAN
    /\ mutex \in [WaitList ->
          [value : 0 .. 1, owner : Thread \cup {NoThread},
           original : Priority \cup {NoPriority}, hold : 0 .. HoldMax]]
    /\ want \in [Thread -> WaitList]
    /\ held \in [Thread -> [WaitList -> 0 .. HoldMax]]

\* t has been made the owner by rt_mutex_release and has not returned from
\* rt_mutex_take yet.
Inheriting(t, m) == pc[t] \in {"take", "taken"} /\ want[t] = m

\* Mutual exclusion and exact accounting: a thread that was told RT_EOK as
\* often as it holds the mutex is its owner, and no other thread was;
\* rt_mutex_take never reports success to a thread that is not the owner,
\* whatever timeouts and releases cross.
HolderIsOwner ==
    \A m \in WaitList : \A t \in Thread :
        held[t][m] =
            IF mutex[m].owner # t THEN 0
            ELSE IF Inheriting(t, m) THEN 0 ELSE mutex[m].hold

\* No lost wakeup: threads wait only for a mutex that somebody owns, and a
\* mutex without an owner is free.
WaitersHaveOwner ==
    \A m \in WaitList :
        /\ k.wait[m] # <<>> => mutex[m].owner # NoThread
        /\ mutex[m].owner = NoThread <=> mutex[m] = Free
        /\ mutex[m].owner \notin Members(k.wait[m])

\* Priority inheritance: the owner of a mutex is at least as urgent as every
\* thread that waits for it.
PriorityInherited ==
    \A m \in WaitList : \A t \in Members(k.wait[m]) :
        k.prio[mutex[m].owner] <= k.prio[t]

\* "change the owner thread to original priority": a thread that owns no
\* mutex is back at the priority it was given.
PriorityRestored ==
    \A t \in Thread :
        (\A m \in WaitList : mutex[m].owner # t) => k.prio[t] = InitPrio[t]

\* A waiter's wait list stays sorted by priority: rt_mutex_release hands the
\* mutex to the most urgent waiter.
HandsToMostUrgent ==
    [][\A m \in WaitList :
          mutex'[m].owner \notin {NoThread, mutex[m].owner} /\ k.wait[m] # <<>>
          => \A t \in Members(k.wait[m]) :
                k.prio[mutex'[m].owner] <= k.prio[t]]_allVars
=============================================================================
