----------------------------- MODULE Semaphore ------------------------------
(***************************************************************************)
(* The semaphores of rt-thread/src/ipc.c over the threads and interrupts   *)
(* of module Scheduler.  A semaphore is identified with its suspend list,  *)
(* a member of WaitList.  It is released by threads and by interrupt       *)
(* handlers; a waiting thread is granted its token when it is resumed, and *)
(* learns of it later, from thread->error.                                 *)
(***************************************************************************)
EXTENDS Scheduler

CONSTANTS
    ValueMax,   \* RT_SEM_VALUE_MAX, 65535 in the code
    Times,      \* timeouts in ticks of the waiting calls
    Forever     \* RT_WAITING_FOREVER

ASSUME ThreadAssumption == IsFiniteSet(Thread)
ASSUME SemaphoreAssumption == WaitList # {}
ASSUME ValueMaxAssumption == ValueMax \in Nat \ {0}
ASSUME TimesAssumption == Times \subseteq Nat \ {0} /\ Forever \notin Times

VARIABLES
    sem,      \* struct rt_semaphore: value, flag
    want,     \* the semaphore of the waiting rt_sem_take each thread is in
    credit    \* tokens put in and not yet reported taken, for each semaphore

semVars == <<sem, want, credit>>
allVars == <<vars, semVars>>

Me == k.current

Value(s) == sem[s].value

SetValue(s, v) == sem' = [sem EXCEPT ![s].value = v]

Credit(s, c) == credit' = [credit EXCEPT ![s] = c]

\* rt_sem_init or rt_sem_create of every semaphore.
SemInit ==
    /\ Init
    /\ sem \in [WaitList -> [value : 0 .. ValueMax, flag : {"fifo", "prio"}]]
    /\ want = [t \in Thread |-> CHOOSE s \in WaitList : TRUE]
    /\ credit = [s \in WaitList |-> sem[s].value]

-----------------------------------------------------------------------------
(* rt_sem_take.  With RT_WAITING_NO (rt_sem_trytake) and no token it       *)
(* changes nothing.                                                        *)

SemTake(s) ==
    /\ InThread /\ Value(s) > 0
    /\ SetValue(s, Value(s) - 1)
    /\ Credit(s, credit[s] - 1)
    /\ UNCHANGED <<vars, want>>

\* _ipc_list_suspend
Enqueue(n, s, t) ==
    IF sem[s].flag = "fifo" THEN SuspendFifo(n, s, t) ELSE SuspendPrio(n, s, t)

\* Waiting asserts that the scheduler is not locked.
SemWait(s, time) ==
    /\ InThread /\ Value(s) = 0 /\ k.lock = 0
    /\ LET n == Enqueue([k EXCEPT !.error[Me] = "ok"], s, Me)
       IN  ThenSchedule(IF time = Forever THEN n
                        ELSE rt_timer_start(n, Me, time), "take")
    /\ want' = [want EXCEPT ![Me] = s]
    /\ UNCHANGED <<sem, credit>>

SemSchedule == ScheduleFrom("take", "taken") /\ UNCHANGED semVars

\* The return of a waiting rt_sem_take: thread->error.
SemReturn ==
    /\ At("taken")
    /\ IF k.error[Me] = "ok" THEN Credit(want[Me], credit[want[Me]] - 1)
                             ELSE UNCHANGED credit
    /\ Goto("run")
    /\ UNCHANGED <<k, isr, picked, owed, sem, want>>

-----------------------------------------------------------------------------
(* rt_sem_release *)

\* Mistakes: a release that wakes a thread also counts the token, and the
\* value has no limit.
Deposit_Twice(s) ==
    /\ SetValue(s, IF Value(s) < ValueMax THEN Value(s) + 1 ELSE Value(s))
    /\ Credit(s, credit[s] + 1)

Deposit_NoLimit(s) ==
    /\ IF k.wait[s] # <<>> THEN UNCHANGED sem ELSE SetValue(s, Value(s) + 1)
    /\ Credit(s, credit[s] + 1)

\* The token goes to the first waiter, or else into the value.  A full
\* semaphore refuses it: -RT_EFULL.
Deposit(s) ==
    IF k.wait[s] # <<>>
    THEN Credit(s, credit[s] + 1) /\ UNCHANGED sem
    ELSE /\ Value(s) < ValueMax
         /\ SetValue(s, Value(s) + 1)
         /\ Credit(s, credit[s] + 1)

\* Mistake: rt_schedule is not called.
SemRelease_NoSchedule(s) ==
    /\ InThread
    /\ Deposit(s)
    /\ IF k.wait[s] # <<>> THEN Done(_ipc_list_resume(k, s)) ELSE UNCHANGED vars
    /\ UNCHANGED want

SemRelease(s) ==
    /\ InThread
    /\ Deposit(s)
    /\ IF k.wait[s] # <<>> THEN ThenSchedule(_ipc_list_resume(k, s), "sched")
                           ELSE UNCHANGED vars
    /\ UNCHANGED want

\* The same in an interrupt handler, between two steps of anything else.
SemReleaseIrq(s) ==
    /\ isr \in Open
    /\ Deposit(s)
    /\ IF k.wait[s] # <<>>
       THEN /\ k' = rt_schedule(_ipc_list_resume(k, s))
            /\ Settle
            /\ UNCHANGED <<pc, isr, picked>>
       ELSE UNCHANGED vars
    /\ UNCHANGED want

-----------------------------------------------------------------------------
(* rt_sem_control(RT_IPC_CMD_RESET) *)

\* Granted a token by a release, and not back from rt_sem_take yet.
Granted(s) ==
    {t \in Thread : /\ pc[t] \in {"take", "taken"} /\ want[t] = s
                    /\ k.error[t] = "ok" /\ t \notin Members(k.wait[s])}

\* Mistake: the waiters are left waiting.
SemReset_KeepsWaiters(s, v) ==
    /\ InThread
    /\ ThenSchedule(k, "sched")
    /\ SetValue(s, v)
    /\ Credit(s, v + Cardinality(Granted(s)))
    /\ UNCHANGED want

\* All waiters are resumed with -RT_ERROR in one critical section.
SemReset(s, v) ==
    /\ InThread
    /\ ThenSchedule(_ipc_list_resume_all(k, s), "sched")
    /\ SetValue(s, v)
    /\ Credit(s, v + Cardinality(Granted(s)))
    /\ UNCHANGED want

-----------------------------------------------------------------------------
SemStep(s) ==
    \/ SemTake(s)
    \/ \E time \in Times \cup {Forever} : SemWait(s, time)
    \/ SemRelease(s) \/ SemReleaseIrq(s)
    \/ \E v \in 0 .. ValueMax : SemReset(s, v)

SemNext ==
    \/ Next /\ UNCHANGED semVars
    \/ SemSchedule \/ SemReturn
    \/ \E s \in WaitList : SemStep(s)

SemSpec == SemInit /\ [][SemNext]_allVars

-----------------------------------------------------------------------------
SemTypeOK ==
    /\ k \in KernelState
    /\ pc \in [Thread -> Label \cup {"take", "taken"}]
    /\ isr \in Interrupt /\ picked \in Thread /\ owed \in BOOLEAN
    /\ sem \in [WaitList -> [value : 0 .. ValueMax, flag : {"fifo", "prio"}]]
    /\ want \in [Thread -> WaitList]
    /\ credit \in [WaitList -> Nat]

\* Tokens are conserved: what was released or set and not yet reported taken
\* is in the value or with a thread that will be told RT_EOK, whatever way
\* releases, timeouts and resets cross.
TokensConserved ==
    \A s \in WaitList : credit[s] = Value(s) + Cardinality(Granted(s))

\* No lost wakeup: no thread waits for a semaphore that has a token.
NoWaitWithTokens == \A s \in WaitList : k.wait[s] # <<>> => Value(s) = 0

\* rt_sem_release wakes the most urgent waiter of a RT_IPC_FLAG_PRIO
\* semaphore: no waiter is in front of a more urgent one.
UrgentFirst ==
    \A s \in WaitList : sem[s].flag = "prio" =>
        \A i, j \in 1 .. Len(k.wait[s]) :
            i < j => k.prio[k.wait[s][i]] <= k.prio[k.wait[s][j]]

=============================================================================
