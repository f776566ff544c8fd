-------------------------- MODULE SchedulerProofs ---------------------------
(***************************************************************************)
(* Proofs that the threads and interrupts of module Scheduler keep the     *)
(* kernel's lists consistent and run a most urgent thread, for any number  *)
(* of threads, priorities, wait lists, delays and nested locks.            *)
(***************************************************************************)
EXTENDS Scheduler, KernelLemmas

\* The labels of module Scheduler and of the modules that add waiting calls
\* to it, so that what is proved here holds for the threads of all of them.
EveryLabel ==
    {"run", "sched", "sleep", "slept", "reclaim", "take", "taken",
     "block", "woken", "retry", "ask", "fill", "copy", "done"}

\* A thread at one of these labels is about to call rt_schedule ...
Pending == {"sched", "sleep", "take", "block"}

\* ... and at one of these it is in a waiting call, which asserts that the
\* scheduler is not locked.
InWait == {"take", "taken", "block", "woken", "retry", "ask"}

Typed ==
    /\ k \in KernelState
    /\ pc \in [Thread -> EveryLabel]
    /\ isr \in Interrupt
    /\ picked \in Thread
    /\ owed \in BOOLEAN

\* A thread that has passed the call of rt_schedule that followed its last
\* critical section executes only if it is a most urgent one.
Scheduled ==
    k.lock = 0 /\ ~ owed /\ pc[k.current] \notin Pending =>
        MostUrgentRuns(k)

\* A thread that has closed itself goes nowhere but to rt_schedule, which
\* is not locked.
ClosedLeaves ==
    k.stat[k.current] = "close" => pc[k.current] = "sched" /\ k.lock = 0

\* What the idle thread has read from the defunct list is closed, until it
\* has freed it.
PickedClosed ==
    IF pc[Idle] = "reclaim" THEN k.stat[picked] = "close" ELSE picked = Idle

\* A thread that has suspended itself goes to rt_schedule as well, unless
\* the scheduler is locked.
SuspendedLeaves ==
    k.stat[k.current] = "suspend" /\ k.lock = 0 => pc[k.current] \in Pending

WaitsUnlocked == pc[k.current] \in InWait => k.lock = 0

\* The inductive invariant.
IInv ==
    /\ Typed /\ Sound(k)
    /\ Scheduled /\ ClosedLeaves /\ PickedClosed
    /\ SuspendedLeaves /\ WaitsUnlocked

\* The initial state, after rtthread_startup.
LEMMA InitIInv == Init => IInv
<1> SUFFICES ASSUME Init PROVE IInv
  OBVIOUS
<1>1. k = KernelInit /\ Sound(k) /\ MostUrgentRuns(k) /\ k \in KernelState
  BY InitSound DEF Init, Sound
<1>2. Typed
  BY <1>1, IdleAssumption DEF Init, Typed, EveryLabel, Interrupt
<1>3. Scheduled /\ ClosedLeaves /\ SuspendedLeaves
  BY <1>1 DEF Scheduled, ClosedLeaves, SuspendedLeaves, MostUrgentRuns
<1>5. WaitsUnlocked
  BY <1>1 DEF WaitsUnlocked, KernelInit
<1>4. PickedClosed
  BY IdleAssumption DEF Init, PickedClosed
<1> QED BY <1>1, <1>2, <1>3, <1>4, <1>5 DEF IInv

\* A step that ends with rt_schedule, whoever calls it.
LEMMA ReschedulingStep ==
    ASSUME IInv, Typed', Sound(k'), k'.lock = k.lock,
           k.lock = 0 => MostUrgentRuns(k'),
           k.lock # 0 => k'.current = k.current,
           \A t \in Thread : k'.stat[t] = "close" <=> k.stat[t] = "close",
           picked' = picked,
           pc'[Idle] = "reclaim" <=> pc[Idle] = "reclaim",
           pc'[k.current] \in InWait => pc[k.current] \in InWait
    PROVE  IInv'
<1>1. k.current \in Thread /\ k'.current \in Thread /\ picked \in Thread
  BY DEF IInv, Typed, KernelState
<1>2. Scheduled'
  BY DEF Scheduled
<1>3. ClosedLeaves'
  BY <1>1 DEF ClosedLeaves, IInv, MostUrgentRuns
<1>4. PickedClosed'
  BY <1>1 DEF PickedClosed, IInv
<1>5. SuspendedLeaves'
  BY DEF SuspendedLeaves, MostUrgentRuns
<1>6. WaitsUnlocked'
  BY DEF WaitsUnlocked, IInv
<1> QED BY <1>2, <1>3, <1>4, <1>5, <1>6 DEF IInv

\* A critical section of a call, with rt_schedule still to come.
LEMMA SectionStep ==
    ASSUME IInv, k.current # Idle, NEW n, NEW l \in Pending,
           ThenSchedule(n, l), Sound(n), n.current = k.current,
           \A t \in Thread : k.stat[t] = "close" => n.stat[t] = "close",
           n.stat[k.current] = "close" => l = "sched" /\ n.lock = 0,
           l \in InWait => n.lock = 0
    PROVE  IInv' /\ k'.current = k.current
<1>1. /\ k.current \in Thread /\ pc \in [Thread -> EveryLabel] /\ k.current # Idle
      /\ isr \in Interrupt /\ picked \in Thread /\ owed \in BOOLEAN
  BY DEF IInv, Typed, KernelState
<1>2. /\ k' = n /\ pc' = [pc EXCEPT ![k.current] = l]
      /\ isr' = isr /\ picked' = picked /\ owed' = owed
  BY DEF ThenSchedule, Goto
<1>3. Typed' /\ Sound(k')
  BY <1>1, <1>2 DEF Typed, Sound, EveryLabel, Pending
<1>4. pc'[k'.current] = l /\ pc'[Idle] = pc[Idle]
  BY <1>1, <1>2, IdleAssumption
<1>5. Scheduled'
  BY <1>4 DEF Scheduled
<1>6. ClosedLeaves'
  BY <1>2, <1>4 DEF ClosedLeaves
<1>7. PickedClosed'
  BY <1>1, <1>2, <1>4 DEF PickedClosed, IInv
<1>8. SuspendedLeaves'
  BY <1>4 DEF SuspendedLeaves
<1>9. WaitsUnlocked'
  BY <1>2, <1>4 DEF WaitsUnlocked
<1> QED BY <1>2, <1>3, <1>5, <1>6, <1>7, <1>8, <1>9 DEF IInv

\* The critical section with which a thread's own code enters a call.
LEMMA CallingStep ==
    ASSUME IInv, InThread, NEW n, NEW l \in Pending,
           ThenSchedule(n, l), Sound(n), n.current = k.current,
           \A t \in Thread : k.stat[t] = "close" => n.stat[t] = "close",
           n.stat[k.current] = "close" => l = "sched" /\ n.lock = 0,
           l = "take" => n.lock = 0, l # "block"
    PROVE  IInv' /\ k'.current = k.current
<1>1. k.current # Idle /\ (l \in InWait => n.lock = 0)
  BY DEF InThread, InWait, Pending
<1> QED BY <1>1, SectionStep

\* A step of the current thread that does not reschedule.
LEMMA QuietStep ==
    ASSUME IInv, Typed', Sound(k'), k'.current = k.current,
           k.stat[k.current] # "close", k'.stat[k.current] # "close",
           \/ k'.lock # 0
           \/ owed'
           \/ /\ k'.lock = k.lock /\ owed' = owed
              /\ pc[k.current] \notin Pending
              /\ k'.stat[k.current] = k.stat[k.current]
              /\ k'.prio[k.current] = k.prio[k.current]
              /\ \A t \in Thread : k'.stat[t] = "ready" =>
                    k.stat[t] = "ready" /\ k'.prio[t] = k.prio[t],
           k'.lock = 0 => /\ k.lock = 0 /\ pc[k.current] \notin Pending
                          /\ k'.stat[k.current] = k.stat[k.current],
           pc'[k.current] \in InWait => k'.lock = 0,
           PickedClosed'
    PROVE  IInv' /\ k'.current = k.current
<1>1. Scheduled'
  BY DEF Scheduled, IInv, MostUrgentRuns
<1>2. ClosedLeaves'
  BY DEF ClosedLeaves
<1>3. SuspendedLeaves'
  BY DEF SuspendedLeaves, IInv
<1>4. WaitsUnlocked'
  BY DEF WaitsUnlocked
<1> QED BY <1>1, <1>2, <1>3, <1>4 DEF IInv

\* A thread that executes its own code is not closed.
LEMMA CallerOpen ==
    ASSUME IInv, InThread
    PROVE  /\ k.current \in Thread /\ k.current # Idle
           /\ Sound(k) /\ k \in KernelState /\ k.stat \in [Thread -> Stat]
           /\ k.stat[k.current] \in {"running", "suspend"}
<1>1. /\ k.current \in Thread /\ k.current # Idle /\ Sound(k)
      /\ k \in KernelState /\ k.stat \in [Thread -> Stat]
  BY DEF IInv, Typed, KernelState, InThread
<1>2. k.stat[k.current] # "close"
  BY DEF IInv, ClosedLeaves, InThread, At
<1>3. k.stat[k.current] \in {"running", "suspend", "close"}
  BY <1>1 DEF Sound, Consistent, CurrentConsistent
<1> QED BY <1>1, <1>2, <1>3

\* rt_thread_startup.
LEMMA StartupStep ==
    ASSUME IInv, NEW t \in Thread, Startup(t) PROVE IInv' /\ k'.current = k.current
<1> DEFINE n == rt_thread_startup(k, t)
<1>0. InThread /\ k.stat[t] = "init" /\ ThenSchedule(n, "sched")
  BY DEF Startup, May
<1>1. /\ Sound(k) /\ k.current \in Thread /\ k.stat \in [Thread -> Stat]
      /\ k.stat[k.current] # "close"
  BY <1>0, CallerOpen
<1>2. /\ Sound(n) /\ n.current = k.current
      /\ n.stat = [k.stat EXCEPT ![t] = "ready"]
  BY <1>0, <1>1, StartupSound DEF SameCurrent
<1> HIDE DEF n
<1>3. \A u \in Thread : n.stat[u] = "close" <=> k.stat[u] = "close"
  BY <1>0, <1>1, <1>2
<1> QED BY <1>0, <1>1, <1>2, <1>3, CallingStep DEF Pending

\* rt_thread_suspend of the caller.
LEMMA SuspendStep ==
    ASSUME IInv, Suspend PROVE IInv' /\ k'.current = k.current
<1> DEFINE n == rt_thread_suspend(k, k.current)
<1>0. InThread /\ ThenSchedule(n, "sched")
  BY DEF Suspend, May
<1>1. /\ Sound(k) /\ k.current \in Thread /\ k.stat \in [Thread -> Stat]
      /\ k.stat[k.current] # "close" /\ k.current # Idle
  BY <1>0, CallerOpen
<1>2. /\ Sound(n) /\ n.current = k.current
      /\ n.stat = IF k.stat[k.current] \in {"ready", "running"}
                  THEN [k.stat EXCEPT ![k.current] = "suspend"] ELSE k.stat
  BY <1>1, SuspendSound DEF SameCurrent
<1> HIDE DEF n
<1>3. \A u \in Thread : n.stat[u] = "close" <=> k.stat[u] = "close"
  BY <1>1, <1>2
<1> QED BY <1>0, <1>1, <1>2, <1>3, CallingStep DEF Pending

\* rt_thread_sleep.
LEMMA SleepStep ==
    ASSUME IInv, NEW d \in Delays, Sleep(d) PROVE IInv' /\ k'.current = k.current
<1> DEFINE n == rt_thread_sleep(k, k.current, d)
<1>0. InThread /\ ThenSchedule(n, "sleep") /\ d \in Nat
  BY DelaysAssumption DEF Sleep, May
<1>1. /\ Sound(k) /\ k.current \in Thread /\ k.stat \in [Thread -> Stat]
      /\ k.stat[k.current] \in {"running", "suspend"} /\ k.current # Idle
  BY <1>0, CallerOpen
<1>2. /\ Sound(n) /\ n.current = k.current
      /\ n.stat = [k.stat EXCEPT ![k.current] = "suspend"]
  BY <1>0, <1>1, SleepSound DEF SameCurrent
<1> HIDE DEF n
<1>3. \A u \in Thread : n.stat[u] = "close" <=> k.stat[u] = "close"
  BY <1>1, <1>2
<1> QED BY <1>0, <1>1, <1>2, <1>3, CallingStep DEF Pending

\* rt_thread_resume.
LEMMA ResumeStep ==
    ASSUME IInv, NEW t \in Thread, Resume(t) PROVE IInv' /\ k'.current = k.current
<1> DEFINE n == rt_thread_resume(k, t)
<1>0. InThread /\ k.stat[t] = "suspend" /\ ThenSchedule(n, "sched")
  BY DEF Resume, May
<1>1. /\ Sound(k) /\ k.current \in Thread /\ k.stat \in [Thread -> Stat]
      /\ k.stat[k.current] # "close"
  BY <1>0, CallerOpen
<1>2. /\ Sound(n) /\ n.current = k.current
      /\ n.stat = [k.stat EXCEPT ![t] =
                      IF t = k.current THEN "running" ELSE "ready"]
  BY <1>0, <1>1, ResumeSound DEF SameCurrent
<1> HIDE DEF n
<1>3. \A u \in Thread : n.stat[u] = "close" <=> k.stat[u] = "close"
  BY <1>0, <1>1, <1>2
<1> QED BY <1>0, <1>1, <1>2, <1>3, CallingStep DEF Pending

\* The entry function of a thread returns.
LEMMA ExitStep ==
    ASSUME IInv, Exit PROVE IInv' /\ k'.current = k.current
<1> DEFINE n == _thread_exit(k, k.current)
<1>0. InThread /\ k.lock = 0 /\ ThenSchedule(n, "sched")
  BY DEF Exit, May
<1>1. /\ Sound(k) /\ k.current \in Thread /\ k.stat \in [Thread -> Stat]
      /\ k.current # Idle
  BY <1>0, CallerOpen
<1>2. /\ Sound(n) /\ SameCurrent(k, n)
      /\ n.stat = [k.stat EXCEPT ![k.current] = "close"]
  BY <1>1, DeleteSound
<1> HIDE DEF n
<1>3. \A u \in Thread : k.stat[u] = "close" => n.stat[u] = "close"
  BY <1>1, <1>2
<1> QED BY <1>0, <1>2, <1>3, CallingStep DEF SameCurrent, Pending

\* rt_enter_critical and rt_exit_critical.
LEMMA CriticalStep ==
    ASSUME IInv, EnterCritical \/ ExitCritical PROVE IInv' /\ k'.current = k.current
<1>0. InThread
  BY DEF EnterCritical, ExitCritical, May
<1>1. /\ Sound(k) /\ k.current \in Thread /\ k.stat[k.current] # "close"
      /\ k \in KernelState /\ k.lock \in Nat
  BY <1>0, CallerOpen DEF KernelState
<1>2. ASSUME NEW l \in Nat \ {0}, Done([k EXCEPT !.lock = l])
      PROVE  IInv' /\ k'.current = k.current
  <2>1. /\ Sound(k') /\ k'.stat = k.stat /\ k'.current = k.current
        /\ k'.lock = l
    BY <1>1, <1>2, LockSound DEF Done
  <2>2. Typed'
    BY <1>2, <2>1 DEF Typed, IInv, Sound, Done
  <2>3. PickedClosed'
    BY <1>2, <2>1 DEF PickedClosed, IInv, Done
  <2>4. pc'[k.current] \notin InWait
    BY <1>0, <1>2 DEF Done, InThread, At, InWait
  <2> QED BY <1>1, <2>1, <2>2, <2>3, <2>4, QuietStep
<1>3. CASE EnterCritical
  <2>1. Done([k EXCEPT !.lock = k.lock + 1])
    BY <1>1, <1>3 DEF EnterCritical, rt_enter_critical, KernelState
  <2>2. k.lock + 1 \in Nat \ {0}
    BY <1>1
  <2> QED BY <1>2, <2>1, <2>2
<1>4. CASE ExitCritical /\ k.lock > 1
  <2>1. k.lock - 1 \in Nat \ {0} /\ k.lock # 0 /\ ~ (k.lock <= 1)
    BY <1>1, <1>4
  <2>2. rt_exit_critical(k) = [k EXCEPT !.lock = k.lock - 1]
    BY <1>1, <2>1 DEF rt_exit_critical
  <2>3. Done([k EXCEPT !.lock = k.lock - 1])
    BY <1>4, <2>1, <2>2 DEF ExitCritical
  <2> QED BY <1>2, <2>1, <2>3
<1>5. CASE ExitCritical /\ k.lock <= 1
  <2> DEFINE n == [k EXCEPT !.lock = 0]
  <2>0. (IF k.lock = 0 THEN 0 ELSE k.lock - 1) = 0
    BY <1>1, <1>5
  <2>1. rt_exit_critical(k) = n /\ ThenSchedule(rt_exit_critical(k), "sched")
    BY <1>1, <1>5, <2>0 DEF ExitCritical, rt_exit_critical
  <2>2. Sound(n) /\ n.stat = k.stat /\ n.current = k.current
    BY <1>1, LockSound
  <2> HIDE DEF n
  <2> QED BY <1>0, <1>1, <2>1, <2>2, CallingStep DEF Pending
<1> QED BY <1>1, <1>3, <1>4, <1>5

\* rt_thread_create on the memory of a reclaimed thread.
LEMMA CreateStep ==
    ASSUME IInv, NEW t \in Thread, Create(t) PROVE IInv' /\ k'.current = k.current
<1> DEFINE n == _thread_init(k, t)
<1>0. /\ InThread /\ k.stat[t] = "close" /\ t \notin Members(k.defunct)
      /\ t # picked /\ k' = n /\ pc' = [pc EXCEPT ![t] = "run"]
      /\ isr' = isr /\ picked' = picked /\ owed' = owed
  BY DEF Create, May
<1>1. /\ Sound(k) /\ k.current \in Thread /\ k.stat \in [Thread -> Stat]
      /\ k.stat[k.current] # "close" /\ t # k.current
      /\ pc[k.current] = "run"
  BY <1>0, CallerOpen DEF InThread, At
<1>2. /\ Sound(n) /\ n.current = k.current /\ n.lock = k.lock
      /\ n.stat = [k.stat EXCEPT ![t] = "init"]
      /\ \A u \in Thread : u # t => n.prio[u] = k.prio[u]
  BY <1>0, <1>1, CreateSound
<1> HIDE DEF n
<1>3. /\ \A u \in Thread : n.stat[u] = IF u = t THEN "init" ELSE k.stat[u]
      /\ picked \in Thread /\ pc \in [Thread -> EveryLabel]
  BY <1>1, <1>2 DEF IInv, Typed
<1>4. Typed'
  BY <1>0, <1>2, <1>3 DEF Typed, IInv, Sound, EveryLabel
<1>5. PickedClosed'
  <2>1. t # Idle
    BY <1>0, <1>1 DEF Sound, Consistent, IdleConsistent
  <2> QED BY <1>0, <1>3, <2>1, IdleAssumption DEF PickedClosed, IInv
<1> QED BY <1>0, <1>1, <1>2, <1>3, <1>4, <1>5, QuietStep DEF InWait, Pending

\* rt_thread_delete or rt_thread_detach of another thread.
LEMMA DeleteStep ==
    ASSUME IInv, NEW t \in Thread, Delete(t) PROVE IInv' /\ k'.current = k.current
<1> DEFINE n == rt_thread_delete(k, t)
<1>0. /\ InThread /\ t # Idle /\ t # k.current /\ k.stat[t] # "close"
      /\ k' = n /\ pc' = pc /\ isr' = isr /\ picked' = picked /\ owed' = owed
  BY DEF Delete, May, Done
<1>1. /\ Sound(k) /\ k.current \in Thread /\ k.stat \in [Thread -> Stat]
      /\ k.stat[k.current] # "close" /\ pc[k.current] = "run"
  BY <1>0, CallerOpen DEF InThread, At
<1>2. /\ Sound(n) /\ SameCurrent(k, n) /\ n.stat = [k.stat EXCEPT ![t] = "close"]
  BY <1>0, <1>1, DeleteSound
<1> HIDE DEF n
<1>3. /\ \A u \in Thread : n.stat[u] = IF u = t THEN "close" ELSE k.stat[u]
      /\ picked \in Thread
  BY <1>1, <1>2 DEF IInv, Typed
<1>4. Typed'
  BY <1>0, <1>2 DEF Typed, IInv, Sound
<1>5. PickedClosed'
  BY <1>0, <1>3 DEF PickedClosed, IInv
<1> QED BY <1>0, <1>1, <1>2, <1>3, <1>4, <1>5, QuietStep
        DEF SameCurrent, InWait, Pending

\* rt_thread_control(RT_THREAD_CTRL_CHANGE_PRIORITY).
LEMMA SetPriorityStep ==
    ASSUME IInv, NEW t \in Thread, NEW p \in Priority, SetPriority(t, p)
    PROVE  IInv' /\ k'.current = k.current
<1> DEFINE n == ChangePriority(k, t, p)
<1>0. /\ InThread /\ k' = n /\ pc' = pc /\ isr' = isr /\ picked' = picked
      /\ owed' = TRUE
  BY DEF SetPriority, May
<1>1. Sound(k) /\ k.stat[k.current] # "close" /\ pc[k.current] = "run"
  BY <1>0, CallerOpen DEF InThread, At
<1>2. /\ Sound(n) /\ n.current = k.current /\ n.stat = k.stat
      /\ n.lock = k.lock
  BY <1>1, ChangePrioritySound
<1> HIDE DEF n
<1>3. Typed'
  BY <1>0, <1>2 DEF Typed, IInv, Sound
<1>4. PickedClosed'
  BY <1>0, <1>2 DEF PickedClosed, IInv
<1> QED BY <1>0, <1>1, <1>2, <1>3, <1>4, QuietStep DEF InWait, Pending

\* The end of rt_thread_sleep.
LEMMA WakeUpStep ==
    ASSUME IInv, WakeUp PROVE IInv' /\ k'.current = k.current
<1> DEFINE c == k.current
           e == IF k.error[c] = "timeout" THEN "ok" ELSE k.error[c]
           n == [k EXCEPT !.error[c] = e]
<1>0. /\ pc[c] = "slept" /\ k' = n /\ pc' = [pc EXCEPT ![c] = "run"]
      /\ isr' = isr /\ picked' = picked /\ owed' = owed
  BY DEF WakeUp, At, Goto
<1>1. /\ Sound(k) /\ k \in KernelState /\ c \in Thread
      /\ k.error \in [Thread -> Error] /\ pc \in [Thread -> EveryLabel]
  BY DEF IInv, Typed, KernelState
<1>2. e \in Error
  BY <1>1 DEF Error
<1> HIDE DEF e
<1>3. /\ n \in KernelState /\ n.lock = k.lock
      /\ n.stat = k.stat /\ n.prio = k.prio /\ n.ready = k.ready
      /\ n.group = k.group /\ n.wait = k.wait /\ n.defunct = k.defunct
      /\ n.timers = k.timers /\ n.current = k.current
  BY <1>1, <1>2 DEF KernelState
<1> HIDE DEF n
<1>4. Sound(n)
  BY <1>1, <1>3, SoundSame
<1>5. k.stat[c] # "close"
  BY <1>0 DEF IInv, ClosedLeaves
<1>6. Typed'
  BY <1>0, <1>1, <1>3 DEF Typed, IInv, EveryLabel
<1>7. PickedClosed'
  BY <1>0, <1>1, <1>3, IdleAssumption DEF PickedClosed, IInv
<1> QED BY <1>0, <1>3, <1>4, <1>5, <1>6, <1>7, QuietStep DEF InWait, Pending

\* The idle thread reads the head of the defunct list, and unlinks it.
LEMMA IdleStep ==
    ASSUME IInv, IdlePick \/ IdleReclaim PROVE IInv' /\ k'.current = k.current
<1>0. /\ Sound(k) /\ k \in KernelState /\ k.current \in Thread
      /\ pc \in [Thread -> EveryLabel] /\ Lists(k) /\ isr \in Interrupt
      /\ owed \in BOOLEAN
  BY SoundParts DEF IInv, Typed, KernelState
<1>1. k.current = Idle /\ k.stat[Idle] # "close"
  BY <1>0 DEF IdlePick, IdleReclaim, Sound, Consistent, IdleConsistent
<1>2. CASE IdlePick
  <2>1. /\ k' = k /\ isr' = isr /\ owed' = owed /\ picked' = Head(k.defunct)
        /\ pc' = [pc EXCEPT ![k.current] = "reclaim"] /\ pc[k.current] = "run"
        /\ k.defunct # <<>>
    BY <1>2 DEF IdlePick, At, Goto
  <2>2. Head(k.defunct) \in Thread /\ k.stat[Head(k.defunct)] = "close"
    <3>1. k.defunct \in Seq(Thread)
      BY <1>0 DEF KernelState
    <3> QED BY <1>0, <2>1, <3>1, MembersTail DEF Lists, DefunctConsistent
  <2>3. Typed'
    BY <1>0, <2>1, <2>2 DEF Typed, EveryLabel
  <2>4. PickedClosed'
    BY <1>0, <1>1, <2>1, <2>2 DEF PickedClosed
  <2> QED BY <1>0, <1>1, <2>1, <2>3, <2>4, QuietStep DEF InWait, Pending
<1>3. CASE IdleReclaim
  <2>1. /\ k' = Unlink(k, picked) /\ isr' = isr /\ owed' = owed
        /\ picked' = Idle /\ pc' = [pc EXCEPT ![k.current] = "run"]
        /\ pc[k.current] = "reclaim"
    BY <1>3 DEF IdleReclaim, At, Goto
  <2>2. picked \in Thread /\ k.stat[picked] = "close"
    BY <1>1, <2>1 DEF IInv, Typed, PickedClosed
  <2>3. Sound(k') /\ SameCurrent(k, k') /\ k'.stat = k.stat
    BY <1>0, <2>1, <2>2, ReclaimSound
  <2>4. Typed'
    BY <1>0, <2>1, <2>3, IdleAssumption DEF Typed, EveryLabel, Sound
  <2>5. PickedClosed'
    BY <1>0, <1>1, <2>1 DEF PickedClosed
  <2> QED BY <1>0, <1>1, <2>1, <2>3, <2>4, <2>5, QuietStep
        DEF SameCurrent, InWait, Pending
<1> QED BY <1>2, <1>3

\* Settle yields a Boolean.
LEMMA SettleType == ASSUME Typed, Settle PROVE owed' \in BOOLEAN
BY DEF Typed, Settle

\* rt_thread_yield.
LEMMA YieldStep ==
    ASSUME IInv, Yield PROVE IInv' /\ (k.lock # 0 => k'.current = k.current)
<1>0. /\ InThread /\ k' = rt_thread_yield(k, k.current) /\ Settle
      /\ pc' = pc /\ isr' = isr /\ picked' = picked
  BY DEF Yield, May
<1>1. Sound(k) /\ k.current \in Thread /\ Typed
  BY <1>0, CallerOpen DEF IInv
<1>2. /\ Sound(k') /\ k'.lock = k.lock /\ Preempts(k, k')
      /\ k.lock # 0 => k'.current = k.current
      /\ k.lock = 0 => MostUrgentRuns(k')
  BY <1>0, <1>1, YieldSound
<1>3. Typed'
  BY <1>0, <1>1, <1>2, SettleType DEF Typed, Sound
<1>4. \A t \in Thread : k'.stat[t] = "close" <=> k.stat[t] = "close"
  BY <1>2 DEF Preempts
<1> QED BY <1>0, <1>2, <1>3, <1>4, ReschedulingStep

\* The call of rt_schedule that follows a critical section.
LEMMA CallScheduleStep ==
    ASSUME IInv, CallSchedule
    PROVE  IInv' /\ (k.lock # 0 => k'.current = k.current)
<1> SUFFICES ASSUME NEW l \in {"sched", "sleep"}, NEW m \in {"run", "slept"},
                    ScheduleFrom(l, m)
             PROVE  IInv' /\ (k.lock # 0 => k'.current = k.current)
  BY DEF CallSchedule
<1>0. /\ pc[k.current] = l /\ k' = rt_schedule(k) /\ Settle
      /\ pc' = [pc EXCEPT ![k.current] = m] /\ isr' = isr /\ picked' = picked
  BY DEF ScheduleFrom, At, Goto
<1>1. /\ Sound(k) /\ k.current \in Thread /\ Typed
      /\ pc \in [Thread -> EveryLabel]
  BY DEF IInv, Typed, KernelState
<1>2. /\ Sound(k') /\ k'.lock = k.lock /\ Preempts(k, k')
      /\ k.lock # 0 => k'.current = k.current
      /\ k.lock = 0 => MostUrgentRuns(k')
  BY <1>0, <1>1, ScheduleSound
<1>3. Typed'
  BY <1>0, <1>1, <1>2, SettleType DEF Typed, Sound, EveryLabel
<1>4. \A t \in Thread : k'.stat[t] = "close" <=> k.stat[t] = "close"
  BY <1>2 DEF Preempts
<1>5. pc'[Idle] = "reclaim" <=> pc[Idle] = "reclaim"
  BY <1>0, <1>1, IdleAssumption
<1> QED BY <1>0, <1>2, <1>3, <1>4, <1>5, ReschedulingStep DEF InWait, Pending

\* The critical section of rt_tick_increase.
LEMMA TickIncreaseStep ==
    ASSUME IInv, Tick PROVE IInv' /\ k'.current = k.current
<1>0. /\ k' = rt_tick_increase(k) /\ pc' = pc /\ picked' = picked
      /\ owed' = owed /\ isr' \in {"expired", "tick"}
  BY DEF Tick
<1>1. Sound(k) /\ Typed
  BY DEF IInv
<1>2. Sound(k') /\ SameCurrent(k, k') /\ k'.stat = k.stat
  BY <1>0, <1>1, TickSound
<1>3. Typed'
  BY <1>0, <1>1, <1>2 DEF Typed, Sound, Interrupt
<1>4. Scheduled' /\ ClosedLeaves' /\ PickedClosed'
  BY <1>0, <1>2 DEF IInv, Scheduled, ClosedLeaves, PickedClosed,
     SameCurrent, MostUrgentRuns
<1>5. SuspendedLeaves' /\ WaitsUnlocked'
  BY <1>0, <1>2 DEF IInv, SuspendedLeaves, WaitsUnlocked, SameCurrent
<1> QED BY <1>2, <1>3, <1>4, <1>5 DEF IInv, SameCurrent

\* The call of rt_schedule at the end of a time slice.
LEMMA TickScheduleStep ==
    ASSUME IInv, TickSchedule
    PROVE  IInv' /\ (k.lock # 0 => k'.current = k.current)
<1>0. /\ k' = rt_schedule(k) /\ pc' = pc /\ picked' = picked
      /\ isr' = "tick" /\ Settle
  BY DEF TickSchedule
<1>1. Sound(k) /\ Typed
  BY DEF IInv
<1>2. /\ Sound(k') /\ k'.lock = k.lock /\ Preempts(k, k')
      /\ k.lock # 0 => k'.current = k.current
      /\ k.lock = 0 => MostUrgentRuns(k')
  BY <1>0, <1>1, ScheduleSound
<1>3. Typed'
  BY <1>0, <1>1, <1>2, SettleType DEF Typed, Sound, Interrupt
<1>4. \A t \in Thread : k'.stat[t] = "close" <=> k.stat[t] = "close"
  BY <1>2 DEF Preempts
<1> QED BY <1>0, <1>2, <1>3, <1>4, ReschedulingStep

\* One round of the loop of rt_timer_check.
LEMMA TimerFireStep ==
    ASSUME IInv, TimerFire
    PROVE  IInv' /\ (k.lock # 0 => k'.current = k.current)
<1> DEFINE h == Head(k.timers)
<1>0. /\ k' = FireFirst(k) /\ pc' = pc /\ picked' = picked /\ isr' = isr
      /\ Settle /\ k.timers # <<>>
  BY DEF TimerFire, TimerDue
<1>1. Sound(k) /\ Typed
  BY DEF IInv
<1>2. /\ Sound(k') /\ k'.lock = k.lock
      /\ k.lock # 0 => k'.current = k.current
      /\ k.lock = 0 => MostUrgentRuns(k')
      /\ Fired(k, k', h)
  BY <1>0, <1>1, FireSound
<1> HIDE DEF h
<1>3. Typed'
  BY <1>0, <1>1, <1>2, SettleType DEF Typed, Sound
<1>4. \A t \in Thread : k'.stat[t] = "close" <=> k.stat[t] = "close"
  BY <1>2 DEF Fired
<1> QED BY <1>0, <1>2, <1>3, <1>4, ReschedulingStep

\* An interrupt handler resumes a thread and calls rt_schedule.
LEMMA HandlerStep ==
    ASSUME IInv, NEW t \in Thread, k.stat[t] = "suspend",
           k' = rt_schedule(rt_thread_resume(k, t)), Settle,
           pc' = pc, picked' = picked, isr' = isr
    PROVE  IInv' /\ (k.lock # 0 => k'.current = k.current)
<1> DEFINE r == rt_thread_resume(k, t)
<1>1. Sound(k) /\ Typed /\ k.stat \in [Thread -> Stat]
  BY DEF IInv, Typed, KernelState
<1>2. /\ Sound(r) /\ SameCurrent(k, r)
      /\ r.stat = [k.stat EXCEPT ![t] =
                      IF t = k.current THEN "running" ELSE "ready"]
  BY <1>1, ResumeSound
<1>0. k' = rt_schedule(r)
  OBVIOUS
<1> HIDE DEF r
<1>3. /\ Sound(k') /\ k'.lock = r.lock /\ Preempts(r, k')
      /\ r.lock # 0 => k' = r
      /\ r.lock = 0 => MostUrgentRuns(k')
  BY <1>0, <1>2, ScheduleSound
<1>4. k'.lock = k.lock /\ (k.lock # 0 => k'.current = k.current)
      /\ (k.lock = 0 => MostUrgentRuns(k'))
  BY <1>2, <1>3 DEF SameCurrent
<1>5. Typed'
  BY <1>1, <1>3, SettleType DEF Typed, Sound
<1>6. \A u \in Thread : IF u = t THEN r.stat[u] \in {"ready", "running"}
                                 ELSE r.stat[u] = k.stat[u]
  BY <1>1, <1>2
<1>7. \A u \in Thread : k'.stat[u] = "close" <=> k.stat[u] = "close"
  BY <1>3, <1>6 DEF Preempts
<1> QED BY <1>3, <1>4, <1>5, <1>7, ReschedulingStep

\* A device interrupt resumes a thread.
LEMMA IrqStep ==
    ASSUME IInv, NEW t \in Thread, Irq(t)
    PROVE  IInv' /\ (k.lock # 0 => k'.current = k.current)
BY HandlerStep DEF Irq

\* Steps that leave the kernel, the threads and the debt alone.
LEMMA SilentStep ==
    ASSUME IInv, k' = k, pc' = pc, picked' = picked, owed' = owed,
           isr' \in Interrupt
    PROVE  IInv'
BY DEF IInv, Typed, Scheduled, ClosedLeaves, PickedClosed, SuspendedLeaves,
       WaitsUnlocked

\* Every step preserves the inductive invariant, and takes the processor
\* from a thread only while the scheduler is not locked.
LEMMA NextIInv ==
    ASSUME IInv, [Next]_vars
    PROVE  IInv' /\ (k.lock # 0 => k'.current = k.current)
<1> USE DEF ThreadStep, TickStep
<1>1. CASE \E t \in Thread : Startup(t)
  BY <1>1, StartupStep
<1>2. CASE \E t \in Thread : Create(t)
  BY <1>2, CreateStep
<1>3. CASE \E t \in Thread : Resume(t)
  BY <1>3, ResumeStep
<1>4. CASE \E t \in Thread : Delete(t)
  BY <1>4, DeleteStep
<1>5. CASE \E t \in Thread : \E p \in Priority : SetPriority(t, p)
  BY <1>5, SetPriorityStep
<1>6. CASE \E d \in Delays : Sleep(d)
  BY <1>6, SleepStep
<1>7. CASE Yield
  BY <1>7, YieldStep
<1>8. CASE WakeUp
  BY <1>8, WakeUpStep
<1>9. CASE Suspend
  BY <1>9, SuspendStep
<1>10. CASE EnterCritical \/ ExitCritical
  BY <1>10, CriticalStep
<1>11. CASE Exit
  BY <1>11, ExitStep
<1>12. CASE CallSchedule
  BY <1>12, CallScheduleStep
<1>13. CASE IdlePick \/ IdleReclaim
  BY <1>13, IdleStep
<1>14. CASE Tick
  BY <1>14, TickIncreaseStep
<1>15. CASE TimerFire
  BY <1>15, TimerFireStep
<1>16. CASE TimerCheck \/ TickEnd
  BY <1>16, SilentStep DEF TimerCheck, TickEnd, Interrupt
<1>17. CASE \E t \in Thread : Irq(t)
  BY <1>17, IrqStep
<1>18. CASE TickSchedule
  BY <1>18, TickScheduleStep
<1>19. CASE UNCHANGED vars
  BY <1>19, SilentStep DEF vars, IInv, Typed
<1> QED BY <1>1, <1>2, <1>3, <1>4, <1>5, <1>6, <1>7, <1>8, <1>9, <1>10,
           <1>11, <1>12, <1>13, <1>14, <1>15, <1>16, <1>17, <1>18, <1>19
        DEF Next

\* No step puts a thread at a label that is not one of module Scheduler.
LEMMA LabelsKept ==
    ASSUME IInv, NEW L, Label \subseteq L, pc \in [Thread -> L], [Next]_vars
    PROVE  pc' \in [Thread -> L]
<1>1. k.current \in Thread
  BY DEF IInv, Typed, KernelState
<1>2. \A t \in Thread, l \in Label : [pc EXCEPT ![t] = l] \in [Thread -> L]
  OBVIOUS
<1>3. \/ pc' = pc
      \/ \E l \in Label, t \in Thread : pc' = [pc EXCEPT ![t] = l]
  BY <1>1 DEF Next, ThreadStep, TickStep, Startup, Create, Resume, Delete,
     SetPriority, Sleep, Yield, WakeUp, Suspend, EnterCritical, ExitCritical, Exit,
     CallSchedule, ScheduleFrom, ThenSchedule, Done, Goto, IdlePick, IdleReclaim,
     Tick, TimerCheck, TickSchedule, TimerFire, TickEnd, Irq, vars, Label
<1> QED BY <1>2, <1>3

\* The inductive invariant holds in every reachable state.
THEOREM AlwaysIInv == Spec => []IInv
<1>1. Init => IInv
  BY InitIInv
<1>2. IInv /\ [Next]_vars => IInv'
  BY NextIInv
<1> QED BY <1>1, <1>2, PTL DEF Spec

\* Every field of the kernel, every program counter and the interrupt state
\* keep their types, whatever the threads and the interrupts do.
THEOREM TypeCorrect == Spec => []TypeOK
<1> DEFINE Labelled == pc \in [Thread -> Label]
<1>1. Init => Labelled
  BY DEF Init, Label
<1>2. IInv /\ Labelled /\ [Next]_vars => Labelled'
  BY LabelsKept
<1>3. IInv /\ Labelled => TypeOK
  BY DEF IInv, Typed, TypeOK
<1> HIDE DEF Labelled
<1> QED BY <1>1, <1>2, <1>3, AlwaysIInv, PTL DEF Spec

\* The semaphores and the mutexes add the labels of a take.
TakeLabelled == pc \in [Thread -> Label \cup {"take", "taken"}]

\* Then a thread that waits is at one of them.
LEMMA TakeInWait ==
    ASSUME NEW f \in [Thread -> Label \cup {"take", "taken"}], NEW t \in Thread
    PROVE  f[t] \in InWait <=> f[t] \in {"take", "taken"}
<1>1. f[t] \in Label \cup {"take", "taken"}
  OBVIOUS
<1> QED BY <1>1 DEF InWait, Label

\* The lists of scheduler.c, ipc.c, timer.c and idle.c agree with the
\* threads' states in every reachable state.
THEOREM ListsAlwaysConsistent == Spec => []ListsConsistent
<1>1. IInv => ListsConsistent
  BY DEF IInv, Sound, ListsConsistent
<1> QED BY <1>1, AlwaysIInv, PTL

\* The thread that executes is a most urgent one: rt_schedule has been
\* called wherever a more urgent thread may have become ready.
THEOREM HighestAlwaysRuns == Spec => []HighestRuns
<1>1. IInv => HighestRuns
  BY DEF IInv, Scheduled, HighestRuns, At, Pending
<1> QED BY <1>1, AlwaysIInv, PTL

\* rt_enter_critical keeps the processor with the caller.
THEOREM LockAlwaysHolds == Spec => LockHolds
<1>1. IInv /\ [Next]_vars => [k.lock # 0 => k'.current = k.current]_vars
  BY NextIInv
<1> QED BY <1>1, AlwaysIInv, PTL DEF Spec, LockHolds

\* Only the idle thread changes what it has read from the defunct list.
LEMMA OnlyIdlePicks ==
    ASSUME [Next]_vars PROVE picked' = picked \/ IdlePick \/ IdleReclaim
BY DEF Next, ThreadStep, TickStep, Startup, Create, Resume, Delete, SetPriority,
       Sleep, Yield, WakeUp, Suspend, EnterCritical, ExitCritical, Exit,
       CallSchedule, ScheduleFrom, ThenSchedule, Done, Tick, TimerCheck,
       TickSchedule, TimerFire, TickEnd, Irq, vars

\* The idle thread frees only closed threads that no list refers to, although
\* it reads the defunct list with interrupts enabled.
THEOREM FreedAlwaysUnused == Spec => FreedIsUnused
<1>1. IInv /\ [Next]_vars =>
         [\A t \in Thread : picked = t /\ picked' # t /\ t # Idle =>
             /\ k'.stat[t] = "close"
             /\ t \notin Members(k'.defunct) \cup Members(k'.timers)
             /\ \A p \in Priority : t \notin Members(k'.ready[p])]_vars
  <2> SUFFICES ASSUME IInv, [Next]_vars, picked' # picked, picked # Idle
               PROVE  /\ k'.stat[picked] = "close"
                      /\ picked \notin Members(k'.defunct) \cup Members(k'.timers)
                      /\ \A p \in Priority : picked \notin Members(k'.ready[p])
    OBVIOUS
  <2>1. pc[Idle] = "reclaim" /\ k.stat[picked] = "close" /\ picked \in Thread
    BY DEF IInv, PickedClosed, Typed
  <2>2. k' = Unlink(k, picked)
    BY <2>1, OnlyIdlePicks DEF IdlePick, IdleReclaim, At
  <2> QED BY <2>1, <2>2, ReclaimSound DEF IInv
<1> QED BY <1>1, AlwaysIInv, PTL DEF Spec, FreedIsUnused


-----------------------------------------------------------------------------
(* What the steps of this module do to threads that wait for an object.     *)

\* A thread is on a suspend list only in a waiting call, and it is suspended
\* in one only while it is on a suspend list: whoever takes it off makes it
\* ready.
TakersKept ==
    /\ \A w \in WaitList : \A t \in Members(k.wait[w]) : pc[t] \in InWait
    /\ \A t \in Thread : pc[t] \in InWait =>
          /\ k.stat[t] \in {"suspend", "ready", "running"}
          /\ k.stat[t] = "suspend" => \E w \in WaitList : t \in Members(k.wait[w])

\* No thread and no device handler resumes or deletes a thread that waits
\* for an object: the calls of this module that would make a waiting call
\* return without what it has waited for.
WaitersLeftAlone == Calls \cap {"resume", "delete", "irq"} = {}

\* A step leaves t, which is in a waiting call, in that call.
Undisturbed(t) ==
    /\ pc'[t] \in InWait /\ k'.error[t] = k.error[t]
    /\ \/ k'.stat[t] = k.stat[t]
       \/ {k.stat[t], k'.stat[t]} \subseteq {"ready", "running"}

\* Nobody joins, leaves or ends a wait.
PassesBy ==
    /\ k'.wait = k.wait
    /\ \A t \in Thread : pc[t] \in InWait => Undisturbed(t)
    /\ \A t \in Thread : pc'[t] \in InWait => pc[t] \in InWait

\* The wait of h, if it is in one, times out.
TimesOut(h) == Fired(k, k', h) /\ pc' = pc

\* A step of the current thread, outside a waiting call, that concerns only
\* the thread u, which is in no waiting call either.
LEMMA PassingStep ==
    ASSUME IInv, k'.wait = k.wait, NEW u \in Thread, pc[u] \notin InWait,
           \/ pc' = pc
           \/ pc'[u] \notin InWait /\ \A t \in Thread \ {u} : pc'[t] = pc[t],
           \A t \in Thread \ {u} :
               /\ k'.error[t] = k.error[t]
               /\ \/ k'.stat[t] = k.stat[t]
                  \/ {k.stat[t], k'.stat[t]} \subseteq {"ready", "running"}
    PROVE  PassesBy
BY DEF PassesBy, Undisturbed

\* A step that is about no thread at all.
LEMMA PassingAll ==
    ASSUME SameWaits(k, k'), Preempts(k, k'), pc' = pc
    PROVE  PassesBy
BY DEF PassesBy, Undisturbed, SameWaits, Preempts

\* A thread that is in no waiting call is on no suspend list.
LEMMA OutsideOff ==
    ASSUME TakersKept, NEW t, pc[t] \notin InWait PROVE OffWaits(k, t)
BY DEF TakersKept, OffWaits

\* The critical sections of the calls a thread makes.
LEMMA CallsPassBy ==
    ASSUME IInv, TakersKept, InThread,
           \/ \E t \in Thread : Startup(t) \/ Create(t)
           \/ Suspend \/ Exit \/ \E d \in Delays : Sleep(d)
           \/ EnterCritical \/ ExitCritical
           \/ \E t \in Thread, p \in Priority : SetPriority(t, p)
    PROVE  PassesBy
<1> DEFINE c == k.current
<1>1. /\ Sound(k) /\ c \in Thread /\ c # Idle /\ k \in KernelState
      /\ k.stat \in [Thread -> Stat] /\ k.error \in [Thread -> Error]
      /\ k.stat[c] \in {"running", "suspend"} /\ pc \in [Thread -> EveryLabel]
  BY CallerOpen DEF IInv, Typed, KernelState
<1>2. pc[c] \notin InWait /\ OffWaits(k, c)
  BY OutsideOff DEF InThread, At, InWait
<1>3. ASSUME NEW l \in {"sched", "sleep"}, pc' = [pc EXCEPT ![c] = l]
      PROVE  pc'[c] \notin InWait /\ \A t \in Thread \ {c} : pc'[t] = pc[t]
  BY <1>1, <1>3 DEF InWait
<1>4. ASSUME NEW t \in Thread, Startup(t) PROVE PassesBy
  <2>1. /\ k' = rt_thread_startup(k, t) /\ pc' = [pc EXCEPT ![c] = "sched"]
        /\ k.stat[t] = "init"
    BY <1>4 DEF Startup, ThenSchedule, Goto
  <2>2. SameWaits(k, k') /\ k'.stat = [k.stat EXCEPT ![t] = "ready"]
    BY <1>1, <2>1, StartupWaits, StartupSound
  <2>3. pc[t] \notin InWait
    BY <2>1 DEF TakersKept
  <2>4. pc'[c] \notin InWait /\ \A u \in Thread \ {c} : pc'[u] = pc[u]
    BY <1>3, <2>1
  <2>5. \A u \in Thread : pc[u] \in InWait =>
            k'.stat[u] = k.stat[u] /\ k'.error[u] = k.error[u] /\ pc'[u] = pc[u]
    BY <1>1, <1>2, <2>2, <2>3, <2>4 DEF SameWaits
  <2> QED BY <2>2, <2>4, <2>5 DEF PassesBy, Undisturbed, SameWaits
<1>5. ASSUME NEW t \in Thread, Create(t) PROVE PassesBy
  <2>1. /\ k' = _thread_init(k, t) /\ pc' = [pc EXCEPT ![t] = "run"]
        /\ k.stat[t] = "close" /\ t \notin Members(k.defunct) /\ t # c
    BY <1>1, <1>5 DEF Create
  <2>2. /\ k'.wait = k.wait /\ k'.error = [k.error EXCEPT ![t] = "ok"]
        /\ k'.stat = [k.stat EXCEPT ![t] = "init"]
    BY <1>1, <2>1, CreateWaits, CreateSound
  <2>3. pc[t] \notin InWait
    BY <2>1 DEF TakersKept
  <2>4. pc'[t] \notin InWait /\ \A u \in Thread \ {t} : pc'[u] = pc[u]
    BY <1>1, <2>1 DEF InWait
  <2>5. \A u \in Thread \ {t} : k'.stat[u] = k.stat[u] /\ k'.error[u] = k.error[u]
    BY <1>1, <2>2
  <2> QED BY <2>2, <2>3, <2>4, <2>5, PassingStep
<1>6. ASSUME Suspend PROVE PassesBy
  <2>1. k' = rt_thread_suspend(k, c) /\ pc' = [pc EXCEPT ![c] = "sched"]
    BY <1>6 DEF Suspend, ThenSchedule, Goto
  <2>2. /\ SameWaits(k, k')
        /\ k'.stat = IF k.stat[c] \in {"ready", "running"}
                     THEN [k.stat EXCEPT ![c] = "suspend"] ELSE k.stat
    BY <1>1, <1>2, <2>1, SuspendWaits, SuspendSound
  <2>3. \A u \in Thread \ {c} : k'.stat[u] = k.stat[u] /\ k'.error[u] = k.error[u]
    BY <1>1, <2>2 DEF SameWaits
  <2> QED BY <1>1, <1>2, <1>3, <2>1, <2>2, <2>3, PassingStep DEF SameWaits
<1>7. ASSUME Exit PROVE PassesBy
  <2>1. k' = _thread_exit(k, c) /\ pc' = [pc EXCEPT ![c] = "sched"]
    BY <1>7 DEF Exit, ThenSchedule, Goto
  <2>2. SameWaits(k, k') /\ k'.stat = [k.stat EXCEPT ![c] = "close"]
    BY <1>1, <1>2, <2>1, BuryWaits, DeleteSound
  <2>3. \A u \in Thread \ {c} : k'.stat[u] = k.stat[u] /\ k'.error[u] = k.error[u]
    BY <1>1, <2>2 DEF SameWaits
  <2> QED BY <1>1, <1>2, <1>3, <2>1, <2>2, <2>3, PassingStep DEF SameWaits
<1>8. ASSUME NEW d \in Delays, Sleep(d) PROVE PassesBy
  <2>1. /\ k' = rt_thread_sleep(k, c, d) /\ pc' = [pc EXCEPT ![c] = "sleep"]
        /\ d \in Nat
    BY <1>8, DelaysAssumption DEF Sleep, ThenSchedule, Goto
  <2>2. /\ k'.wait = k.wait /\ k'.error = [k.error EXCEPT ![c] = "ok"]
        /\ k'.stat = [k.stat EXCEPT ![c] = "suspend"]
    BY <1>1, <1>2, <2>1, SleepWaits, SleepSound
  <2>3. \A u \in Thread \ {c} : k'.stat[u] = k.stat[u] /\ k'.error[u] = k.error[u]
    BY <1>1, <2>2
  <2> QED BY <1>1, <1>2, <1>3, <2>1, <2>2, <2>3, PassingStep
<1>9. ASSUME EnterCritical \/ ExitCritical PROVE PassesBy
  <2>1. /\ k' = rt_enter_critical(k) \/ k' = rt_exit_critical(k)
        /\ pc' = pc \/ pc' = [pc EXCEPT ![c] = "sched"]
    BY <1>9 DEF EnterCritical, ExitCritical, ThenSchedule, Done, Goto
  <2>2. k'.wait = k.wait /\ k'.error = k.error /\ k'.stat = k.stat
    BY <1>1, <2>1 DEF rt_enter_critical, rt_exit_critical, KernelState
  <2> QED BY <1>1, <1>2, <1>3, <2>1, <2>2, PassingStep
<1>10. ASSUME NEW t \in Thread, NEW p \in Priority, SetPriority(t, p) PROVE PassesBy
  <2>1. k' = ChangePriority(k, t, p) /\ pc' = pc
    BY <1>10 DEF SetPriority
  <2>2. SameWaits(k, k')
    BY <1>1, <2>1, ChangePriorityWaits
  <2>3. k'.stat = k.stat
    BY <1>1, <2>1, ChangePrioritySound
  <2> QED BY <2>1, <2>2, <2>3, PassingAll DEF Preempts
<1> QED BY <1>4, <1>5, <1>6, <1>7, <1>8, <1>9, <1>10


\* Every step of this module passes the waiting threads by, but for the
\* timer of one of them.
LEMMA NextWaiters ==
    ASSUME IInv, TakersKept, WaitersLeftAlone, [Next]_vars
    PROVE  PassesBy \/ \E h \in Thread : TimesOut(h)
<1> DEFINE c == k.current
<1>1. /\ Sound(k) /\ c \in Thread /\ k \in KernelState /\ pc \in [Thread -> EveryLabel]
      /\ k.error \in [Thread -> Error]
  BY DEF IInv, Typed, KernelState
<1>2. Preempts(k, k)
  BY DEF Preempts
<1>3. CASE CallSchedule
  <2>1. PICK l \in {"sched", "sleep"}, m \in {"run", "slept"} : ScheduleFrom(l, m)
    BY <1>3 DEF CallSchedule
  <2>2. /\ k' = rt_schedule(k) /\ pc[c] \notin InWait
        /\ pc' = [pc EXCEPT ![c] = m]
    BY <2>1 DEF ScheduleFrom, At, Goto, InWait
  <2>3. SameWaits(k, k') /\ Preempts(k, k')
    BY <1>1, <2>2, ScheduleSound, ScheduleWaits
  <2>4. pc'[c] \notin InWait /\ \A t \in Thread \ {c} : pc'[t] = pc[t]
    BY <1>1, <2>2 DEF InWait
  <2> QED BY <1>1, <2>2, <2>3, <2>4, PassingStep DEF SameWaits, Preempts
<1>4. CASE Yield
  <2>1. k' = rt_thread_yield(k, c) /\ pc' = pc
    BY <1>4 DEF Yield
  <2>2. SameWaits(k, k') /\ Preempts(k, k')
    BY <1>1, <2>1, YieldSound
  <2> QED BY <2>1, <2>2, PassingAll
<1>5. CASE WakeUp
  <2> DEFINE e == IF k.error[c] = "timeout" THEN "ok" ELSE k.error[c]
  <2>1. /\ pc[c] = "slept" /\ k' = [k EXCEPT !.error[c] = e]
        /\ pc' = [pc EXCEPT ![c] = "run"]
    BY <1>5 DEF WakeUp, At, Goto
  <2> HIDE DEF e
  <2>2. /\ k'.wait = k.wait /\ k'.stat = k.stat
        /\ \A t \in Thread \ {c} : k'.error[t] = k.error[t]
    BY <1>1, <2>1 DEF KernelState
  <2>3. /\ pc[c] \notin InWait /\ pc'[c] \notin InWait
        /\ \A t \in Thread \ {c} : pc'[t] = pc[t]
    BY <1>1, <2>1 DEF InWait
  <2> QED BY <1>1, <2>2, <2>3, PassingStep
<1>6. CASE IdlePick \/ IdleReclaim
  <2>1. /\ pc[c] \in {"run", "reclaim"}
        /\ pc' = [pc EXCEPT ![c] = "run"] \/ pc' = [pc EXCEPT ![c] = "reclaim"]
    BY <1>6 DEF IdlePick, IdleReclaim, At, Goto
  <2>2. /\ pc[c] \notin InWait /\ pc'[c] \notin InWait
        /\ \A t \in Thread \ {c} : pc'[t] = pc[t]
    BY <1>1, <2>1 DEF InWait
  <2>3. ASSUME IdleReclaim PROVE SameWaits(k, k') /\ k'.stat = k.stat
    <3>1. /\ k' = Unlink(k, picked) /\ picked \in Thread
          /\ k.stat[picked] = "close"
      BY <2>3 DEF IdleReclaim, At, IInv, Typed, PickedClosed
    <3>2. WaitsWithout(k, picked) = k.wait
      BY <1>1, <3>1, AwakeOff, OffStays
    <3> QED BY <1>1, <3>1, <3>2, RemoveWaits, ReclaimSound DEF SameWaits
  <2>4. SameWaits(k, k') /\ k'.stat = k.stat
    BY <1>6, <2>3 DEF IdlePick, SameWaits
  <2> QED BY <1>1, <2>2, <2>4, PassingStep DEF SameWaits
<1>7. CASE Tick
  <2>1. k' = rt_tick_increase(k) /\ pc' = pc
    BY <1>7 DEF Tick
  <2>2. SameWaits(k, k') /\ k'.stat = k.stat
    BY <1>1, <2>1, TickWaits, TickSound
  <2> QED BY <2>1, <2>2, PassingAll DEF Preempts
<1>8. CASE TickSchedule
  <2>1. k' = rt_schedule(k) /\ pc' = pc
    BY <1>8 DEF TickSchedule
  <2>2. SameWaits(k, k') /\ Preempts(k, k')
    BY <1>1, <2>1, ScheduleSound, ScheduleWaits
  <2> QED BY <2>1, <2>2, PassingAll
<1>9. CASE TimerCheck \/ TickEnd \/ UNCHANGED vars
  <2>1. k' = k /\ pc' = pc
    BY <1>9 DEF TimerCheck, TickEnd, vars
  <2> QED BY <1>2, <2>1, PassingAll DEF SameWaits
<1>10. CASE TimerFire
  <2>1. k' = FireFirst(k) /\ pc' = pc /\ k.timers # <<>>
    BY <1>10 DEF TimerFire, TimerDue
  <2>2. Fired(k, k', Head(k.timers))
    BY <1>1, <2>1, FireSound
  <2>3. Head(k.timers) \in Thread
    BY <2>2 DEF Fired
  <2> QED BY <2>1, <2>2, <2>3 DEF TimesOut
<1>11. CASE \/ \E t \in Thread : Startup(t) \/ Create(t)
            \/ Suspend \/ Exit \/ \E d \in Delays : Sleep(d)
            \/ EnterCritical \/ ExitCritical
            \/ \E t \in Thread, p \in Priority : SetPriority(t, p)
  <2>1. InThread
    BY <1>11 DEF Startup, Create, Suspend, Exit, Sleep, EnterCritical, ExitCritical,
       SetPriority, May
  <2> QED BY <1>11, <2>1, CallsPassBy
<1>12. ~ \E t \in Thread : Resume(t) \/ Delete(t) \/ Irq(t)
  BY DEF WaitersLeftAlone, Resume, Delete, Irq, May
<1> QED BY <1>3, <1>4, <1>5, <1>6, <1>7, <1>8, <1>9, <1>10, <1>11, <1>12
        DEF Next, ThreadStep, TickStep

\* Steps that pass by and timeouts keep the waiting threads on their lists.
LEMMA TakersNext ==
    ASSUME IInv, TakersKept, PassesBy \/ \E h \in Thread : TimesOut(h)
    PROVE  TakersKept'
<1>1. CASE PassesBy
  <2>1. ASSUME NEW w \in WaitList, NEW t \in Members(k'.wait[w]) PROVE t \in Thread
    <3>1. k.wait[w] \in Seq(Thread) /\ k'.wait[w] = k.wait[w]
      BY <1>1 DEF PassesBy, IInv, Typed, KernelState
    <3> QED BY <3>1 DEF Members
  <2> QED BY <1>1, <2>1 DEF PassesBy, Undisturbed, TakersKept
<1>2. ASSUME NEW h \in Thread, TimesOut(h) PROVE TakersKept'
  <2>1. ASSUME NEW w \in WaitList
        PROVE  Members(k'.wait[w]) = Members(k.wait[w]) \ {h}
    <3>1. k.wait[w] \in Seq(Thread) /\ NoDup(k.wait[w])
      BY DEF IInv, Sound, Consistent, WaitConsistent, KernelState
    <3>2. k'.wait[w] = Without(k.wait[w], h)
      BY <1>2 DEF TimesOut, Fired, WaitsWithout
    <3> QED BY <3>1, <3>2, MembersWithout
  <2> QED BY <1>2, <2>1 DEF TakersKept, TimesOut, Fired
<1> QED BY <1>1, <1>2

\* Without RT_THREAD_CTRL_CHANGE_PRIORITY the priorities stay, but for the one
\* of a closed thread that is created again.
LEMMA NextPriorities ==
    ASSUME IInv, "priority" \notin Calls, [Next]_vars, NEW t \in Thread
    PROVE  \/ k'.prio[t] = k.prio[t]
           \/ /\ k.stat[t] = "close" /\ k'.prio[t] = InitPrio[t]
              /\ "create" \in Calls
<1> DEFINE c == k.current
<1>1. /\ Sound(k) /\ c \in Thread /\ k \in KernelState /\ k.stat \in [Thread -> Stat]
      /\ k.prio \in [Thread -> Priority]
  BY DEF IInv, Typed, KernelState
<1>2. CASE \E u \in Thread : Startup(u)
  <2>1. PICK u \in Thread : Startup(u)
    BY <1>2
  <2>2. k' = rt_thread_startup(k, u) /\ k.stat[u] = "init"
    BY <2>1 DEF Startup, ThenSchedule
  <2>3. SameCurrent(k, k')
    BY <1>1, <2>2, StartupSound
  <2> QED BY <2>3 DEF SameCurrent
<1>3. CASE \E u \in Thread : Create(u)
  <2>1. PICK u \in Thread : Create(u)
    BY <1>3
  <2>2. k'.prio = [k.prio EXCEPT ![u] = InitPrio[u]]
    BY <1>1, <2>1, CreateWaits DEF Create
  <2> QED BY <1>1, <2>1, <2>2 DEF Create, May
<1>4. CASE \E u \in Thread : Resume(u)
  <2>1. PICK u \in Thread : Resume(u)
    BY <1>4
  <2>2. k' = rt_thread_resume(k, u) /\ k.stat[u] = "suspend"
    BY <2>1 DEF Resume, ThenSchedule
  <2>3. SameCurrent(k, k')
    BY <1>1, <2>2, ResumeSound
  <2> QED BY <2>3 DEF SameCurrent
<1>5. CASE \E u \in Thread : Delete(u)
  <2>1. PICK u \in Thread : Delete(u)
    BY <1>5
  <2>2. k' = rt_thread_delete(k, u) /\ u # Idle /\ k.stat[u] # "close"
    BY <2>1 DEF Delete, Done
  <2>3. SameCurrent(k, k')
    BY <1>1, <2>2, DeleteSound
  <2> QED BY <2>3 DEF SameCurrent
<1>6. CASE \E d \in Delays : Sleep(d)
  <2>1. PICK d \in Delays : Sleep(d)
    BY <1>6
  <2>2. InThread /\ k' = rt_thread_sleep(k, c, d) /\ d \in Nat
    BY <2>1, DelaysAssumption DEF Sleep, May, ThenSchedule
  <2>3. SameCurrent(k, k')
    BY <1>1, <2>2, CallerOpen, SleepSound
  <2> QED BY <2>3 DEF SameCurrent
<1>7. CASE Suspend \/ Exit
  <2>1. /\ InThread /\ c # Idle
        /\ k' = rt_thread_suspend(k, c) \/ k' = _thread_exit(k, c)
    BY <1>7 DEF Suspend, Exit, May, ThenSchedule, InThread
  <2>2. SameCurrent(k, rt_thread_suspend(k, c))
    BY <1>1, <2>1, SuspendSound
  <2>3. SameCurrent(k, _thread_exit(k, c))
    BY <1>1, <2>1, DeleteSound
  <2> QED BY <2>1, <2>2, <2>3 DEF SameCurrent
<1>8. CASE EnterCritical \/ ExitCritical \/ WakeUp
  BY <1>1, <1>8 DEF EnterCritical, ExitCritical, WakeUp, rt_enter_critical,
     rt_exit_critical, ThenSchedule, Done, KernelState
<1>9. CASE Yield \/ CallSchedule \/ TickSchedule
  <2>1. k' = rt_thread_yield(k, c) \/ k' = rt_schedule(k)
    BY <1>9 DEF Yield, CallSchedule, ScheduleFrom, TickSchedule
  <2> QED BY <1>1, <2>1, YieldSound, ScheduleSound
<1>10. CASE IdlePick \/ IdleReclaim
  BY <1>1, <1>10 DEF IdlePick, IdleReclaim, Unlink, KernelState
<1>11. CASE Tick
  BY <1>1, <1>11, TickSound DEF Tick, SameCurrent
<1>12. CASE TimerFire
  BY <1>1, <1>12, FireSound DEF TimerFire, TimerDue, Fired
<1>13. CASE TimerCheck \/ TickEnd \/ UNCHANGED vars
  BY <1>13 DEF TimerCheck, TickEnd, vars
<1>14. CASE \E u \in Thread : Irq(u)
  <2>1. PICK u \in Thread : Irq(u)
    BY <1>14
  <2> DEFINE r == rt_thread_resume(k, u)
  <2>2. k.stat[u] = "suspend" /\ k' = rt_schedule(r)
    BY <2>1 DEF Irq
  <2>3. Sound(r) /\ SameCurrent(k, r)
    BY <1>1, <2>2, ResumeSound
  <2> HIDE DEF r
  <2> QED BY <2>2, <2>3, ScheduleSound DEF SameCurrent
<1>15. ~ \E u \in Thread, p \in Priority : SetPriority(u, p)
  BY DEF SetPriority, May
<1> QED BY <1>2, <1>3, <1>4, <1>5, <1>6, <1>7, <1>8, <1>9, <1>10, <1>11, <1>12,
           <1>13, <1>14, <1>15 DEF Next, ThreadStep, TickStep

\* Whatever calls are made, a step of this module puts nobody on a suspend
\* list: it takes one thread off or changes nothing.
LEMMA NextLists ==
    ASSUME IInv, [Next]_vars
    PROVE  k'.wait = k.wait \/ \E h \in Thread : k'.wait = WaitsWithout(k, h)
<1> DEFINE c == k.current
<1>1. /\ Sound(k) /\ c \in Thread /\ k \in KernelState
  BY DEF IInv, Typed, KernelState
<1> USE DEF SameWaits
<1>2. CASE \E u \in Thread : Startup(u)
  <2>1. PICK u \in Thread : Startup(u)
    BY <1>2
  <2>2. k' = rt_thread_startup(k, u) /\ k.stat[u] = "init"
    BY <2>1 DEF Startup, ThenSchedule
  <2> QED BY <1>1, <2>2, StartupWaits
<1>3. CASE \E u \in Thread : Create(u)
  <2>1. PICK u \in Thread : Create(u)
    BY <1>3
  <2>2. k' = _thread_init(k, u)
    BY <2>1 DEF Create
  <2> QED BY <1>1, <2>2, CreateWaits
<1>4. CASE \E u \in Thread : Resume(u)
  <2>1. PICK u \in Thread : Resume(u)
    BY <1>4
  <2> QED BY <1>1, <2>1, ResumeWaits DEF Resume, ThenSchedule
<1>5. CASE \E u \in Thread : Delete(u)
  <2>1. PICK u \in Thread : Delete(u)
    BY <1>5
  <2>2. k' = rt_thread_delete(k, u)
    BY <2>1 DEF Delete, Done
  <2>3. k'.wait = k.wait \/ k'.wait = WaitsWithout(k, u)
    BY <1>1, <2>2 DEF rt_thread_delete, TakeOff, Bury, rt_timer_stop, KernelState,
       rt_schedule_remove_thread, Unlink, WaitsWithout
  <2> QED BY <2>3
<1>6. CASE Suspend \/ Exit \/ \E d \in Delays : Sleep(d)
  <2>1. \/ k' = rt_thread_suspend(k, c) \/ k' = _thread_exit(k, c)
        \/ \E d : k' = rt_thread_sleep(k, c, d)
    BY <1>6 DEF Suspend, Exit, Sleep, ThenSchedule
  <2>2. \/ rt_thread_suspend(k, c).wait = k.wait
        \/ rt_thread_suspend(k, c).wait = WaitsWithout(k, c)
    BY <1>1 DEF rt_thread_suspend, rt_timer_stop, rt_schedule_remove_thread, Unlink,
       WaitsWithout, KernelState
  <2>3. _thread_exit(k, c).wait = WaitsWithout(k, c)
    BY <1>1 DEF _thread_exit, Bury, rt_timer_stop, rt_schedule_remove_thread, Unlink,
       WaitsWithout, KernelState
  <2>4. ASSUME NEW d
        PROVE  \/ rt_thread_sleep(k, c, d).wait = k.wait
               \/ rt_thread_sleep(k, c, d).wait = WaitsWithout(k, c)
    <3> DEFINE e == [k EXCEPT !.error[c] = "ok"]
               s == rt_thread_suspend(e, c)
    <3>1. e.wait = k.wait
      BY <1>1 DEF KernelState
    <3> HIDE DEF e
    <3>2. s.wait = e.wait \/ s.wait = WaitsWithout(e, c)
      BY DEF rt_thread_suspend, rt_timer_stop, rt_schedule_remove_thread, Unlink,
         WaitsWithout
    <3> HIDE DEF s
    <3>3. rt_timer_start(s, c, d).wait = s.wait
      BY DEF rt_timer_start
    <3>4. rt_thread_sleep(k, c, d) = rt_timer_start(s, c, d)
      BY DEF rt_thread_sleep, s, e
    <3> QED BY <3>1, <3>2, <3>3, <3>4 DEF WaitsWithout
  <2> QED BY <1>1, <2>1, <2>2, <2>3, <2>4
<1>7. CASE EnterCritical \/ ExitCritical \/ WakeUp
  BY <1>1, <1>7 DEF EnterCritical, ExitCritical, WakeUp, rt_enter_critical,
     rt_exit_critical, ThenSchedule, Done, KernelState
<1>8. CASE Yield \/ CallSchedule \/ TickSchedule
  <2>1. k' = rt_thread_yield(k, c) \/ k' = rt_schedule(k)
    BY <1>8 DEF Yield, CallSchedule, ScheduleFrom, TickSchedule
  <2> QED BY <1>1, <2>1, YieldSound, ScheduleWaits
<1>9. CASE IdlePick \/ IdleReclaim
  <2>1. k' = k \/ (k' = Unlink(k, picked) /\ picked \in Thread)
    BY <1>9 DEF IdlePick, IdleReclaim, IInv, Typed
  <2> QED BY <1>1, <2>1, RemoveWaits
<1>10. CASE Tick
  BY <1>1, <1>10, TickWaits DEF Tick
<1>11. CASE TimerFire
  <2>1. Fired(k, k', Head(k.timers))
    BY <1>1, <1>11, FireSound DEF TimerFire, TimerDue
  <2> QED BY <2>1 DEF Fired
<1>12. CASE TimerCheck \/ TickEnd \/ UNCHANGED vars
  BY <1>12 DEF TimerCheck, TickEnd, vars
<1>13. CASE \E u \in Thread : Irq(u)
  <2>1. PICK u \in Thread : Irq(u)
    BY <1>13
  <2> DEFINE r == rt_thread_resume(k, u)
  <2>2. k.stat[u] = "suspend" /\ k' = rt_schedule(r)
    BY <2>1 DEF Irq
  <2>3. Sound(r) /\ r.wait = WaitsWithout(k, u)
    BY <1>1, <2>2, ResumeSound, ResumeWaits
  <2> HIDE DEF r
  <2> QED BY <2>2, <2>3, ScheduleWaits
<1>14. CASE \E u \in Thread, p \in Priority : SetPriority(u, p)
  <2>1. PICK u \in Thread, p \in Priority : SetPriority(u, p)
    BY <1>14
  <2>2. k' = ChangePriority(k, u, p)
    BY <2>1 DEF SetPriority
  <2> QED BY <1>1, <2>2, ChangePriorityWaits
<1> QED BY <1>2, <1>3, <1>4, <1>5, <1>6, <1>7, <1>8, <1>9, <1>10, <1>11, <1>12,
           <1>13, <1>14 DEF Next, ThreadStep, TickStep


-----------------------------------------------------------------------------
(* The steps that the waiting calls of the IPC objects are made of.         *)

\* The current thread is put on suspend list w and goes to label l.
JoinsAt(w, l) ==
    /\ pc' = [pc EXCEPT ![k.current] = l]
    /\ k'.error = [k.error EXCEPT ![k.current] = "ok"]
    /\ k'.stat = [k.stat EXCEPT ![k.current] = "suspend"]
    /\ \A v \in WaitList : v # w => k'.wait[v] = k.wait[v]
    /\ Members(k'.wait[w]) = Members(k.wait[w]) \cup {k.current}

\* It enters a waiting call by that.
Joins(w) == pc[k.current] = "run" /\ JoinsAt(w, "take")

\* h is taken off its list and made ready, and is told nothing.
MadeReady(h) ==
    /\ h \in Thread /\ k.stat[h] = "suspend"
    /\ k'.stat[h] \in {"ready", "running"}
    /\ k'.wait = WaitsWithout(k, h) /\ k'.error = k.error
    /\ \A t \in Thread : t # h =>
          \/ k'.stat[t] = k.stat[t]
          \/ {k.stat[t], k'.stat[t]} \subseteq {"ready", "running"}

\* The wait of h ends with what it has waited for, and no other call ends.
Resumed(h) ==
    MadeReady(h) /\ \A t \in Thread : pc'[t] \in InWait <=> pc[t] \in InWait

\* The call of rt_schedule after a waiting call has put its thread on a
\* suspend list.
LEMMA TakeScheduleStep ==
    ASSUME IInv, NEW l, NEW m, <<l, m>> \in {<<"take", "taken">>, <<"block", "woken">>},
           ScheduleFrom(l, m)
    PROVE  IInv' /\ PassesBy /\ k'.prio = k.prio
<1> DEFINE c == k.current
<1>0. /\ pc[c] = l /\ k' = rt_schedule(k) /\ Settle
      /\ pc' = [pc EXCEPT ![c] = m] /\ isr' = isr /\ picked' = picked
  BY DEF ScheduleFrom, At, Goto
<1>a. l \in {"take", "block"} /\ m \in {"taken", "woken"}
  OBVIOUS
<1>1. /\ Sound(k) /\ c \in Thread /\ Typed /\ pc \in [Thread -> EveryLabel]
  BY DEF IInv, Typed, KernelState
<1>2. /\ Sound(k') /\ k'.lock = k.lock /\ Preempts(k, k') /\ k'.prio = k.prio
      /\ k.lock # 0 => k'.current = k.current
      /\ k.lock = 0 => MostUrgentRuns(k')
  BY <1>0, <1>1, ScheduleSound
<1>3. SameWaits(k, k')
  BY <1>0, <1>1, ScheduleWaits
<1>4. Typed'
  BY <1>a, <1>0, <1>1, <1>2, SettleType DEF Typed, Sound, EveryLabel
<1>5. \A t \in Thread : k'.stat[t] = "close" <=> k.stat[t] = "close"
  BY <1>2 DEF Preempts
<1>6. \A t \in Thread : pc'[t] = IF t = c THEN m ELSE pc[t]
  BY <1>0, <1>1
<1>7. pc'[Idle] = "reclaim" <=> pc[Idle] = "reclaim"
  BY <1>a, <1>0, <1>6, IdleAssumption
<1>8. IInv'
  BY <1>a, <1>0, <1>2, <1>4, <1>5, <1>7, ReschedulingStep DEF InWait
<1>9. PassesBy
  BY <1>a, <1>0, <1>2, <1>3, <1>6 DEF PassesBy, Undisturbed, Preempts, SameWaits, InWait
<1> QED BY <1>2, <1>8, <1>9

\* The return of a waiting call.
LEMMA TakeReturnStep ==
    ASSUME IInv, At("taken"), Goto("run"), k' = k, isr' = isr, picked' = picked,
           owed' = owed
    PROVE  /\ IInv' /\ k.current \in Thread /\ pc[k.current] = "taken"
           /\ pc' = [pc EXCEPT ![k.current] = "run"]
           /\ k.stat[k.current] = "running" /\ OffWaits(k, k.current)
<1> DEFINE c == k.current
<1>1. /\ Sound(k) /\ c \in Thread /\ Typed /\ pc \in [Thread -> EveryLabel]
      /\ pc[c] = "taken" /\ pc' = [pc EXCEPT ![c] = "run"]
  BY DEF IInv, Typed, KernelState, At, Goto
<1>2. Typed'
  BY <1>1 DEF Typed, EveryLabel
<1>3. PickedClosed'
  BY <1>1, IdleAssumption DEF IInv, PickedClosed
<1>4. k.stat[c] # "close" /\ k.stat[c] # "suspend"
  BY <1>1 DEF IInv, ClosedLeaves, SuspendedLeaves, WaitsUnlocked, InWait, Pending
<1>5. k.stat[c] = "running"
  BY <1>1, <1>4 DEF Sound, Consistent, CurrentConsistent
<1>6. IInv'
  <2>1. pc[c] \notin Pending /\ pc'[c] \notin InWait
    BY <1>1 DEF Pending, InWait
  <2> QED BY <1>1, <1>2, <1>3, <1>4, <2>1, QuietStep
<1>7. OffWaits(k, c)
  BY <1>1, <1>4, AwakeOff
<1> QED BY <1>1, <1>5, <1>6, <1>7

\* The critical section of a waiting call: the current thread is suspended in
\* kernel e and put on list w in any place, and its timer is started.
LEMMA EnqueueStep ==
    ASSUME IInv, k.current # Idle, pc[k.current] \notin Pending, k.lock = 0,
           NEW w \in WaitList,
           NEW e, Sound(e), e.current = k.current, e.lock = k.lock,
           e.stat = k.stat, e.wait = k.wait,
           e.error = [k.error EXCEPT ![k.current] = "ok"],
           NEW n, k.stat[k.current] = "running" => Enqueued(e, n, w, k.current),
           NEW b, b = n \/ \E d \in Nat : b = rt_timer_start(n, k.current, d),
           NEW l \in {"take", "block"}, ThenSchedule(b, l)
    PROVE  /\ IInv' /\ JoinsAt(w, l) /\ k'.prio = e.prio
           /\ k'.wait = n.wait /\ n.prio = e.prio
           /\ k.stat[k.current] = "running"
<1> DEFINE c == k.current
<1>1. /\ Sound(k) /\ c \in Thread /\ c # Idle /\ k.stat \in [Thread -> Stat]
      /\ k.stat[c] = "running"
  <2>1. /\ Sound(k) /\ c \in Thread /\ c # Idle /\ k.stat \in [Thread -> Stat]
    BY DEF IInv, Typed, KernelState
  <2>2. k.stat[c] # "suspend" /\ k.stat[c] # "close"
    BY DEF IInv, SuspendedLeaves, ClosedLeaves, Pending
  <2> QED BY <2>1, <2>2 DEF Sound, Consistent, CurrentConsistent
<1>2. /\ Sound(n) /\ SameCurrent(e, n) /\ n.error = e.error
      /\ n.stat = [e.stat EXCEPT ![c] = "suspend"]
      /\ \A v \in WaitList : v # w => n.wait[v] = e.wait[v]
      /\ Members(n.wait[w]) = Members(e.wait[w]) \cup {c}
  BY <1>1 DEF Enqueued
<1>4. /\ Sound(b) /\ SameCurrent(n, b) /\ b.stat = n.stat /\ SameWaits(n, b)
  <2>1. CASE b = n
    BY <1>2, <2>1 DEF SameCurrent, SameWaits
  <2>2. ASSUME NEW d \in Nat, b = rt_timer_start(n, c, d)
        PROVE  /\ Sound(b) /\ SameCurrent(n, b) /\ b.stat = n.stat /\ SameWaits(n, b)
    <3>1. n.stat[c] = "suspend" /\ n \in KernelState
      BY <1>1, <1>2 DEF Sound
    <3>2. Sound(b) /\ SameCurrent(n, b) /\ b.stat = n.stat
      BY <1>1, <1>2, <2>2, <3>1, TimerStartSound
    <3>3. SameWaits(n, b)
      BY <1>1, <2>2, <3>1, InsertWaits
    <3> QED BY <3>2, <3>3
  <2> QED BY <2>1, <2>2
<1>5. k' = b /\ pc' = [pc EXCEPT ![c] = l]
  BY DEF ThenSchedule, Goto
<1>6. /\ b.current = k.current /\ b.lock = 0 /\ b.prio = e.prio
      /\ b.stat = [k.stat EXCEPT ![c] = "suspend"]
      /\ b.error = [k.error EXCEPT ![c] = "ok"]
      /\ \A v \in WaitList : v # w => b.wait[v] = k.wait[v]
      /\ b.wait = n.wait /\ Members(b.wait[w]) = Members(k.wait[w]) \cup {c}
  BY <1>2, <1>4 DEF SameCurrent, SameWaits
<1>7. IInv'
  <2>1. \A t \in Thread : k.stat[t] = "close" => b.stat[t] = "close"
    BY <1>1, <1>6
  <2>2. b.stat[c] # "close"
    BY <1>1, <1>6
  <2> QED BY <1>4, <1>6, <2>1, <2>2, SectionStep DEF Pending
<1>8. JoinsAt(w, l)
  BY <1>1, <1>5, <1>6 DEF JoinsAt
<1> QED BY <1>1, <1>2, <1>5, <1>6, <1>7, <1>8 DEF SameCurrent

\* The same from a thread's own code, with either flag.
LEMMA JoinStep ==
    ASSUME IInv, InThread, k.lock = 0, NEW w \in WaitList,
           NEW e, Sound(e), e.current = k.current, e.lock = k.lock,
           e.stat = k.stat, e.wait = k.wait,
           e.error = [k.error EXCEPT ![k.current] = "ok"],
           NEW n, n = SuspendFifo(e, w, k.current) \/ n = SuspendPrio(e, w, k.current),
           NEW b, b = n \/ \E d \in Nat : b = rt_timer_start(n, k.current, d),
           ThenSchedule(b, "take")
    PROVE  /\ IInv' /\ Joins(w) /\ k'.prio = e.prio
           /\ n = SuspendPrio(e, w, k.current) /\ Ordered(k.wait[w], e.prio) =>
                 Ordered(k'.wait[w], k'.prio)
<1> DEFINE c == k.current
<1>1. /\ c \in Thread /\ c # Idle /\ pc[c] = "run" /\ pc[c] \notin Pending
  BY DEF InThread, At, Pending, IInv, Typed, KernelState
<1>2. k.stat[c] = "running" => Enqueued(e, n, w, c)
  <2>1. k.stat[c] = "running" => e.stat[c] = "running"
    OBVIOUS
  <2> QED BY <1>1, <2>1, FifoSound, PrioSound
<1>3. /\ IInv' /\ JoinsAt(w, "take") /\ k'.prio = e.prio /\ k'.wait = n.wait
      /\ n.prio = e.prio /\ k.stat[c] = "running"
  BY <1>1, <1>2, EnqueueStep
<1>4. n = SuspendPrio(e, w, c) /\ Ordered(e.wait[w], e.prio) =>
         Ordered(n.wait[w], n.prio)
  <2>1. e.stat[c] = "running"
    BY <1>3
  <2> QED BY <1>1, <2>1, PrioSound
<1> QED BY <1>1, <1>3, <1>4 DEF Joins

\* The first thread of a suspend list.
LEMMA FirstWaiter ==
    ASSUME IInv, NEW w \in WaitList, k.wait[w] # <<>>
    PROVE  /\ Head(k.wait[w]) \in Thread /\ Head(k.wait[w]) \in Members(k.wait[w])
           /\ k.stat[Head(k.wait[w])] = "suspend"
<1>1. k.wait[w] \in Seq(Thread)
  BY DEF IInv, Typed, KernelState
<1>2. Head(k.wait[w]) \in Thread /\ Head(k.wait[w]) \in Members(k.wait[w])
  BY <1>1, MembersTail
<1> QED BY <1>2 DEF IInv, Sound, Consistent, WaitConsistent

\* A call resumes the first thread of a suspend list, in a kernel n that may
\* differ from k in the priorities.
LEMMA WakeFirstStep ==
    ASSUME IInv, k.current # Idle, pc[k.current] # "sched",
           NEW w \in WaitList, k.wait[w] # <<>>,
           NEW n, Sound(n), n.current = k.current, n.lock = k.lock,
           n.stat = k.stat, SameWaits(k, n),
           ThenSchedule(_ipc_list_resume(n, w), "sched")
    PROVE  /\ IInv' /\ MadeReady(Head(k.wait[w])) /\ k'.prio = n.prio
           /\ pc' = [pc EXCEPT ![k.current] = "sched"]
<1> DEFINE h == Head(k.wait[w])
           c == k.current
           r == rt_thread_resume(n, h)
<1>1. h \in Thread /\ k.stat[h] = "suspend"
  BY FirstWaiter
<1>2. /\ c \in Thread /\ c # Idle /\ k.stat \in [Thread -> Stat]
      /\ k.stat[c] # "close" /\ pc \in [Thread -> EveryLabel]
  BY DEF IInv, Typed, KernelState, ClosedLeaves
<1>3. k' = r /\ pc' = [pc EXCEPT ![c] = "sched"] /\ ThenSchedule(r, "sched")
  BY DEF ThenSchedule, Goto, _ipc_list_resume, SameWaits
<1> HIDE DEF h
<1>4. /\ Sound(r) /\ SameCurrent(n, r)
      /\ r.stat = [n.stat EXCEPT ![h] =
                      IF h = n.current THEN "running" ELSE "ready"]
  BY <1>1, ResumeSound
<1>5. r.wait = WaitsWithout(n, h) /\ r.error = n.error
  BY <1>1, ResumeWaits DEF Sound
<1> HIDE DEF r
<1>6. \A t \in Thread : IF t = h THEN r.stat[t] \in {"ready", "running"}
                                 ELSE r.stat[t] = k.stat[t]
  BY <1>2, <1>4
<1>7. IInv'
  <2>1. /\ r.stat[c] # "close" /\ r.current = k.current
        /\ \A t \in Thread : k.stat[t] = "close" => r.stat[t] = "close"
    BY <1>1, <1>2, <1>4, <1>6 DEF SameCurrent
  <2> QED BY <1>3, <1>4, <2>1, SectionStep DEF Pending, InWait
<1>9. k'.wait = WaitsWithout(k, h) /\ k'.error = k.error
  BY <1>3, <1>5 DEF SameWaits, WaitsWithout
<1> QED BY <1>1, <1>3, <1>4, <1>6, <1>7, <1>9 DEF MadeReady, SameCurrent, h

\* The same from a thread's own code.
LEMMA WakeStep ==
    ASSUME IInv, InThread, NEW w \in WaitList, k.wait[w] # <<>>,
           NEW n, Sound(n), n.current = k.current, n.lock = k.lock,
           n.stat = k.stat, SameWaits(k, n),
           ThenSchedule(_ipc_list_resume(n, w), "sched")
    PROVE  IInv' /\ Resumed(Head(k.wait[w])) /\ k'.prio = n.prio
<1>1. /\ k.current \in Thread /\ k.current # Idle /\ pc[k.current] = "run"
      /\ pc \in [Thread -> EveryLabel]
  BY DEF IInv, Typed, KernelState, InThread, At
<1>2. /\ IInv' /\ MadeReady(Head(k.wait[w])) /\ k'.prio = n.prio
      /\ pc' = [pc EXCEPT ![k.current] = "sched"]
  BY <1>1, WakeFirstStep
<1>3. \A t \in Thread : pc'[t] \in InWait <=> pc[t] \in InWait
  BY <1>1, <1>2 DEF InWait
<1> QED BY <1>2, <1>3 DEF Resumed

\* An interrupt handler does the same.
LEMMA WakeHandlerStep ==
    ASSUME IInv, NEW w \in WaitList, k.wait[w] # <<>>,
           k' = rt_schedule(_ipc_list_resume(k, w)), Settle,
           pc' = pc, isr' = isr, picked' = picked
    PROVE  IInv' /\ Resumed(Head(k.wait[w])) /\ k'.prio = k.prio
<1> DEFINE h == Head(k.wait[w])
           r == rt_thread_resume(k, h)
<1>1. h \in Thread /\ k.stat[h] = "suspend"
  BY FirstWaiter
<1>2. Sound(k) /\ k \in KernelState /\ k.stat \in [Thread -> Stat]
  BY DEF IInv, Sound, KernelState
<1>3. k' = rt_schedule(r)
  BY DEF _ipc_list_resume
<1> HIDE DEF h
<1>4. IInv'
  BY <1>1, <1>3, HandlerStep
<1>5. /\ Sound(r) /\ SameCurrent(k, r)
      /\ r.stat = [k.stat EXCEPT ![h] =
                      IF h = k.current THEN "running" ELSE "ready"]
  BY <1>1, <1>2, ResumeSound
<1>6. r.wait = WaitsWithout(k, h) /\ r.error = k.error
  BY <1>1, <1>2, ResumeWaits
<1> HIDE DEF r
<1>7. Preempts(r, k') /\ k'.prio = r.prio
  BY <1>3, <1>5, ScheduleSound
<1>8. SameWaits(r, k')
  BY <1>3, <1>5, ScheduleWaits
<1>9. \A t \in Thread : IF t = h THEN r.stat[t] \in {"ready", "running"}
                                 ELSE r.stat[t] = k.stat[t]
  BY <1>2, <1>5
<1>10. \A t \in Thread : IF t = h THEN k'.stat[t] \in {"ready", "running"}
          ELSE \/ k'.stat[t] = k.stat[t]
               \/ {k.stat[t], k'.stat[t]} \subseteq {"ready", "running"}
  BY <1>7, <1>9 DEF Preempts
<1> QED BY <1>1, <1>4, <1>5, <1>6, <1>7, <1>8, <1>10
        DEF Resumed, MadeReady, SameCurrent, SameWaits, h

\* Both keep the waiting threads on their lists.
LEMMA TakersJoin ==
    ASSUME IInv, TakersKept, NEW w \in WaitList, NEW l \in InWait, JoinsAt(w, l)
    PROVE  TakersKept'
<1> DEFINE c == k.current
<1>1. /\ c \in Thread /\ pc \in [Thread -> EveryLabel] /\ k.stat \in [Thread -> Stat]
  BY DEF IInv, Typed, KernelState
<1>2. \A t \in Thread : /\ pc'[t] = IF t = c THEN l ELSE pc[t]
                        /\ k'.stat[t] = IF t = c THEN "suspend" ELSE k.stat[t]
  BY <1>1 DEF JoinsAt
<1>3. ASSUME NEW v \in WaitList
      PROVE  Members(k'.wait[v]) =
                IF v = w THEN Members(k.wait[v]) \cup {c} ELSE Members(k.wait[v])
  BY DEF JoinsAt
<1>4. ASSUME NEW v \in WaitList, NEW t \in Members(k'.wait[v])
      PROVE  pc'[t] \in InWait
  <2>1. t = c \/ t \in Members(k.wait[v])
    BY <1>3, <1>4
  <2>2. CASE t = c
    BY <1>1, <1>2, <2>2
  <2>3. CASE t \in Members(k.wait[v]) /\ t # c
    <3>1. t \in Thread
      <4>1. k.wait[v] \in Seq(Thread)
        BY DEF IInv, Typed, KernelState
      <4> QED BY <2>3, <4>1 DEF Members
    <3> QED BY <1>2, <2>3, <3>1 DEF TakersKept
  <2> QED BY <2>1, <2>2, <2>3
<1>5. ASSUME NEW t \in Thread, pc'[t] \in InWait
      PROVE  /\ k'.stat[t] \in {"suspend", "ready", "running"}
             /\ k'.stat[t] = "suspend" =>
                   \E v \in WaitList : t \in Members(k'.wait[v])
  <2>1. CASE t = c
    BY <1>2, <1>3, <2>1
  <2>2. CASE t # c
    BY <1>2, <1>3, <1>5, <2>2 DEF TakersKept
  <2> QED BY <2>1, <2>2
<1> QED BY <1>4, <1>5 DEF TakersKept

\* The members of the suspend lists after one thread has left.
LEMMA MembersLeft ==
    ASSUME IInv, NEW h, k'.wait = WaitsWithout(k, h), NEW w \in WaitList
    PROVE  /\ Members(k'.wait[w]) = Members(k.wait[w]) \ {h}
           /\ k'.wait[w] = Without(k.wait[w], h)
           /\ k.wait[w] = <<>> => k'.wait[w] = <<>>
<1>1. k.wait[w] \in Seq(Thread) /\ NoDup(k.wait[w])
  BY DEF IInv, Sound, Consistent, WaitConsistent, KernelState
<1>2. k'.wait[w] = Without(k.wait[w], h)
  BY DEF WaitsWithout
<1>3. Members(k'.wait[w]) = Members(k.wait[w]) \ {h}
  BY <1>1, <1>2, MembersWithout
<1>4. ASSUME k.wait[w] = <<>> PROVE Without(k.wait[w], h) = <<>>
  <2>1. h \notin Members(k.wait[w])
    BY <1>1, <1>4, MembersEmpty
  <2> QED BY <1>4, <2>1 DEF Without
<1> QED BY <1>2, <1>3, <1>4

\* A thread that is resumed leaves its list.
LEMMA TakersResume ==
    ASSUME IInv, TakersKept, NEW h, Resumed(h) PROVE TakersKept'
<1>1. \A w \in WaitList : Members(k'.wait[w]) = Members(k.wait[w]) \ {h}
  BY MembersLeft DEF Resumed, MadeReady
<1>2. \A w \in WaitList : \A t \in Members(k.wait[w]) : t \in Thread
  <2>1. \A w \in WaitList : k.wait[w] \in Seq(Thread)
    BY DEF IInv, Typed, KernelState
  <2> QED BY <2>1 DEF Members
<1> QED BY <1>1, <1>2 DEF TakersKept, Resumed, MadeReady


\* A thread on a suspend list is suspended.
LEMMA WaitersSuspended ==
    ASSUME IInv
    PROVE  \A w \in WaitList : \A t \in Members(k.wait[w]) :
              t \in Thread /\ k.stat[t] = "suspend"
<1> SUFFICES ASSUME NEW w \in WaitList, NEW t \in Members(k.wait[w])
             PROVE  t \in Thread /\ k.stat[t] = "suspend"
  OBVIOUS
<1>1. k.wait[w] \in Seq(Thread)
  BY DEF IInv, Typed, KernelState
<1>2. t \in Thread
  BY <1>1 DEF Members
<1> QED BY <1>2 DEF IInv, Sound, Consistent, WaitConsistent

\* A sorted list stays sorted when threads leave it and the priorities of
\* those that stay do not change.
LEMMA StaysOrdered ==
    ASSUME IInv, IInv', NEW w \in WaitList, Ordered(k.wait[w], k.prio),
           \/ k'.wait[w] = k.wait[w]
           \/ \E h : k'.wait[w] = Without(k.wait[w], h),
           \A t \in Members(k.wait[w]) : k'.prio[t] = k.prio[t]
    PROVE  Ordered(k'.wait[w], k'.prio)
<1>1. k.wait[w] \in Seq(Thread)
  BY DEF IInv, Sound, Consistent, KernelState, Typed
<1>2. Ordered(k.wait[w], k'.prio)
  BY <1>1, OrderedAlike
<1> QED BY <1>1, <1>2, OrderedWithout
=============================================================================
