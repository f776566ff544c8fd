-------------------------- MODULE SemaphoreProofs ---------------------------
(***************************************************************************)
(* Proofs about module Semaphore, for any finite number of threads, any    *)
(* number of semaphores with any flags, values and limits, and any         *)
(* timeouts: no wakeup is lost, tokens are conserved, and a semaphore with *)
(* RT_IPC_FLAG_PRIO serves the most urgent waiter first.                   *)
(***************************************************************************)
EXTENDS Semaphore, SchedulerProofs, FiniteSetTheorems

SemTyped ==
    /\ sem \in [WaitList -> [value : 0 .. ValueMax, flag : {"fifo", "prio"}]]
    /\ want \in [Thread -> WaitList]

\* What holds whatever calls the threads and handlers make.
SInv == IInv /\ SemTyped /\ NoWaitWithTokens

-----------------------------------------------------------------------------
(* The steps of the semaphore calls *)

\* rt_sem_take finds no token and waits.
LEMMA SemWaitStep ==
    ASSUME SInv, NEW s \in WaitList, NEW time \in Times \cup {Forever},
           SemWait(s, time)
    PROVE  /\ IInv' /\ Joins(s) /\ k'.prio = k.prio
           /\ Value(s) = 0 /\ sem' = sem /\ credit' = credit
           /\ want' = [want EXCEPT ![k.current] = s]
           /\ sem[s].flag = "prio" /\ Ordered(k.wait[s], k.prio) =>
                 Ordered(k'.wait[s], k'.prio)
<1> DEFINE c == k.current
           e == [k EXCEPT !.error[c] = "ok"]
           n == Enqueue(e, s, c)
           b == IF time = Forever THEN n ELSE rt_timer_start(n, c, time)
<1>1. /\ InThread /\ k.lock = 0 /\ ThenSchedule(b, "take") /\ Value(s) = 0
      /\ want' = [want EXCEPT ![c] = s] /\ sem' = sem /\ credit' = credit
  BY DEF SemWait, Me
<1>2. Sound(k) /\ c \in Thread
  BY DEF SInv, IInv, Typed, KernelState
<1>3. /\ Sound(e) /\ SameCurrent(k, e) /\ e.stat = k.stat
      /\ e.wait = k.wait /\ e.error = [k.error EXCEPT ![c] = "ok"]
  BY <1>2, ErrorSound DEF Error
<1> HIDE DEF e
<1>4. /\ n = SuspendFifo(e, s, c) \/ n = SuspendPrio(e, s, c)
      /\ sem[s].flag = "prio" => n = SuspendPrio(e, s, c)
  BY DEF Enqueue
<1> HIDE DEF n
<1>5. b = n \/ \E d \in Nat : b = rt_timer_start(n, c, d)
  BY TimesAssumption
<1> HIDE DEF b
<1>6. /\ IInv' /\ Joins(s) /\ k'.prio = e.prio
      /\ n = SuspendPrio(e, s, c) /\ Ordered(k.wait[s], e.prio) =>
            Ordered(k'.wait[s], k'.prio)
  BY <1>1, <1>3, <1>4, <1>5, JoinStep DEF SInv, SameCurrent
<1> QED BY <1>1, <1>3, <1>4, <1>6 DEF SameCurrent

\* rt_sem_release, called by a thread or by a handler, finds a waiter.
LEMMA SemWakeStep ==
    ASSUME SInv, NEW s \in WaitList, SemRelease(s) \/ SemReleaseIrq(s),
           k.wait[s] # <<>>
    PROVE  /\ IInv' /\ Resumed(Head(k.wait[s])) /\ k'.prio = k.prio
           /\ sem' = sem /\ want' = want
           /\ credit' = [credit EXCEPT ![s] = credit[s] + 1]
<1>1. /\ sem' = sem /\ want' = want
      /\ credit' = [credit EXCEPT ![s] = credit[s] + 1]
  BY DEF SemRelease, SemReleaseIrq, Deposit, Credit
<1>2. CASE SemRelease(s)
  <2>1. InThread /\ ThenSchedule(_ipc_list_resume(k, s), "sched")
    BY <1>2 DEF SemRelease
  <2>2. Sound(k) /\ SameWaits(k, k)
    BY DEF SInv, IInv, SameWaits
  <2>3. IInv' /\ Resumed(Head(k.wait[s])) /\ k'.prio = k.prio
    BY <2>1, <2>2, WakeStep DEF SInv
  <2> QED BY <1>1, <2>3
<1>3. CASE SemReleaseIrq(s)
  <2>1. /\ k' = rt_schedule(_ipc_list_resume(k, s)) /\ Settle
        /\ pc' = pc /\ isr' = isr /\ picked' = picked
    BY <1>3 DEF SemReleaseIrq
  <2>2. IInv' /\ Resumed(Head(k.wait[s])) /\ k'.prio = k.prio
    BY <2>1, WakeHandlerStep DEF SInv
  <2> QED BY <1>1, <2>2
<1> QED BY <1>2, <1>3

\* rt_sem_release finds no waiter and counts the token.
LEMMA SemCountStep ==
    ASSUME SInv, NEW s \in WaitList, SemRelease(s) \/ SemReleaseIrq(s),
           k.wait[s] = <<>>
    PROVE  /\ UNCHANGED vars /\ want' = want /\ Value(s) < ValueMax
           /\ sem' = [sem EXCEPT ![s].value = Value(s) + 1]
           /\ credit' = [credit EXCEPT ![s] = credit[s] + 1]
BY DEF SemRelease, SemReleaseIrq, Deposit, SetValue, Credit

\* Every waiter of s is told -RT_ERROR.
Broken(s) ==
    /\ k'.wait = [k.wait EXCEPT ![s] = <<>>]
    /\ \A t \in Thread :
          IF t \in Members(k.wait[s])
          THEN k'.error[t] = "error" /\ k'.stat[t] \in {"ready", "running"}
          ELSE k'.error[t] = k.error[t] /\ k'.stat[t] = k.stat[t]
    /\ \A t \in Thread : pc'[t] \in InWait <=> pc[t] \in InWait

\* rt_sem_control(RT_IPC_CMD_RESET).
LEMMA SemResetStep ==
    ASSUME SInv, NEW s \in WaitList, NEW v \in 0 .. ValueMax, SemReset(s, v)
    PROVE  /\ IInv' /\ Broken(s) /\ k'.prio = k.prio /\ want' = want
           /\ sem' = [sem EXCEPT ![s].value = v]
           /\ credit' = [credit EXCEPT ![s] = v + Cardinality(Granted(s))]
<1> DEFINE c == k.current
           n == _ipc_list_resume_all(k, s)
<1>1. /\ InThread /\ ThenSchedule(n, "sched") /\ want' = want
      /\ sem' = [sem EXCEPT ![s].value = v]
      /\ credit' = [credit EXCEPT ![s] = v + Cardinality(Granted(s))]
  BY DEF SemReset, SetValue, Credit
<1>2. /\ Sound(k) /\ c \in Thread /\ k.stat[c] # "close" /\ pc[c] = "run"
      /\ pc \in [Thread -> EveryLabel]
  BY <1>1, CallerOpen DEF SInv, IInv, Typed, InThread, At
<1>3. /\ Sound(n) /\ SameCurrent(k, n)
      /\ n.wait = [k.wait EXCEPT ![s] = <<>>]
      /\ \A t \in Thread :
            IF t \in Members(k.wait[s])
            THEN n.error[t] = "error" /\ n.stat[t] \in {"ready", "running"}
            ELSE n.error[t] = k.error[t] /\ n.stat[t] = k.stat[t]
  BY <1>2, ResumeAllSound
<1>4. k' = n /\ pc' = [pc EXCEPT ![c] = "sched"]
  BY <1>1 DEF ThenSchedule, Goto
<1> HIDE DEF n
<1>5. /\ n.stat[c] # "close" /\ n.current = k.current
      /\ \A t \in Thread : k.stat[t] = "close" => n.stat[t] = "close"
  <2>1. \A t \in Members(k.wait[s]) : k.stat[t] = "suspend"
    BY <1>2 DEF Sound, Consistent, WaitConsistent
  <2> QED BY <1>2, <1>3, <2>1 DEF SameCurrent
<1>6. IInv'
  BY <1>1, <1>3, <1>5, CallingStep DEF SInv, Pending
<1>7. \A t \in Thread : pc'[t] \in InWait <=> pc[t] \in InWait
  BY <1>2, <1>4 DEF InWait
<1>8. Broken(s)
  BY <1>3, <1>4, <1>7 DEF Broken
<1> QED BY <1>1, <1>3, <1>4, <1>6, <1>8 DEF SameCurrent

\* The return of a waiting rt_sem_take.
LEMMA SemReturnStep ==
    ASSUME SInv, SemReturn
    PROVE  /\ IInv' /\ k' = k /\ sem' = sem /\ want' = want
           /\ k.current \in Thread /\ pc[k.current] = "taken"
           /\ pc' = [pc EXCEPT ![k.current] = "run"]
           /\ OffWaits(k, k.current) /\ k.stat[k.current] = "running"
           /\ credit' = IF k.error[k.current] = "ok"
                        THEN [credit EXCEPT ![want[k.current]] = @ - 1] ELSE credit
<1>1. /\ At("taken") /\ Goto("run") /\ k' = k /\ isr' = isr /\ picked' = picked
      /\ owed' = owed /\ sem' = sem /\ want' = want
      /\ credit' = IF k.error[k.current] = "ok"
                   THEN [credit EXCEPT ![want[k.current]] = @ - 1] ELSE credit
  BY DEF SemReturn, Credit, Me
<1> QED BY <1>1, TakeReturnStep DEF SInv


-----------------------------------------------------------------------------
(* No lost wakeup *)

\* The initial states: rtthread_startup and rt_sem_init.
LEMMA InitSInv == SemInit => SInv
<1> SUFFICES ASSUME SemInit PROVE SInv
  OBVIOUS
<1>1. IInv
  BY InitIInv DEF SemInit
<1>2. SemTyped
  <2>1. (CHOOSE s \in WaitList : TRUE) \in WaitList
    BY SemaphoreAssumption
  <2> QED BY <2>1 DEF SemInit, SemTyped
<1>3. NoWaitWithTokens
  BY DEF SemInit, Init, KernelInit, NoWaitWithTokens
<1> QED BY <1>1, <1>2, <1>3 DEF SInv

\* Every step preserves the invariant.
LEMMA NextSInv == ASSUME SInv, [SemNext]_allVars PROVE SInv'
<1>0. /\ IInv /\ NoWaitWithTokens /\ k.current \in Thread
      /\ sem \in [WaitList -> [value : 0 .. ValueMax, flag : {"fifo", "prio"}]]
      /\ want \in [Thread -> WaitList]
      /\ \A s \in WaitList : Value(s) \in 0 .. ValueMax
  BY DEF SInv, SemTyped, IInv, Typed, KernelState, Value
<1>1. ASSUME [Next]_vars, UNCHANGED semVars PROVE SInv'
  <2>1. IInv' /\ sem' = sem /\ want' = want
    BY <1>0, <1>1, NextIInv DEF semVars
  <2>2. \A s \in WaitList : k.wait[s] = <<>> => k'.wait[s] = <<>>
    BY <1>0, <1>1, NextLists, MembersLeft
  <2> QED BY <1>0, <2>1, <2>2 DEF SInv, SemTyped, NoWaitWithTokens, Value
<1>2. CASE SemSchedule
  <2>1. IInv' /\ PassesBy /\ sem' = sem /\ want' = want
    BY <1>0, <1>2, TakeScheduleStep DEF SemSchedule, semVars
  <2> QED BY <1>0, <2>1 DEF SInv, SemTyped, NoWaitWithTokens, Value, PassesBy
<1>3. CASE SemReturn
  BY <1>0, <1>3, SemReturnStep DEF SInv, SemTyped, NoWaitWithTokens, Value
<1>4. ASSUME NEW s \in WaitList, SemTake(s) PROVE SInv'
  <2>1. /\ UNCHANGED vars /\ want' = want /\ Value(s) > 0
        /\ sem' = [sem EXCEPT ![s].value = Value(s) - 1]
    BY <1>4 DEF SemTake, SetValue
  <2>2. IInv'
    BY <1>0, <2>1, NextIInv DEF vars
  <2>3. Value(s) - 1 \in 0 .. ValueMax
    BY <1>0, <2>1, ValueMaxAssumption
  <2>4. SemTyped'
    BY <1>0, <2>1, <2>3 DEF SemTyped
  <2>5. \A w \in WaitList : sem'[w].value = IF w = s THEN Value(s) - 1 ELSE Value(w)
    BY <1>0, <2>1 DEF Value
  <2>6. k.wait[s] = <<>>
    BY <1>0, <2>1 DEF NoWaitWithTokens
  <2> QED BY <1>0, <2>1, <2>2, <2>4, <2>5, <2>6 DEF SInv, NoWaitWithTokens, Value, vars
<1>5. ASSUME NEW s \in WaitList, NEW time \in Times \cup {Forever}, SemWait(s, time)
      PROVE  SInv'
  <2>1. /\ IInv' /\ Joins(s) /\ Value(s) = 0 /\ sem' = sem
        /\ want' = [want EXCEPT ![k.current] = s]
    BY <1>5, SemWaitStep
  <2>2. SemTyped'
    BY <1>0, <2>1 DEF SemTyped
  <2> QED BY <1>0, <2>1, <2>2 DEF SInv, NoWaitWithTokens, Value, Joins, JoinsAt
<1>6. ASSUME NEW s \in WaitList, SemRelease(s) \/ SemReleaseIrq(s) PROVE SInv'
  <2>1. CASE k.wait[s] # <<>>
    <3>1. /\ IInv' /\ Resumed(Head(k.wait[s])) /\ sem' = sem /\ want' = want
      BY <1>6, <2>1, SemWakeStep
    <3>2. \A w \in WaitList : k.wait[w] = <<>> => k'.wait[w] = <<>>
      BY <1>0, <3>1, MembersLeft DEF Resumed, MadeReady
    <3> QED BY <1>0, <3>1, <3>2 DEF SInv, SemTyped, NoWaitWithTokens, Value
  <2>2. CASE k.wait[s] = <<>>
    <3>1. /\ UNCHANGED vars /\ want' = want /\ Value(s) < ValueMax
          /\ sem' = [sem EXCEPT ![s].value = Value(s) + 1]
      BY <1>6, <2>2, SemCountStep
    <3>2. IInv'
      BY <1>0, <3>1, NextIInv DEF vars
    <3>3. Value(s) + 1 \in 0 .. ValueMax
      BY <1>0, <3>1, ValueMaxAssumption
    <3>4. SemTyped'
      BY <1>0, <3>1, <3>3 DEF SemTyped
    <3>5. \A w \in WaitList : w # s => sem'[w].value = Value(w)
      BY <1>0, <3>1 DEF Value
    <3> QED BY <1>0, <2>2, <3>1, <3>2, <3>4, <3>5
            DEF SInv, NoWaitWithTokens, Value, vars
  <2> QED BY <2>1, <2>2
<1>7. ASSUME NEW s \in WaitList, NEW v \in 0 .. ValueMax, SemReset(s, v) PROVE SInv'
  <2>1. /\ IInv' /\ Broken(s) /\ want' = want
        /\ sem' = [sem EXCEPT ![s].value = v]
    BY <1>7, SemResetStep
  <2>2. SemTyped'
    BY <1>0, <2>1 DEF SemTyped
  <2>3. \A w \in WaitList : w # s => sem'[w].value = Value(w)
    BY <1>0, <2>1 DEF Value
  <2>4. \A w \in WaitList : k'.wait[w] = IF w = s THEN <<>> ELSE k.wait[w]
    BY <1>0, <2>1 DEF Broken, IInv, Typed, KernelState
  <2> QED BY <1>0, <2>1, <2>2, <2>3, <2>4 DEF SInv, NoWaitWithTokens, Value
<1>8. CASE UNCHANGED allVars
  BY <1>1, <1>8 DEF allVars
<1> QED BY <1>1, <1>2, <1>3, <1>4, <1>5, <1>6, <1>7, <1>8 DEF SemNext, SemStep

\* The invariant holds in every reachable state.
THEOREM AlwaysSInv == SemSpec => []SInv
<1>1. SemInit => SInv
  BY InitSInv
<1>2. SInv /\ [SemNext]_allVars => SInv'
  BY NextSInv
<1> QED BY <1>1, <1>2, PTL DEF SemSpec

\* No lost wakeup: however rt_sem_take, rt_sem_release in threads and in
\* handlers, RT_IPC_CMD_RESET, timeouts and every other call cross, no thread
\* waits for a semaphore that has a token.
THEOREM NeverWaitWithTokens == SemSpec => []NoWaitWithTokens
<1>1. SInv => NoWaitWithTokens
  BY DEF SInv
<1> QED BY <1>1, AlwaysSInv, PTL

\* The kernel's lists stay consistent under the semaphore calls too.
THEOREM SemListsConsistent == SemSpec => []ListsConsistent
<1>1. SInv => ListsConsistent
  BY DEF SInv, IInv, Sound, ListsConsistent
<1> QED BY <1>1, AlwaysSInv, PTL

\* rt_sem_take, rt_sem_release and the reset call rt_schedule wherever a more
\* urgent thread may have become ready.
THEOREM SemHighestRuns == SemSpec => []HighestRuns
<1>1. SInv => HighestRuns
  BY DEF SInv, IInv, Scheduled, HighestRuns, At, Pending
<1> QED BY <1>1, AlwaysSInv, PTL


-----------------------------------------------------------------------------
(* Tokens *)

\* A thread on a suspend list waits for that semaphore, and nothing has gone
\* wrong with its wait yet.
WaitersMine ==
    \A s \in WaitList : \A t \in Members(k.wait[s]) :
        want[t] = s /\ k.error[t] = "ok"

TokInv ==
    /\ SInv /\ TakersKept /\ WaitersMine
    /\ credit \in [WaitList -> Nat] /\ TokensConserved

\* What the invariant says of the state, unfolded once for the steps below.
LEMMA TokFacts ==
    ASSUME TokInv
    PROVE  /\ IInv /\ k.current \in Thread /\ pc \in [Thread -> EveryLabel]
           /\ k.error \in [Thread -> Error]
           /\ sem \in [WaitList -> [value : 0 .. ValueMax, flag : {"fifo", "prio"}]]
           /\ want \in [Thread -> WaitList] /\ credit \in [WaitList -> Nat]
           /\ \A s \in WaitList :
                 /\ Value(s) \in Nat /\ k.wait[s] \in Seq(Thread)
                 /\ Members(k.wait[s]) \subseteq Thread
<1>1. /\ IInv /\ k.current \in Thread /\ pc \in [Thread -> EveryLabel]
      /\ k.error \in [Thread -> Error]
      /\ sem \in [WaitList -> [value : 0 .. ValueMax, flag : {"fifo", "prio"}]]
      /\ want \in [Thread -> WaitList] /\ credit \in [WaitList -> Nat]
      /\ k.wait \in [WaitList -> Seq(Thread)]
  BY DEF TokInv, SInv, SemTyped, IInv, Typed, KernelState
<1>2. ASSUME NEW s \in WaitList
      PROVE  /\ Value(s) \in Nat /\ k.wait[s] \in Seq(Thread)
             /\ Members(k.wait[s]) \subseteq Thread
  <2>1. sem[s].value \in 0 .. ValueMax /\ k.wait[s] \in Seq(Thread)
    BY <1>1
  <2> QED BY <2>1, MembersEmpty, ValueMaxAssumption DEF Value
<1> QED BY <1>1, <1>2

\* There are finitely many threads, so finitely many are granted a token.
LEMMA GrantedFinite ==
    ASSUME NEW s \in WaitList
    PROVE  IsFiniteSet(Granted(s)) /\ Cardinality(Granted(s)) \in Nat
<1>1. Granted(s) \subseteq Thread
  BY DEF Granted
<1> QED BY <1>1, ThreadAssumption, FS_Subset, FS_CardinalityType

\* A step after which the same threads are granted the same semaphores.
LEMMA SameGrants ==
    ASSUME TokInv, sem' = sem, credit' = credit,
           \A s \in WaitList : Granted(s)' = Granted(s)
    PROVE  credit' \in [WaitList -> Nat] /\ TokensConserved'
BY DEF TokInv, TokensConserved, Value

\* Steps that are not about semaphores: a timeout grants nothing and takes
\* nothing back.
LEMMA TokensElsewhere ==
    ASSUME TokInv, SInv', TakeLabelled, TakeLabelled',
           PassesBy \/ \E h \in Thread : TimesOut(h),
           sem' = sem, want' = want, credit' = credit
    PROVE  TokInv'
<1>0. /\ IInv /\ k.error \in [Thread -> Error]
      /\ \A s \in WaitList : Members(k.wait[s]) \subseteq Thread
  BY TokFacts
<1>1. TakersKept'
  BY <1>0, TakersNext DEF TokInv
<1>2. CASE PassesBy
  <2>1. WaitersMine'
    BY <1>0, <1>2 DEF PassesBy, Undisturbed, TokInv, WaitersMine, TakersKept
  <2>2. \A s \in WaitList : Granted(s)' = Granted(s)
    <3>1. \A t \in Thread : pc'[t] \in InWait <=> pc[t] \in InWait
      BY <1>2 DEF PassesBy, Undisturbed
    <3>2. \A t \in Thread : pc[t] \in InWait => k'.error[t] = k.error[t]
      BY <1>2 DEF PassesBy, Undisturbed
    <3>3. \A t \in Thread : pc'[t] \in {"take", "taken"} <=> pc[t] \in {"take", "taken"}
      BY <3>1, TakeInWait DEF TakeLabelled
    <3> QED BY <1>2, <3>2, <3>3 DEF PassesBy, Granted, InWait
  <2> QED BY <1>1, <2>1, <2>2, SameGrants DEF TokInv
<1>3. ASSUME NEW h \in Thread, TimesOut(h) PROVE TokInv'
  <2>1. /\ pc' = pc /\ k.stat[h] = "suspend" /\ k'.wait = WaitsWithout(k, h)
        /\ k'.error = [k.error EXCEPT ![h] = "timeout"]
    BY <1>3 DEF TimesOut, Fired
  <2>2. \A s \in WaitList : Members(k'.wait[s]) = Members(k.wait[s]) \ {h}
    BY <1>0, <2>1, MembersLeft
  <2>3. \A t \in Thread : k'.error[t] = IF t = h THEN "timeout" ELSE k.error[t]
    BY <1>0, <2>1
  <2>4. WaitersMine'
    BY <1>0, <2>2, <2>3 DEF TokInv, WaitersMine
  <2>5. \A s \in WaitList : h \notin Granted(s)
    <3> SUFFICES ASSUME NEW s \in WaitList, h \in Granted(s) PROVE FALSE
      OBVIOUS
    <3>1. pc[h] \in InWait /\ want[h] = s /\ h \notin Members(k.wait[s])
      BY DEF Granted, InWait
    <3>2. PICK w \in WaitList : h \in Members(k.wait[w])
      BY <2>1, <3>1 DEF TokInv, TakersKept
    <3> QED BY <3>1, <3>2 DEF TokInv, WaitersMine
  <2>6. ASSUME NEW s \in WaitList PROVE Granted(s)' = Granted(s)
    <3>1. \A t \in Thread : t # h => (t \in Granted(s)' <=> t \in Granted(s))
      BY <2>1, <2>2, <2>3 DEF Granted
    <3>2. h \notin Granted(s)'
      BY <2>3 DEF Granted
    <3>3. Granted(s) \subseteq Thread /\ Granted(s)' \subseteq Thread
      BY DEF Granted
    <3> QED BY <2>5, <3>1, <3>2, <3>3
  <2> QED BY <1>1, <2>4, <2>6, SameGrants DEF TokInv
<1> QED BY <1>2, <1>3

\* A thread joins the waiters of s: it is granted nothing yet.
LEMMA TokensWait ==
    ASSUME TokInv, SInv', NEW s \in WaitList, Joins(s), sem' = sem,
           credit' = credit, want' = [want EXCEPT ![k.current] = s]
    PROVE  TokInv'
<1> DEFINE c == k.current
<1>0. /\ IInv /\ k.error \in [Thread -> Error] /\ c \in Thread
      /\ pc \in [Thread -> EveryLabel] /\ want \in [Thread -> WaitList]
      /\ \A w \in WaitList : Members(k.wait[w]) \subseteq Thread
  BY TokFacts
<1>1. TakersKept'
  BY <1>0, TakersJoin DEF TokInv, Joins, InWait
<1>2. /\ pc[c] \notin InWait
      /\ \A t \in Thread :
            /\ pc'[t] = IF t = c THEN "take" ELSE pc[t]
            /\ k'.error[t] = IF t = c THEN "ok" ELSE k.error[t]
            /\ want'[t] = IF t = c THEN s ELSE want[t]
      /\ \A w \in WaitList : Members(k'.wait[w]) =
            IF w = s THEN Members(k.wait[w]) \cup {c} ELSE Members(k.wait[w])
  BY <1>0 DEF Joins, JoinsAt, InWait
<1>3. \A w \in WaitList : c \notin Members(k.wait[w]) /\ c \notin Granted(w)
  BY <1>2 DEF TokInv, TakersKept, Granted, InWait
<1>4. WaitersMine'
  <2> SUFFICES ASSUME NEW w \in WaitList, NEW t \in Members(k'.wait[w])
               PROVE  want'[t] = w /\ k'.error[t] = "ok"
    BY DEF WaitersMine
  <2>1. CASE t = c
    BY <1>0, <1>2, <1>3, <2>1
  <2>2. CASE t # c
    <3>1. t \in Members(k.wait[w]) /\ t \in Thread
      <4>1. Members(k'.wait[w]) \subseteq Members(k.wait[w]) \cup {c}
        BY <1>2
      <4> HIDE DEF c
      <4> QED BY <1>0, <2>2, <4>1
    <3> QED BY <1>2, <2>2, <3>1 DEF TokInv, WaitersMine
  <2> QED BY <2>1, <2>2
<1>5. ASSUME NEW w \in WaitList PROVE Granted(w)' = Granted(w)
  <2>1. ASSUME NEW t \in Thread, t # c PROVE t \in Granted(w)' <=> t \in Granted(w)
    <3>1. t \in Members(k'.wait[w]) <=> t \in Members(k.wait[w])
      <4>1. CASE w = s
        <5>1. Members(k'.wait[w]) = Members(k.wait[w]) \cup {c}
          BY <1>2, <4>1
        <5> HIDE DEF c
        <5> QED BY <2>1, <5>1
      <4>2. CASE w # s
        BY <1>2, <4>2
      <4> QED BY <4>1, <4>2
    <3>2. pc'[t] = pc[t] /\ k'.error[t] = k.error[t] /\ want'[t] = want[t]
      BY <1>2, <2>1
    <3> QED BY <3>1, <3>2 DEF Granted
  <2>2. c \notin Granted(w)'
    BY <1>0, <1>2 DEF Granted
  <2>3. Granted(w) \subseteq Thread /\ Granted(w)' \subseteq Thread
    BY DEF Granted
  <2> QED BY <1>3, <2>1, <2>2, <2>3
<1> QED BY <1>1, <1>4, <1>5, SameGrants DEF TokInv

\* A release hands its token to the first waiter.
LEMMA TokensHandOver ==
    ASSUME TokInv, SInv', TakeLabelled, TakeLabelled',
           NEW s \in WaitList, k.wait[s] # <<>>,
           Resumed(Head(k.wait[s])), sem' = sem, want' = want,
           credit' = [credit EXCEPT ![s] = credit[s] + 1]
    PROVE  TokInv'
<1>0. /\ IInv /\ k.error \in [Thread -> Error] /\ credit \in [WaitList -> Nat]
      /\ \A w \in WaitList : /\ Members(k.wait[w]) \subseteq Thread
                             /\ Value(w) \in Nat
  BY TokFacts
<1> DEFINE h == Head(k.wait[s])
<1>1. h \in Thread /\ h \in Members(k.wait[s])
  BY <1>0, FirstWaiter
<1>2. /\ k'.wait = WaitsWithout(k, h) /\ k'.error = k.error
      /\ \A t \in Thread : pc'[t] \in InWait <=> pc[t] \in InWait
  BY DEF Resumed, MadeReady
<1>3. TakersKept'
  BY <1>0, TakersResume DEF TokInv
<1> HIDE DEF h
<1>4. \A w \in WaitList : Members(k'.wait[w]) = Members(k.wait[w]) \ {h}
  BY <1>0, <1>2, MembersLeft
<1>5. WaitersMine'
  <2>1. \A w \in WaitList : \A t \in Members(k'.wait[w]) : t \in Members(k.wait[w])
    BY <1>4
  <2> QED BY <1>2, <2>1 DEF TokInv, WaitersMine
<1>6. /\ want[h] = s /\ k.error[h] = "ok" /\ pc[h] \in InWait
      /\ h \notin Granted(s)
  BY <1>1 DEF TokInv, WaitersMine, TakersKept, Granted
<1>7. ASSUME NEW w \in WaitList
      PROVE  Granted(w)' = IF w = s THEN Granted(w) \cup {h} ELSE Granted(w)
  <2>0. \A t \in Thread : /\ pc'[t] \in InWait <=> pc'[t] \in {"take", "taken"}
                          /\ pc[t] \in InWait <=> pc[t] \in {"take", "taken"}
    BY TakeInWait DEF TakeLabelled
  <2>1. \A t \in Thread : t # h => (t \in Granted(w)' <=> t \in Granted(w))
    BY <1>2, <1>4, <2>0 DEF Granted
  <2>2. h \in Granted(w)' <=> w = s
    BY <1>1, <1>2, <1>4, <1>6, <2>0 DEF Granted
  <2>3. w # s => h \notin Granted(w)
    BY <1>6 DEF Granted
  <2>4. Granted(w) \subseteq Thread /\ Granted(w)' \subseteq Thread
    BY DEF Granted
  <2>5. CASE w = s
    BY <1>1, <2>1, <2>2, <2>4, <2>5
  <2>6. CASE w # s
    <3>1. h \notin Granted(w)' /\ h \notin Granted(w)
      BY <2>2, <2>3, <2>6
    <3>2. Granted(w)' = Granted(w)
      <4>1. \A t : t \in Granted(w)' <=> t \in Granted(w)
        BY <2>1, <2>4, <3>1
      <4> QED BY <4>1
    <3> QED BY <2>6, <3>2
  <2> QED BY <2>5, <2>6
<1>8. Cardinality(Granted(s) \cup {h}) = Cardinality(Granted(s)) + 1
  BY <1>6, GrantedFinite, FS_AddElement
<1>9. /\ credit' \in [WaitList -> Nat]
      /\ \A w \in WaitList : credit'[w] = IF w = s THEN credit[s] + 1 ELSE credit[w]
  BY <1>0
<1>10. TokensConserved'
  <2> SUFFICES ASSUME NEW w \in WaitList
               PROVE  credit'[w] = Value(w)' + Cardinality(Granted(w)')
    BY DEF TokensConserved
  <2>1. credit[w] = Value(w) + Cardinality(Granted(w)) /\ Value(w)' = Value(w)
    BY DEF TokInv, TokensConserved, Value
  <2>2. Cardinality(Granted(w)) \in Nat
    BY GrantedFinite
  <2>3. Cardinality(Granted(w)') = IF w = s THEN Cardinality(Granted(w)) + 1
                                            ELSE Cardinality(Granted(w))
    BY <1>7, <1>8
  <2> QED BY <1>0, <1>9, <2>1, <2>2, <2>3
<1> QED BY <1>3, <1>5, <1>9, <1>10 DEF TokInv


\* RT_IPC_CMD_RESET sends every waiter away without a token.
LEMMA TokensReset ==
    ASSUME TokInv, SInv', TakeLabelled, TakeLabelled',
           NEW s \in WaitList, NEW v \in 0 .. ValueMax, Broken(s),
           want' = want, sem' = [sem EXCEPT ![s].value = v],
           credit' = [credit EXCEPT ![s] = v + Cardinality(Granted(s))]
    PROVE  TokInv'
<1>0. /\ IInv /\ k.error \in [Thread -> Error] /\ credit \in [WaitList -> Nat]
      /\ sem \in [WaitList -> [value : 0 .. ValueMax, flag : {"fifo", "prio"}]]
      /\ k.wait \in [WaitList -> Seq(Thread)]
      /\ \A w \in WaitList : Members(k.wait[w]) \subseteq Thread
  BY TokFacts DEF IInv, Typed, KernelState
<1>1. \A w \in WaitList : k'.wait[w] = IF w = s THEN <<>> ELSE k.wait[w]
  BY <1>0 DEF Broken
<1>2. Members(<<>>) = {}
  BY DEF Members
<1>3. \A t \in Thread :
         /\ pc'[t] \in InWait <=> pc[t] \in InWait
         /\ t \notin Members(k.wait[s]) =>
               k'.error[t] = k.error[t] /\ k'.stat[t] = k.stat[t]
         /\ t \in Members(k.wait[s]) =>
               k'.error[t] = "error" /\ k'.stat[t] \in {"ready", "running"}
  BY DEF Broken
<1>4. \A w \in WaitList : \A t \in Members(k.wait[w]) :
         w # s => t \notin Members(k.wait[s])
  BY DEF TokInv, WaitersMine
<1>5. WaitersMine'
  <2> SUFFICES ASSUME NEW w \in WaitList, NEW t \in Members(k'.wait[w])
               PROVE  want'[t] = w /\ k'.error[t] = "ok"
    BY DEF WaitersMine
  <2>1. w # s /\ t \in Members(k.wait[w]) /\ t \in Thread
    BY <1>0, <1>1, <1>2
  <2> QED BY <1>3, <1>4, <2>1 DEF TokInv, WaitersMine
<1>6. TakersKept'
  <2>1. ASSUME NEW w \in WaitList, NEW t \in Members(k'.wait[w])
        PROVE  pc'[t] \in InWait
    <3>1. t \in Members(k.wait[w]) /\ t \in Thread
      BY <1>0, <1>1, <1>2
    <3> QED BY <1>3, <3>1 DEF TokInv, TakersKept
  <2>2. ASSUME NEW t \in Thread, pc'[t] \in InWait
        PROVE  /\ k'.stat[t] \in {"suspend", "ready", "running"}
               /\ k'.stat[t] = "suspend" =>
                     \E w \in WaitList : t \in Members(k'.wait[w])
    <3>1. /\ k.stat[t] \in {"suspend", "ready", "running"}
          /\ k.stat[t] = "suspend" => \E w \in WaitList : t \in Members(k.wait[w])
      BY <1>3, <2>2 DEF TokInv, TakersKept
    <3>2. CASE t \in Members(k.wait[s])
      BY <1>3, <3>2
    <3>3. CASE t \notin Members(k.wait[s])
      BY <1>1, <1>3, <3>1, <3>3
    <3> QED BY <3>2, <3>3
  <2> QED BY <2>1, <2>2 DEF TakersKept
<1>7. ASSUME NEW w \in WaitList PROVE Granted(w)' = Granted(w)
  <2>1. ASSUME NEW t \in Thread, t \notin Members(k.wait[s])
        PROVE  t \in Granted(w)' <=> t \in Granted(w)
    <3>1. t \in Members(k'.wait[w]) <=> t \in Members(k.wait[w])
      BY <1>1, <1>2, <2>1
    <3>2. /\ pc'[t] \in InWait <=> pc'[t] \in {"take", "taken"}
          /\ pc[t] \in InWait <=> pc[t] \in {"take", "taken"}
      BY TakeInWait DEF TakeLabelled
    <3> QED BY <1>3, <2>1, <3>1, <3>2 DEF Granted
  <2>2. ASSUME NEW t \in Thread, t \in Members(k.wait[s])
        PROVE  t \notin Granted(w)' /\ t \notin Granted(w)
    <3>1. want[t] = s /\ k'.error[t] # "ok"
      BY <1>3, <2>2 DEF TokInv, WaitersMine
    <3> QED BY <2>2, <3>1 DEF Granted
  <2>3. Granted(w) \subseteq Thread /\ Granted(w)' \subseteq Thread
    BY DEF Granted
  <2> QED BY <2>1, <2>2, <2>3
<1>8. Cardinality(Granted(s)) \in Nat /\ v \in Nat
  BY GrantedFinite, ValueMaxAssumption
<1>9. /\ credit' \in [WaitList -> Nat]
      /\ \A w \in WaitList : credit'[w] = IF w = s THEN v + Cardinality(Granted(s))
                                                   ELSE credit[w]
  <2>1. v + Cardinality(Granted(s)) \in Nat
    BY <1>8
  <2> QED BY <1>0, <2>1
<1>10. \A w \in WaitList : Value(w)' = IF w = s THEN v ELSE Value(w)
  BY <1>0 DEF Value
<1>11. TokensConserved'
  BY <1>7, <1>9, <1>10 DEF TokInv, TokensConserved
<1> QED BY <1>5, <1>6, <1>9, <1>11 DEF TokInv

\* The return of rt_sem_take uses up the token that was granted.
LEMMA TokensReturn ==
    ASSUME TokInv, SInv', SemReturn PROVE TokInv'
<1> DEFINE c == k.current
           s == want[c]
<1>0. /\ IInv /\ credit \in [WaitList -> Nat] /\ c \in Thread
      /\ pc \in [Thread -> EveryLabel] /\ s \in WaitList
      /\ \A w \in WaitList : Value(w) \in Nat
  BY TokFacts
<1>1. /\ k' = k /\ sem' = sem /\ want' = want /\ pc[c] = "taken"
      /\ pc' = [pc EXCEPT ![c] = "run"]
      /\ OffWaits(k, c) /\ k.stat[c] = "running"
      /\ credit' = IF k.error[c] = "ok" THEN [credit EXCEPT ![s] = @ - 1] ELSE credit
  BY SemReturnStep DEF TokInv
<1>2. \A t \in Thread : pc'[t] = IF t = c THEN "run" ELSE pc[t]
  BY <1>0, <1>1
<1> HIDE DEF c, s
<1>3. WaitersMine'
  BY <1>1 DEF TokInv, WaitersMine
<1>4. TakersKept'
  <2>1. ASSUME NEW w \in WaitList, NEW t \in Members(k.wait[w])
        PROVE  pc'[t] \in InWait
    <3>1. t # c /\ t \in Thread /\ pc[t] \in InWait
      BY <1>1, TokFacts DEF OffWaits, TokInv, TakersKept
    <3> QED BY <1>2, <3>1
  <2>2. \A t \in Thread : pc'[t] \in InWait => pc[t] \in InWait
    BY <1>2 DEF InWait
  <2> QED BY <1>1, <2>1, <2>2 DEF TakersKept, TokInv
<1>5. ASSUME NEW w \in WaitList
      PROVE  /\ Granted(w)' = Granted(w) \ {c}
             /\ c \in Granted(w) <=> w = s /\ k.error[c] = "ok"
  <2>1. c \notin Granted(w)'
    BY <1>0, <1>2 DEF Granted
  <2>2. \A t \in Thread : t # c => (t \in Granted(w)' <=> t \in Granted(w))
    BY <1>1, <1>2 DEF Granted
  <2>3. Granted(w) \subseteq Thread /\ Granted(w)' \subseteq Thread
    BY DEF Granted
  <2>4. c \in Granted(w) <=> w = s /\ k.error[c] = "ok"
    BY <1>0, <1>1 DEF Granted, OffWaits, s
  <2> QED BY <2>1, <2>2, <2>3, <2>4
<1>6. CASE k.error[c] # "ok"
  <2>1. \A w \in WaitList : Granted(w)' = Granted(w)
    BY <1>5, <1>6
  <2> QED BY <1>1, <1>3, <1>4, <1>6, <2>1, SameGrants DEF TokInv
<1>7. CASE k.error[c] = "ok"
  <2>1. /\ c \in Granted(s)
        /\ Cardinality(Granted(s) \ {c}) = Cardinality(Granted(s)) - 1
        /\ Cardinality(Granted(s) \ {c}) \in Nat
    <3>1. c \in Granted(s) /\ IsFiniteSet(Granted(s))
      BY <1>0, <1>5, <1>7, GrantedFinite
    <3>2. /\ IsFiniteSet(Granted(s) \ {c})
          /\ Cardinality(Granted(s) \ {c}) = Cardinality(Granted(s)) - 1
      BY <3>1, FS_RemoveElement
    <3> QED BY <3>1, <3>2, FS_CardinalityType
  <2>2. credit[s] = Value(s) + Cardinality(Granted(s))
    BY <1>0 DEF TokInv, TokensConserved
  <2>3. credit[s] - 1 \in Nat
    <3>1. Cardinality(Granted(s)) \in Nat
      BY <1>0, GrantedFinite
    <3> QED BY <1>0, <2>1, <2>2, <3>1
  <2>4. /\ credit' \in [WaitList -> Nat]
        /\ \A w \in WaitList : credit'[w] = IF w = s THEN credit[s] - 1 ELSE credit[w]
    BY <1>0, <1>1, <1>7, <2>3
  <2>5. TokensConserved'
    <3> SUFFICES ASSUME NEW w \in WaitList
                 PROVE  credit'[w] = Value(w)' + Cardinality(Granted(w)')
      BY DEF TokensConserved
    <3>1. credit[w] = Value(w) + Cardinality(Granted(w)) /\ Value(w)' = Value(w)
      BY <1>1 DEF TokInv, TokensConserved, Value
    <3>2. CASE w = s
      <4>1. Cardinality(Granted(w)') = Cardinality(Granted(w)) - 1
        BY <1>5, <2>1, <3>2
      <4>2. Cardinality(Granted(w)) \in Nat
        BY GrantedFinite
      <4> QED BY <1>0, <2>4, <3>1, <3>2, <4>1, <4>2
    <3>3. CASE w # s
      <4>1. Granted(w)' = Granted(w)
        BY <1>5, <3>3
      <4> QED BY <2>4, <3>1, <3>3, <4>1
    <3> QED BY <3>2, <3>3
  <2> QED BY <1>3, <1>4, <2>4, <2>5 DEF TokInv
<1> QED BY <1>6, <1>7

\* The value and the account of s change by the same amount; nobody waits or
\* stops waiting.
LEMMA TokensCount ==
    ASSUME TokInv, SInv', NEW s \in WaitList, NEW d \in Int, UNCHANGED vars,
           want' = want, Value(s) + d \in Nat,
           sem' = [sem EXCEPT ![s].value = Value(s) + d],
           credit' = [credit EXCEPT ![s] = credit[s] + d]
    PROVE  TokInv'
<1>0. /\ credit \in [WaitList -> Nat]
      /\ sem \in [WaitList -> [value : 0 .. ValueMax, flag : {"fifo", "prio"}]]
      /\ \A w \in WaitList : Value(w) \in Nat
  BY TokFacts
<1>1. TakersKept' /\ WaitersMine'
  BY DEF TokInv, TakersKept, WaitersMine, vars
<1>2. \A w \in WaitList : Granted(w)' = Granted(w)
  BY DEF Granted, vars
<1>3. \A w \in WaitList : Value(w)' = IF w = s THEN Value(s) + d ELSE Value(w)
  BY <1>0 DEF Value
<1>4. /\ \A w \in WaitList : credit[w] = Value(w) + Cardinality(Granted(w))
      /\ \A w \in WaitList : Cardinality(Granted(w)) \in Nat
  BY GrantedFinite DEF TokInv, TokensConserved
<1>5. credit[s] + d = Value(s) + d + Cardinality(Granted(s)) /\ credit[s] + d \in Nat
  BY <1>0, <1>4
<1>6. /\ credit' \in [WaitList -> Nat]
      /\ \A w \in WaitList : credit'[w] = IF w = s THEN credit[s] + d ELSE credit[w]
  BY <1>0, <1>5
<1>7. TokensConserved'
  BY <1>2, <1>3, <1>4, <1>5, <1>6 DEF TokensConserved
<1> QED BY <1>1, <1>6, <1>7 DEF TokInv

\* The initial states: every semaphore holds the tokens it was made with.
LEMMA InitTokInv == SemInit => TokInv
<1> SUFFICES ASSUME SemInit PROVE TokInv
  OBVIOUS
<1>1. SInv
  BY InitSInv
<1>2. /\ \A w \in WaitList : k.wait[w] = <<>> /\ Members(k.wait[w]) = {}
      /\ \A t \in Thread : pc[t] = "run"
  BY DEF SemInit, Init, KernelInit, Members
<1>3. TakersKept /\ WaitersMine
  BY <1>2 DEF TakersKept, WaitersMine, InWait
<1>4. \A s \in WaitList : Granted(s) = {}
  BY <1>2 DEF Granted
<1>5. \A s \in WaitList : sem[s].value \in Nat /\ credit[s] = sem[s].value
  BY ValueMaxAssumption DEF SemInit
<1>6. credit \in [WaitList -> Nat]
  BY <1>5 DEF SemInit
<1>7. \A s \in WaitList : Cardinality(Granted(s)) = 0
  BY <1>4, FS_EmptySet
<1>8. TokensConserved
  BY <1>5, <1>7 DEF TokensConserved, Value
<1> QED BY <1>1, <1>3, <1>6, <1>8 DEF TokInv

\* The labels are those of Semaphore.tla.
LEMMA NextLabels ==
    ASSUME SInv, TakeLabelled, [SemNext]_allVars PROVE TakeLabelled'
<1>1. IInv /\ k.current \in Thread /\ pc \in [Thread -> Label \cup {"take", "taken"}]
  BY DEF SInv, IInv, Typed, KernelState, TakeLabelled
<1>2. \/ [Next]_vars \/ pc' = pc
      \/ \E l \in Label \cup {"take", "taken"} : pc' = [pc EXCEPT ![k.current] = l]
  <2> DEFINE P == \E l \in Label \cup {"take", "taken"} :
                    pc' = [pc EXCEPT ![k.current] = l]
  <2>1. ASSUME NEW s \in WaitList, SemStep(s) PROVE pc' = pc \/ P
    <3>1. CASE SemTake(s)
      BY <3>1 DEF SemTake, vars
    <3>2. ASSUME NEW time \in Times \cup {Forever}, SemWait(s, time) PROVE P
      BY <3>2 DEF SemWait, ThenSchedule, Goto
    <3>3. CASE SemRelease(s) \/ SemReleaseIrq(s)
      BY <3>3 DEF SemRelease, SemReleaseIrq, ThenSchedule, Goto, Label, vars
    <3>4. ASSUME NEW v \in 0 .. ValueMax, SemReset(s, v) PROVE P
      BY <3>4 DEF SemReset, ThenSchedule, Goto, Label
    <3> QED BY <2>1, <3>1, <3>2, <3>3, <3>4 DEF SemStep
  <2>2. SemSchedule \/ SemReturn => P
    BY DEF SemSchedule, SemReturn, ScheduleFrom, Goto, Label
  <2> QED BY <2>1, <2>2 DEF SemNext, allVars
<1>3. CASE [Next]_vars \/ pc' = pc
  BY <1>1, <1>3, LabelsKept DEF TakeLabelled
<1>4. CASE \E l \in Label \cup {"take", "taken"} : pc' = [pc EXCEPT ![k.current] = l]
  BY <1>1, <1>4 DEF TakeLabelled
<1> QED BY <1>2, <1>3, <1>4

\* Every step keeps the account.
LEMMA NextTokInv ==
    ASSUME TokInv, TakeLabelled, TakeLabelled', WaitersLeftAlone,
           [SemNext]_allVars
    PROVE  TokInv'
<1>0. /\ SInv /\ IInv /\ SInv' /\ TakersKept
      /\ \A s \in WaitList : Value(s) \in Nat /\ credit[s] \in Nat
  BY NextSInv, TokFacts DEF TokInv
<1>1. ASSUME [Next]_vars, UNCHANGED semVars PROVE TokInv'
  BY <1>0, <1>1, NextWaiters, TokensElsewhere DEF semVars
<1>2. CASE SemSchedule
  BY <1>0, <1>2, TakeScheduleStep, TokensElsewhere DEF SemSchedule, semVars
<1>3. CASE SemReturn
  BY <1>0, <1>3, TokensReturn
<1>4. ASSUME NEW s \in WaitList, SemTake(s) PROVE TokInv'
  <2>1. /\ UNCHANGED vars /\ want' = want /\ Value(s) > 0
        /\ sem' = [sem EXCEPT ![s].value = Value(s) - 1]
        /\ credit' = [credit EXCEPT ![s] = credit[s] - 1]
    BY <1>4 DEF SemTake, SetValue, Credit
  <2>2. /\ Value(s) - 1 = Value(s) + (-1) /\ credit[s] - 1 = credit[s] + (-1)
        /\ Value(s) + (-1) \in Nat /\ -1 \in Int
    BY <1>0, <2>1
  <2> QED BY <1>0, <2>1, <2>2, TokensCount
<1>5. ASSUME NEW s \in WaitList, NEW time \in Times \cup {Forever}, SemWait(s, time)
      PROVE  TokInv'
  BY <1>0, <1>5, SemWaitStep, TokensWait
<1>6. ASSUME NEW s \in WaitList, SemRelease(s) \/ SemReleaseIrq(s) PROVE TokInv'
  <2>1. CASE k.wait[s] # <<>>
    BY <1>0, <1>6, <2>1, SemWakeStep, TokensHandOver
  <2>2. CASE k.wait[s] = <<>>
    <3>1. Value(s) + 1 \in Nat /\ 1 \in Int
      BY <1>0
    <3> QED BY <1>0, <1>6, <2>2, <3>1, SemCountStep, TokensCount
  <2> QED BY <2>1, <2>2
<1>7. ASSUME NEW s \in WaitList, NEW v \in 0 .. ValueMax, SemReset(s, v) PROVE TokInv'
  BY <1>0, <1>7, SemResetStep, TokensReset
<1>8. CASE UNCHANGED allVars
  BY <1>1, <1>8 DEF allVars
<1> QED BY <1>1, <1>2, <1>3, <1>4, <1>5, <1>6, <1>7, <1>8 DEF SemNext, SemStep

\* Unless threads that wait are resumed or deleted behind the semaphore's
\* back, the account holds in every reachable state.
THEOREM AlwaysTokInv ==
    ASSUME WaitersLeftAlone PROVE SemSpec => [](TokInv /\ TakeLabelled)
<1>1. SemInit => TokInv
  BY InitTokInv
<1>2. SemInit => TakeLabelled
  BY DEF SemInit, Init, TakeLabelled, Label
<1>3. TokInv /\ TakeLabelled /\ [SemNext]_allVars => (TokInv /\ TakeLabelled)'
  <2>1. ASSUME TokInv, TakeLabelled, [SemNext]_allVars PROVE (TokInv /\ TakeLabelled)'
    BY <2>1, NextLabels, NextTokInv DEF TokInv
  <2> QED BY <2>1
<1> QED BY <1>1, <1>2, <1>3, PTL DEF SemSpec

\* Tokens are conserved: rt_sem_release gives every token to one waiter or to
\* the value, a timeout that crosses a release neither loses nor duplicates
\* one, and RT_IPC_CMD_RESET takes none from a thread it was granted to.
THEOREM TokensAlwaysConserved ==
    ASSUME WaitersLeftAlone PROVE SemSpec => []TokensConserved
<1>1. TokInv => TokensConserved
  BY DEF TokInv
<1> QED BY <1>1, AlwaysTokInv, PTL

\* The value never exceeds RT_SEM_VALUE_MAX and no token is taken twice.
THEOREM SemTypeCorrect == ASSUME WaitersLeftAlone PROVE SemSpec => []SemTypeOK
<1>2. TokInv /\ TakeLabelled => SemTypeOK
  BY DEF TokInv, SInv, SemTyped, IInv, Typed, SemTypeOK, TakeLabelled
<1> QED BY <1>2, AlwaysTokInv, PTL


-----------------------------------------------------------------------------
(* The order of the waiters *)

\* The suspend list of a RT_IPC_FLAG_PRIO semaphore is sorted.
UInv ==
    /\ SInv
    /\ \A s \in WaitList : sem[s].flag = "prio" => Ordered(k.wait[s], k.prio)

\* Every step keeps the lists sorted, if rt_thread_control does not change
\* the priority of a thread that waits.
LEMMA NextUInv ==
    ASSUME UInv, "priority" \notin Calls, [SemNext]_allVars PROVE UInv'
<1>0. /\ SInv /\ IInv /\ SInv' /\ IInv' /\ k.current \in Thread
      /\ sem \in [WaitList -> [value : 0 .. ValueMax, flag : {"fifo", "prio"}]]
      /\ \A s \in WaitList : sem[s].flag = "prio" => Ordered(k.wait[s], k.prio)
  BY NextSInv DEF UInv, SInv, SemTyped, IInv, Typed, KernelState
<1>w. \A s \in WaitList : \A t \in Members(k.wait[s]) :
          t \in Thread /\ k.stat[t] = "suspend"
  BY <1>0, WaitersSuspended
<1>1. ASSUME NEW h, k'.wait = k.wait \/ k'.wait = WaitsWithout(k, h),
             \A s \in WaitList : \A t \in Members(k.wait[s]) : k'.prio[t] = k.prio[t],
             \A s \in WaitList : sem'[s].flag = sem[s].flag
      PROVE  UInv'
  <2> SUFFICES ASSUME NEW s \in WaitList, sem[s].flag = "prio"
               PROVE  Ordered(k'.wait[s], k'.prio)
    BY <1>0, <1>1 DEF UInv
  <2>1. k'.wait[s] = k.wait[s] \/ k'.wait[s] = Without(k.wait[s], h)
    BY <1>1 DEF WaitsWithout
  <2> QED BY <1>0, <1>1, <2>1, StaysOrdered
<1>2. ASSUME [Next]_vars, UNCHANGED semVars PROVE UInv'
  <2>1. \A s \in WaitList : \A t \in Members(k.wait[s]) : k'.prio[t] = k.prio[t]
    <3> SUFFICES ASSUME NEW s \in WaitList, NEW t \in Members(k.wait[s])
                 PROVE  k'.prio[t] = k.prio[t]
      OBVIOUS
    <3>1. t \in Thread /\ k.stat[t] # "close"
      BY <1>w
    <3> QED BY <1>0, <1>2, <3>1, NextPriorities
  <2>2. PICK h : k'.wait = k.wait \/ k'.wait = WaitsWithout(k, h)
    BY <1>0, <1>2, NextLists
  <2> QED BY <1>1, <1>2, <2>1, <2>2 DEF semVars
<1>3. CASE SemSchedule
  <2>1. k'.wait = k.wait /\ k'.prio = k.prio /\ sem' = sem
    BY <1>0, <1>3, TakeScheduleStep DEF SemSchedule, semVars, PassesBy
  <2> QED BY <1>1, <2>1
<1>4. CASE SemReturn
  BY <1>1, <1>4 DEF SemReturn
<1>5. ASSUME NEW s \in WaitList, SemTake(s) PROVE UInv'
  BY <1>0, <1>1, <1>5 DEF SemTake, SetValue, vars
<1>6. ASSUME NEW s \in WaitList, NEW time \in Times \cup {Forever}, SemWait(s, time)
      PROVE  UInv'
  <2>1. /\ Joins(s) /\ k'.prio = k.prio /\ sem' = sem
        /\ sem[s].flag = "prio" => Ordered(k'.wait[s], k'.prio)
    BY <1>0, <1>6, SemWaitStep
  <2>2. \A w \in WaitList : w # s => k'.wait[w] = k.wait[w]
    BY <2>1 DEF Joins, JoinsAt
  <2>3. \A w \in WaitList : sem[w].flag = "prio" => Ordered(k'.wait[w], k'.prio)
    BY <1>0, <2>1, <2>2
  <2> QED BY <1>0, <2>1, <2>3 DEF UInv
<1>7. ASSUME NEW s \in WaitList, SemRelease(s) \/ SemReleaseIrq(s) PROVE UInv'
  <2>1. CASE k.wait[s] # <<>>
    <3>1. /\ k'.wait = WaitsWithout(k, Head(k.wait[s])) /\ k'.prio = k.prio
          /\ sem' = sem
      BY <1>0, <1>7, <2>1, SemWakeStep DEF Resumed, MadeReady
    <3> QED BY <1>1, <3>1
  <2>2. CASE k.wait[s] = <<>>
    <3>1. k' = k /\ sem' = [sem EXCEPT ![s].value = Value(s) + 1]
      BY <1>0, <1>7, <2>2, SemCountStep DEF vars
    <3>2. \A w \in WaitList : sem'[w].flag = sem[w].flag
      BY <1>0, <3>1
    <3> QED BY <1>1, <3>1, <3>2
  <2> QED BY <2>1, <2>2
<1>8. ASSUME NEW s \in WaitList, NEW v \in 0 .. ValueMax, SemReset(s, v) PROVE UInv'
  <2>1. /\ k'.wait = [k.wait EXCEPT ![s] = <<>>] /\ k'.prio = k.prio
        /\ sem' = [sem EXCEPT ![s].value = v]
    BY <1>0, <1>8, SemResetStep DEF Broken
  <2>2. \A w \in WaitList : sem'[w].flag = sem[w].flag
    BY <1>0, <2>1
  <2>3. \A w \in WaitList : k'.wait[w] = IF w = s THEN <<>> ELSE k.wait[w]
    BY <1>0, <2>1 DEF IInv, Typed, KernelState
  <2>4. \A w \in WaitList : sem[w].flag = "prio" => Ordered(k'.wait[w], k'.prio)
    BY <1>0, <2>1, <2>3 DEF Ordered
  <2> QED BY <1>0, <2>2, <2>4 DEF UInv
<1>9. CASE UNCHANGED allVars
  BY <1>2, <1>9 DEF allVars
<1> QED
  BY <1>2, <1>3, <1>4, <1>5, <1>6, <1>7, <1>8, <1>9 DEF SemNext, SemStep

\* rt_sem_release wakes the most urgent waiter of a RT_IPC_FLAG_PRIO
\* semaphore whatever timeouts, resumes and deletions take others off the
\* list: it is sorted, unless rt_thread_control changes the priority of a
\* thread that waits, which leaves the thread at its place.
THEOREM AlwaysUrgentFirst ==
    ASSUME "priority" \notin Calls PROVE SemSpec => []UrgentFirst
<1>1. SemInit => UInv
  <2> SUFFICES ASSUME SemInit PROVE UInv
    OBVIOUS
  <2>1. \A s \in WaitList : k.wait[s] = <<>>
    BY DEF SemInit, Init, KernelInit
  <2> QED BY <2>1, InitSInv DEF UInv, Ordered
<1>2. UInv /\ [SemNext]_allVars => UInv'
  BY NextUInv
<1>3. UInv => UrgentFirst
  BY DEF UInv, UrgentFirst, Ordered
<1> QED BY <1>1, <1>2, <1>3, PTL DEF SemSpec
=============================================================================
