----------------------------- MODULE MutexProofs ------------------------------
(***************************************************************************)
(* Theorems about module Mutex, for every set of threads and of mutexes.   *)
(***************************************************************************)
EXTENDS Mutex, SchedulerProofs

-----------------------------------------------------------------------------
(* The invariant that holds whatever calls the threads and handlers make *)

MutexTyped ==
    /\ mutex \in [WaitList ->
          [value : 0 .. 1, owner : Thread \cup {NoThread},
           original : Priority \cup {NoPriority}, hold : 0 .. HoldMax]]
    /\ want \in [Thread -> WaitList]

\* A mutex is free and nobody waits for it, ...
Vacant(m) == mutex[m] = Free /\ k.wait[m] = <<>>

\* ... or it belongs to a thread that does not wait for it.
Owned(m) ==
    /\ mutex[m].owner \in Thread /\ mutex[m].value = 0
    /\ mutex[m].original \in Priority /\ mutex[m].hold \in 1 .. HoldMax
    /\ mutex[m].owner \notin Members(k.wait[m])

MInv ==
    /\ IInv /\ MutexTyped
    /\ \A m \in WaitList : Vacant(m) \/ Owned(m)

\* What the steps below use of it.
LEMMA MutexFacts ==
    ASSUME MInv
    PROVE  /\ IInv /\ Sound(k) /\ k.current \in Thread /\ MutexTyped
           /\ k.prio \in [Thread -> Priority] /\ k.stat \in [Thread -> Stat]
           /\ k.error \in [Thread -> Error] /\ pc \in [Thread -> EveryLabel]
           /\ k.wait \in [WaitList -> Seq(Thread)]
           /\ Priority \subseteq Nat /\ NoThread \notin Thread
           /\ \A m \in WaitList : /\ mutex[m].owner \in Thread => Owned(m)
                                  /\ mutex[m].value = 0 => Owned(m)
                                  /\ mutex[m].value > 0 => Vacant(m)
<1>1. /\ IInv /\ Sound(k) /\ k.current \in Thread /\ MutexTyped
      /\ k.prio \in [Thread -> Priority] /\ k.stat \in [Thread -> Stat]
      /\ k.error \in [Thread -> Error] /\ pc \in [Thread -> EveryLabel]
      /\ k.wait \in [WaitList -> Seq(Thread)]
  BY DEF MInv, IInv, Typed, KernelState
<1>2. Priority \subseteq Nat
  BY PrioritiesAssumption DEF Priority
<1>3. \A m \in WaitList : /\ mutex[m].owner \in Thread => Owned(m)
                          /\ mutex[m].value = 0 => Owned(m)
                          /\ mutex[m].value > 0 => Vacant(m)
  BY NoThreadAssumption DEF MInv, Vacant, Owned, Free
<1> QED BY <1>1, <1>2, <1>3, NoThreadAssumption

-----------------------------------------------------------------------------
(* The steps of the mutex calls *)

\* A call that sets the error of its thread and returns.
LEMMA ErrorStep ==
    ASSUME IInv, InThread, NEW x \in Error, Done([k EXCEPT !.error[k.current] = x])
    PROVE  IInv' /\ PassesBy /\ k'.prio = k.prio
<1> DEFINE c == k.current
           e == [k EXCEPT !.error[c] = x]
<1>1. /\ k' = e /\ pc' = pc /\ isr' = isr /\ picked' = picked /\ owed' = owed
  BY DEF Done
<1>2. /\ c \in Thread /\ Sound(k) /\ k.stat[c] \in {"running", "suspend"}
      /\ pc[c] = "run" /\ k.error \in [Thread -> Error]
  BY CallerOpen DEF InThread, At, KernelState
<1>3. /\ Sound(e) /\ SameCurrent(k, e) /\ e.stat = k.stat
      /\ e.wait = k.wait /\ e.error = [k.error EXCEPT ![c] = x]
  BY <1>2, ErrorSound
<1> HIDE DEF e
<1>4. Typed'
  BY <1>1, <1>3 DEF IInv, Typed, Sound
<1>5. PickedClosed'
  BY <1>1, <1>3 DEF IInv, PickedClosed
<1>6. pc[c] \notin Pending /\ pc'[c] \notin InWait
  BY <1>1, <1>2 DEF Pending, InWait
<1>7. IInv'
  <2>1. CASE k.lock = 0
    BY <1>1, <1>2, <1>3, <1>4, <1>5, <1>6, <2>1, QuietStep DEF SameCurrent
  <2>2. CASE k.lock # 0
    BY <1>1, <1>2, <1>3, <1>4, <1>5, <1>6, <2>2, QuietStep DEF SameCurrent
  <2> QED BY <2>1, <2>2
<1>8. \A t \in Thread \ {c} : k'.error[t] = k.error[t] /\ k'.stat[t] = k.stat[t]
  BY <1>1, <1>2, <1>3
<1>9. PassesBy
  BY <1>1, <1>2, <1>3, <1>6, <1>8, PassingStep
<1> QED BY <1>1, <1>3, <1>7, <1>9 DEF SameCurrent

\* The owner of m inherits the priority of t, in a kernel e with the
\* priorities of k.
LEMMA BoostSound ==
    ASSUME MInv, NEW e, Sound(e), e.prio = k.prio, NEW m \in WaitList, Owned(m),
           NEW t \in Thread
    PROVE  LET n == Boost(e, m, t)
               o == mutex[m].owner
           IN  /\ Sound(n) /\ n.current = e.current /\ n.lock = e.lock
               /\ n.stat = e.stat /\ SameWaits(e, n)
               /\ n.prio = [k.prio EXCEPT ![o] = IF k.prio[t] < k.prio[o]
                                                 THEN k.prio[t] ELSE k.prio[o]]
<1> DEFINE o == mutex[m].owner
           n == Boost(e, m, t)
<1>1. /\ k.prio \in [Thread -> Priority] /\ o \in Thread /\ k.prio[t] \in Priority
  BY MutexFacts DEF Owned
<1>2. CASE k.prio[t] < k.prio[o]
  <2>1. n = ChangePriority(e, o, k.prio[t])
    BY <1>2 DEF Boost
  <2>2. /\ Sound(n) /\ n.current = e.current /\ n.lock = e.lock /\ n.stat = e.stat
    BY <1>1, <2>1, ChangePrioritySound
  <2>3. SameWaits(e, n) /\ n.prio = [k.prio EXCEPT ![o] = k.prio[t]]
    BY <1>1, <2>1, ChangePriorityWaits
  <2> QED BY <1>2, <2>2, <2>3
<1>3. CASE ~ (k.prio[t] < k.prio[o])
  <2>1. n = e
    BY <1>3 DEF Boost
  <2>2. k.prio = [k.prio EXCEPT ![o] = k.prio[o]]
    BY <1>1
  <2> QED BY <1>3, <2>1, <2>2 DEF SameWaits
<1> QED BY <1>2, <1>3

\* rt_mutex_take waits.
LEMMA TakeWaitStep ==
    ASSUME MInv, NEW m \in WaitList, NEW time \in Times \cup {Forever},
           TakeWait(m, time)
    PROVE  LET o == mutex[m].owner
               c == k.current
           IN  /\ IInv' /\ Joins(m) /\ Owned(m) /\ o # c
               /\ mutex' = mutex /\ held' = held
               /\ want' = [want EXCEPT ![c] = m]
               /\ k'.prio = [k.prio EXCEPT ![o] = IF k.prio[c] < k.prio[o]
                                                  THEN k.prio[c] ELSE k.prio[o]]
               /\ Ordered(k.wait[m], k'.prio) => Ordered(k'.wait[m], k'.prio)
<1> DEFINE o == mutex[m].owner
           c == k.current
           e == [k EXCEPT !.error[c] = "ok"]
           r == Boost(e, m, c)
           n == SuspendPrio(r, m, c)
           b == IF time = Forever THEN n ELSE rt_timer_start(n, c, time)
<1>1. /\ InThread /\ k.lock = 0 /\ o # c /\ mutex[m].value = 0
      /\ ThenSchedule(b, "take") /\ want' = [want EXCEPT ![c] = m]
      /\ mutex' = mutex /\ held' = held
  BY DEF TakeWait, CanTake, Me
<1>2. Sound(k) /\ c \in Thread /\ Owned(m) /\ IInv
  BY <1>1, MutexFacts
<1>3. /\ Sound(e) /\ SameCurrent(k, e) /\ e.stat = k.stat
      /\ e.wait = k.wait /\ e.error = [k.error EXCEPT ![c] = "ok"]
  BY <1>2, ErrorSound DEF Error
<1> HIDE DEF e
<1>4. /\ Sound(r) /\ r.current = e.current /\ r.lock = e.lock
      /\ r.stat = e.stat /\ SameWaits(e, r)
      /\ r.prio = [k.prio EXCEPT ![o] = IF k.prio[c] < k.prio[o]
                                        THEN k.prio[c] ELSE k.prio[o]]
  BY <1>2, <1>3, BoostSound DEF SameCurrent
<1> HIDE DEF r
<1>5. b = n \/ \E d \in Nat : b = rt_timer_start(n, c, d)
  BY TimesAssumption
<1> HIDE DEF b
<1>6. /\ r.current = k.current /\ r.lock = k.lock /\ r.stat = k.stat
      /\ r.wait = k.wait /\ r.error = [k.error EXCEPT ![c] = "ok"]
  BY <1>3, <1>4 DEF SameCurrent, SameWaits
<1>7. /\ IInv' /\ Joins(m) /\ k'.prio = r.prio
      /\ Ordered(k.wait[m], r.prio) => Ordered(k'.wait[m], k'.prio)
  BY <1>1, <1>2, <1>4, <1>5, <1>6, JoinStep
<1> QED BY <1>1, <1>2, <1>4, <1>7

\* The owner of m returns to the priority it had.
LEMMA RestoreSound ==
    ASSUME MInv, NEW m \in WaitList, Owned(m)
    PROVE  LET n == Restore(k, m)
           IN  /\ Sound(n) /\ n.current = k.current /\ n.lock = k.lock
               /\ n.stat = k.stat /\ SameWaits(k, n)
               /\ n.prio = [k.prio EXCEPT ![mutex[m].owner] = mutex[m].original]
<1> DEFINE o == mutex[m].owner
           n == Restore(k, m)
<1>1. /\ k.prio \in [Thread -> Priority] /\ o \in Thread /\ Sound(k)
      /\ mutex[m].original \in Priority
  BY MutexFacts DEF Owned
<1>2. CASE mutex[m].original # k.prio[o]
  <2>1. n = ChangePriority(k, o, mutex[m].original)
    BY <1>2 DEF Restore
  <2>2. /\ Sound(n) /\ n.current = k.current /\ n.lock = k.lock /\ n.stat = k.stat
    BY <1>1, <2>1, ChangePrioritySound
  <2>3. SameWaits(k, n) /\ n.prio = [k.prio EXCEPT ![o] = mutex[m].original]
    BY <1>1, <2>1, ChangePriorityWaits
  <2> QED BY <2>2, <2>3
<1>3. CASE mutex[m].original = k.prio[o]
  <2>1. n = k
    BY <1>3 DEF Restore
  <2>2. k.prio = [k.prio EXCEPT ![o] = k.prio[o]]
    BY <1>1
  <2> QED BY <1>1, <1>3, <2>1, <2>2 DEF SameWaits
<1> QED BY <1>2, <1>3

\* rt_mutex_release hands the mutex to the first waiter.
LEMMA HandOverStep ==
    ASSUME MInv, NEW m \in WaitList, ReleaseHandOver(m)
    PROVE  LET c == k.current
               h == Head(k.wait[m])
           IN  /\ IInv' /\ InThread /\ Owned(m) /\ mutex[m].owner = c
               /\ mutex[m].hold = 1 /\ k.wait[m] # <<>>
               /\ h \in Members(k.wait[m]) /\ h # c /\ Resumed(h)
               /\ k'.prio = [k.prio EXCEPT ![c] = mutex[m].original]
               /\ mutex' = [mutex EXCEPT ![m].owner = h, ![m].original = k.prio[h]]
               /\ held' = [held EXCEPT ![c][m] = held[c][m] - 1] /\ want' = want
<1> DEFINE c == k.current
           h == Head(k.wait[m])
           n == Restore(k, m)
<1>1. /\ InThread /\ mutex[m].owner = c /\ mutex[m].hold = 1 /\ k.wait[m] # <<>>
      /\ mutex' = [mutex EXCEPT ![m].owner = h, ![m].original = n.prio[h]]
      /\ ThenSchedule(_ipc_list_resume(n, m), "sched")
      /\ held' = [held EXCEPT ![c][m] = held[c][m] - 1] /\ want' = want
  BY DEF ReleaseHandOver, Released, Me
<1>2. c \in Thread /\ IInv /\ Owned(m) /\ k.prio \in [Thread -> Priority]
  BY <1>1, MutexFacts
<1>3. h \in Thread /\ h \in Members(k.wait[m])
  BY <1>1, <1>2, FirstWaiter
<1>4. h # c
  BY <1>1, <1>2, <1>3 DEF Owned
<1>5. /\ Sound(n) /\ n.current = k.current /\ n.lock = k.lock
      /\ n.stat = k.stat /\ SameWaits(k, n)
      /\ n.prio = [k.prio EXCEPT ![c] = mutex[m].original]
  BY <1>1, <1>2, RestoreSound
<1> HIDE DEF n
<1>6. IInv' /\ Resumed(h) /\ k'.prio = n.prio
  BY <1>1, <1>2, <1>5, WakeStep
<1>7. n.prio[h] = k.prio[h]
  BY <1>2, <1>3, <1>4, <1>5
<1> QED BY <1>1, <1>2, <1>3, <1>4, <1>5, <1>6, <1>7

\* rt_mutex_release finds no waiter.
LEMMA ReleaseFreeStep ==
    ASSUME MInv, NEW m \in WaitList, ReleaseFree(m)
    PROVE  LET c == k.current
           IN  /\ IInv' /\ InThread /\ PassesBy /\ Owned(m) /\ mutex[m].owner = c
               /\ mutex[m].hold = 1 /\ k.wait[m] = <<>>
               /\ k'.prio = [k.prio EXCEPT ![c] = mutex[m].original]
               /\ mutex' = [mutex EXCEPT ![m] = Free] /\ want' = want
               /\ held' = [held EXCEPT ![c][m] = held[c][m] - 1]
<1> DEFINE c == k.current
           n == Restore(k, m)
<1>1. /\ InThread /\ mutex[m].owner = c /\ mutex[m].hold = 1 /\ k.wait[m] = <<>>
      /\ mutex' = [mutex EXCEPT ![m] = [Free EXCEPT !.value = mutex[m].value + 1]]
      /\ k' = n /\ owed' = (owed \/ k'.prio[c] # k.prio[c])
      /\ held' = [held EXCEPT ![c][m] = held[c][m] - 1] /\ want' = want
      /\ pc' = pc /\ isr' = isr /\ picked' = picked
  BY DEF ReleaseFree, Released, Me
<1>2. /\ c \in Thread /\ IInv /\ Owned(m) /\ k.prio \in [Thread -> Priority]
      /\ Sound(k) /\ k.stat[c] \in {"running", "suspend"} /\ pc[c] = "run"
  BY <1>1, MutexFacts, CallerOpen DEF InThread, At
<1>3. [Free EXCEPT !.value = mutex[m].value + 1] = Free
  BY <1>2 DEF Owned, Free
<1>4. /\ Sound(n) /\ n.current = k.current /\ n.lock = k.lock
      /\ n.stat = k.stat /\ SameWaits(k, n)
      /\ n.prio = [k.prio EXCEPT ![c] = mutex[m].original]
  BY <1>1, <1>2, RestoreSound
<1> HIDE DEF n
<1>5. Typed'
  BY <1>1, <1>2, <1>4 DEF IInv, Typed, Sound
<1>6. PickedClosed'
  BY <1>1, <1>2, <1>4 DEF IInv, PickedClosed
<1>7. pc[c] \notin Pending /\ pc'[c] \notin InWait
  BY <1>1, <1>2 DEF Pending, InWait
<1>8. owed' \/ (owed' = owed /\ k'.prio = k.prio)
  <2>1. CASE mutex[m].original = k.prio[c]
    <3>1. k'.prio = k.prio
      BY <1>1, <1>2, <1>4, <2>1
    <3> QED BY <1>1, <1>2, <3>1 DEF IInv, Typed
  <2>2. CASE mutex[m].original # k.prio[c]
    <3>1. k'.prio[c] # k.prio[c]
      BY <1>1, <1>2, <1>4, <2>2
    <3> QED BY <1>1, <3>1, Zenon
  <2> QED BY <2>1, <2>2
<1>9. IInv'
  <2>1. k'.current = c /\ k'.lock = k.lock /\ k'.stat = k.stat
    BY <1>1, <1>4
  <2> QED BY <1>2, <1>1, <1>4, <1>5, <1>6, <1>7, <1>8, <2>1, QuietStep
<1>10. PassesBy
  <2>1. k'.wait = k.wait /\ k'.error = k.error /\ k'.stat = k.stat
    BY <1>1, <1>4 DEF SameWaits
  <2> QED BY <1>1, <2>1 DEF PassesBy, Undisturbed
<1> QED BY <1>1, <1>2, <1>3, <1>4, <1>9, <1>10


-----------------------------------------------------------------------------
(* Owners and waiters *)

\* The initial states.
LEMMA InitMInv == MutexInit => MInv
<1> SUFFICES ASSUME MutexInit PROVE MInv
  OBVIOUS
<1>1. IInv
  BY InitIInv DEF MutexInit
<1>2. MutexTyped
  <2>1. (CHOOSE m \in WaitList : TRUE) \in WaitList
    BY MutexAssumption
  <2>2. Free \in [value : 0 .. 1, owner : Thread \cup {NoThread},
                  original : Priority \cup {NoPriority}, hold : 0 .. HoldMax]
    BY HoldMaxAssumption DEF Free
  <2> QED BY <2>1, <2>2 DEF MutexInit, MutexTyped
<1>3. \A m \in WaitList : Vacant(m)
  BY DEF MutexInit, Init, KernelInit, Vacant
<1> QED BY <1>1, <1>2, <1>3 DEF MInv

\* A step that changes no mutex and takes threads off the lists at most.
LEMMA OwnersElsewhere ==
    ASSUME MInv, IInv', mutex' = mutex, want' = want,
           k'.wait = k.wait \/ \E h : k'.wait = WaitsWithout(k, h)
    PROVE  MInv'
<1>1. IInv /\ MutexTyped' /\ \A m \in WaitList : Vacant(m) \/ Owned(m)
  BY DEF MInv, MutexTyped
<1>2. \A m \in WaitList : /\ k.wait[m] = <<>> => k'.wait[m] = <<>>
                          /\ Members(k'.wait[m]) \subseteq Members(k.wait[m])
  BY <1>1, MembersLeft
<1>3. \A m \in WaitList : (Vacant(m) => Vacant(m)') /\ (Owned(m) => Owned(m)')
  BY <1>2 DEF Vacant, Owned
<1> QED BY <1>1, <1>3 DEF MInv

\* The steps of one mutex.  The other mutexes and their lists keep their
\* owners and lose waiters at most.
LEMMA OwnersAt ==
    ASSUME MInv, IInv', want' \in [Thread -> WaitList], NEW m \in WaitList,
           NEW x, mutex' = [mutex EXCEPT ![m] = x],
           \/ x = Free /\ k'.wait[m] = <<>>
           \/ /\ x \in [value : {0}, owner : Thread, original : Priority,
                        hold : 1 .. HoldMax]
              /\ x.owner \notin Members(k'.wait[m]),
           \A w \in WaitList \ {m} :
               /\ k.wait[w] = <<>> => k'.wait[w] = <<>>
               /\ Members(k'.wait[w]) \subseteq Members(k.wait[w])
    PROVE  MInv'
<1> DEFINE Mutexes == [value : 0 .. 1, owner : Thread \cup {NoThread},
                       original : Priority \cup {NoPriority}, hold : 0 .. HoldMax]
<1>1. MutexTyped /\ mutex \in [WaitList -> Mutexes]
  BY DEF MInv, MutexTyped
<1>2. x \in Mutexes
  BY HoldMaxAssumption DEF Free
<1>3. mutex' \in [WaitList -> Mutexes]
  BY <1>1, <1>2
<1>4. \A w \in WaitList : mutex'[w] = IF w = m THEN x ELSE mutex[w]
  BY <1>1
<1>5. MutexTyped'
  BY <1>3 DEF MutexTyped
<1>6. Vacant(m)' \/ Owned(m)'
  BY <1>4 DEF Vacant, Owned
<1>7. ASSUME NEW w \in WaitList, w # m PROVE Vacant(w)' \/ Owned(w)'
  BY <1>4, <1>7 DEF MInv, Vacant, Owned
<1> QED BY <1>5, <1>6, <1>7 DEF MInv

\* Every step preserves the invariant.
LEMMA NextMInv == ASSUME MInv, [MutexNext]_allVars PROVE MInv'
<1>0. /\ IInv /\ Sound(k) /\ k.current \in Thread /\ MutexTyped
      /\ k.prio \in [Thread -> Priority] /\ k.wait \in [WaitList -> Seq(Thread)]
      /\ \A m \in WaitList : /\ mutex[m].owner \in Thread => Owned(m)
                             /\ mutex[m].value = 0 => Owned(m)
                             /\ mutex[m].value > 0 => Vacant(m)
      /\ want \in [Thread -> WaitList]
      /\ mutex \in [WaitList ->
            [value : 0 .. 1, owner : Thread \cup {NoThread},
             original : Priority \cup {NoPriority}, hold : 0 .. HoldMax]]
  BY MutexFacts DEF MutexTyped
<1>1. ASSUME [Next]_vars, UNCHANGED mutexVars PROVE MInv'
  BY <1>0, <1>1, NextIInv, NextLists, OwnersElsewhere DEF mutexVars
<1>2. CASE TakeSchedule
  <2>1. IInv' /\ k'.wait = k.wait /\ mutex' = mutex /\ want' = want
    BY <1>0, <1>2, TakeScheduleStep DEF TakeSchedule, mutexVars, PassesBy
  <2> QED BY <2>1, OwnersElsewhere
<1>3. CASE TakeReturn
  <2>1. /\ At("taken") /\ Goto("run") /\ k' = k /\ isr' = isr /\ picked' = picked
        /\ owed' = owed /\ mutex' = mutex /\ want' = want
    BY <1>3 DEF TakeReturn
  <2>2. IInv'
    BY <1>0, <2>1, TakeReturnStep
  <2> QED BY <2>1, <2>2, OwnersElsewhere
<1>4. ASSUME NEW m \in WaitList, TakeFull(m) \/ TakeBusy(m) \/ ReleaseNotOwner(m)
      PROVE  MInv'
  <2>1. PICK x \in Error : Done([k EXCEPT !.error[k.current] = x])
    BY <1>4 DEF TakeFull, TakeBusy, ReleaseNotOwner, NoError, Me, Error
  <2>2. InThread /\ mutex' = mutex /\ want' = want
    BY <1>4 DEF TakeFull, TakeBusy, ReleaseNotOwner, CanTake, mutexVars
  <2>3. IInv' /\ k'.wait = k.wait
    BY <1>0, <2>1, <2>2, ErrorStep DEF PassesBy
  <2> QED BY <2>2, <2>3, OwnersElsewhere
<1>5. ASSUME NEW m \in WaitList, TakeAgain(m) PROVE MInv'
  <2>1. /\ InThread /\ mutex[m].owner = k.current /\ mutex[m].hold < HoldMax
        /\ mutex' = [mutex EXCEPT ![m] = [mutex[m] EXCEPT !.hold = mutex[m].hold + 1]]
        /\ Done([k EXCEPT !.error[k.current] = "ok"]) /\ want' = want
    BY <1>5 DEF TakeAgain, CanTake, NoError, Me
  <2>2. IInv' /\ k'.wait = k.wait
    BY <1>0, <2>1, ErrorStep DEF PassesBy, Error
  <2>3. Owned(m)
    BY <1>0, <2>1
  <2>4. mutex[m].hold + 1 \in 1 .. HoldMax
    BY <2>1, <2>3, HoldMaxAssumption DEF Owned
  <2> DEFINE x == [mutex[m] EXCEPT !.hold = mutex[m].hold + 1]
  <2>5. /\ x \in [value : {0}, owner : Thread, original : Priority, hold : 1 .. HoldMax]
        /\ x.owner = mutex[m].owner
    <3> DEFINE r == mutex[m]
    <3>1. /\ r \in [value : 0 .. 1, owner : Thread \cup {NoThread},
                   original : Priority \cup {NoPriority}, hold : 0 .. HoldMax]
          /\ r.value = 0 /\ r.owner \in Thread /\ r.original \in Priority
          /\ r.hold + 1 \in 1 .. HoldMax
      BY <1>0, <2>3, <2>4 DEF Owned
    <3> HIDE DEF r
    <3>2. /\ [r EXCEPT !.hold = r.hold + 1] \in
                [value : {0}, owner : Thread, original : Priority, hold : 1 .. HoldMax]
          /\ [r EXCEPT !.hold = r.hold + 1].owner = r.owner
      BY <3>1
    <3> QED BY <3>2 DEF r
  <2>6. x.owner \notin Members(k'.wait[m])
    BY <2>2, <2>3, <2>5 DEF Owned
  <2> HIDE DEF x
  <2> QED BY <1>0, <2>1, <2>2, <2>5, <2>6, OwnersAt DEF x
<1>6. ASSUME NEW m \in WaitList, TakeFree(m) PROVE MInv'
  <2> DEFINE x == [value |-> mutex[m].value - 1, owner |-> k.current,
                   original |-> k.prio[k.current], hold |-> mutex[m].hold + 1]
  <2>1. /\ InThread /\ mutex[m].value > 0 /\ mutex' = [mutex EXCEPT ![m] = x]
        /\ Done([k EXCEPT !.error[k.current] = "ok"]) /\ want' = want
    BY <1>6 DEF TakeFree, CanTake, NoError, Me
  <2>2. IInv' /\ k'.wait = k.wait
    BY <1>0, <2>1, ErrorStep DEF PassesBy, Error
  <2>3. Vacant(m)
    BY <1>0, <2>1
  <2>4. x \in [value : {0}, owner : Thread, original : Priority, hold : 1 .. HoldMax]
    BY <1>0, <2>3, HoldMaxAssumption DEF Vacant, Free
  <2>5. Members(k'.wait[m]) = {}
    BY <2>2, <2>3 DEF Vacant, Members
  <2> HIDE DEF x
  <2> QED BY <1>0, <2>1, <2>2, <2>4, <2>5, OwnersAt
<1>7. ASSUME NEW m \in WaitList, NEW time \in Times \cup {Forever}, TakeWait(m, time)
      PROVE  MInv'
  <2>1. /\ IInv' /\ Joins(m) /\ Owned(m) /\ mutex[m].owner # k.current
        /\ mutex' = mutex /\ want' = [want EXCEPT ![k.current] = m]
    BY <1>7, TakeWaitStep
  <2>2. MutexTyped'
    BY <1>0, <2>1 DEF MutexTyped
  <2>3. \A w \in WaitList : w # m => k'.wait[w] = k.wait[w]
    BY <2>1 DEF Joins, JoinsAt
  <2>4. Members(k'.wait[m]) = Members(k.wait[m]) \cup {k.current}
    BY <2>1 DEF Joins, JoinsAt
  <2>5. Owned(m)'
    BY <2>1, <2>4 DEF Owned
  <2>6. \A w \in WaitList : w # m => Vacant(w)' \/ Owned(w)'
    BY <2>1, <2>3 DEF MInv, Vacant, Owned
  <2> QED BY <2>1, <2>2, <2>5, <2>6 DEF MInv
<1>8. ASSUME NEW m \in WaitList, ReleaseNested(m) PROVE MInv'
  <2> DEFINE x == [mutex[m] EXCEPT !.hold = mutex[m].hold - 1]
  <2>1. /\ mutex[m].owner = k.current /\ mutex[m].hold > 1
        /\ mutex' = [mutex EXCEPT ![m] = x] /\ UNCHANGED vars /\ want' = want
    BY <1>8 DEF ReleaseNested, Me
  <2>2. IInv' /\ k' = k
    BY <1>0, <2>1, NextIInv DEF vars
  <2>3. Owned(m)
    BY <1>0, <2>1
  <2>4. mutex[m].hold - 1 \in 1 .. HoldMax
    BY <2>1, <2>3, HoldMaxAssumption DEF Owned
  <2>5. /\ x \in [value : {0}, owner : Thread, original : Priority, hold : 1 .. HoldMax]
        /\ x.owner = mutex[m].owner
    <3> DEFINE r == mutex[m]
    <3>1. /\ r \in [value : 0 .. 1, owner : Thread \cup {NoThread},
                   original : Priority \cup {NoPriority}, hold : 0 .. HoldMax]
          /\ r.value = 0 /\ r.owner \in Thread /\ r.original \in Priority
          /\ r.hold - 1 \in 1 .. HoldMax
      BY <1>0, <2>3, <2>4 DEF Owned
    <3> HIDE DEF r
    <3>2. /\ [r EXCEPT !.hold = r.hold - 1] \in
                [value : {0}, owner : Thread, original : Priority, hold : 1 .. HoldMax]
          /\ [r EXCEPT !.hold = r.hold - 1].owner = r.owner
      BY <3>1
    <3> QED BY <3>2 DEF r
  <2>6. x.owner \notin Members(k'.wait[m])
    BY <2>2, <2>3, <2>5 DEF Owned
  <2> HIDE DEF x
  <2> QED BY <1>0, <2>1, <2>2, <2>5, <2>6, OwnersAt
<1>9. ASSUME NEW m \in WaitList, ReleaseHandOver(m) PROVE MInv'
  <2> DEFINE h == Head(k.wait[m])
             x == [[mutex[m] EXCEPT !.owner = h] EXCEPT !.original = k.prio[h]]
  <2>1. /\ IInv' /\ Owned(m) /\ Resumed(h) /\ h \in Thread /\ want' = want
        /\ mutex' = [mutex EXCEPT ![m].owner = h, ![m].original = k.prio[h]]
    BY <1>9, HandOverStep DEF Resumed, MadeReady
  <2>2. mutex' = [mutex EXCEPT ![m] = x]
    BY <1>0, <2>1
  <2>3. \A w \in WaitList : /\ Members(k'.wait[w]) = Members(k.wait[w]) \ {h}
                            /\ k.wait[w] = <<>> => k'.wait[w] = <<>>
    BY <1>0, <2>1, MembersLeft DEF Resumed, MadeReady
  <2> HIDE DEF h
  <2>4. /\ x \in [value : {0}, owner : Thread, original : Priority, hold : 1 .. HoldMax]
        /\ x.owner = h
    <3>1. k.prio[h] \in Priority
      BY <1>0, <2>1
    <3> DEFINE r == mutex[m]
               p == k.prio[h]
               z == [r EXCEPT !.owner = h]
    <3>2. /\ r \in [value : 0 .. 1, owner : Thread \cup {NoThread},
                   original : Priority \cup {NoPriority}, hold : 0 .. HoldMax]
          /\ r.value = 0 /\ r.original \in Priority /\ r.hold \in 1 .. HoldMax
      BY <1>0, <2>1 DEF Owned
    <3> HIDE DEF r
    <3>3. /\ z \in [value : {0}, owner : Thread, original : Priority, hold : 1 .. HoldMax]
          /\ z.owner = h
      BY <2>1, <3>2
    <3> HIDE DEF p, z
    <3>4. /\ [z EXCEPT !.original = p] \in
                [value : {0}, owner : Thread, original : Priority, hold : 1 .. HoldMax]
          /\ [z EXCEPT !.original = p].owner = h
      BY <3>1, <3>3 DEF p
    <3> QED BY <3>4 DEF r, p, z
  <2>5. x.owner \notin Members(k'.wait[m])
    BY <2>3, <2>4
  <2>6. \A w \in WaitList \ {m} :
           /\ k.wait[w] = <<>> => k'.wait[w] = <<>>
           /\ Members(k'.wait[w]) \subseteq Members(k.wait[w])
    BY <2>3
  <2>7. IInv' /\ want' \in [Thread -> WaitList]
    BY <1>0, <2>1
  <2> HIDE DEF x
  <2> QED BY <2>2, <2>4, <2>5, <2>6, <2>7, OwnersAt
<1>10. ASSUME NEW m \in WaitList, ReleaseFree(m) PROVE MInv'
  <2>1. /\ IInv' /\ k'.wait = k.wait /\ k.wait[m] = <<>> /\ want' = want
        /\ mutex' = [mutex EXCEPT ![m] = Free]
    BY <1>10, ReleaseFreeStep DEF PassesBy
  <2> QED BY <1>0, <2>1, OwnersAt
<1>11. CASE UNCHANGED allVars
  BY <1>1, <1>11 DEF allVars
<1> QED
  BY <1>1, <1>2, <1>3, <1>4, <1>5, <1>6, <1>7, <1>8, <1>9, <1>10, <1>11
  DEF MutexNext, MutexStep

\* The invariant holds in every reachable state.
THEOREM AlwaysMInv == MutexSpec => []MInv
<1>1. MutexInit => MInv
  BY InitMInv
<1>2. MInv /\ [MutexNext]_allVars => MInv'
  BY NextMInv
<1> QED BY <1>1, <1>2, PTL DEF MutexSpec

\* No lost wakeup: however takes, releases, timeouts, resumes and deletions
\* cross, a thread waits only for a mutex that another thread owns, and a
\* mutex without an owner is free.
THEOREM WaitersAlwaysHaveOwner == MutexSpec => []WaitersHaveOwner
<1>1. MInv => WaitersHaveOwner
  <2> SUFFICES ASSUME MInv, NEW m \in WaitList
               PROVE  /\ k.wait[m] # <<>> => mutex[m].owner # NoThread
                      /\ mutex[m].owner = NoThread <=> mutex[m] = Free
                      /\ mutex[m].owner \notin Members(k.wait[m])
    BY DEF WaitersHaveOwner
  <2>1. CASE Vacant(m)
    BY <2>1 DEF Vacant, Free, Members
  <2>2. CASE Owned(m)
    BY <2>2, NoThreadAssumption DEF Owned, Free
  <2> QED BY <2>1, <2>2 DEF MInv
<1> QED BY <1>1, AlwaysMInv, PTL

\* The kernel's lists stay consistent when an owner inherits a priority and
\* when it returns to its own.
THEOREM MutexListsConsistent == MutexSpec => []ListsConsistent
<1>1. MInv => ListsConsistent
  BY DEF MInv, IInv, Sound, ListsConsistent
<1> QED BY <1>1, AlwaysMInv, PTL

\* rt_mutex_take and rt_mutex_release call rt_schedule wherever a more urgent
\* thread may have become ready, but for the release that finds no waiter,
\* whose reschedule stays owed.
THEOREM MutexHighestRuns == MutexSpec => []HighestRuns
<1>1. MInv => HighestRuns
  BY DEF MInv, IInv, Scheduled, HighestRuns, At, Pending
<1> QED BY <1>1, AlwaysMInv, PTL


-----------------------------------------------------------------------------
(* Mutual exclusion *)

\* A thread waits for the mutex it has asked for, and has been told nothing
\* yet.
WaitersMine ==
    \A m \in WaitList : \A t \in Members(k.wait[m]) :
        want[t] = m /\ k.error[t] = "ok"

\* A wait that is over ends with RT_EOK if and only if the thread was made the
\* owner.
Outcome ==
    \A t \in Thread : pc[t] \in InWait /\ k.stat[t] # "suspend" =>
        /\ mutex[want[t]].owner = t <=> k.error[t] = "ok"
        /\ mutex[want[t]].owner = t => mutex[want[t]].hold = 1

HInv ==
    /\ MInv /\ TakersKept /\ WaitersMine /\ Outcome
    /\ held \in [Thread -> [WaitList -> Int]] /\ HolderIsOwner

\* A suspended thread in rt_mutex_take is on the list of its mutex and does
\* not own it.
LEMMA SuspendedTaker ==
    ASSUME HInv, NEW t \in Thread, pc[t] \in InWait, k.stat[t] = "suspend"
    PROVE  t \in Members(k.wait[want[t]]) /\ mutex[want[t]].owner # t
<1>1. PICK m \in WaitList : t \in Members(k.wait[m])
  BY DEF HInv, TakersKept
<1>2. want[t] = m
  BY <1>1 DEF HInv, WaitersMine
<1>3. Vacant(m) \/ Owned(m)
  BY DEF HInv, MInv
<1>4. CASE Vacant(m)
  BY <1>1, <1>4 DEF Vacant, Members
<1>5. CASE Owned(m)
  BY <1>1, <1>2, <1>5 DEF Owned
<1> QED BY <1>3, <1>4, <1>5

\* The initial states.
LEMMA InitHInv == MutexInit => HInv
<1> SUFFICES ASSUME MutexInit PROVE HInv
  OBVIOUS
<1>1. MInv
  BY InitMInv
<1>2. /\ \A m \in WaitList : k.wait[m] = <<>> /\ Members(k.wait[m]) = {}
      /\ \A t \in Thread : pc[t] = "run"
  BY DEF MutexInit, Init, KernelInit, Members
<1>3. TakersKept /\ WaitersMine /\ Outcome
  BY <1>2 DEF TakersKept, WaitersMine, Outcome, InWait
<1>4. held \in [Thread -> [WaitList -> Int]]
  BY DEF MutexInit
<1>5. HolderIsOwner
  BY DEF MutexInit, HolderIsOwner, Free
<1> QED BY <1>1, <1>3, <1>4, <1>5 DEF HInv

\* The steps that change no mutex and neither join nor end a wait with
\* success.
LEMMA HoldersElsewhere ==
    ASSUME HInv, MInv', TakeLabelled, TakeLabelled',
           PassesBy \/ \E h \in Thread : TimesOut(h),
           mutex' = mutex, want' = want, held' = held
    PROVE  HInv'
<1>0. IInv /\ k.error \in [Thread -> Error] /\ want \in [Thread -> WaitList]
  BY MutexFacts DEF HInv, MutexTyped
<1>1. TakersKept'
  BY <1>0, TakersNext DEF HInv
<1>w. \A m \in WaitList : \A t \in Members(k.wait[m]) :
         t \in Thread /\ pc[t] \in InWait /\ want[t] = m /\ k.error[t] = "ok"
  BY <1>0, WaitersSuspended DEF HInv, WaitersMine, TakersKept
<1>2. CASE PassesBy
  <2>1. WaitersMine'
    BY <1>w, <1>2 DEF PassesBy, Undisturbed, WaitersMine
  <2>2. \A t \in Thread : pc'[t] \in InWait <=> pc[t] \in InWait
    BY <1>2 DEF PassesBy, Undisturbed
  <2>3. \A t \in Thread : pc[t] \in InWait =>
           /\ k'.error[t] = k.error[t]
           /\ k'.stat[t] # "suspend" => k.stat[t] # "suspend"
    BY <1>2 DEF PassesBy, Undisturbed
  <2>4. Outcome'
    BY <2>2, <2>3 DEF HInv, Outcome
  <2>5. HolderIsOwner'
    BY <2>2, TakeInWait DEF HInv, HolderIsOwner, Inheriting, TakeLabelled
  <2> QED BY <1>1, <2>1, <2>4, <2>5 DEF HInv
<1>3. ASSUME NEW h \in Thread, TimesOut(h) PROVE HInv'
  <2>1. /\ pc' = pc /\ k.stat[h] = "suspend" /\ k'.wait = WaitsWithout(k, h)
        /\ k'.error = [k.error EXCEPT ![h] = "timeout"]
        /\ \A t \in Thread : t # h =>
              (k'.stat[t] # "suspend" => k.stat[t] # "suspend")
    BY <1>3 DEF TimesOut, Fired
  <2>2. \A m \in WaitList : Members(k'.wait[m]) = Members(k.wait[m]) \ {h}
    BY <1>0, <2>1, MembersLeft
  <2>3. \A t \in Thread : k'.error[t] = IF t = h THEN "timeout" ELSE k.error[t]
    BY <1>0, <2>1
  <2>4. WaitersMine'
    BY <1>w, <2>2, <2>3 DEF WaitersMine
  <2>5. Outcome'
    <3>1. ASSUME NEW t \in Thread, pc[t] \in InWait, k'.stat[t] # "suspend"
          PROVE  /\ mutex[want[t]].owner = t <=> k'.error[t] = "ok"
                 /\ mutex[want[t]].owner = t => mutex[want[t]].hold = 1
      <4>1. CASE t = h
        <5>1. mutex[want[t]].owner # t
          BY <2>1, <3>1, <4>1, SuspendedTaker
        <5> QED BY <2>3, <4>1, <5>1
      <4>2. CASE t # h
        BY <2>1, <2>3, <3>1, <4>2 DEF HInv, Outcome
      <4> QED BY <4>1, <4>2
    <3> QED BY <2>1, <3>1 DEF Outcome
  <2>6. HolderIsOwner'
    BY <2>1 DEF HInv, HolderIsOwner, Inheriting
  <2> QED BY <1>1, <2>4, <2>5, <2>6 DEF HInv
<1> QED BY <1>2, <1>3

\* The running thread takes (d = 1) or gives back (d = -1) m, which becomes x.
Counts(m, x, d) ==
    LET c == k.current
    IN  /\ InThread /\ mutex[m].owner \in {c, NoThread}
        /\ mutex' = [mutex EXCEPT ![m] = x] /\ want' = want
        /\ held' = [held EXCEPT ![c][m] = held[c][m] + d]
        /\ \/ x.owner = c /\ x.hold = held[c][m] + d
           \/ x.owner = NoThread /\ held[c][m] + d = 0

\* It neither waits nor wakes a thread.
LEMMA HoldersCount ==
    ASSUME HInv, MInv', TakeLabelled, TakeLabelled',
           PassesBy, NEW m \in WaitList, NEW x, NEW d \in Int,
           Counts(m, x, d)
    PROVE  HInv'
<1> DEFINE c == k.current
<1> USE DEF Counts
<1>0. /\ IInv /\ c \in Thread /\ want \in [Thread -> WaitList] /\ NoThread \notin Thread
      /\ pc[c] \notin InWait /\ held \in [Thread -> [WaitList -> Int]]
      /\ \A w \in WaitList : mutex'[w] = IF w = m THEN x ELSE mutex[w]
  BY MutexFacts DEF HInv, MutexTyped, InThread, At, InWait
<1>1. TakersKept'
  BY <1>0, TakersNext DEF HInv
<1>w. \A w \in WaitList : \A t \in Members(k.wait[w]) :
         t \in Thread /\ pc[t] \in InWait /\ want[t] = w /\ k.error[t] = "ok"
  BY <1>0, WaitersSuspended DEF HInv, WaitersMine, TakersKept
<1>2. WaitersMine'
  BY <1>w DEF PassesBy, Undisturbed, WaitersMine
<1>3. \A t \in Thread : pc'[t] \in InWait <=> pc[t] \in InWait
  BY DEF PassesBy, Undisturbed
<1>4. \A t \in Thread : pc[t] \in InWait =>
         /\ k'.error[t] = k.error[t]
         /\ k'.stat[t] # "suspend" => k.stat[t] # "suspend"
  BY DEF PassesBy, Undisturbed
<1>5. Outcome'
  <2>1. ASSUME NEW t \in Thread, pc[t] \in InWait, k'.stat[t] # "suspend"
        PROVE  /\ mutex'[want[t]].owner = t <=> k'.error[t] = "ok"
               /\ mutex'[want[t]].owner = t => mutex'[want[t]].hold = 1
    <3>1. t # c /\ t # NoThread /\ want[t] \in WaitList
      BY <1>0, <2>1
    <3>2. /\ mutex[want[t]].owner = t <=> k'.error[t] = "ok"
          /\ mutex[want[t]].owner = t => mutex[want[t]].hold = 1
      BY <1>4, <2>1 DEF HInv, Outcome
    <3>3. CASE want[t] = m
      BY <1>0, <3>1, <3>2, <3>3
    <3>4. CASE want[t] # m
      BY <1>0, <3>1, <3>2, <3>4
    <3> QED BY <3>3, <3>4
  <2> QED BY <1>3, <2>1 DEF Outcome
<1>6. held' \in [Thread -> [WaitList -> Int]]
  BY <1>0
<1>7. \A t \in Thread, w \in WaitList :
         held'[t][w] = IF t = c /\ w = m THEN held[c][m] + d ELSE held[t][w]
  BY <1>0
<1>8. \A t \in Thread, w \in WaitList : Inheriting(t, w)' <=> Inheriting(t, w)
  BY <1>3, TakeInWait DEF Inheriting, TakeLabelled
<1>9. HolderIsOwner'
  <2> SUFFICES ASSUME NEW w \in WaitList, NEW t \in Thread
               PROVE  held'[t][w] = IF mutex'[w].owner # t THEN 0
                         ELSE IF Inheriting(t, w)' THEN 0 ELSE mutex'[w].hold
    BY DEF HolderIsOwner
  <2>1. held[t][w] = IF mutex[w].owner # t THEN 0
                     ELSE IF Inheriting(t, w) THEN 0 ELSE mutex[w].hold
    BY DEF HInv, HolderIsOwner
  <2>2. CASE w # m
    BY <1>0, <1>7, <1>8, <2>1, <2>2
  <2>3. CASE w = m /\ t # c
    BY <1>0, <1>7, <2>1, <2>3
  <2>4. CASE w = m /\ t = c
    <3>1. ~ Inheriting(t, w)
      BY <1>0, <2>4 DEF Inheriting, InWait
    <3> QED BY <1>0, <1>7, <1>8, <2>4, <3>1
  <2> QED BY <2>2, <2>3, <2>4
<1> QED BY <1>1, <1>2, <1>5, <1>6, <1>9 DEF HInv


\* rt_mutex_take waits.
LEMMA HoldersWait ==
    ASSUME HInv, MInv', NEW m \in WaitList, Joins(m), mutex[m].owner # k.current,
           mutex' = mutex, held' = held, want' = [want EXCEPT ![k.current] = m]
    PROVE  HInv'
<1> DEFINE c == k.current
<1>0. /\ IInv /\ c \in Thread /\ want \in [Thread -> WaitList]
      /\ k.error \in [Thread -> Error] /\ k.stat \in [Thread -> Stat]
      /\ pc \in [Thread -> EveryLabel]
  BY MutexFacts DEF HInv, MutexTyped
<1>1. TakersKept'
  BY <1>0, TakersJoin DEF HInv, Joins, InWait
<1>2. /\ pc[c] = "run"
      /\ \A t \in Thread :
            /\ pc'[t] = IF t = c THEN "take" ELSE pc[t]
            /\ k'.error[t] = IF t = c THEN "ok" ELSE k.error[t]
            /\ k'.stat[t] = IF t = c THEN "suspend" ELSE k.stat[t]
            /\ want'[t] = IF t = c THEN m ELSE want[t]
  BY <1>0 DEF Joins, JoinsAt
<1>3. \A w \in WaitList : \A t \in Members(k.wait[w]) :
         t \in Thread /\ t # c /\ want[t] = w /\ k.error[t] = "ok"
  <2>1. \A w \in WaitList : \A t \in Members(k.wait[w]) : t \in Thread
    BY <1>0, WaitersSuspended
  <2>2. \A w \in WaitList : \A t \in Members(k.wait[w]) :
           want[t] = w /\ k.error[t] = "ok"
    BY DEF HInv, WaitersMine
  <2>3. \A w \in WaitList : \A t \in Members(k.wait[w]) : pc[t] \in InWait
    BY DEF HInv, TakersKept
  <2>4. pc[c] \notin InWait
    BY <1>2 DEF InWait
  <2> QED BY <2>1, <2>2, <2>3, <2>4
<1>4. WaitersMine'
  <2> SUFFICES ASSUME NEW w \in WaitList, NEW t \in Members(k'.wait[w])
               PROVE  want'[t] = w /\ k'.error[t] = "ok"
    BY DEF WaitersMine
  <2>1. t \in Members(k.wait[w]) \/ (w = m /\ t = c)
    BY DEF Joins, JoinsAt
  <2> QED BY <1>0, <1>2, <1>3, <2>1
<1>5. Outcome'
  BY <1>2 DEF HInv, Outcome
<1>6. HolderIsOwner'
  <2> SUFFICES ASSUME NEW w \in WaitList, NEW t \in Thread
               PROVE  held[t][w] = IF mutex[w].owner # t THEN 0
                         ELSE IF Inheriting(t, w)' THEN 0 ELSE mutex[w].hold
    BY DEF HolderIsOwner
  <2>1. held[t][w] = IF mutex[w].owner # t THEN 0
                     ELSE IF Inheriting(t, w) THEN 0 ELSE mutex[w].hold
    BY DEF HInv, HolderIsOwner
  <2>2. mutex[w].owner = t => (Inheriting(t, w)' <=> Inheriting(t, w))
    <3>1. CASE t = c
      BY <1>2, <3>1 DEF Inheriting
    <3>2. CASE t # c
      BY <1>2, <3>2 DEF Inheriting
    <3> QED BY <3>1, <3>2
  <2> QED BY <2>1, <2>2
<1> QED BY <1>1, <1>4, <1>5, <1>6 DEF HInv

\* A waiting rt_mutex_take returns thread->error.
LEMMA HoldersReturn == ASSUME HInv, MInv', TakeReturn PROVE HInv'
<1> DEFINE c == k.current
           m == want[c]
<1>1. /\ At("taken") /\ Goto("run") /\ k' = k /\ isr' = isr /\ picked' = picked
      /\ owed' = owed /\ mutex' = mutex /\ want' = want
      /\ IF k.error[c] = "ok" THEN held' = [held EXCEPT ![c][m] = held[c][m] + 1]
                              ELSE held' = held
  BY DEF TakeReturn, Granted, Me
<1>2. /\ IInv /\ c \in Thread /\ m \in WaitList /\ pc \in [Thread -> EveryLabel]
      /\ held \in [Thread -> [WaitList -> Int]]
  BY MutexFacts DEF HInv, MutexTyped
<1>3. /\ pc[c] = "taken" /\ k.stat[c] = "running" /\ OffWaits(k, c)
      /\ \A t \in Thread : pc'[t] = IF t = c THEN "run" ELSE pc[t]
  BY <1>1, <1>2, TakeReturnStep
<1>4. /\ mutex[m].owner = c <=> k.error[c] = "ok"
      /\ mutex[m].owner = c => mutex[m].hold = 1
  BY <1>2, <1>3 DEF HInv, Outcome, InWait
<1>5. \A w \in WaitList : \A t \in Members(k.wait[w]) : t \in Thread /\ t # c
  BY <1>2, <1>3, WaitersSuspended DEF OffWaits
<1>6. TakersKept'
  BY <1>1, <1>3, <1>5 DEF HInv, TakersKept, InWait
<1>7. WaitersMine'
  BY <1>1 DEF HInv, WaitersMine
<1>8. Outcome'
  BY <1>1, <1>3 DEF HInv, Outcome, InWait
<1>9. /\ held' \in [Thread -> [WaitList -> Int]]
      /\ \A t \in Thread, w \in WaitList :
            held'[t][w] = IF t = c /\ w = m /\ mutex[m].owner = c
                          THEN held[c][m] + 1 ELSE held[t][w]
  <2>1. CASE k.error[c] = "ok"
    <3>1. held' = [held EXCEPT ![c][m] = held[c][m] + 1] /\ mutex[m].owner = c
      BY <1>1, <1>4, <2>1
    <3> QED BY <1>2, <3>1
  <2>2. CASE k.error[c] # "ok"
    BY <1>1, <1>2, <1>4, <2>2
  <2> QED BY <2>1, <2>2
<1>10. HolderIsOwner'
  <2> SUFFICES ASSUME NEW w \in WaitList, NEW t \in Thread
               PROVE  held'[t][w] = IF mutex'[w].owner # t THEN 0
                         ELSE IF Inheriting(t, w)' THEN 0 ELSE mutex'[w].hold
    BY DEF HolderIsOwner
  <2>1. held[t][w] = IF mutex[w].owner # t THEN 0
                     ELSE IF Inheriting(t, w) THEN 0 ELSE mutex[w].hold
    BY DEF HInv, HolderIsOwner
  <2>2. CASE t # c
    <3>1. Inheriting(t, w)' <=> Inheriting(t, w)
      BY <1>1, <1>3, <2>2 DEF Inheriting
    <3> QED BY <1>1, <1>9, <2>1, <2>2, <3>1
  <2>3. CASE t = c /\ w = m
    <3>1. Inheriting(t, w) /\ ~ Inheriting(t, w)'
      BY <1>1, <1>2, <1>3, <2>3 DEF Inheriting
    <3> QED BY <1>1, <1>4, <1>9, <2>1, <2>3, <3>1
  <2>4. CASE t = c /\ w # m
    <3>1. ~ Inheriting(t, w) /\ ~ Inheriting(t, w)'
      BY <1>1, <1>2, <1>3, <2>4 DEF Inheriting
    <3> QED BY <1>1, <1>9, <2>1, <2>4, <3>1
  <2> QED BY <2>2, <2>3, <2>4
<1> QED BY <1>6, <1>7, <1>8, <1>9, <1>10 DEF HInv

\* rt_mutex_release makes the first waiter the owner.
LEMMA HoldersHandOver ==
    ASSUME HInv, MInv', TakeLabelled, TakeLabelled', NEW m \in WaitList,
           ReleaseHandOver(m)
    PROVE  HInv'
<1> DEFINE c == k.current
           h == Head(k.wait[m])
<1>0. /\ IInv /\ c \in Thread /\ want \in [Thread -> WaitList]
      /\ held \in [Thread -> [WaitList -> Int]]
      /\ mutex \in [WaitList ->
            [value : 0 .. 1, owner : Thread \cup {NoThread},
             original : Priority \cup {NoPriority}, hold : 0 .. HoldMax]]
  BY MutexFacts DEF HInv, MutexTyped
<1>1. /\ InThread /\ mutex[m].owner = c /\ mutex[m].hold = 1
      /\ h \in Members(k.wait[m]) /\ h # c /\ Resumed(h) /\ want' = want
      /\ mutex' = [mutex EXCEPT ![m].owner = h, ![m].original = k.prio[h]]
      /\ held' = [held EXCEPT ![c][m] = held[c][m] - 1]
  BY HandOverStep DEF HInv
<1>2. \A w \in WaitList :
         /\ mutex'[w].owner = IF w = m THEN h ELSE mutex[w].owner
         /\ mutex'[w].hold = mutex[w].hold
  BY <1>0, <1>1
<1>3. /\ held' \in [Thread -> [WaitList -> Int]]
      /\ \A t \in Thread, w \in WaitList :
            held'[t][w] = IF t = c /\ w = m THEN held[c][m] - 1 ELSE held[t][w]
  BY <1>0, <1>1
<1>4. pc[c] \notin InWait
  BY <1>1 DEF InThread, At, InWait
<1>5. \A w \in WaitList : \A t \in Members(k.wait[w]) :
         /\ t \in Thread /\ pc[t] \in InWait /\ want[t] = w /\ k.error[t] = "ok"
         /\ k.stat[t] = "suspend"
  BY <1>0, WaitersSuspended DEF HInv, WaitersMine, TakersKept
<1>6. h \in Thread /\ pc[h] \in InWait /\ want[h] = m /\ k.error[h] = "ok"
  BY <1>1, <1>5
<1>7. /\ k'.wait = WaitsWithout(k, h) /\ k'.error = k.error
      /\ \A t \in Thread : pc'[t] \in InWait <=> pc[t] \in InWait
      /\ \A t \in Thread : t # h =>
            (k'.stat[t] # "suspend" => k.stat[t] # "suspend")
  BY <1>1 DEF Resumed, MadeReady
<1>8. TakersKept'
  BY <1>0, <1>1, TakersResume DEF HInv
<1>9. WaitersMine'
  <2>1. \A w \in WaitList : Members(k'.wait[w]) = Members(k.wait[w]) \ {h}
    BY <1>0, <1>7, MembersLeft
  <2>2. \A w \in WaitList : \A t \in Members(k'.wait[w]) : t \in Members(k.wait[w])
    BY <2>1
  <2>3. want' = want /\ k'.error = k.error
    BY <1>1, <1>7
  <2> QED BY <1>5, <2>2, <2>3 DEF WaitersMine
<1> HIDE DEF h
<1>10. Outcome'
  <2>1. ASSUME NEW t \in Thread, pc[t] \in InWait, k'.stat[t] # "suspend"
        PROVE  /\ mutex'[want[t]].owner = t <=> k.error[t] = "ok"
               /\ mutex'[want[t]].owner = t => mutex'[want[t]].hold = 1
    <3>1. want[t] \in WaitList /\ t # c
      BY <1>0, <1>4, <2>1
    <3>2. CASE t = h
      BY <1>1, <1>2, <1>6, <3>2
    <3>3. CASE t # h
      <4>1. /\ mutex[want[t]].owner = t <=> k.error[t] = "ok"
            /\ mutex[want[t]].owner = t => mutex[want[t]].hold = 1
        BY <1>7, <2>1, <3>3 DEF HInv, Outcome
      <4> QED BY <1>1, <1>2, <3>1, <3>3, <4>1
    <3> QED BY <3>2, <3>3
  <2> QED BY <1>1, <1>7, <2>1 DEF Outcome
<1>11. HolderIsOwner'
  <2> SUFFICES ASSUME NEW w \in WaitList, NEW t \in Thread
               PROVE  held'[t][w] = IF mutex'[w].owner # t THEN 0
                         ELSE IF Inheriting(t, w)' THEN 0 ELSE mutex'[w].hold
    BY DEF HolderIsOwner
  <2>1. held[t][w] = IF mutex[w].owner # t THEN 0
                     ELSE IF Inheriting(t, w) THEN 0 ELSE mutex[w].hold
    BY DEF HInv, HolderIsOwner
  <2>2. Inheriting(t, w)' <=> Inheriting(t, w)
    BY <1>1, <1>7, TakeInWait DEF Inheriting, TakeLabelled
  <2>3. CASE w # m
    BY <1>2, <1>3, <2>1, <2>2, <2>3
  <2>4. CASE w = m /\ t = c
    <3>1. ~ Inheriting(t, w)
      BY <1>4, <2>4 DEF Inheriting, InWait
    <3>2. held[c][m] = 1
      BY <1>1, <2>1, <2>4, <3>1
    <3>3. held'[c][m] = 0 /\ mutex'[m].owner # c
      BY <1>0, <1>1, <1>2, <1>3, <3>2
    <3> QED BY <2>4, <3>3
  <2>5. CASE w = m /\ t = h
    <3>1. Inheriting(t, w)
      BY <1>6, <2>5, TakeInWait DEF Inheriting, TakeLabelled
    <3>2. held[t][w] = 0 /\ Inheriting(t, w)'
      BY <1>1, <2>1, <2>2, <2>5, <3>1
    <3>3. held'[t][w] = 0
      BY <1>1, <1>3, <2>5, <3>2
    <3> QED BY <3>2, <3>3
  <2>6. CASE w = m /\ t # c /\ t # h
    <3>1. held[t][w] = 0 /\ mutex'[w].owner # t
      BY <1>1, <1>2, <2>1, <2>6
    <3> QED BY <1>3, <2>6, <3>1
  <2> QED BY <2>3, <2>4, <2>5, <2>6
<1> QED BY <1>3, <1>8, <1>9, <1>10, <1>11 DEF HInv


\* The labels are those of Mutex.tla.
LEMMA NextLabels ==
    ASSUME MInv, TakeLabelled, [MutexNext]_allVars PROVE TakeLabelled'
<1>1. IInv /\ k.current \in Thread /\ pc \in [Thread -> Label \cup {"take", "taken"}]
  BY DEF MInv, IInv, Typed, KernelState, TakeLabelled
<1>2. \/ [Next]_vars \/ pc' = pc
      \/ \E l \in Label \cup {"take", "taken"} : pc' = [pc EXCEPT ![k.current] = l]
  <2> DEFINE P == \E l \in Label \cup {"take", "taken"} :
                    pc' = [pc EXCEPT ![k.current] = l]
  <2>1. ASSUME NEW m \in WaitList, MutexStep(m) PROVE pc' = pc \/ P
    <3>1. CASE \/ TakeAgain(m) \/ TakeFull(m) \/ TakeFree(m) \/ TakeBusy(m)
               \/ ReleaseNotOwner(m)
      BY <3>1 DEF TakeAgain, TakeFull, TakeFree, TakeBusy, ReleaseNotOwner, NoError, Done
    <3>2. ASSUME NEW time \in Times \cup {Forever}, TakeWait(m, time) PROVE P
      BY <3>2 DEF TakeWait, ThenSchedule, Goto
    <3>3. CASE ReleaseHandOver(m)
      BY <3>3 DEF ReleaseHandOver, ThenSchedule, Goto, Label
    <3>4. CASE ReleaseNested(m) \/ ReleaseFree(m)
      BY <3>4 DEF ReleaseNested, ReleaseFree, Done, vars
    <3> QED BY <2>1, <3>1, <3>2, <3>3, <3>4 DEF MutexStep
  <2>2. TakeSchedule \/ TakeReturn => P
    BY DEF TakeSchedule, TakeReturn, ScheduleFrom, Goto, Label
  <2> QED BY <2>1, <2>2 DEF MutexNext, allVars
<1>3. CASE [Next]_vars \/ pc' = pc
  BY <1>1, <1>3, LabelsKept DEF TakeLabelled
<1>4. CASE \E l \in Label \cup {"take", "taken"} : pc' = [pc EXCEPT ![k.current] = l]
  BY <1>1, <1>4 DEF TakeLabelled
<1> QED BY <1>2, <1>3, <1>4

\* Every step preserves the invariant.
LEMMA NextHInv ==
    ASSUME HInv, TakeLabelled, TakeLabelled', WaitersLeftAlone,
           [MutexNext]_allVars
    PROVE  HInv'
<1> DEFINE c == k.current
<1>0. /\ MInv /\ MInv' /\ IInv /\ TakersKept /\ c \in Thread
      /\ \A m \in WaitList : /\ mutex[m].owner \in Thread => Owned(m)
                             /\ mutex[m].value > 0 => Vacant(m)
      /\ held \in [Thread -> [WaitList -> Int]]
      /\ mutex \in [WaitList ->
            [value : 0 .. 1, owner : Thread \cup {NoThread},
             original : Priority \cup {NoPriority}, hold : 0 .. HoldMax]]
  BY NextMInv, MutexFacts DEF HInv, MutexTyped
<1>h. ASSUME NEW m \in WaitList, InThread
      PROVE  held[c][m] = IF mutex[m].owner # c THEN 0 ELSE mutex[m].hold
  <2>1. ~ Inheriting(c, m)
    BY <1>h DEF InThread, At, Inheriting
  <2> QED BY <1>0, <2>1 DEF HInv, HolderIsOwner
<1>1. ASSUME [Next]_vars, UNCHANGED mutexVars PROVE HInv'
  BY <1>0, <1>1, NextWaiters, HoldersElsewhere DEF mutexVars
<1>2. CASE TakeSchedule
  BY <1>0, <1>2, TakeScheduleStep, HoldersElsewhere DEF TakeSchedule, mutexVars
<1>3. CASE TakeReturn
  BY <1>0, <1>3, HoldersReturn
<1>4. ASSUME NEW m \in WaitList, TakeFull(m) \/ TakeBusy(m) \/ ReleaseNotOwner(m)
      PROVE  HInv'
  <2>1. PICK x \in Error : Done([k EXCEPT !.error[k.current] = x])
    BY <1>4 DEF TakeFull, TakeBusy, ReleaseNotOwner, NoError, Me, Error
  <2>2. InThread /\ mutex' = mutex /\ want' = want /\ held' = held
    BY <1>4 DEF TakeFull, TakeBusy, ReleaseNotOwner, CanTake, mutexVars
  <2>3. PassesBy
    BY <1>0, <2>1, <2>2, ErrorStep
  <2> QED BY <1>0, <2>2, <2>3, HoldersElsewhere
<1>5. ASSUME NEW m \in WaitList, TakeAgain(m) PROVE HInv'
  <2> DEFINE x == [mutex[m] EXCEPT !.hold = mutex[m].hold + 1]
  <2>1. /\ InThread /\ mutex[m].owner = c /\ mutex' = [mutex EXCEPT ![m] = x]
        /\ held' = [held EXCEPT ![c][m] = held[c][m] + 1]
        /\ Done([k EXCEPT !.error[k.current] = "ok"]) /\ want' = want
    BY <1>5 DEF TakeAgain, CanTake, NoError, Granted, Me
  <2>2. PassesBy
    BY <1>0, <2>1, ErrorStep DEF Error
  <2>3. x.owner = c /\ x.hold = held[c][m] + 1
    BY <1>0, <1>h, <2>1
  <2> HIDE DEF x
  <2>4. Counts(m, x, 1)
    BY <2>1, <2>3 DEF Counts
  <2> QED BY <1>0, <2>2, <2>4, HoldersCount
<1>6. ASSUME NEW m \in WaitList, TakeFree(m) PROVE HInv'
  <2> DEFINE x == [value |-> mutex[m].value - 1, owner |-> k.current,
                   original |-> k.prio[k.current], hold |-> mutex[m].hold + 1]
  <2>1. /\ InThread /\ mutex[m].value > 0 /\ mutex' = [mutex EXCEPT ![m] = x]
        /\ held' = [held EXCEPT ![c][m] = held[c][m] + 1]
        /\ Done([k EXCEPT !.error[k.current] = "ok"]) /\ want' = want
    BY <1>6 DEF TakeFree, CanTake, NoError, Granted, Me
  <2>2. PassesBy
    BY <1>0, <2>1, ErrorStep DEF Error
  <2>3. mutex[m].owner = NoThread /\ mutex[m].hold = 0
    BY <1>0, <2>1 DEF Vacant, Free
  <2>4. x.owner = c /\ x.hold = held[c][m] + 1
    BY <1>0, <1>h, <2>1, <2>3, NoThreadAssumption
  <2> HIDE DEF x
  <2>5. Counts(m, x, 1)
    BY <2>1, <2>3, <2>4 DEF Counts
  <2> QED BY <1>0, <2>2, <2>5, HoldersCount
<1>7. ASSUME NEW m \in WaitList, NEW time \in Times \cup {Forever}, TakeWait(m, time)
      PROVE  HInv'
  <2>1. /\ Joins(m) /\ mutex[m].owner # c /\ mutex' = mutex /\ held' = held
        /\ want' = [want EXCEPT ![c] = m]
    BY <1>0, <1>7, TakeWaitStep
  <2> QED BY <1>0, <2>1, HoldersWait
<1>8. ASSUME NEW m \in WaitList, ReleaseNested(m) PROVE HInv'
  <2> DEFINE x == [mutex[m] EXCEPT !.hold = mutex[m].hold - 1]
  <2>1. /\ InThread /\ mutex[m].owner = c /\ mutex' = [mutex EXCEPT ![m] = x]
        /\ held' = [held EXCEPT ![c][m] = held[c][m] - 1]
        /\ UNCHANGED vars /\ want' = want
    BY <1>8 DEF ReleaseNested, Released, Me
  <2>2. PassesBy
    BY <2>1 DEF PassesBy, Undisturbed, vars
  <2>3. held[c][m] \in Int /\ held[c][m] - 1 = held[c][m] + (-1) /\ -1 \in Int
    BY <1>0
  <2>4. x.owner = c /\ x.hold = held[c][m] + (-1)
    BY <1>0, <1>h, <2>1, <2>3
  <2>5. held' = [held EXCEPT ![c][m] = held[c][m] + (-1)]
    BY <2>1, <2>3
  <2> HIDE DEF x
  <2>6. Counts(m, x, -1)
    BY <2>1, <2>4, <2>5 DEF Counts
  <2> QED BY <1>0, <2>2, <2>3, <2>6, HoldersCount
<1>9. ASSUME NEW m \in WaitList, ReleaseHandOver(m) PROVE HInv'
  BY <1>0, <1>9, HoldersHandOver
<1>10. ASSUME NEW m \in WaitList, ReleaseFree(m) PROVE HInv'
  <2>1. /\ InThread /\ PassesBy /\ mutex[m].owner = c /\ mutex[m].hold = 1
        /\ mutex' = [mutex EXCEPT ![m] = Free] /\ want' = want
        /\ held' = [held EXCEPT ![c][m] = held[c][m] - 1]
    BY <1>0, <1>10, ReleaseFreeStep
  <2>2. held[c][m] = 1
    BY <1>h, <2>1
  <2>3. held[c][m] - 1 = held[c][m] + (-1) /\ -1 \in Int /\ held[c][m] + (-1) = 0
    BY <2>2
  <2>4. Free.owner = NoThread
    BY DEF Free
  <2>5. held' = [held EXCEPT ![c][m] = held[c][m] + (-1)]
    BY <2>1, <2>3
  <2>6. Counts(m, Free, -1)
    BY <2>1, <2>3, <2>4, <2>5 DEF Counts
  <2> QED BY <1>0, <2>1, <2>3, <2>6, HoldersCount
<1>11. CASE UNCHANGED allVars
  BY <1>1, <1>11 DEF allVars
<1> QED
  BY <1>1, <1>2, <1>3, <1>4, <1>5, <1>6, <1>7, <1>8, <1>9, <1>10, <1>11
  DEF MutexNext, MutexStep

\* Unless threads that wait are resumed or deleted behind the mutex's back,
\* the account of the holders is exact in every reachable state.
THEOREM AlwaysHInv ==
    ASSUME WaitersLeftAlone PROVE MutexSpec => [](HInv /\ TakeLabelled)
<1>1. MutexInit => HInv
  BY InitHInv
<1>2. MutexInit => TakeLabelled
  BY DEF MutexInit, Init, TakeLabelled, Label
<1>3. HInv /\ TakeLabelled /\ [MutexNext]_allVars => (HInv /\ TakeLabelled)'
  <2>1. ASSUME HInv, TakeLabelled, [MutexNext]_allVars PROVE (HInv /\ TakeLabelled)'
    BY <2>1, NextLabels, NextHInv DEF HInv
  <2> QED BY <2>1
<1> QED BY <1>1, <1>2, <1>3, PTL DEF MutexSpec

\* Mutual exclusion: rt_mutex_take tells RT_EOK to the owner and to nobody
\* else, as often as the mutex counts it, however timeouts cross the releases
\* that hand the mutex over.
THEOREM HolderAlwaysOwner ==
    ASSUME WaitersLeftAlone PROVE MutexSpec => []HolderIsOwner
<1>1. HInv => HolderIsOwner
  BY DEF HInv
<1> QED BY <1>1, AlwaysHInv, PTL

\* No hold count leaves 0 .. RT_MUTEX_HOLD_MAX.
THEOREM MutexTypeCorrect ==
    ASSUME WaitersLeftAlone PROVE MutexSpec => []MutexTypeOK
<1>2. HInv /\ TakeLabelled => MutexTypeOK
  <2> SUFFICES ASSUME HInv, TakeLabelled PROVE MutexTypeOK
    OBVIOUS
  <2>1. ASSUME NEW t \in Thread, NEW m \in WaitList
        PROVE  held[t][m] \in 0 .. HoldMax
    <3>1. mutex[m].hold \in 0 .. HoldMax
      BY DEF HInv, MInv, MutexTyped
    <3>2. 0 \in 0 .. HoldMax
      BY HoldMaxAssumption
    <3> QED BY <3>1, <3>2 DEF HInv, HolderIsOwner
  <2>2. held \in [Thread -> [WaitList -> 0 .. HoldMax]]
    BY <2>1 DEF HInv
  <2> QED BY <2>2 DEF HInv, MInv, MutexTyped, IInv, Typed, MutexTypeOK, TakeLabelled
<1> QED BY <1>2, AlwaysHInv, PTL


-----------------------------------------------------------------------------
(* Priority inheritance with one mutex *)

\* The protocol keeps one original priority per mutex and is exact for a
\* thread that owns one mutex at a time.
OneMutex == \A m, w \in WaitList : m = w

\* The priority to return to is the one the owner was given.
OriginalGiven ==
    \A m \in WaitList : mutex[m].owner \in Thread =>
        mutex[m].original = InitPrio[mutex[m].owner]

RInv == MInv /\ OriginalGiven /\ PriorityRestored

\* The owner has a priority to return to, and the other threads have theirs.
Given(owner, original, prio) ==
    \A t \in Thread : IF owner = t THEN original = InitPrio[t]
                                   ELSE prio[t] = InitPrio[t]

\* The invariant for the mutex there is.
LEMMA GivenIsRInv ==
    ASSUME MInv, OneMutex, NEW m \in WaitList
    PROVE  /\ RInv <=> Given(mutex[m].owner, mutex[m].original, k.prio)
           /\ RInv' <=> MInv' /\ Given(mutex'[m].owner, mutex'[m].original, k'.prio)
<1>1. \A w \in WaitList : w = m
  BY DEF OneMutex
<1>2. RInv <=> Given(mutex[m].owner, mutex[m].original, k.prio)
  BY <1>1 DEF RInv, OriginalGiven, PriorityRestored, Given
<1>3. RInv' <=> MInv' /\ Given(mutex'[m].owner, mutex'[m].original, k'.prio)
  BY <1>1 DEF RInv, OriginalGiven, PriorityRestored, Given
<1> QED BY <1>2, <1>3

\* Every step preserves the invariant.
LEMMA NextRInv ==
    ASSUME RInv, OneMutex, "priority" \notin Calls, [MutexNext]_allVars PROVE RInv'
<1> DEFINE c == k.current
<1>0. /\ MInv /\ MInv' /\ IInv /\ c \in Thread /\ k.prio \in [Thread -> Priority]
      /\ NoThread \notin Thread /\ Priority \subseteq Nat
      /\ \A m \in WaitList : /\ mutex[m].owner \in Thread => Owned(m)
                             /\ mutex[m].value > 0 => Vacant(m)
      /\ mutex \in [WaitList ->
            [value : 0 .. 1, owner : Thread \cup {NoThread},
             original : Priority \cup {NoPriority}, hold : 0 .. HoldMax]]
  BY NextMInv, MutexFacts DEF RInv, MutexTyped
<1>g. ASSUME NEW m \in WaitList
      PROVE  /\ Given(mutex[m].owner, mutex[m].original, k.prio)
             /\ Given(mutex'[m].owner, mutex'[m].original, k'.prio) => RInv'
  BY <1>0, GivenIsRInv
<1>e. ASSUME NEW m \in WaitList, mutex'[m].owner = mutex[m].owner,
             mutex'[m].original = mutex[m].original,
             \A t \in Thread : k'.prio[t] \in {k.prio[t], InitPrio[t]}
      PROVE  RInv'
  BY <1>e, <1>g DEF Given
<1>1. ASSUME [Next]_vars, UNCHANGED mutexVars PROVE RInv'
  <2>1. \A t \in Thread : k'.prio[t] \in {k.prio[t], InitPrio[t]}
    BY <1>0, <1>1, NextPriorities
  <2>2. PICK m \in WaitList : TRUE
    BY MutexAssumption
  <2> QED BY <1>1, <1>e, <2>1, <2>2 DEF mutexVars
<1>2. CASE TakeSchedule
  <2>1. k'.prio = k.prio /\ mutex' = mutex
    BY <1>0, <1>2, TakeScheduleStep DEF TakeSchedule, mutexVars
  <2>2. PICK m \in WaitList : TRUE
    BY MutexAssumption
  <2> QED BY <1>e, <2>1, <2>2
<1>3. CASE TakeReturn
  <2>1. k' = k /\ mutex' = mutex
    BY <1>3 DEF TakeReturn
  <2>2. PICK m \in WaitList : TRUE
    BY MutexAssumption
  <2> QED BY <1>e, <2>1, <2>2
<1>4. ASSUME NEW m \in WaitList, TakeFull(m) \/ TakeBusy(m) \/ ReleaseNotOwner(m)
      PROVE  RInv'
  <2>1. PICK x \in Error : Done([k EXCEPT !.error[k.current] = x])
    BY <1>4 DEF TakeFull, TakeBusy, ReleaseNotOwner, NoError, Me, Error
  <2>2. InThread /\ mutex' = mutex
    BY <1>4 DEF TakeFull, TakeBusy, ReleaseNotOwner, CanTake, mutexVars
  <2>3. k'.prio = k.prio
    BY <1>0, <2>1, <2>2, ErrorStep
  <2> QED BY <1>e, <2>2, <2>3
<1>5. ASSUME NEW m \in WaitList, TakeAgain(m) PROVE RInv'
  <2>1. /\ InThread /\ mutex' = [mutex EXCEPT ![m].hold = mutex[m].hold + 1]
        /\ Done([k EXCEPT !.error[k.current] = "ok"])
    BY <1>5 DEF TakeAgain, CanTake, NoError, Me
  <2>2. k'.prio = k.prio
    BY <1>0, <2>1, ErrorStep DEF Error
  <2>3. mutex'[m].owner = mutex[m].owner /\ mutex'[m].original = mutex[m].original
    BY <1>0, <2>1
  <2> QED BY <1>e, <2>2, <2>3
<1>6. ASSUME NEW m \in WaitList, TakeFree(m) PROVE RInv'
  <2>1. /\ InThread /\ mutex[m].value > 0
        /\ mutex' = [mutex EXCEPT ![m] =
              [value |-> mutex[m].value - 1, owner |-> c,
               original |-> k.prio[c], hold |-> mutex[m].hold + 1]]
        /\ Done([k EXCEPT !.error[k.current] = "ok"])
    BY <1>6 DEF TakeFree, CanTake, NoError, Me
  <2>2. k'.prio = k.prio
    BY <1>0, <2>1, ErrorStep DEF Error
  <2>3. mutex[m].owner = NoThread
    BY <1>0, <2>1 DEF Vacant, Free
  <2>4. mutex'[m].owner = c /\ mutex'[m].original = k.prio[c]
    BY <1>0, <2>1
  <2> QED BY <1>0, <1>g, <2>2, <2>3, <2>4 DEF Given
<1>7. ASSUME NEW m \in WaitList, NEW time \in Times \cup {Forever}, TakeWait(m, time)
      PROVE  RInv'
  <2>1. /\ mutex' = mutex
        /\ \A t \in Thread : t # mutex[m].owner => k'.prio[t] = k.prio[t]
    BY <1>0, <1>7, TakeWaitStep
  <2> QED BY <1>g, <2>1 DEF Given
<1>8. ASSUME NEW m \in WaitList, ReleaseNested(m) PROVE RInv'
  <2>1. mutex' = [mutex EXCEPT ![m].hold = mutex[m].hold - 1] /\ k' = k
    BY <1>8 DEF ReleaseNested, vars
  <2>2. mutex'[m].owner = mutex[m].owner /\ mutex'[m].original = mutex[m].original
    BY <1>0, <2>1
  <2> QED BY <1>e, <2>1, <2>2
<1>9. ASSUME NEW m \in WaitList, ReleaseHandOver(m) PROVE RInv'
  <2> DEFINE h == Head(k.wait[m])
  <2>1. /\ mutex[m].owner = c /\ h # c /\ h \in Thread
        /\ k'.prio = [k.prio EXCEPT ![c] = mutex[m].original]
        /\ mutex' = [mutex EXCEPT ![m].owner = h, ![m].original = k.prio[h]]
    BY <1>0, <1>9, HandOverStep DEF Resumed, MadeReady
  <2> HIDE DEF h
  <2>2. mutex'[m].owner = h /\ mutex'[m].original = k.prio[h]
    BY <1>0, <2>1
  <2>3. \A t \in Thread : k'.prio[t] = IF t = c THEN mutex[m].original ELSE k.prio[t]
    BY <1>0, <2>1
  <2> QED BY <1>0, <1>g, <2>1, <2>2, <2>3 DEF Given
<1>10. ASSUME NEW m \in WaitList, ReleaseFree(m) PROVE RInv'
  <2>1. /\ mutex[m].owner = c /\ mutex' = [mutex EXCEPT ![m] = Free]
        /\ k'.prio = [k.prio EXCEPT ![c] = mutex[m].original]
    BY <1>0, <1>10, ReleaseFreeStep
  <2>2. mutex'[m].owner = NoThread
    BY <1>0, <2>1 DEF Free
  <2>3. \A t \in Thread : k'.prio[t] = IF t = c THEN mutex[m].original ELSE k.prio[t]
    BY <1>0, <2>1
  <2> QED BY <1>0, <1>g, <2>1, <2>2, <2>3 DEF Given
<1>11. CASE UNCHANGED allVars
  BY <1>1, <1>11 DEF allVars
<1> QED
  BY <1>1, <1>2, <1>3, <1>4, <1>5, <1>6, <1>7, <1>8, <1>9, <1>10, <1>11
  DEF MutexNext, MutexStep

\* With one mutex, a thread that does not own it is at the priority it was
\* given, however its waiters came, timed out or went, unless rt_thread_control
\* has changed it.  With two mutexes this is false: see the run mutex_nested.
THEOREM PriorityAlwaysRestored ==
    ASSUME OneMutex, "priority" \notin Calls
    PROVE  MutexSpec => []PriorityRestored
<1>1. MutexInit => RInv
  <2> SUFFICES ASSUME MutexInit PROVE RInv
    OBVIOUS
  <2>1. MInv /\ k.prio = InitPrio
    BY InitMInv DEF MutexInit, Init, KernelInit
  <2>2. OriginalGiven
    BY NoThreadAssumption DEF MutexInit, Free, OriginalGiven
  <2> QED BY <2>1, <2>2 DEF RInv, PriorityRestored
<1>2. RInv /\ [MutexNext]_allVars => RInv'
  BY NextRInv
<1>3. RInv => PriorityRestored
  BY DEF RInv
<1> QED BY <1>1, <1>2, <1>3, PTL DEF MutexSpec


\* The waiters are sorted, and the owner is as urgent as each of them.
UInv ==
    /\ MInv /\ PriorityInherited
    /\ \A m \in WaitList : Ordered(k.wait[m], k.prio)

\* The first of the waiters is a most urgent one.
LEMMA HeadMostUrgent ==
    ASSUME UInv, NEW m \in WaitList, k.wait[m] # <<>>
    PROVE  \A t \in Members(k.wait[m]) : k.prio[Head(k.wait[m])] <= k.prio[t]
<1> SUFFICES ASSUME NEW t \in Members(k.wait[m])
             PROVE  k.prio[Head(k.wait[m])] <= k.prio[t]
  OBVIOUS
<1>1. /\ k.wait[m] \in Seq(Thread) /\ k.prio \in [Thread -> Priority]
      /\ Priority \subseteq Nat
  BY MutexFacts DEF UInv
<1>2. PICK j \in 1 .. Len(k.wait[m]) : k.wait[m][j] = t
  BY <1>1 DEF Members
<1>3. Head(k.wait[m]) = k.wait[m][1] /\ Len(k.wait[m]) \in Nat
  BY <1>1
<1>4. CASE j = 1
  <2>1. t \in Thread /\ Head(k.wait[m]) = t
    BY <1>1, <1>2, <1>3, <1>4
  <2>2. k.prio[t] \in Nat
    BY <1>1, <2>1
  <2> QED BY <2>1, <2>2
<1>5. CASE j # 1
  <2>1. 1 \in 1 .. Len(k.wait[m]) /\ 1 < j
    BY <1>2, <1>3, <1>5
  <2> QED BY <1>2, <1>3, <2>1 DEF UInv, Ordered
<1> QED BY <1>4, <1>5

\* A step after which the same thread owns m, or nobody waits, and at most
\* threads have left the list and the owner's priority has changed.
LEMMA UrgencyKept ==
    ASSUME UInv, MInv', OneMutex, NEW m \in WaitList,
           k'.wait = k.wait \/ \E h : k'.wait = WaitsWithout(k, h),
           \A t \in Members(k.wait[m]) : k'.prio[t] = k.prio[t],
           \A t \in Members(k'.wait[m]) : k'.prio[mutex'[m].owner] <= k.prio[t]
    PROVE  UInv'
<1>0. IInv /\ IInv' /\ \A w \in WaitList : w = m
  BY DEF UInv, MInv, OneMutex
<1>1. /\ k'.wait[m] = k.wait[m] \/ \E h : k'.wait[m] = Without(k.wait[m], h)
      /\ Members(k'.wait[m]) \subseteq Members(k.wait[m])
  <2>1. CASE k'.wait = k.wait
    BY <2>1
  <2>2. ASSUME NEW h, k'.wait = WaitsWithout(k, h)
        PROVE  /\ k'.wait[m] = Without(k.wait[m], h)
               /\ Members(k'.wait[m]) \subseteq Members(k.wait[m])
    BY <1>0, <2>2, MembersLeft
  <2> QED BY <2>1, <2>2
<1>2. Ordered(k'.wait[m], k'.prio)
  BY <1>0, <1>1, StaysOrdered DEF UInv
<1>3. \A t \in Members(k'.wait[m]) : k'.prio[mutex'[m].owner] <= k'.prio[t]
  BY <1>1
<1> QED BY <1>0, <1>2, <1>3 DEF UInv, PriorityInherited

\* Every step preserves the invariant.
LEMMA NextUInv ==
    ASSUME UInv, OneMutex, "priority" \notin Calls, "create" \notin Calls,
           [MutexNext]_allVars
    PROVE  UInv'
<1> DEFINE c == k.current
<1>0. /\ MInv /\ MInv' /\ IInv /\ c \in Thread /\ k.prio \in [Thread -> Priority]
      /\ NoThread \notin Thread /\ Priority \subseteq Nat
      /\ \A m \in WaitList : /\ mutex[m].owner \in Thread => Owned(m)
                             /\ mutex[m].value > 0 => Vacant(m)
      /\ mutex \in [WaitList ->
            [value : 0 .. 1, owner : Thread \cup {NoThread},
             original : Priority \cup {NoPriority}, hold : 0 .. HoldMax]]
  BY NextMInv, MutexFacts DEF UInv, MutexTyped
<1>i. \A m \in WaitList : \A t \in Members(k.wait[m]) :
         t \in Thread /\ k.prio[mutex[m].owner] <= k.prio[t]
  BY <1>0, WaitersSuspended DEF UInv, PriorityInherited
<1>e. ASSUME NEW m \in WaitList, mutex'[m].owner = mutex[m].owner, k'.prio = k.prio,
             k'.wait = k.wait \/ \E h : k'.wait = WaitsWithout(k, h)
      PROVE  UInv'
  <2>1. Members(k'.wait[m]) \subseteq Members(k.wait[m])
    BY <1>0, <1>e, MembersLeft
  <2>2. \A t \in Members(k'.wait[m]) : k'.prio[mutex'[m].owner] <= k.prio[t]
    BY <1>e, <1>i, <2>1
  <2> QED BY <1>0, <1>e, <2>2, UrgencyKept
<1>m. PICK one \in WaitList : TRUE
  BY MutexAssumption
<1>1. ASSUME [Next]_vars, UNCHANGED mutexVars PROVE UInv'
  <2>1. \A t \in Thread : k'.prio[t] = k.prio[t]
    BY <1>0, <1>1, NextPriorities
  <2>2. k'.prio \in [Thread -> Priority]
    BY <1>0, MutexFacts DEF MInv, IInv, Typed, KernelState
  <2>3. k'.prio = k.prio
    BY <1>0, <2>1, <2>2
  <2>4. k'.wait = k.wait \/ \E h : k'.wait = WaitsWithout(k, h)
    BY <1>0, <1>1, NextLists
  <2> QED BY <1>1, <1>e, <1>m, <2>3, <2>4 DEF mutexVars
<1>2. CASE TakeSchedule
  <2>1. k'.prio = k.prio /\ mutex' = mutex /\ k'.wait = k.wait
    BY <1>0, <1>2, TakeScheduleStep DEF TakeSchedule, mutexVars, PassesBy
  <2> QED BY <1>e, <1>m, <2>1
<1>3. CASE TakeReturn
  <2>1. k' = k /\ mutex' = mutex
    BY <1>3 DEF TakeReturn
  <2> QED BY <1>e, <1>m, <2>1
<1>4. ASSUME NEW m \in WaitList, TakeFull(m) \/ TakeBusy(m) \/ ReleaseNotOwner(m)
      PROVE  UInv'
  <2>1. PICK x \in Error : Done([k EXCEPT !.error[k.current] = x])
    BY <1>4 DEF TakeFull, TakeBusy, ReleaseNotOwner, NoError, Me, Error
  <2>2. InThread /\ mutex' = mutex
    BY <1>4 DEF TakeFull, TakeBusy, ReleaseNotOwner, CanTake, mutexVars
  <2>3. k'.prio = k.prio /\ k'.wait = k.wait
    BY <1>0, <2>1, <2>2, ErrorStep DEF PassesBy
  <2> QED BY <1>e, <2>2, <2>3
<1>5. ASSUME NEW m \in WaitList, TakeAgain(m) PROVE UInv'
  <2>1. /\ InThread /\ mutex' = [mutex EXCEPT ![m].hold = mutex[m].hold + 1]
        /\ Done([k EXCEPT !.error[k.current] = "ok"])
    BY <1>5 DEF TakeAgain, CanTake, NoError, Me
  <2>2. k'.prio = k.prio /\ k'.wait = k.wait
    BY <1>0, <2>1, ErrorStep DEF Error, PassesBy
  <2>3. mutex'[m].owner = mutex[m].owner
    BY <1>0, <2>1
  <2> QED BY <1>e, <2>2, <2>3
<1>6. ASSUME NEW m \in WaitList, TakeFree(m) PROVE UInv'
  <2>1. /\ InThread /\ mutex[m].value > 0
        /\ Done([k EXCEPT !.error[k.current] = "ok"])
    BY <1>6 DEF TakeFree, CanTake, NoError, Me
  <2>2. k'.prio = k.prio /\ k'.wait = k.wait
    BY <1>0, <2>1, ErrorStep DEF Error, PassesBy
  <2>3. Members(k'.wait[m]) = {}
    BY <1>0, <2>1, <2>2 DEF Vacant, Members
  <2> QED BY <1>0, <2>2, <2>3, UrgencyKept
<1>7. ASSUME NEW m \in WaitList, NEW time \in Times \cup {Forever}, TakeWait(m, time)
      PROVE  UInv'
  <2> DEFINE o == mutex[m].owner
  <2>1. /\ Joins(m) /\ Owned(m) /\ o # c /\ mutex' = mutex
        /\ k'.prio = [k.prio EXCEPT ![o] = IF k.prio[c] < k.prio[o]
                                           THEN k.prio[c] ELSE k.prio[o]]
        /\ Ordered(k.wait[m], k'.prio) => Ordered(k'.wait[m], k'.prio)
    BY <1>0, <1>7, TakeWaitStep
  <2>2. /\ o \in Thread /\ o \notin Members(k.wait[m])
        /\ Members(k'.wait[m]) = Members(k.wait[m]) \cup {c}
    BY <2>1 DEF Owned, Joins, JoinsAt
  <2> HIDE DEF o
  <2>3. /\ k'.prio[o] = IF k.prio[c] < k.prio[o] THEN k.prio[c] ELSE k.prio[o]
        /\ \A t \in Thread : t # o => k'.prio[t] = k.prio[t]
        /\ k.prio[o] \in Nat /\ k.prio[c] \in Nat
        /\ \A t \in Thread : k.prio[t] \in Nat
    BY <1>0, <2>1, <2>2
  <2>4. \A t \in Members(k.wait[m]) : k'.prio[t] = k.prio[t]
    BY <1>i, <2>2, <2>3
  <2>5. k.wait[m] \in Seq(Thread) /\ Ordered(k.wait[m], k.prio)
    BY <1>0, MutexFacts DEF UInv
  <2>6. Ordered(k.wait[m], k'.prio)
    BY <2>4, <2>5, OrderedAlike
  <2>7. k'.prio[o] <= k.prio[o] /\ k'.prio[o] <= k.prio[c] /\ k'.prio[o] \in Nat
    BY <2>3
  <2>8. ASSUME NEW t \in Members(k'.wait[m]) PROVE k'.prio[o] <= k'.prio[t]
    <3>1. CASE t = c
      BY <1>0, <2>1, <2>3, <2>7, <3>1 DEF o
    <3>2. CASE t # c
      <4>1. t \in Members(k.wait[m])
        BY <2>2, <3>2
      <4>2. t \in Thread /\ k.prio[o] <= k.prio[t] /\ k'.prio[t] = k.prio[t]
        BY <1>i, <2>4, <4>1 DEF o
      <4> QED BY <2>3, <2>7, <4>2
    <3> QED BY <3>1, <3>2
  <2>9. \A w \in WaitList : w = m
    BY DEF OneMutex
  <2> QED BY <1>0, <2>1, <2>6, <2>8, <2>9 DEF UInv, PriorityInherited, o
<1>8. ASSUME NEW m \in WaitList, ReleaseNested(m) PROVE UInv'
  <2>1. mutex' = [mutex EXCEPT ![m].hold = mutex[m].hold - 1] /\ k' = k
    BY <1>8 DEF ReleaseNested, vars
  <2>2. mutex'[m].owner = mutex[m].owner
    BY <1>0, <2>1
  <2> QED BY <1>e, <2>1, <2>2
<1>9. ASSUME NEW m \in WaitList, ReleaseHandOver(m) PROVE UInv'
  <2> DEFINE h == Head(k.wait[m])
  <2>1. /\ Owned(m) /\ mutex[m].owner = c /\ h # c /\ h \in Members(k.wait[m])
        /\ k.wait[m] # <<>> /\ k'.wait = WaitsWithout(k, h) /\ h \in Thread
        /\ k'.prio = [k.prio EXCEPT ![c] = mutex[m].original]
        /\ mutex' = [mutex EXCEPT ![m].owner = h, ![m].original = k.prio[h]]
    BY <1>0, <1>9, HandOverStep DEF Resumed, MadeReady
  <2>2. \A t \in Members(k.wait[m]) : k.prio[h] <= k.prio[t]
    BY <2>1, HeadMostUrgent
  <2> HIDE DEF h
  <2>3. mutex'[m].owner = h
    BY <1>0, <2>1
  <2>4. \A t \in Thread : t # c => k'.prio[t] = k.prio[t]
    BY <1>0, <2>1
  <2>5. \A t \in Members(k.wait[m]) : k'.prio[t] = k.prio[t]
    BY <1>i, <2>1, <2>4 DEF Owned
  <2>6. Members(k'.wait[m]) \subseteq Members(k.wait[m])
    <3>1. Members(k'.wait[m]) = Members(k.wait[m]) \ {h}
      BY <1>0, <2>1, MembersLeft
    <3> QED BY <3>1
  <2>7. \A t \in Members(k'.wait[m]) : k'.prio[mutex'[m].owner] <= k.prio[t]
    BY <2>1, <2>2, <2>3, <2>4, <2>6
  <2>8. \E x : k'.wait = WaitsWithout(k, x)
    BY <2>1
  <2> QED BY <1>0, <2>5, <2>7, <2>8, UrgencyKept
<1>10. ASSUME NEW m \in WaitList, ReleaseFree(m) PROVE UInv'
  <2>1. k.wait[m] = <<>> /\ k'.wait = k.wait
    BY <1>0, <1>10, ReleaseFreeStep DEF PassesBy
  <2>2. Members(k.wait[m]) = {} /\ Members(k'.wait[m]) = {}
    BY <2>1 DEF Members
  <2> QED BY <1>0, <2>1, <2>2, UrgencyKept
<1>11. CASE UNCHANGED allVars
  BY <1>1, <1>11 DEF allVars
<1> QED
  BY <1>1, <1>2, <1>3, <1>4, <1>5, <1>6, <1>7, <1>8, <1>9, <1>10, <1>11
  DEF MutexNext, MutexStep

\* The invariant holds in every reachable state, unless rt_thread_control or
\* the creation of a thread in the memory of the dead owner changes a
\* priority behind the mutex's back.
THEOREM AlwaysUInv ==
    ASSUME OneMutex, "priority" \notin Calls, "create" \notin Calls
    PROVE  MutexSpec => []UInv
<1>1. MutexInit => UInv
  <2> SUFFICES ASSUME MutexInit PROVE UInv
    OBVIOUS
  <2>1. MInv /\ \A m \in WaitList : k.wait[m] = <<>>
    BY InitMInv DEF MutexInit, Init, KernelInit
  <2> QED BY <2>1 DEF UInv, PriorityInherited, Ordered, Members
<1>2. UInv /\ [MutexNext]_allVars => UInv'
  BY NextUInv
<1> QED BY <1>1, <1>2, PTL DEF MutexSpec

\* Priority inheritance: the owner of the mutex is at least as urgent as every
\* thread that waits for it.
THEOREM PriorityAlwaysInherited ==
    ASSUME OneMutex, "priority" \notin Calls, "create" \notin Calls
    PROVE  MutexSpec => []PriorityInherited
<1>1. UInv => PriorityInherited
  BY DEF UInv
<1> QED BY <1>1, AlwaysUInv, PTL

\* rt_mutex_release hands the mutex to a most urgent waiter: an action
\* property of every step.
THEOREM AlwaysHandsToMostUrgent ==
    ASSUME OneMutex, "priority" \notin Calls, "create" \notin Calls
    PROVE  MutexSpec => HandsToMostUrgent
<1> DEFINE A == \A m \in WaitList :
          mutex'[m].owner \notin {NoThread, mutex[m].owner} /\ k.wait[m] # <<>>
          => \A t \in Members(k.wait[m]) :
                k.prio[mutex'[m].owner] <= k.prio[t]
<1>1. ASSUME UInv, [MutexNext]_allVars PROVE [A]_allVars
  <2>0. /\ MInv /\ \A m \in WaitList : mutex[m].value > 0 => Vacant(m)
        /\ mutex \in [WaitList ->
              [value : 0 .. 1, owner : Thread \cup {NoThread},
               original : Priority \cup {NoPriority}, hold : 0 .. HoldMax]]
    BY <1>1, MutexFacts DEF UInv, MutexTyped
  <2>1. CASE mutex' = mutex
    BY <2>1
  <2>o. \A m, w \in WaitList : m = w
    BY DEF OneMutex
  <2>2. ASSUME NEW m \in WaitList,
               TakeAgain(m) \/ ReleaseNested(m) \/ ReleaseFree(m)
        PROVE  A
    <3>1. mutex'[m].owner \in {NoThread, mutex[m].owner}
      BY <2>0, <2>2 DEF TakeAgain, ReleaseNested, ReleaseFree, Free
    <3> QED BY <2>o, <3>1
  <2>3. ASSUME NEW m \in WaitList, TakeFree(m) PROVE A
    <3>1. k.wait[m] = <<>>
      BY <2>0, <2>3 DEF TakeFree, Vacant
    <3> QED BY <2>o, <3>1
  <2>4. ASSUME NEW m \in WaitList, ReleaseHandOver(m) PROVE A
    <3>1. mutex' = [mutex EXCEPT ![m].owner = Head(k.wait[m]),
                                 ![m].original = k.prio[Head(k.wait[m])]]
      BY <2>0, <2>4, HandOverStep
    <3>2. mutex'[m].owner = Head(k.wait[m])
      BY <2>0, <3>1
    <3>3. k.wait[m] # <<>> =>
             \A t \in Members(k.wait[m]) : k.prio[mutex'[m].owner] <= k.prio[t]
      BY <1>1, <3>2, HeadMostUrgent
    <3> QED BY <2>o, <3>3
  <2>5. ASSUME NEW m \in WaitList,
               \/ TakeFull(m) \/ TakeBusy(m) \/ ReleaseNotOwner(m)
               \/ \E time \in Times \cup {Forever} : TakeWait(m, time)
        PROVE  mutex' = mutex
    BY <2>5 DEF TakeFull, TakeBusy, ReleaseNotOwner, TakeWait, mutexVars
  <2>6. CASE (Next /\ UNCHANGED mutexVars) \/ TakeSchedule \/ TakeReturn
             \/ UNCHANGED allVars
    <3>1. mutex' = mutex
      BY <2>6 DEF TakeSchedule, TakeReturn, mutexVars, allVars
    <3> QED BY <2>1, <3>1
  <2> HIDE DEF A
  <2> QED BY <1>1, <2>1, <2>2, <2>3, <2>4, <2>5, <2>6 DEF MutexNext, MutexStep
<1>2. UInv /\ [MutexNext]_allVars => [A]_allVars
  BY <1>1
<1>3. HandsToMostUrgent <=> [][A]_allVars
  BY DEF HandsToMostUrgent
<1> HIDE DEF A
<1> QED BY <1>2, <1>3, AlwaysUInv, PTL DEF MutexSpec
=============================================================================
