---------------------------- MODULE TimerProofs -----------------------------
(***************************************************************************)
(* Proofs that the timer list of module Timer stays sorted across the      *)
(* wrap-around of rt_tick, and that the timers fire as module Countdown    *)
(* promises, for any number of timers and any width of the tick counter.   *)
(***************************************************************************)
EXTENDS Timer, ListLemmas

-----------------------------------------------------------------------------
(* rt_tick_t arithmetic *)

\* RT_TICK_MAX / 2.
LEMMA HalfIs ==
    /\ TickMax \in Nat /\ Half \in Nat /\ 1 < Half /\ Half + Half <= TickMax
    /\ \A n \in InitTicks : n \in 1 .. Half - 1
BY TickMaxAssumption, InitTicksAssumption DEF Half

\* A difference of ticks is that of the numbers, or TickMax + 1 more.
LEMMA MinusIs ==
    ASSUME NEW x \in 0 .. TickMax, NEW y \in 0 .. TickMax
    PROVE  /\ Minus(x, y) \in 0 .. TickMax
           /\ Minus(x, y) = IF y <= x THEN x - y ELSE (x - y) + (TickMax + 1)
<1> DEFINE M == TickMax + 1
           d == x - y
<1>1. M \in Nat /\ 0 < M /\ d \in Int /\ d < M /\ - M < d
  BY HalfIs
<1> HIDE DEF M, d
<1>2. CASE 0 <= d
  <2>1. d % M = d
    BY <1>1, <1>2
  <2> QED BY <1>2, <2>1, HalfIs DEF Minus, M, d
<1>3. CASE d < 0
  <2>1. d % M = d + M
    BY <1>1, <1>3
  <2> QED BY <1>3, <2>1, HalfIs DEF Minus, M, d
<1> QED BY <1>1, <1>2, <1>3

\* A sum of ticks is that of the numbers, or TickMax + 1 less.
LEMMA PlusIs ==
    ASSUME NEW x \in 0 .. TickMax, NEW y \in 0 .. TickMax
    PROVE  /\ Plus(x, y) \in 0 .. TickMax
           /\ Plus(x, y) = IF x + y <= TickMax THEN x + y
                           ELSE (x + y) - (TickMax + 1)
<1> DEFINE M == TickMax + 1
           d == x + y
<1>1. M \in Nat /\ 0 < M /\ d \in Nat /\ d < M + M
  BY HalfIs
<1> HIDE DEF M, d
<1>2. CASE d < M
  <2>1. d % M = d
    BY <1>1, <1>2
  <2> QED BY <1>2, <2>1, HalfIs DEF Plus, M, d
<1>3. CASE M <= d
  <2>1. d % M = d - M
    BY <1>1, <1>3
  <2> QED BY <1>3, <2>1, HalfIs DEF Plus, M, d
<1> QED BY <1>1, <1>2, <1>3

\* A timer started for n ticks has n ticks left.
LEMMA LeftAtStart ==
    ASSUME NEW x \in 0 .. TickMax, NEW n \in 0 .. TickMax
    PROVE  Plus(x, n) \in 0 .. TickMax /\ Minus(Plus(x, n), x) = n
<1>1. /\ Plus(x, n) \in 0 .. TickMax
      /\ Plus(x, n) = IF x + n <= TickMax THEN x + n ELSE (x + n) - (TickMax + 1)
  BY PlusIs
<1>2. Minus(Plus(x, n), x) = IF x <= Plus(x, n) THEN Plus(x, n) - x
                             ELSE (Plus(x, n) - x) + (TickMax + 1)
  BY <1>1, MinusIs
<1> QED BY <1>1, <1>2, HalfIs

\* A tick takes one off the ticks that are left, if there are any.
LEMMA LeftAfterTick ==
    ASSUME NEW x \in 0 .. TickMax, NEW y \in 0 .. TickMax, Minus(y, x) # 0
    PROVE  /\ Plus(x, 1) \in 0 .. TickMax
           /\ Minus(y, Plus(x, 1)) = Minus(y, x) - 1
<1>0. 1 \in 0 .. TickMax
  BY HalfIs
<1>1. /\ Plus(x, 1) \in 0 .. TickMax
      /\ Plus(x, 1) = IF x + 1 <= TickMax THEN x + 1 ELSE (x + 1) - (TickMax + 1)
  BY <1>0, PlusIs
<1>2. /\ Minus(y, Plus(x, 1)) = IF Plus(x, 1) <= y THEN y - Plus(x, 1)
                                ELSE (y - Plus(x, 1)) + (TickMax + 1)
      /\ Minus(y, x) = IF x <= y THEN y - x ELSE (y - x) + (TickMax + 1)
  BY <1>1, MinusIs
<1> QED BY <1>1, <1>2, HalfIs

\* The comparison of the walk of rt_timer_start is that of the ticks left,
\* when both timers have less than RT_TICK_MAX / 2 of them.
LEMMA LaterIs ==
    ASSUME NEW x \in 0 .. TickMax, NEW y \in 0 .. TickMax, NEW n \in 0 .. Half - 1,
           Minus(y, x) < Half
    PROVE  (LET d == Minus(y, Plus(x, n)) IN d # 0 /\ d < Half) <=> n < Minus(y, x)
<1>0. n \in 0 .. TickMax
  BY HalfIs
<1>1. /\ Plus(x, n) \in 0 .. TickMax
      /\ Plus(x, n) = IF x + n <= TickMax THEN x + n ELSE (x + n) - (TickMax + 1)
  BY <1>0, PlusIs
<1>2. /\ Minus(y, Plus(x, n)) = IF Plus(x, n) <= y THEN y - Plus(x, n)
                                ELSE (y - Plus(x, n)) + (TickMax + 1)
      /\ Minus(y, x) = IF x <= y THEN y - x ELSE (y - x) + (TickMax + 1)
  BY <1>1, MinusIs
<1> QED BY <1>1, <1>2, HalfIs

\* The test of rt_timer_check is that no tick is left.
LEMMA DueIs ==
    ASSUME NEW x \in 0 .. TickMax, NEW y \in 0 .. TickMax, Minus(y, x) < Half
    PROVE  Minus(x, y) < Half <=> Minus(y, x) = 0
<1>1. /\ Minus(y, x) = IF x <= y THEN y - x ELSE (y - x) + (TickMax + 1)
      /\ Minus(x, y) = IF y <= x THEN x - y ELSE (x - y) + (TickMax + 1)
  BY MinusIs
<1> QED BY <1>1, HalfIs

-----------------------------------------------------------------------------
(* The inductive invariant *)

Left == [t \in Timers |-> Remaining(t)]

\* A linked timer has less than RT_TICK_MAX / 2 ticks left, which is what
\* makes differences of ticks comparable, and none is due when the tick
\* interrupt is over.
InTime ==
    \A t \in Members(list) :
        /\ Remaining(t) < Half
        /\ phase = "idle" => Remaining(t) # 0

\* The local list of rt_timer_check: it holds a timer only while the
\* function of that timer runs, the timer is on no other list, and it is
\* active only if it is periodic.
PoppedFires ==
    /\ phase = "callback" <=> firing # NoTimer
    /\ popped => /\ firing # NoTimer /\ ~ Linked(firing)
                 /\ timer[firing].active => timer[firing].periodic

TInv == TypeOK /\ ActiveIsLinked /\ Sorted /\ InTime /\ PoppedFires

\* Every timer has a number of ticks left.
LEMMA LeftType ==
    ASSUME TypeOK
    PROVE  /\ Left \in [Timers -> 0 .. TickMax] /\ Left \in [Timers -> Int]
           /\ \A t \in Timers : Left[t] = Remaining(t) /\ Remaining(t) \in 0 .. TickMax
<1>1. ASSUME NEW t \in Timers PROVE Remaining(t) \in 0 .. TickMax
  <2>1. timer[t].timeout \in 0 .. TickMax /\ tick \in 0 .. TickMax
    BY DEF TypeOK
  <2> QED BY <2>1, MinusIs DEF Remaining
<1>2. \A t \in Timers : Remaining(t) \in Int
  BY <1>1
<1> QED BY <1>1, <1>2 DEF Left

\* rt_timer_start: the timer is on the list, once, in its place, with the
\* ticks it was started for, and nothing changes for the other timers.
LEMMA StartKeeps ==
    ASSUME TInv, NEW t \in Timers, StartTimer(t), tick' = tick
    PROVE  /\ list' \in Seq(Timers) /\ NoDup(list')
           /\ Members(list') = Members(list) \cup {t}
           /\ timer' \in [Timers -> [active : BOOLEAN, periodic : BOOLEAN,
                                     init : InitTicks, timeout : 0 .. TickMax]]
           /\ timer'[t].active /\ Remaining(t)' = timer[t].init
           /\ timer'[t].periodic = timer[t].periodic
           /\ \A u \in Timers : u # t => /\ timer'[u] = timer[u]
                                         /\ Remaining(u)' = Remaining(u)
           /\ Sorted'
           /\ timer[t].init \in 1 .. Half - 1
<1> DEFINE s == Without(list, t)
           n == timer[t].init
           timeout == Plus(tick, n)
           P == {i \in 1 .. Len(s) : /\ Minus(timer[s[i]].timeout, timeout) # 0
                                     /\ Minus(timer[s[i]].timeout, timeout) < Half}
           f == [u \in Timers |-> IF u = t THEN n ELSE Remaining(u)]
<1>1. /\ tick \in 0 .. TickMax /\ list \in Seq(Timers) /\ NoDup(list)
      /\ timer \in [Timers -> [active : BOOLEAN, periodic : BOOLEAN,
                               init : InitTicks, timeout : 0 .. TickMax]]
      /\ TypeOK
  BY DEF TInv, TypeOK, ActiveIsLinked
<1>2. n \in InitTicks /\ n \in 1 .. Half - 1 /\ n \in 0 .. TickMax /\ n \in 0 .. Half - 1
  BY <1>1, HalfIs
<1>3. timeout \in 0 .. TickMax /\ Minus(timeout, tick) = n
  BY <1>1, <1>2, LeftAtStart
<1>4. /\ s \in Seq(Timers) /\ NoDup(s) /\ Members(s) = Members(list) \ {t}
  BY <1>1, MembersWithout
<1> HIDE DEF n
<1>5. /\ list' = InsertAt(s, FirstOf(s, P), t)
      /\ timer' = [timer EXCEPT ![t].timeout = timeout, ![t].active = TRUE]
  BY DEF StartTimer, Unlinked, Position, n
<1> HIDE DEF s, timeout
<1>6. FirstOf(s, P) \in 1 .. Len(s) + 1
  <2>1. P \in SUBSET (1 .. Len(s))
    OBVIOUS
  <2> QED BY <1>4, <2>1, FirstOfIsPosition
<1>7. /\ list' \in Seq(Timers) /\ NoDup(list')
      /\ Members(list') = Members(list) \cup {t}
  <2> HIDE DEF P
  <2>1. /\ list' \in Seq(Timers) /\ Members(list') = Members(s) \cup {t}
        /\ NoDup(s) /\ t \notin Members(s) => NoDup(list')
    BY <1>4, <1>5, <1>6, MembersInsertAt
  <2> QED BY <1>4, <2>1
<1>8. /\ timer' \in [Timers -> [active : BOOLEAN, periodic : BOOLEAN,
                                init : InitTicks, timeout : 0 .. TickMax]]
      /\ timer'[t].active /\ timer'[t].timeout = timeout
      /\ timer'[t].periodic = timer[t].periodic
      /\ \A u \in Timers : u # t => timer'[u] = timer[u]
  BY <1>1, <1>3, <1>5
<1>9. /\ Remaining(t)' = n
      /\ \A u \in Timers : u # t => Remaining(u)' = Remaining(u)
  BY <1>3, <1>8 DEF Remaining
<1>10. Sorted'
  <2>1. f \in [Timers -> Int] /\ Left \in [Timers -> Int] /\ f[t] = n
        /\ \A u \in Timers : u # t => f[u] = Remaining(u) /\ Left[u] = Remaining(u)
    BY <1>1, <1>2, LeftType
  <2>2. f = Left'
    BY <1>9 DEF Left
  <2> HIDE DEF f
  <2>3. Ordered(list, Left)
    BY DEF TInv, Sorted, Left
  <2>4. Ordered(s, Left)
    BY <1>1, <2>3, OrderedWithout DEF s
  <2>5. \A u \in Members(s) : u \in Timers /\ u # t
    BY <1>4, MembersEmpty
  <2>6. Ordered(s, f)
    <3>1. \A u, v \in Members(s) : Left[u] <= Left[v] => f[u] <= f[v]
      BY <2>1, <2>5
    <3> QED BY <1>4, <2>4, <3>1, OrderedAlike
  <2>7. P = {i \in 1 .. Len(s) : f[t] < f[s[i]]}
    <3> SUFFICES ASSUME NEW i \in 1 .. Len(s)
                 PROVE  (LET d == Minus(timer[s[i]].timeout, timeout)
                         IN d # 0 /\ d < Half) <=> f[t] < f[s[i]]
      OBVIOUS
    <3>1. s[i] \in Members(s)
      BY DEF Members
    <3>2. s[i] \in Timers /\ s[i] \in Members(list) /\ f[s[i]] = Remaining(s[i])
      BY <1>4, <2>1, <2>5, <3>1
    <3>3. timer[s[i]].timeout \in 0 .. TickMax /\ Minus(timer[s[i]].timeout, tick) < Half
      BY <1>1, <3>2 DEF TInv, InTime, Remaining
    <3> QED BY <1>1, <1>2, <2>1, <3>2, <3>3, LaterIs DEF Remaining, timeout
  <2>8. Ordered(list', f)
    BY <1>4, <1>5, <2>1, <2>6, <2>7, OrderedInsert
  <2> QED BY <2>2, <2>8 DEF Sorted, Left
<1> QED BY <1>2, <1>7, <1>8, <1>9, <1>10 DEF n

\* _timer_remove: the timer is on the list no more, and the others keep
\* their order.
LEMMA UnlinkKeeps ==
    ASSUME TInv, NEW t \in Timers, list' = Unlinked(list, t), tick' = tick,
           \A u \in Timers : u # t => timer'[u] = timer[u]
    PROVE  /\ list' \in Seq(Timers) /\ NoDup(list')
           /\ Members(list') = Members(list) \ {t}
           /\ \A u \in Timers : u # t => Remaining(u)' = Remaining(u)
           /\ Sorted'
<1>1. /\ list \in Seq(Timers) /\ NoDup(list) /\ Ordered(list, Left)
  BY DEF TInv, TypeOK, ActiveIsLinked, Sorted, Left
<1>2. /\ list' \in Seq(Timers) /\ NoDup(list')
      /\ Members(list') = Members(list) \ {t}
  BY <1>1, MembersWithout DEF Unlinked
<1>3. \A u \in Timers : u # t => Remaining(u)' = Remaining(u)
  BY DEF Remaining
<1>4. Ordered(list', Left)
  BY <1>1, OrderedWithout DEF Unlinked
<1>5. \A u \in Members(list') : u \in Timers /\ u # t
  BY <1>2, MembersEmpty
<1>6. \A u, v \in Members(list') : Left[u] <= Left[v] => Left'[u] <= Left'[v]
  BY <1>3, <1>5 DEF Left
<1>7. Ordered(list', Left')
  BY <1>2, <1>4, <1>6, OrderedAlike
<1> QED BY <1>2, <1>3, <1>7 DEF Sorted, Left

\* Calls by threads, other interrupts and timer functions.
LEMMA StartStep ==
    ASSUME TInv, NEW t \in Timers, Start(t) PROVE TInv'
<1>1. /\ Callable /\ StartTimer(t) /\ popped' = LeavesPopped(t)
      /\ tick' = tick /\ phase' = phase /\ firing' = firing
  BY DEF Start
<1>2. TypeOK /\ TypeOK'
  BY <1>1, StartKeeps DEF TypeOK, TInv, LeavesPopped
<1>3. ActiveIsLinked'
  BY <1>1, StartKeeps DEF ActiveIsLinked, TInv, Linked, LeavesPopped
<1>4. InTime'
  <2> SUFFICES ASSUME NEW u \in Members(list')
               PROVE  Remaining(u)' < Half /\ (phase = "idle" => Remaining(u)' # 0)
    BY <1>1 DEF InTime
  <2>1. u \in Timers
    BY <1>2, MembersEmpty DEF TypeOK
  <2>2. CASE u = t
    <3>1. Remaining(u)' \in 1 .. Half - 1
      BY <1>1, <2>2, StartKeeps
    <3> QED BY <3>1, HalfIs
  <2>3. CASE u # t
    <3>1. u \in Members(list) /\ Remaining(u)' = Remaining(u)
      BY <1>1, <2>1, <2>3, StartKeeps
    <3> QED BY <3>1 DEF TInv, InTime
  <2> QED BY <2>2, <2>3
<1>5. PoppedFires'
  <2>1. /\ Members(list') = Members(list) \cup {t}
        /\ \A u \in Timers : u # t => timer'[u] = timer[u]
    BY <1>1, StartKeeps
  <2>2. firing # NoTimer => firing \in Timers
    BY <1>2 DEF TypeOK
  <2> QED BY <1>1, <2>1, <2>2 DEF TInv, PoppedFires, Linked, LeavesPopped
<1> QED BY <1>1, <1>2, <1>3, <1>4, <1>5, StartKeeps DEF TInv

\* A call that takes the timer off its list, and changes only that timer.
LEMMA RemovingStep ==
    ASSUME TInv, NEW t \in Timers, list' = Unlinked(list, t),
           popped' = LeavesPopped(t),
           tick' = tick, phase' = phase, firing' = firing,
           timer' \in [Timers -> [active : BOOLEAN, periodic : BOOLEAN,
                                  init : InitTicks, timeout : 0 .. TickMax]],
           ~ timer'[t].active,
           \A u \in Timers : u # t => timer'[u] = timer[u]
    PROVE  TInv'
<1>1. /\ list' \in Seq(Timers) /\ NoDup(list')
      /\ Members(list') = Members(list) \ {t}
      /\ \A u \in Timers : u # t => Remaining(u)' = Remaining(u)
      /\ Sorted'
  BY UnlinkKeeps
<1>2. TypeOK /\ TypeOK'
  BY <1>1 DEF TypeOK, TInv, LeavesPopped
<1>3. ActiveIsLinked'
  BY <1>1 DEF ActiveIsLinked, TInv, Linked, LeavesPopped
<1>4. InTime'
  <2>1. \A u \in Members(list') : u \in Timers /\ u # t /\ u \in Members(list)
    BY <1>1, MembersEmpty
  <2> QED BY <1>1, <2>1 DEF TInv, InTime
<1>5. PoppedFires'
  BY <1>1, <1>2 DEF TInv, TypeOK, PoppedFires, Linked, LeavesPopped
<1> QED BY <1>1, <1>2, <1>3, <1>4, <1>5 DEF TInv

\* rt_timer_stop, and the deletion and renewal of a timer, remove it.
LEMMA StopStep ==
    ASSUME TInv, NEW t \in Timers, Stop(t) \/ Renew(t) PROVE TInv'
<1>1. timer \in [Timers -> [active : BOOLEAN, periodic : BOOLEAN,
                            init : InitTicks, timeout : 0 .. TickMax]]
      /\ 0 \in 0 .. TickMax
  BY HalfIs DEF TInv, TypeOK
<1>2. CASE Stop(t)
  <2>1. /\ list' = Unlinked(list, t) /\ popped' = LeavesPopped(t)
        /\ timer' = [timer EXCEPT ![t].active = FALSE]
        /\ tick' = tick /\ phase' = phase /\ firing' = firing
    BY <1>2 DEF Stop, StopTimer
  <2>2. /\ timer' \in [Timers -> [active : BOOLEAN, periodic : BOOLEAN,
                                  init : InitTicks, timeout : 0 .. TickMax]]
        /\ ~ timer'[t].active
        /\ \A u \in Timers : u # t => timer'[u] = timer[u]
    BY <1>1, <2>1
  <2> QED BY <2>1, <2>2, RemovingStep
<1>3. CASE Renew(t)
  <2>1. PICK init \in InitTicks, periodic \in BOOLEAN :
           timer' = [timer EXCEPT ![t] = [active |-> FALSE,
                        periodic |-> periodic, init |-> init, timeout |-> 0]]
    BY <1>3 DEF Renew
  <2>2. /\ list' = Unlinked(list, t) /\ popped' = LeavesPopped(t)
        /\ tick' = tick /\ phase' = phase /\ firing' = firing
    BY <1>3 DEF Renew
  <2>3. /\ timer' \in [Timers -> [active : BOOLEAN, periodic : BOOLEAN,
                                  init : InitTicks, timeout : 0 .. TickMax]]
        /\ ~ timer'[t].active
        /\ \A u \in Timers : u # t => timer'[u] = timer[u]
    BY <1>1, <2>1
  <2> QED BY <2>2, <2>3, RemovingStep
<1> QED BY <1>2, <1>3

\* rt_timer_control.
LEMMA ControlStep ==
    ASSUME TInv, NEW t \in Timers,
           \/ \E n \in InitTicks : SetTime(t, n)
           \/ \E p \in BOOLEAN : SetPeriodic(t, p)
    PROVE  /\ TInv'
           /\ list' = list /\ tick' = tick /\ firing' = firing
           /\ \A u \in Timers : timer'[u].timeout = timer[u].timeout
<1>1. /\ list' = list /\ tick' = tick /\ firing' = firing /\ phase' = phase
      /\ popped' = popped
      /\ \/ \E n \in InitTicks : timer' = [timer EXCEPT ![t].init = n]
         \/ \E p \in BOOLEAN : /\ p \/ ~ popped \/ firing # t
                               /\ timer' = [timer EXCEPT ![t].periodic = p]
  BY DEF SetTime, SetPeriodic
<1>2. timer \in [Timers -> [active : BOOLEAN, periodic : BOOLEAN,
                            init : InitTicks, timeout : 0 .. TickMax]]
      /\ TypeOK
  BY DEF TInv, TypeOK
<1>3. /\ timer' \in [Timers -> [active : BOOLEAN, periodic : BOOLEAN,
                                init : InitTicks, timeout : 0 .. TickMax]]
      /\ \A u \in Timers : /\ timer'[u].timeout = timer[u].timeout
                           /\ timer'[u].active = timer[u].active
      /\ \A u \in Timers : popped /\ firing = u /\ timer[u].periodic =>
                              timer'[u].periodic
  BY <1>1, <1>2
<1>4. TypeOK'
  BY <1>1, <1>2, <1>3 DEF TypeOK
<1>5. \A u \in Timers : Remaining(u)' = Remaining(u)
  BY <1>1, <1>3 DEF Remaining
<1>6. Left' = Left
  BY <1>5 DEF Left
<1>7. ActiveIsLinked'
  BY <1>1, <1>3 DEF TInv, ActiveIsLinked, Linked
<1>8. Sorted'
  BY <1>1, <1>6 DEF TInv, Sorted, Left
<1>9. InTime'
  <2>1. \A u \in Members(list) : u \in Timers
    BY <1>2, MembersEmpty DEF TypeOK
  <2> QED BY <1>1, <1>5, <2>1 DEF TInv, InTime
<1>10. PoppedFires'
  BY <1>1, <1>2, <1>3 DEF TInv, TypeOK, PoppedFires, Linked
<1> QED BY <1>1, <1>3, <1>4, <1>7, <1>8, <1>9, <1>10 DEF TInv

-----------------------------------------------------------------------------
(* The tick interrupt *)

\* ++ rt_tick: every linked timer has one tick less left, none of them had
\* none.
LEMMA TickKeeps ==
    ASSUME TInv, TickIncrease
    PROVE  /\ TInv'
           /\ \A t \in Members(list) : /\ t \in Timers /\ Remaining(t) # 0
                                       /\ Remaining(t) \in 0 .. TickMax
                                       /\ Remaining(t)' = Remaining(t) - 1
<1>1. /\ phase = "idle" /\ tick' = Plus(tick, 1) /\ phase' = "tick"
      /\ timer' = timer /\ list' = list /\ firing' = firing /\ popped' = popped
  BY DEF TickIncrease
<1>2. TypeOK /\ tick \in 0 .. TickMax /\ 1 \in 0 .. TickMax
  BY HalfIs DEF TInv, TypeOK
<1>3. TypeOK'
  BY <1>1, <1>2, PlusIs DEF TypeOK
<1>4. ASSUME NEW t \in Members(list)
      PROVE  /\ t \in Timers /\ Remaining(t) # 0 /\ Remaining(t) < Half
             /\ Remaining(t) \in 0 .. TickMax
             /\ Remaining(t)' = Remaining(t) - 1
  <2>1. t \in Timers
    BY <1>2, MembersEmpty DEF TypeOK
  <2>2. Remaining(t) # 0 /\ Remaining(t) < Half /\ Remaining(t) \in 0 .. TickMax
    BY <1>1, <1>2, <2>1, LeftType DEF TInv, InTime
  <2>3. timer[t].timeout \in 0 .. TickMax
    BY <1>2, <2>1 DEF TypeOK
  <2>4. Remaining(t)' = Remaining(t) - 1
    BY <1>1, <1>2, <2>2, <2>3, LeftAfterTick DEF Remaining
  <2> QED BY <2>1, <2>2, <2>4
<1>5. ActiveIsLinked' /\ PoppedFires'
  BY <1>1 DEF TInv, ActiveIsLinked, PoppedFires, Linked
<1>6. InTime'
  <2> SUFFICES ASSUME NEW t \in Members(list) PROVE Remaining(t)' < Half
    BY <1>1 DEF InTime
  <2> QED BY <1>4, HalfIs
<1>7. Sorted'
  <2>1. Ordered(list, Left) /\ list \in Seq(Timers)
    BY <1>2 DEF TInv, TypeOK, Sorted, Left
  <2>2. ASSUME NEW t \in Members(list), NEW u \in Members(list), Left[t] <= Left[u]
        PROVE  Left'[t] <= Left'[u]
    <3>1. /\ Left[t] = Remaining(t) /\ Left'[t] = Remaining(t) - 1
          /\ Left[u] = Remaining(u) /\ Left'[u] = Remaining(u) - 1
      BY <1>4 DEF Left
    <3>2. Remaining(t) \in Int /\ Remaining(u) \in Int
      BY <1>4
    <3> QED BY <2>2, <3>1, <3>2
  <2>3. Ordered(list, Left')
    BY <2>1, <2>2, OrderedAlike
  <2> QED BY <1>1, <2>3 DEF Sorted, Left
<1> QED BY <1>3, <1>4, <1>5, <1>6, <1>7 DEF TInv

\* Looking at the first timer tells whether any is due.
LEMMA FirstIsDue ==
    ASSUME TInv
    PROVE  /\ Due => /\ list # <<>> /\ Head(list) \in Timers
                     /\ Head(list) \in Members(list) /\ Remaining(Head(list)) = 0
           /\ ~ Due => \A t \in Members(list) : Remaining(t) # 0
<1>1. /\ list \in Seq(Timers) /\ tick \in 0 .. TickMax /\ TypeOK
  BY DEF TInv, TypeOK
<1>2. ASSUME list # <<>>
      PROVE  /\ Head(list) \in Timers /\ Head(list) \in Members(list)
             /\ Minus(tick, timer[Head(list)].timeout) < Half <=>
                   Remaining(Head(list)) = 0
  <2>1. Head(list) \in Timers /\ Head(list) \in Members(list)
    BY <1>1, <1>2, MembersTail
  <2>2. timer[Head(list)].timeout \in 0 .. TickMax /\ Remaining(Head(list)) < Half
    BY <1>1, <2>1 DEF TypeOK, TInv, InTime
  <2> QED BY <1>1, <2>1, <2>2, DueIs DEF Remaining
<1>3. ASSUME ~ Due, NEW t \in Members(list) PROVE Remaining(t) # 0
  <2>1. list # <<>> /\ t \in Timers
    BY <1>1, MembersEmpty
  <2>2. Remaining(Head(list)) # 0 /\ Head(list) \in Timers
    BY <1>2, <1>3, <2>1 DEF Due
  <2>3. Left \in [Timers -> Int] /\ Ordered(list, Left)
    BY <1>1, LeftType DEF TInv, Sorted, Left
  <2>4. Left[Head(list)] <= Left[t]
    BY <1>1, <2>1, <2>3, OrderedTail
  <2>5. /\ Remaining(Head(list)) <= Remaining(t)
        /\ Remaining(Head(list)) \in 0 .. TickMax /\ Remaining(t) \in 0 .. TickMax
    BY <1>1, <2>1, <2>2, <2>4, LeftType
  <2> QED BY <2>2, <2>5, HalfIs
<1> QED BY <1>2, <1>3 DEF Due

\* A timer that is due moves to the local list and its function is called.
LEMMA FireKeeps ==
    ASSUME TInv, Fire
    PROVE  /\ TInv' /\ tick' = tick
           /\ Head(list) \in Timers /\ Remaining(Head(list)) = 0
           /\ Head(list) \in Members(list)
           /\ Members(list') = Members(list) \ {Head(list)}
           /\ \A t \in Timers : Remaining(t)' = Remaining(t)
<1> DEFINE h == Head(list)
           a == timer[h].active /\ timer[h].periodic
<1>1. /\ phase = "check" /\ Due /\ firing' = h /\ popped' = TRUE
      /\ list' = Tail(list) /\ phase' = "callback" /\ tick' = tick
      /\ timer' = [timer EXCEPT ![h].active = a]
  BY DEF Fire
<1>2. list # <<>> /\ h \in Timers /\ h \in Members(list) /\ Remaining(h) = 0
  BY <1>1, FirstIsDue
<1>3. /\ list \in Seq(Timers) /\ NoDup(list) /\ TypeOK /\ h # NoTimer
      /\ timer \in [Timers -> [active : BOOLEAN, periodic : BOOLEAN,
                               init : InitTicks, timeout : 0 .. TickMax]]
  BY <1>2, NoTimerAssumption DEF TInv, TypeOK, ActiveIsLinked
<1>4. /\ list' \in Seq(Timers) /\ NoDup(list')
      /\ Members(list') = Members(list) \ {h}
  BY <1>1, <1>2, <1>3, MembersTail
<1> HIDE DEF h
<1>5. /\ timer' \in [Timers -> [active : BOOLEAN, periodic : BOOLEAN,
                                init : InitTicks, timeout : 0 .. TickMax]]
      /\ \A t \in Timers : timer'[t].timeout = timer[t].timeout
      /\ \A t \in Timers : t # h => timer'[t] = timer[t]
      /\ timer'[h].active => timer'[h].periodic
  BY <1>1, <1>2, <1>3
<1>6. TypeOK'
  BY <1>1, <1>2, <1>3, <1>4, <1>5 DEF TypeOK
<1>7. \A t \in Timers : Remaining(t)' = Remaining(t)
  BY <1>1, <1>5 DEF Remaining
<1>8. ActiveIsLinked'
  <2>1. PoppedFires /\ firing = NoTimer /\ ~ popped
    BY <1>1 DEF TInv, PoppedFires
  <2> QED BY <1>1, <1>4, <1>5, <2>1 DEF TInv, ActiveIsLinked, Linked
<1>9. Sorted'
  <2>1. Left' = Left /\ Left \in [Timers -> Int] /\ Ordered(list, Left)
    BY <1>3, <1>7, LeftType DEF TInv, Sorted, Left
  <2>2. Ordered(list', Left)
    BY <1>1, <1>2, <1>3, <2>1, OrderedTail
  <2> QED BY <2>1, <2>2 DEF Sorted, Left
<1>10. InTime'
  <2>1. \A t \in Members(list') : t \in Timers /\ t \in Members(list)
    BY <1>4, MembersEmpty
  <2> QED BY <1>1, <1>7, <2>1 DEF TInv, InTime
<1>11. PoppedFires'
  BY <1>1, <1>2, <1>3, <1>4, <1>5 DEF PoppedFires, Linked
<1> QED BY <1>1, <1>2, <1>4, <1>6, <1>7, <1>8, <1>9, <1>10, <1>11 DEF TInv, h

\* A timer function returns.
LEMMA ReturnKeeps ==
    ASSUME TInv, Return
    PROVE  /\ TInv' /\ firing \in Timers
           /\ \/ StartTimer(firing)
              \/ timer' = timer /\ list' = list
           /\ tick' = tick
<1>1. /\ phase = "callback" /\ phase' = "check" /\ popped' = FALSE
      /\ firing' = NoTimer /\ tick' = tick
      /\ IF popped /\ timer[firing].periodic /\ timer[firing].active
         THEN StartTimer(firing) ELSE timer' = timer /\ list' = list
  BY DEF Return
<1>2. /\ TypeOK /\ firing \in Timers /\ PoppedFires
  BY <1>1 DEF TInv, PoppedFires, TypeOK
<1>3. PoppedFires'
  BY <1>1 DEF PoppedFires
<1>4. CASE StartTimer(firing)
  <2>1. TypeOK'
    BY <1>1, <1>2, <1>4, StartKeeps DEF TypeOK
  <2>2. ActiveIsLinked'
    BY <1>1, <1>2, <1>4, StartKeeps DEF ActiveIsLinked, TInv, Linked
  <2>3. InTime'
    <3> SUFFICES ASSUME NEW u \in Members(list') PROVE Remaining(u)' < Half
      BY <1>1 DEF InTime
    <3>1. u \in Timers
      BY <2>1, MembersEmpty DEF TypeOK
    <3>2. CASE u = firing
      <4>1. Remaining(u)' \in 1 .. Half - 1
        BY <1>1, <1>2, <1>4, <3>2, StartKeeps
      <4> QED BY <4>1, HalfIs
    <3>3. CASE u # firing
      <4>1. u \in Members(list) /\ Remaining(u)' = Remaining(u)
        BY <1>1, <1>2, <1>4, <3>1, <3>3, StartKeeps
      <4> QED BY <4>1 DEF TInv, InTime
    <3> QED BY <3>2, <3>3
  <2>4. Sorted'
    BY <1>1, <1>2, <1>4, StartKeeps
  <2> QED BY <1>1, <1>2, <1>3, <1>4, <2>1, <2>2, <2>3, <2>4 DEF TInv
<1>5. CASE timer' = timer /\ list' = list
      /\ ~ (popped /\ timer[firing].periodic /\ timer[firing].active)
  <2>1. TypeOK'
    BY <1>1, <1>2, <1>5 DEF TypeOK
  <2>2. popped => ~ timer[firing].active
    BY <1>2, <1>5 DEF PoppedFires
  <2>3. ActiveIsLinked'
    BY <1>1, <1>5, <2>2 DEF TInv, ActiveIsLinked, Linked
  <2>4. Sorted' /\ InTime'
    BY <1>1, <1>5 DEF TInv, Sorted, InTime, Remaining
  <2> QED BY <1>1, <1>2, <1>3, <1>5, <2>1, <2>3, <2>4 DEF TInv
<1> QED BY <1>1, <1>4, <1>5

\* rt_timer_check begins and ends.
LEMMA CheckStep ==
    ASSUME TInv, CheckBegin \/ CheckEnd PROVE TInv'
<1>1. /\ tick' = tick /\ timer' = timer /\ list' = list /\ firing' = firing
      /\ popped' = popped /\ phase' \in {"check", "idle"} /\ phase # "callback"
      /\ phase' = "idle" => ~ Due
  BY DEF CheckBegin, CheckEnd
<1>2. TypeOK' /\ ActiveIsLinked' /\ Sorted' /\ PoppedFires'
  BY <1>1 DEF TInv, TypeOK, ActiveIsLinked, Sorted, PoppedFires, Linked, Remaining
<1>3. InTime'
  BY <1>1, FirstIsDue DEF TInv, InTime, Remaining
<1> QED BY <1>2, <1>3 DEF TInv

-----------------------------------------------------------------------------
(* The theorems *)

\* No timer is started at first.
LEMMA InitTInv == Init => TInv
<1> SUFFICES ASSUME Init PROVE TInv
  OBVIOUS
<1>1. Members(list) = {} /\ NoDup(list) /\ list \in Seq(Timers)
  BY DEF Init, Members, NoDup
<1>2. TypeOK
  <2>1. 0 \in 0 .. TickMax
    BY TickMaxAssumption
  <2>2. timer \in [Timers -> [active : BOOLEAN, periodic : BOOLEAN,
                              init : InitTicks, timeout : 0 .. TickMax]]
    BY <2>1 DEF Init
  <2> QED BY <1>1, <2>1, <2>2 DEF Init, TypeOK
<1>3. ActiveIsLinked /\ InTime /\ PoppedFires
  BY <1>1 DEF Init, ActiveIsLinked, InTime, PoppedFires, Linked
<1>4. Sorted
  BY DEF Init, Sorted, Ordered
<1> QED BY <1>2, <1>3, <1>4 DEF TInv

\* Every step of the tick interrupt and every call of the timer API keeps it.
LEMMA NextTInv == ASSUME TInv, [Next]_vars PROVE TInv'
<1>1. CASE \E t \in Timers : Start(t)
  BY <1>1, StartStep
<1>2. CASE \E t \in Timers : Stop(t) \/ Renew(t)
  BY <1>2, StopStep
<1>3. CASE \E t \in Timers : \/ \E n \in InitTicks : SetTime(t, n)
                             \/ \E p \in BOOLEAN : SetPeriodic(t, p)
  BY <1>3, ControlStep
<1>4. CASE TickIncrease
  BY <1>4, TickKeeps
<1>5. CASE Fire
  BY <1>5, FireKeeps
<1>6. CASE Return
  BY <1>6, ReturnKeeps
<1>7. CASE CheckBegin \/ CheckEnd
  BY <1>7, CheckStep
<1>8. CASE UNCHANGED vars
  BY <1>8 DEF vars, TInv, TypeOK, ActiveIsLinked, Sorted, InTime, PoppedFires,
              Linked, Remaining
<1> QED BY <1>1, <1>2, <1>3, <1>4, <1>5, <1>6, <1>7, <1>8 DEF Next, TickStep

\* The inductive invariant holds in every reachable state.
THEOREM AlwaysTInv == Spec => []TInv
<1>1. TInv /\ [Next]_vars => TInv'
  BY NextTInv
<1> QED BY <1>1, InitTInv, PTL DEF Spec

\* The tick, the fields of the timers and the timer list keep their types.
THEOREM TimerTypeCorrect == Spec => []TypeOK
<1>1. TInv => TypeOK
  BY DEF TInv
<1> QED BY <1>1, AlwaysTInv, PTL

\* RT_TIMER_FLAG_ACTIVATED tells whether a timer is on the list, whatever
\* timer functions, threads and interrupts start, stop or delete.
THEOREM ActiveAlwaysLinked == Spec => []ActiveIsLinked
<1>1. TInv => ActiveIsLinked
  BY DEF TInv
<1> QED BY <1>1, AlwaysTInv, PTL

\* The timer list is sorted by the ticks that are left, for every width of
\* the tick counter and across its wrap-around.
THEOREM AlwaysSorted == Spec => []Sorted
<1>1. TInv => Sorted
  BY DEF TInv
<1> QED BY <1>1, AlwaysTInv, PTL


-----------------------------------------------------------------------------
(* The service keeps its promise *)

\* What Promise sees of the timers: the ticks that are left of each.
Shown == [t \in Timers |-> IF Linked(t) THEN Remaining(t) ELSE -1]

\* If one timer changes, its entry is all that changes.
LEMMA ShownExcept ==
    ASSUME TInv, NEW t \in Timers, NEW n,
           \A u \in Timers : u # t => /\ Remaining(u)' = Remaining(u)
                                      /\ Linked(u)' <=> Linked(u),
           n = IF Linked(t)' THEN Remaining(t)' ELSE -1
    PROVE  Shown' = [Shown EXCEPT ![t] = n]
BY DEF Shown

\* rt_timer_start starts the countdown.
LEMMA StartShown ==
    ASSUME TInv, NEW t \in Timers, StartTimer(t), tick' = tick
    PROVE  \E n \in 1 .. Half - 1 : Shown' = [Shown EXCEPT ![t] = n]
<1>1. /\ Members(list') = Members(list) \cup {t}
      /\ Remaining(t)' = timer[t].init /\ timer[t].init \in 1 .. Half - 1
      /\ \A u \in Timers : u # t => Remaining(u)' = Remaining(u)
  BY StartKeeps
<1>2. Linked(t)' /\ \A u \in Timers : u # t => (Linked(u)' <=> Linked(u))
  BY <1>1 DEF Linked
<1>3. Shown' = [Shown EXCEPT ![t] = timer[t].init]
  BY <1>1, <1>2, ShownExcept
<1> QED BY <1>1, <1>3

\* Nothing is shown of a step that moves no timer.
LEMMA StutterShown ==
    ASSUME list' = list, tick' = tick,
           \A t \in Timers : timer'[t].timeout = timer[t].timeout
    PROVE  Shown' = Shown
BY DEF Shown, Linked, Remaining

\* rt_timer_stop, and the removal of a timer, end the countdown.
LEMMA StopShown ==
    ASSUME TInv, NEW t \in Timers, Stop(t) \/ Renew(t)
    PROVE  Shown' = [Shown EXCEPT ![t] = -1] /\ firing' = firing
<1>1. /\ list' = Unlinked(list, t) /\ tick' = tick /\ firing' = firing
      /\ \A u \in Timers : u # t => timer'[u] = timer[u]
  BY DEF Stop, Renew, StopTimer, TInv, TypeOK
<1>2. /\ Members(list') = Members(list) \ {t}
      /\ \A u \in Timers : u # t => Remaining(u)' = Remaining(u)
  BY <1>1, UnlinkKeeps
<1>3. ~ Linked(t)' /\ \A u \in Timers : u # t => (Linked(u)' <=> Linked(u))
  BY <1>2 DEF Linked
<1> QED BY <1>1, <1>2, <1>3, ShownExcept

\* A tick takes one off every countdown.
LEMMA TickShown ==
    ASSUME TInv, TickIncrease
    PROVE  /\ firing = NoTimer /\ firing' = firing
           /\ \A t \in Timers : Shown[t] # 0
           /\ Shown' = [t \in Timers |-> IF Shown[t] = -1 THEN -1 ELSE Shown[t] - 1]
<1>1. /\ phase = "idle" /\ list' = list /\ firing' = firing
  BY DEF TickIncrease
<1>2. firing = NoTimer
  BY <1>1 DEF TInv, PoppedFires
<1>3. ASSUME NEW t \in Timers
      PROVE  /\ Shown[t] # 0
             /\ Shown'[t] = IF Shown[t] = -1 THEN -1 ELSE Shown[t] - 1
  <2>1. CASE Linked(t)
    <3>1. /\ Remaining(t) # 0 /\ Remaining(t) \in 0 .. TickMax
          /\ Remaining(t)' = Remaining(t) - 1
      BY <2>1, TickKeeps DEF Linked
    <3>2. Linked(t)'
      BY <1>1, <2>1 DEF Linked
    <3>3. Shown[t] = Remaining(t) /\ Shown'[t] = Remaining(t)'
      BY <2>1, <3>2 DEF Shown
    <3> QED BY <3>1, <3>3, HalfIs
  <2>2. CASE ~ Linked(t)
    <3>1. Shown[t] = -1 /\ Shown'[t] = -1
      BY <1>1, <2>2 DEF Shown, Linked
    <3> QED BY <3>1
  <2> QED BY <2>1, <2>2
<1>4. Shown' = [t \in Timers |-> Shown'[t]]
  BY DEF Shown
<1> QED BY <1>1, <1>2, <1>3, <1>4

\* A timer fires when no tick is left of its countdown.
LEMMA FireShown ==
    ASSUME TInv, Fire
    PROVE  /\ firing = NoTimer /\ firing' = Head(list) /\ Head(list) \in Timers
           /\ Shown[Head(list)] = 0
           /\ Shown' = [Shown EXCEPT ![Head(list)] = -1]
<1>1. /\ Head(list) \in Timers /\ Remaining(Head(list)) = 0
      /\ Head(list) \in Members(list)
      /\ Members(list') = Members(list) \ {Head(list)}
      /\ \A t \in Timers : Remaining(t)' = Remaining(t)
  BY FireKeeps
<1>2. firing = NoTimer /\ firing' = Head(list)
  BY DEF Fire, TInv, PoppedFires
<1>3. Shown[Head(list)] = 0
  BY <1>1 DEF Shown, Linked
<1>4. Shown' = [Shown EXCEPT ![Head(list)] = -1]
  BY <1>1 DEF Shown, Linked
<1> QED BY <1>1, <1>2, <1>3, <1>4


\* The end of a timer function starts at most the countdown of its timer.
LEMMA ReturnShown ==
    ASSUME TInv, Return
    PROVE  /\ firing # NoTimer /\ firing' = NoTimer
           /\ \/ Shown' = Shown
              \/ \E n \in 1 .. Half - 1 : Shown' = [Shown EXCEPT ![firing] = n]
<1>1. /\ firing \in Timers /\ tick' = tick
      /\ StartTimer(firing) \/ (timer' = timer /\ list' = list)
  BY ReturnKeeps
<1>2. firing # NoTimer /\ firing' = NoTimer
  BY <1>1, NoTimerAssumption DEF Return
<1>3. CASE StartTimer(firing)
  <2>1. PICK t \in Timers : t = firing
    BY <1>1
  <2>2. StartTimer(t)
    BY <1>3, <2>1 DEF StartTimer
  <2> QED BY <1>1, <1>2, <2>1, <2>2, StartShown
<1>4. CASE timer' = timer /\ list' = list
  BY <1>1, <1>2, <1>4, StutterShown
<1> QED BY <1>1, <1>3, <1>4

\* Every step of the timers is a step that Countdown allows.
LEMMA NextShown ==
    ASSUME TInv, [Next]_vars
    PROVE  [Promise!CountdownNext]_<<Shown, firing>>
<1> USE DEF Promise!CountdownNext
<1>1. CASE \E t \in Timers : Start(t)
  <2>1. PICK t \in Timers : Start(t)
    BY <1>1
  <2>2. StartTimer(t) /\ tick' = tick /\ firing' = firing
    BY <2>1 DEF Start
  <2>3. Promise!Start(t)
    BY <2>2, StartShown DEF Promise!Start, Promise!Started, Shown
  <2> QED BY <2>3
<1>2. CASE \E t \in Timers : Stop(t) \/ Renew(t)
  <2>1. PICK t \in Timers : Stop(t) \/ Renew(t)
    BY <1>2
  <2>2. Promise!Stop(t)
    BY <2>1, StopShown DEF Promise!Stop, Promise!Off, Shown
  <2> QED BY <2>2
<1>3. CASE \E t \in Timers : \/ \E n \in InitTicks : SetTime(t, n)
                             \/ \E p \in BOOLEAN : SetPeriodic(t, p)
  <2>1. /\ list' = list /\ tick' = tick /\ firing' = firing
        /\ \A u \in Timers : timer'[u].timeout = timer[u].timeout
    BY <1>3, ControlStep
  <2> QED BY <2>1, StutterShown
<1>4. CASE TickIncrease
  <2>1. Promise!Tick
    BY <1>4, TickShown DEF Promise!Tick, Promise!Off, Shown
  <2> QED BY <2>1
<1>5. CASE Fire
  <2>1. PICK t \in Timers : t = Head(list)
    BY <1>5, FireShown
  <2>2. Promise!Fire(t)
    BY <1>5, <2>1, FireShown DEF Promise!Fire, Promise!Off, Shown
  <2> QED BY <2>2
<1>6. CASE Return
  <2>1. Promise!Return
    BY <1>6, ReturnShown DEF Promise!Return, Promise!Started, Shown
  <2> QED BY <2>1
<1>7. CASE CheckBegin \/ CheckEnd
  <2>1. list' = list /\ tick' = tick /\ firing' = firing /\ timer' = timer
    BY <1>7 DEF CheckBegin, CheckEnd
  <2> QED BY <2>1, StutterShown
<1>8. CASE UNCHANGED vars
  <2>1. list' = list /\ tick' = tick /\ firing' = firing /\ timer' = timer
    BY <1>8 DEF vars
  <2> QED BY <2>1, StutterShown
<1> QED BY <1>1, <1>2, <1>3, <1>4, <1>5, <1>6, <1>7, <1>8 DEF Next, TickStep

\* The timer service implements Countdown: the function of a timer runs at
\* the tick it was started for, never early, never late and never twice,
\* whatever the width of the tick counter and wherever it wraps around.
THEOREM AlwaysOnTime == Spec => FiresOnTime
<1>1. Init => Promise!CountdownInit
  <2> SUFFICES ASSUME Init PROVE Promise!CountdownInit
    OBVIOUS
  <2>1. \A t \in Timers : ~ Linked(t)
    BY DEF Init, Linked, Members
  <2> QED BY <2>1 DEF Init, Promise!CountdownInit, Promise!Off
<1>2. TInv /\ [Next]_vars => [Promise!CountdownNext]_<<Shown, firing>>
  BY NextShown
<1> QED BY <1>1, <1>2, AlwaysTInv, PTL
        DEF Spec, FiresOnTime, Promise!CountdownSpec, Shown
=============================================================================
