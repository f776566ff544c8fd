---------------------------- MODULE KernelLemmas ----------------------------
(***************************************************************************)
(* What each operation of module Kernel does to the consistency of the     *)
(* kernel's lists.  A thread that an operation moves is on no list for a   *)
(* moment: ListsOff(k, t) is what holds then.                              *)
(***************************************************************************)
EXTENDS Kernel, ListLemmas

\* The lists agree with the states of the threads.
Lists(k) ==
    /\ ReadyConsistent(k)
    /\ WaitConsistent(k)
    /\ TimersConsistent(k)
    /\ DefunctConsistent(k)

\* The same for every thread but t, which is on no list; its timer may be
\* active.
ListsOff(k, t) ==
    /\ \A p \in Priority :
          /\ NoDup(k.ready[p])
          /\ Members(k.ready[p]) =
                {u \in Thread : u # t /\ k.stat[u] = "ready" /\ k.prio[u] = p}
    /\ k.group = {p \in Priority : k.ready[p] # <<>>}
    /\ \A w \in WaitList :
          /\ NoDup(k.wait[w])
          /\ \A u \in Members(k.wait[w]) :
                /\ u # t /\ k.stat[u] = "suspend"
                /\ \A v \in WaitList \ {w} : u \notin Members(k.wait[v])
    /\ NoDup(k.timers)
    /\ \A u \in Members(k.timers) : u # t => k.stat[u] = "suspend"
    /\ NoDup(k.defunct)
    /\ \A u \in Members(k.defunct) : u # t /\ k.stat[u] = "close"

\* k and n differ at most in the lists threads are linked into.
SameThreads(k, n) ==
    /\ n.stat = k.stat /\ n.yield = k.yield /\ n.prio = k.prio
    /\ n.error = k.error /\ n.slice = k.slice /\ n.current = k.current
    /\ n.lock = k.lock /\ n.timers = k.timers /\ n.left = k.left

\* rt_list_remove(&thread->tlist): the thread leaves every list.
LEMMA UnlinkLists ==
    ASSUME NEW k \in KernelState, NEW t \in Thread, Lists(k)
    PROVE  LET n == Unlink(k, t)
           IN  /\ n \in KernelState /\ SameThreads(k, n) /\ n.group = k.group
               /\ \A p \in Priority :
                     /\ NoDup(n.ready[p])
                     /\ Members(n.ready[p]) = Members(k.ready[p]) \ {t}
                     /\ t \notin Members(k.ready[p]) => n.ready[p] = k.ready[p]
               /\ \A w \in WaitList :
                     /\ NoDup(n.wait[w])
                     /\ Members(n.wait[w]) = Members(k.wait[w]) \ {t}
               /\ NoDup(n.defunct)
               /\ Members(n.defunct) = Members(k.defunct) \ {t}
<1> DEFINE n == Unlink(k, t)
<1>1. ASSUME NEW p \in Priority
      PROVE  /\ Without(k.ready[p], t) \in Seq(Thread)
             /\ NoDup(Without(k.ready[p], t))
             /\ Members(Without(k.ready[p], t)) = Members(k.ready[p]) \ {t}
             /\ t \notin Members(k.ready[p]) => Without(k.ready[p], t) = k.ready[p]
  <2>1. k.ready[p] \in Seq(Thread) /\ NoDup(k.ready[p])
    BY DEF Lists, ReadyConsistent, KernelState
  <2> QED BY <2>1, MembersWithout
<1>2. ASSUME NEW w \in WaitList
      PROVE  /\ Without(k.wait[w], t) \in Seq(Thread)
             /\ NoDup(Without(k.wait[w], t))
             /\ Members(Without(k.wait[w], t)) = Members(k.wait[w]) \ {t}
  <2>1. k.wait[w] \in Seq(Thread) /\ NoDup(k.wait[w])
    BY DEF Lists, WaitConsistent, KernelState
  <2> QED BY <2>1, MembersWithout
<1>3. /\ Without(k.defunct, t) \in Seq(Thread)
      /\ NoDup(Without(k.defunct, t))
      /\ Members(Without(k.defunct, t)) = Members(k.defunct) \ {t}
  <2>1. k.defunct \in Seq(Thread) /\ NoDup(k.defunct)
    BY DEF Lists, DefunctConsistent, KernelState
  <2> QED BY <2>1, MembersWithout
<1>4. /\ n \in KernelState /\ SameThreads(k, n) /\ n.group = k.group
      /\ \A p \in Priority : n.ready[p] = Without(k.ready[p], t)
      /\ \A w \in WaitList : n.wait[w] = Without(k.wait[w], t)
      /\ n.defunct = Without(k.defunct, t)
  BY <1>1, <1>2, <1>3 DEF Unlink, KernelState, SameThreads
<1> HIDE DEF n
<1> QED
  BY <1>1, <1>2, <1>3, <1>4 DEF n

\* The lists with t taken off them, in terms of the threads' states.
LEMMA TakenOff ==
    ASSUME NEW k \in KernelState, NEW t \in Thread, Lists(k),
           NEW n \in KernelState, SameThreads(k, n),
           n.group = {p \in Priority : n.ready[p] # <<>>},
           \A p \in Priority :
               /\ NoDup(n.ready[p])
               /\ Members(n.ready[p]) = Members(k.ready[p]) \ {t},
           \A w \in WaitList :
               /\ NoDup(n.wait[w])
               /\ Members(n.wait[w]) = Members(k.wait[w]) \ {t},
           NoDup(n.defunct), Members(n.defunct) = Members(k.defunct) \ {t}
    PROVE  ListsOff(n, t)
<1>1. n.stat = k.stat /\ n.prio = k.prio /\ n.timers = k.timers
  BY DEF SameThreads
<1>2. \A p \in Priority :
         Members(n.ready[p]) =
            {u \in Thread : u # t /\ n.stat[u] = "ready" /\ n.prio[u] = p}
  BY <1>1 DEF Lists, ReadyConsistent
<1>3. ASSUME NEW w \in WaitList, NEW u \in Members(n.wait[w])
      PROVE  /\ u # t /\ n.stat[u] = "suspend"
             /\ \A v \in WaitList \ {w} : u \notin Members(n.wait[v])
  <2>1. u \in Members(k.wait[w]) /\ u # t
    OBVIOUS
  <2>2. k.stat[u] = "suspend"
    BY <2>1 DEF Lists, WaitConsistent
  <2>3. ASSUME NEW v \in WaitList \ {w} PROVE u \notin Members(n.wait[v])
    <3>1. u \notin Members(k.wait[v])
      BY <2>1 DEF Lists, WaitConsistent
    <3> QED BY <3>1
  <2> QED BY <1>1, <2>1, <2>2, <2>3
<1>4. /\ NoDup(n.timers)
      /\ \A u \in Members(n.timers) : u # t => n.stat[u] = "suspend"
  BY <1>1 DEF Lists, TimersConsistent
<1>5. \A u \in Members(n.defunct) : u # t /\ n.stat[u] = "close"
  BY <1>1 DEF Lists, DefunctConsistent
<1> QED
  BY <1>2, <1>3, <1>4, <1>5 DEF ListsOff

\* rt_list_remove(&thread->tlist) of a thread that is not on a ready list.
LEMMA UnlinkOff ==
    ASSUME NEW k \in KernelState, NEW t \in Thread, Lists(k), k.stat[t] # "ready"
    PROVE  LET n == Unlink(k, t)
           IN  n \in KernelState /\ ListsOff(n, t) /\ SameThreads(k, n)
<1> DEFINE n == Unlink(k, t)
<1>1. /\ n \in KernelState /\ SameThreads(k, n) /\ n.group = k.group
      /\ \A p \in Priority :
            /\ NoDup(n.ready[p])
            /\ Members(n.ready[p]) = Members(k.ready[p]) \ {t}
            /\ t \notin Members(k.ready[p]) => n.ready[p] = k.ready[p]
      /\ \A w \in WaitList :
            /\ NoDup(n.wait[w])
            /\ Members(n.wait[w]) = Members(k.wait[w]) \ {t}
      /\ NoDup(n.defunct)
      /\ Members(n.defunct) = Members(k.defunct) \ {t}
  BY UnlinkLists
<1> HIDE DEF n
<1>2. n.group = {p \in Priority : n.ready[p] # <<>>}
  <2>1. ASSUME NEW p \in Priority PROVE n.ready[p] = k.ready[p]
    <3>1. t \notin Members(k.ready[p])
      BY DEF Lists, ReadyConsistent
    <3> QED BY <1>1, <3>1
  <2>2. k.group = {p \in Priority : k.ready[p] # <<>>}
    BY DEF Lists, ReadyConsistent
  <2> QED BY <1>1, <2>1, <2>2
<1>3. /\ \A p \in Priority :
            /\ NoDup(n.ready[p])
            /\ Members(n.ready[p]) = Members(k.ready[p]) \ {t}
      /\ \A w \in WaitList :
            /\ NoDup(n.wait[w])
            /\ Members(n.wait[w]) = Members(k.wait[w]) \ {t}
  BY <1>1
<1>4. ListsOff(n, t)
  BY <1>1, <1>2, <1>3, TakenOff, Zenon
<1> QED
  BY <1>1, <1>4 DEF n

\* rt_schedule_remove_thread takes any thread off its list and keeps the
\* bitmap exact.
LEMMA RemoveOff ==
    ASSUME NEW k \in KernelState, NEW t \in Thread, Lists(k)
    PROVE  LET n == rt_schedule_remove_thread(k, t)
           IN  n \in KernelState /\ ListsOff(n, t) /\ SameThreads(k, n)
<1> DEFINE u == Unlink(k, t)
           n == rt_schedule_remove_thread(k, t)
<1>1. /\ u \in KernelState /\ SameThreads(k, u) /\ u.group = k.group
      /\ \A p \in Priority :
            /\ NoDup(u.ready[p])
            /\ Members(u.ready[p]) = Members(k.ready[p]) \ {t}
            /\ t \notin Members(k.ready[p]) => u.ready[p] = k.ready[p]
      /\ \A w \in WaitList :
            /\ NoDup(u.wait[w])
            /\ Members(u.wait[w]) = Members(k.wait[w]) \ {t}
      /\ NoDup(u.defunct)
      /\ Members(u.defunct) = Members(k.defunct) \ {t}
  BY UnlinkLists
<1> HIDE DEF u
<1>2. k.prio[t] \in Priority
  BY DEF KernelState
<1>3. /\ n \in KernelState /\ SameThreads(k, n)
      /\ n.group = IF u.ready[k.prio[t]] = <<>> THEN k.group \ {k.prio[t]}
                                               ELSE k.group
      /\ n.ready = u.ready /\ n.wait = u.wait /\ n.defunct = u.defunct
  BY <1>1, <1>2 DEF rt_schedule_remove_thread, u, KernelState, SameThreads
<1> HIDE DEF n
<1>4. \A p \in Priority : p \in n.group <=> n.ready[p] # <<>>
  <2> SUFFICES ASSUME NEW p \in Priority PROVE p \in n.group <=> n.ready[p] # <<>>
    OBVIOUS
  <2>1. p \in k.group <=> k.ready[p] # <<>>
    BY DEF Lists, ReadyConsistent
  <2>2. CASE p # k.prio[t]
    <3>1. t \notin Members(k.ready[p])
      BY <2>2 DEF Lists, ReadyConsistent
    <3> QED BY <1>1, <1>3, <2>1, <2>2, <3>1
  <2>3. CASE p = k.prio[t]
    <3>1. k.ready[p] \in Seq(Thread)
      BY DEF KernelState
    <3>2. k.ready[p] = <<>> => t \notin Members(k.ready[p])
      BY <3>1, MembersEmpty
    <3>3. n.ready[p] # <<>> => k.ready[p] # <<>>
      BY <1>1, <1>3, <3>2
    <3> QED BY <1>3, <2>1, <2>3, <3>3
  <2> QED BY <2>2, <2>3
<1>5. n.group \subseteq Priority
  BY <1>3 DEF KernelState
<1>6. n.group = {p \in Priority : n.ready[p] # <<>>}
  BY <1>4, <1>5
<1>7. /\ \A p \in Priority :
            /\ NoDup(n.ready[p])
            /\ Members(n.ready[p]) = Members(k.ready[p]) \ {t}
      /\ \A w \in WaitList :
            /\ NoDup(n.wait[w])
            /\ Members(n.wait[w]) = Members(k.wait[w]) \ {t}
      /\ NoDup(n.defunct)
      /\ Members(n.defunct) = Members(k.defunct) \ {t}
  BY <1>1, <1>3
<1>8. ListsOff(n, t)
  BY <1>3, <1>6, <1>7, TakenOff
<1> QED
  BY <1>3, <1>8 DEF n

\* A thread that is on no list changes its state, and stays on none.
LEMMA StatOff ==
    ASSUME NEW k \in KernelState, NEW t \in Thread, ListsOff(k, t),
           NEW x \in Stat \ {"ready"},
           x = "suspend" \/ t \notin Members(k.timers),
           NEW n \in KernelState, n.stat = [k.stat EXCEPT ![t] = x],
           n.prio = k.prio, n.ready = k.ready, n.group = k.group,
           n.wait = k.wait, n.timers = k.timers, n.defunct = k.defunct
    PROVE  Lists(n)
<1>1. \A u \in Thread : n.stat[u] = IF u = t THEN x ELSE k.stat[u]
  BY DEF KernelState
<1>2. ReadyConsistent(n)
  BY <1>1 DEF ListsOff, ReadyConsistent
<1>3. WaitConsistent(n)
  <2> SUFFICES ASSUME NEW w \in WaitList
               PROVE  /\ NoDup(n.wait[w])
                      /\ \A u \in Members(n.wait[w]) :
                            /\ n.stat[u] = "suspend"
                            /\ \A v \in WaitList \ {w} : u \notin Members(n.wait[v])
    BY DEF WaitConsistent
  <2>1. Members(k.wait[w]) \subseteq Thread
    BY MembersEmpty DEF KernelState
  <2>2. NoDup(n.wait[w]) /\ t \notin Members(k.wait[w])
    BY DEF ListsOff
  <2>3. ASSUME NEW u \in Members(n.wait[w])
        PROVE  /\ n.stat[u] = "suspend"
               /\ \A v \in WaitList \ {w} : u \notin Members(n.wait[v])
    <3>1. u \in Members(k.wait[w]) /\ u # t /\ u \in Thread
      BY <2>1, <2>2
    <3>2. /\ k.stat[u] = "suspend"
          /\ \A v \in WaitList \ {w} : u \notin Members(k.wait[v])
      BY <3>1 DEF ListsOff
    <3> QED BY <1>1, <3>1, <3>2
  <2> QED BY <2>2, <2>3
<1>4. TimersConsistent(n)
  <2>1. Members(k.timers) \subseteq Thread
    BY MembersEmpty DEF KernelState
  <2> QED BY <1>1, <2>1 DEF ListsOff, TimersConsistent
<1>5. DefunctConsistent(n)
  <2>1. Members(k.defunct) \subseteq Thread
    BY MembersEmpty DEF KernelState
  <2> QED BY <1>1, <2>1 DEF ListsOff, DefunctConsistent
<1> QED
  BY <1>2, <1>3, <1>4, <1>5 DEF Lists

\* rt_schedule_insert_thread of a thread that is not the current one puts it
\* on the ready list of its priority.
LEMMA InsertReady ==
    ASSUME NEW k \in KernelState, NEW t \in Thread, ListsOff(k, t),
           t \notin Members(k.timers), t # k.current
    PROVE  LET n == rt_schedule_insert_thread(k, t)
           IN  /\ n \in KernelState /\ Lists(n)
               /\ n.stat = [k.stat EXCEPT ![t] = "ready"]
               /\ n.prio = k.prio /\ n.current = k.current /\ n.lock = k.lock
               /\ n.timers = k.timers
<1> DEFINE n == rt_schedule_insert_thread(k, t)
           p0 == k.prio[t]
<1>1. p0 \in Priority /\ k.ready[p0] \in Seq(Thread)
  BY DEF KernelState
<1>2. /\ Append(k.ready[p0], t) \in Seq(Thread)
      /\ Members(Append(k.ready[p0], t)) = Members(k.ready[p0]) \cup {t}
      /\ NoDup(Append(k.ready[p0], t))
      /\ Append(k.ready[p0], t) # <<>>
  <2>1. NoDup(k.ready[p0]) /\ t \notin Members(k.ready[p0])
    BY <1>1 DEF ListsOff
  <2> QED BY <1>1, <2>1, MembersAppend
<1>3. /\ n \in KernelState
      /\ n.stat = [k.stat EXCEPT ![t] = "ready"]
      /\ n.prio = k.prio /\ n.current = k.current /\ n.lock = k.lock
      /\ n.timers = k.timers /\ n.wait = k.wait /\ n.defunct = k.defunct
      /\ n.group = k.group \cup {p0}
      /\ \A p \in Priority :
            n.ready[p] = IF p = p0 THEN Append(k.ready[p0], t) ELSE k.ready[p]
  BY <1>1, <1>2 DEF rt_schedule_insert_thread, KernelState, Stat
<1>4. \A u \in Thread : n.stat[u] = IF u = t THEN "ready" ELSE k.stat[u]
  BY <1>3 DEF KernelState
<1> HIDE DEF n
<1>5. ReadyConsistent(n)
  <2>1. ASSUME NEW p \in Priority
        PROVE  /\ NoDup(n.ready[p])
               /\ Members(n.ready[p]) =
                     {u \in Thread : n.stat[u] = "ready" /\ n.prio[u] = p}
               /\ p \in n.group <=> n.ready[p] # <<>>
    <3>1. /\ NoDup(k.ready[p])
          /\ Members(k.ready[p]) =
                {u \in Thread : u # t /\ k.stat[u] = "ready" /\ k.prio[u] = p}
          /\ p \in k.group <=> k.ready[p] # <<>>
      BY DEF ListsOff
    <3>2. CASE p = p0
      <4>1. NoDup(n.ready[p]) /\ p \in n.group /\ n.ready[p] # <<>>
        BY <1>1, <1>2, <1>3, <3>2
      <4>2. Members(n.ready[p]) = Members(k.ready[p]) \cup {t}
        BY <1>2, <1>3, <3>2
      <4>3. n.prio[t] = p
        BY <1>3, <3>2
      <4> QED BY <1>3, <1>4, <3>1, <4>1, <4>2, <4>3
    <3>3. CASE p # p0
      BY <1>3, <1>4, <3>1, <3>3
    <3> QED BY <3>2, <3>3
  <2>2. n.group \subseteq Priority
    BY <1>3 DEF KernelState
  <2> QED BY <2>1, <2>2 DEF ReadyConsistent
<1>6. WaitConsistent(n)
  <2> SUFFICES ASSUME NEW w \in WaitList
               PROVE  /\ NoDup(n.wait[w])
                      /\ \A u \in Members(n.wait[w]) :
                            /\ n.stat[u] = "suspend"
                            /\ \A v \in WaitList \ {w} : u \notin Members(n.wait[v])
    BY DEF WaitConsistent
  <2>1. Members(k.wait[w]) \subseteq Thread
    BY MembersEmpty DEF KernelState
  <2> QED BY <1>3, <1>4, <2>1 DEF ListsOff
<1>7. TimersConsistent(n)
  <2>1. Members(k.timers) \subseteq Thread
    BY MembersEmpty DEF KernelState
  <2> QED BY <1>3, <1>4, <2>1 DEF ListsOff, TimersConsistent
<1>8. DefunctConsistent(n)
  <2>1. Members(k.defunct) \subseteq Thread
    BY MembersEmpty DEF KernelState
  <2> QED BY <1>3, <1>4, <2>1 DEF ListsOff, DefunctConsistent
<1> QED
  BY <1>3, <1>5, <1>6, <1>7, <1>8 DEF Lists, n

\* The lists depend on the states and priorities of the threads only.
LEMMA ListsSame ==
    ASSUME NEW k, NEW n, Lists(k),
           n.stat = k.stat, n.prio = k.prio, n.ready = k.ready,
           n.group = k.group, n.wait = k.wait, n.timers = k.timers,
           n.defunct = k.defunct
    PROVE  Lists(n)
BY DEF Lists, ReadyConsistent, WaitConsistent, TimersConsistent, DefunctConsistent

\* A running or freshly initialised thread is on no list.
LEMMA UnlistedOff ==
    ASSUME NEW k \in KernelState, NEW t \in Thread, Lists(k),
           k.stat[t] \in {"running", "init"}
    PROVE  ListsOff(k, t) /\ t \notin Members(k.timers)
BY DEF Lists, ListsOff, ReadyConsistent, WaitConsistent, TimersConsistent,
       DefunctConsistent

Sound(k) == k \in KernelState /\ Consistent(k)

\* Soundness by parts.
LEMMA SoundParts ==
    ASSUME NEW k
    PROVE  Sound(k) <=> /\ k \in KernelState /\ Lists(k)
                        /\ CurrentConsistent(k) /\ IdleConsistent(k)
BY DEF Sound, Consistent, Lists

\* rt_schedule when the current thread goes on.
LEMMA StaySound ==
    ASSUME NEW k, Sound(k), k.stat[k.current] = "running"
    PROVE  LET n == Stay(k)
           IN  /\ Sound(n) /\ n.stat = k.stat /\ n.prio = k.prio
               /\ n.current = k.current /\ n.lock = k.lock
<1> DEFINE c  == k.current
           k1 == [k EXCEPT !.yield[c] = FALSE]
           r  == rt_schedule_remove_thread(k1, c)
           n  == [r EXCEPT !.stat[c] = "running"]
<1>0. /\ k \in KernelState /\ Lists(k) /\ CurrentConsistent(k)
      /\ IdleConsistent(k) /\ c \in Thread
  BY SoundParts DEF KernelState
<1>1. /\ k1 \in KernelState
      /\ k1.stat = k.stat /\ k1.prio = k.prio /\ k1.ready = k.ready
      /\ k1.group = k.group /\ k1.wait = k.wait /\ k1.timers = k.timers
      /\ k1.defunct = k.defunct /\ k1.current = c /\ k1.lock = k.lock
  BY <1>0 DEF KernelState
<1>2. Lists(k1)
  BY <1>0, <1>1, ListsSame
<1> HIDE DEF k1
<1>3. r \in KernelState /\ ListsOff(r, c) /\ SameThreads(k1, r)
  BY <1>0, <1>1, <1>2, RemoveOff
<1> HIDE DEF r
<1>4. /\ n \in KernelState /\ n.stat = [r.stat EXCEPT ![c] = "running"]
      /\ n.prio = r.prio /\ n.ready = r.ready /\ n.group = r.group
      /\ n.wait = r.wait /\ n.timers = r.timers /\ n.defunct = r.defunct
      /\ n.current = r.current /\ n.lock = r.lock
  BY <1>0, <1>3 DEF KernelState, Stat
<1>5. c \notin Members(r.timers)
  BY <1>0, <1>1, <1>3 DEF Lists, TimersConsistent, SameThreads
<1> HIDE DEF n
<1>6. Lists(n)
  BY <1>0, <1>3, <1>4, <1>5, StatOff DEF Stat
<1>7. /\ n.stat = k.stat /\ n.current = k.current
      /\ n.prio = k.prio /\ n.lock = k.lock
  BY <1>0, <1>1, <1>3, <1>4 DEF SameThreads, KernelState
<1>8. CurrentConsistent(n) /\ IdleConsistent(n)
  BY <1>0, <1>7 DEF CurrentConsistent, IdleConsistent
<1>9. Stay(k) = n
  BY DEF Stay, n, r, k1
<1> QED
  BY <1>4, <1>6, <1>7, <1>8, <1>9, SoundParts

\* The most urgent ready thread exists, is ready and is not the current one.
LEMMA HighestIsReady ==
    ASSUME NEW k, Sound(k), k.group # {}
    PROVE  /\ HighestThread(k) \in Thread
           /\ k.stat[HighestThread(k)] = "ready"
           /\ HighestThread(k) # k.current
           /\ HighestPriority(k) = k.prio[HighestThread(k)]
           /\ \A t \in Thread : k.stat[t] = "ready" => HighestPriority(k) <= k.prio[t]
<1> DEFINE p == HighestPriority(k)
<1>0. k \in KernelState /\ Lists(k) /\ CurrentConsistent(k)
  BY SoundParts
<1>1. p \in k.group /\ \A q \in k.group : p <= q
  <2>1. k.group \in SUBSET Nat
    BY <1>0, PrioritiesAssumption DEF KernelState, Priority
  <2> QED BY <2>1, MinIsLeast DEF HighestPriority
<1> HIDE DEF p
<1>2. p \in Priority /\ k.ready[p] # <<>> /\ k.ready[p] \in Seq(Thread)
  BY <1>0, <1>1 DEF KernelState, Lists, ReadyConsistent
<1>3. Head(k.ready[p]) \in Thread /\ Head(k.ready[p]) \in Members(k.ready[p])
  BY <1>2, MembersTail
<1>4. HighestThread(k) = Head(k.ready[p])
  BY DEF HighestThread, p
<1>5. /\ HighestThread(k) \in Thread
      /\ k.stat[HighestThread(k)] = "ready"
      /\ p = k.prio[HighestThread(k)]
  BY <1>0, <1>2, <1>3, <1>4 DEF Lists, ReadyConsistent
<1>6. HighestThread(k) # k.current
  BY <1>0, <1>5 DEF CurrentConsistent
<1>7. ASSUME NEW t \in Thread, k.stat[t] = "ready" PROVE p <= k.prio[t]
  <2>1. k.prio[t] \in Priority
    BY <1>0 DEF KernelState
  <2>2. t \in Members(k.ready[k.prio[t]])
    BY <1>0, <1>7, <2>1 DEF Lists, ReadyConsistent
  <2>3. k.ready[k.prio[t]] # <<>>
    BY <1>0, <2>1, <2>2, MembersEmpty DEF KernelState
  <2> QED BY <1>0, <1>1, <2>1, <2>3 DEF Lists, ReadyConsistent
<1> QED
  BY <1>5, <1>6, <1>7 DEF p

\* rt_schedule when the processor goes to the most urgent ready thread.
LEMMA SwitchToSound ==
    ASSUME NEW k, Sound(k), k.group # {}
    PROVE  LET n == SwitchTo(k)
           IN  /\ Sound(n) /\ n.prio = k.prio
               /\ n.current = HighestThread(k) /\ n.lock = k.lock
               /\ \A t \in Thread : n.stat[t] =
                     IF t = HighestThread(k) THEN "running"
                     ELSE IF t = k.current /\ k.stat[t] = "running" THEN "ready"
                     ELSE k.stat[t]
<1> DEFINE from == k.current
           to   == HighestThread(k)
           k1   == [k EXCEPT !.yield[from] = IF k.stat[from] = "running"
                                             THEN FALSE ELSE @,
                             !.current = to]
           k2   == IF k.stat[from] = "running"
                   THEN rt_schedule_insert_thread(k1, from) ELSE k1
           r    == rt_schedule_remove_thread(k2, to)
           n    == [r EXCEPT !.stat[to] = "running"]
<1>0. /\ k \in KernelState /\ Lists(k) /\ CurrentConsistent(k)
      /\ IdleConsistent(k) /\ from \in Thread
  BY SoundParts DEF KernelState
<1>1. to \in Thread /\ k.stat[to] = "ready" /\ to # from
  BY HighestIsReady
<1> HIDE DEF to
<1>2. /\ k1 \in KernelState
      /\ k1.stat = k.stat /\ k1.prio = k.prio /\ k1.ready = k.ready
      /\ k1.group = k.group /\ k1.wait = k.wait /\ k1.timers = k.timers
      /\ k1.defunct = k.defunct /\ k1.current = to /\ k1.lock = k.lock
  BY <1>0, <1>1 DEF KernelState
<1> HIDE DEF k1
<1>3. Lists(k1)
  BY <1>0, <1>2, ListsSame
<1>4. /\ k2 \in KernelState /\ Lists(k2) /\ k2.current = to
      /\ k2.timers = k.timers /\ k2.lock = k.lock /\ k2.prio = k.prio
      /\ k2.stat = IF k.stat[from] = "running"
                   THEN [k.stat EXCEPT ![from] = "ready"] ELSE k.stat
  <2>1. CASE k.stat[from] = "running"
    <3>1. ListsOff(k1, from) /\ from \notin Members(k1.timers)
      BY <1>0, <1>2, <1>3, <2>1, UnlistedOff
    <3> QED BY <1>0, <1>1, <1>2, <2>1, <3>1, InsertReady
  <2>2. CASE k.stat[from] # "running"
    BY <1>2, <1>3, <2>2
  <2> QED BY <2>1, <2>2
<1> HIDE DEF k2
<1>5. r \in KernelState /\ ListsOff(r, to) /\ SameThreads(k2, r)
  BY <1>1, <1>4, RemoveOff
<1> HIDE DEF r
<1>6. /\ n \in KernelState /\ n.stat = [r.stat EXCEPT ![to] = "running"]
      /\ n.prio = r.prio /\ n.ready = r.ready /\ n.group = r.group
      /\ n.wait = r.wait /\ n.timers = r.timers /\ n.defunct = r.defunct
      /\ n.current = r.current /\ n.lock = r.lock
  BY <1>1, <1>5 DEF KernelState, Stat
<1>7. to \notin Members(r.timers)
  BY <1>0, <1>1, <1>4, <1>5 DEF Lists, TimersConsistent, SameThreads
<1> HIDE DEF n
<1>8. Lists(n)
  BY <1>1, <1>5, <1>6, <1>7, StatOff DEF Stat
<1>9. /\ n.current = to /\ n.lock = k.lock /\ n.prio = k.prio
      /\ n.stat = [k2.stat EXCEPT ![to] = "running"]
  BY <1>4, <1>5, <1>6 DEF SameThreads
<1>10. \A t \in Thread : n.stat[t] =
            IF t = to THEN "running"
            ELSE IF t = from /\ k.stat[from] = "running" THEN "ready"
            ELSE k.stat[t]
  <2>1. k.stat \in [Thread -> Stat]
    BY <1>0 DEF KernelState
  <2>2. CASE k.stat[from] = "running"
    <3>1. n.stat = [[k.stat EXCEPT ![from] = "ready"] EXCEPT ![to] = "running"]
      BY <1>4, <1>9, <2>2
    <3> QED BY <1>0, <1>1, <2>1, <2>2, <3>1
  <2>3. CASE k.stat[from] # "running"
    <3>1. n.stat = [k.stat EXCEPT ![to] = "running"]
      BY <1>4, <1>9, <2>3
    <3> QED BY <1>0, <1>1, <2>1, <2>3, <3>1
  <2> QED BY <2>2, <2>3
<1>11. CurrentConsistent(n) /\ IdleConsistent(n)
  BY <1>0, <1>1, <1>9, <1>10, IdleAssumption DEF CurrentConsistent, IdleConsistent
<1>12. SwitchTo(k) = n
  BY DEF SwitchTo, n, r, k2, k1, to
<1> QED
  BY <1>6, <1>8, <1>9, <1>10, <1>11, <1>12, SoundParts DEF to

\* Threads only pass between ready and running.
Preempts(k, n) ==
    \A t \in Thread : \/ n.stat[t] = k.stat[t]
                      \/ {k.stat[t], n.stat[t]} \subseteq {"ready", "running"}

\* rt_schedule keeps the kernel sound; it does nothing while the scheduler
\* is locked and runs a most urgent thread when it is not.
LEMMA ScheduleSound ==
    ASSUME NEW k, Sound(k)
    PROVE  LET n == rt_schedule(k)
           IN  /\ Sound(n) /\ n.prio = k.prio /\ n.lock = k.lock
               /\ Preempts(k, n)
               /\ k.lock # 0 => n = k
               /\ k.lock = 0 => MostUrgentRuns(n)
<1>0. /\ k \in KernelState /\ Lists(k) /\ CurrentConsistent(k)
      /\ IdleConsistent(k) /\ k.current \in Thread
      /\ k.prio \in [Thread -> Priority]
  BY SoundParts DEF KernelState
<1>1. CASE k.lock # 0
  BY <1>1 DEF rt_schedule, Preempts
<1>2. CASE k.lock = 0 /\ k.group = {}
  <2>1. \A t \in Thread : k.stat[t] # "ready"
    <3> SUFFICES ASSUME NEW t \in Thread, k.stat[t] = "ready" PROVE FALSE
      OBVIOUS
    <3>1. k.prio[t] \in Priority /\ k.ready[k.prio[t]] \in Seq(Thread)
      BY <1>0 DEF KernelState
    <3>2. t \in Members(k.ready[k.prio[t]]) /\ k.ready[k.prio[t]] = <<>>
      BY <1>0, <1>2, <3>1 DEF Lists, ReadyConsistent
    <3> QED BY <3>1, <3>2, MembersEmpty
  <2>2. MostUrgentRuns(k)
    BY <1>0, <2>1, IdleAssumption
    DEF IdleConsistent, CurrentConsistent, MostUrgentRuns
  <2> QED BY <1>2, <2>2 DEF rt_schedule, Preempts
<1>3. CASE k.lock = 0 /\ k.group # {} /\ KeepsRunning(k)
  <2> DEFINE n == Stay(k)
  <2>1. /\ Sound(n) /\ n.stat = k.stat /\ n.prio = k.prio
        /\ n.current = k.current /\ n.lock = k.lock
    BY <1>3, StaySound DEF KeepsRunning
  <2>2. rt_schedule(k) = n
    BY <1>3 DEF rt_schedule
  <2> HIDE DEF n
  <2>3. MostUrgentRuns(n)
    <3>1. HighestPriority(k) \in Priority
      BY <1>0, <1>3, HighestIsReady
    <3>2. \A t \in Thread : k.stat[t] = "ready" => HighestPriority(k) <= k.prio[t]
      BY <1>3, HighestIsReady
    <3>3. k.prio[k.current] <= HighestPriority(k)
      BY <1>0, <1>3, <3>1, PrioritiesAssumption DEF KeepsRunning, Priority
    <3> QED BY <1>0, <1>3, <2>1, <3>1, <3>2, <3>3, PrioritiesAssumption
            DEF MostUrgentRuns, KeepsRunning, Priority
  <2> QED BY <1>3, <2>1, <2>2, <2>3 DEF Preempts
<1>4. CASE k.lock = 0 /\ k.group # {} /\ ~ KeepsRunning(k)
  <2> DEFINE n  == SwitchTo(k)
             to == HighestThread(k)
  <2>1. /\ Sound(n) /\ n.prio = k.prio
        /\ n.current = to /\ n.lock = k.lock
        /\ \A t \in Thread : n.stat[t] =
              IF t = to THEN "running"
              ELSE IF t = k.current /\ k.stat[t] = "running" THEN "ready"
              ELSE k.stat[t]
    BY <1>4, SwitchToSound
  <2>2. rt_schedule(k) = n
    BY <1>4 DEF rt_schedule
  <2>3. /\ to \in Thread /\ k.stat[to] = "ready"
        /\ HighestPriority(k) = k.prio[to]
        /\ \A t \in Thread : k.stat[t] = "ready" => k.prio[to] <= k.prio[t]
    BY <1>4, HighestIsReady
  <2> HIDE DEF n, to
  <2>4. k.stat[k.current] = "running" => k.prio[to] <= k.prio[k.current]
    BY <1>0, <1>4, <2>3, PrioritiesAssumption DEF KeepsRunning, Priority
  <2>5. MostUrgentRuns(n)
    BY <2>1, <2>3, <2>4 DEF MostUrgentRuns
  <2>6. Preempts(k, n)
    BY <2>1, <2>3 DEF Preempts
  <2> QED BY <1>4, <2>1, <2>2, <2>5, <2>6
<1> QED BY <1>1, <1>2, <1>3, <1>4

-----------------------------------------------------------------------------
(* Every operation of module Kernel keeps the kernel sound, and what it does *)
(* to the states of the threads.                                            *)

\* k and n have the same current thread, scheduler lock and priorities.
SameCurrent(k, n) ==
    n.current = k.current /\ n.lock = k.lock /\ n.prio = k.prio

-----------------------------------------------------------------------------
(* What the operations do to the suspend lists and to thread->error *)

\* The suspend lists and the threads' errors are the same in k and n.
SameWaits(k, n) == n.wait = k.wait /\ n.error = k.error

\* t is on no suspend list.
OffWaits(k, t) == \A w \in WaitList : t \notin Members(k.wait[w])

\* t is taken off the suspend lists, in whatever order they are.
WaitsWithout(k, t) == [w \in WaitList |-> Without(k.wait[w], t)]

\* A thread that is on no suspend list is not taken off one.
LEMMA OffStays ==
    ASSUME NEW k \in KernelState, NEW t, OffWaits(k, t)
    PROVE  WaitsWithout(k, t) = k.wait
<1>1. k.wait \in [WaitList -> Seq(Thread)]
  BY DEF KernelState
<1>2. \A w \in WaitList : Without(k.wait[w], t) = k.wait[w]
  BY DEF OffWaits, Without
<1> QED BY <1>1, <1>2 DEF WaitsWithout

\* Only suspended threads are on a suspend list.
LEMMA AwakeOff ==
    ASSUME NEW k, Sound(k), NEW t, k.stat[t] # "suspend"
    PROVE  OffWaits(k, t)
BY DEF Sound, Consistent, WaitConsistent, OffWaits

\* rt_list_remove and rt_schedule_remove_thread.
LEMMA RemoveWaits ==
    ASSUME NEW k \in KernelState, NEW t \in Thread
    PROVE  /\ Unlink(k, t).wait = WaitsWithout(k, t)
           /\ Unlink(k, t).error = k.error
           /\ rt_schedule_remove_thread(k, t).wait = WaitsWithout(k, t)
           /\ rt_schedule_remove_thread(k, t).error = k.error
BY DEF Unlink, rt_schedule_remove_thread, WaitsWithout, KernelState

\* rt_schedule_insert_thread, rt_timer_stop and rt_timer_start.
LEMMA InsertWaits ==
    ASSUME NEW k \in KernelState, NEW t \in Thread, NEW d
    PROVE  /\ SameWaits(k, rt_schedule_insert_thread(k, t))
           /\ SameWaits(k, rt_timer_stop(k, t))
           /\ SameWaits(k, rt_timer_start(k, t, d))
BY DEF rt_schedule_insert_thread, rt_timer_stop, rt_timer_start, SameWaits,
       KernelState


\* rt_thread_suspend of a thread that waits for nothing.
LEMMA SuspendWaits ==
    ASSUME NEW k \in KernelState, NEW t \in Thread, OffWaits(k, t)
    PROVE  SameWaits(k, rt_thread_suspend(k, t))
<1>1. WaitsWithout(k, t) = k.wait
  BY OffStays
<1> QED BY <1>1 DEF rt_thread_suspend, rt_timer_stop, rt_schedule_remove_thread,
           Unlink, WaitsWithout, SameWaits, KernelState

\* rt_thread_resume of a suspended thread ends its wait.
LEMMA ResumeWaits ==
    ASSUME NEW k \in KernelState, NEW t \in Thread, k.stat[t] = "suspend"
    PROVE  /\ rt_thread_resume(k, t).wait = WaitsWithout(k, t)
           /\ rt_thread_resume(k, t).error = k.error
BY DEF rt_thread_resume, ResumeBody, rt_timer_stop, rt_schedule_insert_thread,
       Unlink, WaitsWithout, KernelState

\* rt_thread_control(RT_THREAD_CTRL_CHANGE_PRIORITY), where only a thread
\* that is ready is moved.
LEMMA ChangePriorityWaits ==
    ASSUME NEW k, Sound(k), NEW t \in Thread, NEW p \in Priority
    PROVE  /\ SameWaits(k, ChangePriority(k, t, p))
           /\ ChangePriority(k, t, p).prio = [k.prio EXCEPT ![t] = p]
<1>1. k \in KernelState
  BY DEF Sound
<1>2. CASE k.stat[t] = "ready"
  <2>1. WaitsWithout(k, t) = k.wait
    BY <1>1, <1>2, AwakeOff, OffStays
  <2> QED BY <1>1, <1>2, <2>1 DEF ChangePriority, rt_schedule_insert_thread,
      rt_schedule_remove_thread, Unlink, WaitsWithout, SameWaits, KernelState
<1>3. CASE k.stat[t] # "ready"
  BY <1>1, <1>3 DEF ChangePriority, SameWaits, KernelState
<1> QED BY <1>2, <1>3

\* rt_thread_delete and _thread_exit.
LEMMA BuryWaits ==
    ASSUME NEW k \in KernelState, NEW t \in Thread, OffWaits(k, t)
    PROVE  SameWaits(k, _thread_exit(k, t))
<1>1. WaitsWithout(k, t) = k.wait
  BY OffStays
<1> QED BY <1>1 DEF _thread_exit, Bury, rt_timer_stop, rt_schedule_remove_thread,
           Unlink, WaitsWithout, SameWaits, KernelState

\* rt_schedule moves threads that are ready or running only.
LEMMA ScheduleWaits ==
    ASSUME NEW k, Sound(k)
    PROVE  SameWaits(k, rt_schedule(k))
<1> DEFINE c == k.current
           h == HighestThread(k)
<1>1. k \in KernelState /\ c \in Thread
  BY DEF Sound, KernelState
<1>2. ASSUME KeepsRunning(k) PROVE SameWaits(k, Stay(k))
  <2>1. WaitsWithout(k, c) = k.wait
    BY <1>1, <1>2, AwakeOff, OffStays DEF KeepsRunning
  <2> QED BY <1>1, <2>1 DEF Stay, rt_schedule_remove_thread, Unlink, WaitsWithout,
             SameWaits, KernelState
<1>3. ASSUME k.group # {} PROVE SameWaits(k, SwitchTo(k))
  <2>1. h \in Thread /\ k.stat[h] = "ready"
    BY <1>3, HighestIsReady
  <2>2. WaitsWithout(k, h) = k.wait
    BY <1>1, <2>1, AwakeOff, OffStays
  <2> HIDE DEF h
  <2> DEFINE k1 == [k EXCEPT !.yield[c] = IF k.stat[c] = "running" THEN FALSE ELSE @,
                             !.current = h]
             k2 == IF k.stat[c] = "running" THEN rt_schedule_insert_thread(k1, c)
                                            ELSE k1
  <2>3. k1 \in KernelState /\ k1.wait = k.wait /\ k1.error = k.error
    BY <1>1, <2>1 DEF KernelState
  <2>4. k2.wait = k.wait /\ k2.error = k.error
    <3> HIDE DEF k1
    <3> QED BY <1>1, <2>3, InsertWaits DEF SameWaits
  <2>5. SwitchTo(k) = [rt_schedule_remove_thread(k2, h) EXCEPT !.stat[h] = "running"]
    BY DEF SwitchTo, h
  <2> HIDE DEF k2
  <2>6. /\ SwitchTo(k).wait = rt_schedule_remove_thread(k2, h).wait
        /\ SwitchTo(k).error = rt_schedule_remove_thread(k2, h).error
    BY <2>5
  <2>7. /\ rt_schedule_remove_thread(k2, h).wait = WaitsWithout(k2, h)
        /\ rt_schedule_remove_thread(k2, h).error = k2.error
    BY <2>4 DEF rt_schedule_remove_thread, Unlink, WaitsWithout
  <2> QED BY <2>2, <2>4, <2>6, <2>7 DEF SameWaits, WaitsWithout
<1>4. SameWaits(k, k)
  BY DEF SameWaits
<1> QED BY <1>2, <1>3, <1>4 DEF rt_schedule

\* The critical sections of rt_thread_startup, rt_thread_yield and
\* rt_tick_increase.
LEMMA StartupWaits ==
    ASSUME NEW k, Sound(k), NEW t \in Thread, k.stat[t] = "init"
    PROVE  SameWaits(k, rt_thread_startup(k, t))
<1>1. k \in KernelState /\ WaitsWithout(k, t) = k.wait
  BY AwakeOff, OffStays DEF Sound
<1> QED BY <1>1 DEF rt_thread_startup, rt_thread_resume, ResumeBody, rt_timer_stop,
           rt_schedule_insert_thread, Unlink, WaitsWithout, SameWaits, KernelState

\* rt_tick_increase leaves every suspend list alone.
LEMMA TickWaits ==
    ASSUME NEW k, Sound(k)
    PROVE  SameWaits(k, rt_tick_increase(k))
BY DEF Sound, rt_tick_increase, SameWaits, KernelState

-----------------------------------------------------------------------------
(* Soundness *)

\* What soundness depends on.
LEMMA SoundSame ==
    ASSUME NEW k, Sound(k), NEW n \in KernelState,
           n.stat = k.stat, n.prio = k.prio, n.ready = k.ready,
           n.group = k.group, n.wait = k.wait, n.timers = k.timers,
           n.defunct = k.defunct, n.current = k.current
    PROVE  Sound(n)
<1>1. Lists(k) /\ CurrentConsistent(k) /\ IdleConsistent(k)
  BY SoundParts
<1>2. Lists(n)
  BY <1>1, ListsSame
<1>3. CurrentConsistent(n) /\ IdleConsistent(n)
  BY <1>1 DEF CurrentConsistent, IdleConsistent
<1> QED BY <1>2, <1>3, SoundParts

\* rt_schedule_insert_thread, of the current thread too.
LEMMA InsertSound ==
    ASSUME NEW k \in KernelState, NEW t \in Thread, ListsOff(k, t),
           t \notin Members(k.timers), CurrentConsistent(k),
           t = Idle \/ IdleConsistent(k)
    PROVE  LET n == rt_schedule_insert_thread(k, t)
           IN  /\ Sound(n) /\ SameCurrent(k, n)
               /\ n.stat = [k.stat EXCEPT ![t] =
                               IF t = k.current THEN "running" ELSE "ready"]
<1> DEFINE n == rt_schedule_insert_thread(k, t)
           x == IF t = k.current THEN "running" ELSE "ready"
<1>0. k.stat \in [Thread -> Stat] /\ k.current \in Thread
  BY DEF KernelState
<1>1. /\ n \in KernelState /\ Lists(n) /\ SameCurrent(k, n)
      /\ n.stat = [k.stat EXCEPT ![t] = x]
  <2>1. CASE t # k.current
    BY <2>1, InsertReady DEF SameCurrent
  <2>2. CASE t = k.current
    <3>1. n = [k EXCEPT !.stat[t] = "running"]
      BY <2>2 DEF rt_schedule_insert_thread
    <3> HIDE DEF n
    <3>2. /\ n \in KernelState /\ SameCurrent(k, n)
          /\ n.stat = [k.stat EXCEPT ![t] = "running"]
          /\ n.prio = k.prio /\ n.ready = k.ready /\ n.group = k.group
          /\ n.wait = k.wait /\ n.timers = k.timers /\ n.defunct = k.defunct
      BY <3>1 DEF KernelState, Stat, SameCurrent
    <3>3. Lists(n)
      BY <3>2, StatOff DEF Stat
    <3> QED BY <2>2, <3>2, <3>3
  <2> QED BY <2>1, <2>2
<1> HIDE DEF n
<1>2. \A u \in Thread : n.stat[u] = IF u = t THEN x ELSE k.stat[u]
  BY <1>0, <1>1
<1>3. CurrentConsistent(n) /\ IdleConsistent(n)
  BY <1>0, <1>1, <1>2, IdleAssumption
  DEF CurrentConsistent, IdleConsistent, SameCurrent
<1> QED
  BY <1>1, <1>3, SoundParts DEF n

\* rt_timer_stop.
LEMMA TimerStopped ==
    ASSUME NEW k \in KernelState, NEW t \in Thread, NoDup(k.timers)
    PROVE  LET n == rt_timer_stop(k, t)
           IN  /\ n \in KernelState /\ SameCurrent(k, n)
               /\ n.stat = k.stat /\ n.ready = k.ready /\ n.group = k.group
               /\ n.wait = k.wait /\ n.defunct = k.defunct
               /\ NoDup(n.timers) /\ Members(n.timers) = Members(k.timers) \ {t}
<1> DEFINE s == Without(k.timers, t)
<1>1. /\ s \in Seq(Thread) /\ NoDup(s)
      /\ Members(s) = Members(k.timers) \ {t}
  BY MembersWithout DEF KernelState
<1> HIDE DEF s
<1>2. rt_timer_stop(k, t) = [k EXCEPT !.timers = s]
  BY DEF rt_timer_stop, s
<1> QED
  BY <1>1, <1>2 DEF KernelState, SameCurrent

\* The same with t on no list.
LEMMA TimerStopOff ==
    ASSUME NEW k \in KernelState, NEW t \in Thread, ListsOff(k, t)
    PROVE  LET n == rt_timer_stop(k, t)
           IN  /\ n \in KernelState /\ ListsOff(n, t)
               /\ t \notin Members(n.timers)
               /\ SameCurrent(k, n) /\ n.stat = k.stat
<1> DEFINE n == rt_timer_stop(k, t)
<1>1. NoDup(k.timers)
  BY DEF ListsOff
<1>2. /\ n \in KernelState /\ SameCurrent(k, n)
      /\ n.stat = k.stat /\ n.ready = k.ready /\ n.group = k.group
      /\ n.wait = k.wait /\ n.defunct = k.defunct
      /\ NoDup(n.timers) /\ Members(n.timers) = Members(k.timers) \ {t}
  BY <1>1, TimerStopped
<1> HIDE DEF n
<1>3. ListsOff(n, t)
  BY <1>2 DEF ListsOff, SameCurrent
<1> QED
  BY <1>2, <1>3 DEF n

\* rt_timer_start for a suspended thread.
LEMMA TimerStartSound ==
    ASSUME NEW k, Sound(k), NEW t \in Thread, NEW d \in Nat,
           k.stat[t] = "suspend"
    PROVE  LET n == rt_timer_start(k, t, d)
           IN  Sound(n) /\ SameCurrent(k, n) /\ n.stat = k.stat
<1> DEFINE s    == Without(k.timers, t)
           left == [k.left EXCEPT ![t] = d]
           i    == FirstOf(s, {j \in 1 .. Len(s) : left[s[j]] > d})
           r    == InsertAt(s, i, t)
           n    == [k EXCEPT !.timers = r, !.left = left]
<1>0. /\ k \in KernelState /\ Lists(k)
      /\ CurrentConsistent(k) /\ IdleConsistent(k)
  BY SoundParts
<1>1. /\ s \in Seq(Thread) /\ NoDup(s)
      /\ Members(s) = Members(k.timers) \ {t}
  BY <1>0, MembersWithout DEF KernelState, Lists, TimersConsistent
<1>2. left \in [Thread -> Nat]
  BY <1>0 DEF KernelState
<1> HIDE DEF s, left
<1>3. i \in 1 .. Len(s) + 1
  BY <1>1, FirstOfIsPosition
<1> HIDE DEF i
<1>4. /\ r \in Seq(Thread) /\ NoDup(r)
      /\ Members(r) = Members(s) \cup {t}
  BY <1>1, <1>3, MembersInsertAt
<1> HIDE DEF r
<1>5. /\ n \in KernelState /\ SameCurrent(k, n)
      /\ n.stat = k.stat /\ n.ready = k.ready /\ n.group = k.group
      /\ n.wait = k.wait /\ n.defunct = k.defunct /\ n.timers = r
  BY <1>0, <1>2, <1>4 DEF KernelState, SameCurrent
<1>6. rt_timer_start(k, t, d) = n
  BY DEF rt_timer_start, n, r, i, s, left
<1> HIDE DEF n
<1>7. TimersConsistent(n)
  BY <1>0, <1>1, <1>4, <1>5 DEF Lists, TimersConsistent
<1>8. Lists(n) /\ CurrentConsistent(n) /\ IdleConsistent(n)
  BY <1>0, <1>5, <1>7 DEF Lists, ReadyConsistent, WaitConsistent,
     DefunctConsistent, CurrentConsistent, IdleConsistent, SameCurrent
<1> QED
  BY <1>5, <1>6, <1>8, SoundParts

\* rt_thread_suspend of any thread but the idle thread.
LEMMA SuspendSound ==
    ASSUME NEW k, Sound(k), NEW t \in Thread, t # Idle
    PROVE  LET n == rt_thread_suspend(k, t)
           IN  /\ Sound(n) /\ SameCurrent(k, n)
               /\ n.stat = IF k.stat[t] \in {"ready", "running"}
                           THEN [k.stat EXCEPT ![t] = "suspend"] ELSE k.stat
<1> DEFINE r == rt_schedule_remove_thread(k, t)
           s == [r EXCEPT !.stat[t] = "suspend"]
           n == rt_timer_stop(s, t)
<1>0. /\ k \in KernelState /\ Lists(k)
      /\ CurrentConsistent(k) /\ IdleConsistent(k)
  BY SoundParts
<1>1. CASE k.stat[t] \notin {"ready", "running"}
  BY <1>1 DEF rt_thread_suspend, SameCurrent
<1>2. CASE k.stat[t] \in {"ready", "running"}
  <2>1. r \in KernelState /\ ListsOff(r, t) /\ SameThreads(k, r)
    BY <1>0, RemoveOff
  <2> HIDE DEF r
  <2>2. /\ s \in KernelState /\ s.stat = [r.stat EXCEPT ![t] = "suspend"]
        /\ s.prio = r.prio /\ s.ready = r.ready /\ s.group = r.group
        /\ s.wait = r.wait /\ s.timers = r.timers /\ s.defunct = r.defunct
        /\ s.current = r.current /\ s.lock = r.lock
    BY <2>1 DEF KernelState, Stat
  <2> HIDE DEF s
  <2>3. Lists(s)
    BY <2>1, <2>2, StatOff DEF Stat
  <2>4. NoDup(s.timers)
    BY <2>3 DEF Lists, TimersConsistent
  <2>5. /\ n \in KernelState /\ SameCurrent(s, n)
        /\ n.stat = s.stat /\ n.ready = s.ready /\ n.group = s.group
        /\ n.wait = s.wait /\ n.defunct = s.defunct
        /\ NoDup(n.timers) /\ Members(n.timers) = Members(s.timers) \ {t}
    BY <2>2, <2>4, TimerStopped
  <2>6. rt_thread_suspend(k, t) = n
    BY <1>2 DEF rt_thread_suspend, n, s, r
  <2> HIDE DEF n
  <2>7. Lists(n)
    BY <2>3, <2>5 DEF Lists, ReadyConsistent, WaitConsistent,
       TimersConsistent, DefunctConsistent, SameCurrent
  <2>8. /\ n.stat = [k.stat EXCEPT ![t] = "suspend"] /\ SameCurrent(k, n)
    BY <2>1, <2>2, <2>5 DEF SameThreads, SameCurrent
  <2>9. \A u \in Thread : n.stat[u] = IF u = t THEN "suspend" ELSE k.stat[u]
    BY <1>0, <2>8 DEF KernelState
  <2>10. CurrentConsistent(n) /\ IdleConsistent(n)
    <3>1. k.current \in Thread
      BY <1>0 DEF KernelState
    <3> QED BY <1>0, <2>8, <2>9, <3>1, IdleAssumption
            DEF CurrentConsistent, IdleConsistent, SameCurrent
  <2> QED BY <1>2, <2>5, <2>6, <2>7, <2>8, <2>10, SoundParts
<1> QED BY <1>1, <1>2

\* rt_thread_resume of a suspended thread, from whatever it waits for.
LEMMA ResumeSound ==
    ASSUME NEW k, Sound(k), NEW t \in Thread, k.stat[t] = "suspend"
    PROVE  LET n == rt_thread_resume(k, t)
           IN  /\ Sound(n) /\ SameCurrent(k, n)
               /\ n.stat = [k.stat EXCEPT ![t] =
                               IF t = k.current THEN "running" ELSE "ready"]
<1> DEFINE u == Unlink(k, t)
           s == rt_timer_stop(u, t)
           n == rt_schedule_insert_thread(s, t)
<1>0. /\ k \in KernelState /\ Lists(k)
      /\ CurrentConsistent(k) /\ IdleConsistent(k)
  BY SoundParts
<1>1. u \in KernelState /\ ListsOff(u, t) /\ SameThreads(k, u)
  BY <1>0, UnlinkOff
<1> HIDE DEF u
<1>2. /\ s \in KernelState /\ ListsOff(s, t) /\ t \notin Members(s.timers)
      /\ SameCurrent(u, s) /\ s.stat = u.stat
  BY <1>1, TimerStopOff
<1> HIDE DEF s
<1>3. s.stat = k.stat /\ SameCurrent(k, s)
  BY <1>1, <1>2 DEF SameThreads, SameCurrent
<1>4. CurrentConsistent(s) /\ IdleConsistent(s)
  BY <1>0, <1>3 DEF CurrentConsistent, IdleConsistent, SameCurrent
<1>5. /\ Sound(n) /\ SameCurrent(s, n)
      /\ n.stat = [s.stat EXCEPT ![t] =
                      IF t = s.current THEN "running" ELSE "ready"]
  BY <1>2, <1>4, InsertSound
<1>6. rt_thread_resume(k, t) = n
  BY DEF rt_thread_resume, ResumeBody, n, s, u
<1> HIDE DEF n
<1> QED
  BY <1>3, <1>5, <1>6 DEF SameCurrent

\* rt_thread_startup of an initialised thread.
LEMMA StartupSound ==
    ASSUME NEW k, Sound(k), NEW t \in Thread, k.stat[t] = "init"
    PROVE  LET n == rt_thread_startup(k, t)
           IN  /\ Sound(n) /\ SameCurrent(k, n)
               /\ n.stat = [k.stat EXCEPT ![t] = "ready"]
<1> DEFINE s == [k EXCEPT !.stat[t] = "suspend", !.yield[t] = FALSE]
           n == rt_thread_resume(s, t)
<1>0. /\ k \in KernelState /\ Lists(k) /\ CurrentConsistent(k)
      /\ IdleConsistent(k) /\ k.stat \in [Thread -> Stat]
      /\ k.current \in Thread
  BY SoundParts DEF KernelState
<1>1. ListsOff(k, t) /\ t \notin Members(k.timers)
  BY <1>0, UnlistedOff
<1>2. /\ s \in KernelState /\ s.stat = [k.stat EXCEPT ![t] = "suspend"]
      /\ s.prio = k.prio /\ s.ready = k.ready /\ s.group = k.group
      /\ s.wait = k.wait /\ s.timers = k.timers /\ s.defunct = k.defunct
      /\ s.current = k.current /\ s.lock = k.lock
  BY <1>0 DEF KernelState, Stat
<1>3. rt_thread_startup(k, t) = n
  BY DEF rt_thread_startup
<1> HIDE DEF s
<1>4. Lists(s)
  BY <1>0, <1>1, <1>2, StatOff DEF Stat
<1>5. \A u \in Thread : s.stat[u] = IF u = t THEN "suspend" ELSE k.stat[u]
  BY <1>0, <1>2
<1>6. t # k.current /\ t # Idle
  BY <1>0 DEF CurrentConsistent, IdleConsistent
<1>7. CurrentConsistent(s) /\ IdleConsistent(s)
  BY <1>0, <1>2, <1>5, <1>6, IdleAssumption DEF CurrentConsistent, IdleConsistent
<1>8. Sound(s) /\ s.stat[t] = "suspend"
  BY <1>2, <1>4, <1>5, <1>7, SoundParts
<1>9. /\ Sound(n) /\ SameCurrent(s, n)
      /\ n.stat = [s.stat EXCEPT ![t] =
                      IF t = s.current THEN "running" ELSE "ready"]
  BY <1>8, ResumeSound
<1> HIDE DEF n
<1>10. n.stat = [k.stat EXCEPT ![t] = "ready"]
  <2>1. n.stat = [s.stat EXCEPT ![t] = "ready"]
    BY <1>2, <1>6, <1>9
  <2> QED BY <1>0, <1>2, <2>1
<1> QED
  BY <1>2, <1>3, <1>9, <1>10 DEF SameCurrent

\* A priority changes and nothing else: harmless for a thread that is not
\* on a ready list, and for one that is on no list.
LEMMA PrioLists ==
    ASSUME NEW k \in KernelState, NEW t \in Thread, NEW n \in KernelState,
           \A u \in Thread : u # t => n.prio[u] = k.prio[u],
           n.stat = k.stat, n.ready = k.ready, n.group = k.group,
           n.wait = k.wait, n.timers = k.timers, n.defunct = k.defunct
    PROVE  /\ Lists(k) /\ k.stat[t] # "ready" => Lists(n)
           /\ ListsOff(k, t) => ListsOff(n, t)
<1>1. ASSUME Lists(k), k.stat[t] # "ready" PROVE Lists(n)
  <2>1. ReadyConsistent(n)
    BY <1>1 DEF Lists, ReadyConsistent
  <2> QED BY <1>1, <2>1 DEF Lists, WaitConsistent, TimersConsistent,
                            DefunctConsistent
<1>2. ASSUME ListsOff(k, t) PROVE ListsOff(n, t)
  <2>1. ASSUME NEW p \in Priority
        PROVE  Members(n.ready[p]) =
                  {u \in Thread : u # t /\ n.stat[u] = "ready" /\ n.prio[u] = p}
    BY <1>2 DEF ListsOff
  <2> QED BY <1>2, <2>1 DEF ListsOff
<1> QED BY <1>1, <1>2

\* rt_thread_control(RT_THREAD_CTRL_CHANGE_PRIORITY).
LEMMA ChangePrioritySound ==
    ASSUME NEW k, Sound(k), NEW t \in Thread, NEW p \in Priority
    PROVE  LET n == ChangePriority(k, t, p)
           IN  /\ Sound(n) /\ n.current = k.current /\ n.lock = k.lock
               /\ n.stat = k.stat
<1>0. /\ k \in KernelState /\ Lists(k) /\ CurrentConsistent(k)
      /\ IdleConsistent(k) /\ k.stat \in [Thread -> Stat]
      /\ k.prio \in [Thread -> Priority]
  BY SoundParts DEF KernelState
<1>1. CASE k.stat[t] = "ready"
  <2> DEFINE r == rt_schedule_remove_thread(k, t)
             s == [r EXCEPT !.prio[t] = p]
             n == rt_schedule_insert_thread(s, t)
  <2>1. r \in KernelState /\ ListsOff(r, t) /\ SameThreads(k, r)
    BY <1>0, RemoveOff
  <2> HIDE DEF r
  <2>2. /\ s \in KernelState /\ s.prio = [r.prio EXCEPT ![t] = p]
        /\ s.stat = r.stat /\ s.ready = r.ready /\ s.group = r.group
        /\ s.wait = r.wait /\ s.timers = r.timers /\ s.defunct = r.defunct
        /\ s.current = r.current /\ s.lock = r.lock
    BY <2>1 DEF KernelState
  <2>3. ChangePriority(k, t, p) = n
    BY <1>1 DEF ChangePriority, n, s, r
  <2> HIDE DEF s
  <2>4. \A u \in Thread : u # t => s.prio[u] = r.prio[u]
    BY <2>1, <2>2 DEF KernelState
  <2>5. ListsOff(s, t)
    BY <2>1, <2>2, <2>4, PrioLists
  <2>6. s.stat = k.stat /\ s.current = k.current /\ s.lock = k.lock
        /\ s.timers = k.timers
    BY <2>1, <2>2 DEF SameThreads
  <2>7. CurrentConsistent(s) /\ IdleConsistent(s) /\ t # s.current
    BY <1>0, <1>1, <2>6 DEF CurrentConsistent, IdleConsistent
  <2>8. t \notin Members(s.timers)
    BY <1>0, <1>1, <2>6 DEF Lists, TimersConsistent
  <2>9. /\ Sound(n) /\ SameCurrent(s, n)
        /\ n.stat = [s.stat EXCEPT ![t] =
                        IF t = s.current THEN "running" ELSE "ready"]
    BY <2>2, <2>5, <2>7, <2>8, InsertSound
  <2> HIDE DEF n
  <2>10. n.stat = k.stat
    <3>1. n.stat = [k.stat EXCEPT ![t] = "ready"]
      BY <2>6, <2>7, <2>9
    <3> QED BY <1>0, <1>1, <3>1
  <2> QED BY <2>3, <2>6, <2>9, <2>10 DEF SameCurrent
<1>2. CASE k.stat[t] # "ready"
  <2> DEFINE n == [k EXCEPT !.prio[t] = p]
  <2>1. /\ n \in KernelState /\ n.prio = [k.prio EXCEPT ![t] = p]
        /\ n.stat = k.stat /\ n.ready = k.ready /\ n.group = k.group
        /\ n.wait = k.wait /\ n.timers = k.timers /\ n.defunct = k.defunct
        /\ n.current = k.current /\ n.lock = k.lock
    BY <1>0 DEF KernelState
  <2>2. ChangePriority(k, t, p) = n
    BY <1>2 DEF ChangePriority
  <2> HIDE DEF n
  <2>3. \A u \in Thread : u # t => n.prio[u] = k.prio[u]
    BY <1>0, <2>1
  <2>4. Lists(n)
    BY <1>0, <1>2, <2>1, <2>3, PrioLists
  <2>5. CurrentConsistent(n) /\ IdleConsistent(n)
    BY <1>0, <2>1 DEF CurrentConsistent, IdleConsistent
  <2> QED BY <2>1, <2>2, <2>4, <2>5, SoundParts
<1> QED BY <1>1, <1>2

\* Closing a thread that is on no list and putting it on the defunct list.
LEMMA BurySound ==
    ASSUME NEW k \in KernelState, NEW t \in Thread, t # Idle, ListsOff(k, t),
           CurrentConsistent(k), IdleConsistent(k)
    PROVE  LET n == Bury(k, t)
           IN  /\ Sound(n) /\ SameCurrent(k, n)
               /\ n.stat = [k.stat EXCEPT ![t] = "close"]
<1> DEFINE s == rt_timer_stop(k, t)
           d == <<t>> \o k.defunct
           c == [s EXCEPT !.stat[t] = "close", !.yield[t] = FALSE]
           n == [s EXCEPT !.stat[t] = "close", !.yield[t] = FALSE,
                          !.defunct = d]
<1>1. /\ s \in KernelState /\ ListsOff(s, t) /\ t \notin Members(s.timers)
      /\ SameCurrent(k, s) /\ s.stat = k.stat
  BY TimerStopOff
<1>2. s.defunct = k.defunct
  BY DEF rt_timer_stop, KernelState
<1>3. n = Bury(k, t)
  BY DEF Bury
<1> HIDE DEF s
<1>4. /\ c \in KernelState /\ c.stat = [s.stat EXCEPT ![t] = "close"]
      /\ c.prio = s.prio /\ c.ready = s.ready /\ c.group = s.group
      /\ c.wait = s.wait /\ c.timers = s.timers /\ c.defunct = s.defunct
      /\ c.current = s.current /\ c.lock = s.lock
  BY <1>1 DEF KernelState, Stat
<1>5. Lists(c)
  <2> HIDE DEF c
  <2> QED BY <1>1, <1>4, StatOff DEF Stat
<1>6. d \in Seq(Thread) /\ Members(d) = Members(s.defunct) \cup {t} /\ NoDup(d)
  <2>1. s.defunct \in Seq(Thread) /\ NoDup(s.defunct)
        /\ t \notin Members(s.defunct)
    BY <1>1 DEF ListsOff, KernelState
  <2> QED BY <1>2, <2>1, MembersPush
<1> HIDE DEF d
<1>7. /\ n \in KernelState /\ n.stat = [s.stat EXCEPT ![t] = "close"]
      /\ n.prio = s.prio /\ n.ready = s.ready /\ n.group = s.group
      /\ n.wait = s.wait /\ n.timers = s.timers /\ n.defunct = d
      /\ n.current = s.current /\ n.lock = s.lock
  BY <1>1, <1>6 DEF KernelState, Stat
<1> HIDE DEF c, n
<1>8. \A u \in Thread : n.stat[u] = IF u = t THEN "close" ELSE k.stat[u]
  <2>1. n.stat = [k.stat EXCEPT ![t] = "close"] /\ k.stat \in [Thread -> Stat]
    BY <1>1, <1>7 DEF KernelState
  <2> QED BY <2>1
<1>9. DefunctConsistent(n)
  BY <1>1, <1>4, <1>5, <1>6, <1>7, <1>8 DEF Lists, DefunctConsistent
<1>10. Lists(n)
  <2>1. /\ n.stat = c.stat /\ n.prio = c.prio /\ n.ready = c.ready
        /\ n.group = c.group /\ n.wait = c.wait /\ n.timers = c.timers
    BY <1>4, <1>7
  <2>2. ReadyConsistent(n)
    BY <1>5, <2>1 DEF Lists, ReadyConsistent
  <2>3. WaitConsistent(n) /\ TimersConsistent(n)
    BY <1>5, <2>1 DEF Lists, WaitConsistent, TimersConsistent
  <2> QED BY <1>9, <2>2, <2>3 DEF Lists
<1>11. CurrentConsistent(n) /\ IdleConsistent(n)
  <2>1. k.current \in Thread
    BY DEF KernelState
  <2> QED BY <1>1, <1>7, <1>8, <2>1, IdleAssumption
          DEF CurrentConsistent, IdleConsistent, SameCurrent
<1> QED
  BY <1>1, <1>3, <1>7, <1>10, <1>11, SoundParts DEF SameCurrent

\* rt_thread_delete and rt_thread_detach of a thread that is not closed, and
\* _thread_exit.
LEMMA DeleteSound ==
    ASSUME NEW k, Sound(k), NEW t \in Thread, t # Idle
    PROVE  LET d == rt_thread_delete(k, t)
               e == _thread_exit(k, t)
               s == [k.stat EXCEPT ![t] = "close"]
           IN  /\ k.stat[t] # "close" =>
                     Sound(d) /\ SameCurrent(k, d) /\ d.stat = s
               /\ Sound(e) /\ SameCurrent(k, e) /\ e.stat = s
<1> DEFINE r == rt_schedule_remove_thread(k, t)
<1>0. /\ k \in KernelState /\ Lists(k)
      /\ CurrentConsistent(k) /\ IdleConsistent(k)
  BY SoundParts
<1>1. r \in KernelState /\ ListsOff(r, t) /\ SameThreads(k, r)
  BY <1>0, RemoveOff
<1> HIDE DEF r
<1>2. CurrentConsistent(r) /\ IdleConsistent(r)
  BY <1>0, <1>1 DEF CurrentConsistent, IdleConsistent, SameThreads
<1>3. /\ Sound(Bury(r, t)) /\ SameCurrent(k, Bury(r, t))
      /\ Bury(r, t).stat = [k.stat EXCEPT ![t] = "close"]
  <2>1. /\ Sound(Bury(r, t)) /\ SameCurrent(r, Bury(r, t))
        /\ Bury(r, t).stat = [r.stat EXCEPT ![t] = "close"]
    BY <1>1, <1>2, BurySound
  <2> QED BY <1>1, <2>1 DEF SameThreads, SameCurrent
<1>4. _thread_exit(k, t) = Bury(r, t)
  BY DEF _thread_exit, r
<1>5. CASE k.stat[t] = "init"
  <2>1. ListsOff(k, t)
    BY <1>0, <1>5, UnlistedOff
  <2>2. /\ Sound(Bury(k, t)) /\ SameCurrent(k, Bury(k, t))
        /\ Bury(k, t).stat = [k.stat EXCEPT ![t] = "close"]
    BY <1>0, <2>1, BurySound
  <2>3. rt_thread_delete(k, t) = Bury(k, t)
    BY <1>5 DEF rt_thread_delete, TakeOff
  <2> QED BY <1>3, <1>4, <2>2, <2>3
<1>6. CASE k.stat[t] # "init"
  <2>1. k.stat[t] # "close" => rt_thread_delete(k, t) = Bury(r, t)
    BY <1>6 DEF rt_thread_delete, TakeOff, r
  <2> QED BY <1>3, <1>4, <2>1
<1> QED BY <1>5, <1>6

\* n is k after the timer of h has fired: h is ready, it is on no suspend
\* list any more, and it will be told -RT_ETIMEOUT.
Fired(k, n, h) ==
    /\ h \in Thread /\ k.stat[h] = "suspend"
    /\ n.stat[h] \in {"ready", "running"}
    /\ \A t \in Thread : t # h =>
          \/ n.stat[t] = k.stat[t]
          \/ {k.stat[t], n.stat[t]} \subseteq {"ready", "running"}
    /\ n.prio = k.prio /\ n.wait = WaitsWithout(k, h)
    /\ n.error = [k.error EXCEPT ![h] = "timeout"]

\* rt_timer_check runs the function of the first timer, _thread_timeout.
LEMMA FireSound ==
    ASSUME NEW k, Sound(k), k.timers # <<>>
    PROVE  LET n == FireFirst(k)
           IN  /\ Sound(n) /\ n.lock = k.lock
               /\ k.lock # 0 => n.current = k.current
               /\ k.lock = 0 => MostUrgentRuns(n)
               /\ Fired(k, n, Head(k.timers))
<1> DEFINE h == Head(k.timers)
           a == [k EXCEPT !.timers = Tail(k.timers)]
           u == Unlink(a, h)
           e == [u EXCEPT !.error[h] = "timeout"]
           i == rt_schedule_insert_thread(e, h)
           n == rt_schedule(i)
<1>0. /\ k \in KernelState /\ Lists(k) /\ CurrentConsistent(k)
      /\ IdleConsistent(k) /\ k.stat \in [Thread -> Stat]
      /\ k.current \in Thread
  BY SoundParts DEF KernelState
<1>1. /\ h \in Thread /\ h \in Members(k.timers)
      /\ Tail(k.timers) \in Seq(Thread) /\ NoDup(Tail(k.timers))
      /\ Members(Tail(k.timers)) = Members(k.timers) \ {h}
  <2>1. k.timers \in Seq(Thread) /\ NoDup(k.timers)
    BY <1>0 DEF KernelState, Lists, TimersConsistent
  <2> QED BY <2>1, MembersTail
<1>2. k.stat[h] = "suspend"
  BY <1>0, <1>1 DEF Lists, TimersConsistent
<1>3. FireFirst(k) = n
  BY DEF FireFirst, _thread_timeout, n, i, e, u, a, h
<1> HIDE DEF h
<1>4. /\ a \in KernelState /\ a.timers = Tail(k.timers)
      /\ a.stat = k.stat /\ a.prio = k.prio /\ a.ready = k.ready
      /\ a.group = k.group /\ a.wait = k.wait /\ a.defunct = k.defunct
      /\ a.current = k.current /\ a.lock = k.lock /\ a.error = k.error
  BY <1>0, <1>1 DEF KernelState
<1> HIDE DEF a
<1>5. Lists(a)
  <2>1. TimersConsistent(a)
    BY <1>0, <1>1, <1>4 DEF Lists, TimersConsistent
  <2>2. ReadyConsistent(a)
    BY <1>0, <1>4 DEF Lists, ReadyConsistent
  <2>3. WaitConsistent(a) /\ DefunctConsistent(a)
    BY <1>0, <1>4 DEF Lists, WaitConsistent, DefunctConsistent
  <2> QED BY <2>1, <2>2, <2>3 DEF Lists
<1>6. u \in KernelState /\ ListsOff(u, h) /\ SameThreads(a, u)
  BY <1>1, <1>2, <1>4, <1>5, UnlinkOff
<1>16. u.wait = WaitsWithout(k, h) /\ u.error = k.error
  BY <1>1, <1>4, RemoveWaits DEF WaitsWithout
<1> HIDE DEF u
<1>7. /\ e \in KernelState /\ e.error = [u.error EXCEPT ![h] = "timeout"]
      /\ e.stat = u.stat /\ e.prio = u.prio /\ e.ready = u.ready
      /\ e.group = u.group /\ e.wait = u.wait /\ e.defunct = u.defunct
      /\ e.timers = u.timers /\ e.current = u.current /\ e.lock = u.lock
  BY <1>6 DEF KernelState, Error
<1> HIDE DEF e
<1>8. ListsOff(e, h)
  BY <1>6, <1>7 DEF ListsOff
<1>9. e.stat = k.stat /\ e.current = k.current /\ e.lock = k.lock
      /\ e.timers = Tail(k.timers)
  BY <1>4, <1>6, <1>7 DEF SameThreads
<1>10. CurrentConsistent(e) /\ IdleConsistent(e) /\ h \notin Members(e.timers)
  BY <1>0, <1>1, <1>9 DEF CurrentConsistent, IdleConsistent
<1>11. /\ Sound(i) /\ SameCurrent(e, i)
       /\ i.stat = [e.stat EXCEPT ![h] =
                       IF h = e.current THEN "running" ELSE "ready"]
  BY <1>1, <1>7, <1>8, <1>10, InsertSound
<1>17. SameWaits(e, i)
  BY <1>1, <1>7, InsertWaits
<1> HIDE DEF i
<1>12. /\ Sound(n) /\ n.lock = i.lock /\ Preempts(i, n) /\ n.prio = i.prio
       /\ i.lock # 0 => n = i
       /\ i.lock = 0 => MostUrgentRuns(n)
       /\ SameWaits(i, n)
  BY <1>11, ScheduleSound, ScheduleWaits
<1> HIDE DEF n
<1>13. i.lock = k.lock /\ i.current = k.current
  BY <1>9, <1>11 DEF SameCurrent
<1>14. \A t \in Thread : IF t = h THEN i.stat[t] \in {"ready", "running"}
                                  ELSE i.stat[t] = k.stat[t]
  BY <1>0, <1>1, <1>9, <1>11
<1>15. /\ n.stat[h] \in {"ready", "running"}
       /\ \A t \in Thread : t # h =>
             \/ n.stat[t] = k.stat[t]
             \/ {k.stat[t], n.stat[t]} \subseteq {"ready", "running"}
  BY <1>1, <1>12, <1>14 DEF Preempts
<1>18. /\ n.prio = k.prio /\ n.wait = WaitsWithout(k, h)
       /\ n.error = [k.error EXCEPT ![h] = "timeout"]
  BY <1>4, <1>6, <1>7, <1>11, <1>12, <1>16, <1>17
  DEF SameThreads, SameCurrent, SameWaits
<1> QED
  BY <1>1, <1>2, <1>3, <1>12, <1>13, <1>15, <1>18 DEF h, Fired

\* rt_thread_sleep of a thread that is not closed.
LEMMA SleepSound ==
    ASSUME NEW k, Sound(k), NEW t \in Thread, t # Idle, NEW d \in Nat,
           k.stat[t] \in {"ready", "running", "suspend"}
    PROVE  LET n == rt_thread_sleep(k, t, d)
           IN  /\ Sound(n) /\ SameCurrent(k, n)
               /\ n.stat = [k.stat EXCEPT ![t] = "suspend"]
<1> DEFINE e == [k EXCEPT !.error[t] = "ok"]
           s == rt_thread_suspend(e, t)
           n == rt_timer_start(s, t, d)
<1>0. k \in KernelState /\ k.stat \in [Thread -> Stat]
  BY SoundParts DEF KernelState
<1>1. /\ e \in KernelState
      /\ e.stat = k.stat /\ e.prio = k.prio /\ e.ready = k.ready
      /\ e.group = k.group /\ e.wait = k.wait /\ e.defunct = k.defunct
      /\ e.timers = k.timers /\ e.current = k.current /\ e.lock = k.lock
  BY <1>0 DEF KernelState, Error
<1>2. rt_thread_sleep(k, t, d) = n
  BY DEF rt_thread_sleep
<1> HIDE DEF e
<1>3. Sound(e)
  BY <1>1, SoundSame
<1>4. /\ Sound(s) /\ SameCurrent(e, s)
      /\ s.stat = IF e.stat[t] \in {"ready", "running"}
                  THEN [e.stat EXCEPT ![t] = "suspend"] ELSE e.stat
  BY <1>3, SuspendSound
<1>5. s.stat = [k.stat EXCEPT ![t] = "suspend"] /\ s.stat[t] = "suspend"
  BY <1>0, <1>1, <1>4
<1> HIDE DEF s
<1>6. Sound(n) /\ SameCurrent(s, n) /\ n.stat = s.stat
  BY <1>4, <1>5, TimerStartSound
<1> QED
  BY <1>1, <1>2, <1>4, <1>5, <1>6 DEF SameCurrent

\* rt_thread_yield sets the yield flag and calls rt_schedule.
LEMMA YieldSound ==
    ASSUME NEW k, Sound(k), NEW t \in Thread
    PROVE  LET n == rt_thread_yield(k, t)
           IN  /\ Sound(n) /\ n.lock = k.lock /\ Preempts(k, n)
               /\ k.lock # 0 => n.current = k.current
               /\ k.lock = 0 => MostUrgentRuns(n)
               /\ n.prio = k.prio /\ SameWaits(k, n)
<1> DEFINE e == [k EXCEPT !.slice[t] = Slice, !.yield[t] = TRUE]
<1>0. k \in KernelState
  BY SoundParts
<1>1. /\ e \in KernelState
      /\ e.stat = k.stat /\ e.prio = k.prio /\ e.ready = k.ready
      /\ e.group = k.group /\ e.wait = k.wait /\ e.defunct = k.defunct
      /\ e.timers = k.timers /\ e.current = k.current /\ e.lock = k.lock
      /\ e.error = k.error
  <2>1. [k.slice EXCEPT ![t] = Slice] \in [Thread -> 1 .. Slice]
    BY <1>0, SliceAssumption DEF KernelState
  <2>2. [k.yield EXCEPT ![t] = TRUE] \in [Thread -> BOOLEAN]
    BY <1>0 DEF KernelState
  <2>3. e = [k EXCEPT !.slice = [k.slice EXCEPT ![t] = Slice],
                      !.yield = [k.yield EXCEPT ![t] = TRUE]]
    BY <1>0 DEF KernelState
  <2> QED BY <1>0, <2>1, <2>2, <2>3 DEF KernelState
<1>2. rt_thread_yield(k, t) = rt_schedule(e)
  BY DEF rt_thread_yield
<1> HIDE DEF e
<1>3. Sound(e)
  BY <1>1, SoundSame
<1>4. SameWaits(e, rt_schedule(e))
  BY <1>3, ScheduleWaits
<1> QED BY <1>1, <1>2, <1>3, <1>4, ScheduleSound DEF Preempts, SameWaits

\* The critical section of rt_tick_increase: the tick passes and a used-up
\* time slice sets the yield flag.
LEMMA TickSound ==
    ASSUME NEW k, Sound(k)
    PROVE  LET n == rt_tick_increase(k)
           IN  Sound(n) /\ SameCurrent(k, n) /\ n.stat = k.stat
<1> DEFINE c == k.current
           left == [t \in Thread |-> IF k.left[t] = 0 THEN 0 ELSE k.left[t] - 1]
           l == [k EXCEPT !.left = left]
           s == IF SliceEnds(k) THEN Slice ELSE k.slice[c] - 1
           y == IF SliceEnds(k) THEN TRUE ELSE k.yield[c]
           n == [l EXCEPT !.slice = [k.slice EXCEPT ![c] = s],
                          !.yield = [k.yield EXCEPT ![c] = y]]
<1>0. /\ k \in KernelState /\ c \in Thread /\ k.left \in [Thread -> Nat]
      /\ k.slice \in [Thread -> 1 .. Slice] /\ k.yield \in [Thread -> BOOLEAN]
  BY SoundParts DEF KernelState
<1>1. left \in [Thread -> Nat]
  BY <1>0
<1>2. s \in 1 .. Slice
  BY <1>0, SliceAssumption DEF SliceEnds
<1>3. y \in BOOLEAN
  BY <1>0
<1>4. rt_tick_increase(k) = n
  <2>1. CASE SliceEnds(k)
    BY <1>0, <2>1 DEF rt_tick_increase, KernelState
  <2>2. CASE ~ SliceEnds(k)
    <3>1. [k.yield EXCEPT ![c] = y] = k.yield
      BY <1>0, <2>2
    <3> QED BY <1>0, <2>2, <3>1 DEF rt_tick_increase, KernelState
  <2> QED BY <2>1, <2>2
<1> HIDE DEF left, s, y
<1>5. /\ [k.slice EXCEPT ![c] = s] \in [Thread -> 1 .. Slice]
      /\ [k.yield EXCEPT ![c] = y] \in [Thread -> BOOLEAN]
  BY <1>0, <1>2, <1>3
<1>6. /\ n \in KernelState
      /\ n.stat = k.stat /\ n.prio = k.prio /\ n.ready = k.ready
      /\ n.group = k.group /\ n.wait = k.wait /\ n.defunct = k.defunct
      /\ n.timers = k.timers /\ n.current = k.current /\ n.lock = k.lock
  BY <1>0, <1>1, <1>5 DEF KernelState
<1> HIDE DEF n
<1>7. Sound(n)
  BY <1>6, SoundSame
<1> QED BY <1>4, <1>6, <1>7 DEF SameCurrent

\* A closed thread that is off the defunct list is on no list.
LEMMA ClosedOff ==
    ASSUME NEW k \in KernelState, NEW t \in Thread, Lists(k),
           k.stat[t] = "close", t \notin Members(k.defunct)
    PROVE  ListsOff(k, t) /\ t \notin Members(k.timers)
BY DEF Lists, ListsOff, ReadyConsistent, WaitConsistent, TimersConsistent,
       DefunctConsistent

\* _thread_init of a reclaimed thread.
LEMMA CreateSound ==
    ASSUME NEW k, Sound(k), NEW t \in Thread, t # k.current,
           k.stat[t] = "close", t \notin Members(k.defunct)
    PROVE  LET n == _thread_init(k, t)
           IN  /\ Sound(n) /\ n.current = k.current /\ n.lock = k.lock
               /\ n.stat = [k.stat EXCEPT ![t] = "init"]
               /\ \A u \in Thread : u # t => n.prio[u] = k.prio[u]
<1> DEFINE a == [k EXCEPT !.yield[t] = FALSE, !.error[t] = "ok",
                          !.prio[t] = InitPrio[t], !.slice[t] = Slice]
           n == _thread_init(k, t)
<1>0. /\ k \in KernelState /\ Lists(k) /\ CurrentConsistent(k)
      /\ IdleConsistent(k) /\ k.stat \in [Thread -> Stat]
      /\ k.prio \in [Thread -> Priority] /\ k.current \in Thread
  BY SoundParts DEF KernelState
<1>1. [k.slice EXCEPT ![t] = Slice] \in [Thread -> 1 .. Slice]
  BY <1>0, SliceAssumption DEF KernelState
<1>2. [k.prio EXCEPT ![t] = InitPrio[t]] \in [Thread -> Priority]
  BY <1>0, InitPrioAssumption DEF Priority
<1>3. /\ a \in KernelState /\ a.prio = [k.prio EXCEPT ![t] = InitPrio[t]]
      /\ a.stat = k.stat /\ a.ready = k.ready
      /\ a.group = k.group /\ a.wait = k.wait /\ a.defunct = k.defunct
      /\ a.timers = k.timers /\ a.current = k.current /\ a.lock = k.lock
  BY <1>0, <1>1, <1>2 DEF KernelState, Error
<1>4. /\ n \in KernelState /\ n.prio = [k.prio EXCEPT ![t] = InitPrio[t]]
      /\ n.stat = [k.stat EXCEPT ![t] = "init"] /\ n.ready = k.ready
      /\ n.group = k.group /\ n.wait = k.wait /\ n.defunct = k.defunct
      /\ n.timers = k.timers /\ n.current = k.current /\ n.lock = k.lock
  BY <1>0, <1>1, <1>2 DEF _thread_init, KernelState, Stat, Error
<1> HIDE DEF a, n
<1>5. \A u \in Thread : u # t => n.prio[u] = k.prio[u] /\ a.prio[u] = k.prio[u]
  BY <1>0, <1>3, <1>4
<1>6. Lists(a)
  BY <1>0, <1>3, <1>5, PrioLists
<1>7. ListsOff(a, t) /\ t \notin Members(a.timers)
  BY <1>3, <1>6, ClosedOff
<1>8. Lists(n)
  BY <1>3, <1>4, <1>7, StatOff DEF Stat
<1>9. \A u \in Thread : n.stat[u] = IF u = t THEN "init" ELSE k.stat[u]
  BY <1>0, <1>4
<1>10. CurrentConsistent(n) /\ IdleConsistent(n)
  BY <1>0, <1>4, <1>9, IdleAssumption DEF CurrentConsistent, IdleConsistent
<1> QED
  BY <1>4, <1>5, <1>8, <1>10, SoundParts DEF n

\* The idle thread unlinks a closed thread.
LEMMA ReclaimSound ==
    ASSUME NEW k, Sound(k), NEW t \in Thread, k.stat[t] = "close"
    PROVE  LET n == Unlink(k, t)
           IN  /\ Sound(n) /\ SameCurrent(k, n) /\ n.stat = k.stat
               /\ t \notin Members(n.defunct) /\ t \notin Members(n.timers)
               /\ \A p \in Priority : t \notin Members(n.ready[p])
<1> DEFINE n == Unlink(k, t)
<1>0. /\ k \in KernelState /\ Lists(k) /\ CurrentConsistent(k)
      /\ IdleConsistent(k) /\ k.stat \in [Thread -> Stat]
  BY SoundParts DEF KernelState
<1>1. n \in KernelState /\ ListsOff(n, t) /\ SameThreads(k, n)
  BY <1>0, UnlinkOff
<1> HIDE DEF n
<1>2. n.stat = [n.stat EXCEPT ![t] = "close"]
  BY <1>0, <1>1 DEF SameThreads
<1>3. t \notin Members(n.timers)
  BY <1>0, <1>1 DEF Lists, TimersConsistent, SameThreads
<1>4. Lists(n)
  BY <1>1, <1>2, <1>3, StatOff DEF Stat
<1>5. CurrentConsistent(n) /\ IdleConsistent(n)
  BY <1>0, <1>1 DEF CurrentConsistent, IdleConsistent, SameThreads
<1>6. t \notin Members(n.defunct) /\ \A p \in Priority : t \notin Members(n.ready[p])
  BY <1>1 DEF ListsOff
<1> QED
  BY <1>1, <1>3, <1>4, <1>5, <1>6, SoundParts DEF SameThreads, SameCurrent, n

\* rt_enter_critical and rt_exit_critical.
LEMMA LockSound ==
    ASSUME NEW k, Sound(k), NEW l \in Nat
    PROVE  LET n == [k EXCEPT !.lock = l]
           IN  /\ Sound(n) /\ n.stat = k.stat /\ n.current = k.current
               /\ n.lock = l /\ n.prio = k.prio
<1> DEFINE n == [k EXCEPT !.lock = l]
<1>0. k \in KernelState
  BY SoundParts
<1>1. /\ n \in KernelState /\ n.lock = l
      /\ n.stat = k.stat /\ n.prio = k.prio /\ n.ready = k.ready
      /\ n.group = k.group /\ n.wait = k.wait /\ n.defunct = k.defunct
      /\ n.timers = k.timers /\ n.current = k.current
  BY <1>0 DEF KernelState
<1> HIDE DEF n
<1> QED BY <1>1, SoundSame DEF n

\* The state after rtthread_startup.
LEMMA InitSound == Sound(KernelInit) /\ MostUrgentRuns(KernelInit)
<1> DEFINE n == KernelInit
           ip == InitPrio[Idle]
<1>0. /\ Idle \in Thread /\ Main \in Thread /\ Main # Idle
      /\ ip \in Priority /\ InitPrio \in [Thread -> Priority]
      /\ InitPrio[Main] <= ip
  BY IdleAssumption, MainAssumption, InitPrioAssumption, PrioritiesAssumption
  DEF Priority
<1>1. /\ n.stat = [t \in Thread |-> IF t = Main THEN "running"
                                   ELSE IF t = Idle THEN "ready" ELSE "init"]
      /\ n.ready = [p \in Priority |-> IF p = ip THEN <<Idle>> ELSE <<>>]
      /\ n.group = {ip} /\ n.wait = [w \in WaitList |-> <<>>]
      /\ n.defunct = <<>> /\ n.timers = <<>> /\ n.current = Main
      /\ n.prio = InitPrio /\ n.lock = 0
  BY DEF KernelInit
<1>2. n \in KernelState
  <2>1. [t \in Thread |-> Slice] \in [Thread -> 1 .. Slice]
    BY SliceAssumption
  <2>2. [t \in Thread |-> FALSE] \in [Thread -> BOOLEAN]
    OBVIOUS
  <2> QED BY <1>0, <2>1, <2>2 DEF KernelInit, KernelState, Stat, Error
<1> HIDE DEF n
<1>3. NoDup(<<Idle>>) /\ Members(<<Idle>>) = {Idle}
      /\ NoDup(<<>>) /\ Members(<<>>) = {} /\ <<Idle>> # <<>>
  BY DEF NoDup, Members
<1>4. ReadyConsistent(n)
  <2>1. ASSUME NEW p \in Priority
        PROVE  /\ NoDup(n.ready[p])
               /\ Members(n.ready[p]) =
                     {t \in Thread : n.stat[t] = "ready" /\ n.prio[t] = p}
               /\ p \in n.group <=> n.ready[p] # <<>>
    <3>1. CASE p = ip
      BY <1>0, <1>1, <1>3, <3>1
    <3>2. CASE p # ip
      BY <1>0, <1>1, <1>3, <3>2
    <3> QED BY <3>1, <3>2
  <2>2. n.group \subseteq Priority
    BY <1>0, <1>1
  <2> QED BY <2>1, <2>2 DEF ReadyConsistent
<1>5. WaitConsistent(n) /\ TimersConsistent(n) /\ DefunctConsistent(n)
  BY <1>1, <1>3 DEF WaitConsistent, TimersConsistent, DefunctConsistent
<1>6. CurrentConsistent(n) /\ IdleConsistent(n)
  BY <1>0, <1>1 DEF CurrentConsistent, IdleConsistent
<1>7. MostUrgentRuns(n)
  BY <1>0, <1>1 DEF MostUrgentRuns
<1> QED
  BY <1>2, <1>4, <1>5, <1>6, <1>7, SoundParts DEF Lists, n


-----------------------------------------------------------------------------
(* Waiting for an object *)

\* rt_thread_sleep and _thread_init concern one thread only.
LEMMA SleepWaits ==
    ASSUME NEW k \in KernelState, NEW t \in Thread, OffWaits(k, t), NEW d
    PROVE  /\ rt_thread_sleep(k, t, d).wait = k.wait
           /\ rt_thread_sleep(k, t, d).error = [k.error EXCEPT ![t] = "ok"]
<1> DEFINE e == [k EXCEPT !.error[t] = "ok"]
<1>1. /\ e \in KernelState /\ e.wait = k.wait
      /\ e.error = [k.error EXCEPT ![t] = "ok"]
  BY DEF KernelState, Error
<1>2. WaitsWithout(e, t) = e.wait
  BY <1>1, OffStays DEF OffWaits
<1>3. rt_thread_sleep(k, t, d) = rt_timer_start(rt_thread_suspend(e, t), t, d)
  BY DEF rt_thread_sleep
<1> HIDE DEF e
<1>4. SameWaits(e, rt_timer_start(rt_thread_suspend(e, t), t, d))
  BY <1>1, <1>2 DEF rt_thread_suspend, rt_timer_stop, rt_timer_start,
     rt_schedule_remove_thread, Unlink, WaitsWithout, SameWaits, KernelState
<1> QED BY <1>1, <1>3, <1>4 DEF SameWaits

\* _thread_init leaves every suspend list alone.
LEMMA CreateWaits ==
    ASSUME NEW k \in KernelState, NEW t \in Thread
    PROVE  /\ _thread_init(k, t).wait = k.wait
           /\ _thread_init(k, t).error = [k.error EXCEPT ![t] = "ok"]
           /\ _thread_init(k, t).prio = [k.prio EXCEPT ![t] = InitPrio[t]]
BY DEF _thread_init, KernelState

\* A thread suspends itself and is put on a suspend list, in any place.
LEMMA EnqueueSound ==
    ASSUME NEW k, Sound(k), NEW t \in Thread, t # Idle,
           k.stat[t] = "running", NEW w \in WaitList,
           NEW q \in Seq(Thread), NoDup(q), Members(q) = Members(k.wait[w]) \cup {t}
    PROVE  LET n == [rt_thread_suspend(k, t) EXCEPT !.wait[w] = q]
           IN  /\ Sound(n) /\ SameCurrent(k, n) /\ n.error = k.error
               /\ n.stat = [k.stat EXCEPT ![t] = "suspend"]
               /\ n.wait = [k.wait EXCEPT ![w] = q]
<1> DEFINE s == rt_thread_suspend(k, t)
           n == [s EXCEPT !.wait[w] = q]
<1>1. /\ Sound(s) /\ SameCurrent(k, s)
      /\ s.stat = [k.stat EXCEPT ![t] = "suspend"]
  BY SuspendSound
<1>2. k \in KernelState /\ OffWaits(k, t)
  BY AwakeOff DEF Sound
<1>3. SameWaits(k, s)
  BY <1>2, SuspendWaits
<1> HIDE DEF s
<1>4. /\ s \in KernelState /\ Lists(s) /\ CurrentConsistent(s) /\ IdleConsistent(s)
  BY <1>1, SoundParts
<1>5. /\ n \in KernelState /\ n.wait = [s.wait EXCEPT ![w] = q]
      /\ n.stat = s.stat /\ n.prio = s.prio /\ n.ready = s.ready
      /\ n.group = s.group /\ n.timers = s.timers /\ n.defunct = s.defunct
      /\ n.current = s.current /\ n.lock = s.lock /\ n.error = s.error
  BY <1>4 DEF KernelState
<1> HIDE DEF n
<1>6. /\ \A v \in WaitList : n.wait[v] = IF v = w THEN q ELSE k.wait[v]
      /\ k.stat \in [Thread -> Stat] /\ s.stat[t] = "suspend"
  <2>1. k.wait \in [WaitList -> Seq(Thread)] /\ k.stat \in [Thread -> Stat]
    BY <1>2 DEF KernelState
  <2> QED BY <1>1, <1>3, <1>5, <2>1 DEF SameWaits
<1>7. WaitConsistent(n)
  <2> SUFFICES ASSUME NEW v \in WaitList
               PROVE  /\ NoDup(n.wait[v])
                      /\ \A u \in Members(n.wait[v]) :
                            /\ s.stat[u] = "suspend"
                            /\ \A x \in WaitList \ {v} : u \notin Members(n.wait[x])
    BY <1>5 DEF WaitConsistent
  <2>1. /\ NoDup(s.wait[v])
        /\ \A u \in Members(s.wait[v]) :
              /\ s.stat[u] = "suspend"
              /\ \A x \in WaitList \ {v} : u \notin Members(s.wait[x])
    BY <1>4 DEF Lists, WaitConsistent
  <2>2. s.wait = k.wait
    BY <1>3 DEF SameWaits
  <2>3. \A u \in Members(n.wait[v]) : u = t \/ u \in Members(s.wait[v])
    BY <1>6, <2>2
  <2>4. \A u \in Members(n.wait[v]) : s.stat[u] = "suspend"
    BY <1>6, <2>1, <2>3
  <2>5. ASSUME NEW u \in Members(n.wait[v]), NEW x \in WaitList \ {v}
        PROVE  u \notin Members(n.wait[x])
    <3>1. CASE u = t
      BY <1>2, <1>6, <2>2, <3>1 DEF OffWaits
    <3>2. CASE u # t
      <4>1. u \in Members(s.wait[v]) /\ u \notin Members(s.wait[x])
        BY <2>1, <2>3, <3>2
      <4> QED BY <1>6, <2>2, <3>2, <4>1
    <3> QED BY <3>1, <3>2
  <2> QED BY <1>6, <2>1, <2>2, <2>4, <2>5
<1>8. Lists(n)
  BY <1>4, <1>5, <1>7 DEF Lists, ReadyConsistent, TimersConsistent,
     DefunctConsistent
<1>9. CurrentConsistent(n) /\ IdleConsistent(n)
  BY <1>4, <1>5 DEF CurrentConsistent, IdleConsistent
<1> QED
  BY <1>1, <1>3, <1>5, <1>8, <1>9, SoundParts DEF SameCurrent, SameWaits, n, s

\* n is k after the running thread t has been put on suspend list w.
Enqueued(k, n, w, t) ==
    /\ Sound(n) /\ SameCurrent(k, n) /\ n.error = k.error
    /\ n.stat = [k.stat EXCEPT ![t] = "suspend"]
    /\ \A v \in WaitList : v # w => n.wait[v] = k.wait[v]
    /\ Members(n.wait[w]) = Members(k.wait[w]) \cup {t}

\* _ipc_list_suspend of the running thread with RT_IPC_FLAG_FIFO.
LEMMA FifoSound ==
    ASSUME NEW k, Sound(k), NEW t \in Thread, t # Idle, k.stat[t] = "running",
           NEW w \in WaitList
    PROVE  Enqueued(k, SuspendFifo(k, w, t), w, t)
<1> DEFINE q == Append(k.wait[w], t)
           n == SuspendFifo(k, w, t)
<1>1. /\ k \in KernelState /\ OffWaits(k, t) /\ k.wait[w] \in Seq(Thread)
      /\ NoDup(k.wait[w]) /\ k.wait \in [WaitList -> Seq(Thread)]
  BY AwakeOff DEF Sound, Consistent, WaitConsistent, KernelState
<1>2. rt_thread_suspend(k, t).wait = k.wait
  BY <1>1, SuspendWaits DEF SameWaits
<1>3. n = [rt_thread_suspend(k, t) EXCEPT !.wait[w] = q]
  BY <1>2 DEF SuspendFifo
<1>4. q \in Seq(Thread) /\ NoDup(q) /\ Members(q) = Members(k.wait[w]) \cup {t}
  BY <1>1, MembersAppend DEF OffWaits
<1> HIDE DEF q, n
<1>5. /\ Sound(n) /\ SameCurrent(k, n) /\ n.error = k.error
      /\ n.stat = [k.stat EXCEPT ![t] = "suspend"]
      /\ n.wait = [k.wait EXCEPT ![w] = q]
  <2>1. LET m == [rt_thread_suspend(k, t) EXCEPT !.wait[w] = q]
        IN  /\ Sound(m) /\ SameCurrent(k, m) /\ m.error = k.error
            /\ m.stat = [k.stat EXCEPT ![t] = "suspend"]
            /\ m.wait = [k.wait EXCEPT ![w] = q]
    BY <1>4, EnqueueSound
  <2> QED BY <1>3, <2>1
<1> QED BY <1>1, <1>4, <1>5 DEF n, Enqueued

\* The same with RT_IPC_FLAG_PRIO: a list that is in order stays in order.
LEMMA PrioSound ==
    ASSUME NEW k, Sound(k), NEW t \in Thread, t # Idle, k.stat[t] = "running",
           NEW w \in WaitList
    PROVE  LET n == SuspendPrio(k, w, t)
           IN  /\ Enqueued(k, n, w, t)
               /\ Ordered(k.wait[w], k.prio) => Ordered(n.wait[w], n.prio)
<1> DEFINE s == k.wait[w]
           i == FirstOf(s, {j \in 1 .. Len(s) : k.prio[t] < k.prio[s[j]]})
           q == InsertAt(s, i, t)
           n == SuspendPrio(k, w, t)
<1>1. /\ k \in KernelState /\ OffWaits(k, t) /\ s \in Seq(Thread)
      /\ NoDup(s) /\ k.wait \in [WaitList -> Seq(Thread)]
      /\ k.prio \in [Thread -> Int]
  <2>1. k.prio \in [Thread -> Priority] /\ Priority \subseteq Int
    BY PrioritiesAssumption DEF Sound, KernelState, Priority
  <2>2. k.prio \in [Thread -> Int]
    BY <2>1
  <2> QED BY <2>2, AwakeOff DEF Sound, Consistent, WaitConsistent, KernelState
<1>2. rt_thread_suspend(k, t).wait = k.wait
  BY <1>1, SuspendWaits DEF SameWaits
<1>3. n = [rt_thread_suspend(k, t) EXCEPT !.wait[w] = q]
  BY <1>2 DEF SuspendPrio
<1>4. i \in 1 .. Len(s) + 1
  BY <1>1, FirstOfIsPosition
<1>5. q \in Seq(Thread) /\ NoDup(q) /\ Members(q) = Members(s) \cup {t}
  <2> HIDE DEF s, i
  <2>1. t \notin Members(s)
    BY <1>1 DEF OffWaits, s
  <2> QED BY <1>1, <1>4, <2>1, MembersInsertAt
<1>6. Ordered(s, k.prio) => Ordered(q, k.prio)
  <2> HIDE DEF s
  <2> QED BY <1>1, OrderedInsert
<1> HIDE DEF q, n
<1>7. /\ Sound(n) /\ SameCurrent(k, n) /\ n.error = k.error
      /\ n.stat = [k.stat EXCEPT ![t] = "suspend"]
      /\ n.wait = [k.wait EXCEPT ![w] = q]
  <2>1. LET m == [rt_thread_suspend(k, t) EXCEPT !.wait[w] = q]
        IN  /\ Sound(m) /\ SameCurrent(k, m) /\ m.error = k.error
            /\ m.stat = [k.stat EXCEPT ![t] = "suspend"]
            /\ m.wait = [k.wait EXCEPT ![w] = q]
    BY <1>5, EnqueueSound
  <2> QED BY <1>3, <2>1
<1> QED BY <1>1, <1>5, <1>6, <1>7 DEF n, SameCurrent, Enqueued

-----------------------------------------------------------------------------
(* _ipc_list_resume_all *)

\* g[i] is the kernel after i rounds of the loop over the threads s.
IsRounds(g, k, s, N) ==
    g = [i \in 0 .. N |-> IF i = 0 THEN k ELSE ResumeWithError(g[i - 1], s[i])]

\* The rounds of the loop define a function.
LEMMA RoundsExist ==
    ASSUME NEW k, NEW s, NEW N \in Nat
    PROVE  \E g : IsRounds(g, k, s, N)
<1> DEFINE Rounds(g, m) == IsRounds(g, k, s, m)
           Bad == {m \in Nat : ~ \E g : Rounds(g, m)}
<1>1. SUFFICES ASSUME Bad # {} PROVE FALSE
  OBVIOUS
<1>2. Min(Bad) \in Bad /\ \A m \in Bad : Min(Bad) <= m
  BY <1>1, MinIsLeast
<1> DEFINE m == Min(Bad)
<1>3. m \in Nat /\ ~ (\E g : Rounds(g, m)) /\ \A j \in Bad : m <= j
  BY <1>2
<1> HIDE DEF m
<1>4. m # 0
  <2>1. Rounds([i \in 0 .. 0 |-> k], 0)
    BY DEF IsRounds
  <2> HIDE DEF Rounds
  <2> QED BY <1>3, <2>1
<1>5. m - 1 \in Nat /\ m - 1 \notin Bad
  <2> HIDE DEF Bad
  <2> QED BY <1>3, <1>4
<1>6. PICK h : Rounds(h, m - 1)
  BY <1>5
<1> DEFINE g == [i \in 0 .. m |-> IF i = m THEN ResumeWithError(h[m - 1], s[m])
                                           ELSE h[i]]
<1>7. \A i \in 0 .. m :
         g[i] = IF i = 0 THEN k ELSE ResumeWithError(g[i - 1], s[i])
  <2> SUFFICES ASSUME NEW i \in 0 .. m
               PROVE  g[i] = IF i = 0 THEN k ELSE ResumeWithError(g[i - 1], s[i])
    OBVIOUS
  <2>1. CASE i = m
    <3>1. g[m] = ResumeWithError(h[m - 1], s[m]) /\ m - 1 \in 0 .. m /\ m - 1 # m
      BY <1>3, <1>5
    <3>2. g[m - 1] = h[m - 1]
      BY <3>1
    <3> QED BY <1>4, <2>1, <3>1, <3>2
  <2>2. CASE i # m
    <3>1. i \in 0 .. m - 1 /\ g[i] = h[i]
      BY <1>3, <2>2
    <3>2. h[i] = IF i = 0 THEN k ELSE ResumeWithError(h[i - 1], s[i])
      BY <1>6, <3>1 DEF IsRounds
    <3>3. i # 0 => i - 1 \in 0 .. m /\ i - 1 # m
      BY <1>3, <2>2
    <3> QED BY <3>1, <3>2, <3>3
  <2> QED BY <2>1, <2>2
<1>8. Rounds(g, m)
  BY <1>7 DEF IsRounds
<1> QED BY <1>3, <1>8


\* _ipc_list_resume_all empties the suspend list and tells every thread that
\* was on it -RT_ERROR; nobody else is touched.
LEMMA ResumeAllSound ==
    ASSUME NEW k, Sound(k), NEW w \in WaitList
    PROVE  LET n == _ipc_list_resume_all(k, w)
           IN  /\ Sound(n) /\ SameCurrent(k, n)
               /\ n.wait = [k.wait EXCEPT ![w] = <<>>]
               /\ \A t \in Thread :
                     IF t \in Members(k.wait[w])
                     THEN n.error[t] = "error" /\ n.stat[t] \in {"ready", "running"}
                     ELSE n.error[t] = k.error[t] /\ n.stat[t] = k.stat[t]
<1> DEFINE s == k.wait[w]
           g == CHOOSE f : IsRounds(f, k, s, Len(s))
           Done(i) == {s[j] : j \in 1 .. i}
           Left(i) == {s[j] : j \in i + 1 .. Len(s)}
           Good(i) ==
              /\ Sound(g[i]) /\ SameCurrent(k, g[i])
              /\ \A v \in WaitList : v # w => g[i].wait[v] = k.wait[v]
              /\ Members(g[i].wait[w]) = Left(i)
              /\ \A t \in Thread :
                    IF t \in Done(i)
                    THEN /\ g[i].error[t] = "error"
                         /\ g[i].stat[t] \in {"ready", "running"}
                    ELSE g[i].error[t] = k.error[t] /\ g[i].stat[t] = k.stat[t]
           Bad == {i \in 0 .. Len(s) : ~ Good(i)}
<1>1. _ipc_list_resume_all(k, w) = g[Len(s)]
  BY DEF _ipc_list_resume_all, IsRounds
<1>2. /\ s \in Seq(Thread) /\ NoDup(s) /\ Len(s) \in Nat /\ k \in KernelState
      /\ k.wait \in [WaitList -> Seq(Thread)]
  BY DEF Sound, Consistent, WaitConsistent, KernelState
<1>3. IsRounds(g, k, s, Len(s))
  BY <1>2, RoundsExist
<1> HIDE DEF g, s
<1>4. g[0] = k
  BY <1>2, <1>3 DEF IsRounds
<1>5. ASSUME NEW i \in 1 .. Len(s) PROVE g[i] = ResumeWithError(g[i - 1], s[i])
  BY <1>2, <1>3 DEF IsRounds
<1>6. Good(0)
  <2>1. Left(0) = Members(s) /\ Done(0) = {}
    BY <1>2 DEF Members
  <2>2. SameCurrent(k, k)
    BY DEF SameCurrent
  <2> QED BY <1>4, <2>1, <2>2 DEF s
<1>7. ASSUME NEW i \in 1 .. Len(s), Good(i - 1) PROVE Good(i)
  <2> DEFINE r == g[i - 1]
             t == s[i]
             e == [r EXCEPT !.error[t] = "error"]
             n == rt_thread_resume(e, t)
  <2>1. g[i] = n
    BY <1>5 DEF ResumeWithError
  <2>2. /\ Sound(r) /\ SameCurrent(k, r) /\ r \in KernelState
        /\ \A v \in WaitList : v # w => r.wait[v] = k.wait[v]
        /\ Members(r.wait[w]) = Left(i - 1)
        /\ \A u \in Thread :
              IF u \in Done(i - 1)
              THEN r.error[u] = "error" /\ r.stat[u] \in {"ready", "running"}
              ELSE r.error[u] = k.error[u] /\ r.stat[u] = k.stat[u]
    BY <1>7 DEF Sound
  <2>3. /\ t \in Thread /\ t \in Left(i - 1) /\ t \notin Left(i)
        /\ Left(i - 1) \ {t} = Left(i) /\ Done(i) = Done(i - 1) \cup {t}
    <3>1. t \in Thread /\ i \in Nat \ {0} /\ i <= Len(s)
      BY <1>2
    <3>2. \A j \in i + 1 .. Len(s) : s[j] # t
      BY <1>2, <3>1 DEF NoDup
    <3>3. Left(i - 1) = Left(i) \cup {t}
      <4>1. \A j : j \in i - 1 + 1 .. Len(s) <=> j = i \/ j \in i + 1 .. Len(s)
        BY <1>2, <3>1
      <4> QED BY <4>1
    <3>4. Done(i) = Done(i - 1) \cup {t}
      <4>1. \A j : j \in 1 .. i <=> j = i \/ j \in 1 .. i - 1
        BY <3>1
      <4> QED BY <4>1
    <3>5. t \notin Left(i)
      BY <3>2
    <3> HIDE DEF Left, Done, t
    <3> QED BY <3>1, <3>3, <3>4, <3>5
  <2> HIDE DEF r, t
  <2>4. /\ e \in KernelState /\ e.stat = r.stat /\ e.prio = r.prio
        /\ e.ready = r.ready /\ e.group = r.group /\ e.wait = r.wait
        /\ e.timers = r.timers /\ e.defunct = r.defunct
        /\ e.current = r.current /\ e.lock = r.lock
        /\ e.error = [r.error EXCEPT ![t] = "error"]
    BY <2>2 DEF KernelState, Error
  <2> HIDE DEF e
  <2>5. Sound(e) /\ SameCurrent(k, e) /\ e.stat[t] = "suspend"
    <3>1. r.stat[t] = "suspend"
      BY <2>2, <2>3 DEF Sound, Consistent, WaitConsistent
    <3> QED BY <2>2, <2>4, <3>1, SoundSame DEF SameCurrent
  <2>6. /\ Sound(n) /\ SameCurrent(e, n)
        /\ n.stat = [e.stat EXCEPT ![t] =
                        IF t = e.current THEN "running" ELSE "ready"]
    BY <2>3, <2>5, ResumeSound
  <2>7. n.wait = WaitsWithout(e, t) /\ n.error = e.error
    BY <2>3, <2>4, <2>5, ResumeWaits
  <2> HIDE DEF n
  <2>8. SameCurrent(k, n)
    BY <2>5, <2>6 DEF SameCurrent
  <2>9. /\ \A v \in WaitList : v # w => n.wait[v] = k.wait[v]
        /\ Members(n.wait[w]) = Left(i)
    <3>1. \A v \in WaitList : n.wait[v] = Without(r.wait[v], t)
      BY <2>4, <2>7 DEF WaitsWithout
    <3>2. ASSUME NEW v \in WaitList, v # w PROVE Without(r.wait[v], t) = r.wait[v]
      <4>1. t \notin Members(r.wait[v])
        BY <2>2, <2>3, <3>2 DEF Sound, Consistent, WaitConsistent
      <4> QED BY <4>1 DEF Without
    <3>3. Members(Without(r.wait[w], t)) = Members(r.wait[w]) \ {t}
      <4>1. r.wait[w] \in Seq(Thread) /\ NoDup(r.wait[w])
        BY <2>2 DEF Sound, Consistent, WaitConsistent, KernelState
      <4> QED BY <4>1, MembersWithout
    <3> QED BY <2>2, <2>3, <3>1, <3>2, <3>3
  <2>10. ASSUME NEW u \in Thread
         PROVE  IF u \in Done(i)
                THEN n.error[u] = "error" /\ n.stat[u] \in {"ready", "running"}
                ELSE n.error[u] = k.error[u] /\ n.stat[u] = k.stat[u]
    <3>1. r.error \in [Thread -> Error] /\ r.stat \in [Thread -> Stat]
      BY <2>2 DEF KernelState
    <3>2. u # t => n.error[u] = r.error[u] /\ n.stat[u] = r.stat[u]
      BY <2>4, <2>6, <2>7, <3>1
    <3>3. n.error[t] = "error" /\ n.stat[t] \in {"ready", "running"}
      BY <2>3, <2>4, <2>6, <2>7, <3>1
    <3> QED BY <2>2, <2>3, <3>2, <3>3
  <2> QED BY <2>1, <2>6, <2>8, <2>9, <2>10
<1>8. Good(Len(s))
  <2> HIDE DEF Good
  <2> SUFFICES ASSUME Bad # {} PROVE FALSE
    <3>1. Len(s) \in 0 .. Len(s)
      BY <1>2
    <3> QED BY <3>1
  <2>1. Min(Bad) \in Bad /\ \A m \in Bad : Min(Bad) <= m
    <3>1. Bad \in SUBSET Nat
      BY <1>2
    <3> QED BY <3>1, MinIsLeast
  <2> DEFINE m == Min(Bad)
  <2>2. m \in 0 .. Len(s) /\ ~ Good(m) /\ m # 0
    BY <1>6, <2>1
  <2>3. m - 1 \notin Bad /\ m - 1 \in 0 .. Len(s) /\ m \in 1 .. Len(s)
    BY <1>2, <2>1, <2>2
  <2> HIDE DEF m
  <2> QED BY <1>7, <2>2, <2>3
<1>9. Done(Len(s)) = Members(s) /\ Left(Len(s)) = {}
  <2>1. Len(s) + 1 .. Len(s) = {}
    BY <1>2
  <2> QED BY <2>1 DEF Members
<1> DEFINE n == g[Len(s)]
<1>10. n.wait = [k.wait EXCEPT ![w] = <<>>]
  <2>1. n.wait \in [WaitList -> Seq(Thread)] /\ Members(n.wait[w]) = {}
    BY <1>8, <1>9 DEF Sound, KernelState
  <2>2. \A v \in WaitList : v # w => n.wait[v] = k.wait[v]
    BY <1>8
  <2> HIDE DEF n, Good
  <2>3. n.wait[w] = <<>>
    <3>1. n.wait[w] \in Seq(Thread)
      BY <2>1
    <3> QED BY <2>1, <3>1, MembersTail
  <2> QED BY <1>2, <2>1, <2>2, <2>3
<1> QED BY <1>1, <1>8, <1>9, <1>10 DEF s


\* thread->error is set.
LEMMA ErrorSound ==
    ASSUME NEW k, Sound(k), NEW t \in Thread, NEW x \in Error
    PROVE  LET e == [k EXCEPT !.error[t] = x]
           IN  /\ Sound(e) /\ SameCurrent(k, e) /\ e.stat = k.stat
               /\ e.wait = k.wait /\ e.error = [k.error EXCEPT ![t] = x]
<1> DEFINE e == [k EXCEPT !.error[t] = x]
<1>1. /\ e \in KernelState /\ e.stat = k.stat /\ e.prio = k.prio
      /\ e.ready = k.ready /\ e.group = k.group /\ e.wait = k.wait
      /\ e.timers = k.timers /\ e.defunct = k.defunct
      /\ e.current = k.current /\ e.lock = k.lock
      /\ e.error = [k.error EXCEPT ![t] = x]
  BY DEF Sound, KernelState
<1> HIDE DEF e
<1>2. Sound(e)
  BY <1>1, SoundSame
<1> QED BY <1>1, <1>2 DEF SameCurrent, e
=============================================================================
