--------------------------- MODULE ObjectsProofs ----------------------------
(***************************************************************************)
(* Proofs about the objects that threads and an interrupt handler share.   *)
(*                                                                         *)
(* Each operation of an object is first shown to do one of a few things    *)
(* to the kernel, to the calls and to the object (MbOutcome, MqOutcome,    *)
(* EventOutcome, PoolOutcome, CompletionOutcome, SerialOutcome; Outcome for*)
(* all of them), and to keep the invariant of the kernel that              *)
(* SchedulerProofs proves.  The invariants of the objects are then shown   *)
(* for these outcomes, and do not look at the operations any more.         *)
(***************************************************************************)
EXTENDS Objects, SchedulerProofs, FiniteSetTheorems

-----------------------------------------------------------------------------
(* Rings: the words of the mailbox and of the buffer of the console *)

\* An offset that has gone round at most once.
Wrap(z, x) == IF x < z THEN x ELSE x - z

\* n words from offset g on, in a ring of size z.
Ring(buf, z, g, n) == [i \in 1 .. n |-> buf[Wrap(z, g + i - 1)]]

\* Such an offset is a remainder.
LEMMA WrapIsMod ==
    ASSUME NEW z \in Nat \ {0}, NEW x \in Nat, x < z + z
    PROVE  x % z = Wrap(z, x)
<1>1. CASE x < z
  BY <1>1 DEF Wrap
<1>2. CASE x >= z
  <2>1. x = z * 1 + (x - z) /\ 0 <= x - z /\ x - z < z
    BY <1>2
  <2>2. x % z = x - z
    BY <2>1, SMT
  <2> QED BY <1>2, <2>1, <2>2 DEF Wrap
<1> QED BY <1>1, <1>2

\* The words as the modules Mailbox and Serial name them.
ModRing(buf, z, g, n) ==
    [i \in 1 .. n |-> buf[(g + i - 1) % z]] = Ring(buf, z, g, n)

\* The remainder of the C code and the wrap of an index are the same ring.
LEMMA RingIsMod ==
    ASSUME NEW z \in Nat \ {0}, NEW g \in 0 .. (z - 1), NEW n \in 0 .. z, NEW buf
    PROVE  ModRing(buf, z, g, n)
<1>1. ASSUME NEW i \in 1 .. n PROVE (g + i - 1) % z = Wrap(z, g + i - 1)
  <2>1. g + i - 1 \in Nat /\ g + i - 1 < z + z
    OBVIOUS
  <2> QED BY <2>1, WrapIsMod
<1> QED BY <1>1 DEF Ring, ModRing

\* A sequence is the function of its elements.
LEMMA SeqIsFcn ==
    ASSUME NEW S, NEW s \in Seq(S), NEW n \in Nat, Len(s) = n
    PROVE  s = [i \in 1 .. n |-> s[i]]
OBVIOUS

\* The first word leaves.
LEMMA RingTail ==
    ASSUME NEW z \in Nat \ {0}, NEW g \in 0 .. (z - 1), NEW n \in 1 .. z, NEW buf
    PROVE  Ring(buf, z, Wrap(z, g + 1), n - 1) = Tail(Ring(buf, z, g, n))
<1> DEFINE S == {buf[x] : x \in 0 .. (z - 1)}
           r == Ring(buf, z, g, n)
           r2 == Ring(buf, z, Wrap(z, g + 1), n - 1)
<1>1. \A i \in 1 .. n : Wrap(z, g + i - 1) \in 0 .. (z - 1)
  BY DEF Wrap
<1>2. r \in [1 .. n -> S]
  BY <1>1 DEF Ring
<1> HIDE DEF S
<1>3. r \in Seq(S) /\ Len(r) = n
  BY <1>2
<1>4. r2 = [i \in 1 .. (n - 1) |-> r[i + 1]]
  <2>1. \A i \in 1 .. (n - 1) :
           /\ Wrap(z, Wrap(z, g + 1) + i - 1) = Wrap(z, g + (i + 1) - 1)
           /\ i + 1 \in 1 .. n
    BY DEF Wrap
  <2> QED BY <2>1 DEF Ring
<1> HIDE DEF r, r2
<1>5. Tail(r) = [i \in 1 .. (n - 1) |-> r[i + 1]]
  <2>1. /\ Tail(r) \in Seq(S) /\ Len(Tail(r)) = n - 1
        /\ \A i \in 1 .. (n - 1) : Tail(r)[i] = r[i + 1]
    BY <1>3
  <2>2. Tail(r) = [i \in 1 .. (n - 1) |-> Tail(r)[i]]
    <3>1. n - 1 \in Nat
      OBVIOUS
    <3> QED BY <2>1, <3>1, SeqIsFcn
  <2> QED BY <2>1, <2>2
<1> QED BY <1>4, <1>5 DEF r, r2

\* A word comes to the end.
AtEnd(buf, z, g, n, c) ==
    Ring([buf EXCEPT ![Wrap(z, g + n)] = c], z, g, n + 1) = Append(Ring(buf, z, g, n), c)

\* What is written at the index after the last one is the last of the ring.
LEMMA RingAppend ==
    ASSUME NEW z \in Nat \ {0}, NEW g \in 0 .. (z - 1), NEW n \in 0 .. (z - 1), NEW buf,
           DOMAIN buf = 0 .. (z - 1), NEW c
    PROVE  AtEnd(buf, z, g, n, c)
<1> DEFINE S == {buf[x] : x \in 0 .. (z - 1)} \cup {c}
           p == Wrap(z, g + n)
           b2 == [buf EXCEPT ![p] = c]
           r == Ring(buf, z, g, n)
           r2 == Ring(b2, z, g, n + 1)
<1>1. /\ p \in 0 .. (z - 1) /\ n \in Nat
      /\ \A i \in 1 .. n : /\ Wrap(z, g + i - 1) \in 0 .. (z - 1)
                           /\ Wrap(z, g + i - 1) # p
      /\ Wrap(z, g + (n + 1) - 1) = p
  BY DEF Wrap
<1>2. r \in [1 .. n -> S] /\ DOMAIN r2 = 1 .. (n + 1)
  BY <1>1 DEF Ring
<1> HIDE DEF S
<1>3. r \in Seq(S) /\ Len(r) = n
  BY <1>1, <1>2
<1> HIDE DEF p
<1>4. \A i \in 0 .. (z - 1) : b2[i] = IF i = p THEN c ELSE buf[i]
  BY <1>1
<1> HIDE DEF b2
<1>5. ASSUME NEW i \in 1 .. (n + 1)
      PROVE  r2[i] = IF i = n + 1 THEN c ELSE r[i]
  <2>1. r2[i] = b2[Wrap(z, g + i - 1)]
    BY DEF Ring
  <2>2. CASE i = n + 1
    <3>1. Wrap(z, g + i - 1) = p
      BY <1>1, <2>2
    <3> QED BY <1>1, <1>4, <2>1, <2>2, <3>1
  <2>3. CASE i # n + 1
    <3>1. i \in 1 .. n
      BY <1>1, <2>3
    <3>2. r[i] = buf[Wrap(z, g + i - 1)]
      BY <3>1 DEF Ring
    <3> QED BY <1>1, <1>4, <2>1, <2>3, <3>1, <3>2
  <2> QED BY <2>2, <2>3
<1>6. r2 = [i \in 1 .. (n + 1) |-> IF i = n + 1 THEN c ELSE r[i]]
  <2>1. r2 = [i \in 1 .. (n + 1) |-> r2[i]]
    BY DEF Ring
  <2> QED BY <1>5, <2>1
<1> HIDE DEF r, r2
<1>7. Append(r, c) = [i \in 1 .. (n + 1) |-> IF i = n + 1 THEN c ELSE r[i]]
  <2>1. /\ Append(r, c) \in Seq(S \cup {c}) /\ Len(Append(r, c)) = n + 1
        /\ \A i \in 1 .. (n + 1) :
              Append(r, c)[i] = IF i = n + 1 THEN c ELSE r[i]
    BY <1>1, <1>3
  <2>2. Append(r, c) = [i \in 1 .. (n + 1) |-> Append(r, c)[i]]
    <3>1. n + 1 \in Nat
      OBVIOUS
    <3> QED BY <2>1, <3>1, SeqIsFcn
  <2> QED BY <2>1, <2>2
<1> QED BY <1>6, <1>7 DEF r, r2, b2, p, AtEnd

\* A word comes to the front.
AtFront(buf, z, p, n, c) ==
    Ring([buf EXCEPT ![p] = c], z, p, n + 1) = <<c>> \o Ring(buf, z, Wrap(z, p + 1), n)

\* What is written before the first one is the first of the ring.
LEMMA RingFront ==
    ASSUME NEW z \in Nat \ {0}, NEW p \in 0 .. (z - 1), NEW n \in 0 .. (z - 1), NEW buf,
           DOMAIN buf = 0 .. (z - 1), NEW c
    PROVE  AtFront(buf, z, p, n, c)
<1> DEFINE S == {buf[x] : x \in 0 .. (z - 1)} \cup {c}
           g == Wrap(z, p + 1)
           b2 == [buf EXCEPT ![p] = c]
           r == Ring(buf, z, g, n)
           r2 == Ring(b2, z, p, n + 1)
<1>1. /\ n \in Nat
      /\ \A i \in 1 .. n : /\ Wrap(z, g + i - 1) \in 0 .. (z - 1)
                           /\ Wrap(z, g + i - 1) # p
                           /\ Wrap(z, p + (i + 1) - 1) = Wrap(z, g + i - 1)
      /\ Wrap(z, p + 1 - 1) = p
  BY DEF Wrap
<1> HIDE DEF g
<1>2. r \in [1 .. n -> S]
  BY <1>1 DEF Ring
<1> HIDE DEF S
<1>3. r \in Seq(S) /\ Len(r) = n
  BY <1>1, <1>2
<1>4. \A i \in 0 .. (z - 1) : b2[i] = IF i = p THEN c ELSE buf[i]
  OBVIOUS
<1> HIDE DEF b2
<1>5. ASSUME NEW i \in 1 .. (n + 1)
      PROVE  r2[i] = IF i = 1 THEN c ELSE r[i - 1]
  <2>1. r2[i] = b2[Wrap(z, p + i - 1)]
    BY DEF Ring
  <2>2. CASE i = 1
    <3>1. Wrap(z, p + i - 1) = p
      BY <1>1, <2>2
    <3> QED BY <1>1, <1>4, <2>1, <2>2, <3>1
  <2>3. CASE i # 1
    <3>1. PICK j \in 1 .. n : i = j + 1
      <4>1. i - 1 \in 1 .. n /\ i = (i - 1) + 1
        BY <1>1, <2>3
      <4> QED BY <4>1
    <3>2. r[j] = buf[Wrap(z, g + j - 1)] /\ i - 1 = j
      BY <3>1 DEF Ring
    <3>3. r2[i] = b2[Wrap(z, g + j - 1)]
      BY <1>1, <2>1, <3>1
    <3> QED BY <1>1, <1>4, <2>3, <3>1, <3>2, <3>3
  <2> QED BY <2>2, <2>3
<1>6. r2 = [i \in 1 .. (n + 1) |-> IF i = 1 THEN c ELSE r[i - 1]]
  <2>1. r2 = [i \in 1 .. (n + 1) |-> r2[i]]
    BY DEF Ring
  <2> QED BY <1>5, <2>1
<1> HIDE DEF r, r2
<1>7. <<c>> \o r = [i \in 1 .. (n + 1) |-> IF i = 1 THEN c ELSE r[i - 1]]
  BY <1>1, <1>3
<1> QED BY <1>6, <1>7 DEF r, r2, b2, g, AtFront

\* The words of a ring are of a type.
Words(buf, z, S) == buf \in [0 .. (z - 1) -> S]

\* A ring is a sequence of its words.
LEMMA RingSeq ==
    ASSUME NEW z \in Nat \ {0}, NEW g \in 0 .. (z - 1), NEW n \in 0 .. z, NEW S,
           NEW buf, Words(buf, z, S)
    PROVE  Ring(buf, z, g, n) \in Seq(S) /\ Len(Ring(buf, z, g, n)) = n
<1>1. n \in Nat /\ \A i \in 1 .. n : Wrap(z, g + i - 1) \in 0 .. (z - 1)
  BY DEF Wrap
<1>2. Ring(buf, z, g, n) \in [1 .. n -> S]
  BY <1>1 DEF Ring, Words
<1> QED BY <1>1, <1>2

-----------------------------------------------------------------------------
(* The reset of the message queue *)

\* g[i] is the queue after i rounds of the loop over the cells s.
IsDrain(g, o, s, N) ==
    g = [i \in 0 .. N |-> IF i = 0 THEN o ELSE Drained(g[i - 1], s[i])]

\* The rounds of the loop define a function.
LEMMA DrainExists ==
    ASSUME NEW o, NEW s, NEW N \in Nat
    PROVE  \E g : IsDrain(g, o, s, N)
<1> DEFINE Rounds(g, m) == IsDrain(g, o, s, m)
           Bad == {m \in Nat : ~ \E g : Rounds(g, m)}
<1>1. SUFFICES ASSUME Bad # {} PROVE FALSE
  OBVIOUS
<1>2. Min(Bad) \in Bad /\ \A m \in Bad : Min(Bad) <= m
  BY <1>1, MinIsLeast
<1> DEFINE m == Min(Bad)
<1>3. m \in Nat /\ ~ (\E g : Rounds(g, m)) /\ \A j \in Bad : m <= j
  BY <1>2
<1> HIDE DEF m
<1>4. m # 0
  <2>1. Rounds([i \in 0 .. 0 |-> o], 0)
    BY DEF IsDrain
  <2> HIDE DEF Rounds
  <2> QED BY <1>3, <2>1
<1>5. m - 1 \in Nat /\ m - 1 \notin Bad
  <2> HIDE DEF Bad
  <2> QED BY <1>3, <1>4
<1>6. PICK h : Rounds(h, m - 1)
  BY <1>5
<1> DEFINE g == [i \in 0 .. m |-> IF i = m THEN Drained(h[m - 1], s[m]) ELSE h[i]]
<1>7. \A i \in 0 .. m : g[i] = IF i = 0 THEN o ELSE Drained(g[i - 1], s[i])
  <2> SUFFICES ASSUME NEW i \in 0 .. m
               PROVE  g[i] = IF i = 0 THEN o ELSE Drained(g[i - 1], s[i])
    OBVIOUS
  <2>1. CASE i = m
    <3>1. g[m] = Drained(h[m - 1], s[m]) /\ m - 1 \in 0 .. m /\ m - 1 # m
      BY <1>3, <1>5
    <3>2. g[m - 1] = h[m - 1]
      BY <3>1
    <3> QED BY <1>4, <2>1, <3>1, <3>2
  <2>2. CASE i # m
    <3>1. i \in 0 .. m - 1 /\ g[i] = h[i]
      BY <1>3, <2>2
    <3>2. h[i] = IF i = 0 THEN o ELSE Drained(h[i - 1], s[i])
      BY <1>6, <3>1 DEF IsDrain
    <3>3. i # 0 => i - 1 \in 0 .. m /\ i - 1 # m
      BY <1>3, <2>2
    <3> QED BY <3>1, <3>2, <3>3
  <2> QED BY <2>1, <2>2
<1>8. Rounds(g, m)
  BY <1>7 DEF IsDrain
<1> QED BY <1>3, <1>8

\* AllDrained is the last of the rounds.
LEMMA AllDrainedIs ==
    ASSUME NEW o, NEW s, Len(s) \in Nat
    PROVE  \E g : /\ AllDrained(o, s) = g[Len(s)] /\ g[0] = o
                  /\ \A i \in 1 .. Len(s) : g[i] = Drained(g[i - 1], s[i])
<1> DEFINE N == Len(s)
           G == CHOOSE g : IsDrain(g, o, s, N)
<1>1. \E g : IsDrain(g, o, s, N)
  BY DrainExists
<1>2. IsDrain(G, o, s, N)
  BY <1>1
<1>3. AllDrained(o, s) = G[N]
  BY DEF AllDrained, IsDrain
<1> HIDE DEF G
<1>4. G[0] = o /\ \A i \in 1 .. N : G[i] = Drained(G[i - 1], s[i])
  BY <1>2 DEF IsDrain
<1> QED BY <1>3, <1>4

\* The rounds change the links, the head, the tail and the free list.
LEMMA DrainedFields ==
    ASSUME NEW o, NEW c, "kind" \in DOMAIN o
    PROVE  "kind" \in DOMAIN Drained(o, c) /\ Drained(o, c).kind = o.kind
BY DEF Drained, Freed, Unlinked

\* The loop of RT_IPC_CMD_RESET leaves the kind of the object.
LEMMA AllDrainedKind ==
    ASSUME NEW o, NEW s, Len(s) \in Nat, "kind" \in DOMAIN o
    PROVE  "kind" \in DOMAIN AllDrained(o, s) /\ AllDrained(o, s).kind = o.kind
<1> DEFINE N == Len(s)
<1>1. PICK g : /\ AllDrained(o, s) = g[N] /\ g[0] = o
               /\ \A i \in 1 .. N : g[i] = Drained(g[i - 1], s[i])
  BY AllDrainedIs
<1> DEFINE P(i) == "kind" \in DOMAIN g[i] /\ g[i].kind = o.kind
           Bad == {i \in 0 .. N : ~ P(i)}
<1>2. CASE Bad = {}
  BY <1>1, <1>2
<1>3. CASE Bad # {}
  <2>1. Bad \subseteq Nat
    OBVIOUS
  <2>2. PICK m : m \in Bad /\ \A j \in Bad : m <= j
    BY <1>3, <2>1, MinIsLeast
  <2>3. m \in 0 .. N /\ ~ P(m)
    BY <2>2
  <2>4. P(0)
    BY <1>1
  <2>5. m - 1 \in 0 .. N /\ m \in 1 .. N
    BY <2>3, <2>4
  <2>6. m - 1 \notin Bad
    <3> HIDE DEF Bad
    <3> QED BY <2>2, <2>5
  <2>7. P(m - 1)
    BY <2>5, <2>6
  <2>8. g[m] = Drained(g[m - 1], s[m])
    BY <1>1, <2>5
  <2> QED BY <2>3, <2>7, <2>8, DrainedFields
<1> QED BY <1>2, <1>3

-----------------------------------------------------------------------------
(* The object keeps its kind *)

HasKind == "kind" \in DOMAIN obj

SameKind == HasKind' /\ obj'.kind = obj.kind

\* The walk along a chain gives a list of some length.
LEMMA ChainLength ==
    ASSUME NEW next, NEW c, NEW max \in Nat PROVE Len(Chain(next, c, max)) \in Nat
<1> DEFINE node == CHOOSE g : g = [i \in 0 .. max |->
                        IF i = 0 THEN c
                        ELSE IF g[i - 1] \in DOMAIN next THEN next[g[i - 1]]
                        ELSE g[i - 1]]
           ends == {i \in 0 .. max : node[i] \notin DOMAIN next}
           n == IF ends = {} THEN max + 1 ELSE Min(ends)
<1>1. Chain(next, c, max) = [i \in 1 .. n |-> node[i - 1]]
  BY DEF Chain
<1>2. ends \subseteq Nat
  OBVIOUS
<1>3. n \in Nat
  <2> HIDE DEF ends
  <2>1. ends # {} => Min(ends) \in Nat
    BY <1>2, MinIsLeast
  <2> QED BY <2>1
<1> HIDE DEF n, node
<1> QED BY <1>1, <1>3

\* Only the steps of its own kind change the object.
LEMMA KindKept ==
    ASSUME HasKind, [ObjectsNext]_allVars PROVE SameKind
<1> USE DEF SameKind, HasKind
<1>0. CASE obj' = obj
  BY <1>0
<1>1. CASE Elsewhere \/ BlockSchedule \/ WaitFailed
  BY <1>1 DEF Elsewhere, BlockSchedule, WaitFailed
<1>2. CASE MbStep
  <2>1. \A o, m : "kind" \in DOMAIN o =>
           /\ "kind" \in DOMAIN Posted(o, m) /\ Posted(o, m).kind = o.kind
           /\ "kind" \in DOMAIN PostedFirst(o, m) /\ PostedFirst(o, m).kind = o.kind
           /\ "kind" \in DOMAIN Fetched(o) /\ Fetched(o).kind = o.kind
    BY DEF Posted, PostedFirst, Fetched
  <2>2. \/ obj' = obj \/ obj' = Fetched(obj)
        \/ \E m : obj' \in {Posted(obj, m), PostedFirst(obj, m)}
        \/ obj' = [obj EXCEPT !.entry = 0, !.in_offset = 0, !.out_offset = 0]
    BY <1>2 DEF MbStep, MbUrgent, MbSendIrq, MbSend, MbRecv, MbSendAgain, MbRecvAgain,
       MbRecvIrq, MbReset, MbSendRound, MbRecvRound
  <2> QED BY <2>1, <2>2
<1>3. CASE MqStep
  <2>1. \A o, c, m : "kind" \in DOMAIN o =>
           /\ "kind" \in DOMAIN Allotted(o) /\ Allotted(o).kind = o.kind
           /\ "kind" \in DOMAIN Freed(o, c) /\ Freed(o, c).kind = o.kind
           /\ LET u == [Unlinked(o) EXCEPT !.entry = @ - 1]
              IN  "kind" \in DOMAIN u /\ u.kind = o.kind
    BY DEF Allotted, Freed, Unlinked
  <2>2. \A o, c, m : "kind" \in DOMAIN o =>
           /\ "kind" \in DOMAIN Linked(o, c, m) /\ Linked(o, c, m).kind = o.kind
           /\ "kind" \in DOMAIN LinkedFirst(o, c, m)
           /\ LinkedFirst(o, c, m).kind = o.kind
    BY DEF Linked, LinkedFirst, Counted
  <2>3. CASE MqReset
    <3>1. Len(Queued) \in Nat
      BY ChainLength, CapacityAssumption DEF Queued
    <3> DEFINE d == AllDrained(obj, Queued)
    <3>2. "kind" \in DOMAIN d /\ d.kind = obj.kind
      BY <3>1, AllDrainedKind
    <3>3. obj' = [d EXCEPT !.entry = 0]
      BY <2>3 DEF MqReset
    <3> HIDE DEF d
    <3> QED BY <3>2, <3>3
  <2>4. CASE ~ MqReset
    <3>1. \/ obj' = obj \/ obj' = Allotted(obj)
          \/ \E c : obj' = Freed(obj, c)
          \/ obj' = [Unlinked(obj) EXCEPT !.entry = @ - 1]
          \/ \E c, m : obj' \in {Linked(obj, c, m), LinkedFirst(obj, c, m)}
      BY <1>3, <2>4 DEF MqStep, MqUrgent, MqSendIrq, MqSend, MqRecv, MqSendAgain,
         MqSendEnd, MqUrgentEnd, MqSendIrqEnd, MqRecvAgain, MqRecvEnd, MqRecvIrq,
         MqRecvIrqEnd, MqSendRound, MqRecvRound
    <3> QED BY <2>1, <2>2, <3>1
  <2> QED BY <2>3, <2>4
<1>4. CASE EventStep
  <2>1. obj' = obj \/ \E x : obj' = [obj EXCEPT !.set = x]
    BY <1>4 DEF EventStep, EventTake, EventTry, EventWait, EventSend, EventSendIrq,
       EventReturn, EventReset
  <2> QED BY <2>1
<1>5. CASE MpStep
  <2>1. obj' = obj \/ obj' = Allocated(obj) \/ \E b : obj' = Released(obj, b)
    BY <1>5 DEF MpStep, MpAlloc, MpFree, MpFreeIrq, MpAwake, MpAllocAgain, MpAllocIrq,
       MpRound
  <2> QED BY <2>1 DEF Allocated, Released
<1>6. CASE CompletionStep
  <2>1. obj' = obj \/ \E x : obj' = [obj EXCEPT !.done = x]
    BY <1>6 DEF CompletionStep, WaitNot, WaitEnd, DoneBegin, DoneEnd, DoneIrq,
       DoneIrqEnd, WaitBegin, Clear
  <2> QED BY <2>1
<1>7. CASE SerialStep
  <2>1. \/ obj' = obj \/ \E c : obj' = Stored(obj, c)
        \/ \E x : obj' = [obj EXCEPT !.rx_sem = x]
        \/ \E x, y : obj' = [obj EXCEPT !.get_index = x, !.is_full = y]
    BY <1>7 DEF SerialStep, RxBegin, RxChar, RxEnd, GetChar, GetCharTake, GetCharAgain,
       ReadRound
  <2> QED BY <2>1 DEF Stored
<1> QED BY <1>0, <1>1, <1>2, <1>3, <1>4, <1>5, <1>6, <1>7 DEF ObjectsNext, allVars

\* Every object has a kind, and never another one.
LEMMA InitKind == ObjectsInit => HasKind
BY DEF ObjectsInit, HasKind, MailboxInit, MessageQueueInit, EventInit, MempoolInit,
   CompletionInit, SerialInit

-----------------------------------------------------------------------------
(* The characters of the console *)

SerialState ==
    [kind : {"serial"}, flag : {"fifo"}, buffer : [Index -> Char \cup {0}],
     put_index : Index, get_index : Index, is_full : BOOLEAN,
     rx_sem : 0 .. RxValueMax]

\* The indices of a ring that has lost a character differ: is_full never
\* makes an empty ring look full.
RingOk(o) == o \in SerialState /\ (o.is_full => o.put_index # o.get_index)

SerialInv == HasKind /\ (IsSerial => RingOk(obj))

\* The number of characters between two indices.
Dist(p, g) == Wrap(BufSz, p + BufSz - g)

\* Received, of any state of the ring.
ReceivedOf(o) == Ring(o.buffer, BufSz, o.get_index, Dist(o.put_index, o.get_index))

\* The indices and the length of the ring of the serial device.
LEMMA RingOkFields ==
    ASSUME NEW o, RingOk(o)
    PROVE  /\ BufSz \in Nat \ {0} /\ BufSz > 1 /\ Index = 0 .. (BufSz - 1)
           /\ o.put_index \in 0 .. (BufSz - 1) /\ o.get_index \in 0 .. (BufSz - 1)
           /\ o.is_full \in BOOLEAN /\ o.kind = "serial"
           /\ o.buffer \in [0 .. (BufSz - 1) -> Char \cup {0}]
           /\ o.rx_sem \in Nat /\ o.rx_sem <= RxValueMax
BY BufSzAssumption, RxValueMaxAssumption DEF RingOk, SerialState, Index

\* The next index.
LEMMA AheadFacts ==
    ASSUME NEW p \in 0 .. (BufSz - 1)
    PROVE  /\ Ahead(p) = Wrap(BufSz, p + 1) /\ Ahead(p) \in 0 .. (BufSz - 1)
           /\ Ahead(p) # p
BY BufSzAssumption DEF Ahead, Wrap

\* How the distance changes.
LEMMA DistFacts ==
    ASSUME NEW p \in 0 .. (BufSz - 1), NEW g \in 0 .. (BufSz - 1)
    PROVE  /\ Dist(p, g) \in 0 .. (BufSz - 1)
           /\ (p + BufSz - g) % BufSz = Dist(p, g)
           /\ Wrap(BufSz, g + Dist(p, g)) = p
           /\ Dist(p, g) = 0 <=> p = g
           /\ Ahead(p) # g => Dist(Ahead(p), g) = Dist(p, g) + 1
           /\ Ahead(p) = g => /\ Dist(p, g) = BufSz - 1
                              /\ Dist(Ahead(p), Ahead(g)) = BufSz - 1
           /\ p # g => Dist(p, Ahead(g)) = Dist(p, g) - 1
<1> USE BufSzAssumption
<1>1. (p + BufSz - g) % BufSz = Dist(p, g)
  <2>1. p + BufSz - g \in Nat /\ p + BufSz - g < BufSz + BufSz /\ BufSz \in Nat \ {0}
    OBVIOUS
  <2> QED BY <2>1, WrapIsMod DEF Dist
<1>3. Dist(p, g) \in 0 .. (BufSz - 1) /\ Wrap(BufSz, g + Dist(p, g)) = p
  BY DEF Dist, Wrap
<1>4. Dist(p, g) = 0 <=> p = g
  BY DEF Dist, Wrap
<1>5. Ahead(p) # g => Dist(Ahead(p), g) = Dist(p, g) + 1
  BY DEF Dist, Wrap, Ahead
<1>6. Ahead(p) = g => Dist(p, g) = BufSz - 1 /\ Dist(Ahead(p), Ahead(g)) = BufSz - 1
  BY DEF Dist, Wrap, Ahead
<1>7. p # g => Dist(p, Ahead(g)) = Dist(p, g) - 1
  BY DEF Dist, Wrap, Ahead
<1> QED BY <1>1, <1>3, <1>4, <1>5, <1>6, <1>7

\* What rt_device_read would return.
LEMMA ReceivedIs ==
    ASSUME NEW o, RingOk(o)
    PROVE  /\ LET n == IF o.is_full /\ o.put_index = o.get_index THEN BufSz
                       ELSE (o.put_index + BufSz - o.get_index) % BufSz
              IN  [i \in 1 .. n |-> o.buffer[(o.get_index + i - 1) % BufSz]]
                     = ReceivedOf(o)
           /\ ReceivedOf(o) \in Seq(Char \cup {0})
           /\ Len(ReceivedOf(o)) = Dist(o.put_index, o.get_index)
<1> DEFINE p == o.put_index
           g == o.get_index
           n == Dist(p, g)
<1>1. /\ BufSz \in Nat \ {0} /\ p \in 0 .. (BufSz - 1) /\ g \in 0 .. (BufSz - 1)
      /\ o.buffer \in [0 .. (BufSz - 1) -> Char \cup {0}]
      /\ ~ (o.is_full /\ p = g)
  BY RingOkFields DEF RingOk
<1>2. (p + BufSz - g) % BufSz = n /\ n \in 0 .. (BufSz - 1)
  BY <1>1, DistFacts
<1> HIDE DEF n, g, p
<1>4. n \in 0 .. BufSz
  BY <1>1, <1>2
<1>5. [i \in 1 .. n |-> o.buffer[(g + i - 1) % BufSz]] = Ring(o.buffer, BufSz, g, n)
  <2>1. ModRing(o.buffer, BufSz, g, n)
    BY <1>1, <1>4, RingIsMod
  <2> QED BY <2>1 DEF ModRing
<1>6. /\ Ring(o.buffer, BufSz, g, n) \in Seq(Char \cup {0})
      /\ Len(Ring(o.buffer, BufSz, g, n)) = n
  <2> DEFINE b == o.buffer
             S == Char \cup {0}
  <2>1. Words(b, BufSz, S)
    BY <1>1 DEF Words
  <2> HIDE DEF b, S
  <2>2. Ring(b, BufSz, g, n) \in Seq(S) /\ Len(Ring(b, BufSz, g, n)) = n
    <3>1. BufSz \in Nat \ {0} /\ g \in 0 .. (BufSz - 1) /\ n \in 0 .. BufSz
      BY <1>1, <1>4
    <3> QED BY <2>1, <3>1, RingSeq
  <2> QED BY <2>2 DEF b, S
<1> QED BY <1>1, <1>2, <1>5, <1>6 DEF ReceivedOf, n, g, p

\* rt_hw_serial_isr stores a character.
LEMMA StoredRing ==
    ASSUME NEW o, RingOk(o), NEW c \in Char
    PROVE  /\ RingOk(Stored(o, c))
           /\ \/ ReceivedOf(Stored(o, c)) = Append(ReceivedOf(o), c)
              \/ /\ Dist(o.put_index, o.get_index) = BufSz - 1
                 /\ ReceivedOf(Stored(o, c)) = Append(Tail(ReceivedOf(o)), c)
<1> DEFINE p == o.put_index
           g == o.get_index
           b == o.buffer
           n == Dist(p, g)
           b2 == [b EXCEPT ![p] = c]
           g2 == IF Ahead(p) = g THEN Ahead(g) ELSE g
           o2 == Stored(o, c)
<1>1. /\ BufSz \in Nat \ {0} /\ p \in 0 .. (BufSz - 1) /\ g \in 0 .. (BufSz - 1)
      /\ b \in [0 .. (BufSz - 1) -> Char \cup {0}] /\ BufSz > 1 /\ o.is_full \in BOOLEAN
      /\ o \in SerialState /\ (o.is_full => p # g) /\ Index = 0 .. (BufSz - 1)
  BY RingOkFields DEF RingOk
<1>w. DOMAIN b = 0 .. (BufSz - 1) /\ Words(b, BufSz, Char \cup {0})
  BY <1>1 DEF Words
<1>2. o2 = [o EXCEPT !.buffer = b2, !.put_index = Ahead(p), !.get_index = g2,
                     !.is_full = o.is_full \/ Ahead(p) = g]
  BY <1>1 DEF Stored, SerialState
<1> HIDE DEF p, g
<1>a. /\ Ahead(p) = Wrap(BufSz, p + 1) /\ Ahead(p) \in 0 .. (BufSz - 1)
      /\ Ahead(g) = Wrap(BufSz, g + 1) /\ Ahead(g) \in 0 .. (BufSz - 1) /\ Ahead(g) # g
  BY <1>1, AheadFacts
<1>d. /\ n \in 0 .. (BufSz - 1) /\ Wrap(BufSz, g + n) = p
      /\ Ahead(p) # g => Dist(Ahead(p), g) = n + 1
      /\ Ahead(p) = g => n = BufSz - 1 /\ Dist(Ahead(p), Ahead(g)) = BufSz - 1
  BY <1>1, DistFacts
<1>3. /\ n \in 0 .. (BufSz - 1) /\ Wrap(BufSz, g + n) = p
      /\ Ahead(p) = Wrap(BufSz, p + 1) /\ Ahead(p) \in 0 .. (BufSz - 1)
      /\ Ahead(p) # g => Dist(Ahead(p), g) = n + 1
      /\ Ahead(p) = g => n = BufSz - 1 /\ Dist(Ahead(p), Ahead(g)) = BufSz - 1
      /\ Ahead(g) = Wrap(BufSz, g + 1) /\ Ahead(g) \in 0 .. (BufSz - 1) /\ Ahead(g) # g
  BY <1>a, <1>d
<1>4. b2 \in [0 .. (BufSz - 1) -> Char \cup {0}]
  BY <1>1
<1> HIDE DEF b2, n, b
<1>5. /\ o2 \in SerialState /\ o2.buffer = b2 /\ o2.put_index = Ahead(p)
      /\ o2.get_index = g2 /\ o2.is_full = (o.is_full \/ Ahead(p) = g)
  BY <1>1, <1>2, <1>3, <1>4 DEF SerialState, b
<1>6. RingOk(o2)
  BY <1>1, <1>3, <1>5 DEF RingOk, p, g
<1> HIDE DEF o2
<1>7. Ring(b2, BufSz, g, n + 1) = Append(ReceivedOf(o), c)
  <2>1. Ring([b EXCEPT ![Wrap(BufSz, g + n)] = c], BufSz, g, n + 1)
          = Append(Ring(b, BufSz, g, n), c)
    <3>1. /\ BufSz \in Nat \ {0} /\ g \in 0 .. (BufSz - 1) /\ n \in 0 .. (BufSz - 1)
          /\ DOMAIN b = 0 .. (BufSz - 1)
      BY <1>1, <1>3, <1>w
    <3>2. AtEnd(b, BufSz, g, n, c)
      BY <3>1, RingAppend
    <3> QED BY <3>2 DEF AtEnd
  <2> QED BY <1>3, <2>1 DEF ReceivedOf, b2, n, b, p, g
<1>8. CASE Ahead(p) # g
  BY <1>3, <1>5, <1>6, <1>7, <1>8 DEF ReceivedOf, o2, p, g
<1>9. CASE Ahead(p) = g
  <2>1. n + 1 = BufSz /\ BufSz \in 1 .. BufSz
    BY <1>1, <1>3, <1>9
  <2>2. Ring(b2, BufSz, Wrap(BufSz, g + 1), BufSz - 1) = Tail(Ring(b2, BufSz, g, BufSz))
    BY <1>1, <1>4, <2>1, RingTail
  <2>3. ReceivedOf(o2) = Tail(Append(ReceivedOf(o), c))
    BY <1>3, <1>5, <1>7, <1>9, <2>1, <2>2 DEF ReceivedOf, p, g
  <2>4. ReceivedOf(o) \in Seq(Char \cup {0}) /\ Len(ReceivedOf(o)) = n /\ n > 0
    <3>1. n \in 0 .. BufSz /\ n > 0
      BY <1>1, <1>3, <1>9
    <3>2. ReceivedOf(o) = Ring(b, BufSz, g, n)
      BY DEF ReceivedOf, n, b, p, g
    <3> QED BY <1>1, <1>w, <3>1, <3>2, RingSeq
  <2>5. Tail(Append(ReceivedOf(o), c)) = Append(Tail(ReceivedOf(o)), c)
    <3> DEFINE r == ReceivedOf(o)
    <3> HIDE DEF r
    <3> SUFFICES ASSUME r \in Seq(Char \cup {0}), Len(r) > 0
                 PROVE  Tail(Append(r, c)) = Append(Tail(r), c)
      BY <2>4 DEF r
    <3> QED OBVIOUS
  <2> QED BY <1>3, <1>6, <1>9, <2>3, <2>5 DEF o2, n, p, g
<1> QED BY <1>8, <1>9

\* _serial_int_rx takes a character.
LEMMA ReadRing ==
    ASSUME NEW o, RingOk(o), o.put_index # o.get_index
    PROVE  LET o2 == [o EXCEPT !.get_index = Ahead(o.get_index), !.is_full = FALSE]
           IN  /\ RingOk(o2) /\ ReceivedOf(o2) = Tail(ReceivedOf(o))
               /\ ReceivedOf(o) # <<>>
<1> DEFINE p == o.put_index
           g == o.get_index
           n == Dist(p, g)
           o2 == [o EXCEPT !.get_index = Ahead(g), !.is_full = FALSE]
<1>1. /\ BufSz \in Nat \ {0} /\ p \in 0 .. (BufSz - 1) /\ g \in 0 .. (BufSz - 1)
      /\ o.buffer \in [0 .. (BufSz - 1) -> Char \cup {0}]
      /\ o \in SerialState /\ Index = 0 .. (BufSz - 1)
  BY RingOkFields DEF RingOk
<1>w. Words(o.buffer, BufSz, Char \cup {0}) /\ p # g
  BY <1>1 DEF Words
<1> HIDE DEF p, g
<1>a. Ahead(g) = Wrap(BufSz, g + 1) /\ Ahead(g) \in 0 .. (BufSz - 1)
  BY <1>1, AheadFacts
<1>d. n \in 0 .. (BufSz - 1) /\ n # 0 /\ Dist(p, Ahead(g)) = n - 1
  BY <1>1, <1>w, DistFacts
<1>2. /\ n \in 0 .. (BufSz - 1) /\ n # 0 /\ Dist(p, Ahead(g)) = n - 1
      /\ Ahead(g) = Wrap(BufSz, g + 1) /\ Ahead(g) \in 0 .. (BufSz - 1)
  BY <1>a, <1>d
<1>3. /\ o2 \in SerialState /\ o2.buffer = o.buffer /\ o2.put_index = p
      /\ o2.get_index = Ahead(g) /\ o2.is_full = FALSE
  BY <1>1, <1>2 DEF SerialState, p
<1> HIDE DEF n, o2
<1>4. n \in 1 .. BufSz /\ n \in 0 .. BufSz
  BY <1>1, <1>2
<1>5. Ring(o.buffer, BufSz, Wrap(BufSz, g + 1), n - 1)
         = Tail(Ring(o.buffer, BufSz, g, n))
  BY <1>1, <1>4, RingTail
<1>6. ReceivedOf(o2) = Tail(ReceivedOf(o))
  BY <1>2, <1>3, <1>5 DEF ReceivedOf, n, p, g
<1>7. ReceivedOf(o) \in Seq(Char \cup {0}) /\ Len(ReceivedOf(o)) = n
  <2>1. ReceivedOf(o) = Ring(o.buffer, BufSz, g, n)
    BY DEF ReceivedOf, n, p, g
  <2> QED BY <1>1, <1>4, <1>w, <2>1, RingSeq
<1>8. ReceivedOf(o) # <<>>
  <2> DEFINE r == ReceivedOf(o)
  <2> HIDE DEF r
  <2> SUFFICES ASSUME r \in Seq(Char \cup {0}), Len(r) = n PROVE r # <<>>
    BY <1>7 DEF r
  <2> QED BY <1>2
<1>9. RingOk(o2)
  BY <1>3 DEF RingOk
<1> QED BY <1>6, <1>8, <1>9 DEF o2, g

\* What a step does to the ring of the console.
SerialChange ==
    \/ obj' = obj
    \/ \E c \in Char : obj' = Stored(obj, c)
    \/ \E x \in 0 .. RxValueMax : obj' = [obj EXCEPT !.rx_sem = x]
    \/ /\ obj.put_index # obj.get_index
       /\ obj' = [obj EXCEPT !.get_index = Ahead(obj.get_index), !.is_full = FALSE]

\* Every step moves the indices of the ring in one of these ways.
LEMMA SerialChanges ==
    ASSUME SerialInv, IsSerial, [ObjectsNext]_allVars PROVE SerialChange
<1>0. RingOk(obj) /\ obj.rx_sem \in Nat /\ obj.rx_sem <= RxValueMax /\ RxValueMax \in Nat
      /\ obj.is_full \in BOOLEAN
  BY RingOkFields, RxValueMaxAssumption DEF SerialInv
<1>1. CASE Elsewhere \/ BlockSchedule \/ WaitFailed \/ obj' = obj
  BY <1>1 DEF Elsewhere, BlockSchedule, WaitFailed, SerialChange
<1>2. ~ MbStep /\ ~ MqStep
  BY DEF IsSerial, MbStep, MbUrgent, MbSendIrq, MbSend, MbRecv, MbSendAgain,
     MbRecvAgain, MbRecvIrq, MbReset, IsMailbox, MqStep, MqUrgent, MqSendIrq, MqSend,
     MqRecv, MqSendAgain, MqSendEnd, MqUrgentEnd, MqSendIrqEnd, MqRecvAgain, MqRecvEnd,
     MqRecvIrq, MqRecvIrqEnd, MqReset, IsQueue
<1>3. ~ EventStep /\ ~ MpStep /\ ~ CompletionStep
  BY DEF IsSerial, EventStep, EventTake, EventTry, EventWait, EventSend, EventSendIrq,
     EventReturn, EventReset, IsEvent, MpStep, MpAlloc, MpFree, MpFreeIrq, MpAwake,
     MpAllocAgain, MpAllocIrq, IsPool, CompletionStep, WaitNot, WaitEnd, DoneBegin,
     DoneEnd, DoneIrq, DoneIrqEnd, WaitBegin, IsCompletion
<1>4. CASE SerialStep
  <2>1. CASE RxBegin
    BY <2>1 DEF RxBegin, SerialChange
  <2>2. ASSUME NEW c \in Char, RxChar(c) PROVE SerialChange
    BY <2>2 DEF RxChar, SerialChange
  <2>3. CASE RxEnd
    <3>1. \/ obj' = obj
          \/ obj.rx_sem < RxValueMax /\ obj' = [obj EXCEPT !.rx_sem = obj.rx_sem + 1]
      BY <2>3 DEF RxEnd
    <3>2. CASE /\ obj.rx_sem < RxValueMax
               /\ obj' = [obj EXCEPT !.rx_sem = obj.rx_sem + 1]
      <4>1. obj.rx_sem + 1 \in 0 .. RxValueMax
        BY <1>0, <3>2
      <4> QED BY <3>2, <4>1 DEF SerialChange
    <3> QED BY <3>1, <3>2 DEF SerialChange
  <2>4. ASSUME ReadRound PROVE SerialChange
    <3>1. NoData <=> obj.put_index = obj.get_index
      BY <1>0 DEF NoData, RingOk
    <3> QED BY <2>4, <3>1 DEF ReadRound, SerialChange
  <2>5. CASE GetCharTake
    <3>1. \/ obj' = obj
          \/ obj.rx_sem > 0 /\ obj' = [obj EXCEPT !.rx_sem = obj.rx_sem - 1]
      BY <2>5 DEF GetCharTake
    <3>2. CASE obj.rx_sem > 0 /\ obj' = [obj EXCEPT !.rx_sem = obj.rx_sem - 1]
      <4>1. obj.rx_sem - 1 \in 0 .. RxValueMax
        BY <1>0, <3>2
      <4> QED BY <3>2, <4>1 DEF SerialChange
    <3> QED BY <3>1, <3>2 DEF SerialChange
  <2> QED BY <1>4, <2>1, <2>2, <2>3, <2>4, <2>5
          DEF SerialStep, GetChar, GetCharAgain
<1> QED BY <1>1, <1>2, <1>3, <1>4 DEF ObjectsNext, allVars

\* The semaphore is another field.
LEMMA SemRing ==
    ASSUME NEW o, RingOk(o), NEW x \in 0 .. RxValueMax
    PROVE  LET o2 == [o EXCEPT !.rx_sem = x]
           IN  RingOk(o2) /\ ReceivedOf(o2) = ReceivedOf(o)
<1> DEFINE o2 == [o EXCEPT !.rx_sem = x]
<1>1. /\ o2 \in SerialState /\ o2.buffer = o.buffer /\ o2.put_index = o.put_index
      /\ o2.get_index = o.get_index /\ o2.is_full = o.is_full
  BY DEF RingOk, SerialState
<1> QED BY <1>1 DEF RingOk, ReceivedOf

\* Every step keeps the ring well formed.
LEMMA NextSerialInv ==
    ASSUME SerialInv, [ObjectsNext]_allVars PROVE SerialInv'
<1>1. SameKind
  BY KindKept DEF SerialInv
<1>2. CASE ~ IsSerial
  BY <1>1, <1>2 DEF SerialInv, SameKind, IsSerial
<1>3. CASE IsSerial
  <2>1. RingOk(obj) /\ SerialChange
    BY <1>3, SerialChanges DEF SerialInv
  <2>2. RingOk(obj')
    <3>1. ASSUME NEW c \in Char, obj' = Stored(obj, c) PROVE RingOk(obj')
      BY <2>1, <3>1, StoredRing
    <3>2. ASSUME NEW x \in 0 .. RxValueMax, obj' = [obj EXCEPT !.rx_sem = x]
          PROVE  RingOk(obj')
      BY <2>1, <3>2, SemRing
    <3>3. CASE /\ obj.put_index # obj.get_index
               /\ obj' = [obj EXCEPT !.get_index = Ahead(obj.get_index),
                                     !.is_full = FALSE]
      BY <2>1, <3>3, ReadRing
    <3> QED BY <2>1, <3>1, <3>2, <3>3 DEF SerialChange
  <2> QED BY <1>1, <2>2 DEF SerialInv, SameKind, RingOk
<1> QED BY <1>2, <1>3

\* The ring starts empty.
LEMMA InitSerialInv == ObjectsInit => SerialInv
<1> SUFFICES ASSUME ObjectsInit PROVE SerialInv
  OBVIOUS
<1>1. HasKind
  BY InitKind
<1>2. ASSUME IsSerial PROVE RingOk(obj)
  <2>1. obj \in SerialInit
    BY <1>2 DEF ObjectsInit, IsSerial, MailboxInit, MessageQueueInit, EventInit,
       MempoolInit, CompletionInit
  <2>2. 0 \in Index /\ 0 \in 0 .. RxValueMax
    BY BufSzAssumption, RxValueMaxAssumption DEF Index
  <2> QED BY <2>1, <2>2 DEF SerialInit, RingOk, SerialState
<1> QED BY <1>1, <1>2 DEF SerialInv

\* What InputOrdered says of a step.
InputStep ==
    IsSerial =>
       \/ Received' = Received
       \/ Received # <<>> /\ Received' = Tail(Received)
       \/ \E c \in Char :
             \/ Received' = Append(Received, c)
             \/ /\ Len(Received) = BufSz - 1
                /\ Received' = Append(Tail(Received), c)

\* The console: characters are read in the order they came, and one is lost
\* only when the ring of rt_hw_serial_isr has bufsz - 1 of them, and then the
\* oldest, for every size of the buffer and whatever interrupts what.
THEOREM InputAlwaysOrdered == ObjectsSpec => InputOrdered
<1>1. ASSUME SerialInv, SerialInv', [ObjectsNext]_allVars PROVE [InputStep]_allVars
  <2> SUFFICES ASSUME IsSerial PROVE InputStep
    BY DEF InputStep
  <2>1. RingOk(obj) /\ SerialChange /\ IsSerial' /\ RingOk(obj')
    <3>1. SameKind
      BY <1>1, KindKept DEF SerialInv
    <3> QED BY <1>1, <3>1, SerialChanges DEF SerialInv, SameKind, IsSerial
  <2>2. /\ Received = ReceivedOf(obj)
        /\ Len(Received) = Dist(obj.put_index, obj.get_index)
    BY <2>1, ReceivedIs DEF Received
  <2>3. Received' = ReceivedOf(obj')
    BY <2>1, ReceivedIs DEF Received
  <2>4. CASE obj' = obj
    BY <2>2, <2>3, <2>4 DEF InputStep
  <2>5. ASSUME NEW c \in Char, obj' = Stored(obj, c) PROVE InputStep
    BY <2>1, <2>2, <2>3, <2>5, StoredRing DEF InputStep
  <2>6. ASSUME NEW x \in 0 .. RxValueMax, obj' = [obj EXCEPT !.rx_sem = x]
        PROVE  InputStep
    BY <2>1, <2>2, <2>3, <2>6, SemRing DEF InputStep
  <2>7. CASE /\ obj.put_index # obj.get_index
             /\ obj' = [obj EXCEPT !.get_index = Ahead(obj.get_index), !.is_full = FALSE]
    BY <2>1, <2>2, <2>3, <2>7, ReadRing DEF InputStep
  <2> QED BY <2>1, <2>4, <2>5, <2>6, <2>7 DEF SerialChange
<1>2. ObjectsInit => SerialInv
  BY InitSerialInv
<1>3. SerialInv /\ [ObjectsNext]_allVars => SerialInv'
  BY NextSerialInv
<1>4. ObjectsSpec => [][InputStep]_allVars
  BY <1>1, <1>2, <1>3, PTL DEF ObjectsSpec
<1> QED BY <1>4 DEF InputOrdered, InputStep

-----------------------------------------------------------------------------
(* Singly linked lists: the free blocks of the pool, the cells of the queue *)

\* s is the list that starts at c: its nodes are in S, each points to the one
\* after it, and the last to no node.
IsPath(next, S, c, s) ==
    /\ DOMAIN next = S /\ s \in Seq(S)
    /\ s = <<>> => c \notin S
    /\ s # <<>> => s[1] = c /\ next[s[Len(s)]] \notin S
    /\ \A i \in 1 .. (Len(s) - 1) : s[i + 1] = next[s[i]]

\* f[i] is node i of the walk of Chain.
IsWalk(f, next, c, max) ==
    f = [i \in 0 .. max |-> IF i = 0 THEN c
                            ELSE IF f[i - 1] \in DOMAIN next THEN next[f[i - 1]]
                            ELSE f[i - 1]]

\* The walk along a list, which stays at its end.
AlongPath(next, c, s, max) ==
    [i \in 0 .. max |-> IF i < Len(s) THEN s[i + 1]
                        ELSE IF s = <<>> THEN c ELSE next[s[Len(s)]]]

\* Along a path the walk of Chain visits what the path lists.
LEMMA PathIsWalk ==
    ASSUME NEW next, NEW S, NEW c, NEW s, IsPath(next, S, c, s), NEW max \in Nat
    PROVE  IsWalk(AlongPath(next, c, s, max), next, c, max)
<1> DEFINE f == AlongPath(next, c, s, max)
           e == IF s = <<>> THEN c ELSE next[s[Len(s)]]
           n == Len(s)
<1>1. /\ n \in Nat /\ e \notin S /\ DOMAIN next = S
      /\ \A i \in 1 .. n : s[i] \in S
      /\ \A i \in 1 .. (n - 1) : s[i + 1] = next[s[i]]
      /\ n > 0 => s[1] = c /\ e = next[s[n]]
      /\ n = 0 => e = c
  BY DEF IsPath
<1>2. \A i \in 0 .. max : f[i] = IF i < n THEN s[i + 1] ELSE e
  BY DEF AlongPath
<1>3. f = [i \in 0 .. max |-> f[i]]
  BY DEF AlongPath
<1> HIDE DEF f, e, n
<1>4. ASSUME NEW i \in 0 .. max
      PROVE  f[i] = IF i = 0 THEN c
                    ELSE IF f[i - 1] \in DOMAIN next THEN next[f[i - 1]] ELSE f[i - 1]
  <2>1. CASE i = 0
    BY <1>1, <1>2, <2>1
  <2>2. CASE i # 0 /\ i < n
    <3>1. i - 1 \in 0 .. max /\ i - 1 < n /\ i \in 1 .. (n - 1) /\ i \in 1 .. n
      BY <1>1, <2>2
    <3>2. f[i - 1] = s[i] /\ f[i] = s[i + 1]
      BY <1>2, <2>2, <3>1
    <3> QED BY <1>1, <2>2, <3>1, <3>2
  <2>3. CASE i # 0 /\ i = n
    <3>1. i - 1 \in 0 .. max /\ i - 1 < n /\ i \in 1 .. n
      BY <1>1, <2>3
    <3>2. f[i - 1] = s[i] /\ f[i] = e
      BY <1>1, <1>2, <2>3, <3>1
    <3> QED BY <1>1, <2>3, <3>1, <3>2
  <2>4. CASE i # 0 /\ i > n
    <3>1. i - 1 \in 0 .. max /\ ~ (i - 1 < n) /\ ~ (i < n)
      BY <1>1, <2>4
    <3>2. f[i - 1] = e /\ f[i] = e
      BY <1>2, <3>1
    <3> QED BY <1>1, <2>4, <3>2
  <2> QED BY <1>1, <2>1, <2>2, <2>3, <2>4
<1>5. f = [i \in 0 .. max |->
             IF i = 0 THEN c
             ELSE IF f[i - 1] \in DOMAIN next THEN next[f[i - 1]] ELSE f[i - 1]]
  BY <1>3, <1>4
<1> QED BY <1>5 DEF IsWalk, f

\* There is one walk.
LEMMA WalkUnique ==
    ASSUME NEW f, NEW g, NEW next, NEW c, NEW max \in Nat,
           IsWalk(f, next, c, max), IsWalk(g, next, c, max)
    PROVE  f = g
<1> DEFINE Bad == {i \in 0 .. max : f[i] # g[i]}
<1>1. CASE Bad = {}
  <2>1. f = [i \in 0 .. max |-> f[i]] /\ g = [i \in 0 .. max |-> g[i]]
    BY DEF IsWalk
  <2> QED BY <1>1, <2>1
<1>2. CASE Bad # {}
  <2>1. Bad \subseteq Nat
    OBVIOUS
  <2>2. PICK m : m \in Bad /\ \A j \in Bad : m <= j
    BY <1>2, <2>1, MinIsLeast
  <2>3. m \in 0 .. max /\ f[m] # g[m]
    BY <2>2
  <2>4. f[0] = c /\ g[0] = c
    BY DEF IsWalk
  <2>5. m # 0 /\ m - 1 \in 0 .. max
    BY <2>3, <2>4
  <2>6. m - 1 \notin Bad
    <3> HIDE DEF Bad
    <3> QED BY <2>2, <2>3, <2>5
  <2>7. f[m - 1] = g[m - 1]
    BY <2>5, <2>6
  <2>8. /\ f[m] = IF f[m - 1] \in DOMAIN next THEN next[f[m - 1]] ELSE f[m - 1]
        /\ g[m] = IF g[m - 1] \in DOMAIN next THEN next[g[m - 1]] ELSE g[m - 1]
    BY <2>3, <2>5 DEF IsWalk
  <2> QED BY <2>3, <2>7, <2>8
<1> QED BY <1>1, <1>2

\* Chain finds a list that is not longer than it expects.
LEMMA ChainIs ==
    ASSUME NEW next, NEW S, NEW c, NEW s, IsPath(next, S, c, s), NEW max \in Nat,
           Len(s) <= max
    PROVE  Chain(next, c, max) = s
<1> DEFINE F == CHOOSE f : IsWalk(f, next, c, max)
           ends == {i \in 0 .. max : F[i] \notin DOMAIN next}
           n == Len(s)
<1>1. IsWalk(AlongPath(next, c, s, max), next, c, max)
  BY PathIsWalk
<1>2. IsWalk(F, next, c, max)
  BY <1>1
<1>3. F = AlongPath(next, c, s, max)
  <2> DEFINE g == AlongPath(next, c, s, max)
  <2> HIDE DEF F, g
  <2>1. IsWalk(g, next, c, max)
    BY <1>1 DEF g
  <2> QED BY <1>2, <2>1, WalkUnique DEF g
<1>4. Chain(next, c, max)
         = [i \in 1 .. (IF ends = {} THEN max + 1 ELSE Min(ends)) |-> F[i - 1]]
  BY DEF Chain, IsWalk
<1> HIDE DEF F
<1>5. /\ n \in Nat /\ n <= max /\ DOMAIN next = S /\ s \in Seq(S)
      /\ (IF s = <<>> THEN c ELSE next[s[n]]) \notin S
      /\ \A i \in 1 .. n : s[i] \in S
  BY DEF IsPath
<1>6. \A i \in 0 .. max :
         F[i] = IF i < n THEN s[i + 1] ELSE IF s = <<>> THEN c ELSE next[s[n]]
  BY <1>3 DEF AlongPath
<1>7. n \in ends /\ \A i \in ends : n <= i
  <2>1. n \in ends
    BY <1>5, <1>6
  <2>2. ASSUME NEW i \in 0 .. max, i < n PROVE i \notin ends
    <3>1. F[i] = s[i + 1] /\ i + 1 \in 1 .. n
      BY <1>5, <1>6, <2>2
    <3> QED BY <1>5, <3>1
  <2> QED BY <1>5, <2>1, <2>2
<1>8. Min(ends) = n
  <2>1. ends \subseteq Nat
    OBVIOUS
  <2> HIDE DEF ends, n
  <2>2. Min(ends) \in ends /\ \A i \in ends : Min(ends) <= i
    BY <1>7, <2>1, MinIsLeast
  <2>3. Min(ends) \in Nat /\ n \in Nat /\ n <= Min(ends) /\ Min(ends) <= n
    BY <1>7, <2>1, <2>2
  <2> QED BY <2>3
<1>9. Chain(next, c, max) = [i \in 1 .. n |-> F[i - 1]]
  BY <1>4, <1>7, <1>8
<1>10. \A i \in 1 .. n : F[i - 1] = s[i]
  BY <1>5, <1>6
<1>11. s = [i \in 1 .. n |-> s[i]]
  BY <1>5
<1> QED BY <1>9, <1>10, <1>11

\* The list without its first node.
LEMMA PathTail ==
    ASSUME NEW next, NEW S, NEW c, NEW s, IsPath(next, S, c, s), s # <<>>
    PROVE  /\ c = Head(s) /\ c \in S /\ Len(Tail(s)) = Len(s) - 1
           /\ IsPath(next, S, next[c], Tail(s))
<1> DEFINE n == Len(s)
           r == Tail(s)
<1>1. /\ n \in Nat \ {0} /\ DOMAIN next = S /\ s \in Seq(S) /\ s[1] = c
      /\ next[s[n]] \notin S /\ \A i \in 1 .. (n - 1) : s[i + 1] = next[s[i]]
      /\ \A i \in 1 .. n : s[i] \in S
  BY DEF IsPath
<1>2. /\ r \in Seq(S) /\ Len(r) = n - 1 /\ \A i \in 1 .. (n - 1) : r[i] = s[i + 1]
      /\ c = Head(s) /\ c \in S
  BY <1>1
<1> HIDE DEF n, r
<1>3. r = <<>> <=> n = 1
  BY <1>1, <1>2
<1>4. CASE n = 1
  <2>1. next[c] \notin S /\ r = <<>> /\ Len(r) = 0
    BY <1>1, <1>2, <1>3, <1>4
  <2> QED BY <1>1, <1>2, <2>1 DEF IsPath, n, r
<1>5. CASE n # 1
  <2>0. 1 \in 1 .. (n - 1) /\ n - 1 \in 1 .. (n - 1) /\ (n - 1) + 1 = n
    BY <1>1, <1>5
  <2>1. r[1] = next[c] /\ next[r[Len(r)]] \notin S
    <3>1. r[1] = s[1 + 1] /\ s[1 + 1] = next[s[1]]
      BY <1>1, <1>2, <2>0
    <3>2. r[n - 1] = s[n]
      BY <1>2, <2>0
    <3> QED BY <1>1, <1>2, <3>1, <3>2
  <2>2. ASSUME NEW i \in 1 .. (Len(r) - 1) PROVE r[i + 1] = next[r[i]]
    <3>1. i \in 1 .. (n - 1) /\ i + 1 \in 1 .. (n - 1)
      BY <1>1, <1>2
    <3>2. r[i] = s[i + 1] /\ r[i + 1] = s[(i + 1) + 1]
      BY <1>2, <3>1
    <3> QED BY <1>1, <3>1, <3>2
  <2> QED BY <1>1, <1>2, <1>3, <1>5, <2>1, <2>2 DEF IsPath, n, r
<1> QED BY <1>4, <1>5

\* A list whose nodes keep their links.
LEMMA PathKept ==
    ASSUME NEW next, NEW n2, NEW S, NEW c, NEW s, IsPath(next, S, c, s),
           DOMAIN n2 = S, \A x \in Members(s) : n2[x] = next[x]
    PROVE  IsPath(n2, S, c, s)
<1>1. /\ Len(s) \in Nat /\ DOMAIN next = S /\ s \in Seq(S)
      /\ \A i \in 1 .. (Len(s) - 1) : s[i + 1] = next[s[i]]
  BY DEF IsPath
<1>2. \A i \in 1 .. Len(s) : n2[s[i]] = next[s[i]]
  BY DEF Members
<1>3. \A i \in 1 .. (Len(s) - 1) : s[i + 1] = n2[s[i]]
  BY <1>1, <1>2
<1>4. s # <<>> => Len(s) \in 1 .. Len(s)
  BY <1>1
<1> QED BY <1>1, <1>2, <1>3, <1>4 DEF IsPath

\* A node is pushed on a list.
LEMMA PathPush ==
    ASSUME NEW next, NEW S, NEW c, NEW s, IsPath(next, S, c, s), NEW b \in S,
           NEW n2, DOMAIN n2 = S, n2[b] = c, \A x \in Members(s) : n2[x] = next[x]
    PROVE  IsPath(n2, S, b, <<b>> \o s)
<1> DEFINE r == <<b>> \o s
           n == Len(s)
<1>1. IsPath(n2, S, c, s)
  BY PathKept
<1>2. /\ n \in Nat /\ s \in Seq(S) /\ (s = <<>> => c \notin S)
      /\ s # <<>> => s[1] = c /\ n2[s[n]] \notin S
      /\ \A i \in 1 .. (n - 1) : s[i + 1] = n2[s[i]]
  BY <1>1 DEF IsPath
<1>3. /\ r \in Seq(S) /\ Len(r) = n + 1 /\ r[1] = b
      /\ \A i \in 1 .. n : r[i + 1] = s[i]
  BY <1>2
<1>4. r # <<>> /\ (s = <<>> <=> n = 0)
  BY <1>2, <1>3
<1> HIDE DEF r, n
<1>5. n2[r[Len(r)]] \notin S
  <2>1. CASE n = 0
    BY <1>2, <1>3, <1>4, <2>1
  <2>2. CASE n # 0
    <3>1. n \in 1 .. n /\ Len(r) = n + 1
      BY <1>2, <1>3, <2>2
    <3>2. r[Len(r)] = s[n]
      BY <1>3, <3>1
    <3> QED BY <1>2, <1>4, <2>2, <3>2
  <2> QED BY <2>1, <2>2
<1>6. ASSUME NEW i \in 1 .. (Len(r) - 1) PROVE r[i + 1] = n2[r[i]]
  <2>1. i \in 1 .. n /\ r[i + 1] = s[i]
    BY <1>2, <1>3
  <2>2. CASE i = 1
    <3>1. s # <<>>
      BY <1>2, <1>4, <2>1
    <3> QED BY <1>2, <1>3, <2>1, <2>2, <3>1
  <2>3. CASE i # 1
    <3>1. i - 1 \in 1 .. (n - 1) /\ i - 1 \in 1 .. n /\ (i - 1) + 1 = i
      BY <1>2, <2>1, <2>3
    <3>2. r[i] = s[i - 1] /\ s[i] = n2[s[i - 1]]
      BY <1>2, <1>3, <3>1
    <3> QED BY <2>1, <3>2
  <2> QED BY <2>2, <2>3
<1> QED BY <1>3, <1>4, <1>5, <1>6 DEF IsPath, r

\* A node is linked to the end of a list that is not empty.
LEMMA PathAppend ==
    ASSUME NEW next, NEW S, NEW c, NEW s, IsPath(next, S, c, s), s # <<>>, NoDup(s),
           NEW b \in S, NEW n2, DOMAIN n2 = S, n2[b] \notin S, n2[s[Len(s)]] = b,
           \A x \in Members(s) : x # s[Len(s)] => n2[x] = next[x]
    PROVE  IsPath(n2, S, c, Append(s, b))
<1> DEFINE r == Append(s, b)
           n == Len(s)
<1>1. /\ n \in Nat \ {0} /\ s \in Seq(S) /\ s[1] = c
      /\ \A i \in 1 .. (n - 1) : s[i + 1] = next[s[i]]
  BY DEF IsPath
<1>2. /\ r \in Seq(S) /\ Len(r) = n + 1 /\ r[n + 1] = b /\ r # <<>>
      /\ \A i \in 1 .. n : r[i] = s[i]
  BY <1>1
<1>3. \A i \in 1 .. (n - 1) : s[i] # s[n] /\ s[i] \in Members(s)
  BY <1>1 DEF NoDup, Members
<1>4. \A i \in 1 .. (n - 1) : n2[s[i]] = s[i + 1]
  BY <1>1, <1>3
<1>5. n2[s[n]] = b
  OBVIOUS
<1> HIDE DEF r, n
<1>6. ASSUME NEW i \in 1 .. (Len(r) - 1) PROVE r[i + 1] = n2[r[i]]
  <2>1. i \in 1 .. n /\ r[i] = s[i]
    BY <1>1, <1>2
  <2>2. CASE i = n
    BY <1>2, <1>5, <2>1, <2>2
  <2>3. CASE i # n
    <3>1. i \in 1 .. (n - 1) /\ i + 1 \in 1 .. n
      BY <1>1, <2>1, <2>3
    <3> QED BY <1>2, <1>4, <2>1, <3>1
  <2> QED BY <2>2, <2>3
<1>7. r[1] = c /\ n2[r[Len(r)]] \notin S
  BY <1>1, <1>2
<1> QED BY <1>2, <1>6, <1>7 DEF IsPath, r

\* A sequence of N numbers without repetition has at most N elements.
LEMMA NoDupLength ==
    ASSUME NEW N \in Nat, NEW s \in Seq(1 .. N), NoDup(s)
    PROVE  Len(s) \in 0 .. N
<1> DEFINE D == 1 .. Len(s)
           T == 1 .. N
           f == [i \in D |-> s[i]]
<1>1. Len(s) \in Nat /\ N \in Int /\ 1 \in Int /\ Len(s) \in Int
  OBVIOUS
<1>2. f \in Injection(D, T)
  BY DEF NoDup, Injection, IsInjective
<1>3. IsFiniteSet(T) /\ Cardinality(T) = N
  BY <1>1, FS_Interval
<1>4. Cardinality(D) = Len(s)
  <2>1. \A m \in Nat : Cardinality(1 .. m) = m
    BY FS_Interval
  <2> QED BY <1>1, <2>1
<1> HIDE DEF D, T, f
<1>5. Cardinality(D) <= Cardinality(T)
  BY <1>2, <1>3, FS_Injection
<1> QED BY <1>1, <1>3, <1>4, <1>5

-----------------------------------------------------------------------------
(* The memory pool *)

PoolState ==
    [kind : {"pool"}, header : [Block_ -> Block_ \cup {NoBlock, Pool}],
     block_list : Block_ \cup {NoBlock}, block_free_count : Nat]

\* s is the free list: the blocks that are not handed out, each once.
FreeList(o, s) ==
    /\ IsPath(o.header, Block_, o.block_list, s) /\ NoDup(s)
    /\ Members(s) = {b \in Block_ : o.header[b] # Pool}
    /\ o.block_free_count = Len(s)

PoolOk(o) == o \in PoolState /\ \E s : FreeList(o, s)

PoolInv == HasKind /\ (IsPool => PoolOk(obj))

\* rt_mp_alloc: the first free block is handed out.
LEMMA AllocatedOk ==
    ASSUME NEW o, PoolOk(o), o.block_free_count # 0
    PROVE  PoolOk(Allocated(o))
<1>1. PICK s : FreeList(o, s)
  BY DEF PoolOk
<1> DEFINE c == o.block_list
           o2 == Allocated(o)
           h2 == [o.header EXCEPT ![c] = Pool]
<1>2. /\ IsPath(o.header, Block_, c, s) /\ NoDup(s) /\ o.block_free_count = Len(s)
      /\ Members(s) = {b \in Block_ : o.header[b] # Pool}
  BY <1>1 DEF FreeList
<1>3. s \in Seq(Block_) /\ Len(s) \in Nat /\ s # <<>>
  BY <1>2 DEF IsPath
<1>4. /\ c = Head(s) /\ c \in Block_ /\ Len(Tail(s)) = Len(s) - 1
      /\ IsPath(o.header, Block_, o.header[c], Tail(s))
  BY <1>2, <1>3, PathTail
<1>5. NoDup(Tail(s)) /\ Members(Tail(s)) = Members(s) \ {c} /\ c \in Members(s)
  BY <1>2, <1>3, <1>4, MembersTail
<1>6. o.header[c] \in Block_ \cup {NoBlock}
  BY <1>2, <1>4, <1>5 DEF PoolOk, PoolState
<1>7. /\ o2 \in PoolState /\ o2.header = h2 /\ o2.block_list = o.header[c]
      /\ o2.block_free_count = Len(s) - 1
  <2>1. o \in PoolState /\ Len(s) - 1 \in Nat
    BY <1>3 DEF PoolOk
  <2>2. h2 \in [Block_ -> Block_ \cup {NoBlock, Pool}]
    BY <2>1 DEF PoolState
  <2>3. /\ o2.kind = o.kind /\ o2.header = h2 /\ o2.block_list = o.header[c]
        /\ o2.block_free_count = o.block_free_count - 1
        /\ DOMAIN o2 = {"kind", "header", "block_list", "block_free_count"}
        /\ o2 = [x \in DOMAIN o2 |-> o2[x]]
    BY <2>1 DEF Allocated, PoolState
  <2> HIDE DEF o2, h2, c
  <2> QED BY <1>2, <1>6, <2>1, <2>2, <2>3 DEF PoolState
<1>8. DOMAIN h2 = Block_ /\ \A b \in Block_ : h2[b] = IF b = c THEN Pool ELSE o.header[b]
  BY <1>4 DEF PoolOk, PoolState
<1> HIDE DEF o2, h2
<1>9. IsPath(h2, Block_, o.header[c], Tail(s))
  <2>1. \A x \in Members(Tail(s)) : h2[x] = o.header[x]
    BY <1>2, <1>5, <1>8
  <2> DEFINE h == o.header
             e == o.header[c]
             r == Tail(s)
  <2> HIDE DEF h, e, r
  <2> SUFFICES ASSUME IsPath(h, Block_, e, r), \A x \in Members(r) : h2[x] = h[x]
               PROVE  IsPath(h2, Block_, e, r)
    BY <1>4, <2>1 DEF h, e, r
  <2> QED BY <1>8, PathKept
<1>10. Members(Tail(s)) = {b \in Block_ : h2[b] # Pool}
  <2>1. \A b : b \in Members(Tail(s)) <=> b \in {x \in Block_ : h2[x] # Pool}
    BY <1>2, <1>5, <1>8
  <2> QED BY <2>1
<1>11. FreeList(o2, Tail(s))
  BY <1>4, <1>5, <1>7, <1>9, <1>10 DEF FreeList
<1> QED BY <1>7, <1>11 DEF PoolOk, o2

\* rt_mp_free: a block that was handed out is pushed on the free list.
LEMMA ReleasedOk ==
    ASSUME NEW o, PoolOk(o), NEW b \in Block_, o.header[b] = Pool
    PROVE  PoolOk(Released(o, b))
<1>1. PICK s : FreeList(o, s)
  BY DEF PoolOk
<1> DEFINE c == o.block_list
           o2 == Released(o, b)
           h2 == [o.header EXCEPT ![b] = c]
           r == <<b>> \o s
<1>2. /\ IsPath(o.header, Block_, c, s) /\ NoDup(s) /\ o.block_free_count = Len(s)
      /\ Members(s) = {x \in Block_ : o.header[x] # Pool}
  BY <1>1 DEF FreeList
<1>3. s \in Seq(Block_) /\ Len(s) \in Nat
  BY <1>2 DEF IsPath
<1>4. b \notin Members(s) /\ c # Pool
  BY <1>2, BlocksAssumption DEF PoolOk, PoolState, NoBlock, Block_
<1>5. NoDup(r) /\ Members(r) = Members(s) \cup {b} /\ Len(r) = Len(s) + 1
  BY <1>2, <1>3, <1>4, MembersPush
<1>6. /\ o2 \in PoolState /\ o2.header = h2 /\ o2.block_list = b
      /\ o2.block_free_count = Len(s) + 1
  <2>1. o \in PoolState /\ Len(s) + 1 \in Nat
    BY <1>3 DEF PoolOk
  <2>2. h2 \in [Block_ -> Block_ \cup {NoBlock, Pool}]
    BY <2>1 DEF PoolState
  <2>3. /\ o2.kind = o.kind /\ o2.header = h2 /\ o2.block_list = b
        /\ o2.block_free_count = o.block_free_count + 1
        /\ DOMAIN o2 = {"kind", "header", "block_list", "block_free_count"}
        /\ o2 = [x \in DOMAIN o2 |-> o2[x]]
    BY <2>1 DEF Released, PoolState
  <2> HIDE DEF o2, h2
  <2> QED BY <1>2, <2>1, <2>2, <2>3 DEF PoolState
<1>7. DOMAIN h2 = Block_ /\ \A x \in Block_ : h2[x] = IF x = b THEN c ELSE o.header[x]
  BY DEF PoolOk, PoolState
<1> HIDE DEF o2, h2
<1>8. IsPath(h2, Block_, b, r)
  <2>1. h2[b] = c /\ \A x \in Members(s) : h2[x] = o.header[x]
    BY <1>2, <1>4, <1>7
  <2> DEFINE h == o.header
  <2> HIDE DEF h, c
  <2> SUFFICES ASSUME IsPath(h, Block_, c, s), h2[b] = c,
                      \A x \in Members(s) : h2[x] = h[x]
               PROVE  IsPath(h2, Block_, b, <<b>> \o s)
    BY <1>2, <2>1 DEF h
  <2> QED BY <1>7, PathPush
<1> HIDE DEF r
<1>9. Members(r) = {x \in Block_ : h2[x] # Pool}
  <2>1. \A x : x \in Members(r) <=> x \in {y \in Block_ : h2[y] # Pool}
    BY <1>2, <1>4, <1>5, <1>7
  <2> QED BY <2>1
<1>10. FreeList(o2, r)
  BY <1>5, <1>6, <1>8, <1>9 DEF FreeList
<1> QED BY <1>6, <1>10 DEF PoolOk, o2

\* What a step does to a pool.
PoolChange ==
    \/ obj' = obj
    \/ obj.block_free_count # 0 /\ obj' = Allocated(obj)
    \/ \E b \in Block_ : obj.header[b] = Pool /\ obj' = Released(obj, b)

\* Every step changes the pool by one block or not at all.
LEMMA PoolChanges ==
    ASSUME IsPool, [ObjectsNext]_allVars PROVE PoolChange
<1>1. CASE Elsewhere \/ BlockSchedule \/ WaitFailed \/ obj' = obj
  BY <1>1 DEF Elsewhere, BlockSchedule, WaitFailed, PoolChange
<1>2. ~ MbStep /\ ~ MqStep
  BY DEF IsPool, MbStep, MbUrgent, MbSendIrq, MbSend, MbRecv, MbSendAgain,
     MbRecvAgain, MbRecvIrq, MbReset, IsMailbox, MqStep, MqUrgent, MqSendIrq, MqSend,
     MqRecv, MqSendAgain, MqSendEnd, MqUrgentEnd, MqSendIrqEnd, MqRecvAgain, MqRecvEnd,
     MqRecvIrq, MqRecvIrqEnd, MqReset, IsQueue
<1>3. ~ EventStep /\ ~ SerialStep /\ ~ CompletionStep
  BY DEF IsPool, EventStep, EventTake, EventTry, EventWait, EventSend, EventSendIrq,
     EventReturn, EventReset, IsEvent, SerialStep, RxBegin, RxChar, RxEnd, GetChar,
     GetCharTake, GetCharAgain, IsSerial, CompletionStep, WaitNot, WaitEnd, DoneBegin,
     DoneEnd, DoneIrq, DoneIrqEnd, WaitBegin, IsCompletion
<1>4. CASE MpStep
  <2>1. ASSUME NEW time, MpRound(time) PROVE PoolChange
    BY <2>1 DEF MpRound, PoolChange
  <2>2. ASSUME NEW b \in Block_, MpFree(b) \/ MpFreeIrq(b) PROVE PoolChange
    BY <2>2 DEF MpFree, MpFreeIrq, HandedOut, PoolChange
  <2>3. CASE MpAwake \/ MpAllocIrq
    BY <2>3 DEF MpAwake, MpAllocIrq, PoolChange
  <2> QED BY <1>4, <2>1, <2>2, <2>3 DEF MpStep, MpAlloc, MpAllocAgain
<1> QED BY <1>1, <1>2, <1>3, <1>4 DEF ObjectsNext, allVars

\* The free list stays one.
LEMMA NextPoolInv ==
    ASSUME PoolInv, [ObjectsNext]_allVars PROVE PoolInv'
<1>1. SameKind
  BY KindKept DEF PoolInv
<1>2. CASE ~ IsPool
  BY <1>1, <1>2 DEF PoolInv, SameKind, IsPool
<1>3. CASE IsPool
  <2>1. PoolOk(obj) /\ PoolChange
    BY <1>3, PoolChanges DEF PoolInv
  <2>2. PoolOk(obj')
    BY <2>1, AllocatedOk, ReleasedOk DEF PoolChange
  <2> QED BY <1>1, <2>2 DEF PoolInv, SameKind
<1> QED BY <1>2, <1>3

\* rt_mp_init links all blocks.
LEMMA InitPoolInv == ObjectsInit => PoolInv
<1> SUFFICES ASSUME ObjectsInit PROVE PoolInv
  OBVIOUS
<1>1. HasKind
  BY InitKind
<1>2. ASSUME IsPool PROVE PoolOk(obj)
  <2> DEFINE h == [b \in Block_ |-> IF b = Blocks THEN NoBlock ELSE b + 1]
             s == [i \in 1 .. Blocks |-> i]
  <2>1. obj \in MempoolInit
    BY <1>2 DEF ObjectsInit, IsPool, MailboxInit, MessageQueueInit, EventInit,
       SerialInit, CompletionInit
  <2>2. /\ Blocks \in Nat \ {0} /\ Pool \notin 0 .. Blocks /\ Block_ = 1 .. Blocks
        /\ NoBlock = 0
    BY BlocksAssumption DEF Block_, NoBlock
  <2>3. /\ obj.kind = "pool" /\ obj.header = h /\ obj.block_list = 1
        /\ obj.block_free_count = Blocks
        /\ obj = [kind |-> "pool", header |-> h, block_list |-> 1,
                  block_free_count |-> Blocks]
    BY <1>2, <2>1 DEF MempoolInit, IsPool
  <2>4. /\ h \in [Block_ -> Block_ \cup {NoBlock, Pool}]
        /\ \A b \in Block_ : h[b] # Pool
        /\ \A b \in Block_ : h[b] = IF b = Blocks THEN 0 ELSE b + 1
    BY <2>2
  <2>5. obj \in PoolState
    BY <2>2, <2>3, <2>4 DEF PoolState
  <2>6. /\ s \in Seq(Block_) /\ Len(s) = Blocks /\ s # <<>>
        /\ \A i \in 1 .. Blocks : s[i] = i
    BY <2>2
  <2> HIDE DEF h, s
  <2>7. IsPath(h, Block_, 1, s)
    <3>1. DOMAIN h = Block_ /\ s[1] = 1 /\ h[s[Len(s)]] \notin Block_
      BY <2>2, <2>4, <2>6
    <3>2. \A i \in 1 .. (Len(s) - 1) : s[i + 1] = h[s[i]]
      BY <2>2, <2>4, <2>6
    <3> QED BY <2>6, <3>1, <3>2 DEF IsPath
  <2>8. NoDup(s) /\ Members(s) = Block_
    BY <2>2, <2>6 DEF NoDup, Members
  <2>9. Members(s) = {b \in Block_ : h[b] # Pool}
    BY <2>4, <2>8
  <2>10. FreeList(obj, s)
    BY <2>3, <2>6, <2>7, <2>8, <2>9 DEF FreeList
  <2> QED BY <2>5, <2>10 DEF PoolOk
<1> QED BY <1>1, <1>2 DEF PoolInv

\* The memory pool: the free list is the blocks that are not handed out, and
\* block_free_count their number, for every number of blocks, however
\* allocations of threads, timeouts and a handler cross.
THEOREM BlocksAlwaysAccounted == ObjectsSpec => []BlocksAccounted
<1>1. ObjectsInit => PoolInv
  BY InitPoolInv
<1>2. PoolInv /\ [ObjectsNext]_allVars => PoolInv'
  BY NextPoolInv
<1>3. PoolInv => BlocksAccounted
  <2> SUFFICES ASSUME PoolInv, IsPool PROVE BlocksAccounted
    BY DEF BlocksAccounted
  <2>1. PICK s : FreeList(obj, s)
    BY DEF PoolInv, PoolOk
  <2>2. /\ IsPath(obj.header, Block_, obj.block_list, s) /\ NoDup(s)
        /\ Members(s) = {b \in Block_ : obj.header[b] # Pool}
        /\ obj.block_free_count = Len(s) /\ s \in Seq(Block_)
    BY <2>1 DEF FreeList, IsPath
  <2>3. Len(s) <= Blocks /\ Blocks \in Nat
    <3>1. Blocks \in Nat /\ s \in Seq(1 .. Blocks)
      BY <2>2, BlocksAssumption DEF Block_
    <3>2. Len(s) \in 0 .. Blocks
      BY <2>2, <3>1, NoDupLength
    <3> QED BY <3>1, <3>2
  <2>4. FreeBlocks = s
    BY <2>2, <2>3, ChainIs DEF FreeBlocks
  <2>5. Members(s) = Block_ \ HandedOut
    BY <2>2 DEF HandedOut
  <2> QED BY <2>2, <2>4, <2>5 DEF BlocksAccounted
<1> QED BY <1>1, <1>2, <1>3, PTL DEF ObjectsSpec

-----------------------------------------------------------------------------
(* What the calls of this module do to the kernel *)

\* From kernel a to kernel b the waiting threads R are made ready.
Frees(a, b, R) ==
    /\ R \subseteq Thread
    /\ \A w \in WaitList : Members(b.wait[w]) = Members(a.wait[w]) \ R
    /\ \A t \in R : a.stat[t] = "suspend" /\ b.stat[t] \in {"ready", "running"}
    /\ \A t \in Thread \ R :
          /\ b.error[t] = a.error[t]
          /\ \/ b.stat[t] = a.stat[t]
             \/ {a.stat[t], b.stat[t]} \subseteq {"ready", "running"}

\* rt_thread_resume of one thread.
LEMMA ResumeFrees ==
    ASSUME NEW a, Sound(a), NEW h \in Thread, a.stat[h] = "suspend"
    PROVE  LET n == rt_thread_resume(a, h)
           IN  /\ Sound(n) /\ SameCurrent(a, n) /\ Frees(a, n, {h})
               /\ n.error = a.error
<1> DEFINE n == rt_thread_resume(a, h)
<1>1. /\ Sound(n) /\ SameCurrent(a, n)
      /\ n.stat = [a.stat EXCEPT ![h] = IF h = a.current THEN "running" ELSE "ready"]
  BY ResumeSound
<1>2. n.wait = WaitsWithout(a, h) /\ n.error = a.error
  BY ResumeWaits DEF Sound
<1>3. a.stat \in [Thread -> Stat] /\ a.wait \in [WaitList -> Seq(Thread)]
  BY DEF Sound, KernelState
<1> HIDE DEF n
<1>4. ASSUME NEW w \in WaitList PROVE Members(n.wait[w]) = Members(a.wait[w]) \ {h}
  <2>1. a.wait[w] \in Seq(Thread) /\ NoDup(a.wait[w]) /\ n.wait[w] = Without(a.wait[w], h)
    BY <1>2, <1>3 DEF Sound, Consistent, WaitConsistent, WaitsWithout
  <2> QED BY <2>1, MembersWithout
<1> QED BY <1>1, <1>2, <1>3, <1>4 DEF Frees, n

\* The critical section of a call that makes threads ready.
LEMMA SectionFrees ==
    ASSUME IInv, k.current # Idle, pc[k.current] # "sched", NEW n, Sound(n),
           SameCurrent(k, n), NEW R, Frees(k, n, R), ThenSchedule(n, "sched")
    PROVE  IInv' /\ k' = n /\ pc' = [pc EXCEPT ![k.current] = "sched"] /\ isr' = isr
<1>1. k.current \in Thread /\ k.stat[k.current] # "close"
  BY DEF IInv, Typed, KernelState, ClosedLeaves
<1>2. /\ n.current = k.current
      /\ \A t \in Thread : k.stat[t] = "close" <=> n.stat[t] = "close"
  BY DEF Frees, SameCurrent
<1>3. IInv'
  BY <1>1, <1>2, SectionStep DEF Pending, InWait
<1> QED BY <1>3 DEF ThenSchedule, Goto

\* An interrupt handler that makes threads ready calls rt_schedule.
LEMMA HandlerFrees ==
    ASSUME IInv, NEW n, Sound(n), SameCurrent(k, n), NEW R, Frees(k, n, R),
           k' = rt_schedule(n), Settle, pc' = pc, isr' = isr, picked' = picked
    PROVE  IInv' /\ Frees(k, k', R) /\ k'.error = n.error
<1>1. /\ Sound(k') /\ k'.prio = n.prio /\ k'.lock = n.lock /\ Preempts(n, k')
      /\ n.lock # 0 => k' = n
      /\ n.lock = 0 => MostUrgentRuns(k')
  BY ScheduleSound
<1>2. k'.wait = n.wait /\ k'.error = n.error
  BY ScheduleWaits DEF SameWaits
<1>3. Frees(k, k', R)
  BY <1>1, <1>2 DEF Frees, Preempts
<1>4. Typed'
  <2>1. Typed /\ owed' \in BOOLEAN
    BY SettleType DEF IInv
  <2> QED BY <1>1, <2>1 DEF Typed, Sound
<1>5. \A t \in Thread : k'.stat[t] = "close" <=> k.stat[t] = "close"
  BY <1>3 DEF Frees
<1>6. IInv'
  BY <1>1, <1>4, <1>5, ReschedulingStep DEF SameCurrent
<1> QED BY <1>2, <1>3, <1>6

\* A step of the current thread between two labels at which no rt_schedule is
\* to come; it may set its error.
Moves(l) ==
    /\ k.current \in Thread /\ pc' = [pc EXCEPT ![k.current] = l]
    /\ k'.stat = k.stat /\ k'.wait = k.wait /\ k'.current = k.current
    /\ \A t \in Thread : t # k.current => k'.error[t] = k.error[t]

\* Such a step keeps the invariant of the kernel.
LEMMA MoveStep ==
    ASSUME IInv, k.current # Idle, pc[k.current] \notin Pending,
           NEW l \in {"run", "woken", "retry", "ask", "fill", "copy", "done"},
           l \in InWait => k.lock = 0, Goto(l),
           k' = k \/ \E x \in Error : k' = [k EXCEPT !.error[k.current] = x],
           isr' = isr, picked' = picked, owed' = owed
    PROVE  IInv' /\ Moves(l)
<1> DEFINE c == k.current
<1>1. /\ Sound(k) /\ c \in Thread /\ Typed /\ pc \in [Thread -> EveryLabel]
      /\ pc' = [pc EXCEPT ![c] = l] /\ k.error \in [Thread -> Error]
  BY DEF IInv, Typed, KernelState, Goto
<1>2. /\ Sound(k') /\ SameCurrent(k, k') /\ k'.stat = k.stat /\ k'.wait = k.wait
      /\ \A t \in Thread : t # c => k'.error[t] = k.error[t]
  <2>1. CASE k' = k
    BY <1>1, <2>1 DEF SameCurrent
  <2>2. ASSUME NEW x \in Error, k' = [k EXCEPT !.error[c] = x]
        PROVE  /\ Sound(k') /\ SameCurrent(k, k') /\ k'.stat = k.stat
               /\ k'.wait = k.wait /\ k'.error = [k.error EXCEPT ![c] = x]
    BY <1>1, <2>2, ErrorSound
  <2> QED BY <1>1, <2>1, <2>2
<1>3. Typed'
  BY <1>1, <1>2 DEF Typed, Sound, EveryLabel
<1>4. pc'[c] = l /\ pc'[Idle] = pc[Idle]
  BY <1>1, IdleAssumption
<1>5. PickedClosed'
  BY <1>1, <1>2, <1>4 DEF IInv, PickedClosed
<1>6. k.stat[c] # "close"
  BY DEF IInv, ClosedLeaves, Pending
<1>7. IInv'
  BY <1>2, <1>3, <1>4, <1>5, <1>6, QuietStep DEF SameCurrent
<1> QED BY <1>1, <1>2, <1>7 DEF Moves, SameCurrent

\* SuspendFirst puts the thread first.
LEMMA FirstSound ==
    ASSUME NEW e, Sound(e), NEW t \in Thread, t # Idle, e.stat[t] = "running"
    PROVE  Enqueued(e, SuspendFirst(e, t), Receivers, t)
<1> DEFINE q == <<t>> \o e.wait[Receivers]
           n == [rt_thread_suspend(e, t) EXCEPT !.wait[Receivers] = q]
<1>0. Receivers \in WaitList
  BY ListsAssumption
<1>1. /\ e.wait[Receivers] \in Seq(Thread) /\ NoDup(e.wait[Receivers])
      /\ t \notin Members(e.wait[Receivers]) /\ OffWaits(e, t) /\ e \in KernelState
  BY <1>0, AwakeOff DEF Sound, Consistent, WaitConsistent, KernelState, OffWaits
<1>2. /\ q \in Seq(Thread) /\ NoDup(q)
      /\ Members(q) = Members(e.wait[Receivers]) \cup {t}
  BY <1>1, MembersPush
<1>3. /\ Sound(n) /\ SameCurrent(e, n) /\ n.error = e.error
      /\ n.stat = [e.stat EXCEPT ![t] = "suspend"]
      /\ n.wait = [e.wait EXCEPT ![Receivers] = q]
  <2> HIDE DEF q
  <2> QED BY <1>0, <1>2, EnqueueSound
<1>4. SuspendFirst(e, t) = n
  <2>1. rt_thread_suspend(e, t).wait = e.wait
    BY <1>1, SuspendWaits DEF SameWaits
  <2> QED BY <2>1 DEF SuspendFirst
<1>5. DOMAIN e.wait = WaitList
  BY <1>1 DEF KernelState
<1> HIDE DEF n, q
<1> QED BY <1>0, <1>2, <1>3, <1>4, <1>5 DEF Enqueued

\* A timer that was started is on the list with its time.
LEMMA TimerStarted ==
    ASSUME NEW n \in KernelState, NoDup(n.timers), NEW t \in Thread, NEW d
    PROVE  LET b == rt_timer_start(n, t, d)
           IN  t \in Members(b.timers) /\ b.left[t] = d
<1> DEFINE s == Without(n.timers, t)
           left == [n.left EXCEPT ![t] = d]
           P == {i \in 1 .. Len(s) : left[s[i]] > d}
           f == FirstOf(s, P)
<1>1. n.timers \in Seq(Thread) /\ n.left \in [Thread -> Nat]
  BY DEF KernelState
<1>2. s \in Seq(Thread)
  BY <1>1, MembersWithout
<1>3. /\ rt_timer_start(n, t, d).timers = InsertAt(s, f, t)
      /\ rt_timer_start(n, t, d).left = left
  BY DEF rt_timer_start, KernelState
<1>4. left[t] = d /\ P \in SUBSET (1 .. Len(s))
  BY <1>1
<1> HIDE DEF s, left, P
<1>5. f \in 1 .. Len(s) + 1
  BY <1>2, <1>4, FirstOfIsPosition
<1> HIDE DEF f
<1>6. Members(InsertAt(s, f, t)) = Members(s) \cup {t}
  BY <1>2, <1>5, MembersInsertAt
<1> QED BY <1>3, <1>4, <1>6

\* A call waits on list w.
Waits(w) ==
    /\ k.current \in Thread /\ k.stat[k.current] = "running"
    /\ JoinsAt(w, "block")

\* A call that suspends its thread keeps the invariant of the kernel.
LEMMA BlockStep ==
    ASSUME IInv, k.current # Idle, pc[k.current] \notin Pending, k.lock = 0,
           NEW w \in WaitList, NEW n,
           \/ n = Enqueue(Reset(k, k.current), w, k.current)
           \/ n = SuspendFifo(Reset(k, k.current), w, k.current)
           \/ w = Receivers /\ n = SuspendFirst(Reset(k, k.current), k.current),
           NEW time \in Nat \cup {Forever}, Block(n, time)
    PROVE  /\ IInv' /\ Waits(w) /\ isr' = isr
           /\ time # Forever =>
                 k.current \in Members(k'.timers) /\ k'.left[k.current] = time
<1> DEFINE c == k.current
           e == Reset(k, c)
           b == IF time = Forever THEN n ELSE rt_timer_start(n, c, time)
<1>1. Sound(k) /\ c \in Thread /\ c # Idle
  BY DEF IInv, Typed, KernelState
<1>2. /\ Sound(e) /\ SameCurrent(k, e) /\ e.stat = k.stat /\ e.wait = k.wait
      /\ e.error = [k.error EXCEPT ![c] = "ok"]
  BY <1>1, ErrorSound DEF Reset, Error
<1>3. k.stat[c] = "running"
  <2>1. k.stat[c] # "suspend" /\ k.stat[c] # "close"
    BY DEF IInv, SuspendedLeaves, ClosedLeaves, Pending
  <2> QED BY <1>1, <2>1 DEF Sound, Consistent, CurrentConsistent
<1> HIDE DEF e
<1>4. Enqueued(e, n, w, c)
  <2>1. e.stat[c] = "running"
    BY <1>2, <1>3
  <2>2. \/ n = SuspendFifo(e, w, c) \/ n = SuspendPrio(e, w, c)
        \/ w = Receivers /\ n = SuspendFirst(e, c)
    BY DEF e, Enqueue
  <2> QED BY <1>1, <1>2, <2>1, <2>2, FifoSound, PrioSound, FirstSound
<1>5. ThenSchedule(b, "block") /\ (b = n \/ \E d \in Nat : b = rt_timer_start(n, c, d))
  BY DEF Block, Me
<1>6. time # Forever => b = rt_timer_start(n, c, time)
  OBVIOUS
<1> HIDE DEF b
<1>7. IInv' /\ JoinsAt(w, "block")
  BY <1>2, <1>4, <1>5, EnqueueStep DEF SameCurrent
<1>8. time # Forever => c \in Members(k'.timers) /\ k'.left[c] = time
  <2>1. n \in KernelState /\ NoDup(n.timers)
    BY <1>4 DEF Enqueued, Sound, Consistent, TimersConsistent
  <2>2. k' = b
    BY <1>5 DEF ThenSchedule
  <2> QED BY <1>1, <1>6, <2>1, <2>2, TimerStarted
<1>9. isr' = isr
  BY <1>5 DEF ThenSchedule
<1> QED BY <1>1, <1>3, <1>7, <1>8, <1>9 DEF Waits

\* The first thread of list w is resumed, or there is none.
WakesFirst(w) ==
    IF k.wait[w] = <<>> THEN k' = k
    ELSE Frees(k, k', {Head(k.wait[w])}) /\ k'.error = k.error

\* A call ends and resumes the first thread of w, if there is one.
LEMMA FinishWakingStep ==
    ASSUME IInv, k.current # Idle, pc[k.current] \notin Pending, NEW w \in WaitList,
           FinishWaking(w)
    PROVE  /\ IInv' /\ WakesFirst(w) /\ k.current \in Thread /\ isr' = isr
           /\ \E l \in {"run", "sched"} : pc' = [pc EXCEPT ![k.current] = l]
<1> DEFINE h == Head(k.wait[w])
           n == rt_thread_resume(k, h)
<1>1. CASE k.wait[w] = <<>>
  <2>1. Goto("run") /\ k' = k /\ isr' = isr /\ picked' = picked /\ owed' = owed
    BY <1>1 DEF FinishWaking
  <2>2. IInv' /\ Moves("run")
    BY <2>1, MoveStep DEF InWait
  <2> QED BY <1>1, <2>1, <2>2 DEF WakesFirst, Moves
<1>2. CASE k.wait[w] # <<>>
  <2>1. ThenSchedule(n, "sched")
    BY <1>2 DEF FinishWaking, _ipc_list_resume
  <2>2. h \in Thread /\ k.stat[h] = "suspend" /\ Sound(k) /\ k.current \in Thread
    BY <1>2, FirstWaiter DEF IInv, Typed, KernelState
  <2> HIDE DEF h
  <2>3. Sound(n) /\ SameCurrent(k, n) /\ Frees(k, n, {h}) /\ n.error = k.error
    BY <2>2, ResumeFrees
  <2> HIDE DEF n
  <2>4. IInv' /\ k' = n /\ pc' = [pc EXCEPT ![k.current] = "sched"] /\ isr' = isr
    <3>1. pc[k.current] # "sched"
      BY DEF Pending
    <3> QED BY <2>1, <2>3, <3>1, SectionFrees
  <2> QED BY <1>2, <2>2, <2>3, <2>4 DEF WakesFirst, h
<1> QED BY <1>1, <1>2

\* A handler does the same.
LEMMA HandlerWakesStep ==
    ASSUME IInv, NEW w \in WaitList, HandlerWakes(w)
    PROVE  IInv' /\ WakesFirst(w) /\ pc' = pc /\ isr' = isr
<1> DEFINE h == Head(k.wait[w])
           n == rt_thread_resume(k, h)
<1>1. CASE k.wait[w] = <<>>
  <2>1. UNCHANGED vars
    BY <1>1 DEF HandlerWakes
  <2> QED BY <1>1, <2>1, SilentStep DEF WakesFirst, vars, IInv, Typed
<1>2. CASE k.wait[w] # <<>>
  <2>1. k' = rt_schedule(n) /\ Settle /\ pc' = pc /\ isr' = isr /\ picked' = picked
    BY <1>2 DEF HandlerWakes, _ipc_list_resume
  <2>2. h \in Thread /\ k.stat[h] = "suspend" /\ Sound(k)
    BY <1>2, FirstWaiter DEF IInv
  <2> HIDE DEF h
  <2>3. Sound(n) /\ SameCurrent(k, n) /\ Frees(k, n, {h}) /\ n.error = k.error
    BY <2>2, ResumeFrees
  <2> HIDE DEF n
  <2>4. IInv' /\ Frees(k, k', {h}) /\ k'.error = n.error
    BY <2>1, <2>3, HandlerFrees
  <2> QED BY <1>2, <2>1, <2>3, <2>4 DEF WakesFirst, h
<1> QED BY <1>1, <1>2

\* All threads that wait are resumed with an error.
BreaksAll(V) ==
    LET R == UNION {Members(k.wait[w]) : w \in V}
    IN  Frees(k, k', R) /\ \A t \in R : k'.error[t] = "error"

\* _ipc_list_resume_all of one list.
LEMMA ResumeAllFrees ==
    ASSUME NEW a, Sound(a), NEW w \in WaitList
    PROVE  LET n == _ipc_list_resume_all(a, w)
               R == Members(a.wait[w])
           IN  /\ Sound(n) /\ SameCurrent(a, n) /\ Frees(a, n, R)
               /\ \A t \in R : n.error[t] = "error"
<1> DEFINE n == _ipc_list_resume_all(a, w)
           R == Members(a.wait[w])
<1>1. /\ Sound(n) /\ SameCurrent(a, n)
      /\ n.wait = [a.wait EXCEPT ![w] = <<>>]
      /\ \A t \in Thread :
            IF t \in R
            THEN n.error[t] = "error" /\ n.stat[t] \in {"ready", "running"}
            ELSE n.error[t] = a.error[t] /\ n.stat[t] = a.stat[t]
  BY ResumeAllSound
<1>2. a.wait \in [WaitList -> Seq(Thread)]
  BY DEF Sound, KernelState
<1> HIDE DEF n
<1>3. /\ R \subseteq Thread
      /\ \A t \in R : a.stat[t] = "suspend"
                      /\ \A v \in WaitList \ {w} : t \notin Members(a.wait[v])
  BY <1>2 DEF Sound, Consistent, WaitConsistent, Members
<1>4. \A v \in WaitList : Members(n.wait[v]) = Members(a.wait[v]) \ R
  <2>1. Members(<<>>) = {}
    BY DEF Members
  <2> QED BY <1>1, <1>2, <1>3, <2>1
<1> HIDE DEF R
<1> QED BY <1>1, <1>3, <1>4 DEF Frees, n, R

\* Two sets of threads one after the other.
LEMMA FreesBoth ==
    ASSUME NEW a, NEW b, NEW d, NEW R, NEW S, Frees(a, b, R), Frees(b, d, S)
    PROVE  Frees(a, d, R \cup S)
<1>1. R \cup S \subseteq Thread
  BY DEF Frees
<1>2. \A w \in WaitList : Members(d.wait[w]) = Members(a.wait[w]) \ (R \cup S)
  BY DEF Frees
<1>3. \A t \in R \cup S : a.stat[t] = "suspend" /\ d.stat[t] \in {"ready", "running"}
  BY <1>1 DEF Frees
<1>4. \A t \in Thread \ (R \cup S) :
         /\ d.error[t] = a.error[t]
         /\ \/ d.stat[t] = a.stat[t]
            \/ {a.stat[t], d.stat[t]} \subseteq {"ready", "running"}
  BY DEF Frees
<1> QED BY <1>1, <1>2, <1>3, <1>4 DEF Frees

\* A reset of the lists V.
LEMMA BreakStep ==
    ASSUME IInv, k.current # Idle, pc[k.current] # "sched",
           NEW V, NEW n,
           \/ V = {Receivers} /\ n = _ipc_list_resume_all(k, Receivers)
           \/ /\ V = {Receivers, Senders}
              /\ n = _ipc_list_resume_all(_ipc_list_resume_all(k, Receivers), Senders),
           ThenSchedule(n, "sched")
    PROVE  /\ IInv' /\ BreaksAll(V) /\ k.current \in Thread /\ isr' = isr
           /\ pc' = [pc EXCEPT ![k.current] = "sched"]
<1> DEFINE a == _ipc_list_resume_all(k, Receivers)
           b == _ipc_list_resume_all(a, Senders)
           A == Members(k.wait[Receivers])
           B == Members(a.wait[Senders])
           R == UNION {Members(k.wait[w]) : w \in V}
<1>0. /\ Receivers \in WaitList /\ Senders \in WaitList /\ Sound(k) /\ k.current \in Thread
      /\ Receivers # Senders
  BY ListsAssumption DEF IInv, Typed, KernelState
<1>1. Sound(a) /\ SameCurrent(k, a) /\ Frees(k, a, A) /\ \A t \in A : a.error[t] = "error"
  BY <1>0, ResumeAllFrees
<1> HIDE DEF a
<1>2. Sound(b) /\ SameCurrent(a, b) /\ Frees(a, b, B) /\ \A t \in B : b.error[t] = "error"
  BY <1>0, <1>1, ResumeAllFrees
<1> HIDE DEF b
<1>3. B = Members(k.wait[Senders])
  <2>1. Members(a.wait[Senders]) = Members(k.wait[Senders]) \ A
    BY <1>0, <1>1 DEF Frees
  <2>2. \A t \in A : t \notin Members(k.wait[Senders])
    BY <1>0 DEF Sound, Consistent, WaitConsistent
  <2> QED BY <2>1, <2>2
<1>4. /\ Frees(k, b, A \cup B) /\ SameCurrent(k, b)
      /\ \A t \in A \cup B : b.error[t] = "error"
  <2> HIDE DEF A, B
  <2>1. Frees(k, b, A \cup B)
    BY <1>1, <1>2, FreesBoth
  <2>2. \A t \in A : t \notin B => b.error[t] = a.error[t]
    BY <1>1, <1>2 DEF Frees
  <2> QED BY <1>1, <1>2, <2>1, <2>2 DEF SameCurrent
<1>5. Sound(n) /\ SameCurrent(k, n) /\ Frees(k, n, R) /\ \A t \in R : n.error[t] = "error"
  <2>1. CASE V = {Receivers} /\ n = a
    <3>1. R = A
      BY <2>1
    <3> HIDE DEF A, R
    <3> QED BY <1>1, <2>1, <3>1
  <2>2. CASE V = {Receivers, Senders} /\ n = b
    <3>1. R = A \cup B
      BY <1>3, <2>2
    <3> HIDE DEF A, B, R
    <3> QED BY <1>2, <1>4, <2>2, <3>1
  <2> QED BY <2>1, <2>2 DEF a, b
<1> HIDE DEF R
<1>6. IInv' /\ k' = n /\ pc' = [pc EXCEPT ![k.current] = "sched"] /\ isr' = isr
  BY <1>5, SectionFrees
<1> QED BY <1>0, <1>5, <1>6 DEF BreaksAll, R

\* rt_mp_free resumes the first waiter and clears its error.
LEMMA FirstResumedFrees ==
    ASSUME IInv, k.wait[Receivers] # <<>>
    PROVE  LET h == Head(k.wait[Receivers])
           IN  /\ Sound(FirstResumed) /\ SameCurrent(k, FirstResumed)
               /\ Frees(k, FirstResumed, {h}) /\ FirstResumed.error[h] = "ok"
<1> DEFINE h == Head(k.wait[Receivers])
           e == Reset(k, h)
           n == rt_thread_resume(e, h)
<1>0. Receivers \in WaitList /\ Sound(k)
  BY ListsAssumption DEF IInv
<1>1. h \in Thread /\ k.stat[h] = "suspend" /\ FirstResumed = n
  BY <1>0, FirstWaiter DEF FirstResumed
<1> HIDE DEF h
<1>2. /\ Sound(e) /\ SameCurrent(k, e) /\ e.stat = k.stat /\ e.wait = k.wait
      /\ e.error = [k.error EXCEPT ![h] = "ok"]
  BY <1>0, <1>1, ErrorSound DEF Reset, Error
<1> HIDE DEF e
<1>3. Sound(n) /\ SameCurrent(e, n) /\ Frees(e, n, {h}) /\ n.error = e.error
  BY <1>1, <1>2, ResumeFrees
<1>4. k.error \in [Thread -> Error]
  BY <1>0 DEF Sound, KernelState
<1> HIDE DEF n
<1>5. Frees(k, n, {h}) /\ n.error[h] = "ok"
  BY <1>1, <1>2, <1>3, <1>4 DEF Frees
<1> QED BY <1>1, <1>2, <1>3, <1>5 DEF SameCurrent, h

-----------------------------------------------------------------------------
(* Where the threads are *)

\* The idle thread makes no call, and a thread on a suspend list is in the
\* wait of one.
IdleHome == pc[Idle] \in {"run", "reclaim"}

Listed == \A w \in WaitList : \A t \in Members(k.wait[w]) : pc[t] \in {"block", "woken"}

\* A thread that executes and has no rt_schedule to call is on no list.
LEMMA CurrentOff ==
    ASSUME IInv, Listed, pc[k.current] \notin Pending
    PROVE  OffWaits(k, k.current)
<1>1. CASE k.stat[k.current] # "suspend"
  BY <1>1, AwakeOff DEF IInv
<1>2. CASE k.stat[k.current] = "suspend"
  BY <1>2 DEF IInv, SuspendedLeaves, WaitsUnlocked, Listed, OffWaits, Pending, InWait
<1> QED BY <1>1, <1>2

\* The labels a call goes through.
LEMMA CallHome ==
    ASSUME IInv, IdleHome, Listed,
           \A w \in WaitList : Members(k'.wait[w]) \subseteq Members(k.wait[w]),
           \/ pc' = pc
           \/ /\ k.current # Idle /\ pc[k.current] \notin Pending
              /\ \E l : pc' = [pc EXCEPT ![k.current] = l]
    PROVE  IdleHome' /\ Listed'
<1>1. pc \in [Thread -> EveryLabel] /\ k.current \in Thread
  BY DEF IInv, Typed, KernelState
<1>2. CASE pc' = pc
  BY <1>2 DEF IdleHome, Listed
<1>3. CASE /\ k.current # Idle /\ pc[k.current] \notin Pending
           /\ \E l : pc' = [pc EXCEPT ![k.current] = l]
  <2>1. OffWaits(k, k.current)
    BY <1>3, CurrentOff
  <2>2. \A t \in Thread : t # k.current => pc'[t] = pc[t]
    BY <1>1, <1>3
  <2>3. \A w \in WaitList : Members(k.wait[w]) \subseteq Thread
    BY WaitersSuspended
  <2> QED BY <1>3, <2>1, <2>2, <2>3, IdleAssumption DEF OffWaits, IdleHome, Listed
<1> QED BY <1>2, <1>3

\* A call that waits.
LEMMA WaitsHome ==
    ASSUME IInv, IdleHome, Listed, k.current # Idle, NEW w \in WaitList, Waits(w)
    PROVE  IdleHome' /\ Listed'
<1>1. pc \in [Thread -> EveryLabel] /\ k.current \in Thread
  BY DEF IInv, Typed, KernelState
<1>2. /\ \A t \in Thread : pc'[t] = IF t = k.current THEN "block" ELSE pc[t]
      /\ \A v \in WaitList : Members(k'.wait[v]) \subseteq Members(k.wait[v]) \cup {k.current}
  BY <1>1 DEF Waits, JoinsAt
<1>3. \A v \in WaitList : Members(k.wait[v]) \subseteq Thread
  BY WaitersSuspended
<1> QED BY <1>1, <1>2, <1>3, IdleAssumption DEF IdleHome, Listed

\* How the steps of module Scheduler change the labels.
LEMMA NextPc ==
    ASSUME IInv, [Next]_vars, NEW t \in Thread
    PROVE  \/ pc'[t] = pc[t]
           \/ t = k.current /\ pc[t] \in Label /\ pc'[t] \in Label
           \/ "create" \in Calls /\ k.stat[t] = "close" /\ pc'[t] = "run"
<1>1. pc \in [Thread -> EveryLabel] /\ k.current \in Thread
  BY DEF IInv, Typed, KernelState
<1>2. \/ pc' = pc
      \/ pc[k.current] \in Label /\ \E l \in Label : pc' = [pc EXCEPT ![k.current] = l]
      \/ \E u \in Thread : k.stat[u] = "close" /\ "create" \in Calls
                           /\ pc' = [pc EXCEPT ![u] = "run"]
  BY DEF Next, ThreadStep, TickStep, Startup, Create, Resume, Delete, May, InThread, At,
     SetPriority, Sleep, Yield, WakeUp, Suspend, EnterCritical, ExitCritical, Exit,
     CallSchedule, ScheduleFrom, ThenSchedule, Done, Goto, IdlePick, IdleReclaim,
     Tick, TimerCheck, TickSchedule, TimerFire, TickEnd, Irq, vars, Label
<1> QED BY <1>1, <1>2

\* They keep the idle thread at home and the waiting threads in their calls.
LEMMA NextHome ==
    ASSUME IInv, IdleHome, Listed, [Next]_vars PROVE IdleHome' /\ Listed'
<1>1. pc \in [Thread -> EveryLabel] /\ k.current \in Thread
  BY DEF IInv, Typed, KernelState
<1>2. IdleHome'
  <2>1. \/ pc' = pc
        \/ k.current # Idle /\ \E l : pc' = [pc EXCEPT ![k.current] = l]
        \/ \E l \in {"run", "reclaim"}, u \in Thread : pc' = [pc EXCEPT ![u] = l]
    BY <1>1 DEF Next, ThreadStep, TickStep, Startup, Create, Resume, Delete, May,
       InThread, At, SetPriority, Sleep, Yield, WakeUp, Suspend, EnterCritical,
       ExitCritical, Exit, CallSchedule, ScheduleFrom, ThenSchedule, Done, Goto,
       IdlePick, IdleReclaim, Tick, TimerCheck, TickSchedule, TimerFire, TickEnd, Irq,
       vars, IdleHome
  <2> QED BY <1>1, <2>1, IdleAssumption DEF IdleHome
<1>3. Listed'
  <2> SUFFICES ASSUME NEW w \in WaitList, NEW t \in Members(k'.wait[w])
               PROVE  pc'[t] \in {"block", "woken"}
    BY DEF Listed
  <2>1. t \in Members(k.wait[w])
    <3>1. k'.wait = k.wait \/ \E h \in Thread : k'.wait = WaitsWithout(k, h)
      BY NextLists
    <3>2. \A h : k'.wait = WaitsWithout(k, h) =>
                    Members(k'.wait[w]) = Members(k.wait[w]) \ {h}
      BY MembersLeft
    <3> QED BY <3>1, <3>2
  <2>2. t \in Thread /\ k.stat[t] = "suspend" /\ pc[t] \in {"block", "woken"}
    BY <2>1, WaitersSuspended DEF Listed
  <2>3. pc'[t] = pc[t]
    BY <2>2, NextPc DEF Label
  <2> QED BY <2>2, <2>3
<1> QED BY <1>2, <1>3

-----------------------------------------------------------------------------
(* rt_event_send *)

Caller == Thread \cup {Handler}

\* The fields of the call of a thread that waits for events.
EventCall(t) == DOMAIN call[t] = {"op", "set", "option"}

\* The kernel after some rounds of the loop, which have resumed R.
SentKernel(s, R) ==
    /\ Sound(s.k) /\ SameCurrent(k, s.k) /\ Frees(k, s.k, R) /\ s.k.error = k.error
    /\ DOMAIN s.call = Caller
    /\ \A t \in Caller \ R : s.call[t] = call[t]
    /\ \A t \in R : /\ DOMAIN s.call[t] = DOMAIN call[t]
                    /\ s.call[t].op = call[t].op /\ s.call[t].option = call[t].option

\* What the threads R are told, and what is left of the events B: the rounds
\* have gone through the threads D.
SentEvents(s, D, R, B) ==
    /\ s.set \subseteq B /\ R \subseteq D
    /\ \A t \in D \ R : ~ Holds(s.set, call[t].set, call[t].option)
    /\ \A t \in R : IF call[t].option.all THEN s.call[t].set = call[t].set
                    ELSE s.call[t].set # {} /\ s.call[t].set \subseteq call[t].set
    /\ \A t \in R : call[t].option.clear =>
          /\ s.call[t].set \cap s.set = {}
          /\ \A u \in R \ {t} :
                call[u].option.clear => s.call[t].set \cap s.call[u].set = {}

\* One round resumes its thread or passes it by.
LEMMA SendToKernel ==
    ASSUME NEW s, NEW R, SentKernel(s, R), NEW t \in Thread, t \notin R,
           k.stat[t] = "suspend", EventCall(t)
    PROVE  IF Holds(s.set, call[t].set, call[t].option)
           THEN SentKernel(SendTo(s, t), R \cup {t}) ELSE SendTo(s, t) = s
<1> DEFINE c == s.call[t]
           got == IF c.option.all THEN c.set ELSE c.set \cap s.set
           n == rt_thread_resume(s.k, t)
           z == IF c.option.clear THEN s.set \ got ELSE s.set
           f == [s.call EXCEPT ![t].set = got]
           r == [k |-> n, set |-> z, call |-> f]
<1>1. c = call[t] /\ s.k.stat[t] = "suspend" /\ t \in Caller
  BY DEF SentKernel, Frees, Caller
<1>2. CASE ~ Holds(s.set, call[t].set, call[t].option)
  BY <1>1, <1>2 DEF SendTo
<1>3. CASE Holds(s.set, call[t].set, call[t].option)
  <2>1. SendTo(s, t) = r
    BY <1>1, <1>3 DEF SendTo
  <2>2. Sound(n) /\ SameCurrent(s.k, n) /\ Frees(s.k, n, {t}) /\ n.error = s.k.error
    <3> DEFINE a == s.k
    <3> HIDE DEF a
    <3>1. Sound(a) /\ a.stat[t] = "suspend"
      BY <1>1 DEF SentKernel, a
    <3>2. LET m == rt_thread_resume(a, t)
          IN  Sound(m) /\ SameCurrent(a, m) /\ Frees(a, m, {t}) /\ m.error = a.error
      BY <3>1, ResumeFrees
    <3> QED BY <3>2 DEF a
  <2>3. /\ DOMAIN f = Caller /\ \A u \in Caller : u # t => f[u] = s.call[u]
        /\ f[t] = [s.call[t] EXCEPT !.set = got]
    BY <1>1 DEF SentKernel
  <2>4. /\ DOMAIN f[t] = DOMAIN call[t] /\ f[t].op = call[t].op
        /\ f[t].option = call[t].option
    BY <1>1, <2>3 DEF EventCall
  <2> HIDE DEF n, f, z
  <2>5. Frees(k, n, R \cup {t})
    <3> DEFINE a == s.k
    <3>1. Frees(k, a, R) /\ Frees(a, n, {t})
      BY <2>2 DEF SentKernel
    <3> HIDE DEF a
    <3> QED BY <3>1, FreesBoth
  <2>6. SameCurrent(k, n) /\ n.error = k.error
    BY <2>2 DEF SentKernel, SameCurrent
  <2>7. r.k = n /\ r.call = f
    OBVIOUS
  <2> HIDE DEF r
  <2>8. R \subseteq Caller
    BY DEF SentKernel, Frees, Caller
  <2>9. SentKernel(r, R \cup {t})
    BY <2>2, <2>3, <2>4, <2>5, <2>6, <2>7, <2>8 DEF SentKernel
  <2> QED BY <1>3, <2>1, <2>9
<1> QED BY <1>2, <1>3

\* The walk of rt_event_send, at one more waiter.
LEMMA SendToEvents ==
    ASSUME NEW s, NEW R, NEW D, NEW B, SentKernel(s, R), SentEvents(s, D, R, B),
           NEW t \in Thread, t \notin D, EventCall(t)
    PROVE  SentEvents(SendTo(s, t), D \cup {t},
                      IF Holds(s.set, call[t].set, call[t].option) THEN R \cup {t} ELSE R,
                      B)
<1> DEFINE c == s.call[t]
           got == IF c.option.all THEN c.set ELSE c.set \cap s.set
           n == rt_thread_resume(s.k, t)
           z == IF c.option.clear THEN s.set \ got ELSE s.set
           f == [s.call EXCEPT ![t].set = got]
           r == [k |-> n, set |-> z, call |-> f]
<1>1. c = call[t] /\ t \in Caller /\ t \notin R /\ R \subseteq Caller
  BY DEF SentKernel, SentEvents, Caller, Frees
<1>2. CASE ~ Holds(s.set, call[t].set, call[t].option)
  <2>1. SendTo(s, t) = s
    BY <1>1, <1>2 DEF SendTo
  <2> QED BY <1>2, <2>1 DEF SentEvents
<1>3. CASE Holds(s.set, call[t].set, call[t].option)
  <2>1. SendTo(s, t) = r
    BY <1>1, <1>3 DEF SendTo
  <2>2. /\ \A u \in R : f[u] = s.call[u]
        /\ f[t].set = got
    BY <1>1 DEF SentKernel, EventCall
  <2>3. /\ IF call[t].option.all THEN got = call[t].set
           ELSE got # {} /\ got \subseteq call[t].set
        /\ got \subseteq s.set /\ z \subseteq s.set
        /\ call[t].option.clear => got \cap z = {}
    BY <1>1, <1>3 DEF Holds
  <2>4. ASSUME NEW u \in D \ R PROVE ~ Holds(z, call[u].set, call[u].option)
    BY <2>3 DEF SentEvents, Holds
  <2>5. r.set = z /\ r.call = f
    OBVIOUS
  <2> HIDE DEF r, z, f, got
  <2>6. \A u \in R : call[u].option.clear =>
           s.call[u].set \cap z = {} /\ s.call[u].set \cap got = {}
    BY <2>3 DEF SentEvents
  <2>7. SentEvents(r, D \cup {t}, R \cup {t}, B)
    <3>1. r.set \subseteq B /\ R \cup {t} \subseteq D \cup {t}
      BY <2>3, <2>5 DEF SentEvents
    <3>2. \A u \in (D \cup {t}) \ (R \cup {t}) : ~ Holds(r.set, call[u].set, call[u].option)
      BY <2>4, <2>5
    <3>3. \A u \in R \cup {t} :
             IF call[u].option.all THEN r.call[u].set = call[u].set
             ELSE r.call[u].set # {} /\ r.call[u].set \subseteq call[u].set
      BY <2>2, <2>3, <2>5 DEF SentEvents
    <3>4. ASSUME NEW u \in R \cup {t}, call[u].option.clear
          PROVE  /\ r.call[u].set \cap r.set = {}
                 /\ \A v \in (R \cup {t}) \ {u} :
                       call[v].option.clear => r.call[u].set \cap r.call[v].set = {}
      <4>1. CASE u = t
        BY <1>1, <2>2, <2>3, <2>5, <2>6, <3>4, <4>1
      <4>2. CASE u \in R
        BY <1>1, <2>2, <2>3, <2>5, <2>6, <3>4, <4>2 DEF SentEvents
      <4> QED BY <4>1, <4>2
    <3> QED BY <3>1, <3>2, <3>3, <3>4 DEF SentEvents
  <2> QED BY <1>3, <2>1, <2>7
<1> QED BY <1>2, <1>3

\* g[i] is the state of the loop after i rounds over the threads s.
IsSend(g, o, s, N) ==
    g = [i \in 0 .. N |-> IF i = 0 THEN o ELSE SendTo(g[i - 1], s[i])]

\* The rounds of the loop define a function.
LEMMA SendExists ==
    ASSUME NEW o, NEW s, NEW N \in Nat
    PROVE  \E g : IsSend(g, o, s, N)
<1> DEFINE Rounds(g, m) == IsSend(g, o, s, m)
           Bad == {m \in Nat : ~ \E g : Rounds(g, m)}
<1>1. SUFFICES ASSUME Bad # {} PROVE FALSE
  OBVIOUS
<1>2. Min(Bad) \in Bad /\ \A m \in Bad : Min(Bad) <= m
  BY <1>1, MinIsLeast
<1> DEFINE m == Min(Bad)
<1>3. m \in Nat /\ ~ (\E g : Rounds(g, m)) /\ \A j \in Bad : m <= j
  BY <1>2
<1> HIDE DEF m
<1>4. m # 0
  <2>1. Rounds([i \in 0 .. 0 |-> o], 0)
    BY DEF IsSend
  <2> HIDE DEF Rounds
  <2> QED BY <1>3, <2>1
<1>5. m - 1 \in Nat /\ m - 1 \notin Bad
  <2> HIDE DEF Bad
  <2> QED BY <1>3, <1>4
<1>6. PICK h : Rounds(h, m - 1)
  BY <1>5
<1> DEFINE g == [i \in 0 .. m |-> IF i = m THEN SendTo(h[m - 1], s[m]) ELSE h[i]]
<1>7. \A i \in 0 .. m : g[i] = IF i = 0 THEN o ELSE SendTo(g[i - 1], s[i])
  <2> SUFFICES ASSUME NEW i \in 0 .. m
               PROVE  g[i] = IF i = 0 THEN o ELSE SendTo(g[i - 1], s[i])
    OBVIOUS
  <2>1. CASE i = m
    <3>1. g[m] = SendTo(h[m - 1], s[m]) /\ m - 1 \in 0 .. m /\ m - 1 # m
      BY <1>3, <1>5
    <3>2. g[m - 1] = h[m - 1]
      BY <3>1
    <3> QED BY <1>4, <2>1, <3>1, <3>2
  <2>2. CASE i # m
    <3>1. i \in 0 .. m - 1 /\ g[i] = h[i]
      BY <1>3, <2>2
    <3>2. h[i] = IF i = 0 THEN o ELSE SendTo(h[i - 1], s[i])
      BY <1>6, <3>1 DEF IsSend
    <3>3. i # 0 => i - 1 \in 0 .. m /\ i - 1 # m
      BY <1>3, <2>2
    <3> QED BY <3>1, <3>2, <3>3
  <2> QED BY <2>1, <2>2
<1>8. Rounds(g, m)
  BY <1>7 DEF IsSend
<1> QED BY <1>3, <1>8

\* Sent is the last of the rounds.
LEMMA SentIs ==
    ASSUME NEW bits, Len(k.wait[Receivers]) \in Nat
    PROVE  LET s == k.wait[Receivers]
           IN  \E g : /\ Sent(bits) = g[Len(s)]
                      /\ g[0] = [k |-> k, set |-> obj.set \cup bits, call |-> call]
                      /\ \A i \in 1 .. Len(s) : g[i] = SendTo(g[i - 1], s[i])
<1> DEFINE s == k.wait[Receivers]
           N == Len(s)
           o == [k |-> k, set |-> obj.set \cup bits, call |-> call]
           G == CHOOSE g : IsSend(g, o, s, N)
<1>1. \E g : IsSend(g, o, s, N)
  BY SendExists
<1>2. IsSend(G, o, s, N)
  BY <1>1
<1>3. Sent(bits) = G[N]
  BY DEF Sent, IsSend
<1> HIDE DEF G, o
<1>4. G[0] = o /\ \A i \in 1 .. N : G[i] = SendTo(G[i - 1], s[i])
  <2>1. \A i \in 0 .. N : G[i] = IF i = 0 THEN o ELSE SendTo(G[i - 1], s[i])
    BY ONLY <1>2 DEF IsSend
  <2> HIDE DEF s, N
  <2>2. N \in Nat
    BY DEF N, s
  <2> QED BY <2>1, <2>2
<1> QED BY <1>3, <1>4 DEF o

\* The whole loop: what it resumes, what it tells and what it leaves.
LEMMA SentAll ==
    ASSUME IInv, DOMAIN call = Caller, NEW bits,
           \A t \in Members(k.wait[Receivers]) : EventCall(t)
    PROVE  \E R : /\ SentKernel(Sent(bits), R)
                  /\ SentEvents(Sent(bits), Members(k.wait[Receivers]), R,
                                obj.set \cup bits)
<1> DEFINE s == k.wait[Receivers]
           N == Len(s)
           B == obj.set \cup bits
<1>1. Receivers \in WaitList /\ s \in Seq(Thread) /\ NoDup(s) /\ N \in Nat
  BY ListsAssumption DEF IInv, Sound, Consistent, WaitConsistent, KernelState
<1>2. PICK g : /\ Sent(bits) = g[N]
               /\ g[0] = [k |-> k, set |-> B, call |-> call]
               /\ \A i \in 1 .. N : g[i] = SendTo(g[i - 1], s[i])
  BY <1>1, SentIs
<1> DEFINE D(i) == {s[j] : j \in 1 .. i}
           P(i) == \E R : SentKernel(g[i], R) /\ SentEvents(g[i], D(i), R, B)
           Bad == {i \in 0 .. N : ~ P(i)}
<1>3. P(0)
  <2>1. g[0].k = k /\ g[0].set = B /\ g[0].call = call
    BY <1>2
  <2>2. D(0) = {}
    OBVIOUS
  <2>3. Frees(k, k, {}) /\ SameCurrent(k, k) /\ Sound(k)
    BY DEF Frees, SameCurrent, IInv
  <2> HIDE DEF B, D
  <2>4. SentKernel(g[0], {})
    BY <2>1, <2>3 DEF SentKernel
  <2>5. SentEvents(g[0], {}, {}, B)
    BY <2>1 DEF SentEvents
  <2> QED BY <2>2, <2>4, <2>5
<1>4. ASSUME NEW i \in 1 .. N, P(i - 1) PROVE P(i)
  <2>1. PICK R : SentKernel(g[i - 1], R) /\ SentEvents(g[i - 1], D(i - 1), R, B)
    BY <1>4
  <2> DEFINE t == s[i]
             a == g[i - 1]
             E == D(i - 1)
  <2>2. t \in Thread /\ t \in Members(s)
    BY <1>1 DEF Members
  <2>3. EventCall(t) /\ k.stat[t] = "suspend"
    BY <1>1, <2>2, WaitersSuspended
  <2>4. t \notin E
    BY <1>1 DEF NoDup
  <2>5. D(i) = E \cup {t} /\ g[i] = SendTo(a, t)
    <3>1. \A j : j \in 1 .. i <=> j \in 1 .. (i - 1) \/ j = i
      BY <1>1
    <3>2. D(i) = E \cup {t}
      BY <3>1
    <3> QED BY <1>2, <3>2
  <2> HIDE DEF t, a, E, D, B
  <2>6. t \notin R
    BY <2>1, <2>4 DEF SentEvents, a, E
  <2>7. SentKernel(a, R) /\ SentEvents(a, E, R, B)
    BY <2>1 DEF a, E
  <2>8. CASE Holds(a.set, call[t].set, call[t].option)
    <3>1. SentKernel(SendTo(a, t), R \cup {t})
      BY <2>2, <2>3, <2>6, <2>7, <2>8, SendToKernel
    <3>2. SentEvents(SendTo(a, t), E \cup {t}, R \cup {t}, B)
      BY <2>2, <2>3, <2>4, <2>7, <2>8, SendToEvents
    <3> QED BY <2>5, <3>1, <3>2
  <2>9. CASE ~ Holds(a.set, call[t].set, call[t].option)
    <3>1. SendTo(a, t) = a
      BY <2>2, <2>3, <2>6, <2>7, <2>9, SendToKernel
    <3>2. SentEvents(SendTo(a, t), E \cup {t}, R, B)
      BY <2>2, <2>3, <2>4, <2>7, <2>9, SendToEvents
    <3> QED BY <2>5, <2>7, <3>1, <3>2
  <2> QED BY <2>8, <2>9
<1>5. P(N)
  <2> HIDE DEF P
  <2>1. SUFFICES ASSUME Bad # {} PROVE FALSE
    BY <1>1
  <2>2. PICK m : m \in Bad /\ \A j \in Bad : m <= j
    <3>1. Bad \subseteq Nat
      BY <1>1
    <3> QED BY <2>1, <3>1, MinIsLeast
  <2>3. m \in 0 .. N /\ ~ P(m) /\ m # 0
    BY <1>3, <2>2
  <2>4. m \in 1 .. N /\ m - 1 \in 0 .. N
    BY <1>1, <2>3
  <2>5. m - 1 \notin Bad
    <3> HIDE DEF Bad
    <3> QED BY <1>1, <2>2, <2>4
  <2> QED BY <1>4, <2>3, <2>4, <2>5
<1>6. D(N) = Members(s)
  BY DEF Members
<1> HIDE DEF D
<1> QED BY <1>2, <1>5, <1>6

-----------------------------------------------------------------------------
(* Whom the suspend lists hold *)

\* The calls that wait on list w of the object.
ListOp(w) ==
    IF obj.kind \in {"mailbox", "queue"}
    THEN IF w = Receivers THEN "recv" ELSE "send"
    ELSE IF IsEvent THEN "event" ELSE IF IsPool THEN "alloc"
    ELSE IF IsCompletion THEN "wait" ELSE "getchar"

Waiter(w, t) ==
    /\ call[t].op = ListOp(w) /\ (IsEvent => EventCall(t))
    /\ w = Senders => obj.kind \in {"mailbox", "queue"}

\* Whatever the object is: the invariant of the kernel, and on a suspend list
\* are threads in a wait of the calls that the list is for.
Base ==
    /\ IInv /\ IdleHome /\ Listed /\ HasKind /\ DOMAIN call = Caller
    /\ \A w \in WaitList : \A t \in Members(k.wait[w]) : Waiter(w, t)

\* The current thread executes a call, and is on no list.
Ready ==
    /\ k.current \in Thread /\ k.current # Idle /\ pc[k.current] \notin Pending
    /\ OffWaits(k, k.current)

\* The labels between the critical sections of the calls.
CallLabel == {"woken", "retry", "ask", "fill", "copy", "done"}

\* A thread that starts a call, or is inside one, is on no list.
LEMMA ReadyCall ==
    ASSUME Base, Calling \/ \E l \in CallLabel : \E op : Inside(l, op)
    PROVE  Ready
<1>1. k.current \in Thread
  BY DEF Base, IInv, Typed, KernelState
<1>2. k.current # Idle /\ pc[k.current] \notin Pending
  BY DEF Base, Calling, InThread, Inside, At, CallLabel, IdleHome, Pending
<1> QED BY <1>1, <1>2, CurrentOff DEF Base, Ready

\* The call of the current thread becomes c.
Mine(c) == call' = [call EXCEPT ![k.current] = c]

\* Nobody joins a list, and those that stay do not change their call.
Stays ==
    \A w \in WaitList : /\ Members(k'.wait[w]) \subseteq Members(k.wait[w])
                        /\ \A t \in Members(k'.wait[w]) : call'[t] = call[t]

\* The current thread goes to a label, or nobody does.
Walks ==
    pc' = pc \/ (Ready /\ \E l : pc' = [pc EXCEPT ![k.current] = l])

\* A thread whose call does not change waits for the same.
LEMMA WaiterKept ==
    ASSUME NEW w, NEW t, Waiter(w, t), SameKind, call'[t] = call[t]
    PROVE  Waiter(w, t)'
BY DEF Waiter, ListOp, SameKind, EventCall, IsEvent, IsPool, IsCompletion

\* The two kinds of steps that keep Base.
LEMMA BaseStays ==
    ASSUME Base, IInv', SameKind, DOMAIN call' = Caller, Stays, Walks PROVE Base'
<1>1. IdleHome' /\ Listed'
  BY CallHome DEF Base, Stays, Walks, Ready
<1>2. ASSUME NEW w \in WaitList, NEW t \in Members(k'.wait[w]) PROVE Waiter(w, t)'
  BY WaiterKept DEF Base, Stays
<1> QED BY <1>1, <1>2 DEF Base, SameKind

\* A thread that begins to wait is on the list of its call.
LEMMA BaseWaits ==
    ASSUME Base, IInv', obj' = obj, Ready, NEW w \in WaitList, Waits(w), NEW c,
           Mine(c) \/ (call' = call /\ call[k.current] = c),
           c.op = ListOp(w), IsEvent => DOMAIN c = {"op", "set", "option"},
           w = Senders => obj.kind \in {"mailbox", "queue"}
    PROVE  Base'
<1>1. IdleHome' /\ Listed'
  BY WaitsHome DEF Base, Ready
<1>2. SameKind
  BY DEF SameKind, Base, HasKind
<1>3. /\ DOMAIN call' = Caller /\ call'[k.current] = c
      /\ \A t \in Thread : t # k.current => call'[t] = call[t]
  <2>1. k.current \in Caller /\ DOMAIN call = Caller /\ Thread \subseteq Caller
    BY DEF Base, Ready, Caller
  <2> QED BY <2>1 DEF Mine
<1>4. ASSUME NEW v \in WaitList, NEW t \in Members(k'.wait[v]) PROVE Waiter(v, t)'
  <2>1. CASE t = k.current
    <3>1. v = w
      <4>1. v # w => Members(k'.wait[v]) = Members(k.wait[v])
        BY DEF Waits, JoinsAt
      <4> QED BY <1>4, <2>1, <4>1 DEF Ready, OffWaits
    <3> QED BY <1>3, <2>1, <3>1
          DEF Waiter, ListOp, EventCall, IsEvent, IsPool, IsCompletion
  <2>2. CASE t # k.current
    <3>1. t \in Members(k.wait[v])
      BY <1>4, <2>2 DEF Waits, JoinsAt
    <3>2. Waiter(v, t) /\ call'[t] = call[t]
      BY <1>3, <2>2, <3>1, WaitersSuspended DEF Base
    <3> QED BY <1>2, <3>2, WaiterKept
  <2> QED BY <2>1, <2>2
<1> QED BY <1>1, <1>2, <1>3, <1>4 DEF Base, SameKind

-----------------------------------------------------------------------------
(* What a step of the mailbox does to the kernel, the object and the calls *)

\* A call op of the current thread ends, or one of the handler.
Returns(op) ==
    \/ /\ pc' = pc /\ DOMAIN call' = Caller /\ \A t \in Thread : call'[t] = call[t]
       /\ call'[Handler] \in {call[Handler], NoCall}
    \/ /\ Ready /\ (pc[k.current] = "run" \/ call[k.current].op = op)
       /\ \E l \in {"run", "sched"} : pc' = [pc EXCEPT ![k.current] = l]
       /\ Mine(NoCall)

\* A call of the current thread waits on list w.  If it has waited before,
\* its timer is set to what is left of its time.
ChanWaits(w) ==
    /\ Ready /\ Waits(w) /\ obj' = obj
    /\ \E c : /\ Mine(c) /\ c.op = ListOp(w) /\ "cell" \notin DOMAIN c
              /\ c.op = "send" => c.msg \in Message
    /\ pc[k.current] = "run" \/ (pc[k.current] = "woken" /\ call[k.current].op = ListOp(w))
    /\ pc[k.current] = "woken" /\ call[k.current].time # Forever =>
          /\ k.current \in Members(k'.timers)
          /\ k'.left[k.current] = k.left[k.current]

\* A call op that has waited ends without success.
ChanFails(op) ==
    /\ Ready /\ pc[k.current] = "woken" /\ call[k.current].op = op
    /\ Moves("run") /\ Mine(NoCall) /\ obj' = obj

\* A reset.
ChanBroken ==
    /\ Ready /\ pc[k.current] = "run" /\ BreaksAll({Receivers, Senders}) /\ call' = call
    /\ pc' = [pc EXCEPT ![k.current] = "sched"]

\* A message in a call is one of those that are sent.
MsgsTyped ==
    IsMailbox \/ IsQueue =>
        \A t \in Caller : call[t].op \in {"send", "urgent"} => call[t].msg \in Message

MbOutcome ==
    \/ /\ \E m \in Message : obj' \in {Posted(obj, m), PostedFirst(obj, m)}
       /\ obj.entry # Capacity /\ WakesFirst(Receivers) /\ Returns("send")
    \/ /\ obj.entry # 0 /\ obj' = Fetched(obj)
       /\ WakesFirst(Senders) /\ Returns("recv")
    \/ obj.entry = 0 /\ ChanWaits(Receivers)
    \/ obj.entry = Capacity /\ ChanWaits(Senders)
    \/ obj.entry = 0 /\ ChanFails("recv")
    \/ obj.entry = Capacity /\ ChanFails("send")
    \/ /\ obj' = [obj EXCEPT !.entry = 0, !.in_offset = 0, !.out_offset = 0]
       /\ ChanBroken

\* The timeouts of the calls, and what is left of one.
LEMMA TimeNames == ASSUME NEW x \in Times \cup {0, Forever} PROVE x \in Nat \cup {Forever}
<1>1. CASE x \in Times
  BY <1>1, TimesAssumption
<1>2. CASE x = 0
  BY <1>2
<1>3. CASE x = Forever
  BY <1>3
<1> QED BY <1>1, <1>2, <1>3

\* The two lists of an object.
LEMMA ListNames == Receivers \in WaitList /\ Senders \in WaitList /\ Receivers # Senders
BY ListsAssumption

\* What is left of a timeout is a number of ticks or forever.
LEMMA RestTime == ASSUME IInv PROVE Rest(k.current) \in Nat \cup {Forever}
BY DEF IInv, Typed, KernelState, Rest

\* A call that finds neither room nor messages, and waits or gives up.
LEMMA ChanWaitStep ==
    ASSUME Base, IsMailbox \/ IsQueue, Ready, NEW w \in WaitList,
           NEW time \in Nat \cup {Forever}, time # 0,
           \/ pc[k.current] = "run" /\ k.lock = 0
           \/ /\ pc[k.current] = "woken" /\ time = Rest(k.current)
              /\ call[k.current].op = ListOp(w),
           Block(Enqueue(Reset(k, Me), w, Me), time), NEW c, Enter(c),
           c.op = ListOp(w), "cell" \notin DOMAIN c, c.op = "send" => c.msg \in Message,
           obj' = obj
    PROVE  IInv' /\ ChanWaits(w)
<1>1. k.lock = 0
  BY DEF Base, IInv, WaitsUnlocked, InWait
<1>2. /\ IInv' /\ Waits(w)
      /\ time # Forever =>
            k.current \in Members(k'.timers) /\ k'.left[k.current] = time
  <2> DEFINE n == Enqueue(Reset(k, k.current), w, k.current)
  <2>1. Block(n, time)
    BY DEF Me
  <2> HIDE DEF n
  <2>2. n = Enqueue(Reset(k, k.current), w, k.current)
    BY DEF n
  <2> QED BY <1>1, <2>1, <2>2, BlockStep DEF Base, Ready
<1>3. Mine(c)
  BY DEF Mine, Enter, Me
<1>4. pc[k.current] = "woken" /\ call[k.current].time # Forever =>
         time # Forever /\ time = k.left[k.current]
  <2>1. k.left[k.current] \in Nat
    BY DEF Base, IInv, Typed, KernelState
  <2> QED BY <2>1, TimesAssumption DEF Rest
<1> QED BY <1>2, <1>3, <1>4 DEF ChanWaits

\* A call that has waited ends without success.
LEMMA ChanFailStep ==
    ASSUME Base, Ready, NEW op, pc[k.current] = "woken", call[k.current].op = op,
           \/ Finish(k) \/ \E x \in Error : Finish([k EXCEPT !.error[k.current] = x]),
           obj' = obj
    PROVE  IInv' /\ ChanFails(op)
<1>1. /\ Goto("run") /\ isr' = isr /\ picked' = picked /\ owed' = owed /\ Leave
      /\ k' = k \/ \E x \in Error : k' = [k EXCEPT !.error[k.current] = x]
  BY DEF Finish
<1>2. IInv' /\ Moves("run")
  BY <1>1, MoveStep DEF Base, Ready, InWait
<1> QED BY <1>1, <1>2 DEF ChanFails, Mine, Leave, Enter, Me

\* A call of a thread ends and resumes the first waiter of a list.
LEMMA ReturnStep ==
    ASSUME Base, Ready, NEW op, pc[k.current] = "run" \/ call[k.current].op = op,
           NEW w \in WaitList, FinishWaking(w)
    PROVE  IInv' /\ WakesFirst(w) /\ Returns(op)
<1>1. /\ IInv' /\ WakesFirst(w)
      /\ \E l \in {"run", "sched"} : pc' = [pc EXCEPT ![k.current] = l]
  BY FinishWakingStep DEF Base, Ready
<1> QED BY <1>1 DEF Returns, FinishWaking, Leave, Enter, Mine, Me

\* RT_IPC_CMD_RESET resumes the waiters of both lists with an error.
LEMMA ResetStep ==
    ASSUME Base, Ready, pc[k.current] = "run", call' = call,
           ThenSchedule(_ipc_list_resume_all(_ipc_list_resume_all(k, Receivers), Senders),
                        "sched")
    PROVE  IInv' /\ ChanBroken
<1> DEFINE n == _ipc_list_resume_all(_ipc_list_resume_all(k, Receivers), Senders)
           V == {Receivers, Senders}
<1>1. pc[k.current] # "sched"
  BY DEF Ready, Pending
<1>2. ThenSchedule(n, "sched")
  OBVIOUS
<1>3. \/ V = {Receivers} /\ n = _ipc_list_resume_all(k, Receivers)
      \/ /\ V = {Receivers, Senders}
         /\ n = _ipc_list_resume_all(_ipc_list_resume_all(k, Receivers), Senders)
  OBVIOUS
<1> HIDE DEF n, V
<1>4. IInv' /\ BreaksAll(V) /\ pc' = [pc EXCEPT ![k.current] = "sched"]
  BY <1>1, <1>2, <1>3, BreakStep DEF Base, Ready
<1> QED BY <1>4 DEF ChanBroken, V

\* One round of rt_mb_send_wait: what it does is one of MbOutcome.
LEMMA MbSendRoundStep ==
    ASSUME Base, IsMailbox, Ready, NEW m \in Message, NEW time \in Nat \cup {Forever},
           \/ /\ pc[k.current] = "run" /\ (time # 0 => k.lock = 0)
              /\ obj.entry # Capacity \/ time # 0
           \/ /\ pc[k.current] = "woken" /\ time = Rest(k.current)
              /\ call[k.current].op = "send",
           MbSendRound(m, time)
    PROVE  IInv' /\ MbOutcome
<1>0. Receivers \in WaitList /\ Senders \in WaitList /\ Receivers # Senders
  BY ListsAssumption
<1>1. CASE obj.entry # Capacity /\ obj' = Posted(obj, m) /\ FinishWaking(Receivers)
  <2>1. IInv' /\ WakesFirst(Receivers) /\ Returns("send")
    BY <1>0, <1>1, ReturnStep
  <2> QED BY <1>1, <2>1 DEF MbOutcome
<1>2. CASE /\ obj.entry = Capacity /\ time # 0
           /\ Block(Enqueue(Reset(k, Me), Senders, Me), time)
           /\ Enter([op |-> "send", msg |-> m, time |-> time])
           /\ UNCHANGED obj
  <2> DEFINE c == [op |-> "send", msg |-> m, time |-> time]
  <2>1. /\ Enter(c) /\ c.op = ListOp(Senders) /\ "cell" \notin DOMAIN c
        /\ ListOp(Senders) = "send" /\ (c.op = "send" => c.msg \in Message)
    BY <1>0, <1>2 DEF ListOp, IsMailbox
  <2> HIDE DEF c
  <2>2. IInv' /\ ChanWaits(Senders)
    BY <1>0, <1>2, <2>1, ChanWaitStep
  <2> QED BY <1>2, <2>2 DEF MbOutcome
<1>3. CASE obj.entry = Capacity /\ time = 0 /\ Finish(Reset(k, Me)) /\ UNCHANGED obj
  <2>1. pc[k.current] = "woken" /\ call[k.current].op = "send"
    BY <1>3
  <2>2. \E x \in Error : Finish([k EXCEPT !.error[k.current] = x])
    BY <1>3 DEF Reset, Me, Error
  <2>3. IInv' /\ ChanFails("send")
    BY <1>3, <2>1, <2>2, ChanFailStep
  <2> QED BY <1>3, <2>3 DEF MbOutcome
<1> QED BY <1>1, <1>2, <1>3 DEF MbSendRound

\* One round of rt_mb_recv: what it does is one of MbOutcome.
LEMMA MbRecvRoundStep ==
    ASSUME Base, IsMailbox, Ready, NEW time \in Nat \cup {Forever},
           \/ /\ pc[k.current] = "run" /\ (time # 0 => k.lock = 0)
              /\ obj.entry # 0 \/ time # 0
           \/ /\ pc[k.current] = "woken" /\ time = Rest(k.current)
              /\ call[k.current].op = "recv",
           MbRecvRound(time)
    PROVE  IInv' /\ MbOutcome
<1>0. Receivers \in WaitList /\ Senders \in WaitList /\ Receivers # Senders
  BY ListsAssumption
<1>1. CASE obj.entry # 0 /\ obj' = Fetched(obj) /\ FinishWaking(Senders)
  <2>1. IInv' /\ WakesFirst(Senders) /\ Returns("recv")
    BY <1>0, <1>1, ReturnStep
  <2> QED BY <1>1, <2>1 DEF MbOutcome
<1>2. CASE /\ obj.entry = 0 /\ time # 0
           /\ Block(Enqueue(Reset(k, Me), Receivers, Me), time)
           /\ Enter([op |-> "recv", time |-> time])
           /\ UNCHANGED obj
  <2> DEFINE c == [op |-> "recv", time |-> time]
  <2>1. /\ Enter(c) /\ c.op = ListOp(Receivers) /\ "cell" \notin DOMAIN c
        /\ ListOp(Receivers) = "recv" /\ (c.op = "send" => c.msg \in Message)
    BY <1>0, <1>2 DEF ListOp, IsMailbox
  <2> HIDE DEF c
  <2>2. IInv' /\ ChanWaits(Receivers)
    BY <1>0, <1>2, <2>1, ChanWaitStep
  <2> QED BY <1>2, <2>2 DEF MbOutcome
<1>3. CASE /\ obj.entry = 0 /\ time = 0
           /\ Finish([k EXCEPT !.error[Me] = "timeout"]) /\ UNCHANGED obj
  <2>1. pc[k.current] = "woken" /\ call[k.current].op = "recv"
    BY <1>3
  <2>2. \E x \in Error : Finish([k EXCEPT !.error[k.current] = x])
    BY <1>3 DEF Me, Error
  <2>3. IInv' /\ ChanFails("recv")
    BY <1>3, <2>1, <2>2, ChanFailStep
  <2> QED BY <1>3, <2>3 DEF MbOutcome
<1> QED BY <1>1, <1>2, <1>3 DEF MbRecvRound

\* Every step of the mailbox is one of MbOutcome.
LEMMA MbOutcomes ==
    ASSUME Base, MsgsTyped, IsMailbox, MbStep PROVE IInv' /\ MbOutcome
<1>0. /\ Receivers \in WaitList /\ Senders \in WaitList /\ Receivers # Senders
      /\ Times \cup {0, Forever} \subseteq Nat \cup {Forever}
      /\ Rest(k.current) \in Nat \cup {Forever} /\ IInv
  BY ListNames, RestTime, TimeNames DEF Base
<1>1. ASSUME NEW m \in Message, NEW time \in Times \cup {0, Forever}, MbSend(m, time)
      PROVE  IInv' /\ MbOutcome
  <2>1. Ready /\ pc[k.current] = "run" /\ MbSendRound(m, time)
    BY <1>1, ReadyCall DEF MbSend, Calling, InThread, At
  <2> QED BY <1>0, <1>1, <2>1, MbSendRoundStep DEF MbSend
<1>2. CASE MbSendAgain
  <2>1. Ready /\ pc[k.current] = "woken" /\ call[k.current].op = "send"
    BY <1>2, ReadyCall DEF MbSendAgain, Inside, At, CallLabel, Me
  <2>2. call[k.current].msg \in Message
    BY <2>1 DEF MsgsTyped, Ready, Caller
  <2>3. MbSendRound(call[k.current].msg, Rest(k.current))
    BY <1>2 DEF MbSendAgain, Me
  <2> QED BY <1>0, <2>1, <2>2, <2>3, MbSendRoundStep
<1>3. ASSUME NEW m \in Message, MbUrgent(m) PROVE IInv' /\ MbOutcome
  <2>1. Ready /\ pc[k.current] = "run"
    BY <1>3, ReadyCall DEF MbUrgent, Calling, InThread, At
  <2>2. IInv' /\ WakesFirst(Receivers) /\ Returns("send")
    BY <1>0, <1>3, <2>1, ReturnStep DEF MbUrgent
  <2> QED BY <1>3, <2>2 DEF MbUrgent, MbOutcome
<1>4. ASSUME NEW m \in Message, MbSendIrq(m) PROVE IInv' /\ MbOutcome
  <2>1. IInv' /\ WakesFirst(Receivers) /\ pc' = pc
    BY <1>0, <1>4, HandlerWakesStep DEF MbSendIrq
  <2>2. Returns("send")
    BY <1>4, <2>1 DEF MbSendIrq, Returns, Base
  <2> QED BY <1>4, <2>1, <2>2 DEF MbSendIrq, MbOutcome
<1>5. ASSUME NEW time \in Times \cup {0, Forever}, MbRecv(time)
      PROVE  IInv' /\ MbOutcome
  <2>1. Ready /\ pc[k.current] = "run" /\ MbRecvRound(time)
    BY <1>5, ReadyCall DEF MbRecv, Calling, InThread, At
  <2> QED BY <1>0, <1>5, <2>1, MbRecvRoundStep DEF MbRecv
<1>6. CASE MbRecvAgain
  <2>1. Ready /\ pc[k.current] = "woken" /\ call[k.current].op = "recv"
    BY <1>6, ReadyCall DEF MbRecvAgain, Inside, At, CallLabel, Me
  <2>2. MbRecvRound(Rest(k.current))
    BY <1>6 DEF MbRecvAgain, Me
  <2> QED BY <1>0, <2>1, <2>2, MbRecvRoundStep
<1>7. CASE MbRecvIrq
  <2>1. IInv' /\ WakesFirst(Senders) /\ pc' = pc
    BY <1>0, <1>7, HandlerWakesStep DEF MbRecvIrq
  <2>2. Returns("recv")
    BY <1>7, <2>1 DEF MbRecvIrq, Returns, Base
  <2> QED BY <1>7, <2>1, <2>2 DEF MbRecvIrq, MbOutcome
<1>8. CASE MbReset
  <2>1. Ready /\ pc[k.current] = "run"
    BY <1>8, ReadyCall DEF MbReset, Calling, InThread, At
  <2>2. IInv' /\ ChanBroken
    BY <1>8, <2>1, ResetStep DEF MbReset
  <2> QED BY <1>8, <2>2 DEF MbReset, MbOutcome
<1> QED BY <1>1, <1>2, <1>3, <1>4, <1>5, <1>6, <1>7, <1>8 DEF MbStep

-----------------------------------------------------------------------------
(* The same for the message queue *)

\* Caller t, the current thread or the handler, goes on from one of the
\* labels L to one of M.  A handler has no label.
Turn(t, L, M) ==
    \/ t = Handler /\ pc' = pc
    \/ /\ t = k.current /\ Ready /\ pc[t] \in L
       /\ \E l \in M : pc' = [pc EXCEPT ![t] = l]

\* t begins a call op, or goes on with it after a wait.
Begins(t, op) == IF t = Handler THEN Quiet ELSE pc[t] = "run" \/ call[t].op = op

Enters(t, c) == call' = [call EXCEPT ![t] = c]

MqAllots(t, c) ==
    /\ k' = k /\ Turn(t, {"run", "woken"}, {"fill"}) /\ Begins(t, "send")
    /\ obj.msg_queue_free # Null /\ obj' = Allotted(obj) /\ Enters(t, c)
    /\ c.op \in {"send", "urgent"} /\ c.msg \in Message
    /\ "cell" \in DOMAIN c /\ c.cell = obj.msg_queue_free

MqUnlinks(t, c) ==
    /\ k' = k /\ Turn(t, {"run", "woken"}, {"copy"}) /\ Begins(t, "recv")
    /\ obj.entry # 0 /\ obj' = [Unlinked(obj) EXCEPT !.entry = @ - 1] /\ Enters(t, c)
    /\ c.op = "recv" /\ "cell" \in DOMAIN c /\ c.cell = obj.msg_queue_head

MqLinks(t) ==
    /\ Turn(t, {"fill"}, {"run", "sched"}) /\ (t = Handler => ~ Quiet)
    /\ \/ call[t].op = "send" /\ obj' = Linked(obj, call[t].cell, call[t].msg)
       \/ call[t].op = "urgent" /\ obj' = LinkedFirst(obj, call[t].cell, call[t].msg)
    /\ WakesFirst(Receivers) /\ Enters(t, NoCall)

MqFrees(t) ==
    /\ Turn(t, {"copy"}, {"run", "sched"}) /\ (t = Handler => ~ Quiet)
    /\ call[t].op = "recv" /\ obj' = Freed(obj, call[t].cell)
    /\ WakesFirst(Senders) /\ Enters(t, NoCall)

MqOutcome ==
    \/ \E t \in Caller : \E c : MqAllots(t, c) \/ MqUnlinks(t, c)
    \/ \E t \in Caller : MqLinks(t) \/ MqFrees(t)
    \/ obj.entry = 0 /\ ChanWaits(Receivers)
    \/ obj.msg_queue_free = Null /\ ChanWaits(Senders)
    \/ obj.entry = 0 /\ ChanFails("recv")
    \/ obj.msg_queue_free = Null /\ ChanFails("send")
    \/ obj' = [AllDrained(obj, Queued) EXCEPT !.entry = 0] /\ ChanBroken

\* A call goes on to its next critical section.
LEMMA GoOnStep ==
    ASSUME Base, Ready, NEW l \in {"fill", "copy", "done"}, GoOn(l)
    PROVE  IInv' /\ k' = k /\ pc' = [pc EXCEPT ![k.current] = l]
<1>1. Goto(l) /\ k' = k /\ isr' = isr /\ picked' = picked /\ owed' = owed
  BY DEF GoOn
<1>2. IInv'
  BY <1>1, MoveStep DEF Base, Ready, InWait
<1> QED BY <1>1, <1>2 DEF Goto

\* One round of rt_mq_send_wait: what it does is one of MqOutcome.
LEMMA MqSendRoundStep ==
    ASSUME Base, IsQueue, Ready, NEW m \in Message, NEW time \in Nat \cup {Forever},
           \/ /\ pc[k.current] = "run" /\ (time # 0 => k.lock = 0)
              /\ obj.msg_queue_free # Null \/ time # 0
           \/ /\ pc[k.current] = "woken" /\ time = Rest(k.current)
              /\ call[k.current].op = "send",
           MqSendRound(m, time)
    PROVE  IInv' /\ MqOutcome
<1>0. Receivers \in WaitList /\ Senders \in WaitList /\ Receivers # Senders
  BY ListNames
<1>1. CASE /\ obj.msg_queue_free # Null /\ obj' = Allotted(obj)
           /\ Enter([op |-> "send", msg |-> m, cell |-> obj.msg_queue_free])
           /\ GoOn("fill")
  <2> DEFINE c == [op |-> "send", msg |-> m, cell |-> obj.msg_queue_free]
  <2>1. IInv' /\ k' = k /\ pc' = [pc EXCEPT ![k.current] = "fill"]
    BY <1>1, GoOnStep
  <2>2. k.current \in Caller /\ Begins(k.current, "send") /\ Enters(k.current, c)
    BY <1>1, HandlerAssumption DEF Ready, Caller, Begins, Enters, Enter, Me
  <2>3. MqAllots(k.current, c)
    BY <1>1, <2>1, <2>2 DEF MqAllots, Turn
  <2> QED BY <2>1, <2>2, <2>3 DEF MqOutcome
<1>2. CASE /\ obj.msg_queue_free = Null /\ time # 0
           /\ Block(Enqueue(Reset(k, Me), Senders, Me), time)
           /\ Enter([op |-> "send", msg |-> m, time |-> time])
           /\ UNCHANGED obj
  <2> DEFINE c == [op |-> "send", msg |-> m, time |-> time]
  <2>1. /\ Enter(c) /\ c.op = ListOp(Senders) /\ "cell" \notin DOMAIN c
        /\ ListOp(Senders) = "send" /\ (c.op = "send" => c.msg \in Message)
    BY <1>0, <1>2 DEF ListOp, IsQueue
  <2> HIDE DEF c
  <2>2. IInv' /\ ChanWaits(Senders)
    BY <1>0, <1>2, <2>1, ChanWaitStep
  <2> QED BY <1>2, <2>2 DEF MqOutcome
<1>3. CASE /\ obj.msg_queue_free = Null /\ time = 0
           /\ Finish(Reset(k, Me)) /\ UNCHANGED obj
  <2>1. pc[k.current] = "woken" /\ call[k.current].op = "send"
    BY <1>3
  <2>2. \E x \in Error : Finish([k EXCEPT !.error[k.current] = x])
    BY <1>3 DEF Reset, Me, Error
  <2>3. IInv' /\ ChanFails("send")
    BY <1>3, <2>1, <2>2, ChanFailStep
  <2> QED BY <1>3, <2>3 DEF MqOutcome
<1> QED BY <1>1, <1>2, <1>3 DEF MqSendRound

\* One round of rt_mq_recv: what it does is one of MqOutcome.
LEMMA MqRecvRoundStep ==
    ASSUME Base, IsQueue, Ready, NEW time \in Nat \cup {Forever},
           \/ /\ pc[k.current] = "run" /\ (time # 0 => k.lock = 0)
              /\ obj.entry # 0 \/ time # 0
           \/ /\ pc[k.current] = "woken" /\ time = Rest(k.current)
              /\ call[k.current].op = "recv",
           MqRecvRound(time)
    PROVE  IInv' /\ MqOutcome
<1>0. Receivers \in WaitList /\ Senders \in WaitList /\ Receivers # Senders
  BY ListNames
<1>1. CASE /\ obj.entry # 0 /\ obj' = [Unlinked(obj) EXCEPT !.entry = @ - 1]
           /\ Enter([op |-> "recv", cell |-> obj.msg_queue_head])
           /\ GoOn("copy")
  <2> DEFINE c == [op |-> "recv", cell |-> obj.msg_queue_head]
  <2>1. IInv' /\ k' = k /\ pc' = [pc EXCEPT ![k.current] = "copy"]
    BY <1>1, GoOnStep
  <2>2. k.current \in Caller /\ Begins(k.current, "recv") /\ Enters(k.current, c)
    BY <1>1, HandlerAssumption DEF Ready, Caller, Begins, Enters, Enter, Me
  <2>3. MqUnlinks(k.current, c)
    BY <1>1, <2>1, <2>2 DEF MqUnlinks, Turn
  <2> QED BY <2>1, <2>2, <2>3 DEF MqOutcome
<1>2. CASE /\ obj.entry = 0 /\ time # 0
           /\ Block(Enqueue(Reset(k, Me), Receivers, Me), time)
           /\ Enter([op |-> "recv", time |-> time])
           /\ UNCHANGED obj
  <2> DEFINE c == [op |-> "recv", time |-> time]
  <2>1. /\ Enter(c) /\ c.op = ListOp(Receivers) /\ "cell" \notin DOMAIN c
        /\ ListOp(Receivers) = "recv" /\ (c.op = "send" => c.msg \in Message)
    BY <1>0, <1>2 DEF ListOp, IsQueue
  <2> HIDE DEF c
  <2>2. IInv' /\ ChanWaits(Receivers)
    BY <1>0, <1>2, <2>1, ChanWaitStep
  <2> QED BY <1>2, <2>2 DEF MqOutcome
<1>3. CASE /\ obj.entry = 0 /\ time = 0
           /\ Finish([k EXCEPT !.error[Me] = "timeout"]) /\ UNCHANGED obj
  <2>1. pc[k.current] = "woken" /\ call[k.current].op = "recv"
    BY <1>3
  <2>2. \E x \in Error : Finish([k EXCEPT !.error[k.current] = x])
    BY <1>3 DEF Me, Error
  <2>3. IInv' /\ ChanFails("recv")
    BY <1>3, <2>1, <2>2, ChanFailStep
  <2> QED BY <1>3, <2>3 DEF MqOutcome
<1> QED BY <1>1, <1>2, <1>3 DEF MqRecvRound

\* The second critical section of a thread and of a handler.
LEMMA MqEndStep ==
    ASSUME Base, Ready, NEW l, pc[k.current] = l, NEW w \in WaitList, FinishWaking(w)
    PROVE  /\ IInv' /\ WakesFirst(w) /\ Enters(k.current, NoCall)
           /\ Turn(k.current, {l}, {"run", "sched"})
           /\ k.current \in Caller /\ k.current # Handler
<1>1. /\ IInv' /\ WakesFirst(w)
      /\ \E x \in {"run", "sched"} : pc' = [pc EXCEPT ![k.current] = x]
  BY FinishWakingStep DEF Base, Ready
<1>2. k.current \in Caller /\ k.current # Handler
  BY HandlerAssumption DEF Ready, Caller
<1> QED BY <1>1, <1>2 DEF Turn, Enters, FinishWaking, Leave, Enter, Me

\* The end of a call that an interrupt handler makes.
LEMMA MqIrqEndStep ==
    ASSUME Base, NEW w \in WaitList, HandlerWakes(w), HandlerLeaves, NEW L, NEW M
    PROVE  /\ IInv' /\ WakesFirst(w) /\ Enters(Handler, NoCall)
           /\ Turn(Handler, L, M) /\ Handler \in Caller
<1>1. IInv' /\ WakesFirst(w) /\ pc' = pc
  BY HandlerWakesStep DEF Base
<1> QED BY <1>1 DEF Turn, Enters, HandlerLeaves, Caller

\* A step that changes only the object keeps the invariant of the kernel.
LEMMA VarsKept == ASSUME IInv, UNCHANGED vars PROVE IInv'
<1>1. k' = k /\ pc' = pc /\ picked' = picked /\ owed' = owed /\ isr' \in Interrupt
  BY DEF vars, IInv, Typed
<1> QED BY <1>1, SilentStep

\* Every step of the message queue is one of MqOutcome.
LEMMA MqOutcomes ==
    ASSUME Base, MsgsTyped, IsQueue, MqStep PROVE IInv' /\ MqOutcome
<1>0. /\ Receivers \in WaitList /\ Senders \in WaitList /\ Receivers # Senders
      /\ Times \cup {0, Forever} \subseteq Nat \cup {Forever}
      /\ Rest(k.current) \in Nat \cup {Forever} /\ IInv
  BY ListNames, RestTime, TimeNames DEF Base
<1>1. ASSUME NEW m \in Message, NEW time \in Times \cup {0, Forever}, MqSend(m, time)
      PROVE  IInv' /\ MqOutcome
  <2>1. Ready /\ pc[k.current] = "run" /\ MqSendRound(m, time)
    BY <1>1, ReadyCall DEF MqSend, Calling, InThread, At
  <2> QED BY <1>0, <1>1, <2>1, MqSendRoundStep DEF MqSend
<1>2. CASE MqSendAgain
  <2>1. Ready /\ pc[k.current] = "woken" /\ call[k.current].op = "send"
    BY <1>2, ReadyCall DEF MqSendAgain, Inside, At, CallLabel, Me
  <2>2. call[k.current].msg \in Message
    BY <2>1 DEF MsgsTyped, Ready, Caller
  <2>3. MqSendRound(call[k.current].msg, Rest(k.current))
    BY <1>2 DEF MqSendAgain, Me
  <2> QED BY <1>0, <2>1, <2>2, <2>3, MqSendRoundStep
<1>3. ASSUME NEW time \in Times \cup {0, Forever}, MqRecv(time)
      PROVE  IInv' /\ MqOutcome
  <2>1. Ready /\ pc[k.current] = "run" /\ MqRecvRound(time)
    BY <1>3, ReadyCall DEF MqRecv, Calling, InThread, At
  <2> QED BY <1>0, <1>3, <2>1, MqRecvRoundStep DEF MqRecv
<1>4. CASE MqRecvAgain
  <2>1. Ready /\ pc[k.current] = "woken" /\ call[k.current].op = "recv"
    BY <1>4, ReadyCall DEF MqRecvAgain, Inside, At, CallLabel, Me
  <2>2. MqRecvRound(Rest(k.current))
    BY <1>4 DEF MqRecvAgain, Me
  <2> QED BY <1>0, <2>1, <2>2, MqRecvRoundStep
<1>5. ASSUME NEW m \in Message, MqUrgent(m) PROVE IInv' /\ MqOutcome
  <2> DEFINE c == [op |-> "urgent", msg |-> m, cell |-> obj.msg_queue_free]
  <2>1. Ready /\ pc[k.current] = "run"
    BY <1>5, ReadyCall DEF MqUrgent, Calling, InThread, At
  <2>2. IInv' /\ k' = k /\ pc' = [pc EXCEPT ![k.current] = "fill"]
    BY <1>5, <2>1, GoOnStep DEF MqUrgent
  <2>3. k.current \in Caller /\ Begins(k.current, "send") /\ Enters(k.current, c)
    BY <1>5, <2>1, HandlerAssumption DEF MqUrgent, Ready, Caller, Begins, Enters, Enter, Me
  <2>4. MqAllots(k.current, c)
    BY <1>5, <2>1, <2>2, <2>3 DEF MqUrgent, MqAllots, Turn
  <2> QED BY <2>2, <2>3, <2>4 DEF MqOutcome
<1>6. CASE MqSendEnd \/ MqUrgentEnd
  <2> DEFINE t == k.current
  <2>1. Ready /\ pc[t] = "fill" /\ FinishWaking(Receivers)
    BY <1>6, ReadyCall DEF MqSendEnd, MqUrgentEnd, Inside, At, CallLabel, Me
  <2>2. \/ call[t].op = "send" /\ obj' = Linked(obj, call[t].cell, call[t].msg)
        \/ call[t].op = "urgent" /\ obj' = LinkedFirst(obj, call[t].cell, call[t].msg)
    BY <1>6 DEF MqSendEnd, MqUrgentEnd, Inside, Me
  <2>3. /\ IInv' /\ WakesFirst(Receivers) /\ Enters(t, NoCall)
        /\ Turn(t, {"fill"}, {"run", "sched"}) /\ t \in Caller /\ t # Handler
    BY <1>0, <2>1, MqEndStep
  <2> HIDE DEF t
  <2>4. MqLinks(t)
    BY <2>2, <2>3 DEF MqLinks
  <2> QED BY <2>3, <2>4 DEF MqOutcome
<1>7. CASE MqRecvEnd
  <2> DEFINE t == k.current
  <2>1. Ready /\ pc[t] = "copy" /\ FinishWaking(Senders)
    BY <1>7, ReadyCall DEF MqRecvEnd, Inside, At, CallLabel, Me
  <2>2. call[t].op = "recv" /\ obj' = Freed(obj, call[t].cell)
    BY <1>7 DEF MqRecvEnd, Inside, Me
  <2>3. /\ IInv' /\ WakesFirst(Senders) /\ Enters(t, NoCall)
        /\ Turn(t, {"copy"}, {"run", "sched"}) /\ t \in Caller /\ t # Handler
    BY <1>0, <2>1, MqEndStep
  <2> HIDE DEF t
  <2>4. MqFrees(t)
    BY <2>2, <2>3 DEF MqFrees
  <2> QED BY <2>3, <2>4 DEF MqOutcome
<1>8. ASSUME NEW op \in {"send", "urgent"}, NEW m \in Message, MqSendIrq(op, m)
      PROVE  IInv' /\ MqOutcome
  <2> DEFINE c == [op |-> op, at |-> isr, msg |-> m, cell |-> obj.msg_queue_free]
  <2>1. /\ k' = k /\ pc' = pc /\ Quiet /\ Enters(Handler, c) /\ Handler \in Caller
        /\ obj.msg_queue_free # Null /\ obj' = Allotted(obj)
    BY <1>8 DEF MqSendIrq, HandlerEnters, Enters, Caller, vars
  <2>2. IInv'
    BY <1>0, <1>8, VarsKept DEF MqSendIrq
  <2>3. MqAllots(Handler, c)
    BY <2>1 DEF MqAllots, Turn, Begins
  <2> QED BY <2>1, <2>2, <2>3 DEF MqOutcome
<1>9. CASE MqRecvIrq
  <2> DEFINE c == [op |-> "recv", at |-> isr, cell |-> obj.msg_queue_head]
  <2>1. /\ k' = k /\ pc' = pc /\ Quiet /\ Enters(Handler, c) /\ Handler \in Caller
        /\ obj.entry # 0 /\ obj' = [Unlinked(obj) EXCEPT !.entry = @ - 1]
    BY <1>9 DEF MqRecvIrq, HandlerEnters, Enters, Caller, vars
  <2>2. IInv'
    BY <1>0, <1>9, VarsKept DEF MqRecvIrq
  <2>3. MqUnlinks(Handler, c)
    BY <2>1 DEF MqUnlinks, Turn, Begins
  <2> QED BY <2>1, <2>2, <2>3 DEF MqOutcome
<1>10. CASE MqSendIrqEnd
  <2>1. /\ ~ Quiet /\ HandlerWakes(Receivers) /\ HandlerLeaves
        /\ \/ /\ call[Handler].op = "send"
              /\ obj' = Linked(obj, call[Handler].cell, call[Handler].msg)
           \/ /\ call[Handler].op = "urgent"
              /\ obj' = LinkedFirst(obj, call[Handler].cell, call[Handler].msg)
    BY <1>10 DEF MqSendIrqEnd, HandlerInside
  <2>2. /\ IInv' /\ WakesFirst(Receivers) /\ Enters(Handler, NoCall)
        /\ Turn(Handler, {"fill"}, {"run", "sched"}) /\ Handler \in Caller
    BY <1>0, <2>1, MqIrqEndStep
  <2>3. MqLinks(Handler)
    BY <2>1, <2>2 DEF MqLinks
  <2> QED BY <2>2, <2>3 DEF MqOutcome
<1>11. CASE MqRecvIrqEnd
  <2>1. /\ ~ Quiet /\ HandlerWakes(Senders) /\ HandlerLeaves
        /\ call[Handler].op = "recv" /\ obj' = Freed(obj, call[Handler].cell)
    BY <1>11 DEF MqRecvIrqEnd, HandlerInside
  <2>2. /\ IInv' /\ WakesFirst(Senders) /\ Enters(Handler, NoCall)
        /\ Turn(Handler, {"copy"}, {"run", "sched"}) /\ Handler \in Caller
    BY <1>0, <2>1, MqIrqEndStep
  <2>3. MqFrees(Handler)
    BY <2>1, <2>2 DEF MqFrees
  <2> QED BY <2>2, <2>3 DEF MqOutcome
<1>12. CASE MqReset
  <2>1. Ready /\ pc[k.current] = "run"
    BY <1>12, ReadyCall DEF MqReset, Calling, InThread, At
  <2>2. IInv' /\ ChanBroken
    BY <1>12, <2>1, ResetStep DEF MqReset
  <2> QED BY <1>12, <2>2 DEF MqReset, MqOutcome
<1> QED BY <1>1, <1>2, <1>3, <1>4, <1>5, <1>6, <1>7, <1>8, <1>9, <1>10, <1>11, <1>12
        DEF MqStep

-----------------------------------------------------------------------------
(* The same for the event *)

EventOutcome ==
    \/ /\ Ready /\ Moves("run") /\ pc[k.current] = "run" /\ call' = call
       /\ obj' = obj \/ \E x : x \subseteq obj.set /\ obj' = [obj EXCEPT !.set = x]
    \/ /\ Ready /\ Waits(Receivers) /\ obj' = obj
       /\ \E c : /\ Mine(c) /\ c.op = "event" /\ DOMAIN c = {"op", "set", "option"}
                 /\ ~ Holds(obj.set, c.set, c.option)
       /\ pc[k.current] = "run"
    \/ /\ Ready /\ pc[k.current] = "woken" /\ call[k.current].op = "event"
       /\ Moves("run") /\ Mine(NoCall) /\ obj' = obj
    \/ \E s, R, bits :
          /\ bits \subseteq EventBit
          /\ SentKernel(s, R)
          /\ SentEvents(s, Members(k.wait[Receivers]), R, obj.set \cup bits)
          /\ obj' = [obj EXCEPT !.set = s.set] /\ call' = s.call
          /\ Frees(k, k', R) /\ k'.error = k.error
          /\ \/ pc' = pc
             \/ /\ Ready /\ pc[k.current] = "run"
                /\ pc' = [pc EXCEPT ![k.current] = "sched"]
    \/ /\ Ready /\ BreaksAll({Receivers}) /\ call' = call
       /\ pc[k.current] = "run" /\ pc' = [pc EXCEPT ![k.current] = "sched"]
       /\ obj' = [obj EXCEPT !.set = {}]

\* A call that ends at once, with or without an error.
LEMMA DoneStep ==
    ASSUME Base, Ready, pc[k.current] = "run",
           Done(k) \/ \E x \in Error : Done([k EXCEPT !.error[k.current] = x])
    PROVE  IInv' /\ Moves("run")
<1>1. /\ pc' = pc /\ isr' = isr /\ picked' = picked /\ owed' = owed
      /\ k' = k \/ \E x \in Error : k' = [k EXCEPT !.error[k.current] = x]
  BY DEF Done
<1>2. Goto("run")
  <2>1. pc \in [Thread -> EveryLabel]
    BY DEF Base, IInv, Typed
  <2> QED BY <1>1, <2>1 DEF Goto, Ready
<1> QED BY <1>1, <1>2, MoveStep DEF Base, Ready, InWait

\* The two ways to send.
LEMMA EventSendStep ==
    ASSUME Base, IsEvent, NEW bits, bits \subseteq EventBit, EventSend(bits) \/ EventSendIrq(bits)
    PROVE  IInv' /\ EventOutcome
<1> DEFINE s == Sent(bits)
           W == Members(k.wait[Receivers])
           B == obj.set \cup bits
<1>1. PICK R : SentKernel(s, R) /\ SentEvents(s, W, R, B)
  <2>1. \A t \in W : EventCall(t)
    BY ListNames DEF Base, Waiter
  <2> QED BY <2>1, SentAll DEF Base
<1>2. obj' = [obj EXCEPT !.set = s.set] /\ call' = s.call
  BY DEF EventSend, EventSendIrq
<1>3. Sound(s.k) /\ SameCurrent(k, s.k) /\ Frees(k, s.k, R) /\ s.k.error = k.error
  BY <1>1 DEF SentKernel
<1>4. /\ IInv' /\ Frees(k, k', R) /\ k'.error = k.error
      /\ \/ pc' = pc
         \/ /\ Ready /\ pc[k.current] = "run"
            /\ pc' = [pc EXCEPT ![k.current] = "sched"]
  <2> DEFINE n == s.k
  <2>0. /\ Sound(n) /\ SameCurrent(k, n) /\ Frees(k, n, R) /\ n.error = k.error
        /\ IInv
    BY <1>3 DEF Base
  <2>1. CASE n = k /\ UNCHANGED vars
    BY <2>0, <2>1, VarsKept DEF vars
  <2>2. CASE EventSend(bits) /\ n # k
    <3>1. Ready /\ pc[k.current] = "run" /\ ThenSchedule(n, "sched")
      BY <2>2, ReadyCall DEF EventSend, Calling, InThread, At
    <3> HIDE DEF n
    <3>2. IInv' /\ k' = n /\ pc' = [pc EXCEPT ![k.current] = "sched"]
      BY <2>0, <3>1, SectionFrees DEF Ready
    <3> QED BY <2>0, <3>1, <3>2
  <2>3. CASE EventSendIrq(bits) /\ n # k
    <3>1. /\ k' = rt_schedule(n) /\ Settle /\ pc' = pc /\ isr' = isr /\ picked' = picked
      BY <2>3 DEF EventSendIrq
    <3> HIDE DEF n
    <3>2. IInv' /\ Frees(k, k', R) /\ k'.error = n.error
      BY <2>0, <3>1, HandlerFrees
    <3> QED BY <2>0, <3>1, <3>2
  <2> QED BY <2>1, <2>2, <2>3 DEF EventSend, EventSendIrq
<1> HIDE DEF s, W
<1>5. EventOutcome
  BY <1>1, <1>2, <1>4 DEF EventOutcome, W
<1> QED BY <1>4, <1>5

\* Every step of the event set is one of EventOutcome.
LEMMA EventOutcomes ==
    ASSUME Base, IsEvent, EventStep PROVE IInv' /\ EventOutcome
<1>0. /\ Receivers \in WaitList /\ Times \cup {0, Forever} \subseteq Nat \cup {Forever}
  BY ListNames, TimeNames
<1>1. ASSUME NEW want, NEW option \in Option, EventTake(want, option)
      PROVE  IInv' /\ EventOutcome
  <2>1. Ready /\ pc[k.current] = "run"
    BY <1>1, ReadyCall DEF EventTake, Calling, InThread, At
  <2>2. \E x \in Error : Done([k EXCEPT !.error[k.current] = x])
    BY <1>1 DEF EventTake, Reset, Me, Error
  <2>3. IInv' /\ Moves("run")
    BY <2>1, <2>2, DoneStep
  <2>4. obj' = obj \/ obj' = [obj EXCEPT !.set = obj.set \ want]
    BY <1>1 DEF EventTake
  <2>5. obj.set \ want \subseteq obj.set /\ call' = call
    BY <1>1 DEF EventTake
  <2> QED BY <2>1, <2>3, <2>4, <2>5 DEF EventOutcome
<1>2. ASSUME NEW want, NEW option, EventTry(want, option) PROVE IInv' /\ EventOutcome
  <2>1. Ready /\ pc[k.current] = "run"
    BY <1>2, ReadyCall DEF EventTry, Calling, InThread, At
  <2>2. \E x \in Error : Done([k EXCEPT !.error[k.current] = x])
    BY <1>2 DEF EventTry, Me, Error
  <2>3. IInv' /\ Moves("run")
    BY <2>1, <2>2, DoneStep
  <2> QED BY <1>2, <2>1, <2>3 DEF EventOutcome, EventTry
<1>3. ASSUME NEW want, NEW option, NEW time \in Times \cup {Forever},
             EventWait(want, option, time)
      PROVE  IInv' /\ EventOutcome
  <2> DEFINE c == [op |-> "event", set |-> want, option |-> option]
             n == Enqueue(Reset(k, k.current), Receivers, k.current)
  <2>1. Ready /\ pc[k.current] = "run" /\ k.lock = 0
    BY <1>3, ReadyCall DEF EventWait, Calling, InThread, At
  <2>2. Block(n, time) /\ Mine(c) /\ obj' = obj /\ time \in Nat \cup {Forever}
    BY <1>0, <1>3 DEF EventWait, Enter, Mine, Me
  <2>3. n = Enqueue(Reset(k, k.current), Receivers, k.current)
    OBVIOUS
  <2>4. /\ c.op = "event" /\ DOMAIN c = {"op", "set", "option"}
        /\ ~ Holds(obj.set, c.set, c.option)
    BY <1>3 DEF EventWait
  <2> HIDE DEF n, c
  <2>5. IInv' /\ Waits(Receivers)
    BY <1>0, <2>1, <2>2, <2>3, BlockStep DEF Base, Ready
  <2> QED BY <2>1, <2>2, <2>4, <2>5 DEF EventOutcome
<1>4. CASE EventReturn
  <2>1. Ready /\ pc[k.current] = "woken" /\ call[k.current].op = "event"
    BY <1>4, ReadyCall DEF EventReturn, Inside, At, CallLabel, Me
  <2>2. Finish(k) /\ obj' = obj
    BY <1>4 DEF EventReturn
  <2>3. IInv' /\ ChanFails("event")
    BY <2>1, <2>2, ChanFailStep
  <2> QED BY <2>3 DEF ChanFails, EventOutcome
<1>5. CASE EventReset
  <2> DEFINE n == _ipc_list_resume_all(k, Receivers)
             V == {Receivers}
  <2>1. Ready /\ pc[k.current] = "run"
    BY <1>5, ReadyCall DEF EventReset, Calling, InThread, At
  <2>2. /\ ThenSchedule(n, "sched") /\ call' = call /\ obj' = [obj EXCEPT !.set = {}]
    BY <1>5 DEF EventReset
  <2>3. \/ V = {Receivers} /\ n = _ipc_list_resume_all(k, Receivers)
        \/ /\ V = {Receivers, Senders}
           /\ n = _ipc_list_resume_all(_ipc_list_resume_all(k, Receivers), Senders)
    OBVIOUS
  <2> HIDE DEF n, V
  <2>4. IInv' /\ BreaksAll(V) /\ pc' = [pc EXCEPT ![k.current] = "sched"]
    BY <2>1, <2>2, <2>3, BreakStep DEF Base, Ready
  <2> QED BY <2>1, <2>2, <2>4 DEF EventOutcome, V
<1>6. ASSUME NEW want \in SUBSET EventBit \ {{}}, EventSend(want) \/ EventSendIrq(want)
      PROVE  IInv' /\ EventOutcome
  BY <1>6, EventSendStep
<1> QED BY <1>1, <1>2, <1>3, <1>4, <1>5, <1>6 DEF EventStep

-----------------------------------------------------------------------------
(* The same for the memory pool *)

\* The time of a call of rt_mp_alloc.
PoolTimes ==
    IsPool => \A t \in Thread : call[t].op = "alloc" =>
                 "time" \in DOMAIN call[t] /\ call[t].time \in Nat \cup {Forever}

\* A waiter is resumed, if there is one.
PoolWakes ==
    IF k.wait[Receivers] = <<>> THEN k' = k
    ELSE LET h == Head(k.wait[Receivers])
         IN  Frees(k, k', {h}) /\ k'.error[h] = "ok"

\* The current thread is in a call of rt_mp_alloc.
Allocs ==
    Ready /\ (pc[k.current] = "run" \/ (pc[k.current] = "retry" /\ call[k.current].op = "alloc"))

PoolOutcome ==
    \/ /\ obj.block_free_count # 0 /\ obj' = Allocated(obj)
       /\ \/ UNCHANGED vars /\ call' = call
          \/ Allocs /\ Moves("run") /\ k' = k /\ Mine(NoCall)
    \/ /\ obj.block_free_count = 0 /\ obj' = obj /\ Allocs
       /\ \/ Moves("run") /\ Mine(NoCall)
          \/ /\ Waits(Receivers)
             /\ \E c : /\ Mine(c) /\ c.op = "alloc"
                       /\ "time" \in DOMAIN c /\ c.time \in Nat \cup {Forever}
    \/ /\ Ready /\ pc[k.current] = "woken" /\ call[k.current].op = "alloc"
       /\ Moves("retry") /\ k' = k /\ obj' = obj
       /\ \E c : /\ Mine(c) /\ c.op = "alloc"
                 /\ "time" \in DOMAIN c /\ c.time \in Nat \cup {Forever}
    \/ /\ \E b \in HandedOut : obj' = Released(obj, b)
       /\ PoolWakes /\ call' = call
       /\ \/ pc' = pc
          \/ /\ Ready /\ pc[k.current] = "run"
             /\ pc' = [pc EXCEPT ![k.current] = "sched"]

\* One round of rt_mp_alloc: what it does is one of PoolOutcome.
LEMMA MpRoundStep ==
    ASSUME Base, IsPool, Allocs, NEW time \in Nat \cup {Forever},
           time # 0 /\ obj.block_free_count = 0 => k.lock = 0, MpRound(time)
    PROVE  IInv' /\ PoolOutcome
<1>0. Receivers \in WaitList /\ Ready /\ k.current \in Thread
  BY ListNames DEF Allocs, Ready
<1>1. CASE obj.block_free_count # 0 /\ obj' = Allocated(obj) /\ Finish(k)
  <2>1. /\ Goto("run") /\ k' = k /\ isr' = isr /\ picked' = picked /\ owed' = owed
        /\ Mine(NoCall)
    BY <1>1 DEF Finish, Mine, Leave, Enter, Me
  <2>2. IInv' /\ Moves("run")
    BY <1>0, <2>1, MoveStep DEF Base, Ready, InWait
  <2> QED BY <1>1, <2>1, <2>2 DEF PoolOutcome
<1>2. CASE /\ obj.block_free_count = 0 /\ time # 0
           /\ Block(SuspendFirst(Reset(k, Me), Me), time)
           /\ Enter([op |-> "alloc", time |-> time]) /\ UNCHANGED obj
  <2> DEFINE c == [op |-> "alloc", time |-> time]
             n == SuspendFirst(Reset(k, k.current), k.current)
  <2>1. /\ Block(n, time) /\ Mine(c) /\ c.op = "alloc"
        /\ "time" \in DOMAIN c /\ c.time = time
    BY <1>2 DEF Mine, Enter, Me
  <2>2. n = SuspendFirst(Reset(k, k.current), k.current)
    OBVIOUS
  <2> HIDE DEF n, c
  <2>3. IInv' /\ Waits(Receivers)
    BY <1>0, <1>2, <2>1, <2>2, BlockStep DEF Base, Ready
  <2> QED BY <1>2, <2>1, <2>3 DEF PoolOutcome
<1>3. CASE /\ obj.block_free_count = 0 /\ time = 0
           /\ Finish([k EXCEPT !.error[Me] = "timeout"]) /\ UNCHANGED obj
  <2>1. /\ Goto("run") /\ isr' = isr /\ picked' = picked /\ owed' = owed /\ Mine(NoCall)
        /\ \E x \in Error : k' = [k EXCEPT !.error[k.current] = x]
    BY <1>3 DEF Finish, Mine, Leave, Enter, Me, Error
  <2>2. IInv' /\ Moves("run")
    BY <1>0, <2>1, MoveStep DEF Base, Ready, InWait
  <2> QED BY <1>3, <2>1, <2>2 DEF PoolOutcome
<1> QED BY <1>1, <1>2, <1>3 DEF MpRound

\* rt_mp_free gives a block back and resumes a waiter, if there is one.
LEMMA MpFreeStep ==
    ASSUME Base, NEW b \in Block_, MpFree(b) \/ MpFreeIrq(b)
    PROVE  IInv' /\ PoolOutcome
<1> DEFINE h == Head(k.wait[Receivers])
           n == FirstResumed
<1>1. b \in HandedOut /\ obj' = Released(obj, b) /\ call' = call
  BY DEF MpFree, MpFreeIrq
<1>2. CASE k.wait[Receivers] = <<>>
  <2>1. UNCHANGED vars
    BY <1>2 DEF MpFree, MpFreeIrq
  <2>2. IInv' /\ pc' = pc /\ k' = k
    BY <2>1, VarsKept DEF Base, vars
  <2> QED BY <1>1, <1>2, <2>2 DEF PoolOutcome, PoolWakes
<1>3. CASE k.wait[Receivers] # <<>>
  <2>0. IInv
    BY DEF Base
  <2>1. Sound(n) /\ SameCurrent(k, n) /\ Frees(k, n, {h}) /\ n.error[h] = "ok"
    BY <1>3, <2>0, FirstResumedFrees
  <2>2. CASE MpFree(b)
    <3>1. Ready /\ pc[k.current] = "run" /\ ThenSchedule(n, "sched")
      BY <1>3, <2>2, ReadyCall DEF MpFree, Calling, InThread, At
    <3> HIDE DEF n, h
    <3>2. IInv' /\ k' = n /\ pc' = [pc EXCEPT ![k.current] = "sched"]
      BY <2>0, <2>1, <3>1, SectionFrees DEF Ready
    <3>3. PoolWakes
      BY <1>3, <2>1, <3>2 DEF PoolWakes, h
    <3> QED BY <1>1, <3>1, <3>2, <3>3 DEF PoolOutcome
  <2>3. CASE MpFreeIrq(b)
    <3>1. k' = rt_schedule(n) /\ Settle /\ pc' = pc /\ isr' = isr /\ picked' = picked
      BY <1>3, <2>3 DEF MpFreeIrq
    <3> HIDE DEF n, h
    <3>2. IInv' /\ Frees(k, k', {h}) /\ k'.error = n.error
      BY <2>0, <2>1, <3>1, HandlerFrees
    <3>3. PoolWakes
      BY <1>3, <2>1, <3>2 DEF PoolWakes, h
    <3> QED BY <1>1, <3>1, <3>2, <3>3 DEF PoolOutcome
  <2> QED BY <2>2, <2>3
<1> QED BY <1>2, <1>3

\* Every step of the memory pool is one of PoolOutcome.
LEMMA PoolOutcomes ==
    ASSUME Base, PoolTimes, IsPool, MpStep PROVE IInv' /\ PoolOutcome
<1>0. /\ Times \cup {0, Forever} \subseteq Nat \cup {Forever}
      /\ Rest(k.current) \in Nat \cup {Forever} /\ IInv
  BY RestTime, TimeNames DEF Base
<1>1. ASSUME NEW time \in Times \cup {0, Forever}, MpAlloc(time)
      PROVE  IInv' /\ PoolOutcome
  <2>1. Allocs /\ MpRound(time)
    BY <1>1, ReadyCall DEF MpAlloc, Calling, InThread, At, Allocs
  <2> QED BY <1>0, <1>1, <2>1, MpRoundStep DEF MpAlloc
<1>2. CASE MpAllocAgain
  <2>1. /\ Allocs /\ k.lock = 0 /\ call[k.current].time \in Nat \cup {Forever}
    <3>1. Ready /\ pc[k.current] = "retry" /\ call[k.current].op = "alloc"
      BY <1>2, ReadyCall DEF MpAllocAgain, Inside, At, CallLabel, Me
    <3> QED BY <1>0, <3>1 DEF IInv, WaitsUnlocked, InWait, PoolTimes, Allocs, Ready
  <2>2. MpRound(call[k.current].time)
    BY <1>2 DEF MpAllocAgain, Me
  <2> QED BY <2>1, <2>2, MpRoundStep
<1>3. CASE MpAwake
  <2> DEFINE c == [call[k.current] EXCEPT !.time = Rest(k.current)]
  <2>1. Ready /\ pc[k.current] = "woken" /\ call[k.current].op = "alloc"
    BY <1>3, ReadyCall DEF MpAwake, Inside, At, CallLabel, Me
  <2>2. "time" \in DOMAIN call[k.current]
    BY <2>1 DEF PoolTimes, Ready
  <2>3. Mine(c) /\ c.op = "alloc" /\ "time" \in DOMAIN c /\ c.time = Rest(k.current)
    BY <1>3, <2>1, <2>2 DEF MpAwake, Enter, Mine, Me
  <2>4. /\ Goto("retry") /\ k' = k /\ isr' = isr /\ picked' = picked /\ owed' = owed
        /\ obj' = obj
    BY <1>3 DEF MpAwake, GoOn
  <2> HIDE DEF c
  <2>5. k.lock = 0
    BY <1>0, <2>1 DEF IInv, WaitsUnlocked, InWait
  <2>6. IInv' /\ Moves("retry")
    BY <1>0, <2>1, <2>4, <2>5, MoveStep DEF Ready, Pending
  <2> QED BY <1>0, <2>1, <2>3, <2>4, <2>6 DEF PoolOutcome
<1>4. CASE MpAllocIrq
  <2>1. obj.block_free_count # 0 /\ obj' = Allocated(obj) /\ UNCHANGED vars /\ call' = call
    BY <1>4 DEF MpAllocIrq, vars
  <2> QED BY <1>0, <2>1, VarsKept DEF PoolOutcome
<1>5. ASSUME NEW b \in Block_, MpFree(b) \/ MpFreeIrq(b) PROVE IInv' /\ PoolOutcome
  BY <1>5, MpFreeStep
<1> QED BY <1>1, <1>2, <1>3, <1>4, <1>5 DEF MpStep

-----------------------------------------------------------------------------
(* The same for the completion *)

CompletionOutcome ==
    \/ obj' = [obj EXCEPT !.done = FALSE] /\ OnlyMe /\ UNCHANGED vars /\ call' = call
    \/ /\ Ready /\ pc[k.current] = "run" /\ OnlyMe /\ ~ obj.done /\ obj' = obj
       /\ Waits(Receivers) /\ \E c : Mine(c) /\ c.op = "wait"
    \/ /\ Ready /\ pc[k.current] = "woken" /\ call[k.current].op = "wait"
       /\ obj' = [obj EXCEPT !.done = FALSE] /\ Moves("run") /\ Mine(NoCall)
    \/ /\ obj' = obj /\ k' = k
       /\ \/ /\ Ready /\ pc[k.current] = "run" /\ Moves("done")
             /\ \E c : Mine(c) /\ c.op = "done"
          \/ pc' = pc /\ \E c : Enters(Handler, c)
    \/ /\ obj' = [obj EXCEPT !.done = TRUE]
       /\ WakesFirst(Receivers) /\ Returns("done")

\* Every step of the completion is one of CompletionOutcome.
LEMMA CompletionOutcomes ==
    ASSUME Base, IsCompletion, CompletionStep PROVE IInv' /\ CompletionOutcome
<1>0. /\ Times \cup {0, Forever} \subseteq Nat \cup {Forever}
      /\ IInv /\ Receivers \in WaitList
  BY TimeNames, ListNames DEF Base
<1>1. CASE WaitNot
  <2>1. obj' = [obj EXCEPT !.done = FALSE] /\ OnlyMe /\ UNCHANGED vars /\ call' = call
    BY <1>1 DEF WaitNot, Clear, vars
  <2> QED BY <1>0, <2>1, VarsKept DEF CompletionOutcome
<1>2. ASSUME NEW time \in Times \cup {Forever}, WaitBegin(time)
      PROVE  IInv' /\ CompletionOutcome
  <2> DEFINE c == [op |-> "wait", time |-> time]
             n == SuspendFifo(Reset(k, k.current), Receivers, k.current)
  <2>1. /\ Ready /\ pc[k.current] = "run" /\ k.lock = 0 /\ OnlyMe /\ ~ obj.done
        /\ obj' = obj
    BY <1>2, ReadyCall DEF WaitBegin, Calling, InThread, At
  <2>2. Block(n, time) /\ Mine(c) /\ c.op = "wait" /\ time \in Nat \cup {Forever}
    BY <1>0, <1>2 DEF WaitBegin, Mine, Enter, Me
  <2>3. n = SuspendFifo(Reset(k, k.current), Receivers, k.current)
    OBVIOUS
  <2> HIDE DEF n, c
  <2>4. IInv' /\ Waits(Receivers)
    BY <1>0, <2>1, <2>2, <2>3, BlockStep DEF Ready
  <2> QED BY <2>1, <2>2, <2>4 DEF CompletionOutcome
<1>3. CASE WaitEnd
  <2>1. Ready /\ pc[k.current] = "woken" /\ call[k.current].op = "wait"
    BY <1>3, ReadyCall DEF WaitEnd, Inside, At, CallLabel, Me
  <2>2. /\ obj' = [obj EXCEPT !.done = FALSE] /\ Mine(NoCall)
        /\ Goto("run") /\ k' = k /\ isr' = isr /\ picked' = picked /\ owed' = owed
    BY <1>3 DEF WaitEnd, Clear, Finish, Leave, Enter, Mine, Me
  <2>3. IInv' /\ Moves("run")
    BY <1>0, <2>1, <2>2, MoveStep DEF Ready, InWait
  <2> QED BY <2>1, <2>2, <2>3 DEF CompletionOutcome
<1>4. CASE DoneBegin
  <2> DEFINE c == [op |-> "done"]
  <2>1. Ready /\ pc[k.current] = "run"
    BY <1>4, ReadyCall DEF DoneBegin, Calling, InThread, At
  <2>2. /\ obj' = obj /\ Mine(c) /\ c.op = "done"
        /\ Goto("done") /\ k' = k /\ isr' = isr /\ picked' = picked /\ owed' = owed
    BY <1>4 DEF DoneBegin, GoOn, Enter, Mine, Me
  <2> HIDE DEF c
  <2>3. IInv' /\ Moves("done")
    BY <1>0, <2>1, <2>2, MoveStep DEF Ready, InWait
  <2> QED BY <2>1, <2>2, <2>3 DEF CompletionOutcome
<1>5. CASE DoneEnd
  <2>1. Ready /\ call[k.current].op = "done" /\ FinishWaking(Receivers)
    BY <1>5, ReadyCall DEF DoneEnd, Inside, At, CallLabel, Me
  <2>2. IInv' /\ WakesFirst(Receivers) /\ Returns("done")
    BY <1>0, <2>1, ReturnStep
  <2> QED BY <1>5, <2>2 DEF CompletionOutcome, DoneEnd
<1>6. CASE DoneIrq
  <2>1. obj' = obj /\ UNCHANGED vars /\ \E c : Enters(Handler, c)
    BY <1>6 DEF DoneIrq, HandlerEnters, Enters, vars
  <2> QED BY <1>0, <2>1, VarsKept DEF CompletionOutcome, vars
<1>7. CASE DoneIrqEnd
  <2>1. obj' = [obj EXCEPT !.done = TRUE] /\ HandlerWakes(Receivers) /\ HandlerLeaves
    BY <1>7 DEF DoneIrqEnd
  <2>2. IInv' /\ WakesFirst(Receivers) /\ pc' = pc
    BY <1>0, <2>1, HandlerWakesStep
  <2>3. /\ DOMAIN call' = Caller /\ \A t \in Thread : call'[t] = call[t]
        /\ call'[Handler] = NoCall
    BY <2>1, HandlerAssumption DEF HandlerLeaves, Base, Caller
  <2> QED BY <2>1, <2>2, <2>3 DEF CompletionOutcome, Returns
<1> QED BY <1>1, <1>2, <1>3, <1>4, <1>5, <1>6, <1>7 DEF CompletionStep

-----------------------------------------------------------------------------
(* The same for the console *)

\* The shell is about to look into the ring.
Looks ==
    /\ Ready /\ Quiet
    /\ \/ pc[k.current] = "run" /\ OnlyShell
       \/ pc[k.current] = "woken" /\ call[k.current].op = "getchar"

\* The handler.
RxOutcome ==
    \/ obj' = obj /\ UNCHANGED vars /\ \E c : Enters(Handler, c) /\ c.op = "rx"
    \/ ~ Quiet /\ UNCHANGED vars /\ call' = call /\ \E c : obj' = Stored(obj, c)
    \/ /\ obj.put_index = obj.get_index
       /\ obj' = obj /\ UNCHANGED vars /\ Enters(Handler, NoCall)
    \/ /\ obj.put_index # obj.get_index /\ WakesFirst(Receivers) /\ pc' = pc
       /\ Enters(Handler, NoCall)
       /\ obj' = IF k.wait[Receivers] = <<>> /\ obj.rx_sem < RxValueMax
                 THEN [obj EXCEPT !.rx_sem = @ + 1] ELSE obj

\* The shell.
GetOutcome ==
    \/ /\ Looks /\ obj' = [obj EXCEPT !.get_index = Ahead(@), !.is_full = FALSE]
       /\ Moves("run") /\ Mine(NoCall)
    \/ /\ Looks /\ NoData /\ obj' = obj /\ k.lock = 0
       /\ Moves("ask") /\ \E c : Mine(c) /\ c.op = "getchar"
    \/ /\ Ready /\ Quiet /\ pc[k.current] = "ask" /\ call[k.current].op = "getchar"
       /\ call' = call
       /\ \/ /\ obj.rx_sem > 0 /\ obj' = [obj EXCEPT !.rx_sem = @ - 1]
             /\ Moves("woken")
          \/ obj.rx_sem = 0 /\ obj' = obj /\ Waits(Receivers)

SerialOutcome == RxOutcome \/ GetOutcome

\* One round of a read of the serial device: what it does is one of
\* GetOutcome.
LEMMA ReadRoundStep ==
    ASSUME Base, IsSerial, Looks, ReadRound, k.lock = 0 PROVE IInv' /\ GetOutcome
<1>0. IInv /\ Ready
  BY DEF Base, Looks
<1>1. CASE /\ obj' = [obj EXCEPT !.get_index = Ahead(@), !.is_full = FALSE]
           /\ Finish(k)
  <2>1. /\ Goto("run") /\ k' = k /\ isr' = isr /\ picked' = picked /\ owed' = owed
        /\ Mine(NoCall)
    BY <1>1 DEF Finish, Mine, Leave, Enter, Me
  <2>2. IInv' /\ Moves("run")
    BY <1>0, <2>1, MoveStep DEF Ready, InWait
  <2> QED BY <1>1, <2>1, <2>2 DEF GetOutcome
<1>2. CASE /\ NoData /\ Enter([op |-> "getchar", time |-> Forever]) /\ GoOn("ask")
           /\ UNCHANGED obj
  <2> DEFINE c == [op |-> "getchar", time |-> Forever]
  <2>1. /\ Goto("ask") /\ k' = k /\ isr' = isr /\ picked' = picked /\ owed' = owed
        /\ Mine(c) /\ c.op = "getchar" /\ obj' = obj /\ NoData
    BY <1>2 DEF GoOn, Mine, Enter, Me
  <2> HIDE DEF c
  <2>2. IInv' /\ Moves("ask")
    BY <1>0, <2>1, MoveStep DEF Ready, InWait
  <2> QED BY <2>1, <2>2 DEF GetOutcome
<1> QED BY <1>1, <1>2 DEF ReadRound

\* Every step of the serial device is one of SerialOutcome.
LEMMA SerialOutcomes ==
    ASSUME Base, IsSerial, SerialStep PROVE IInv' /\ SerialOutcome
<1>0. IInv /\ Receivers \in WaitList
  BY ListNames DEF Base
<1>1. CASE RxBegin
  <2>1. obj' = obj /\ UNCHANGED vars /\ \E c : Enters(Handler, c) /\ c.op = "rx"
    <3> DEFINE c == [op |-> "rx", at |-> isr]
    <3>1. Enters(Handler, c) /\ c.op = "rx" /\ obj' = obj /\ UNCHANGED vars
      BY <1>1 DEF RxBegin, HandlerEnters, Enters, vars
    <3> HIDE DEF c
    <3> QED BY <3>1
  <2> QED BY <1>0, <2>1, VarsKept DEF SerialOutcome, RxOutcome
<1>2. ASSUME NEW c \in Char, RxChar(c) PROVE IInv' /\ SerialOutcome
  <2>1. ~ Quiet /\ UNCHANGED vars /\ call' = call /\ obj' = Stored(obj, c)
    BY <1>2 DEF RxChar, HandlerInside, vars
  <2> QED BY <1>0, <2>1, VarsKept DEF SerialOutcome, RxOutcome
<1>3. CASE RxEnd
  <2>1. Enters(Handler, NoCall)
    BY <1>3 DEF RxEnd, HandlerLeaves, Enters
  <2>2. CASE obj.put_index = obj.get_index
    <3>1. obj' = obj /\ UNCHANGED vars
      BY <1>3, <2>2 DEF RxEnd, vars
    <3> QED BY <1>0, <2>1, <2>2, <3>1, VarsKept DEF SerialOutcome, RxOutcome
  <2>3. CASE obj.put_index # obj.get_index
    <3>1. /\ HandlerWakes(Receivers)
          /\ obj' = IF k.wait[Receivers] = <<>> /\ obj.rx_sem < RxValueMax
                    THEN [obj EXCEPT !.rx_sem = @ + 1] ELSE obj
      BY <1>3, <2>3 DEF RxEnd
    <3>2. IInv' /\ WakesFirst(Receivers) /\ pc' = pc
      BY <1>0, <3>1, HandlerWakesStep
    <3> QED BY <2>1, <2>3, <3>1, <3>2 DEF SerialOutcome, RxOutcome
  <2> QED BY <2>2, <2>3
<1>4. CASE GetChar
  <2>1. Looks /\ k.lock = 0 /\ ReadRound
    BY <1>4, ReadyCall DEF GetChar, Looks, Calling, InThread, At
  <2> QED BY <2>1, ReadRoundStep DEF SerialOutcome
<1>5. CASE GetCharAgain
  <2>1. Looks /\ ReadRound
    BY <1>5, ReadyCall DEF GetCharAgain, Looks, Inside, At, CallLabel, Me
  <2>2. k.lock = 0
    BY <1>0, <1>5 DEF GetCharAgain, Inside, At, IInv, WaitsUnlocked, InWait
  <2> QED BY <2>1, <2>2, ReadRoundStep DEF SerialOutcome
<1>6. CASE GetCharTake
  <2>1. /\ Ready /\ Quiet /\ pc[k.current] = "ask" /\ call[k.current].op = "getchar"
        /\ call' = call
    BY <1>6, ReadyCall DEF GetCharTake, Inside, At, CallLabel, Me
  <2>2. k.lock = 0
    BY <1>0, <2>1 DEF IInv, WaitsUnlocked, InWait
  <2>3. CASE obj.rx_sem > 0 /\ obj' = [obj EXCEPT !.rx_sem = @ - 1] /\ GoOn("woken")
    <3>1. Goto("woken") /\ k' = k /\ isr' = isr /\ picked' = picked /\ owed' = owed
      BY <2>3 DEF GoOn
    <3>2. IInv' /\ Moves("woken")
      BY <1>0, <2>1, <2>2, <3>1, MoveStep DEF Ready
    <3> QED BY <2>1, <2>3, <3>2 DEF SerialOutcome, GetOutcome
  <2>4. CASE /\ obj.rx_sem = 0 /\ obj' = obj
             /\ Block(Enqueue(Reset(k, Me), Receivers, Me), Forever)
    <3> DEFINE n == Enqueue(Reset(k, k.current), Receivers, k.current)
    <3>1. Block(n, Forever) /\ Forever \in Nat \cup {Forever}
      BY <2>4 DEF Me
    <3>2. n = Enqueue(Reset(k, k.current), Receivers, k.current)
      OBVIOUS
    <3> HIDE DEF n
    <3>3. IInv' /\ Waits(Receivers)
      BY <1>0, <2>1, <2>2, <3>1, <3>2, BlockStep DEF Ready
    <3> QED BY <2>1, <2>4, <3>3 DEF SerialOutcome, GetOutcome
  <2> QED BY <1>6, <2>3, <2>4 DEF GetCharTake
<1> QED BY <1>1, <1>2, <1>3, <1>4, <1>5, <1>6 DEF SerialStep

-----------------------------------------------------------------------------
(* Every step keeps Base *)

\* The threads on the lists stay in their calls when threads are made ready.
LEMMA FreesStays ==
    ASSUME NEW R, Frees(k, k', R), \A t \in Thread : t \notin R => call'[t] = call[t],
           Base
    PROVE  Stays
<1>1. \A w \in WaitList : Members(k'.wait[w]) = Members(k.wait[w]) \ R
  BY DEF Frees
<1>2. \A w \in WaitList : \A t \in Members(k.wait[w]) : t \in Thread
  BY WaitersSuspended DEF Base
<1> QED BY <1>1, <1>2 DEF Stays

\* A call that changes at most its own list entry, which it has none.
LEMMA MineStays ==
    ASSUME Base, Ready, \A w \in WaitList : Members(k'.wait[w]) \subseteq Members(k.wait[w]),
           NEW c, Mine(c)
    PROVE  Stays /\ DOMAIN call' = Caller
<1>1. /\ DOMAIN call' = Caller
      /\ \A t \in Thread : t # k.current => call'[t] = call[t]
  BY DEF Mine, Base, Ready, Caller
<1>2. \A w \in WaitList : \A t \in Members(k.wait[w]) : t \in Thread /\ t # k.current
  BY WaitersSuspended DEF Base, Ready, OffWaits
<1> QED BY <1>1, <1>2 DEF Stays

\* Where nobody joins a list and no call changes, the waiters stay.
LEMMA ThreadsStay ==
    ASSUME Base, \A w \in WaitList : Members(k'.wait[w]) \subseteq Members(k.wait[w]),
           \A t \in Thread : call'[t] = call[t]
    PROVE  Stays
<1>1. \A w \in WaitList : \A t \in Members(k.wait[w]) : t \in Thread
  BY WaitersSuspended DEF Base
<1> QED BY <1>1 DEF Stays

\* The shapes make lists no longer.
LEMMA WakesShrink ==
    ASSUME NEW w, WakesFirst(w)
    PROVE  \A v \in WaitList : Members(k'.wait[v]) \subseteq Members(k.wait[v])
BY DEF WakesFirst, Frees

\* Calls that end keep the waiters of the lists in their calls.
LEMMA ReturnsBase ==
    ASSUME Base, IInv', SameKind, NEW w, WakesFirst(w), NEW op, Returns(op) PROVE Base'
<1>1. \A v \in WaitList : Members(k'.wait[v]) \subseteq Members(k.wait[v])
  BY WakesShrink
<1>2. Stays /\ DOMAIN call' = Caller
  <2>1. CASE pc' = pc /\ DOMAIN call' = Caller /\ \A t \in Thread : call'[t] = call[t]
    BY <1>1, <2>1, ThreadsStay
  <2>2. CASE Ready /\ Mine(NoCall)
    BY <1>1, <2>2, MineStays
  <2> QED BY <2>1, <2>2 DEF Returns
<1>3. Walks
  BY DEF Returns, Walks
<1> QED BY <1>2, <1>3, BaseStays

\* So do calls that go on.
LEMMA MovesBase ==
    ASSUME Base, IInv', SameKind, Ready, NEW l, Moves(l),
           (\E c : Mine(c)) \/ call' = call
    PROVE  Base'
<1>1. \A v \in WaitList : Members(k'.wait[v]) \subseteq Members(k.wait[v])
  BY DEF Moves
<1>2. Stays /\ DOMAIN call' = Caller
  <2>1. CASE call' = call
    BY <1>1, <2>1, ThreadsStay DEF Base
  <2> QED BY <1>1, <2>1, MineStays
<1>3. Walks
  BY DEF Moves, Walks
<1> QED BY <1>2, <1>3, BaseStays

\* So do the critical sections of the message queue.
LEMMA TurnBase ==
    ASSUME Base, IInv', SameKind, NEW t, NEW L, NEW M, Turn(t, L, M), NEW c, Enters(t, c),
           \A v \in WaitList : Members(k'.wait[v]) \subseteq Members(k.wait[v])
    PROVE  Base'
<1>1. Stays /\ DOMAIN call' = Caller
  <2>1. CASE t = Handler
    <3>1. DOMAIN call' = Caller /\ \A u \in Thread : call'[u] = call[u]
      BY <2>1, HandlerAssumption DEF Enters, Base, Caller
    <3> QED BY <3>1, ThreadsStay
  <2>2. CASE t = k.current /\ Ready
    BY <2>2, MineStays DEF Mine, Enters
  <2> QED BY <2>1, <2>2 DEF Turn
<1>2. Walks
  BY DEF Turn, Walks
<1> QED BY <1>1, <1>2, BaseStays

\* So does a reset.
LEMMA BreaksBase ==
    ASSUME Base, IInv', SameKind, Ready, NEW V, BreaksAll(V), call' = call,
           pc' = [pc EXCEPT ![k.current] = "sched"]
    PROVE  Base'
<1> DEFINE R == UNION {Members(k.wait[w]) : w \in V}
<1>1. Frees(k, k', R)
  BY DEF BreaksAll
<1> HIDE DEF R
<1>2. Stays
  BY <1>1, FreesStays
<1>3. Walks /\ DOMAIN call' = Caller
  BY DEF Walks, Base
<1> QED BY <1>2, <1>3, BaseStays

\* So do calls that begin to wait.
LEMMA ChanWaitsBase ==
    ASSUME Base, IInv', IsMailbox \/ IsQueue, NEW w \in WaitList, ChanWaits(w)
    PROVE  Base'
<1>1. PICK c : Mine(c) /\ c.op = ListOp(w)
  BY DEF ChanWaits
<1>2. ~ IsEvent /\ obj.kind \in {"mailbox", "queue"}
  BY DEF IsMailbox, IsQueue, IsEvent
<1> QED BY <1>1, <1>2, BaseWaits DEF ChanWaits

\* All the steps of the mailbox.
LEMMA MailboxBase ==
    ASSUME Base, IInv', SameKind, IsMailbox, MbOutcome PROVE Base'
<1>1. CASE \E w, op : WakesFirst(w) /\ Returns(op)
  BY <1>1, ReturnsBase
<1>2. CASE \E w \in WaitList : ChanWaits(w)
  BY <1>2, ChanWaitsBase
<1>3. CASE \E op : ChanFails(op)
  BY <1>3, MovesBase DEF ChanFails
<1>4. CASE ChanBroken
  BY <1>4, BreaksBase DEF ChanBroken
<1> QED BY <1>1, <1>2, <1>3, <1>4, ListNames DEF MbOutcome

\* All the steps of the message queue.
LEMMA QueueBase ==
    ASSUME Base, IInv', SameKind, IsQueue, MqOutcome PROVE Base'
<1>1. CASE \E t \in Caller : \E c : MqAllots(t, c) \/ MqUnlinks(t, c)
  BY <1>1, TurnBase DEF MqAllots, MqUnlinks
<1>2. CASE \E t \in Caller : MqLinks(t) \/ MqFrees(t)
  BY <1>2, TurnBase, WakesShrink DEF MqLinks, MqFrees
<1>3. CASE \E w \in WaitList : ChanWaits(w)
  BY <1>3, ChanWaitsBase
<1>4. CASE \E op : ChanFails(op)
  BY <1>4, MovesBase DEF ChanFails
<1>5. CASE ChanBroken
  BY <1>5, BreaksBase DEF ChanBroken
<1> QED BY <1>1, <1>2, <1>3, <1>4, <1>5, ListNames DEF MqOutcome

\* All the steps of the event set.
LEMMA EventBase ==
    ASSUME Base, IInv', SameKind, IsEvent, EventOutcome PROVE Base'
<1>1. CASE Ready /\ Moves("run") /\ (call' = call \/ Mine(NoCall))
  BY <1>1, MovesBase
<1>2. CASE /\ Ready /\ Waits(Receivers) /\ obj' = obj
           /\ \E c : Mine(c) /\ c.op = "event" /\ DOMAIN c = {"op", "set", "option"}
  <2>1. "event" = ListOp(Receivers)
    BY DEF ListOp, IsEvent
  <2> QED BY <1>2, <2>1, ListNames, BaseWaits
<1>3. ASSUME NEW s, NEW R, SentKernel(s, R), call' = s.call, Frees(k, k', R), Walks
      PROVE  Base'
  <2>1. DOMAIN call' = Caller /\ \A t \in Thread : t \notin R => call'[t] = call[t]
    BY <1>3 DEF SentKernel, Caller
  <2>2. Stays
    BY <1>3, <2>1, FreesStays
  <2> QED BY <1>3, <2>1, <2>2, BaseStays
<1>4. CASE /\ Ready /\ BreaksAll({Receivers}) /\ call' = call
           /\ pc' = [pc EXCEPT ![k.current] = "sched"]
  BY <1>4, BreaksBase
<1> QED BY <1>1, <1>2, <1>3, <1>4 DEF EventOutcome, Walks

\* All the steps of the memory pool.
LEMMA PoolBase ==
    ASSUME Base, IInv', SameKind, IsPool, PoolOutcome PROVE Base'
<1>1. CASE Ready /\ (\E l : Moves(l)) /\ \E c : Mine(c)
  BY <1>1, MovesBase
<1>2. CASE Ready /\ obj' = obj /\ Waits(Receivers) /\ \E c : Mine(c) /\ c.op = "alloc"
  <2>1. "alloc" = ListOp(Receivers) /\ ~ IsEvent
    BY DEF ListOp, IsEvent, IsPool
  <2> QED BY <1>2, <2>1, ListNames, BaseWaits
<1>3. CASE UNCHANGED vars /\ call' = call
  <2>1. \A v \in WaitList : Members(k'.wait[v]) \subseteq Members(k.wait[v])
    BY <1>3 DEF vars
  <2>2. Stays
    BY <1>3, <2>1, ThreadsStay
  <2> QED BY <1>3, <2>2, BaseStays DEF Base, Walks, vars
<1>4. CASE PoolWakes /\ call' = call /\ Walks
  <2>1. \A v \in WaitList : Members(k'.wait[v]) \subseteq Members(k.wait[v])
    BY <1>4 DEF PoolWakes, Frees
  <2>2. Stays
    BY <1>4, <2>1, ThreadsStay
  <2> QED BY <1>4, <2>2, BaseStays DEF Base
<1> QED BY <1>1, <1>2, <1>3, <1>4 DEF PoolOutcome, Walks, Allocs

\* All the steps of the completion.
LEMMA CompletionBase ==
    ASSUME Base, IInv', SameKind, IsCompletion, CompletionOutcome PROVE Base'
<1>1. CASE Ready /\ (\E l : Moves(l)) /\ \E c : Mine(c)
  BY <1>1, MovesBase
<1>2. CASE Ready /\ obj' = obj /\ Waits(Receivers) /\ \E c : Mine(c) /\ c.op = "wait"
  <2>1. "wait" = ListOp(Receivers) /\ ~ IsEvent
    BY DEF ListOp, IsEvent, IsPool, IsCompletion
  <2> QED BY <1>2, <2>1, ListNames, BaseWaits
<1>3. CASE k' = k /\ pc' = pc /\ (call' = call \/ \E c : Enters(Handler, c))
  <2>1. \A v \in WaitList : Members(k'.wait[v]) \subseteq Members(k.wait[v])
    BY <1>3
  <2>2. DOMAIN call' = Caller /\ \A t \in Thread : call'[t] = call[t]
    BY <1>3, HandlerAssumption DEF Enters, Base, Caller
  <2>3. Stays
    BY <2>1, <2>2, ThreadsStay
  <2> QED BY <1>3, <2>2, <2>3, BaseStays DEF Walks
<1>4. CASE WakesFirst(Receivers) /\ Returns("done")
  BY <1>4, ReturnsBase
<1> QED BY <1>1, <1>2, <1>3, <1>4 DEF CompletionOutcome, vars

\* All the steps of the serial device.
LEMMA SerialBase ==
    ASSUME Base, IInv', SameKind, IsSerial, SerialOutcome PROVE Base'
<1>1. CASE Ready /\ (\E l : Moves(l)) /\ (call' = call \/ \E c : Mine(c))
  BY <1>1, MovesBase
<1>2. CASE /\ Ready /\ obj' = obj /\ Waits(Receivers) /\ call' = call
           /\ call[k.current].op = "getchar"
  <2>1. "getchar" = ListOp(Receivers) /\ ~ IsEvent
    BY DEF ListOp, IsEvent, IsPool, IsCompletion, IsSerial
  <2> QED BY <1>2, <2>1, ListNames, BaseWaits
<1>3. CASE /\ k' = k \/ WakesFirst(Receivers)
           /\ pc' = pc /\ (call' = call \/ \E c : Enters(Handler, c))
  <2>1. \A v \in WaitList : Members(k'.wait[v]) \subseteq Members(k.wait[v])
    BY <1>3, WakesShrink
  <2>2. DOMAIN call' = Caller /\ \A t \in Thread : call'[t] = call[t]
    BY <1>3, HandlerAssumption DEF Enters, Base, Caller
  <2>3. Stays
    BY <2>1, <2>2, ThreadsStay
  <2> QED BY <1>3, <2>2, <2>3, BaseStays DEF Walks
<1> QED BY <1>1, <1>2, <1>3 DEF SerialOutcome, RxOutcome, GetOutcome, Looks, vars

-----------------------------------------------------------------------------
(* The steps of the whole system *)

\* A step of the threads and of the tick beside the calls of the object.
Passes == [Next]_vars /\ obj' = obj /\ call' = call

\* The call of rt_schedule in a wait.
Schedules ==
    /\ PassesBy /\ obj' = obj /\ call' = call
    /\ k.current \in Thread /\ pc[k.current] = "block"
    /\ pc' = [pc EXCEPT ![k.current] = "woken"]

\* A wait that has ended with an error.
Fails ==
    /\ k.error[k.current] # "ok"
    /\ \E op \in {"send", "recv", "event", "alloc"} : ChanFails(op)

Outcome ==
    \/ Passes \/ Schedules \/ Fails
    \/ IsMailbox /\ MbOutcome
    \/ IsQueue /\ MqOutcome
    \/ IsEvent /\ EventOutcome
    \/ IsPool /\ PoolOutcome
    \/ IsCompletion /\ CompletionOutcome
    \/ IsSerial /\ SerialOutcome

BInv == Base /\ MsgsTyped /\ PoolTimes

\* Every step of the specification keeps the invariant of the kernel and
\* does what one of the outcomes says.
LEMMA Outcomes ==
    ASSUME BInv, [ObjectsNext]_allVars PROVE IInv' /\ SameKind /\ Outcome
<1>0. Base /\ IInv /\ HasKind
  BY DEF BInv, Base
<1>1. SameKind
  BY <1>0, KindKept
<1>2. CASE Elsewhere \/ UNCHANGED allVars
  <2>1. [Next]_vars /\ obj' = obj /\ call' = call
    BY <1>2 DEF Elsewhere, Next, allVars, vars
  <2> QED BY <1>0, <1>1, <2>1, NextIInv DEF Outcome, Passes
<1>3. CASE BlockSchedule
  <2>1. ScheduleFrom("block", "woken") /\ obj' = obj /\ call' = call
    BY <1>3 DEF BlockSchedule
  <2>2. IInv' /\ PassesBy
    <3>1. <<"block", "woken">> \in {<<"take", "taken">>, <<"block", "woken">>}
      OBVIOUS
    <3> QED BY <1>0, <2>1, <3>1, TakeScheduleStep
  <2>3. k.current \in Thread /\ pc[k.current] = "block"
        /\ pc' = [pc EXCEPT ![k.current] = "woken"]
    BY <1>0, <2>1 DEF ScheduleFrom, At, Goto, IInv, Typed, KernelState
  <2> QED BY <1>1, <2>1, <2>2, <2>3 DEF Outcome, Schedules
<1>4. CASE WaitFailed
  <2>1. /\ At("woken") /\ Quiet /\ call[k.current].op \in {"send", "recv", "event", "alloc"}
        /\ k.error[k.current] # "ok" /\ Finish(k) /\ obj' = obj
    BY <1>4 DEF WaitFailed, Me
  <2>2. Ready /\ pc[k.current] = "woken"
    <3>1. Inside("woken", call[k.current].op)
      BY <2>1 DEF Inside, Me
    <3> QED BY <1>0, <2>1, <3>1, ReadyCall DEF CallLabel, At
  <2>3. IInv' /\ ChanFails(call[k.current].op)
    BY <1>0, <2>1, <2>2, ChanFailStep
  <2> QED BY <1>1, <2>1, <2>3 DEF Outcome, Fails
<1>5. CASE MbStep
  <2>1. IsMailbox
    BY <1>5 DEF MbStep, MbUrgent, MbSendIrq, MbSend, MbRecv, MbSendAgain, MbRecvAgain,
       MbRecvIrq, MbReset
  <2> QED BY <1>0, <1>1, <1>5, <2>1, MbOutcomes DEF BInv, Outcome
<1>6. CASE MqStep
  <2>1. IsQueue
    BY <1>6 DEF MqStep, MqUrgent, MqSendIrq, MqSend, MqRecv, MqSendAgain, MqSendEnd,
       MqUrgentEnd, MqSendIrqEnd, MqRecvAgain, MqRecvEnd, MqRecvIrq, MqRecvIrqEnd, MqReset
  <2> QED BY <1>0, <1>1, <1>6, <2>1, MqOutcomes DEF BInv, Outcome
<1>7. CASE EventStep
  <2>1. IsEvent
    BY <1>7 DEF EventStep, EventTake, EventTry, EventWait, EventSend, EventSendIrq,
       EventReturn, EventReset
  <2> QED BY <1>0, <1>1, <1>7, <2>1, EventOutcomes DEF Outcome
<1>8. CASE MpStep
  <2>1. IsPool
    BY <1>8 DEF MpStep, MpAlloc, MpFree, MpFreeIrq, MpAwake, MpAllocAgain, MpAllocIrq
  <2> QED BY <1>0, <1>1, <1>8, <2>1, PoolOutcomes DEF BInv, Outcome
<1>9. CASE CompletionStep
  <2>1. IsCompletion
    BY <1>9 DEF CompletionStep, WaitNot, WaitEnd, DoneBegin, DoneEnd, DoneIrq,
       DoneIrqEnd, WaitBegin
  <2> QED BY <1>0, <1>1, <1>9, <2>1, CompletionOutcomes DEF Outcome
<1>10. CASE SerialStep
  <2>1. IsSerial
    BY <1>10 DEF SerialStep, RxBegin, RxChar, RxEnd, GetChar, GetCharTake, GetCharAgain
  <2> QED BY <1>0, <1>1, <1>10, <2>1, SerialOutcomes DEF Outcome
<1> QED BY <1>2, <1>3, <1>4, <1>5, <1>6, <1>7, <1>8, <1>9, <1>10 DEF ObjectsNext

\* The three kinds of steps outside the operations of the object.
LEMMA PassesBase == ASSUME Base, IInv', SameKind, Passes PROVE Base'
<1>1. IdleHome' /\ Listed'
  BY NextHome DEF Base, Passes
<1>2. \A w \in WaitList : Members(k'.wait[w]) \subseteq Members(k.wait[w])
  <2>1. k'.wait = k.wait \/ \E h \in Thread : k'.wait = WaitsWithout(k, h)
    BY NextLists DEF Base, Passes
  <2> QED BY <2>1, MembersLeft DEF Base
<1>3. ASSUME NEW w \in WaitList, NEW t \in Members(k'.wait[w]) PROVE Waiter(w, t)'
  <2>1. Waiter(w, t) /\ call'[t] = call[t]
    BY <1>2, <1>3 DEF Base, Passes
  <2> QED BY <2>1, WaiterKept
<1> QED BY <1>1, <1>3 DEF Base, SameKind, Passes

\* rt_schedule in a wait keeps the waiters of the lists in their calls.
LEMMA SchedulesBase == ASSUME Base, IInv', SameKind, Schedules PROVE Base'
<1>1. k'.wait = k.wait /\ call' = call /\ pc \in [Thread -> EveryLabel]
  BY DEF Schedules, PassesBy, Base, IInv, Typed
<1>2. \A t \in Thread : pc'[t] = IF t = k.current THEN "woken" ELSE pc[t]
  BY <1>1 DEF Schedules
<1>3. IdleHome'
  BY <1>2, IdleAssumption DEF Base, IdleHome, Schedules
<1>4. Listed'
  BY <1>1, <1>2, WaitersSuspended DEF Base, Listed
<1>5. ASSUME NEW w \in WaitList, NEW t \in Members(k'.wait[w]) PROVE Waiter(w, t)'
  BY <1>1, <1>5, WaiterKept DEF Base
<1> QED BY <1>1, <1>3, <1>4, <1>5 DEF Base, SameKind

\* Every step keeps the waiters of the lists in their calls.
LEMMA NextBase ==
    ASSUME Base, IInv', SameKind, Outcome PROVE Base'
<1>1. CASE Fails
  BY <1>1, MovesBase DEF Fails, ChanFails
<1> QED BY <1>1, PassesBase, SchedulesBase, MailboxBase, QueueBase, EventBase, PoolBase,
           CompletionBase, SerialBase DEF Outcome

\* The messages in the calls of a mailbox and a queue stay messages.
LEMMA NextMsgsTyped ==
    ASSUME Base, MsgsTyped, SameKind, Outcome PROVE MsgsTyped'
<1>0. SUFFICES ASSUME IsMailbox \/ IsQueue, NEW t \in Caller,
                      call'[t].op \in {"send", "urgent"}
               PROVE  call'[t].msg \in Message
  BY DEF MsgsTyped, IsMailbox, IsQueue, SameKind
<1>1. CASE call'[t] = call[t]
  BY <1>0, <1>1 DEF MsgsTyped
<1>2. CASE call'[t] = NoCall
  BY <1>0, <1>2 DEF NoCall
<1>3. \A c : Mine(c) => call'[t] = call[t] \/ call'[t] = c
  BY DEF Base, Mine
<1>4. \A u, c : Enters(u, c) => call'[t] = call[t] \/ call'[t] = c
  BY DEF Base, Enters
<1>5. CASE \E op : Returns(op)
  <2>1. CASE Mine(NoCall)
    BY <1>1, <1>2, <1>3, <2>1
  <2>2. CASE (\A u \in Thread : call'[u] = call[u]) /\ call'[Handler] \in {call[Handler], NoCall}
    BY <1>1, <1>2, <2>2 DEF Caller
  <2> QED BY <1>5, <2>1, <2>2 DEF Returns
<1>6. CASE \E w : ChanWaits(w)
  <2>1. PICK c : Mine(c) /\ c.op \in {"send", "recv"} /\ (c.op = "send" => c.msg \in Message)
    BY <1>0, <1>6 DEF ChanWaits, ListOp, IsMailbox, IsQueue
  <2> QED BY <1>0, <1>1, <1>3, <2>1
<1>7. CASE (\E op : ChanFails(op)) \/ Fails
  BY <1>1, <1>2, <1>3, <1>7 DEF ChanFails, Fails
<1>8. CASE ChanBroken \/ Passes \/ Schedules
  BY <1>1, <1>8 DEF ChanBroken, Passes, Schedules
<1>9. CASE \E u \in Caller : \E c : MqAllots(u, c) \/ MqUnlinks(u, c)
  <2>1. PICK u, c : /\ Enters(u, c) /\ c.op \in {"send", "urgent", "recv"}
                    /\ c.op # "recv" => c.msg \in Message
    BY <1>9 DEF MqAllots, MqUnlinks
  <2> QED BY <1>0, <1>1, <1>4, <2>1
<1>10. CASE \E u \in Caller : MqLinks(u) \/ MqFrees(u)
  BY <1>1, <1>2, <1>4, <1>10 DEF MqLinks, MqFrees
<1>11. Passes \/ Schedules \/ Fails \/ MbOutcome \/ MqOutcome
  BY <1>0 DEF Outcome, IsMailbox, IsQueue, IsEvent, IsPool, IsCompletion, IsSerial
<1> QED BY <1>5, <1>6, <1>7, <1>8, <1>9, <1>10, <1>11 DEF MbOutcome, MqOutcome

\* And so do the times in the calls of a pool.
LEMMA NextPoolTimes ==
    ASSUME Base, PoolTimes, SameKind, Outcome PROVE PoolTimes'
<1>0. SUFFICES ASSUME IsPool, NEW t \in Thread, call'[t].op = "alloc"
               PROVE  "time" \in DOMAIN call'[t] /\ call'[t].time \in Nat \cup {Forever}
  BY DEF PoolTimes, IsPool, SameKind
<1>1. CASE call'[t] = call[t]
  BY <1>0, <1>1 DEF PoolTimes
<1>2. CASE call'[t] = NoCall
  BY <1>0, <1>2 DEF NoCall
<1>3. \A c : Mine(c) => call'[t] = call[t] \/ call'[t] = c
  BY DEF Base, Mine, Caller
<1>4. CASE call' = call \/ Mine(NoCall)
  BY <1>1, <1>2, <1>3, <1>4
<1>5. CASE \E c : Mine(c) /\ "time" \in DOMAIN c /\ c.time \in Nat \cup {Forever}
  BY <1>1, <1>3, <1>5
<1>6. Passes \/ Schedules \/ Fails \/ PoolOutcome
  BY <1>0 DEF Outcome, IsMailbox, IsQueue, IsEvent, IsPool, IsCompletion, IsSerial
<1> QED BY <1>4, <1>5, <1>6 DEF Passes, Schedules, Fails, ChanFails, PoolOutcome

\* The two initial facts, and the invariant.
LEMMA InitBInv == ObjectsInit => BInv
<1> SUFFICES ASSUME ObjectsInit PROVE BInv
  OBVIOUS
<1>1. Init /\ DOMAIN call = Caller /\ \A t \in Caller : call[t] = NoCall
  BY DEF ObjectsInit, Caller
<1>2. HasKind
  BY InitKind
<1>3. IInv
  BY <1>1, InitIInv
<1>4. /\ pc = [t \in Thread |-> "run"] /\ Idle \in Thread
      /\ \A w \in WaitList : Members(k.wait[w]) = {}
  BY <1>1, IdleAssumption DEF Init, KernelInit, Members
<1>5. Base
  BY <1>1, <1>2, <1>3, <1>4 DEF Base, IdleHome, Listed
<1> QED BY <1>1, <1>5 DEF BInv, MsgsTyped, PoolTimes, Caller, NoCall

\* Every step keeps the messages and the times of the calls what they are.
LEMMA NextBInv ==
    ASSUME BInv, [ObjectsNext]_allVars PROVE BInv'
<1>1. IInv' /\ SameKind /\ Outcome
  BY Outcomes
<1> QED BY <1>1, NextBase, NextMsgsTyped, NextPoolTimes DEF BInv

\* The system keeps BInv, and every step is one of the outcomes.
LEMMA AlwaysBInv == ObjectsSpec => []BInv
<1>1. BInv /\ [ObjectsNext]_allVars => BInv'
  BY NextBInv
<1> QED BY <1>1, InitBInv, PTL DEF ObjectsSpec

-----------------------------------------------------------------------------
(* The kernel under the objects, and the rest of a timeout *)

\* Whatever object the threads and the handler share, and however its calls,
\* timeouts, deletions and the tick interleave, the ready queues, the suspend
\* lists, the timer list and the thread states agree (rt_thread_suspend,
\* rt_thread_resume, _ipc_list_suspend, _ipc_list_resume_all).
THEOREM ObjectsListsConsistent == ObjectsSpec => []ListsConsistent
<1>1. BInv => ListsConsistent
  BY DEF BInv, Base, IInv, Sound, Consistent, ListsConsistent
<1> QED BY <1>1, AlwaysBInv, PTL

\* The calls of the objects, in threads and in the handler, call rt_schedule
\* wherever a more urgent thread may have become ready, although the message
\* queue and the completion resume a waiter in a critical section of their own.
THEOREM ObjectsHighestRuns == ObjectsSpec => []HighestRuns
<1>1. BInv => HighestRuns
  BY DEF BInv, Base, IInv, Scheduled, HighestRuns, At, Pending
<1> QED BY <1>1, AlwaysBInv, PTL

\* A thread goes from one round of a wait to the next only in a mailbox or a
\* message queue.
LEMMA WokenBlocks ==
    ASSUME Base, Outcome, NEW t \in Thread, pc[t] = "woken", pc'[t] = "block"
    PROVE  t = k.current /\ \E w : ChanWaits(w)
<1>1. pc \in [Thread -> EveryLabel] /\ k.current \in Thread /\ IInv
  BY DEF Base, IInv, Typed, KernelState
<1>2. ~ Passes
  BY <1>1, NextPc DEF Passes, Label
<1>3. ~ \E l \in {"run", "sched", "woken", "retry", "fill", "copy", "done", "ask"} :
          pc' = [pc EXCEPT ![k.current] = l]
  BY <1>1
<1>4. pc' # pc
  OBVIOUS
<1>5. ASSUME NEW w, Waits(w) PROVE t = k.current
  BY <1>1, <1>5 DEF Waits, JoinsAt
<1>6. ~ Schedules /\ ~ Fails
  BY <1>3 DEF Schedules, Fails, ChanFails, Moves
<1>7. ~ (IsEvent /\ EventOutcome)
  BY <1>3, <1>4, <1>5 DEF EventOutcome, Moves
<1>8. ~ (IsPool /\ PoolOutcome)
  BY <1>3, <1>4, <1>5 DEF PoolOutcome, Moves, Allocs, vars
<1>9. ~ (IsCompletion /\ CompletionOutcome)
  BY <1>3, <1>4, <1>5 DEF CompletionOutcome, Moves, Returns, vars
<1>10. ~ (IsSerial /\ SerialOutcome)
  BY <1>3, <1>4, <1>5 DEF SerialOutcome, RxOutcome, GetOutcome, Moves, vars
<1>11. CASE MbOutcome
  BY <1>3, <1>4, <1>5, <1>11 DEF MbOutcome, Returns, ChanFails, Moves, ChanBroken, ChanWaits
<1>12. CASE MqOutcome
  <2>1. ~ \E u \in Caller : MqLinks(u) \/ MqFrees(u) \/ \E c : MqAllots(u, c) \/ MqUnlinks(u, c)
    BY <1>3, <1>4 DEF MqLinks, MqFrees, MqAllots, MqUnlinks, Turn
  <2> QED BY <1>3, <1>4, <1>5, <1>12, <2>1
        DEF MqOutcome, ChanFails, Moves, ChanBroken, ChanWaits
<1> QED BY <1>2, <1>6, <1>7, <1>8, <1>9, <1>10, <1>11, <1>12 DEF Outcome

\* What RestShrinks says of a step.
RestStep ==
    \A t \in Thread :
       pc[t] = "woken" /\ pc'[t] = "block" /\ call[t].time # Forever =>
           /\ t \in Members(k'.timers)
           /\ k'.left[t] <= k.left[t]

\* A call of a mailbox or a message queue that is woken and finds what it
\* waited for gone starts its timer again with what is left of its timeout
\* (the tick_delta of rt_mb_send_wait, rt_mb_recv, rt_mq_send_wait and
\* rt_mq_recv): it never waits longer than it was asked to.
THEOREM RestAlwaysShrinks == ObjectsSpec => RestShrinks
<1>1. ASSUME BInv, [ObjectsNext]_allVars PROVE [RestStep]_allVars
  <2> SUFFICES ASSUME NEW t \in Thread, pc[t] = "woken", pc'[t] = "block",
                      call[t].time # Forever
               PROVE  t \in Members(k'.timers) /\ k'.left[t] <= k.left[t]
    BY DEF RestStep
  <2>1. Base /\ IInv' /\ Outcome
    BY <1>1, Outcomes DEF BInv
  <2>2. t = k.current /\ \E w : ChanWaits(w)
    BY <2>1, WokenBlocks
  <2>3. t \in Members(k'.timers) /\ k'.left[t] = k.left[t]
    BY <2>2 DEF ChanWaits
  <2>4. k.left[t] \in Nat
    BY <2>1 DEF Base, IInv, Typed, KernelState
  <2> QED BY <2>3, <2>4
<1>2. ObjectsSpec => [][RestStep]_allVars
  BY <1>1, AlwaysBInv, PTL DEF ObjectsSpec
<1> QED BY <1>2 DEF RestShrinks, RestStep

-----------------------------------------------------------------------------
(* The event *)

\* An event has a set of event bits.
SetTyped == IsEvent => "set" \in DOMAIN obj /\ obj.set \subseteq EventBit

EventInv == BInv /\ SetTyped /\ NoMissedEvent

\* Fewer events satisfy no more threads.
LEMMA HoldsLess ==
    ASSUME NEW x, NEW y, x \subseteq y, NEW want, NEW option, ~ Holds(y, want, option)
    PROVE  ~ Holds(x, want, option)
BY DEF Holds

\* Outside the calls of an event its waiting threads are left alone or go.
LEMMA EventKept ==
    ASSUME EventInv, SameKind, IsEvent, obj' = obj,
           \A t \in Members(k'.wait[Receivers]) :
              t \in Members(k.wait[Receivers]) /\ call'[t] = call[t]
    PROVE  SetTyped' /\ NoMissedEvent'
BY DEF EventInv, SetTyped, NoMissedEvent, IsEvent, SameKind

\* The calls of an event.
LEMMA EventStepKept ==
    ASSUME EventInv, SameKind, IsEvent, EventOutcome PROVE SetTyped' /\ NoMissedEvent'
<1> DEFINE W == Members(k.wait[Receivers])
           V == Members(k'.wait[Receivers])
<1>0. /\ Base /\ "set" \in DOMAIN obj /\ obj.set \subseteq EventBit /\ IsEvent'
      /\ \A t \in W : ~ Holds(obj.set, call[t].set, call[t].option)
      /\ W \subseteq Thread /\ Receivers \in WaitList
  <2>1. Base /\ SetTyped /\ NoMissedEvent /\ IsEvent' /\ Receivers \in WaitList
    BY ListNames DEF EventInv, BInv, SameKind, IsEvent
  <2> QED BY <2>1, WaitersSuspended DEF Base, SetTyped, NoMissedEvent
<1>1. SUFFICES /\ "set" \in DOMAIN obj' /\ obj'.set \subseteq EventBit
               /\ \A t \in V : ~ Holds(obj'.set, call'[t].set, call'[t].option)
  BY <1>0 DEF SetTyped, NoMissedEvent
<1>2. \A x : [obj EXCEPT !.set = x].set = x /\ "set" \in DOMAIN [obj EXCEPT !.set = x]
  BY <1>0
<1>3. CASE /\ Moves("run") /\ call' = call
           /\ obj' = obj \/ \E x : x \subseteq obj.set /\ obj' = [obj EXCEPT !.set = x]
  <2>1. V = W
    BY <1>0, <1>3 DEF Moves
  <2>2. "set" \in DOMAIN obj' /\ obj'.set \subseteq obj.set
    BY <1>0, <1>2, <1>3
  <2> HIDE DEF V, W
  <2>3. ASSUME NEW t \in V PROVE ~ Holds(obj'.set, call'[t].set, call'[t].option)
    <3> DEFINE x == obj'.set
               y == obj.set
               want == call[t].set
               option == call[t].option
    <3>1. x \subseteq y /\ ~ Holds(y, want, option)
      BY <1>0, <2>1, <2>2
    <3> HIDE DEF x, y, want, option
    <3>2. ~ Holds(x, want, option)
      BY <3>1, HoldsLess
    <3> QED BY <1>3, <3>2 DEF x, want, option
  <2> QED BY <1>0, <2>2, <2>3
<1>4. ASSUME NEW c, Mine(c), ~ Holds(obj.set, c.set, c.option), Waits(Receivers), obj' = obj
      PROVE  \A t \in V : ~ Holds(obj'.set, call'[t].set, call'[t].option)
  <2>1. /\ call'[k.current] = c
        /\ \A t \in Thread : t # k.current => call'[t] = call[t]
    BY <1>0, <1>4 DEF Mine, Base, Caller, Waits
  <2>2. V \subseteq W \cup {k.current}
    BY <1>0, <1>4 DEF Waits, JoinsAt
  <2> HIDE DEF V, W
  <2> QED BY <1>0, <1>4, <2>1, <2>2
<1>5. CASE Ready /\ Moves("run") /\ Mine(NoCall) /\ obj' = obj
  <2>1. V = W /\ k.current \notin W
    BY <1>0, <1>5 DEF Moves, Ready, OffWaits
  <2>2. \A t \in Thread : t # k.current => call'[t] = call[t]
    BY <1>0, <1>5 DEF Mine, Base, Caller
  <2> HIDE DEF V, W
  <2> QED BY <1>0, <1>5, <2>1, <2>2
<1>6. ASSUME NEW s, NEW R, NEW bits, bits \subseteq EventBit, SentKernel(s, R),
             SentEvents(s, W, R, obj.set \cup bits), obj' = [obj EXCEPT !.set = s.set],
             call' = s.call, Frees(k, k', R)
      PROVE  /\ "set" \in DOMAIN obj' /\ obj'.set \subseteq EventBit
             /\ \A t \in V : ~ Holds(obj'.set, call'[t].set, call'[t].option)
  <2>1. V = W \ R
    BY <1>0, <1>6 DEF Frees
  <2>2. \A t \in Thread : t \notin R => call'[t] = call[t]
    BY <1>6 DEF SentKernel, Caller
  <2>3. s.set \subseteq EventBit /\ \A t \in W \ R : ~ Holds(s.set, call[t].set, call[t].option)
    BY <1>0, <1>6 DEF SentEvents
  <2> HIDE DEF V, W
  <2> QED BY <1>0, <1>2, <1>6, <2>1, <2>2, <2>3
<1>7. CASE BreaksAll({Receivers}) /\ obj' = [obj EXCEPT !.set = {}]
  <2>1. V = {}
    BY <1>0, <1>7 DEF BreaksAll, Frees
  <2> HIDE DEF V
  <2> QED BY <1>2, <1>7, <2>1
<1> HIDE DEF V
<1> QED BY <1>0, <1>3, <1>4, <1>5, <1>6, <1>7 DEF EventOutcome

\* No step leaves a thread that waits for events that are there.
LEMMA NextEventInv ==
    ASSUME EventInv, [ObjectsNext]_allVars PROVE EventInv'
<1>1. BInv' /\ IInv' /\ SameKind /\ Outcome /\ Base /\ Receivers \in WaitList
  BY NextBInv, Outcomes, ListNames DEF EventInv, BInv
<1>2. CASE ~ IsEvent
  BY <1>1, <1>2 DEF EventInv, SetTyped, NoMissedEvent, IsEvent, SameKind
<1>3. CASE IsEvent /\ EventOutcome
  BY <1>1, <1>3, EventStepKept DEF EventInv
<1>4. CASE IsEvent /\ Passes
  <2>1. k'.wait = k.wait \/ \E h \in Thread : k'.wait = WaitsWithout(k, h)
    BY <1>1, <1>4, NextLists DEF Base, Passes
  <2>2. Members(k'.wait[Receivers]) \subseteq Members(k.wait[Receivers])
    BY <1>1, <2>1, MembersLeft DEF Base
  <2> QED BY <1>1, <1>4, <2>2, EventKept DEF Passes, EventInv
<1>5. CASE IsEvent /\ Schedules
  BY <1>1, <1>5, EventKept DEF Schedules, PassesBy, EventInv
<1>6. CASE IsEvent /\ Fails
  <2>1. Ready /\ Moves("run") /\ Mine(NoCall) /\ obj' = obj
    BY <1>6 DEF Fails, ChanFails
  <2>2. /\ \A t \in Thread : t # k.current => call'[t] = call[t]
        /\ k'.wait = k.wait /\ k.current \notin Members(k.wait[Receivers])
        /\ Members(k.wait[Receivers]) \subseteq Thread
    BY <1>1, <2>1, WaitersSuspended DEF Mine, Base, Caller, Ready, OffWaits, Moves
  <2> QED BY <1>1, <1>6, <2>1, <2>2, EventKept DEF EventInv
<1>7. Passes \/ Schedules \/ Fails \/ EventOutcome \/ ~ IsEvent
  BY <1>1 DEF Outcome, IsMailbox, IsQueue, IsEvent, IsPool, IsCompletion, IsSerial
<1> QED BY <1>2, <1>3, <1>4, <1>5, <1>6, <1>7

\* rt_event_init
LEMMA InitEventInv == ObjectsInit => EventInv
<1> SUFFICES ASSUME ObjectsInit PROVE EventInv
  OBVIOUS
<1>1. BInv
  BY InitBInv
<1>2. IsEvent => obj \in EventInit
  BY DEF ObjectsInit, IsEvent, MailboxInit, MessageQueueInit, MempoolInit, SerialInit,
     CompletionInit
<1>3. SetTyped
  BY <1>2 DEF SetTyped, EventInit
<1>4. Members(k.wait[Receivers]) = {}
  BY ListNames DEF ObjectsInit, Init, KernelInit, Members
<1> QED BY <1>1, <1>3, <1>4 DEF EventInv, NoMissedEvent

\* The invariant of the event set holds always.
LEMMA AlwaysEventInv == ObjectsSpec => []EventInv
<1>1. EventInv /\ [ObjectsNext]_allVars => EventInv'
  BY NextEventInv
<1> QED BY <1>1, InitEventInv, PTL DEF ObjectsSpec

\* No missed event: rt_event_send goes through all the waiting threads with
\* what those before have left, rt_event_recv tests before it waits, and the
\* timeouts, deletions and resets in between leave no thread on the list whose
\* events are there.
THEOREM NeverMissedEvent == ObjectsSpec => []NoMissedEvent
<1>1. EventInv => NoMissedEvent
  BY DEF EventInv
<1> QED BY <1>1, AlwaysEventInv, PTL

-----------------------------------------------------------------------------
(* The waits end as they should *)

\* The kernel of every step outside module Scheduler: the current thread goes
\* on, waits, or threads are made ready.
GoesOn ==
    /\ Ready
    /\ \E l : Moves(l) /\ (l \in InWait => pc[k.current] \in InWait \/ k.lock = 0)

Readies ==
    /\ \E R : Frees(k, k', R)
    /\ \/ pc' = pc
       \/ Ready /\ \E l : l \notin InWait /\ pc' = [pc EXCEPT ![k.current] = l]

Shape ==
    \/ Passes \/ Schedules \/ GoesOn \/ Readies
    \/ Ready /\ \E w \in WaitList : Waits(w)

\* WakesFirst and PoolWakes make one thread ready, or none.
LEMMA SomeFreed ==
    ASSUME Base, k' = k \/ (\E w \in WaitList : WakesFirst(w)) \/ PoolWakes
    PROVE  \E R : Frees(k, k', R)
<1>1. CASE k' = k
  <2>1. Frees(k, k', {})
    BY <1>1 DEF Frees
  <2> QED BY <2>1
<1> QED BY <1>1 DEF WakesFirst, PoolWakes

\* Every outcome has one of these shapes.
LEMMA Shapes ==
    ASSUME Base, Outcome PROVE Shape
<1>0. Receivers \in WaitList /\ Senders \in WaitList
  BY ListNames
<1>1. ASSUME NEW l \in {"run", "done"}, Ready, Moves(l) PROVE Shape
  BY <1>1 DEF Shape, GoesOn, InWait
<1>2. ASSUME k' = k \/ WakesFirst(Receivers) \/ WakesFirst(Senders) \/ PoolWakes,
             \/ pc' = pc
             \/ /\ Ready
                /\ \E l \in {"run", "sched", "fill", "copy"} : pc' = [pc EXCEPT ![k.current] = l]
      PROVE  Shape
  <2>1. \E R : Frees(k, k', R)
    BY <1>0, <1>2, SomeFreed
  <2> QED BY <1>2, <2>1 DEF Shape, Readies, InWait
<1>3. ASSUME NEW V, BreaksAll(V), Ready, pc' = [pc EXCEPT ![k.current] = "sched"] PROVE Shape
  <2>1. \E R : Frees(k, k', R)
    BY <1>3 DEF BreaksAll
  <2> QED BY <1>3, <2>1 DEF Shape, Readies, InWait
<1>4. ASSUME NEW op, Returns(op), WakesFirst(Receivers) \/ WakesFirst(Senders) PROVE Shape
  BY <1>2, <1>4 DEF Returns
<1>5. ASSUME NEW w \in WaitList, ChanWaits(w) PROVE Shape
  BY <1>5 DEF Shape, ChanWaits
<1>6. ASSUME NEW op, ChanFails(op) PROVE Shape
  BY <1>1, <1>6 DEF ChanFails
<1>7. ASSUME ChanBroken PROVE Shape
  BY <1>3, <1>7 DEF ChanBroken
<1>8. CASE MbOutcome
  BY <1>0, <1>4, <1>5, <1>6, <1>7, <1>8 DEF MbOutcome
<1>9. CASE MqOutcome
  <2>1. ASSUME NEW u \in Caller, MqLinks(u) \/ MqFrees(u) PROVE Shape
    BY <1>2, <2>1 DEF MqLinks, MqFrees, Turn
  <2>2. ASSUME NEW u \in Caller, NEW c, MqAllots(u, c) \/ MqUnlinks(u, c) PROVE Shape
    BY <1>2, <2>2 DEF MqAllots, MqUnlinks, Turn
  <2> QED BY <1>0, <1>5, <1>6, <1>7, <1>9, <2>1, <2>2 DEF MqOutcome
<1>10. CASE EventOutcome
  <2>1. ASSUME NEW R, Frees(k, k', R),
               pc' = pc \/ (Ready /\ pc' = [pc EXCEPT ![k.current] = "sched"])
        PROVE  Shape
    BY <2>1 DEF Shape, Readies, InWait
  <2>2. ASSUME Ready, Waits(Receivers) PROVE Shape
    BY <1>0, <2>2 DEF Shape
  <2> QED BY <1>1, <1>3, <1>10, <2>1, <2>2 DEF EventOutcome
<1>11. CASE PoolOutcome
  <2>1. ASSUME Ready, Moves("retry"), pc[k.current] = "woken" PROVE Shape
    BY <2>1 DEF Shape, GoesOn, InWait
  <2>2. ASSUME Ready, Waits(Receivers) PROVE Shape
    BY <1>0, <2>2 DEF Shape
  <2> QED BY <1>1, <1>2, <1>11, <2>1, <2>2 DEF PoolOutcome, vars, Allocs
<1>12. CASE CompletionOutcome
  <2>1. ASSUME Ready, Waits(Receivers) PROVE Shape
    BY <1>0, <2>1 DEF Shape
  <2> QED BY <1>1, <1>2, <1>4, <1>12, <2>1 DEF CompletionOutcome, vars
<1>13. CASE SerialOutcome
  <2>1. ASSUME Ready, Moves("ask") \/ Moves("woken"), pc[k.current] = "ask" \/ k.lock = 0
        PROVE  Shape
    BY <2>1 DEF Shape, GoesOn, InWait
  <2>2. ASSUME Ready, Waits(Receivers) PROVE Shape
    BY <1>0, <2>2 DEF Shape
  <2> QED BY <1>1, <1>2, <1>13, <2>1, <2>2
        DEF SerialOutcome, RxOutcome, GetOutcome, Looks, vars
<1>14. CASE Fails
  BY <1>6, <1>14 DEF Fails
<1> QED BY <1>8, <1>9, <1>10, <1>11, <1>12, <1>13, <1>14 DEF Outcome, Shape

\* A thread is suspended in a wait only while it is on the list.
LEMMA NextTakers ==
    ASSUME Base, TakersKept, WaitersLeftAlone, Shape PROVE TakersKept'
<1>0. /\ IInv /\ pc \in [Thread -> EveryLabel] /\ k.current \in Thread
      /\ k.stat \in [Thread -> Stat]
      /\ \A w \in WaitList : Members(k.wait[w]) \subseteq Thread
  BY WaitersSuspended DEF Base, IInv, Typed, KernelState
<1>1. CASE Passes
  BY <1>0, <1>1, NextWaiters, TakersNext DEF Passes
<1>2. CASE Schedules
  BY <1>0, <1>2, TakersNext DEF Schedules
<1>3. CASE GoesOn
  <2>1. PICK l : Moves(l) /\ (l \in InWait => pc[k.current] \in InWait \/ k.lock = 0)
    BY <1>3 DEF GoesOn
  <2>2. /\ \A t \in Thread : pc'[t] = IF t = k.current THEN l ELSE pc[t]
        /\ k'.stat = k.stat /\ k'.wait = k.wait
    BY <1>0, <2>1 DEF Moves
  <2>3. OffWaits(k, k.current) /\ pc[k.current] \notin Pending
    BY <1>3 DEF GoesOn, Ready
  <2>4. l \in InWait => k.stat[k.current] \in {"ready", "running"}
    <3>1. CASE pc[k.current] \in InWait
      BY <1>0, <2>3, <3>1 DEF TakersKept, OffWaits
    <3>2. CASE k.lock = 0
      <4>1. k.stat[k.current] # "suspend" /\ k.stat[k.current] # "close"
        BY <1>0, <2>3, <3>2 DEF IInv, SuspendedLeaves, ClosedLeaves, Pending
      <4> QED BY <1>0, <4>1 DEF IInv, Sound, Consistent, CurrentConsistent
    <3> QED BY <2>1, <3>1, <3>2
  <2>5. ASSUME NEW w \in WaitList, NEW t \in Members(k'.wait[w]) PROVE pc'[t] \in InWait
    BY <1>0, <2>2, <2>3, <2>5 DEF TakersKept, OffWaits
  <2>6. ASSUME NEW t \in Thread, pc'[t] \in InWait
        PROVE  /\ k'.stat[t] \in {"suspend", "ready", "running"}
               /\ k'.stat[t] = "suspend" => \E w \in WaitList : t \in Members(k'.wait[w])
    BY <2>2, <2>4, <2>6 DEF TakersKept
  <2> QED BY <2>5, <2>6 DEF TakersKept
<1>4. CASE Readies
  <2>1. PICK R : Frees(k, k', R)
    BY <1>4 DEF Readies
  <2>2. ASSUME NEW t \in Thread, pc'[t] \in InWait PROVE pc[t] \in InWait /\ pc'[t] = pc[t]
    BY <1>0, <1>4, <2>2 DEF Readies
  <2>3. ASSUME NEW w \in WaitList, NEW t \in Members(k'.wait[w]) PROVE pc'[t] \in InWait
    <3>1. t \in Members(k.wait[w])
      BY <2>1, <2>3 DEF Frees
    <3>2. pc[t] \in InWait /\ t \in Thread
      BY <1>0, <3>1 DEF TakersKept
    <3>3. Ready => t # k.current
      BY <3>1 DEF Ready, OffWaits
    <3> QED BY <1>0, <1>4, <3>2, <3>3 DEF Readies
  <2>4. ASSUME NEW t \in Thread, pc'[t] \in InWait
        PROVE  /\ k'.stat[t] \in {"suspend", "ready", "running"}
               /\ k'.stat[t] = "suspend" => \E w \in WaitList : t \in Members(k'.wait[w])
    <3>1. pc[t] \in InWait
      BY <2>2, <2>4
    <3>2. CASE t \in R
      BY <2>1, <3>2 DEF Frees
    <3>3. CASE t \notin R
      <4>1. /\ k.stat[t] \in {"suspend", "ready", "running"}
            /\ k.stat[t] = "suspend" => \E w \in WaitList : t \in Members(k.wait[w])
        BY <3>1 DEF TakersKept
      <4>2. \/ k'.stat[t] = k.stat[t]
            \/ {k.stat[t], k'.stat[t]} \subseteq {"ready", "running"}
        BY <2>1, <3>3 DEF Frees
      <4>3. \A w \in WaitList : t \in Members(k.wait[w]) => t \in Members(k'.wait[w])
        BY <2>1, <3>3 DEF Frees
      <4> QED BY <4>1, <4>2, <4>3
    <3> QED BY <3>2, <3>3
  <2> QED BY <2>3, <2>4 DEF TakersKept
<1>5. CASE Ready /\ \E w \in WaitList : Waits(w)
  <2>1. "block" \in InWait
    BY DEF InWait
  <2> QED BY <1>0, <1>5, <2>1, TakersJoin DEF Waits
<1> QED BY <1>1, <1>2, <1>3, <1>4, <1>5 DEF Shape

WInv == EventInv /\ TakersKept

\* Every step keeps WInv.
LEMMA NextWInv ==
    ASSUME WaitersLeftAlone, WInv, [ObjectsNext]_allVars PROVE WInv'
<1>1. EventInv' /\ Base /\ Outcome
  BY NextEventInv, Outcomes DEF WInv, EventInv, BInv
<1> QED BY <1>1, Shapes, NextTakers DEF WInv

\* It holds at the start.
LEMMA InitWInv == ObjectsInit => WInv
<1> SUFFICES ASSUME ObjectsInit PROVE WInv
  OBVIOUS
<1>1. EventInv
  BY InitEventInv
<1>2. /\ \A t \in Thread : pc[t] \notin InWait
      /\ \A w \in WaitList : Members(k.wait[w]) = {}
  BY DEF ObjectsInit, Init, KernelInit, Members, InWait
<1> QED BY <1>1, <1>2 DEF WInv, TakersKept

\* It holds always.
LEMMA AlwaysWInv == ASSUME WaitersLeftAlone PROVE ObjectsSpec => []WInv
<1>1. WInv /\ [ObjectsNext]_allVars => WInv'
  BY NextWInv
<1> QED BY <1>1, InitWInv, PTL DEF ObjectsSpec

\* What EventReported says of a step.
ReportedStep ==
    IsEvent =>
       \A t \in Served :
          LET told == call'[t].set
          IN  /\ IF call[t].option.all THEN told = call[t].set
                 ELSE told # {} /\ told \subseteq call[t].set
              /\ call[t].option.clear =>
                    /\ told \cap obj'.set = {}
                    /\ \A u \in Served \ {t} :
                          call[u].option.clear =>
                             told \cap call'[u].set = {}

\* A step that resumes no thread with success.
LEMMA NobodyServed == ASSUME Served = {} PROVE ReportedStep
BY DEF ReportedStep

\* Only a send resumes a thread with success.
LEMMA OnlySendServes ==
    ASSUME WInv, WaitersLeftAlone, IsEvent, Outcome PROVE ReportedStep
<1> DEFINE W == Members(k.wait[Receivers])
<1>0. Base /\ IInv /\ Receivers \in WaitList /\ "set" \in DOMAIN obj /\ W \subseteq Thread
      /\ TakersKept
  <2>1. Base /\ IInv /\ SetTyped /\ TakersKept
    BY DEF WInv, EventInv, BInv, Base
  <2> QED BY <2>1, ListNames, WaitersSuspended DEF SetTyped
<1>1. CASE Passes
  <2>1. PassesBy \/ \E h \in Thread : TimesOut(h)
    BY <1>0, <1>1, NextWaiters DEF Passes
  <2>2. CASE PassesBy
    <3>1. Served = {}
      BY <2>2 DEF PassesBy, Served
    <3> QED BY <3>1, NobodyServed
  <2>3. ASSUME NEW h \in Thread, TimesOut(h) PROVE ReportedStep
    <3>1. k'.wait = WaitsWithout(k, h) /\ k'.error = [k.error EXCEPT ![h] = "timeout"]
      BY <2>3 DEF TimesOut, Fired
    <3>2. Members(k'.wait[Receivers]) = W \ {h} /\ k'.error[h] = "timeout"
      <4>1. k.error \in [Thread -> Error]
        BY <1>0 DEF IInv, Typed, KernelState
      <4> QED BY <1>0, <3>1, <4>1, MembersLeft
    <3>3. Served = {}
      BY <3>2 DEF Served
    <3> QED BY <3>3, NobodyServed
  <2> QED BY <2>1, <2>2, <2>3
<1>2. CASE Schedules \/ Fails
  <2>1. k'.wait = k.wait
    BY <1>2 DEF Schedules, PassesBy, Fails, ChanFails, Moves
  <2>2. Served = {}
    BY <2>1 DEF Served
  <2> QED BY <2>2, NobodyServed
<1>3. CASE EventOutcome
  <2>1. CASE Moves("run")
    <3>1. Served = {}
      BY <2>1 DEF Served, Moves
    <3> QED BY <3>1, NobodyServed
  <2>2. CASE Waits(Receivers)
    <3>1. Served = {}
      BY <2>2 DEF Served, Waits, JoinsAt
    <3> QED BY <3>1, NobodyServed
  <2>3. CASE BreaksAll({Receivers})
    <3>1. \A t \in W : k'.error[t] = "error"
      BY <2>3 DEF BreaksAll
    <3>2. Served = {}
      BY <3>1 DEF Served
    <3> QED BY <3>2, NobodyServed
  <2>4. ASSUME NEW s, NEW R, NEW B, SentEvents(s, W, R, B),
               obj' = [obj EXCEPT !.set = s.set], call' = s.call, Frees(k, k', R)
        PROVE  ReportedStep
    <3>1. Served \subseteq R
      BY <1>0, <2>4 DEF Served, Frees
    <3>2. obj'.set = s.set
      BY <1>0, <2>4
    <3>3. /\ \A t \in R : IF call[t].option.all THEN call'[t].set = call[t].set
                          ELSE call'[t].set # {} /\ call'[t].set \subseteq call[t].set
          /\ \A t \in R : call[t].option.clear =>
                /\ call'[t].set \cap obj'.set = {}
                /\ \A u \in R \ {t} :
                      call[u].option.clear => call'[t].set \cap call'[u].set = {}
      BY <2>4, <3>2 DEF SentEvents
    <3> HIDE DEF Served
    <3> QED BY <3>1, <3>3 DEF ReportedStep
  <2> QED BY <1>3, <2>1, <2>2, <2>3, <2>4 DEF EventOutcome
<1>4. Passes \/ Schedules \/ Fails \/ EventOutcome
  BY DEF Outcome, IsMailbox, IsQueue, IsEvent, IsPool, IsCompletion, IsSerial
<1> QED BY <1>1, <1>2, <1>3, <1>4

\* rt_event_send: each thread it resumes is told the events it asked for, and
\* an event is consumed by at most one of the threads that clear, for any
\* number of waiting threads and events.  A timeout or a reset takes a thread
\* off the list with an error, so it cannot be mistaken for a send.
THEOREM EventAlwaysReported ==
    ASSUME WaitersLeftAlone PROVE ObjectsSpec => EventReported
<1>1. ASSUME WInv, [ObjectsNext]_allVars PROVE [ReportedStep]_allVars
  <2>1. Outcome
    BY <1>1, Outcomes DEF WInv, EventInv
  <2>2. ReportedStep
    BY <1>1, <2>1, OnlySendServes DEF ReportedStep
  <2> QED BY <2>2
<1>2. ObjectsSpec => []WInv
  BY AlwaysWInv
<1>3. ObjectsSpec => [][ReportedStep]_allVars
  BY <1>1, <1>2, PTL DEF ObjectsSpec
<1> QED BY <1>3 DEF EventReported, ReportedStep

-----------------------------------------------------------------------------
(* The threads that are on their way *)

\* t has been resumed from a wait of a call op.
OnWay(t, op) ==
    /\ pc[t] \in {"block", "woken", "retry"} /\ call[t].op = op
    /\ k.error[t] = "ok" /\ OffWaits(k, t)

\* Woken is the set of the threads on their way.
LEMMA WokenIs == ASSUME NEW op PROVE Woken(op) = {t \in Thread : OnWay(t, op)}
BY DEF Woken, OnWay, OffWaits

\* The same after a step.
LEMMA WokenNext == ASSUME NEW op PROVE Woken(op)' = {t \in Thread : OnWay(t, op)'}
BY DEF Woken, OnWay, OffWaits

\* The steps of module Scheduler, the tick and its timeouts among them, and
\* the rt_schedule of a wait leave them alone.
LEMMA WokenSame ==
    ASSUME Base, TakersKept, WaitersLeftAlone, Passes \/ Schedules, NEW op
    PROVE  \A t \in Thread : OnWay(t, op)' <=> OnWay(t, op)
<1>0. /\ IInv /\ pc \in [Thread -> EveryLabel] /\ k.current \in Thread /\ call' = call
      /\ k.error \in [Thread -> Error]
  BY DEF Base, IInv, Typed, KernelState, Passes, Schedules
<1>1. ASSUME NEW t \in Thread, PassesBy,
             pc'[t] \in {"block", "woken", "retry"} <=> pc[t] \in {"block", "woken", "retry"}
      PROVE  OnWay(t, op)' <=> OnWay(t, op)
  <2>1. k'.wait = k.wait /\ (pc[t] \in InWait => k'.error[t] = k.error[t])
    BY <1>1 DEF PassesBy, Undisturbed
  <2>2. CASE pc[t] \in {"block", "woken", "retry"}
    <3>1. k'.error[t] = k.error[t]
      BY <2>1, <2>2 DEF InWait
    <3> QED BY <1>0, <1>1, <2>1, <2>2, <3>1 DEF OnWay, OffWaits
  <2>3. CASE pc[t] \notin {"block", "woken", "retry"}
    BY <1>1, <2>3 DEF OnWay
  <2> QED BY <2>2, <2>3
<1>2. CASE Schedules
  <2>1. \A t \in Thread : pc'[t] = IF t = k.current THEN "woken" ELSE pc[t]
    BY <1>0, <1>2 DEF Schedules
  <2> QED BY <1>1, <1>2, <2>1 DEF Schedules
<1>3. CASE Passes /\ PassesBy
  <2>1. ASSUME NEW t \in Thread
        PROVE  pc'[t] \in {"block", "woken", "retry"} <=> pc[t] \in {"block", "woken", "retry"}
    <3>1. pc[t] \in {"block", "woken", "retry"} => k.stat[t] # "close"
      BY DEF TakersKept, InWait
    <3> QED BY <1>0, <1>3, <3>1, NextPc DEF Passes, Label
  <2> QED BY <1>1, <1>3, <2>1
<1>4. ASSUME NEW h \in Thread, TimesOut(h), NEW t \in Thread
      PROVE  OnWay(t, op)' <=> OnWay(t, op)
  <2>1. /\ pc' = pc /\ k.stat[h] = "suspend" /\ k'.wait = WaitsWithout(k, h)
        /\ k'.error = [k.error EXCEPT ![h] = "timeout"]
    BY <1>4 DEF TimesOut, Fired
  <2>2. \A w \in WaitList : Members(k'.wait[w]) = Members(k.wait[w]) \ {h}
    BY <1>0, <2>1, MembersLeft
  <2>3. CASE t = h
    <3>1. ~ OnWay(t, op)
      BY <2>1, <2>3 DEF OnWay, OffWaits, TakersKept, InWait
    <3>2. k'.error[t] = "timeout"
      BY <1>0, <2>1, <2>3
    <3> QED BY <3>1, <3>2 DEF OnWay
  <2>4. CASE t # h
    <3>1. k'.error[t] = k.error[t] /\ (OffWaits(k', t) <=> OffWaits(k, t))
      BY <1>0, <2>1, <2>2, <2>4 DEF OffWaits
    <3> QED BY <1>0, <2>1, <3>1 DEF OnWay
  <2> QED BY <2>3, <2>4
<1>5. Passes => PassesBy \/ \E h \in Thread : TimesOut(h)
  BY <1>0, NextWaiters DEF Passes
<1> QED BY <1>2, <1>3, <1>4, <1>5

-----------------------------------------------------------------------------
(* The completion *)

\* One thread waits, and the flag agrees with where it is.
CompletionOk ==
    IsCompletion =>
       /\ "done" \in DOMAIN obj /\ obj.done \in BOOLEAN
       /\ \A t, u \in Thread : call[t].op = "wait" /\ call[u].op = "wait" => t = u
       /\ obj.done => k.wait[Receivers] = <<>>
       /\ \A t \in Thread : OnWay(t, "wait") => obj.done

\* A step that leaves the flag alone and brings no thread into a wait.
LEMMA CompletionKept ==
    ASSUME Base, Base', CompletionOk, SameKind, IsCompletion, obj' = obj,
           \A t \in Thread : call'[t].op = "wait" => call[t].op = "wait",
           Members(k'.wait[Receivers]) \subseteq Members(k.wait[Receivers]),
           \A t \in Thread : OnWay(t, "wait")' => OnWay(t, "wait")
    PROVE  CompletionOk'
<1>1. k.wait[Receivers] = <<>> => k'.wait[Receivers] = <<>>
  <2>1. k.wait[Receivers] = <<>> => Members(k.wait[Receivers]) = {}
    BY DEF Members
  <2>2. k'.wait[Receivers] \in Seq(Thread)
    BY ListNames DEF Base, IInv, Typed, KernelState
  <2>3. Members(k'.wait[Receivers]) = {} => k'.wait[Receivers] = <<>>
    BY <2>2, MembersEmpty
  <2> QED BY <2>1, <2>3
<1> QED BY <1>1 DEF CompletionOk, IsCompletion, SameKind

\* The calls of a completion.
LEMMA CompletionStepOk ==
    ASSUME Base, Base', CompletionOk, SameKind, IsCompletion, CompletionOutcome
    PROVE  CompletionOk'
<1> DEFINE c == k.current
           W == k.wait[Receivers]
<1>0. /\ "done" \in DOMAIN obj /\ obj.done \in BOOLEAN /\ IsCompletion'
      /\ \A t, u \in Thread : call[t].op = "wait" /\ call[u].op = "wait" => t = u
      /\ obj.done => W = <<>>
      /\ \A t \in Thread : OnWay(t, "wait") => obj.done
  BY DEF CompletionOk, IsCompletion, SameKind
<1>1. /\ Receivers \in WaitList /\ W \in Seq(Thread) /\ NoDup(W) /\ c \in Thread
      /\ k'.wait[Receivers] \in Seq(Thread) /\ DOMAIN call = Caller
      /\ pc \in [Thread -> EveryLabel]
  BY ListNames DEF Base, IInv, Typed, Sound, Consistent, WaitConsistent, KernelState
<1>2. \A t \in Members(W) : t \in Thread /\ call[t].op = "wait"
  <2>1. "wait" = ListOp(Receivers)
    BY DEF ListOp, IsEvent, IsPool, IsCompletion
  <2> QED BY <1>1, <2>1, WaitersSuspended DEF Base, Waiter
<1>3. \A x : [obj EXCEPT !.done = x].done = x /\ "done" \in DOMAIN [obj EXCEPT !.done = x]
  BY <1>0
<1>4. \A d : Mine(d) => \A t \in Thread : call'[t] = IF t = c THEN d ELSE call[t]
  BY <1>1 DEF Mine, Caller
<1>5. CASE obj' = [obj EXCEPT !.done = FALSE] /\ OnlyMe /\ UNCHANGED vars /\ call' = call
  <2>1. \A t \in Thread : ~ OnWay(t, "wait")'
    BY <1>5 DEF OnlyMe, OnWay
  <2> QED BY <1>0, <1>3, <1>5, <2>1 DEF CompletionOk
<1>6. CASE /\ OnlyMe /\ ~ obj.done /\ obj' = obj /\ Waits(Receivers)
           /\ \E d : Mine(d) /\ d.op = "wait"
  <2>1. \A t \in Thread : call'[t].op = "wait" => t = c
    BY <1>4, <1>6 DEF OnlyMe
  <2>2. ~ OffWaits(k', c)
    BY <1>1, <1>6 DEF Waits, JoinsAt, OffWaits
  <2>3. \A t \in Thread : ~ OnWay(t, "wait")'
    BY <2>1, <2>2 DEF OnWay
  <2> QED BY <1>0, <1>6, <2>1, <2>3 DEF CompletionOk
<1>7. CASE /\ call[c].op = "wait" /\ obj' = [obj EXCEPT !.done = FALSE] /\ Mine(NoCall)
  <2>0. \A t \in Thread : call'[t] = IF t = c THEN NoCall ELSE call[t]
    BY <1>4, <1>7
  <2>1. \A t \in Thread : call'[t].op # "wait"
    <3>1. NoCall.op # "wait"
      BY DEF NoCall
    <3>2. \A t \in Thread : t # c => call[t].op # "wait"
      BY <1>0, <1>1, <1>7
    <3> QED BY <2>0, <3>1, <3>2
  <2>2. \A t \in Thread : ~ OnWay(t, "wait")'
    BY <2>1 DEF OnWay
  <2> QED BY <1>0, <1>3, <1>7, <2>1, <2>2 DEF CompletionOk
<1>8. CASE /\ obj' = obj /\ k' = k /\ Moves("done") /\ \E d : Mine(d) /\ d.op = "done"
  <2>1. \A t \in Thread : call'[t].op = "wait" => t # c /\ call'[t] = call[t]
    BY <1>4, <1>8
  <2>2. \A t \in Thread : t # c => pc'[t] = pc[t]
    BY <1>1, <1>8 DEF Moves
  <2>3. \A t \in Thread : OnWay(t, "wait")' => OnWay(t, "wait")
    BY <1>8, <2>1, <2>2 DEF OnWay
  <2> QED BY <1>8, <2>1, <2>3, CompletionKept
<1>9. CASE obj' = obj /\ k' = k /\ pc' = pc /\ \E d : Enters(Handler, d)
  <2>1. \A t \in Thread : call'[t] = call[t]
    BY <1>1, <1>9, HandlerAssumption DEF Enters, Caller
  <2>2. \A t \in Thread : OnWay(t, "wait")' => OnWay(t, "wait")
    BY <1>9, <2>1 DEF OnWay
  <2> QED BY <1>9, <2>1, <2>2, CompletionKept
<1>10. CASE obj' = [obj EXCEPT !.done = TRUE] /\ WakesFirst(Receivers) /\ Returns("done")
  <2>1. \A t, u \in Thread : call'[t].op = "wait" /\ call'[u].op = "wait" => t = u
    BY <1>0, <1>4, <1>10 DEF Returns, NoCall
  <2>2. k'.wait[Receivers] = <<>>
    <3>1. CASE W = <<>>
      BY <1>10, <3>1 DEF WakesFirst
    <3>2. CASE W # <<>>
      <4>1. Head(W) \in Members(W)
        BY <1>1, <3>2 DEF Members
      <4>2. Members(k'.wait[Receivers]) = Members(W) \ {Head(W)}
        BY <1>1, <1>10, <3>2 DEF WakesFirst, Frees
      <4>3. Members(W) \subseteq {Head(W)}
        BY <1>0, <1>2, <4>1
      <4>4. Members(k'.wait[Receivers]) = {}
        BY <4>2, <4>3
      <4> QED BY <1>1, <4>4, MembersEmpty
    <3> QED BY <3>1, <3>2
  <2>3. obj'.done = TRUE /\ "done" \in DOMAIN obj'
    BY <1>3, <1>10
  <2> QED BY <1>0, <2>1, <2>2, <2>3 DEF CompletionOk
<1> QED BY <1>5, <1>6, <1>7, <1>8, <1>9, <1>10 DEF CompletionOutcome

\* Every step keeps the flag and the waiting thread in agreement.
LEMMA NextCompletionOk ==
    ASSUME WInv, WInv', CompletionOk, WaitersLeftAlone, SameKind, Outcome
    PROVE  CompletionOk'
<1>0. Base /\ Base' /\ IInv /\ TakersKept /\ Receivers \in WaitList
  BY ListNames DEF WInv, EventInv, BInv, Base
<1>1. CASE ~ IsCompletion
  BY <1>1 DEF CompletionOk, IsCompletion, SameKind
<1>2. CASE IsCompletion /\ CompletionOutcome
  BY <1>0, <1>2, CompletionStepOk
<1>3. CASE IsCompletion /\ (Passes \/ Schedules)
  <2>1. obj' = obj /\ call' = call
    BY <1>3 DEF Passes, Schedules
  <2>2. Members(k'.wait[Receivers]) \subseteq Members(k.wait[Receivers])
    <3>1. Passes => k'.wait = k.wait \/ \E h \in Thread : k'.wait = WaitsWithout(k, h)
      BY <1>0, NextLists DEF Passes
    <3>2. Schedules => k'.wait = k.wait
      BY DEF Schedules, PassesBy
    <3> QED BY <1>0, <1>3, <3>1, <3>2, MembersLeft
  <2>3. \A t \in Thread : OnWay(t, "wait")' => OnWay(t, "wait")
    BY <1>0, <1>3, WokenSame
  <2> QED BY <1>0, <1>3, <2>1, <2>2, <2>3, CompletionKept
<1>4. CASE IsCompletion /\ Fails
  <2>1. obj' = obj /\ Moves("run") /\ Mine(NoCall)
    BY <1>4 DEF Fails, ChanFails
  <2>2. /\ \A t \in Thread : call'[t] = IF t = k.current THEN NoCall ELSE call[t]
        /\ \A t \in Thread : t # k.current => pc'[t] = pc[t] /\ k'.error[t] = k.error[t]
        /\ k'.wait = k.wait
    BY <1>0, <2>1 DEF Mine, Base, Caller, Moves, IInv, Typed
  <2>3. \A t \in Thread : call'[t].op = "wait" => t # k.current /\ call'[t] = call[t]
    BY <2>2 DEF NoCall
  <2>4. \A t \in Thread : OnWay(t, "wait")' => OnWay(t, "wait")
    BY <2>2, <2>3 DEF OnWay, OffWaits
  <2> QED BY <1>0, <1>4, <2>1, <2>2, <2>3, <2>4, CompletionKept
<1>5. Passes \/ Schedules \/ Fails \/ CompletionOutcome \/ ~ IsCompletion
  BY DEF Outcome, IsMailbox, IsQueue, IsEvent, IsPool, IsCompletion, IsSerial
<1> QED BY <1>1, <1>2, <1>3, <1>4, <1>5

\* rt_completion_init
LEMMA InitCompletionOk == ObjectsInit => CompletionOk
<1> SUFFICES ASSUME ObjectsInit, IsCompletion PROVE CompletionOk
  BY DEF CompletionOk
<1>1. obj \in CompletionInit
  BY DEF ObjectsInit, IsCompletion, MailboxInit, MessageQueueInit, MempoolInit, SerialInit,
     EventInit
<1>2. "done" \in DOMAIN obj /\ obj.done = FALSE
  BY <1>1 DEF CompletionInit
<1>3. \A t \in Thread : call[t].op # "wait"
  BY DEF ObjectsInit, NoCall
<1> QED BY <1>2, <1>3 DEF CompletionOk, OnWay

\* The completion: rt_completion_done resumes the thread that waits and leaves
\* the flag for it; a timeout that crosses it leaves neither a thread on the
\* list of a completion that is done, nor one that was resumed by done and
\* does not find it so.
THEOREM DoneAlwaysSeen == ASSUME WaitersLeftAlone PROVE ObjectsSpec => []DoneSeen
<1>1. WInv /\ CompletionOk /\ [ObjectsNext]_allVars => (WInv /\ CompletionOk)'
  <2> SUFFICES ASSUME WInv, CompletionOk, [ObjectsNext]_allVars
               PROVE  WInv' /\ CompletionOk'
    OBVIOUS
  <2>1. WInv' /\ SameKind /\ Outcome
    BY NextWInv, Outcomes DEF WInv, EventInv
  <2> QED BY <2>1, NextCompletionOk
<1>2. ObjectsInit => WInv /\ CompletionOk
  BY InitWInv, InitCompletionOk
<1>3. CompletionOk => DoneSeen
  BY WokenIs DEF CompletionOk, DoneSeen
<1> QED BY <1>1, <1>2, <1>3, PTL DEF ObjectsSpec

-----------------------------------------------------------------------------
(* The console *)

\* t is in finsh_getchar, and about to take the semaphore.
Asks(t) == pc[t] = "ask" /\ call[t].op = "getchar"

\* The shell is one thread; the semaphore has no tokens while it waits; and,
\* once the handler is done, characters in the ring come with a token for a
\* shell that is about to take one.
ShellOk ==
    IsSerial =>
       /\ \A t, u \in Thread : call[t].op = "getchar" /\ call[u].op = "getchar" => t = u
       /\ k.wait[Receivers] # <<>> => obj.rx_sem = 0
       /\ Quiet /\ obj.put_index # obj.get_index =>
             /\ k.wait[Receivers] = <<>>
             /\ \A t \in Thread : Asks(t) => obj.rx_sem > 0

\* Nobody comes to the list or to the semaphore.
LEMMA ShellKept ==
    ASSUME Base, Base', ShellOk, SameKind, IsSerial, obj' = obj, call'[Handler] = call[Handler],
           \A t \in Thread : call'[t].op = "getchar" => call[t].op = "getchar",
           Members(k'.wait[Receivers]) \subseteq Members(k.wait[Receivers]),
           \A t \in Thread : Asks(t)' => Asks(t)
    PROVE  ShellOk'
<1>1. k.wait[Receivers] = <<>> => k'.wait[Receivers] = <<>>
  <2>1. k.wait[Receivers] \in Seq(Thread) /\ k'.wait[Receivers] \in Seq(Thread)
    BY ListNames DEF Base, IInv, Typed, KernelState
  <2>2. Members(k'.wait[Receivers]) = {} => k'.wait[Receivers] = <<>>
    BY <2>1, MembersEmpty
  <2>3. k.wait[Receivers] = <<>> => Members(k.wait[Receivers]) = {}
    BY DEF Members
  <2> QED BY <2>2, <2>3
<1> QED BY <1>1 DEF ShellOk, IsSerial, SameKind, Quiet

\* On the list is only the shell.
LEMMA ShellWaits ==
    ASSUME Base, IsSerial, \A t \in Thread : t # k.current => call[t].op # "getchar",
           OffWaits(k, k.current)
    PROVE  k.wait[Receivers] = <<>>
<1>1. "getchar" = ListOp(Receivers) /\ Receivers \in WaitList
  BY ListNames DEF ListOp, IsEvent, IsPool, IsCompletion, IsSerial
<1>2. \A t \in Members(k.wait[Receivers]) : t \in Thread /\ call[t].op = "getchar"
  BY <1>1, WaitersSuspended DEF Base, Waiter
<1>3. Members(k.wait[Receivers]) = {}
  BY <1>1, <1>2 DEF OffWaits
<1>4. k.wait[Receivers] \in Seq(Thread)
  BY <1>1 DEF Base, IInv, Typed, KernelState
<1> QED BY <1>3, <1>4, MembersEmpty

\* The handler.
LEMMA RxShellOk ==
    ASSUME Base, Base', RingOk(obj), ShellOk, SameKind, IsSerial, RxOutcome
    PROVE  ShellOk'
<1> DEFINE W == k.wait[Receivers]
<1>0. /\ \A t, u \in Thread : call[t].op = "getchar" /\ call[u].op = "getchar" => t = u
      /\ W # <<>> => obj.rx_sem = 0 /\ IsSerial'
  BY DEF ShellOk, IsSerial, SameKind
<1>1. /\ Receivers \in WaitList /\ W \in Seq(Thread) /\ k'.wait[Receivers] \in Seq(Thread)
      /\ DOMAIN call = Caller /\ Handler \in Caller /\ Handler \notin Thread
  BY ListNames, HandlerAssumption DEF Base, IInv, Typed, KernelState, Caller
<1>2. \A d : Enters(Handler, d) =>
         call'[Handler] = d /\ \A t \in Thread : call'[t] = call[t]
  BY <1>1 DEF Enters, Caller
<1>3. CASE obj' = obj /\ UNCHANGED vars /\ \E d : Enters(Handler, d) /\ d.op = "rx"
  <2>1. ~ Quiet'
    BY <1>2, <1>3 DEF Quiet, NoCall
  <2> QED BY <1>0, <1>2, <1>3, <2>1 DEF ShellOk, vars
<1>4. CASE ~ Quiet /\ UNCHANGED vars /\ call' = call /\ \E c : obj' = Stored(obj, c)
  <2>1. ~ Quiet' /\ obj'.rx_sem = obj.rx_sem
    BY <1>4 DEF Quiet, Stored, RingOk, SerialState
  <2> QED BY <1>0, <1>4, <2>1 DEF ShellOk, vars
<1>5. CASE /\ obj.put_index = obj.get_index /\ obj' = obj /\ UNCHANGED vars
           /\ Enters(Handler, NoCall)
  BY <1>0, <1>2, <1>5 DEF ShellOk, vars
<1>6. CASE /\ WakesFirst(Receivers) /\ pc' = pc /\ Enters(Handler, NoCall)
           /\ obj' = IF W = <<>> /\ obj.rx_sem < RxValueMax
                     THEN [obj EXCEPT !.rx_sem = @ + 1] ELSE obj
  <2>0. obj.rx_sem \in Nat /\ obj.rx_sem <= RxValueMax /\ RxValueMax \in Nat \ {0}
        /\ "rx_sem" \in DOMAIN obj
    BY RingOkFields, RxValueMaxAssumption DEF RingOk, SerialState
  <2>1. CASE W = <<>>
    <3>1. k' = k
      BY <1>6, <2>1 DEF WakesFirst
    <3>2. obj'.rx_sem > 0
      <4>1. CASE obj.rx_sem < RxValueMax
        <5>1. obj' = [obj EXCEPT !.rx_sem = obj.rx_sem + 1]
          BY <1>6, <2>1, <4>1
        <5>2. obj'.rx_sem = obj.rx_sem + 1
          BY <2>0, <5>1
        <5> QED BY <2>0, <5>2
      <4>2. CASE ~ (obj.rx_sem < RxValueMax)
        <5>1. obj' = obj
          BY <1>6, <2>1, <4>2
        <5> QED BY <2>0, <4>2, <5>1
      <4> QED BY <4>1, <4>2
    <3> QED BY <1>0, <1>2, <1>6, <2>1, <3>1, <3>2 DEF ShellOk
  <2>2. CASE W # <<>>
    <3> DEFINE h == Head(W)
    <3>1. h \in Members(W) /\ h \in Thread
      BY <1>1, <2>2 DEF Members
    <3>2. \A t \in Members(W) : t \in Thread /\ call[t].op = "getchar"
      <4>1. "getchar" = ListOp(Receivers)
        BY DEF ListOp, IsEvent, IsPool, IsCompletion, IsSerial
      <4> QED BY <1>1, <4>1, WaitersSuspended DEF Base, Waiter
    <3>3. Members(k'.wait[Receivers]) = Members(W) \ {h}
      BY <1>1, <1>6, <2>2 DEF WakesFirst, Frees
    <3>4. k'.wait[Receivers] = <<>>
      <4>1. Members(k'.wait[Receivers]) = {}
        BY <1>0, <3>1, <3>2, <3>3
      <4> QED BY <1>1, <4>1, MembersEmpty
    <3>5. \A t \in Thread : ~ Asks(t)'
      <4>1. pc[h] # "ask"
        BY <1>1, <3>1 DEF Base, Listed
      <4> QED BY <1>0, <1>2, <1>6, <3>1, <3>2, <4>1 DEF Asks
    <3>6. obj' = obj
      BY <1>6, <2>2
    <3>7. \A t \in Thread : call'[t] = call[t]
      BY <1>2, <1>6
    <3>8. IsSerial'
      BY DEF IsSerial, SameKind
    <3> QED BY <1>0, <3>4, <3>5, <3>7, <3>8 DEF ShellOk
  <2> QED BY <2>1, <2>2
<1> QED BY <1>3, <1>4, <1>5, <1>6 DEF RxOutcome

\* The shell.
LEMMA GetShellOk ==
    ASSUME Base, Base', RingOk(obj), ShellOk, SameKind, IsSerial, GetOutcome
    PROVE  ShellOk'
<1> DEFINE c == k.current
<1>0. /\ \A t, u \in Thread : call[t].op = "getchar" /\ call[u].op = "getchar" => t = u
      /\ IsSerial'
      /\ Quiet /\ obj.put_index # obj.get_index =>
             \A t \in Thread : Asks(t) => obj.rx_sem > 0
  BY DEF ShellOk, IsSerial, SameKind
<1>1. /\ DOMAIN call = Caller /\ c \in Thread /\ pc \in [Thread -> EveryLabel]
      /\ Receivers \in WaitList
  BY ListNames DEF Base, IInv, Typed, KernelState
<1>2. \A d : Mine(d) => \A t \in Thread : call'[t] = IF t = c THEN d ELSE call[t]
  BY <1>1 DEF Mine, Caller
<1>3. ASSUME Looks \/ Asks(c)
      PROVE  \A t \in Thread : t # c => call[t].op # "getchar"
  BY <1>0, <1>1, <1>3 DEF Looks, OnlyShell, Me, Asks
<1>4. CASE Quiet /\ Asks(c) /\ call' = call /\ obj.rx_sem = 0 /\ obj' = obj
  <2>1. obj'.put_index = obj'.get_index
    BY <1>0, <1>1, <1>4
  <2> QED BY <1>0, <1>4, <2>1 DEF ShellOk
<1>5. CASE Ready /\ (Looks \/ Asks(c)) /\ k'.wait = k.wait /\ \E l : Moves(l)
  <2>1. k'.wait[Receivers] = <<>>
    BY <1>3, <1>5, ShellWaits DEF Ready
  <2>2. CASE Moves("run") /\ Mine(NoCall)
    <3>1. \A t \in Thread : call'[t].op # "getchar"
      BY <1>2, <1>3, <1>5, <2>2 DEF NoCall
    <3> QED BY <1>0, <2>1, <3>1 DEF ShellOk, Asks
  <2>3. CASE NoData /\ obj' = obj /\ \E d : Mine(d) /\ d.op = "getchar"
    <3>1. \A t \in Thread : call'[t].op = "getchar" => t = c
      BY <1>2, <1>3, <1>5, <2>3
    <3> QED BY <1>0, <2>1, <2>3, <3>1 DEF ShellOk, NoData
  <2>4. CASE Moves("woken") /\ call' = call
    <3>1. \A t \in Thread : ~ Asks(t)'
      <4>1. \A t \in Thread : pc'[t] = IF t = c THEN "woken" ELSE pc[t]
        BY <1>1, <2>4 DEF Moves
      <4> QED BY <1>3, <1>5, <2>4, <4>1 DEF Asks
    <3> QED BY <1>0, <2>1, <2>4, <3>1 DEF ShellOk
  <2> QED BY <1>4, <1>5, <2>2, <2>3, <2>4 DEF GetOutcome, Asks
<1>6. Looks => Ready
  BY DEF Looks
<1> QED BY <1>4, <1>5, <1>6 DEF GetOutcome, Asks, Moves

SeenInv == BInv /\ SerialInv /\ ShellOk

\* Every step.
LEMMA NextSeenInv ==
    ASSUME SeenInv, [ObjectsNext]_allVars PROVE SeenInv'
<1>1. BInv' /\ SerialInv' /\ SameKind /\ Outcome
  BY NextBInv, NextSerialInv, Outcomes DEF SeenInv
<1>2. Base /\ Base' /\ IInv /\ ShellOk /\ (IsSerial => RingOk(obj)) /\ Receivers \in WaitList
  BY <1>1, ListNames DEF SeenInv, BInv, Base, SerialInv
<1>3. CASE ~ IsSerial
  BY <1>1, <1>3 DEF SeenInv, ShellOk, IsSerial, SameKind
<1>4. CASE IsSerial /\ SerialOutcome
  BY <1>1, <1>2, <1>4, RxShellOk, GetShellOk DEF SeenInv, SerialOutcome
<1>5. CASE IsSerial /\ (Passes \/ Schedules \/ Fails)
  <2>1. obj' = obj
    BY <1>5 DEF Passes, Schedules, Fails, ChanFails
  <2>2. \A t \in Thread : pc'[t] = "ask" => pc[t] = "ask"
    <3>0. pc \in [Thread -> EveryLabel]
      BY <1>2 DEF IInv, Typed
    <3>1. CASE Passes
      BY <1>2, <3>1, NextPc DEF Passes, Label
    <3>2. CASE Schedules \/ Fails
      BY <3>0, <3>2 DEF Schedules, Fails, ChanFails, Moves
    <3> QED BY <1>5, <3>1, <3>2
  <2>3. /\ \A t \in Thread : call'[t].op = "getchar" => call[t].op = "getchar"
        /\ call'[Handler] = call[Handler]
    <3>1. CASE call' = call
      BY <3>1
    <3>2. CASE Mine(NoCall)
      BY <1>2, <3>2, HandlerAssumption DEF Mine, Base, Caller, NoCall, IInv, Typed, KernelState
    <3> QED BY <1>5, <3>1, <3>2 DEF Passes, Schedules, Fails, ChanFails
  <2>4. Members(k'.wait[Receivers]) \subseteq Members(k.wait[Receivers])
    <3>1. Passes => k'.wait = k.wait \/ \E h \in Thread : k'.wait = WaitsWithout(k, h)
      BY <1>2, NextLists DEF Passes
    <3>2. Schedules \/ Fails => k'.wait = k.wait
      BY DEF Schedules, PassesBy, Fails, ChanFails, Moves
    <3> QED BY <1>2, <1>5, <3>1, <3>2, MembersLeft
  <2>5. \A t \in Thread : Asks(t)' => Asks(t)
    BY <2>2, <2>3 DEF Asks
  <2>6. ShellOk'
    BY <1>1, <1>2, <1>5, <2>1, <2>3, <2>4, <2>5, ShellKept
  <2> QED BY <1>1, <2>6 DEF SeenInv
<1>6. Passes \/ Schedules \/ Fails \/ SerialOutcome \/ ~ IsSerial
  BY <1>1 DEF Outcome, IsMailbox, IsQueue, IsEvent, IsPool, IsCompletion, IsSerial
<1> QED BY <1>3, <1>4, <1>5, <1>6

\* rt_serial_open
LEMMA InitSeenInv == ObjectsInit => SeenInv
<1> SUFFICES ASSUME ObjectsInit PROVE SeenInv
  OBVIOUS
<1>1. BInv /\ SerialInv
  BY InitBInv, InitSerialInv
<1>2. IsSerial => obj \in SerialInit
  BY DEF ObjectsInit, IsSerial, MailboxInit, MessageQueueInit, MempoolInit, CompletionInit,
     EventInit
<1>3. IsSerial => obj.put_index = obj.get_index
  BY <1>2 DEF SerialInit
<1>4. k.wait[Receivers] = <<>> /\ \A t \in Thread : call[t].op # "getchar"
  BY ListNames DEF ObjectsInit, Init, KernelInit, NoCall
<1> QED BY <1>1, <1>3, <1>4 DEF SeenInv, ShellOk

\* No lost wakeup of the shell: between the look of _serial_int_rx into the
\* ring and the rt_sem_take of finsh_getchar the interrupt may bring
\* characters; rt_hw_serial_isr then releases rx_sem before it returns, and
\* the shell never waits while the ring has characters.
THEOREM InputAlwaysSeen == ObjectsSpec => []InputSeen
<1>1. SeenInv /\ [ObjectsNext]_allVars => SeenInv'
  BY NextSeenInv
<1>2. SeenInv => InputSeen
  <2> SUFFICES ASSUME SeenInv, IsSerial, k.wait[Receivers] # <<>>, Quiet
               PROVE  Received = <<>>
    BY DEF InputSeen
  <2>1. RingOk(obj) /\ obj.put_index = obj.get_index
    BY DEF SeenInv, SerialInv, ShellOk
  <2>2. Received = ReceivedOf(obj) /\ Dist(obj.put_index, obj.get_index) = 0
    <3>1. Received = ReceivedOf(obj)
      BY <2>1, ReceivedIs DEF Received
    <3>2. obj.get_index \in Nat /\ BufSz \in Nat
      BY <2>1, RingOkFields
    <3> QED BY <2>1, <3>1, <3>2 DEF Dist, Wrap
  <2> QED BY <2>2 DEF ReceivedOf, Ring
<1> QED BY <1>1, <1>2, InitSeenInv, PTL DEF ObjectsSpec

-----------------------------------------------------------------------------
(* The lists of the message queue *)

\* q are the cells of the queue, p the free cells, and the cells H are in the
\* hands of callers: no cell is in two of these places, and the links, the
\* head, the tail and the head of the free list say so.
QLists(next, head, tail, free, q, p, H) ==
    /\ next \in [Cell -> Cell \cup {Null}]
    /\ head \in Cell \cup {Null} /\ free \in Cell \cup {Null}
    /\ IsPath(next, Cell, head, q) /\ IsPath(next, Cell, free, p)
    /\ NoDup(q) /\ NoDup(p)
    /\ tail = IF q = <<>> THEN Null ELSE q[Len(q)]
    /\ H \subseteq Cell /\ Members(q) \cap Members(p) = {}
    /\ H \cap Members(q) = {} /\ H \cap Members(p) = {}

\* No cell has the address Null.
LEMMA NullIsNoCell == Null \notin Cell
BY DEF Null, Cell

\* What the lists are.
LEMMA QListsFacts ==
    ASSUME NEW next, NEW head, NEW tail, NEW free, NEW q, NEW p, NEW H,
           QLists(next, head, tail, free, q, p, H)
    PROVE  /\ q \in Seq(Cell) /\ p \in Seq(Cell) /\ Len(q) \in Nat /\ Len(p) \in Nat
           /\ Members(q) \subseteq Cell /\ Members(p) \subseteq Cell
           /\ q = <<>> <=> head = Null
           /\ p = <<>> <=> free = Null
           /\ q = <<>> <=> tail = Null
           /\ tail \in Cell \cup {Null}
           /\ DOMAIN next = Cell
<1>1. /\ q \in Seq(Cell) /\ p \in Seq(Cell) /\ Len(q) \in Nat /\ Len(p) \in Nat
      /\ DOMAIN next = Cell
  BY DEF QLists, IsPath
<1>2. Members(q) \subseteq Cell /\ Members(p) \subseteq Cell
  BY <1>1, MembersEmpty
<1>3. q # <<>> => q[1] \in Cell /\ q[1] = head /\ q[Len(q)] \in Cell
  BY <1>1 DEF QLists, IsPath
<1>4. p # <<>> => p[1] \in Cell /\ p[1] = free
  BY <1>1 DEF QLists, IsPath
<1>5. (q = <<>> => head = Null) /\ (p = <<>> => free = Null)
  BY DEF QLists, IsPath
<1> QED BY <1>1, <1>2, <1>3, <1>4, <1>5, NullIsNoCell DEF QLists

\* The first free cell is taken.
LEMMA TakeFree ==
    ASSUME NEW next, NEW head, NEW tail, NEW free, NEW q, NEW p, NEW H,
           QLists(next, head, tail, free, q, p, H), free # Null
    PROVE  /\ p # <<>> /\ free \in Cell /\ free \notin H /\ free \notin Members(q)
           /\ free = Head(p) /\ Len(Tail(p)) = Len(p) - 1
           /\ QLists(next, head, tail, next[free], q, Tail(p), H \cup {free})
<1>0. p # <<>> /\ p \in Seq(Cell)
  BY QListsFacts
<1>1. p # <<>> /\ p \in Seq(Cell) /\ free \in Cell
  BY <1>0 DEF QLists
<1>2. /\ IsPath(next, Cell, free, p) /\ IsPath(next, Cell, head, q)
      /\ NoDup(p) /\ NoDup(q) /\ next[free] \in Cell \cup {Null}
  BY <1>1 DEF QLists
<1>3. /\ free = Head(p) /\ Len(Tail(p)) = Len(p) - 1
      /\ IsPath(next, Cell, next[free], Tail(p))
  BY <1>1, <1>2, PathTail
<1>4. /\ free \in Members(p) /\ NoDup(Tail(p))
      /\ Members(Tail(p)) = Members(p) \ {free}
  BY <1>1, <1>2, <1>3, MembersTail
<1> QED BY <1>1, <1>2, <1>3, <1>4 DEF QLists

\* The last cell of a list without its first one.
LEMMA TailLast ==
    ASSUME NEW S, NEW q \in Seq(S), q # <<>>, NoDup(q)
    PROVE  /\ Tail(q) = <<>> <=> q[Len(q)] = Head(q)
           /\ Tail(q) # <<>> => Tail(q)[Len(Tail(q))] = q[Len(q)]
<1> DEFINE n == Len(q)
           r == Tail(q)
<1>1. /\ n \in Nat \ {0} /\ Head(q) = q[1] /\ Len(r) = n - 1 /\ r \in Seq(S)
      /\ \A i \in 1 .. (n - 1) : r[i] = q[i + 1]
  OBVIOUS
<1>2. \A i, j \in 1 .. n : q[i] = q[j] => i = j
  BY DEF NoDup
<1> HIDE DEF n, r
<1>3. (r = <<>> <=> n = 1) /\ (q[n] = q[1] <=> n = 1)
  BY <1>1, <1>2
<1>4. r # <<>> => r[n - 1] = q[n]
  <2>1. r # <<>> => n - 1 \in 1 .. (n - 1) /\ (n - 1) + 1 = n
    BY <1>1, <1>3
  <2> QED BY <1>1, <2>1
<1> QED BY <1>1, <1>3, <1>4 DEF n, r

\* The first cell of the queue is taken.
LEMMA TakeFirst ==
    ASSUME NEW next, NEW head, NEW tail, NEW free, NEW q, NEW p, NEW H,
           QLists(next, head, tail, free, q, p, H), q # <<>>
    PROVE  /\ head \in Cell /\ head \notin H /\ head \notin Members(p)
           /\ head = Head(q) /\ Len(Tail(q)) = Len(q) - 1
           /\ QLists(next, next[head], IF tail = head THEN Null ELSE tail, free,
                     Tail(q), p, H \cup {head})
<1>0. q \in Seq(Cell)
  BY QListsFacts
<1>1. q \in Seq(Cell) /\ tail = q[Len(q)]
  BY <1>0 DEF QLists
<1>2. /\ IsPath(next, Cell, free, p) /\ IsPath(next, Cell, head, q)
      /\ NoDup(p) /\ NoDup(q)
  BY DEF QLists
<1>3. /\ head \in Cell /\ head = Head(q) /\ Len(Tail(q)) = Len(q) - 1
      /\ IsPath(next, Cell, next[head], Tail(q))
  BY <1>1, <1>2, PathTail
<1>4. /\ head \in Members(q) /\ NoDup(Tail(q))
      /\ Members(Tail(q)) = Members(q) \ {head} /\ next[head] \in Cell \cup {Null}
  BY <1>1, <1>2, <1>3, MembersTail DEF QLists
<1>5. (IF tail = head THEN Null ELSE tail)
         = IF Tail(q) = <<>> THEN Null ELSE Tail(q)[Len(Tail(q))]
  BY <1>1, <1>2, <1>3, TailLast
<1>6. H \cup {head} \subseteq Cell /\ Members(Tail(q)) \cap Members(p) = {}
      /\ (H \cup {head}) \cap Members(Tail(q)) = {} /\ (H \cup {head}) \cap Members(p) = {}
  BY <1>3, <1>4 DEF QLists
<1> QED BY <1>2, <1>3, <1>4, <1>5, <1>6 DEF QLists

\* The links n2 are next with c after the tail.
LinksLast(n2, next, tail, c) ==
    /\ n2 \in [Cell -> Cell \cup {Null}] /\ n2[c] = Null
    /\ tail # Null => n2[tail] = c
    /\ \A x \in Cell : x # c /\ x # tail => n2[x] = next[x]

\* A cell in a caller's hands is linked to the end of the queue.
LEMMA AddLast ==
    ASSUME NEW next, NEW head, NEW tail, NEW free, NEW q, NEW p, NEW H,
           QLists(next, head, tail, free, q, p, H), NEW c \in H,
           NEW n2, LinksLast(n2, next, tail, c)
    PROVE  QLists(n2, IF head = Null THEN c ELSE head, c, free, Append(q, c), p, H \ {c})
<1>0. /\ q \in Seq(Cell) /\ p \in Seq(Cell) /\ Len(q) \in Nat /\ DOMAIN next = Cell
      /\ Members(q) \subseteq Cell /\ Members(p) \subseteq Cell
      /\ (q = <<>> <=> head = Null) /\ (q = <<>> <=> tail = Null)
      /\ tail \in Cell \cup {Null}
  BY QListsFacts
<1>1. /\ IsPath(next, Cell, free, p) /\ IsPath(next, Cell, head, q)
      /\ NoDup(p) /\ NoDup(q) /\ next \in [Cell -> Cell \cup {Null}]
      /\ c \in Cell /\ c \notin Members(q) /\ c \notin Members(p)
      /\ (q # <<>> => tail = q[Len(q)])
      /\ H \subseteq Cell /\ Members(q) \cap Members(p) = {} /\ Null \notin Cell
      /\ H \cap Members(q) = {} /\ H \cap Members(p) = {}
      /\ free \in Cell \cup {Null} /\ head \in Cell \cup {Null}
  BY NullIsNoCell DEF QLists
<1>2. q # <<>> => tail \in Members(q) /\ tail # c
  BY <1>0, <1>1 DEF Members
<1>3. /\ DOMAIN n2 = Cell /\ n2 \in [Cell -> Cell \cup {Null}] /\ n2[c] = Null
      /\ tail # Null => n2[tail] = c
      /\ \A x \in Cell : x # c /\ x # tail => n2[x] = next[x]
  BY DEF LinksLast
<1>4. /\ Append(q, c) \in Seq(Cell) /\ NoDup(Append(q, c))
      /\ Members(Append(q, c)) = Members(q) \cup {c} /\ Append(q, c) # <<>>
      /\ Append(q, c)[Len(Append(q, c))] = c
  <2>1. /\ Append(q, c) \in Seq(Cell) /\ NoDup(Append(q, c))
        /\ Members(Append(q, c)) = Members(q) \cup {c}
    BY <1>0, <1>1, MembersAppend
  <2>2. /\ Len(Append(q, c)) = Len(q) + 1 /\ Append(q, c)[Len(q) + 1] = c
    BY <1>0, <1>1
  <2>3. Append(q, c) # <<>>
    BY <1>0, <2>2
  <2> QED BY <2>1, <2>2, <2>3
<1>5. IsPath(n2, Cell, free, p)
  <2>1. \A x \in Members(p) : n2[x] = next[x]
    BY <1>0, <1>1, <1>2, <1>3, NullIsNoCell
  <2> QED BY <1>1, <1>3, <2>1, PathKept
<1>6. IsPath(n2, Cell, IF head = Null THEN c ELSE head, Append(q, c))
  <2>1. CASE q = <<>>
    <3>1. head = Null /\ Append(q, c) = <<c>>
      BY <1>0, <2>1
    <3>2. IsPath(n2, Cell, c, <<c>>)
      BY <1>1, <1>3 DEF IsPath
    <3> QED BY <3>1, <3>2
  <2>2. CASE q # <<>>
    <3>1. n2[c] \notin Cell /\ n2[q[Len(q)]] = c /\ head # Null
      BY <1>0, <1>1, <1>3, <2>2
    <3>2. \A x \in Members(q) : x # q[Len(q)] => n2[x] = next[x]
      BY <1>0, <1>1, <1>3, <2>2
    <3>3. IsPath(n2, Cell, head, Append(q, c))
      BY <1>1, <1>3, <2>2, <3>1, <3>2, PathAppend
    <3> QED BY <3>1, <3>3
  <2> QED BY <2>1, <2>2
<1>7. /\ H \ {c} \subseteq Cell /\ Members(Append(q, c)) \cap Members(p) = {}
      /\ (H \ {c}) \cap Members(Append(q, c)) = {} /\ (H \ {c}) \cap Members(p) = {}
  BY <1>1, <1>4
<1> QED BY <1>1, <1>3, <1>4, <1>5, <1>6, <1>7 DEF QLists

\* It is linked to the front of the queue.
LEMMA AddFirst ==
    ASSUME NEW next, NEW head, NEW tail, NEW free, NEW q, NEW p, NEW H,
           QLists(next, head, tail, free, q, p, H), NEW c \in H
    PROVE  QLists([next EXCEPT ![c] = head], c, IF tail = Null THEN c ELSE tail, free,
                  <<c>> \o q, p, H \ {c})
<1> DEFINE n2 == [next EXCEPT ![c] = head]
           r == <<c>> \o q
<1>0. /\ q \in Seq(Cell) /\ p \in Seq(Cell) /\ Len(q) \in Nat /\ DOMAIN next = Cell
      /\ Members(q) \subseteq Cell /\ Members(p) \subseteq Cell
      /\ (q = <<>> <=> tail = Null)
  BY QListsFacts
<1>1. /\ IsPath(next, Cell, free, p) /\ IsPath(next, Cell, head, q)
      /\ NoDup(p) /\ NoDup(q) /\ next \in [Cell -> Cell \cup {Null}]
      /\ c \in Cell /\ c \notin Members(q) /\ c \notin Members(p)
      /\ (q # <<>> => tail = q[Len(q)])
      /\ H \subseteq Cell /\ Members(q) \cap Members(p) = {}
      /\ H \cap Members(q) = {} /\ H \cap Members(p) = {}
      /\ free \in Cell \cup {Null} /\ head \in Cell \cup {Null}
  BY DEF QLists
<1>2. /\ DOMAIN n2 = Cell /\ n2 \in [Cell -> Cell \cup {Null}] /\ n2[c] = head
      /\ \A x \in Cell : x # c => n2[x] = next[x]
  BY <1>1
<1>3. /\ r \in Seq(Cell) /\ NoDup(r) /\ Members(r) = Members(q) \cup {c} /\ r # <<>>
  BY <1>0, <1>1, MembersPush
<1>4. r[Len(r)] = IF tail = Null THEN c ELSE tail
  <2>1. Len(r) = Len(q) + 1 /\ r[1] = c /\ \A i \in 1 .. Len(q) : r[i + 1] = q[i]
    BY <1>0
  <2>2. q # <<>> => Len(q) \in 1 .. Len(q)
    BY <1>0
  <2>3. CASE q = <<>>
    BY <1>0, <2>1, <2>3
  <2>4. CASE q # <<>>
    <3>1. r[Len(q) + 1] = q[Len(q)]
      BY <2>1, <2>2, <2>4
    <3> QED BY <1>0, <1>1, <2>1, <2>4, <3>1
  <2> QED BY <2>3, <2>4
<1> HIDE DEF n2
<1>5. IsPath(n2, Cell, free, p) /\ IsPath(n2, Cell, c, r)
  <2>1. /\ \A x \in Members(p) : n2[x] = next[x]
        /\ \A x \in Members(q) : n2[x] = next[x]
    BY <1>0, <1>1, <1>2
  <2> QED BY <1>1, <1>2, <2>1, PathKept, PathPush
<1> HIDE DEF r
<1>6. /\ H \ {c} \subseteq Cell /\ Members(r) \cap Members(p) = {}
      /\ (H \ {c}) \cap Members(r) = {} /\ (H \ {c}) \cap Members(p) = {}
  BY <1>1, <1>3
<1>7. QLists(n2, c, IF tail = Null THEN c ELSE tail, free, r, p, H \ {c})
  BY <1>1, <1>2, <1>3, <1>4, <1>5, <1>6 DEF QLists
<1> QED BY <1>7 DEF n2, r

\* It is pushed on the free list.
LEMMA GiveBack ==
    ASSUME NEW next, NEW head, NEW tail, NEW free, NEW q, NEW p, NEW H,
           QLists(next, head, tail, free, q, p, H), NEW c \in H
    PROVE  /\ QLists([next EXCEPT ![c] = free], head, tail, c, q, <<c>> \o p, H \ {c})
           /\ Len(<<c>> \o p) = Len(p) + 1
<1> DEFINE n2 == [next EXCEPT ![c] = free]
           r == <<c>> \o p
<1>0. /\ q \in Seq(Cell) /\ p \in Seq(Cell) /\ Len(q) \in Nat /\ DOMAIN next = Cell
      /\ Members(q) \subseteq Cell /\ Members(p) \subseteq Cell
  BY QListsFacts
<1>1. /\ IsPath(next, Cell, free, p) /\ IsPath(next, Cell, head, q)
      /\ NoDup(p) /\ NoDup(q) /\ next \in [Cell -> Cell \cup {Null}]
      /\ c \in Cell /\ c \notin Members(q) /\ c \notin Members(p)
      /\ tail = IF q = <<>> THEN Null ELSE q[Len(q)]
      /\ H \subseteq Cell /\ Members(q) \cap Members(p) = {}
      /\ H \cap Members(q) = {} /\ H \cap Members(p) = {}
      /\ free \in Cell \cup {Null} /\ head \in Cell \cup {Null}
  BY DEF QLists
<1>2. /\ DOMAIN n2 = Cell /\ n2 \in [Cell -> Cell \cup {Null}] /\ n2[c] = free
      /\ \A x \in Cell : x # c => n2[x] = next[x]
  BY <1>1
<1>3. /\ r \in Seq(Cell) /\ NoDup(r) /\ Members(r) = Members(p) \cup {c}
      /\ Len(r) = Len(p) + 1
  BY <1>0, <1>1, MembersPush
<1> HIDE DEF n2
<1>5. IsPath(n2, Cell, head, q) /\ IsPath(n2, Cell, c, r)
  <2>1. /\ \A x \in Members(p) : n2[x] = next[x]
        /\ \A x \in Members(q) : n2[x] = next[x]
    BY <1>0, <1>1, <1>2
  <2> QED BY <1>1, <1>2, <2>1, PathKept, PathPush
<1> HIDE DEF r
<1>6. /\ H \ {c} \subseteq Cell /\ Members(q) \cap Members(r) = {}
      /\ (H \ {c}) \cap Members(r) = {} /\ (H \ {c}) \cap Members(q) = {}
  BY <1>1, <1>3
<1>7. QLists(n2, head, tail, c, q, r, H \ {c})
  BY <1>1, <1>2, <1>3, <1>5, <1>6 DEF QLists
<1> QED BY <1>3, <1>7 DEF n2, r

-----------------------------------------------------------------------------
(* The operators of the message queue *)

QFields == {"kind", "next", "data", "msg_queue_head", "msg_queue_tail",
            "msg_queue_free", "entry"}

\* o is a queue of the cells q, with free cells p, while callers hold H.
QOk(o, q, p, H) ==
    /\ QFields \subseteq DOMAIN o
    /\ QLists(o.next, o.msg_queue_head, o.msg_queue_tail, o.msg_queue_free, q, p, H)
    /\ o.data \in [Cell -> Message \cup {Nothing}]
    /\ \A x \in Members(q) : o.data[x] \in Message

\* The cells that are somewhere.
Somewhere(q, p, H) == Members(q) \cup Members(p) \cup H

\* A cell may be forgotten.
LEMMA HeldLess ==
    ASSUME NEW o, NEW q, NEW p, NEW H, QOk(o, q, p, H), NEW G \in SUBSET H
    PROVE  QOk(o, q, p, G)
BY DEF QOk, QLists

\* A sender takes a free cell.
LEMMA AllottedOk ==
    ASSUME NEW o, NEW q, NEW p, NEW H, QOk(o, q, p, H), o.msg_queue_free # Null
    PROVE  /\ QOk(Allotted(o), q, Tail(p), H \cup {o.msg_queue_free})
           /\ Allotted(o).entry = o.entry /\ Allotted(o).data = o.data
           /\ o.msg_queue_free \in Cell \ H /\ o.msg_queue_free \notin Members(q)
           /\ Len(Tail(p)) = Len(p) - 1
           /\ Somewhere(q, Tail(p), H \cup {o.msg_queue_free}) = Somewhere(q, p, H)
<1> DEFINE n == Allotted(o)
           f == o.msg_queue_free
           next == o.next
           head == o.msg_queue_head
           tail == o.msg_queue_tail
<1>1. /\ DOMAIN n = DOMAIN o /\ n.entry = o.entry /\ n.data = o.data /\ n.next = next
      /\ n.msg_queue_head = head /\ n.msg_queue_tail = tail /\ n.msg_queue_free = next[f]
  BY DEF QOk, QFields, Allotted
<1>2. QLists(next, head, tail, f, q, p, H) /\ f # Null
  BY DEF QOk
<1> HIDE DEF n, f, next, head, tail
<1>3. /\ p # <<>> /\ f \in Cell /\ f \notin H /\ f \notin Members(q)
      /\ f = Head(p) /\ Len(Tail(p)) = Len(p) - 1
      /\ QLists(next, head, tail, next[f], q, Tail(p), H \cup {f})
  BY <1>2, TakeFree
<1>4. Members(Tail(p)) = Members(p) \ {f} /\ f \in Members(p)
  <2>1. p \in Seq(Cell) /\ NoDup(p)
    BY <1>2 DEF QLists, IsPath
  <2> QED BY <1>3, <2>1, MembersTail
<1>5. QOk(n, q, Tail(p), H \cup {f})
  BY <1>1, <1>3 DEF QOk
<1>6. Somewhere(q, Tail(p), H \cup {f}) = Somewhere(q, p, H)
  BY <1>4 DEF Somewhere
<1> QED BY <1>1, <1>3, <1>5, <1>6 DEF n, f

\* A receiver, or the reset, takes the first cell of the queue.
LEMMA UnlinkedOk ==
    ASSUME NEW o, NEW q, NEW p, NEW H, QOk(o, q, p, H), q # <<>>
    PROVE  /\ QOk(Unlinked(o), Tail(q), p, H \cup {o.msg_queue_head})
           /\ Unlinked(o).entry = o.entry /\ Unlinked(o).data = o.data
           /\ o.msg_queue_head \in Cell \ H /\ o.msg_queue_head = Head(q)
           /\ o.msg_queue_head \in Members(q) /\ Len(Tail(q)) = Len(q) - 1
           /\ Somewhere(Tail(q), p, H \cup {o.msg_queue_head}) = Somewhere(q, p, H)
<1> DEFINE n == Unlinked(o)
           f == o.msg_queue_free
           next == o.next
           head == o.msg_queue_head
           tail == o.msg_queue_tail
<1>1. /\ DOMAIN n = DOMAIN o /\ n.entry = o.entry /\ n.data = o.data /\ n.next = next
      /\ n.msg_queue_head = next[head] /\ n.msg_queue_free = f
      /\ n.msg_queue_tail = IF tail = head THEN Null ELSE tail
  BY DEF QOk, QFields, Unlinked
<1>2. QLists(next, head, tail, f, q, p, H)
  BY DEF QOk
<1> HIDE DEF n, f, next, head, tail
<1>3. /\ head \in Cell /\ head \notin H /\ head \notin Members(p)
      /\ head = Head(q) /\ Len(Tail(q)) = Len(q) - 1
      /\ QLists(next, next[head], IF tail = head THEN Null ELSE tail, f,
                Tail(q), p, H \cup {head})
  BY <1>2, TakeFirst
<1>4. Members(Tail(q)) = Members(q) \ {head} /\ head \in Members(q)
  <2>1. q \in Seq(Cell) /\ NoDup(q)
    BY <1>2 DEF QLists, IsPath
  <2> QED BY <1>3, <2>1, MembersTail
<1>5. QOk(n, Tail(q), p, H \cup {head})
  BY <1>1, <1>3, <1>4 DEF QOk
<1>6. Somewhere(Tail(q), p, H \cup {head}) = Somewhere(q, p, H)
  BY <1>4 DEF Somewhere
<1> QED BY <1>1, <1>3, <1>4, <1>5, <1>6 DEF n, head

\* The first cell of the queue becomes a receiver's.
LEMMA TakenOk ==
    ASSUME NEW o, NEW q, NEW p, NEW H, QOk(o, q, p, H), q # <<>>
    PROVE  LET n == [Unlinked(o) EXCEPT !.entry = @ - 1]
           IN  /\ QOk(n, Tail(q), p, H \cup {o.msg_queue_head})
               /\ n.entry = o.entry - 1 /\ n.data = o.data
<1> DEFINE u == Unlinked(o)
           n == [u EXCEPT !.entry = @ - 1]
<1>1. /\ QOk(u, Tail(q), p, H \cup {o.msg_queue_head})
      /\ u.entry = o.entry /\ u.data = o.data
  BY UnlinkedOk
<1> HIDE DEF u
<1>2. /\ DOMAIN n = DOMAIN u /\ n.entry = u.entry - 1 /\ n.data = u.data
      /\ n.next = u.next /\ n.msg_queue_head = u.msg_queue_head
      /\ n.msg_queue_tail = u.msg_queue_tail /\ n.msg_queue_free = u.msg_queue_free
  BY <1>1 DEF QOk, QFields
<1> HIDE DEF n
<1>3. QOk(n, Tail(q), p, H \cup {o.msg_queue_head})
  BY <1>1, <1>2 DEF QOk
<1> QED BY <1>1, <1>2, <1>3 DEF n, u

\* There is room in the count for one more cell.
LEMMA CountFits ==
    ASSUME NEW q \in Seq(Cell), NEW c \in Cell, NoDup(q), c \notin Members(q)
    PROVE  Len(q) \in Nat /\ Len(q) < Capacity /\ Len(q) < EntryMax
<1>1. Append(q, c) \in Seq(Cell) /\ NoDup(Append(q, c))
  BY MembersAppend
<1>2. Len(Append(q, c)) \in 0 .. Capacity
  BY <1>1, NoDupLength, CapacityAssumption DEF Cell
<1>3. Len(Append(q, c)) = Len(q) + 1 /\ Len(q) \in Nat
  OBVIOUS
<1> QED BY <1>2, <1>3, CapacityAssumption

\* entry is the number of cells of the queue.
Counts(o, q) == o.entry = Len(q)

\* The message m is copied into cell c.
Written(data, c, m) == [data EXCEPT ![c] = m]

\* A sender links its cell to the end of the queue, or to its front.
LEMMA LinkedOk ==
    ASSUME NEW o, NEW q, NEW p, NEW H, QOk(o, q, p, H), Counts(o, q),
           NEW c \in H, NEW m \in Message
    PROVE  /\ QOk(Linked(o, c, m), Append(q, c), p, H \ {c})
           /\ Linked(o, c, m).entry = o.entry + 1 /\ Len(q) < Capacity
           /\ Linked(o, c, m).data = Written(o.data, c, m)
           /\ Somewhere(Append(q, c), p, H \ {c}) = Somewhere(q, p, H)
<1> DEFINE n == Linked(o, c, m)
           f == o.msg_queue_free
           next == o.next
           head == o.msg_queue_head
           tail == o.msg_queue_tail
           n1 == [next EXCEPT ![c] = Null]
           n2 == IF tail # Null THEN [n1 EXCEPT ![tail] = c] ELSE n1
           d == [o.data EXCEPT ![c] = m]
<1>1. /\ QLists(next, head, tail, f, q, p, H) /\ o.data \in [Cell -> Message \cup {Nothing}]
      /\ \A x \in Members(q) : o.data[x] \in Message
  BY DEF QOk
<1>2. /\ q \in Seq(Cell) /\ NoDup(q) /\ c \in Cell /\ c \notin Members(q)
      /\ next \in [Cell -> Cell \cup {Null}] /\ (q = <<>> <=> tail = Null)
      /\ (q # <<>> => tail = q[Len(q)])
  <2>1. q \in Seq(Cell) /\ (q = <<>> <=> tail = Null)
    BY <1>1, QListsFacts
  <2> QED BY <1>1, <2>1 DEF QLists
<1>3. Len(q) \in Nat /\ Len(q) < Capacity /\ Len(q) < EntryMax
  BY <1>2, CountFits
<1>4. /\ DOMAIN n = DOMAIN o /\ n.entry = o.entry + 1 /\ n.data = d /\ n.next = n2
      /\ n.msg_queue_head = (IF head = Null THEN c ELSE head)
      /\ n.msg_queue_tail = c /\ n.msg_queue_free = f
  BY <1>3 DEF QOk, QFields, Linked, Counted, Counts
<1>5. tail # Null => tail \in Cell /\ tail # c
  BY <1>2 DEF Members
<1>6. LinksLast(n2, next, tail, c)
  BY <1>2, <1>5 DEF LinksLast
<1>7. /\ d \in [Cell -> Message \cup {Nothing}]
      /\ \A x \in Members(q) \cup {c} : d[x] \in Message
  <2>1. Members(q) \subseteq Cell
    BY <1>2, MembersEmpty
  <2> QED BY <1>1, <1>2, <2>1
<1> HIDE DEF n, f, next, head, tail, n1, n2, d
<1>8. QLists(n2, IF head = Null THEN c ELSE head, c, f, Append(q, c), p, H \ {c})
  BY <1>1, <1>6, AddLast
<1>9. Members(Append(q, c)) = Members(q) \cup {c}
  BY <1>2, MembersAppend
<1>10. QOk(n, Append(q, c), p, H \ {c})
  BY <1>4, <1>7, <1>8, <1>9 DEF QOk
<1>11. Somewhere(Append(q, c), p, H \ {c}) = Somewhere(q, p, H)
  BY <1>9 DEF Somewhere
<1> QED BY <1>3, <1>4, <1>10, <1>11 DEF n, d, Written

\* rt_mq_urgent links the cell before the first one.
LEMMA LinkedFirstOk ==
    ASSUME NEW o, NEW q, NEW p, NEW H, QOk(o, q, p, H), Counts(o, q),
           NEW c \in H, NEW m \in Message
    PROVE  /\ QOk(LinkedFirst(o, c, m), <<c>> \o q, p, H \ {c})
           /\ LinkedFirst(o, c, m).entry = o.entry + 1 /\ Len(q) < Capacity
           /\ LinkedFirst(o, c, m).data = Written(o.data, c, m)
           /\ Somewhere(<<c>> \o q, p, H \ {c}) = Somewhere(q, p, H)
<1> DEFINE n == LinkedFirst(o, c, m)
           f == o.msg_queue_free
           next == o.next
           head == o.msg_queue_head
           tail == o.msg_queue_tail
           n2 == [next EXCEPT ![c] = head]
           d == [o.data EXCEPT ![c] = m]
<1>1. /\ QLists(next, head, tail, f, q, p, H) /\ o.data \in [Cell -> Message \cup {Nothing}]
      /\ \A x \in Members(q) : o.data[x] \in Message
  BY DEF QOk
<1>2. q \in Seq(Cell) /\ NoDup(q) /\ c \in Cell /\ c \notin Members(q)
  <2>1. q \in Seq(Cell)
    BY <1>1, QListsFacts
  <2> QED BY <1>1, <2>1 DEF QLists
<1>3. Len(q) \in Nat /\ Len(q) < Capacity /\ Len(q) < EntryMax
  BY <1>2, CountFits
<1>4. /\ DOMAIN n = DOMAIN o /\ n.entry = o.entry + 1 /\ n.data = d /\ n.next = n2
      /\ n.msg_queue_head = c /\ n.msg_queue_free = f
      /\ n.msg_queue_tail = (IF tail = Null THEN c ELSE tail)
  BY <1>3 DEF QOk, QFields, LinkedFirst, Counted, Counts
<1>7. /\ d \in [Cell -> Message \cup {Nothing}]
      /\ \A x \in Members(q) \cup {c} : d[x] \in Message
  <2>1. Members(q) \subseteq Cell
    BY <1>2, MembersEmpty
  <2> QED BY <1>1, <1>2, <2>1
<1>8. QLists(n2, c, IF tail = Null THEN c ELSE tail, f, <<c>> \o q, p, H \ {c})
  <2> HIDE DEF f, next, head, tail, d, n
  <2> QED BY <1>1, AddFirst
<1> HIDE DEF n, f, next, head, tail, n2, d
<1>9. Members(<<c>> \o q) = Members(q) \cup {c}
  BY <1>2, MembersPush
<1>10. QOk(n, <<c>> \o q, p, H \ {c})
  BY <1>4, <1>7, <1>8, <1>9 DEF QOk
<1>11. Somewhere(<<c>> \o q, p, H \ {c}) = Somewhere(q, p, H)
  BY <1>9 DEF Somewhere
<1> QED BY <1>3, <1>4, <1>10, <1>11 DEF n, d, Written

\* A receiver, or the reset, pushes its cell on the free list.
LEMMA FreedOk ==
    ASSUME NEW o, NEW q, NEW p, NEW H, QOk(o, q, p, H), NEW c \in H
    PROVE  /\ QOk(Freed(o, c), q, <<c>> \o p, H \ {c})
           /\ Freed(o, c).entry = o.entry /\ Freed(o, c).data = o.data
           /\ Len(<<c>> \o p) = Len(p) + 1
           /\ Somewhere(q, <<c>> \o p, H \ {c}) = Somewhere(q, p, H)
<1> DEFINE n == Freed(o, c)
           f == o.msg_queue_free
           next == o.next
           head == o.msg_queue_head
           tail == o.msg_queue_tail
           n2 == [next EXCEPT ![c] = f]
<1>1. QLists(next, head, tail, f, q, p, H)
  BY DEF QOk
<1>2. p \in Seq(Cell) /\ c \in Cell
  <2>1. p \in Seq(Cell)
    BY <1>1, QListsFacts
  <2> QED BY <1>1, <2>1 DEF QLists
<1>4. /\ DOMAIN n = DOMAIN o /\ n.entry = o.entry /\ n.data = o.data /\ n.next = n2
      /\ n.msg_queue_head = head /\ n.msg_queue_free = c /\ n.msg_queue_tail = tail
  BY DEF QOk, QFields, Freed
<1>8. QLists(n2, head, tail, c, q, <<c>> \o p, H \ {c}) /\ Len(<<c>> \o p) = Len(p) + 1
  <2> HIDE DEF f, next, head, tail, n
  <2> QED BY <1>1, GiveBack
<1> HIDE DEF n, f, next, head, tail, n2
<1>9. Members(<<c>> \o p) = Members(p) \cup {c}
  BY <1>2, MembersPush
<1>10. QOk(n, q, <<c>> \o p, H \ {c})
  BY <1>4, <1>8 DEF QOk
<1>11. Somewhere(q, <<c>> \o p, H \ {c}) = Somewhere(q, p, H)
  BY <1>9 DEF Somewhere
<1> QED BY <1>4, <1>8, <1>10, <1>11 DEF n

\* One round of the reset moves the first cell to the free list.
LEMMA DrainedOk ==
    ASSUME NEW o, NEW q, NEW p, NEW H, QOk(o, q, p, H), NEW c, q # <<>>, c = Head(q)
    PROVE  /\ QOk(Drained(o, c), Tail(q), <<c>> \o p, H)
           /\ Drained(o, c).data = o.data
           /\ Somewhere(Tail(q), <<c>> \o p, H) = Somewhere(q, p, H)
<1> DEFINE u == Unlinked(o)
           r == Tail(q)
           G == H \cup {c}
<1>0. o.msg_queue_head = c
  BY UnlinkedOk
<1>1. /\ QOk(u, r, p, G) /\ u.data = o.data /\ c \notin H
      /\ Somewhere(r, p, G) = Somewhere(q, p, H)
  BY <1>0, UnlinkedOk
<1>2. c \in G /\ G \ {c} = H
  BY <1>1
<1> HIDE DEF u, r, G
<1>3. /\ QOk(Freed(u, c), r, <<c>> \o p, G \ {c}) /\ Freed(u, c).data = u.data
      /\ Somewhere(r, <<c>> \o p, G \ {c}) = Somewhere(r, p, G)
  BY <1>1, <1>2, FreedOk
<1> QED BY <1>1, <1>2, <1>3 DEF Drained, u, r

\* The reset moves all of them.
LEMMA AllDrainedOk ==
    ASSUME NEW o, NEW q, NEW p, NEW H, QOk(o, q, p, H)
    PROVE  /\ \E r : /\ QOk(AllDrained(o, q), <<>>, r, H)
                     /\ Somewhere(<<>>, r, H) = Somewhere(q, p, H)
           /\ AllDrained(o, q).data = o.data
<1> DEFINE N == Len(q)
<1>0. q \in Seq(Cell) /\ N \in Nat
  <2>1. q \in Seq(Cell)
    BY QListsFacts DEF QOk
  <2> QED BY <2>1
<1>1. PICK g : /\ AllDrained(o, q) = g[N] /\ g[0] = o
               /\ \A i \in 1 .. N : g[i] = Drained(g[i - 1], q[i])
  BY <1>0, AllDrainedIs
<1> DEFINE P(i) == /\ g[i].data = o.data
                   /\ \E s, r : /\ QOk(g[i], s, r, H)
                                /\ Somewhere(s, r, H) = Somewhere(q, p, H)
                                /\ Len(s) = N - i
                                /\ \A j \in 1 .. (N - i) : s[j] = q[i + j]
           Bad == {i \in 0 .. N : ~ P(i)}
<1>2. P(0)
  BY <1>0, <1>1
<1>3. ASSUME NEW m \in 1 .. N, P(m - 1) PROVE P(m)
  <2>1. PICK s, r : /\ QOk(g[m - 1], s, r, H)
                    /\ Somewhere(s, r, H) = Somewhere(q, p, H)
                    /\ Len(s) = N - (m - 1)
                    /\ \A j \in 1 .. (N - (m - 1)) : s[j] = q[(m - 1) + j]
    BY <1>3
  <2> DEFINE c == q[m]
             v == g[m - 1]
  <2>2. s \in Seq(Cell)
    BY <2>1, QListsFacts DEF QOk
  <2>3. s # <<>> /\ c = Head(s) /\ Len(Tail(s)) = N - m
        /\ \A j \in 1 .. (N - m) : Tail(s)[j] = q[m + j]
    <3>1. Len(s) >= 1 /\ s # <<>> /\ 1 \in 1 .. (N - (m - 1))
      BY <1>0, <2>1, <2>2
    <3>2. s[1] = q[(m - 1) + 1] /\ (m - 1) + 1 = m /\ Head(s) = s[1]
      BY <2>1, <2>2, <3>1
    <3>3. Len(Tail(s)) = N - m
      BY <1>0, <2>1, <2>2, <3>1
    <3>4. ASSUME NEW j \in 1 .. (N - m) PROVE Tail(s)[j] = q[m + j]
      <4>1. j + 1 \in 1 .. (N - (m - 1)) /\ (m - 1) + (j + 1) = m + j
        BY <1>0
      <4>2. s[j + 1] = q[m + j]
        BY <2>1, <4>1
      <4>3. Tail(s)[j] = s[j + 1]
        BY <1>0, <2>1, <2>2, <3>1
      <4> QED BY <4>2, <4>3
    <3> QED BY <3>1, <3>2, <3>3, <3>4
  <2>4. g[m] = Drained(v, c) /\ v.data = o.data /\ QOk(v, s, r, H)
    BY <1>1, <1>3, <2>1
  <2> HIDE DEF v, c
  <2>5. /\ QOk(g[m], Tail(s), <<c>> \o r, H) /\ g[m].data = o.data
        /\ Somewhere(Tail(s), <<c>> \o r, H) = Somewhere(s, r, H)
    BY <2>3, <2>4, DrainedOk
  <2> QED BY <2>1, <2>3, <2>5
<1>4. Bad = {}
  <2> SUFFICES ASSUME Bad # {} PROVE FALSE
    OBVIOUS
  <2>1. Bad \subseteq Nat
    OBVIOUS
  <2>2. PICK m : m \in Bad /\ \A j \in Bad : m <= j
    <3> HIDE DEF Bad
    <3> QED BY <2>1, MinIsLeast
  <2>3. m \in 0 .. N /\ ~ P(m)
    BY <2>2
  <2> HIDE DEF P
  <2>5. m - 1 \in 0 .. N /\ m \in 1 .. N
    BY <1>0, <1>2, <2>3
  <2>6. m - 1 \notin Bad
    <3> HIDE DEF Bad
    <3> QED BY <2>2, <2>5
  <2>7. P(m - 1)
    BY <2>5, <2>6
  <2> QED BY <1>3, <2>3, <2>5, <2>7
<1>5. P(N)
  <2> HIDE DEF P
  <2> QED BY <1>0, <1>4
<1>6. PICK s, r : /\ QOk(g[N], s, r, H) /\ Somewhere(s, r, H) = Somewhere(q, p, H)
                  /\ Len(s) = 0
  BY <1>0, <1>5
<1>7. s = <<>>
  <2>1. s \in Seq(Cell)
    BY <1>6, QListsFacts DEF QOk
  <2> QED BY <1>6, <2>1
<1> QED BY <1>1, <1>5, <1>6, <1>7

-----------------------------------------------------------------------------
(* The cells in the hands of callers *)

\* No thread is created on the memory of one that was deleted or has exited:
\* the cell that a deleted thread had in its hands is lost to the queue, and
\* the thread that is created in its place does not have it.
NotReplaced == "create" \notin Calls

Owned == {call[t].cell : t \in Carrying}

OwnedBut(u) == {call[t].cell : t \in Carrying \ {u}}

\* Each caller has its own cell, and it has one between its two critical
\* sections; the cell of a receiver is filled.
Holders ==
    /\ \A t, u \in Carrying : call[t].cell = call[u].cell => t = u
    /\ \A t \in Thread : pc[t] \in {"fill", "copy"} => t \in Carrying
    /\ ~ Quiet => Handler \in Carrying
    /\ \A t \in Carrying : call[t].op = "recv" => obj.data[call[t].cell] \in Message

\* A thread has a cell only there.
Carriers == \A t \in Carrying : t \in Thread => pc[t] \in {"fill", "copy"}

\* The cells of the queue are q and the free ones p.
QueueWith(q, p) ==
    /\ QOk(obj, q, p, Owned) /\ obj.entry = Len(q) /\ Holders
    /\ NotReplaced => Carriers /\ Somewhere(q, p, Owned) = Cell

QueueOk == IsQueue => \E q, p : QueueWith(q, p)

\* A caller gets a cell, and has none any more.
LEMMA OwnedEnters ==
    ASSUME DOMAIN call = Caller, NEW u \in Caller, NEW c, Enters(u, c), "cell" \in DOMAIN c
    PROVE  /\ Carrying' = Carrying \cup {u} /\ Owned' = OwnedBut(u) \cup {c.cell}
           /\ call'[u] = c /\ \A t \in Caller \ {u} : call'[t] = call[t]
<1>1. call'[u] = c /\ \A t \in Caller \ {u} : call'[t] = call[t]
  BY DEF Enters
<1>2. Carrying' = Carrying \cup {u} /\ Carrying \subseteq Caller
  BY <1>1 DEF Carrying, Caller
<1>3. Owned' = {call'[t].cell : t \in Carrying \cup {u}}
  BY <1>2 DEF Owned
<1>4. \A t \in Carrying \ {u} : call'[t] = call[t]
  BY <1>1, <1>2
<1>5. Owned' = OwnedBut(u) \cup {c.cell}
  BY <1>1, <1>3, <1>4 DEF OwnedBut
<1> QED BY <1>1, <1>2, <1>5

\* A caller that ends its call has no cell any more.
LEMMA OwnedLeaves ==
    ASSUME DOMAIN call = Caller, NEW u \in Caller, NEW c, Enters(u, c), "cell" \notin DOMAIN c
    PROVE  /\ Carrying' = Carrying \ {u} /\ Owned' = OwnedBut(u)
           /\ call'[u] = c /\ \A t \in Caller \ {u} : call'[t] = call[t]
<1>1. call'[u] = c /\ \A t \in Caller \ {u} : call'[t] = call[t]
  BY DEF Enters
<1>2. Carrying' = Carrying \ {u} /\ Carrying \subseteq Caller
  BY <1>1 DEF Carrying, Caller
<1>3. Owned' = {call'[t].cell : t \in Carrying \ {u}}
  BY <1>2 DEF Owned
<1>4. \A t \in Carrying \ {u} : call'[t] = call[t]
  BY <1>1, <1>2
<1>5. Owned' = OwnedBut(u)
  BY <1>3, <1>4 DEF OwnedBut
<1> QED BY <1>1, <1>2, <1>5

\* The cells of the other callers.
LEMMA OwnedOthers ==
    ASSUME NEW u
    PROVE  /\ OwnedBut(u) \subseteq Owned
           /\ u \notin Carrying => OwnedBut(u) = Owned
           /\ Holders /\ u \in Carrying =>
                 call[u].cell \in Owned /\ OwnedBut(u) = Owned \ {call[u].cell}
<1>1. OwnedBut(u) \subseteq Owned
  BY DEF OwnedBut, Owned
<1>2. u \notin Carrying => OwnedBut(u) = Owned
  <2>1. u \notin Carrying => Carrying \ {u} = Carrying
    OBVIOUS
  <2> QED BY <2>1 DEF OwnedBut, Owned
<1>3. ASSUME Holders, u \in Carrying
      PROVE  call[u].cell \in Owned /\ OwnedBut(u) = Owned \ {call[u].cell}
  <2>1. \A t \in Carrying \ {u} : call[t].cell # call[u].cell
    BY <1>3 DEF Holders
  <2> QED BY <1>3, <2>1 DEF OwnedBut, Owned
<1> QED BY <1>1, <1>2, <1>3

\* A caller that goes from one label to another: the labels of the others.
LEMMA TurnPc ==
    ASSUME Base, NEW t \in Caller, NEW L, NEW M, Turn(t, L, M)
    PROVE  /\ \A u \in Thread : u # t => pc'[u] = pc[u]
           /\ t \in Thread => pc[t] \in L /\ pc'[t] \in M
<1>1. pc \in [Thread -> EveryLabel] /\ k.current \in Thread
  BY DEF Base, IInv, Typed, KernelState
<1> QED BY <1>1, HandlerAssumption DEF Turn

\* The cells stay where they are.
LEMMA CellsStay ==
    ASSUME NEW q, NEW p, QueueWith(q, p), obj' = obj, call' = call,
           \A t \in Thread :
              /\ pc'[t] \in {"fill", "copy"} => pc[t] = pc'[t]
              /\ NotReplaced /\ pc[t] \in {"fill", "copy"} => pc'[t] = pc[t]
    PROVE  QueueWith(q, p)'
<1>1. Carrying' = Carrying /\ Owned' = Owned /\ Quiet' = Quiet
  BY DEF Carrying, Owned, Quiet
<1>2. Holders'
  BY <1>1 DEF Holders, QueueWith
<1>3. NotReplaced /\ Carriers => Carriers'
  BY <1>1 DEF Carriers
<1> QED BY <1>1, <1>2, <1>3 DEF QueueWith

\* A call without a cell begins to wait, or ends.
LEMMA CellsKept ==
    ASSUME Base, NEW q, NEW p, QueueWith(q, p), obj' = obj, NEW c, Mine(c),
           "cell" \notin DOMAIN c, NEW l, pc' = [pc EXCEPT ![k.current] = l],
           l \in {"run", "block"}, k.current \in Thread, pc[k.current] \in {"run", "woken"}
    PROVE  QueueWith(q, p)'
<1> DEFINE u == k.current
           G == OwnedBut(u)
<1>1. /\ DOMAIN call = Caller /\ pc \in [Thread -> EveryLabel]
      /\ u \in Caller /\ u # Handler /\ Enters(u, c)
  BY HandlerAssumption DEF Base, IInv, Typed, Caller, Mine, Enters
<1>2. /\ Carrying' = Carrying \ {u} /\ Owned' = G /\ G \subseteq Owned
      /\ \A t \in Caller \ {u} : call'[t] = call[t]
      /\ u \notin Carrying => G = Owned
  BY <1>1, OwnedLeaves, OwnedOthers
<1>3. \A t \in Thread : pc'[t] = IF t = u THEN l ELSE pc[t]
  BY <1>1
<1>4. QOk(obj', q, p, Owned') /\ obj'.entry = Len(q)
  <2> HIDE DEF G
  <2>1. QOk(obj, q, p, Owned) /\ G \in SUBSET Owned
    BY <1>2 DEF QueueWith
  <2>2. QOk(obj, q, p, G)
    BY <2>1, HeldLess
  <2> QED BY <1>2, <2>2 DEF QueueWith
<1>5. Holders'
  <2>1. Carrying \subseteq Caller /\ Handler \in Caller /\ Thread \subseteq Caller
    BY DEF Carrying, Caller
  <2>2. /\ \A t \in Carrying' : t \in Carrying /\ call'[t] = call[t]
        /\ \A t \in Thread : pc'[t] \in {"fill", "copy"} => t # u /\ pc'[t] = pc[t]
        /\ Quiet' = Quiet
    BY <1>1, <1>2, <1>3, <2>1 DEF Quiet
  <2> QED BY <1>1, <1>2, <2>2 DEF Holders, QueueWith
<1>6. ASSUME NotReplaced PROVE Carriers' /\ Somewhere(q, p, Owned') = Cell
  <2>1. Carriers /\ Somewhere(q, p, Owned) = Cell
    BY <1>6 DEF QueueWith
  <2>2. u \notin Carrying
    BY <2>1 DEF Carriers
  <2> QED BY <1>2, <1>3, <2>1, <2>2 DEF Carriers
<1> QED BY <1>4, <1>5, <1>6 DEF QueueWith

\* A sender takes a cell.
LEMMA CellsAllot ==
    ASSUME Base, NEW q, NEW p, QueueWith(q, p), NEW u \in Caller, NEW c, MqAllots(u, c)
    PROVE  QueueWith(q, Tail(p))' /\ obj'.data = obj.data
<1> DEFINE G == OwnedBut(u)
           x == obj.msg_queue_free
<1>1. /\ Enters(u, c) /\ "cell" \in DOMAIN c /\ c.cell = x /\ x # Null
      /\ obj' = Allotted(obj) /\ c.op # "recv"
      /\ Turn(u, {"run", "woken"}, {"fill"}) /\ DOMAIN call = Caller
  BY DEF MqAllots, Base
<1>2. /\ Carrying' = Carrying \cup {u} /\ Owned' = G \cup {x} /\ G \subseteq Owned
      /\ call'[u] = c /\ \A t \in Caller \ {u} : call'[t] = call[t]
      /\ u \notin Carrying => G = Owned
  BY <1>1, OwnedEnters, OwnedOthers
<1>3. /\ \A t \in Thread : t # u => pc'[t] = pc[t]
      /\ u \in Thread => pc[u] \notin {"fill", "copy"} /\ pc'[u] \in {"fill", "copy"}
  BY <1>1, TurnPc
<1>4. QOk(obj, q, p, G)
  <2> HIDE DEF G
  <2>1. QOk(obj, q, p, Owned) /\ G \in SUBSET Owned
    BY <1>2 DEF QueueWith
  <2> QED BY <2>1, HeldLess
<1>5. /\ QOk(obj', q, Tail(p), G \cup {x}) /\ obj'.entry = obj.entry
      /\ obj'.data = obj.data
  <2> HIDE DEF G
  <2> QED BY <1>1, <1>4, AllottedOk
<1>6. /\ x \notin Owned /\ x \in Cell
      /\ Somewhere(q, Tail(p), Owned \cup {x}) = Somewhere(q, p, Owned)
  <2>1. QOk(obj, q, p, Owned)
    BY DEF QueueWith
  <2> QED BY <1>1, <2>1, AllottedOk
<1> HIDE DEF G, x
<1>7. Holders'
  <2>1. /\ Carrying \subseteq Caller /\ Handler \in Caller /\ Thread \subseteq Caller
        /\ Holders
    BY DEF Carrying, Caller, QueueWith
  <2>2. \A t \in Carrying' : t # u => t \in Carrying /\ call'[t] = call[t]
    BY <1>2, <2>1
  <2>3. \A t \in Carrying \ {u} : call[t].cell # x
    BY <1>6 DEF Owned
  <2>4. \A t, v \in Carrying' : call'[t].cell = call'[v].cell => t = v
    <3>1. \A t \in Carrying' : t # u => call'[t].cell = call[t].cell /\ call[t].cell # x
      BY <2>2, <2>3
    <3>2. call'[u].cell = x
      BY <1>1, <1>2
    <3> QED BY <2>1, <2>2, <3>1, <3>2 DEF Holders
  <2>5. \A t \in Thread : pc'[t] \in {"fill", "copy"} => t \in Carrying'
    BY <1>2, <1>3, <2>1 DEF Holders
  <2>6. ~ Quiet' => Handler \in Carrying'
    BY <1>2, <2>1 DEF Holders, Quiet
  <2>7. \A t \in Carrying' : call'[t].op = "recv" => obj'.data[call'[t].cell] \in Message
    BY <1>1, <1>2, <1>5, <2>1, <2>2 DEF Holders
  <2> QED BY <2>4, <2>5, <2>6, <2>7 DEF Holders
<1>8. ASSUME NotReplaced PROVE Carriers' /\ Somewhere(q, Tail(p), Owned') = Cell
  <2>1. Carriers /\ Somewhere(q, p, Owned) = Cell /\ Holders
    BY <1>8 DEF QueueWith
  <2>2. u \notin Carrying
    <3>1. CASE u \in Thread
      BY <1>3, <2>1, <3>1 DEF Carriers
    <3>2. CASE u \notin Thread
      <4>1. u = Handler /\ Quiet
        BY <3>2 DEF Caller, MqAllots, Begins
      <4> QED BY <4>1 DEF Quiet, NoCall, Carrying
    <3> QED BY <3>1, <3>2
  <2> QED BY <1>2, <1>3, <1>6, <2>1, <2>2 DEF Carriers
<1>9. obj.entry = Len(q)
  BY DEF QueueWith
<1> QED BY <1>2, <1>5, <1>7, <1>8, <1>9 DEF QueueWith

\* A receiver takes the first cell of the queue.
LEMMA CellsUnlink ==
    ASSUME Base, NEW q, NEW p, QueueWith(q, p), NEW u \in Caller, NEW c, MqUnlinks(u, c)
    PROVE  /\ QueueWith(Tail(q), p)' /\ obj'.data = obj.data /\ q # <<>>
           /\ c.cell = Head(q) /\ q \in Seq(Cell)
<1> DEFINE G == OwnedBut(u)
           x == obj.msg_queue_head
<1>0. obj.entry = Len(q) /\ q \in Seq(Cell) /\ Len(q) \in Nat
  <2>1. QLists(obj.next, obj.msg_queue_head, obj.msg_queue_tail, obj.msg_queue_free, q, p, Owned)
    BY DEF QueueWith, QOk
  <2> QED BY <2>1, QListsFacts DEF QueueWith
<1>1. /\ Enters(u, c) /\ "cell" \in DOMAIN c /\ c.cell = x /\ q # <<>>
      /\ obj' = [Unlinked(obj) EXCEPT !.entry = @ - 1]
      /\ Turn(u, {"run", "woken"}, {"copy"}) /\ DOMAIN call = Caller
  BY <1>0 DEF MqUnlinks, Base
<1>2. /\ Carrying' = Carrying \cup {u} /\ Owned' = G \cup {x} /\ G \subseteq Owned
      /\ call'[u] = c /\ \A t \in Caller \ {u} : call'[t] = call[t]
      /\ u \notin Carrying => G = Owned
  BY <1>1, OwnedEnters, OwnedOthers
<1>3. /\ \A t \in Thread : t # u => pc'[t] = pc[t]
      /\ u \in Thread => pc[u] \notin {"fill", "copy"} /\ pc'[u] \in {"fill", "copy"}
  BY <1>1, TurnPc
<1>4. QOk(obj, q, p, G) /\ QOk(obj, q, p, Owned)
  <2> HIDE DEF G
  <2>1. QOk(obj, q, p, Owned) /\ G \in SUBSET Owned
    BY <1>2 DEF QueueWith
  <2> QED BY <2>1, HeldLess
<1>5. /\ QOk(obj', Tail(q), p, G \cup {x}) /\ obj'.entry = obj.entry - 1
      /\ obj'.data = obj.data
  <2> HIDE DEF G
  <2> QED BY <1>1, <1>4, TakenOk
<1>6. /\ x \notin Owned /\ x \in Cell /\ x = Head(q) /\ x \in Members(q)
      /\ Somewhere(Tail(q), p, Owned \cup {x}) = Somewhere(q, p, Owned)
      /\ Len(Tail(q)) = Len(q) - 1 /\ obj.data[x] \in Message
  <2>1. /\ x \notin Owned /\ x \in Cell /\ x = Head(q) /\ x \in Members(q)
        /\ Somewhere(Tail(q), p, Owned \cup {x}) = Somewhere(q, p, Owned)
        /\ Len(Tail(q)) = Len(q) - 1
    <3>1. QOk(obj, q, p, Owned) /\ q # <<>>
      BY <1>1, <1>4
    <3> DEFINE o == obj
               H == Owned
    <3> HIDE DEF G, o, H, x
    <3>2. QOk(o, q, p, H) /\ q # <<>>
      BY <3>1 DEF o, H
    <3>3. /\ o.msg_queue_head \in Cell \ H /\ o.msg_queue_head = Head(q)
          /\ o.msg_queue_head \in Members(q) /\ Len(Tail(q)) = Len(q) - 1
      BY <3>2, UnlinkedOk
    <3>4. Somewhere(Tail(q), p, H \cup {o.msg_queue_head}) = Somewhere(q, p, H)
      <4>1. NoDup(q)
        BY <3>2 DEF QOk, QLists
      <4>2. Members(Tail(q)) = Members(q) \ {Head(q)}
        BY <1>0, <3>2, <4>1, MembersTail
      <4> QED BY <3>3, <4>2 DEF Somewhere
    <3> QED BY <3>3, <3>4 DEF o, H, x
  <2> QED BY <1>4, <2>1 DEF QOk
<1> HIDE DEF G, x
<1>7. Holders'
  <2>1. /\ Carrying \subseteq Caller /\ Handler \in Caller /\ Thread \subseteq Caller
        /\ Holders
    BY DEF Carrying, Caller, QueueWith
  <2>2. \A t \in Carrying' : t # u => t \in Carrying /\ call'[t] = call[t]
    BY <1>2, <2>1
  <2>3. \A t \in Carrying \ {u} : call[t].cell # x
    BY <1>6 DEF Owned
  <2>4. \A t, v \in Carrying' : call'[t].cell = call'[v].cell => t = v
    <3>1. \A t \in Carrying' : t # u => call'[t].cell = call[t].cell /\ call[t].cell # x
      BY <2>2, <2>3
    <3>2. call'[u].cell = x
      BY <1>1, <1>2
    <3> QED BY <2>1, <2>2, <3>1, <3>2 DEF Holders
  <2>5. \A t \in Thread : pc'[t] \in {"fill", "copy"} => t \in Carrying'
    BY <1>2, <1>3, <2>1 DEF Holders
  <2>6. ~ Quiet' => Handler \in Carrying'
    BY <1>2, <2>1 DEF Holders, Quiet
  <2>7. \A t \in Carrying' : call'[t].op = "recv" => obj'.data[call'[t].cell] \in Message
    BY <1>1, <1>2, <1>5, <1>6, <2>1, <2>2 DEF Holders
  <2> QED BY <2>4, <2>5, <2>6, <2>7 DEF Holders
<1>8. ASSUME NotReplaced PROVE Carriers' /\ Somewhere(Tail(q), p, Owned') = Cell
  <2>1. Carriers /\ Somewhere(q, p, Owned) = Cell /\ Holders
    BY <1>8 DEF QueueWith
  <2>2. u \notin Carrying
    <3>1. CASE u \in Thread
      BY <1>3, <2>1, <3>1 DEF Carriers
    <3>2. CASE u \notin Thread
      <4>1. u = Handler /\ Quiet
        BY <3>2 DEF Caller, MqUnlinks, Begins
      <4> QED BY <4>1 DEF Quiet, NoCall, Carrying
    <3> QED BY <3>1, <3>2
  <2> QED BY <1>2, <1>3, <1>6, <2>1, <2>2 DEF Carriers
<1>9. QueueWith(Tail(q), p)'
  BY <1>0, <1>2, <1>5, <1>6, <1>7, <1>8 DEF QueueWith
<1> QED BY <1>0, <1>1, <1>5, <1>6, <1>9

\* What the end of a call leaves to the other callers.
LEMMA HoldersLeave ==
    ASSUME Base, Holders, NEW u \in Caller, Enters(u, NoCall), NEW L,
           Turn(u, L, {"run", "sched"}),
           \A x \in OwnedBut(u) : obj'.data[x] = obj.data[x]
    PROVE  Holders' /\ (Carriers => Carriers') /\ Owned' = OwnedBut(u)
<1>1. /\ DOMAIN call = Caller /\ "cell" \notin DOMAIN NoCall
  BY DEF Base, NoCall
<1>2. /\ Carrying' = Carrying \ {u} /\ Owned' = OwnedBut(u)
      /\ call'[u] = NoCall /\ \A t \in Caller \ {u} : call'[t] = call[t]
  BY <1>1, OwnedLeaves
<1>3. /\ \A t \in Thread : t # u => pc'[t] = pc[t]
      /\ u \in Thread => pc'[u] \notin {"fill", "copy"}
  BY TurnPc
<1>4. Carrying \subseteq Caller /\ Handler \in Caller /\ Thread \subseteq Caller
  BY DEF Carrying, Caller
<1>5. \A t \in Carrying' : t \in Carrying /\ t # u /\ call'[t] = call[t]
  BY <1>2, <1>4
<1>6. \A t \in Thread : pc'[t] \in {"fill", "copy"} => t \in Carrying'
  BY <1>2, <1>3, <1>4 DEF Holders
<1>7. ~ Quiet' => Handler \in Carrying'
  BY <1>2, <1>4 DEF Holders, Quiet
<1>8. ASSUME NEW t \in Carrying', call'[t].op = "recv"
      PROVE  obj'.data[call'[t].cell] \in Message
  <2>1. call[t].cell \in OwnedBut(u) /\ obj.data[call[t].cell] \in Message
    BY <1>5, <1>8 DEF OwnedBut, Holders
  <2> QED BY <1>5, <2>1
<1>9. Holders'
  BY <1>5, <1>6, <1>7, <1>8 DEF Holders
<1>10. Carriers => Carriers'
  BY <1>3, <1>5 DEF Carriers
<1> QED BY <1>2, <1>9, <1>10

\* The cell of a caller that ends its call.
LEMMA EndHolds ==
    ASSUME Base, NEW q, NEW p, QueueWith(q, p), NEW u \in Caller, NEW l \in {"fill", "copy"},
           Turn(u, {l}, {"run", "sched"}), u = Handler => ~ Quiet
    PROVE  /\ u \in Carrying /\ call[u].cell \in Owned /\ call[u].cell \in Cell
           /\ OwnedBut(u) = Owned \ {call[u].cell}
<1>1. u \in Thread => pc[u] = l
  BY TurnPc
<1>2. u \in Carrying /\ Holders
  BY <1>1 DEF QueueWith, Holders, Caller
<1>3. Owned \subseteq Cell
  BY DEF QueueWith, QOk, QLists
<1> QED BY <1>2, <1>3, OwnedOthers

\* The cell and the message in the call of u.
Brings(u, c, m) == c = call[u].cell /\ m = call[u].msg

\* A sender links its cell.
LEMMA CellsLink ==
    ASSUME Base, MsgsTyped, IsQueue, NEW q, NEW p, QueueWith(q, p), NEW u \in Caller,
           MqLinks(u), NEW c, NEW m, Brings(u, c, m)
    PROVE  /\ u \in Carrying /\ c \in Owned /\ c \in Cell /\ m \in Message
           /\ call[u].op # "recv" /\ Enters(u, NoCall) /\ Len(q) < Capacity
           /\ obj'.data = Written(obj.data, c, m) /\ c \notin Members(q)
           /\ QueueWith(Append(q, c), p)' \/ QueueWith(<<c>> \o q, p)'
<1> DEFINE H == Owned
           o == obj
<1>0. c = call[u].cell /\ m = call[u].msg
  BY DEF Brings
<1>1. /\ u \in Carrying /\ c \in H /\ c \in Cell /\ OwnedBut(u) = H \ {c}
  BY <1>0, EndHolds DEF MqLinks
<1>2. /\ call[u].op \in {"send", "urgent"} /\ Enters(u, NoCall)
      /\ Turn(u, {"fill"}, {"run", "sched"}) /\ m \in Message
  BY <1>0 DEF MqLinks, MsgsTyped
<1>3. QOk(o, q, p, H) /\ o.entry = Len(q) /\ Counts(o, q) /\ Holders
  BY DEF QueueWith, Counts
<1>4. obj' = Linked(o, c, m) \/ obj' = LinkedFirst(o, c, m)
  BY <1>0 DEF MqLinks
<1>5. QLists(o.next, o.msg_queue_head, o.msg_queue_tail, o.msg_queue_free, q, p, H)
  BY <1>3 DEF QOk
<1>6. /\ c \notin Members(q) /\ q \in Seq(Cell) /\ Len(q) \in Nat
      /\ o.data \in [Cell -> Message \cup {Nothing}] /\ H \subseteq Cell
  <2>1. c \notin Members(q) /\ H \subseteq Cell
    BY <1>1, <1>5 DEF QLists
  <2>2. q \in Seq(Cell) /\ Len(q) \in Nat
    BY <1>5, QListsFacts
  <2> QED BY <1>3, <2>1, <2>2 DEF QOk
<1> HIDE DEF H, o
<1>7. NotReplaced => Carriers /\ Somewhere(q, p, H) = Cell
  BY DEF QueueWith, H
<1>8. ASSUME obj'.data = Written(o.data, c, m)
      PROVE  Holders' /\ (Carriers => Carriers') /\ Owned' = H \ {c}
  <2>1. \A x \in OwnedBut(u) : obj'.data[x] = obj.data[x]
    BY <1>1, <1>6, <1>8 DEF o, Written
  <2> QED BY <1>1, <1>2, <1>3, <2>1, HoldersLeave
<1>9. CASE obj' = Linked(o, c, m)
  <2> DEFINE n == Linked(o, c, m)
             r == Append(q, c)
  <2>1. /\ QOk(n, r, p, H \ {c}) /\ n.entry = o.entry + 1 /\ Len(q) < Capacity
        /\ n.data = Written(o.data, c, m) /\ Somewhere(r, p, H \ {c}) = Somewhere(q, p, H)
    <3>1. QOk(o, q, p, H) /\ Counts(o, q) /\ c \in H /\ m \in Message
      BY <1>1, <1>2, <1>3
    <3> QED BY ONLY <3>1, LinkedOk
  <2>2. Len(r) = Len(q) + 1
    BY <1>1, <1>6
  <2> HIDE DEF n, r
  <2>3. /\ QOk(obj', r, p, H \ {c}) /\ obj'.entry = o.entry + 1
        /\ obj'.data = Written(o.data, c, m)
    BY <1>9, <2>1 DEF n
  <2>4. QueueWith(r, p)'
    BY <1>3, <1>7, <1>8, <2>1, <2>2, <2>3 DEF QueueWith
  <2> QED BY <1>1, <1>2, <1>6, <2>1, <2>3, <2>4 DEF o, H, r
<1>10. CASE obj' = LinkedFirst(o, c, m)
  <2> DEFINE n == LinkedFirst(o, c, m)
             r == <<c>> \o q
  <2>1. /\ QOk(n, r, p, H \ {c}) /\ n.entry = o.entry + 1 /\ Len(q) < Capacity
        /\ n.data = Written(o.data, c, m) /\ Somewhere(r, p, H \ {c}) = Somewhere(q, p, H)
    BY <1>1, <1>2, <1>3, LinkedFirstOk
  <2>2. Len(r) = Len(q) + 1
    BY <1>1, <1>6
  <2> HIDE DEF n, r
  <2>3. /\ QOk(obj', r, p, H \ {c}) /\ obj'.entry = o.entry + 1
        /\ obj'.data = Written(o.data, c, m)
    BY <1>10, <2>1 DEF n
  <2>4. QueueWith(r, p)'
    BY <1>3, <1>7, <1>8, <2>1, <2>2, <2>3 DEF QueueWith
  <2> QED BY <1>1, <1>2, <1>6, <2>1, <2>3, <2>4 DEF o, H, r
<1> QED BY <1>4, <1>9, <1>10

\* A receiver frees its cell.
LEMMA CellsFree ==
    ASSUME Base, NEW q, NEW p, QueueWith(q, p), NEW u \in Caller, MqFrees(u),
           NEW c, NEW m, Brings(u, c, m)
    PROVE  /\ u \in Carrying /\ c \in Owned /\ call[u].op = "recv" /\ Enters(u, NoCall)
           /\ QueueWith(q, <<c>> \o p)' /\ obj'.data = obj.data
           /\ Len(<<c>> \o p) = Len(p) + 1
<1> DEFINE H == Owned
           o == obj
           r == <<c>> \o p
<1>0. c = call[u].cell
  BY DEF Brings
<1>1. /\ u \in Carrying /\ c \in H /\ OwnedBut(u) = H \ {c}
  BY <1>0, EndHolds DEF MqFrees
<1>2. /\ call[u].op = "recv" /\ Enters(u, NoCall)
      /\ Turn(u, {"copy"}, {"run", "sched"}) /\ obj' = Freed(o, c)
  BY <1>0 DEF MqFrees
<1>3. QOk(o, q, p, H) /\ o.entry = Len(q) /\ Holders
  BY DEF QueueWith
<1> HIDE DEF H, o
<1>4. /\ QOk(obj', q, r, H \ {c}) /\ obj'.entry = o.entry /\ obj'.data = o.data
      /\ Len(r) = Len(p) + 1 /\ Somewhere(q, r, H \ {c}) = Somewhere(q, p, H)
  <2> DEFINE n == Freed(o, c)
  <2>1. /\ QOk(n, q, r, H \ {c}) /\ n.entry = o.entry /\ n.data = o.data
        /\ Len(r) = Len(p) + 1 /\ Somewhere(q, r, H \ {c}) = Somewhere(q, p, H)
    BY <1>1, <1>3, FreedOk
  <2> HIDE DEF n, r
  <2> QED BY <1>2, <2>1 DEF n
<1>5. Holders' /\ (Carriers => Carriers') /\ Owned' = H \ {c}
  <2>1. \A x \in OwnedBut(u) : obj'.data[x] = obj.data[x]
    BY <1>4 DEF o
  <2> QED BY <1>1, <1>2, <1>3, <2>1, HoldersLeave
<1> HIDE DEF r
<1>6. QueueWith(q, r)'
  <2>1. NotReplaced => Carriers /\ Somewhere(q, p, H) = Cell
    BY DEF QueueWith, H
  <2> QED BY <1>3, <1>4, <1>5, <2>1 DEF QueueWith
<1> QED BY <1>1, <1>2, <1>4, <1>6 DEF o, H, r

\* The chains that Chain finds.
LEMMA ChainsAre ==
    ASSUME NEW q, NEW p, QOk(obj, q, p, Owned)
    PROVE  Queued = q /\ Spare = p
<1> DEFINE next == obj.next
           head == obj.msg_queue_head
           f == obj.msg_queue_free
<1>1. /\ IsPath(next, Cell, head, q) /\ IsPath(next, Cell, f, p)
      /\ NoDup(q) /\ NoDup(p)
  BY DEF QOk, QLists
<1>2. q \in Seq(Cell) /\ p \in Seq(Cell)
  BY <1>1 DEF IsPath
<1>3. Len(q) \in 0 .. Capacity /\ Len(p) \in 0 .. Capacity /\ Capacity \in Nat
  BY <1>1, <1>2, NoDupLength, CapacityAssumption DEF Cell
<1>4. Len(q) <= Capacity /\ Len(p) <= Capacity /\ Capacity \in Nat
  BY <1>3
<1> HIDE DEF next, head, f
<1>5. Chain(next, head, Capacity) = q /\ Chain(next, f, Capacity) = p
  BY <1>1, <1>4, ChainIs
<1> QED BY <1>5 DEF Queued, Spare, next, head, f

\* The reset moves all cells of the queue to the free list.
LEMMA CellsReset ==
    ASSUME Base, NEW q, NEW p, QueueWith(q, p), ChanBroken,
           obj' = [AllDrained(obj, Queued) EXCEPT !.entry = 0]
    PROVE  /\ \E r : QueueWith(<<>>, r)'
           /\ obj'.data = obj.data
<1> DEFINE H == Owned
           d == AllDrained(obj, q)
<1>1. QOk(obj, q, p, H) /\ Queued = q
  BY ChainsAre DEF QueueWith
<1>2. PICK r : /\ QOk(d, <<>>, r, H) /\ d.data = obj.data
               /\ Somewhere(<<>>, r, H) = Somewhere(q, p, H)
  <2> DEFINE o == obj
  <2>1. QOk(o, q, p, H)
    BY <1>1
  <2> HIDE DEF o, H
  <2>2. /\ \E r : /\ QOk(AllDrained(o, q), <<>>, r, H)
                  /\ Somewhere(<<>>, r, H) = Somewhere(q, p, H)
        /\ AllDrained(o, q).data = o.data
    BY <2>1, AllDrainedOk
  <2> QED BY <2>2 DEF o
<1>3. obj' = [d EXCEPT !.entry = 0]
  BY <1>1
<1> HIDE DEF d
<1>4. /\ QOk(obj', <<>>, r, H) /\ obj'.entry = 0 /\ obj'.data = obj.data
  BY <1>2, <1>3 DEF QOk, QFields
<1>5. /\ Carrying' = Carrying /\ Owned' = H /\ Quiet' = Quiet /\ call' = call
  BY DEF ChanBroken, Carrying, Owned, Quiet
<1>6. \A t \in Thread : pc'[t] = pc[t] \/ pc'[t] = "sched"
  BY DEF ChanBroken, Base, IInv, Typed
<1>7. Holders'
  BY <1>4, <1>5, <1>6 DEF Holders, QueueWith
<1>8. Carriers => Carriers'
  <2>1. pc[k.current] = "run"
    BY DEF ChanBroken
  <2> QED BY <1>5, <2>1 DEF Carriers, ChanBroken, Base, IInv, Typed
<1>9. QueueWith(<<>>, r)'
  BY <1>2, <1>4, <1>5, <1>7, <1>8 DEF QueueWith
<1> QED BY <1>4, <1>9

\* Every step moves the cells in one of these ways.
LEMMA NextQueueOk ==
    ASSUME BInv, QueueOk, [ObjectsNext]_allVars PROVE QueueOk'
<1>0. Base /\ MsgsTyped /\ SameKind /\ Outcome
  BY Outcomes DEF BInv
<1>1. SUFFICES ASSUME IsQueue, NEW q, NEW p, QueueWith(q, p)
               PROVE  \E r, s : QueueWith(r, s)'
  <2>1. IsQueue' <=> IsQueue
    BY <1>0 DEF SameKind, IsQueue
  <2> QED BY <2>1 DEF QueueOk
<1>2. pc \in [Thread -> EveryLabel] /\ IInv
  BY <1>0 DEF Base, IInv, Typed
<1>3. CASE Passes
  <2>1. ASSUME NEW t \in Thread
        PROVE  /\ pc'[t] \in {"fill", "copy"} => pc[t] = pc'[t]
               /\ NotReplaced /\ pc[t] \in {"fill", "copy"} => pc'[t] = pc[t]
    BY <1>2, <1>3, NextPc DEF Passes, NotReplaced, Label
  <2> QED BY <1>1, <1>3, <2>1, CellsStay DEF Passes
<1>4. CASE Schedules
  <2>1. ASSUME NEW t \in Thread
        PROVE  /\ pc'[t] \in {"fill", "copy"} => pc[t] = pc'[t]
               /\ NotReplaced /\ pc[t] \in {"fill", "copy"} => pc'[t] = pc[t]
    BY <1>2, <1>4 DEF Schedules
  <2> QED BY <1>1, <1>4, <2>1, CellsStay DEF Schedules
<1>5. ASSUME NEW op, ChanFails(op) PROVE QueueWith(q, p)'
  <2>1. "cell" \notin DOMAIN NoCall
    BY DEF NoCall
  <2>2. /\ obj' = obj /\ Mine(NoCall) /\ pc' = [pc EXCEPT ![k.current] = "run"]
        /\ k.current \in Thread /\ pc[k.current] \in {"run", "woken"}
    BY <1>5 DEF ChanFails, Moves
  <2> QED BY <1>0, <1>1, <2>1, <2>2, CellsKept
<1>6. ASSUME NEW w, ChanWaits(w) PROVE QueueWith(q, p)'
  <2>1. PICK c : Mine(c) /\ "cell" \notin DOMAIN c
    BY <1>6 DEF ChanWaits
  <2>2. /\ obj' = obj /\ pc' = [pc EXCEPT ![k.current] = "block"]
        /\ k.current \in Thread /\ pc[k.current] \in {"run", "woken"}
    BY <1>6 DEF ChanWaits, Waits, JoinsAt
  <2> QED BY <1>0, <1>1, <2>1, <2>2, CellsKept
<1>7. ASSUME NEW u \in Caller, NEW c, MqAllots(u, c) \/ MqUnlinks(u, c)
      PROVE  \E r, s : QueueWith(r, s)'
  BY <1>0, <1>1, <1>7, CellsAllot, CellsUnlink
<1>8. ASSUME NEW u \in Caller, MqLinks(u) \/ MqFrees(u) PROVE \E r, s : QueueWith(r, s)'
  <2>1. PICK c, m : Brings(u, c, m)
    BY DEF Brings
  <2>2. CASE MqLinks(u)
    <3>1. QueueWith(Append(q, c), p)' \/ QueueWith(<<c>> \o q, p)'
      BY <1>0, <1>1, <2>1, <2>2, CellsLink
    <3> QED BY <3>1
  <2>3. CASE MqFrees(u)
    <3>1. QueueWith(q, <<c>> \o p)'
      BY <1>0, <1>1, <2>1, <2>3, CellsFree
    <3> QED BY <3>1
  <2> QED BY <1>8, <2>2, <2>3
<1>9. ASSUME obj' = [AllDrained(obj, Queued) EXCEPT !.entry = 0], ChanBroken
      PROVE  \E r, s : QueueWith(r, s)'
  <2>1. \E r : QueueWith(<<>>, r)'
    BY <1>0, <1>1, <1>9, CellsReset
  <2> QED BY <2>1
<1>10. Passes \/ Schedules \/ Fails \/ MqOutcome
  BY <1>0, <1>1 DEF Outcome, IsMailbox, IsQueue, IsEvent, IsPool, IsCompletion, IsSerial
<1>11. CASE MqOutcome
  BY <1>5, <1>6, <1>7, <1>8, <1>9, <1>11 DEF MqOutcome
<1>12. CASE Fails
  BY <1>5, <1>12 DEF Fails
<1> QED BY <1>3, <1>4, <1>10, <1>11, <1>12

\* rt_mq_init: all cells are free.
LEMMA InitQueueOk == ObjectsInit => QueueOk
<1> SUFFICES ASSUME ObjectsInit, IsQueue PROVE \E q, p : QueueWith(q, p)
  BY DEF QueueOk
<1> DEFINE h == [c \in Cell |-> c - 1]
           N == Capacity
           p == [i \in 1 .. N |-> N + 1 - i]
<1>1. obj \in MessageQueueInit
  BY DEF ObjectsInit, IsQueue, MailboxInit, MempoolInit, EventInit, SerialInit, CompletionInit
<1>2. N \in Nat \ {0} /\ Cell = 1 .. N /\ Null = 0
  BY CapacityAssumption DEF Cell, Null
<1>3. /\ QFields \subseteq DOMAIN obj /\ obj.next = h /\ obj.data \in [Cell -> {Nothing}]
      /\ obj.msg_queue_head = 0 /\ obj.msg_queue_tail = 0 /\ obj.msg_queue_free = N
      /\ obj.entry = 0
  BY <1>1, <1>2 DEF MessageQueueInit, QFields
<1>4. /\ h \in [Cell -> Cell \cup {Null}] /\ DOMAIN h = Cell
      /\ \A c \in Cell : h[c] = c - 1
  BY <1>2
<1>5. /\ p \in Seq(Cell) /\ Len(p) = N /\ p # <<>>
      /\ \A i \in 1 .. N : p[i] = N + 1 - i
  BY <1>2
<1> HIDE DEF h, p, N
<1>6. IsPath(h, Cell, N, p)
  <2>1. p[1] = N /\ h[p[Len(p)]] \notin Cell
    <3>1. 1 \in 1 .. N /\ N \in 1 .. N /\ 1 \in Cell /\ 0 \notin Cell
      BY <1>2
    <3>2. p[1] = N /\ p[N] = 1
      BY <1>2, <1>5, <3>1
    <3> QED BY <1>4, <1>5, <3>1, <3>2
  <2>2. ASSUME NEW i \in 1 .. (Len(p) - 1) PROVE p[i + 1] = h[p[i]]
    <3>1. i \in 1 .. N /\ i + 1 \in 1 .. N /\ N + 1 - i \in Cell
      BY <1>2, <1>5
    <3>2. p[i] = N + 1 - i /\ p[i + 1] = N + 1 - (i + 1)
      BY <1>5, <3>1
    <3>3. h[p[i]] = (N + 1 - i) - 1
      BY <1>4, <3>1, <3>2
    <3> QED BY <1>2, <3>1, <3>2, <3>3
  <2> QED BY <1>4, <1>5, <2>1, <2>2 DEF IsPath
<1>7. IsPath(h, Cell, Null, <<>>)
  BY <1>2, <1>4 DEF IsPath
<1>8. NoDup(p) /\ Members(p) = Cell
  <2>1. NoDup(p)
    BY <1>2, <1>5 DEF NoDup
  <2>2. ASSUME NEW c \in Cell PROVE c \in Members(p)
    <3>1. N + 1 - c \in 1 .. N /\ N + 1 - (N + 1 - c) = c
      BY <1>2
    <3>2. p[N + 1 - c] = c
      BY <1>5, <3>1
    <3> QED BY <1>5, <3>1, <3>2 DEF Members
  <2>3. Members(p) \subseteq Cell
    BY <1>5, MembersEmpty
  <2> QED BY <2>1, <2>2, <2>3
<1>9. NoDup(<<>>) /\ Members(<<>>) = {} /\ Len(<<>>) = 0
  BY DEF NoDup, Members
<1>10. Carrying = {} /\ Owned = {} /\ Quiet /\ \A t \in Thread : pc[t] = "run"
  <2>1. Carrying = {}
    BY DEF ObjectsInit, Carrying, NoCall
  <2> QED BY <2>1 DEF ObjectsInit, Init, Owned, Quiet
<1>11. QLists(h, 0, 0, N, <<>>, p, {})
  BY <1>2, <1>4, <1>5, <1>6, <1>7, <1>8, <1>9 DEF QLists
<1>12. QOk(obj, <<>>, p, Owned)
  BY <1>3, <1>9, <1>10, <1>11 DEF QOk
<1>13. QueueWith(<<>>, p)
  BY <1>3, <1>8, <1>9, <1>10, <1>12 DEF QueueWith, Holders, Carriers, Somewhere
<1> QED BY <1>13

\* Two lists that have no member in common.
LEMMA ConcatMembers ==
    ASSUME NEW S, NEW q \in Seq(S), NEW p \in Seq(S), NoDup(q), NoDup(p),
           Members(q) \cap Members(p) = {}
    PROVE  NoDup(q \o p) /\ Members(q \o p) = Members(q) \cup Members(p)
<1> DEFINE r == q \o p
           m == Len(q)
           n == Len(p)
<1>1. m \in Nat /\ n \in Nat /\ Len(r) = m + n
  OBVIOUS
<1>2. /\ \A i \in 1 .. m : r[i] = q[i] /\ q[i] \in Members(q)
      /\ \A i \in 1 .. n : r[m + i] = p[i] /\ p[i] \in Members(p)
  BY DEF Members
<1>3. \A i, j \in 1 .. m : q[i] = q[j] => i = j
  BY DEF NoDup
<1>4. \A i, j \in 1 .. n : p[i] = p[j] => i = j
  BY DEF NoDup
<1> HIDE DEF r, m, n
<1>5. ASSUME NEW i \in 1 .. Len(r)
      PROVE  \/ i \in 1 .. m /\ r[i] = q[i] /\ r[i] \in Members(q)
             \/ i - m \in 1 .. n /\ r[i] = p[i - m] /\ r[i] \in Members(p)
  <2>1. CASE i <= m
    BY <1>1, <1>2, <2>1
  <2>2. CASE ~ (i <= m)
    <3>1. i - m \in 1 .. n /\ m + (i - m) = i
      BY <1>1, <2>2
    <3> QED BY <1>2, <3>1
  <2> QED BY <2>1, <2>2
<1>6. ASSUME NEW i \in 1 .. Len(r), NEW j \in 1 .. Len(r), r[i] = r[j] PROVE i = j
  <2>1. CASE i \in 1 .. m /\ r[i] = q[i] /\ r[i] \in Members(q)
    <3>1. j \in 1 .. m /\ r[j] = q[j]
      BY <1>5, <1>6, <2>1
    <3> QED BY <1>3, <1>6, <2>1, <3>1
  <2>2. CASE i - m \in 1 .. n /\ r[i] = p[i - m] /\ r[i] \in Members(p)
    <3>1. j - m \in 1 .. n /\ r[j] = p[j - m]
      BY <1>5, <1>6, <2>2
    <3>2. i - m = j - m
      BY <1>4, <1>6, <2>2, <3>1
    <3> QED BY <1>1, <3>2
  <2> QED BY <1>5, <2>1, <2>2
<1>7. Members(r) \subseteq Members(q) \cup Members(p)
  BY <1>5 DEF Members
<1>8. ASSUME NEW x \in Members(q) PROVE x \in Members(r)
  <2>1. PICK i \in 1 .. m : x = q[i]
    BY DEF Members, m
  <2>2. i \in 1 .. Len(r) /\ r[i] = x
    BY <1>1, <1>2, <2>1
  <2> QED BY <2>2 DEF Members
<1>9. ASSUME NEW x \in Members(p) PROVE x \in Members(r)
  <2>1. PICK i \in 1 .. n : x = p[i]
    BY DEF Members, n
  <2>2. m + i \in 1 .. Len(r) /\ r[m + i] = x
    BY <1>1, <1>2, <2>1
  <2> QED BY <2>2 DEF Members
<1>10. NoDup(r)
  BY <1>6 DEF NoDup
<1>11. Members(r) = Members(q) \cup Members(p)
  BY <1>7, <1>8, <1>9
<1> QED BY <1>10, <1>11 DEF r

\* The invariant, for the queue and what the calls say about it.
LEMMA AlwaysQueueOk == ObjectsSpec => [](BInv /\ QueueOk)
<1>1. BInv /\ QueueOk /\ [ObjectsNext]_allVars => (BInv /\ QueueOk)'
  BY NextBInv, NextQueueOk
<1>2. ObjectsInit => BInv /\ QueueOk
  BY InitBInv, InitQueueOk
<1> QED BY <1>1, <1>2, PTL DEF ObjectsSpec

\* The message queue: every cell is in the queue, in the free list or in the
\* hands of one caller between the two critical sections of rt_mq_send_wait,
\* rt_mq_urgent or rt_mq_recv, the tail is the last cell and entry the number
\* of messages, for every number of cells and threads, unless threads are
\* created on the memory of others.
THEOREM CellsAlwaysAccounted ==
    ASSUME NotReplaced PROVE ObjectsSpec => []CellsAccounted
<1>1. ASSUME QueueOk PROVE CellsAccounted
  <2> SUFFICES ASSUME IsQueue PROVE CellsAccounted
    BY DEF CellsAccounted
  <2>1. PICK q, p : QueueWith(q, p)
    BY <1>1 DEF QueueOk
  <2>2. QOk(obj, q, p, Owned) /\ Queued = q /\ Spare = p
    BY <2>1, ChainsAre DEF QueueWith
  <2>3. QLists(obj.next, obj.msg_queue_head, obj.msg_queue_tail, obj.msg_queue_free, q, p, Owned)
    BY <2>2 DEF QOk
  <2>4. q \in Seq(Cell) /\ p \in Seq(Cell)
    BY <2>3, QListsFacts
  <2>5. /\ NoDup(q) /\ NoDup(p) /\ Members(q) \cap Members(p) = {}
        /\ Owned \cap Members(q) = {} /\ Owned \cap Members(p) = {}
        /\ obj.msg_queue_tail = IF q = <<>> THEN Null ELSE q[Len(q)]
    BY <2>3 DEF QLists
  <2>6. NoDup(q \o p) /\ Members(q \o p) = Members(q) \cup Members(p)
    BY <2>4, <2>5, ConcatMembers
  <2>7. /\ Members(q) \cup Members(p) \cup Owned = Cell /\ obj.entry = Len(q)
        /\ \A t, u \in Carrying : call[t].cell = call[u].cell => t = u
    BY <2>1 DEF QueueWith, Somewhere, Holders
  <2>8. Cell \ Members(q \o p) = Owned
    BY <2>5, <2>6, <2>7
  <2> QED BY <2>2, <2>5, <2>6, <2>7, <2>8 DEF CellsAccounted, Owned, Last
<1> QED BY <1>1, AlwaysQueueOk, PTL

-----------------------------------------------------------------------------
(* The ring of the mailbox *)

MbFields == {"kind", "msg_pool", "entry", "in_offset", "out_offset"}

\* The input offset is entry words after the output offset.
MbOk(o) ==
    /\ MbFields \subseteq DOMAIN o
    /\ o.msg_pool \in [0 .. (Capacity - 1) -> Message \cup {Nothing}]
    /\ o.entry \in 0 .. Capacity
    /\ o.in_offset \in 0 .. (Capacity - 1) /\ o.out_offset \in 0 .. (Capacity - 1)
    /\ o.in_offset = Wrap(Capacity, o.out_offset + o.entry)

MailsOf(o) == Ring(o.msg_pool, Capacity, o.out_offset, o.entry)

\* The mails as module Mailbox names them.
MailsIn(o) == [i \in 1 .. o.entry |-> o.msg_pool[(o.out_offset + i - 1) % Capacity]]

\* The mails of a well-formed mailbox are as many as its entry says.
LEMMA MailsAre ==
    ASSUME NEW o, MbOk(o)
    PROVE  /\ MailsIn(o) = MailsOf(o) /\ MailsOf(o) \in Seq(Message \cup {Nothing})
           /\ Len(MailsOf(o)) = o.entry
<1> DEFINE b == o.msg_pool
           g == o.out_offset
           n == o.entry
           S == Message \cup {Nothing}
<1>1. /\ Capacity \in Nat \ {0} /\ g \in 0 .. (Capacity - 1) /\ n \in 0 .. Capacity
      /\ Words(b, Capacity, S)
  BY CapacityAssumption DEF MbOk, Words
<1> HIDE DEF b, g, n, S
<1>2. ModRing(b, Capacity, g, n)
  BY <1>1, RingIsMod
<1>3. Ring(b, Capacity, g, n) \in Seq(S) /\ Len(Ring(b, Capacity, g, n)) = n
  BY <1>1, RingSeq
<1> QED BY <1>2, <1>3 DEF ModRing, MailsIn, MailsOf, b, g, n, S

\* A mail is sent.
LEMMA PostedOk ==
    ASSUME NEW o, MbOk(o), o.entry # Capacity, NEW m \in Message
    PROVE  /\ MbOk(Posted(o, m)) /\ MailsOf(Posted(o, m)) = Append(MailsOf(o), m)
           /\ Posted(o, m).entry = o.entry + 1
<1> DEFINE b == o.msg_pool
           g == o.out_offset
           e == o.entry
           i == o.in_offset
           n == Posted(o, m)
           b2 == [b EXCEPT ![i] = m]
<1>1. /\ Capacity \in Nat \ {0} /\ g \in 0 .. (Capacity - 1) /\ e \in 0 .. (Capacity - 1)
      /\ i = Wrap(Capacity, g + e) /\ i \in 0 .. (Capacity - 1) /\ e < EntryMax
      /\ b \in [0 .. (Capacity - 1) -> Message \cup {Nothing}]
  BY CapacityAssumption DEF MbOk
<1>2. /\ DOMAIN n = DOMAIN o /\ n.msg_pool = b2 /\ n.out_offset = g /\ n.entry = e + 1
      /\ n.in_offset = Up(i)
  BY <1>1 DEF MbOk, MbFields, Posted
<1>3. b2 \in [0 .. (Capacity - 1) -> Message \cup {Nothing}] /\ DOMAIN b = 0 .. (Capacity - 1)
  BY <1>1
<1> HIDE DEF n, b, g, e, i
<1>4. Up(i) = Wrap(Capacity, g + (e + 1)) /\ Up(i) \in 0 .. (Capacity - 1)
      /\ e + 1 \in 0 .. Capacity
  BY <1>1 DEF Up, Wrap
<1>5. AtEnd(b, Capacity, g, e, m)
  BY <1>1, <1>3, RingAppend
<1>6. Ring(b2, Capacity, g, e + 1) = Append(Ring(b, Capacity, g, e), m)
  BY <1>1, <1>5 DEF AtEnd
<1> HIDE DEF b2
<1>7. MailsOf(n) = Append(MailsOf(o), m)
  BY <1>2, <1>6 DEF MailsOf, b, g, e
<1>8. MbOk(n)
  <2>1. MbFields \subseteq DOMAIN o /\ g \in 0 .. (Capacity - 1)
    BY <1>1 DEF MbOk
  <2> QED BY <1>2, <1>3, <1>4, <2>1 DEF MbOk
<1> QED BY <1>2, <1>7, <1>8 DEF n, e

\* An urgent mail is sent.
LEMMA PostedFirstOk ==
    ASSUME NEW o, MbOk(o), o.entry # Capacity, NEW m \in Message
    PROVE  /\ MbOk(PostedFirst(o, m)) /\ MailsOf(PostedFirst(o, m)) = <<m>> \o MailsOf(o)
           /\ PostedFirst(o, m).entry = o.entry + 1
<1> DEFINE b == o.msg_pool
           g == o.out_offset
           e == o.entry
           i == o.in_offset
           n == PostedFirst(o, m)
           p == Down(g)
           b2 == [b EXCEPT ![p] = m]
<1>1. /\ Capacity \in Nat \ {0} /\ g \in 0 .. (Capacity - 1) /\ e \in 0 .. (Capacity - 1)
      /\ i = Wrap(Capacity, g + e) /\ i \in 0 .. (Capacity - 1)
      /\ b \in [0 .. (Capacity - 1) -> Message \cup {Nothing}]
  BY CapacityAssumption DEF MbOk
<1>2. /\ DOMAIN n = DOMAIN o /\ n.msg_pool = b2 /\ n.out_offset = p /\ n.entry = e + 1
      /\ n.in_offset = i
  BY DEF MbOk, MbFields, PostedFirst
<1> HIDE DEF n, b, g, e, i
<1>3. /\ p \in 0 .. (Capacity - 1) /\ Wrap(Capacity, p + 1) = g
      /\ i = Wrap(Capacity, p + (e + 1)) /\ e + 1 \in 0 .. Capacity
  BY <1>1 DEF Down, Wrap
<1> HIDE DEF p
<1>4. b2 \in [0 .. (Capacity - 1) -> Message \cup {Nothing}] /\ DOMAIN b = 0 .. (Capacity - 1)
  BY <1>1, <1>3
<1>5. AtFront(b, Capacity, p, e, m)
  BY <1>1, <1>3, <1>4, RingFront
<1>6. Ring(b2, Capacity, p, e + 1) = <<m>> \o Ring(b, Capacity, g, e)
  BY <1>3, <1>5 DEF AtFront
<1> HIDE DEF b2
<1>7. MailsOf(n) = <<m>> \o MailsOf(o)
  BY <1>2, <1>6 DEF MailsOf, b, g, e
<1>8. MbOk(n)
  <2>1. MbFields \subseteq DOMAIN o
    BY DEF MbOk
  <2> QED BY <1>1, <1>2, <1>3, <1>4, <2>1 DEF MbOk
<1> QED BY <1>2, <1>7, <1>8 DEF n, e

\* A mail is received.
LEMMA FetchedOk ==
    ASSUME NEW o, MbOk(o), o.entry # 0
    PROVE  /\ MbOk(Fetched(o)) /\ MailsOf(Fetched(o)) = Tail(MailsOf(o))
           /\ Fetched(o).entry = o.entry - 1
<1> DEFINE b == o.msg_pool
           g == o.out_offset
           e == o.entry
           i == o.in_offset
           n == Fetched(o)
           p == Up(g)
<1>1. /\ Capacity \in Nat \ {0} /\ g \in 0 .. (Capacity - 1) /\ e \in 1 .. Capacity
      /\ i = Wrap(Capacity, g + e) /\ i \in 0 .. (Capacity - 1)
      /\ b \in [0 .. (Capacity - 1) -> Message \cup {Nothing}]
  BY CapacityAssumption DEF MbOk
<1>2. /\ DOMAIN n = DOMAIN o /\ n.msg_pool = b /\ n.out_offset = p /\ n.entry = e - 1
      /\ n.in_offset = i
  BY DEF MbOk, MbFields, Fetched
<1> HIDE DEF n, b, g, e, i
<1>3. /\ p \in 0 .. (Capacity - 1) /\ p = Wrap(Capacity, g + 1)
      /\ i = Wrap(Capacity, p + (e - 1)) /\ e - 1 \in 0 .. Capacity
  BY <1>1 DEF Up, Wrap
<1> HIDE DEF p
<1>4. Ring(b, Capacity, Wrap(Capacity, g + 1), e - 1) = Tail(Ring(b, Capacity, g, e))
  BY <1>1, RingTail
<1>5. MailsOf(n) = Tail(MailsOf(o))
  BY <1>2, <1>3, <1>4 DEF MailsOf, b, g, e
<1>6. MbOk(n)
  <2>1. MbFields \subseteq DOMAIN o
    BY DEF MbOk
  <2> QED BY <1>1, <1>2, <1>3, <2>1 DEF MbOk
<1> QED BY <1>2, <1>5, <1>6 DEF n, e

\* The reset.
Cleared(o) == [o EXCEPT !.entry = 0, !.in_offset = 0, !.out_offset = 0]

\* A reset mailbox is well formed and empty.
LEMMA ClearedOk ==
    ASSUME NEW o, MbOk(o)
    PROVE  MbOk(Cleared(o)) /\ MailsOf(Cleared(o)) = <<>> /\ Cleared(o).entry = 0
<1> DEFINE n == Cleared(o)
<1>1. /\ DOMAIN n = DOMAIN o /\ n.msg_pool = o.msg_pool /\ n.out_offset = 0
      /\ n.entry = 0 /\ n.in_offset = 0
  BY DEF MbOk, MbFields, Cleared
<1> HIDE DEF n
<1>2. Wrap(Capacity, 0 + 0) = 0 /\ 0 \in 0 .. (Capacity - 1) /\ 0 \in 0 .. Capacity
  BY CapacityAssumption DEF Wrap
<1>3. MbOk(n)
  BY <1>1, <1>2 DEF MbOk
<1>4. MailsOf(n) = <<>>
  BY <1>1 DEF MailsOf, Ring
<1> QED BY <1>1, <1>3, <1>4 DEF n

MailOk == IsMailbox => MbOk(obj)

\* What a step does to the mails.
MailStep ==
    \/ MailsOf(obj') = MailsOf(obj) \/ MailsOf(obj') = <<>>
    \/ \E m \in Message : /\ MailsOf(obj') = Append(MailsOf(obj), m)
                          /\ obj.entry < Capacity
    \/ \E m \in Message : /\ MailsOf(obj') = <<m>> \o MailsOf(obj)
                          /\ obj.entry < Capacity
    \/ obj.entry # 0 /\ MailsOf(obj') = Tail(MailsOf(obj))

\* Every step keeps the mailbox well formed, and puts or takes one mail
\* or empties it.
LEMMA NextMailOk ==
    ASSUME BInv, MailOk, [ObjectsNext]_allVars
    PROVE  MailOk' /\ (IsMailbox => MailStep)
<1>0. Base /\ SameKind /\ Outcome
  BY Outcomes DEF BInv
<1>1. SUFFICES ASSUME IsMailbox, MbOk(obj) PROVE MbOk(obj') /\ MailStep
  <2>1. IsMailbox' <=> IsMailbox
    BY <1>0 DEF SameKind, IsMailbox
  <2> QED BY <2>1 DEF MailOk
<1> DEFINE o == obj
           n == obj'
<1>2. CASE obj' = obj
  BY <1>1, <1>2 DEF MailStep
<1>3. ASSUME NEW m \in Message, obj' = Posted(obj, m), obj.entry # Capacity
      PROVE  MbOk(obj') /\ MailStep
  <2>1. /\ MbOk(Posted(o, m)) /\ MailsOf(Posted(o, m)) = Append(MailsOf(o), m)
    <3>1. MbOk(o) /\ o.entry # Capacity /\ m \in Message
      BY <1>1, <1>3
    <3> HIDE DEF o
    <3> QED BY ONLY <3>1, PostedOk
  <2>2. obj.entry < Capacity
    BY <1>1, <1>3, CapacityAssumption DEF MbOk
  <2> QED BY <1>3, <2>1, <2>2 DEF MailStep
<1>4. ASSUME NEW m \in Message, obj' = PostedFirst(obj, m), obj.entry # Capacity
      PROVE  MbOk(obj') /\ MailStep
  <2>1. /\ MbOk(PostedFirst(o, m)) /\ MailsOf(PostedFirst(o, m)) = <<m>> \o MailsOf(o)
    <3>1. MbOk(o) /\ o.entry # Capacity /\ m \in Message
      BY <1>1, <1>4
    <3> HIDE DEF o
    <3> QED BY ONLY <3>1, PostedFirstOk
  <2>2. obj.entry < Capacity
    BY <1>1, <1>4, CapacityAssumption DEF MbOk
  <2> QED BY <1>4, <2>1, <2>2 DEF MailStep
<1>5. ASSUME obj' = Fetched(obj), obj.entry # 0 PROVE MbOk(obj') /\ MailStep
  <2>1. MbOk(Fetched(o)) /\ MailsOf(Fetched(o)) = Tail(MailsOf(o))
    <3>1. MbOk(o) /\ o.entry # 0
      BY <1>1, <1>5
    <3> HIDE DEF o
    <3> QED BY ONLY <3>1, FetchedOk
  <2> QED BY <1>5, <2>1 DEF MailStep
<1>6. ASSUME obj' = [obj EXCEPT !.entry = 0, !.in_offset = 0, !.out_offset = 0]
      PROVE  MbOk(obj') /\ MailStep
  <2>1. MbOk(Cleared(o)) /\ MailsOf(Cleared(o)) = <<>>
    <3>1. MbOk(o)
      BY <1>1
    <3> HIDE DEF o
    <3> QED BY ONLY <3>1, ClearedOk
  <2>2. obj' = Cleared(o)
    BY <1>6 DEF Cleared
  <2> QED BY <2>1, <2>2 DEF MailStep
<1>7. Passes \/ Schedules \/ Fails \/ MbOutcome
  BY <1>0, <1>1 DEF Outcome, IsMailbox, IsQueue, IsEvent, IsPool, IsCompletion, IsSerial
<1>8. CASE MbOutcome
  BY <1>2, <1>3, <1>4, <1>5, <1>6, <1>8 DEF MbOutcome, ChanWaits, ChanFails
<1> QED BY <1>2, <1>7, <1>8 DEF Passes, Schedules, Fails, ChanFails

\* rt_mb_init
LEMMA InitMailOk == ObjectsInit => MailOk
<1> SUFFICES ASSUME ObjectsInit, IsMailbox PROVE MbOk(obj)
  BY DEF MailOk
<1>1. obj \in MailboxInit
  BY DEF ObjectsInit, IsMailbox, MessageQueueInit, MempoolInit, EventInit, SerialInit, CompletionInit
<1>2. /\ MbFields \subseteq DOMAIN obj /\ obj.msg_pool \in [0 .. (Capacity - 1) -> {Nothing}]
      /\ obj.entry = 0 /\ obj.in_offset = 0 /\ obj.out_offset = 0
  BY <1>1 DEF MailboxInit, MbFields
<1>3. Wrap(Capacity, 0 + 0) = 0 /\ 0 \in 0 .. (Capacity - 1) /\ 0 \in 0 .. Capacity
  BY CapacityAssumption DEF Wrap
<1> QED BY <1>2, <1>3 DEF MbOk

-----------------------------------------------------------------------------
(* The types of the state *)

CallLabels == Label \cup {"block", "woken", "fill", "copy", "retry", "done", "ask"}

\* The labels of the calls.
LEMMA NextLabels ==
    ASSUME BInv, pc \in [Thread -> CallLabels], [ObjectsNext]_allVars
    PROVE  pc' \in [Thread -> CallLabels]
<1>0. Base /\ IInv /\ IInv' /\ Outcome /\ k.current \in Thread
  BY Outcomes DEF BInv, Base, IInv, Typed, KernelState
<1>1. CASE Passes
  <2>1. pc' \in [Thread -> EveryLabel]
    BY <1>0 DEF IInv, Typed
  <2>2. ASSUME NEW t \in Thread PROVE pc'[t] \in CallLabels
    <3>1. pc'[t] = pc[t] \/ pc'[t] \in Label \/ pc'[t] = "run"
      BY <1>0, <1>1, NextPc DEF Passes
    <3>2. pc[t] \in CallLabels
      OBVIOUS
    <3> QED BY <3>1, <3>2 DEF CallLabels, Label
  <2> QED BY <2>1, <2>2
<1>2. CASE pc' = pc \/ \E l \in CallLabels : pc' = [pc EXCEPT ![k.current] = l]
  BY <1>0, <1>2
<1>3. ASSUME NEW l, Moves(l), l \in CallLabels PROVE pc' \in [Thread -> CallLabels]
  BY <1>2, <1>3 DEF Moves
<1>4. ASSUME NEW w, Waits(w) PROVE pc' \in [Thread -> CallLabels]
  <2>1. pc' = [pc EXCEPT ![k.current] = "block"] /\ "block" \in CallLabels
    BY <1>4 DEF Waits, JoinsAt, CallLabels
  <2> QED BY <1>2, <2>1
<1>5. {"run", "sched", "ask", "retry", "woken", "done", "fill", "copy"} \subseteq CallLabels
  BY DEF CallLabels, Label
<1>6. ASSUME NEW op, Returns(op) PROVE pc' \in [Thread -> CallLabels]
  BY <1>2, <1>5, <1>6 DEF Returns
<1>7. ASSUME NEW op, ChanFails(op) PROVE pc' \in [Thread -> CallLabels]
  BY <1>3, <1>5, <1>7 DEF ChanFails
<1>8. CASE Schedules \/ Fails \/ ChanBroken
  BY <1>2, <1>5, <1>7, <1>8 DEF Schedules, Fails, ChanBroken
<1>9. ASSUME NEW w, ChanWaits(w) PROVE pc' \in [Thread -> CallLabels]
  BY <1>4, <1>9 DEF ChanWaits
<1>10. CASE MbOutcome
  BY <1>6, <1>7, <1>8, <1>9, <1>10 DEF MbOutcome
<1>11. CASE MqOutcome
  <2>1. ASSUME NEW t, NEW L, NEW l, Turn(t, L, {l}) \/ Turn(t, L, {"run", "sched"}),
               l \in {"fill", "copy"}
        PROVE  pc' \in [Thread -> CallLabels]
    BY <1>2, <1>5, <2>1 DEF Turn
  <2>2. ASSUME NEW t, NEW c, MqAllots(t, c) \/ MqUnlinks(t, c) PROVE pc' \in [Thread -> CallLabels]
    BY <2>1, <2>2 DEF MqAllots, MqUnlinks
  <2>3. ASSUME NEW t, MqLinks(t) \/ MqFrees(t) PROVE pc' \in [Thread -> CallLabels]
    BY <2>1, <2>3 DEF MqLinks, MqFrees
  <2> QED BY <1>7, <1>8, <1>9, <1>11, <2>2, <2>3 DEF MqOutcome
<1>12. CASE EventOutcome
  BY <1>2, <1>3, <1>4, <1>5, <1>12 DEF EventOutcome
<1>13. CASE PoolOutcome
  BY <1>2, <1>3, <1>4, <1>5, <1>13 DEF PoolOutcome, vars
<1>14. CASE CompletionOutcome
  BY <1>2, <1>3, <1>4, <1>5, <1>6, <1>14 DEF CompletionOutcome, vars
<1>15. CASE SerialOutcome
  BY <1>2, <1>3, <1>4, <1>5, <1>15 DEF SerialOutcome, RxOutcome, GetOutcome, vars
<1> QED BY <1>0, <1>1, <1>8, <1>10, <1>11, <1>12, <1>13, <1>14, <1>15 DEF Outcome

\* Everything that the objects keep.
TypeInv ==
    /\ EventInv /\ SerialInv /\ PoolInv /\ QueueOk /\ MailOk
    /\ pc \in [Thread -> CallLabels]

\* It holds in every state.
LEMMA AlwaysTypeInv == ObjectsSpec => []TypeInv
<1>1. ASSUME TypeInv, [ObjectsNext]_allVars PROVE TypeInv'
  <2>1. BInv
    BY <1>1 DEF TypeInv, EventInv
  <2>2. EventInv' /\ SerialInv' /\ QueueOk' /\ MailOk' /\ pc' \in [Thread -> CallLabels]
    BY <1>1, <2>1, NextEventInv, NextSerialInv, NextQueueOk, NextMailOk, NextLabels DEF TypeInv
  <2>3. PoolInv'
    BY <1>1, NextPoolInv DEF TypeInv
  <2> QED BY <2>2, <2>3 DEF TypeInv
<1>2. ASSUME ObjectsInit PROVE TypeInv
  <2>1. pc \in [Thread -> CallLabels]
    BY <1>2 DEF ObjectsInit, Init, CallLabels, Label
  <2> QED BY <1>2, <2>1, InitEventInv, InitSerialInv, InitPoolInv, InitQueueOk, InitMailOk
        DEF TypeInv
<1> QED BY <1>1, <1>2, PTL DEF ObjectsSpec

\* Types of the kernel, the labels and every object: in particular entry stays
\* between 0 and the capacity in rt_mb_send_wait, rt_mb_urgent, rt_mq_send_wait
\* and their interrupt forms, the offsets and indices of the rings inside the
\* buffers, and the links of cells and blocks inside the pools.
THEOREM ObjectsTypeCorrect == ObjectsSpec => []ObjectsTypeOK
<1>1. ASSUME TypeInv PROVE ObjectsTypeOK
  <2>1. k \in KernelState /\ pc \in [Thread -> CallLabels]
    BY <1>1 DEF TypeInv, EventInv, BInv, Base, IInv, Typed
  <2>2. IsMailbox => MbOk(obj)
    BY <1>1 DEF TypeInv, MailOk
  <2>3. ASSUME IsQueue
        PROVE  /\ obj.entry \in 0 .. Capacity /\ obj.next \in [Cell -> Cell \cup {Null}]
               /\ obj.data \in [Cell -> Message \cup {Nothing}]
    <3>1. PICK q, p : QueueWith(q, p)
      BY <1>1, <2>3 DEF TypeInv, QueueOk
    <3>2. QOk(obj, q, p, Owned) /\ obj.entry = Len(q)
      BY <3>1 DEF QueueWith
    <3>3. QLists(obj.next, obj.msg_queue_head, obj.msg_queue_tail, obj.msg_queue_free, q, p, Owned)
      BY <3>2 DEF QOk
    <3>4. q \in Seq(Cell) /\ NoDup(q) /\ obj.next \in [Cell -> Cell \cup {Null}]
      <4>1. q \in Seq(Cell)
        BY <3>3, QListsFacts
      <4> QED BY <3>3, <4>1 DEF QLists
    <3>5. Len(q) \in 0 .. Capacity
      <4>1. Capacity \in Nat /\ q \in Seq(1 .. Capacity) /\ NoDup(q)
        BY <3>4, CapacityAssumption DEF Cell
      <4> QED BY ONLY <4>1, NoDupLength
    <3> QED BY <3>2, <3>4, <3>5 DEF QOk
  <2>4. IsEvent => obj.set \subseteq EventBit
    BY <1>1 DEF TypeInv, EventInv, SetTyped
  <2>5. IsSerial => /\ {obj.put_index, obj.get_index} \subseteq Index
                    /\ obj.rx_sem \in 0 .. RxValueMax
    BY <1>1 DEF TypeInv, SerialInv, RingOk, SerialState
  <2>6. IsPool => obj.header \in [Block_ -> Block_ \cup {NoBlock, Pool}]
    BY <1>1 DEF TypeInv, PoolInv, PoolOk, PoolState
  <2> QED BY <2>1, <2>2, <2>3, <2>4, <2>5, <2>6 DEF ObjectsTypeOK, CallLabels, MbOk
<1> QED BY <1>1, AlwaysTypeInv, PTL

-----------------------------------------------------------------------------
(* The message queue as a queue of messages *)

\* The messages in the cells of s.
Spelled(data, s) == [i \in 1 .. Len(s) |-> data[s[i]]]

\* They are a sequence.
LEMMA SpelledSeq ==
    ASSUME NEW S, NEW data \in [Cell -> S], NEW s \in Seq(Cell)
    PROVE  /\ Spelled(data, s) \in Seq(S) /\ Len(Spelled(data, s)) = Len(s)
           /\ \A i \in 1 .. Len(s) : Spelled(data, s)[i] = data[s[i]]
BY DEF Spelled

\* The first cell leaves.
LEMMA SpelledTail ==
    ASSUME NEW S, NEW data \in [Cell -> S], NEW s \in Seq(Cell), s # <<>>
    PROVE  /\ Spelled(data, Tail(s)) = Tail(Spelled(data, s))
           /\ Spelled(data, s) # <<>> /\ Head(Spelled(data, s)) = data[Head(s)]
<1> DEFINE a == Spelled(data, s)
           b == Spelled(data, Tail(s))
<1>1. /\ a \in Seq(S) /\ Len(a) = Len(s) /\ \A i \in 1 .. Len(s) : a[i] = data[s[i]]
  BY DEF Spelled
<1>2. /\ Tail(s) \in Seq(Cell) /\ Len(Tail(s)) = Len(s) - 1 /\ Len(s) \in Nat \ {0}
      /\ \A i \in 1 .. (Len(s) - 1) : Tail(s)[i] = s[i + 1]
  OBVIOUS
<1>3. /\ b \in Seq(S) /\ Len(b) = Len(s) - 1
      /\ \A i \in 1 .. (Len(s) - 1) : b[i] = data[s[i + 1]]
  <2> DEFINE r == Tail(s)
  <2>1. r \in Seq(Cell)
    BY <1>2
  <2> HIDE DEF r
  <2>2. /\ Spelled(data, r) \in Seq(S) /\ Len(Spelled(data, r)) = Len(r)
        /\ \A i \in 1 .. Len(r) : Spelled(data, r)[i] = data[r[i]]
    BY <2>1 DEF Spelled
  <2>3. r = Tail(s) /\ b = Spelled(data, r)
    BY DEF r
  <2>4. b \in Seq(S) /\ Len(b) = Len(r) /\ \A i \in 1 .. Len(r) : b[i] = data[r[i]]
    BY <2>2, <2>3
  <2> HIDE DEF b
  <2>5. Len(r) = Len(s) - 1 /\ \A i \in 1 .. (Len(s) - 1) : r[i] = s[i + 1]
    BY <1>2, <2>3
  <2> QED BY <2>4, <2>5
<1> HIDE DEF a, b
<1>4. a # <<>> /\ Head(a) = data[Head(s)]
  BY <1>1, <1>2
<1>5. /\ Tail(a) \in Seq(S) /\ Len(Tail(a)) = Len(s) - 1
      /\ \A i \in 1 .. (Len(s) - 1) : Tail(a)[i] = a[i + 1] /\ i + 1 \in 1 .. Len(s)
  BY <1>1, <1>2, <1>4
<1>6. b = Tail(a)
  <2>1. \A i \in 1 .. Len(b) : b[i] = Tail(a)[i]
    BY <1>1, <1>3, <1>5
  <2> QED BY <1>3, <1>5, <2>1, SeqEqual
<1> QED BY <1>4, <1>6 DEF a, b

\* A cell with message m comes to the end, or to the front.
AtEnds(data, s, c, m) ==
    /\ Spelled(Written(data, c, m), Append(s, c)) = Append(Spelled(data, s), m)
    /\ Spelled(Written(data, c, m), <<c>> \o s) = <<m>> \o Spelled(data, s)

\* The messages of the cells, when one is linked at the end.
LEMMA SpelledAppend ==
    ASSUME NEW S, NEW data \in [Cell -> S], NEW s \in Seq(Cell), NEW c \in Cell,
           c \notin Members(s), NEW m \in S
    PROVE  AtEnds(data, s, c, m)
<1> DEFINE d == Written(data, c, m)
           a == Spelled(data, s)
           n == Len(s)
<1>1. /\ a \in Seq(S) /\ Len(a) = n /\ \A i \in 1 .. n : a[i] = data[s[i]]
  BY SpelledSeq
<1>2. /\ d \in [Cell -> S] /\ d[c] = m /\ \A i \in 1 .. n : d[s[i]] = data[s[i]]
      /\ n \in Nat
  <2>1. n \in Nat /\ \A i \in 1 .. n : s[i] \in Cell /\ s[i] # c
    BY DEF Members
  <2> QED BY <2>1 DEF Written
<1> HIDE DEF d
<1>3. Spelled(d, Append(s, c)) = Append(a, m)
  <2> DEFINE r == Append(s, c)
             b == Spelled(d, r)
  <2>1. /\ r \in Seq(Cell) /\ Len(r) = n + 1 /\ r[n + 1] = c
        /\ \A i \in 1 .. n : r[i] = s[i]
    OBVIOUS
  <2> HIDE DEF r
  <2>2. b \in Seq(S) /\ Len(b) = n + 1 /\ \A i \in 1 .. (n + 1) : b[i] = d[r[i]]
    <3>1. b \in Seq(S) /\ Len(b) = Len(r) /\ \A i \in 1 .. Len(r) : b[i] = d[r[i]]
      BY <1>2, <2>1 DEF Spelled
    <3> QED BY <2>1, <3>1
  <2> HIDE DEF b, a
  <2>3. /\ Append(a, m) \in Seq(S) /\ Len(Append(a, m)) = n + 1 /\ Append(a, m)[n + 1] = m
        /\ \A i \in 1 .. n : Append(a, m)[i] = a[i]
    BY <1>1, <1>2
  <2>4. ASSUME NEW i \in 1 .. (n + 1) PROVE b[i] = Append(a, m)[i]
    <3>1. i = n + 1 \/ i \in 1 .. n
      BY <1>2
    <3> HIDE DEF n
    <3>2. CASE i = n + 1
      BY <1>2, <2>1, <2>2, <2>3, <3>2
    <3>3. CASE i \in 1 .. n
      BY <1>1, <1>2, <2>1, <2>2, <2>3, <3>3
    <3> QED BY <3>1, <3>2, <3>3
  <2>5. b = Append(a, m)
    BY <2>2, <2>3, <2>4, SeqEqual
  <2> QED BY <2>5 DEF b, r
<1>4. Spelled(d, <<c>> \o s) = <<m>> \o a
  <2> DEFINE r == <<c>> \o s
             b == Spelled(d, r)
             e == <<m>> \o a
  <2>1. /\ r \in Seq(Cell) /\ Len(r) = n + 1 /\ r[1] = c
        /\ \A i \in 1 .. n : r[i + 1] = s[i]
    OBVIOUS
  <2> HIDE DEF r
  <2>2. b \in Seq(S) /\ Len(b) = n + 1 /\ \A i \in 1 .. (n + 1) : b[i] = d[r[i]]
    <3>1. b \in Seq(S) /\ Len(b) = Len(r) /\ \A i \in 1 .. Len(r) : b[i] = d[r[i]]
      BY <1>2, <2>1 DEF Spelled
    <3> QED BY <2>1, <3>1
  <2> HIDE DEF b, a
  <2>3. /\ e \in Seq(S) /\ Len(e) = n + 1 /\ e[1] = m
        /\ \A i \in 1 .. n : e[i + 1] = a[i]
    BY <1>1, <1>2
  <2> HIDE DEF e
  <2>4. ASSUME NEW i \in 1 .. (n + 1) PROVE b[i] = e[i]
    <3>1. i = 1 \/ \E j \in 1 .. n : i = j + 1
      <4>1. i = 1 \/ (i - 1 \in 1 .. n /\ i = (i - 1) + 1)
        BY <1>2
      <4> QED BY <4>1
    <3>2. b[i] = d[r[i]]
      BY <2>2
    <3> HIDE DEF n
    <3>3. CASE i = 1
      BY <1>2, <2>1, <2>3, <3>2, <3>3
    <3>4. ASSUME NEW j \in 1 .. n, i = j + 1 PROVE b[i] = e[i]
      <4>1. r[i] = s[j] /\ e[i] = a[j]
        BY <2>1, <2>3, <3>4
      <4> QED BY <1>1, <1>2, <3>2, <4>1
    <3> QED BY <3>1, <3>3, <3>4
  <2>5. b = e
    BY <2>2, <2>3, <2>4, SeqEqual
  <2> QED BY <2>5 DEF b, r, e
<1> QED BY <1>3, <1>4 DEF d, a, AtEnds

\* The message that t has in its hands.
HandOf(t) ==
    IF IsQueue /\ t \in Carrying /\ call[t].op = "recv" THEN obj.data[call[t].cell] ELSE Nothing

\* How one of them changes.
LEMMA HandsStep ==
    ASSUME NEW u \in Caller, \A t \in Caller \ {u} : HandOf(t)' = HandOf(t)
    PROVE  /\ InHand' = [InHand EXCEPT ![u] = HandOf(u)'] /\ InHand[u] = HandOf(u)
           /\ HandOf(u)' = HandOf(u) => InHand' = InHand
<1>1. InHand = [t \in Caller |-> HandOf(t)] /\ InHand' = [t \in Caller |-> HandOf(t)']
  BY DEF InHand, HandOf, Caller
<1> DEFINE f[t \in Caller] == HandOf(t)
           g[t \in Caller] == HandOf(t)'
<1>2. /\ \A t \in Caller : f[t] = HandOf(t) /\ g[t] = HandOf(t)'
      /\ InHand = f /\ InHand' = g
      /\ f = [t \in Caller |-> f[t]] /\ g = [t \in Caller |-> g[t]]
  BY <1>1
<1> HIDE DEF f, g
<1>3. \A t \in Caller : t # u => g[t] = f[t]
  BY <1>2
<1>4. g = [f EXCEPT ![u] = g[u]]
  BY <1>2, <1>3
<1>5. g[u] = f[u] => g = f
  BY <1>2, <1>3
<1> QED BY <1>2, <1>4, <1>5

\* A caller begins or ends a call, and what the others have stays.
LEMMA HandsOthers ==
    ASSUME SameKind, IsQueue, DOMAIN call = Caller, NEW u \in Caller, NEW c, Enters(u, c),
           \A x \in OwnedBut(u) : obj'.data[x] = obj.data[x]
    PROVE  /\ \A t \in Caller \ {u} : HandOf(t)' = HandOf(t)
           /\ HandOf(u)' = IF "cell" \in DOMAIN c /\ c.op = "recv"
                           THEN obj'.data[c.cell] ELSE Nothing
           /\ u \notin Carrying \/ call[u].op # "recv" => HandOf(u) = Nothing
<1>1. IsQueue' /\ call'[u] = c /\ \A t \in Caller \ {u} : call'[t] = call[t]
  BY DEF SameKind, IsQueue, Enters
<1>2. /\ \A t \in Caller : t \in Carrying' <=> "cell" \in DOMAIN call'[t]
      /\ \A t \in Caller : t \in Carrying <=> "cell" \in DOMAIN call[t]
  BY DEF Carrying, Caller
<1>3. ASSUME NEW t \in Caller \ {u} PROVE HandOf(t)' = HandOf(t)
  <2>1. (t \in Carrying' <=> t \in Carrying) /\ call'[t] = call[t]
    BY <1>1, <1>2
  <2>2. t \in Carrying => call[t].cell \in OwnedBut(u)
    BY DEF OwnedBut
  <2> QED BY <1>1, <2>1, <2>2 DEF HandOf
<1> QED BY <1>1, <1>2, <1>3 DEF HandOf

\* What the chains of the cells are, in this and in the next state.
ChainsFound == \A q, p : QueueWith(q, p) => Queued = q /\ Spare = p

\* The content of a queue is what its cells spell.
LEMMA ContentIs ==
    ASSUME ChainsFound, ChainsFound', SameKind, IsQueue
    PROVE  /\ \A q, p : QueueWith(q, p) => Content = Spelled(obj.data, q)
           /\ \A q, p : QueueWith(q, p)' => Content' = Spelled(obj'.data, q)
<1>1. IsQueue' /\ ~ IsMailbox /\ ~ IsMailbox'
  BY DEF SameKind, IsQueue, IsMailbox
<1>2. Content = Spelled(obj.data, Queued) /\ Content' = Spelled(obj'.data, Queued')
  BY <1>1 DEF Content, Messages, Spelled
<1> QED BY <1>2 DEF ChainsFound

\* The step of the abstract queue.
QueueStep == [Queue!Next]_<<Content, InHand>>

\* A caller that begins or ends a call without a message in its hands.
LEMMA QuietCall ==
    ASSUME Base, SameKind, IsQueue, NEW q, NEW p, QueueWith(q, p), NEW u \in Caller,
           NEW c, Enters(u, c), u \notin Carrying \/ call[u].op # "recv",
           "cell" \notin DOMAIN c \/ c.op # "recv",
           \A x \in OwnedBut(u) : obj'.data[x] = obj.data[x]
    PROVE  InHand' = InHand
<1>1. /\ \A t \in Caller \ {u} : HandOf(t)' = HandOf(t)
      /\ HandOf(u)' = Nothing /\ HandOf(u) = Nothing
  BY HandsOthers DEF Base
<1> QED BY <1>1, HandsStep

\* A thread that begins a call, or goes on after a wait, has no cell.
LEMMA FreeHands ==
    ASSUME NotReplaced, NEW q, NEW p, QueueWith(q, p), NEW u \in Caller,
           u \in Thread => pc[u] \in {"run", "woken"}, u = Handler => Quiet
    PROVE  u \notin Carrying
<1>1. Carriers
  BY DEF QueueWith
<1>2. Quiet => Handler \notin Carrying
  BY DEF Quiet, Carrying, NoCall
<1> QED BY <1>1, <1>2 DEF Carriers, Caller

\* Taking a cell from the free ones puts nothing into the queue.
LEMMA AllotStep ==
    ASSUME Base, SameKind, IsQueue, NotReplaced, ChainsFound, ChainsFound',
           NEW q, NEW p, QueueWith(q, p), NEW u \in Caller, NEW c, MqAllots(u, c)
    PROVE  QueueStep
<1>1. QueueWith(q, Tail(p))' /\ obj'.data = obj.data
  BY CellsAllot
<1>2. Content' = Content
  BY <1>1, ContentIs
<1>3. u \notin Carrying
  <2>1. Turn(u, {"run", "woken"}, {"fill"}) /\ (u = Handler => Quiet)
    BY DEF MqAllots, Begins
  <2>2. u \in Thread => pc[u] \in {"run", "woken"}
    BY <2>1, TurnPc
  <2> QED BY <2>1, <2>2, FreeHands
<1>4. Enters(u, c) /\ c.op # "recv"
  BY DEF MqAllots
<1>5. InHand' = InHand
  BY <1>1, <1>3, <1>4, QuietCall
<1> QED BY <1>2, <1>5 DEF QueueStep

\* A receiver takes the first message.
LEMMA UnlinkStep ==
    ASSUME Base, SameKind, IsQueue, NotReplaced, ChainsFound, ChainsFound',
           NEW q, NEW p, QueueWith(q, p), NEW u \in Caller, NEW c, MqUnlinks(u, c)
    PROVE  QueueStep
<1>1. /\ QueueWith(Tail(q), p)' /\ obj'.data = obj.data /\ q # <<>>
      /\ c.cell = Head(q) /\ q \in Seq(Cell)
  BY CellsUnlink
<1>2. Content = Spelled(obj.data, q) /\ Content' = Spelled(obj.data, Tail(q))
  BY <1>1, ContentIs
<1>3. Content # <<>> /\ Content' = Tail(Content) /\ Head(Content) = obj.data[c.cell]
  <2> DEFINE d == obj.data
             S == Message \cup {Nothing}
  <2>1. d \in [Cell -> S] /\ q \in Seq(Cell) /\ q # <<>>
    BY <1>1 DEF QueueWith, QOk
  <2> HIDE DEF d, S
  <2>2. /\ Spelled(d, Tail(q)) = Tail(Spelled(d, q))
        /\ Spelled(d, q) # <<>> /\ Head(Spelled(d, q)) = d[Head(q)]
    BY ONLY <2>1, SpelledTail
  <2> QED BY <1>1, <1>2, <2>2 DEF d
<1>4. u \notin Carrying
  <2>1. Turn(u, {"run", "woken"}, {"copy"}) /\ (u = Handler => Quiet)
    BY DEF MqUnlinks, Begins
  <2>2. u \in Thread => pc[u] \in {"run", "woken"}
    BY <2>1, TurnPc
  <2> QED BY <2>1, <2>2, FreeHands
<1>5. Enters(u, c) /\ c.op = "recv" /\ "cell" \in DOMAIN c
  BY DEF MqUnlinks
<1>6. /\ \A t \in Caller \ {u} : HandOf(t)' = HandOf(t)
      /\ HandOf(u)' = obj.data[c.cell] /\ HandOf(u) = Nothing
  BY <1>1, <1>4, <1>5, HandsOthers DEF Base
<1>7. InHand' = [InHand EXCEPT ![u] = Head(Content)] /\ InHand[u] = Nothing
  BY <1>3, <1>6, HandsStep
<1>8. Queue!Take(u)
  BY <1>3, <1>7 DEF Queue!Take
<1> QED BY <1>8 DEF QueueStep, Queue!Next, Caller

\* A sender puts its message into the queue.
LEMMA LinkStep ==
    ASSUME Base, MsgsTyped, SameKind, IsQueue, ChainsFound, ChainsFound',
           NEW q, NEW p, QueueWith(q, p), NEW u \in Caller, MqLinks(u)
    PROVE  QueueStep
<1>1. PICK c, m : Brings(u, c, m)
  BY DEF Brings
<1>2. /\ u \in Carrying /\ c \in Owned /\ c \in Cell /\ m \in Message
      /\ call[u].op # "recv" /\ Enters(u, NoCall) /\ Len(q) < Capacity
      /\ obj'.data = Written(obj.data, c, m) /\ c \notin Members(q)
      /\ QueueWith(Append(q, c), p)' \/ QueueWith(<<c>> \o q, p)'
  BY <1>1, CellsLink
<1> DEFINE d == obj.data
           S == Message \cup {Nothing}
<1>3. d \in [Cell -> S] /\ q \in Seq(Cell)
  <2>1. QLists(obj.next, obj.msg_queue_head, obj.msg_queue_tail, obj.msg_queue_free, q, p, Owned)
    BY DEF QueueWith, QOk
  <2>2. q \in Seq(Cell)
    BY <2>1, QListsFacts
  <2> QED BY <2>2 DEF QueueWith, QOk
<1>4. m \in S
  BY <1>2
<1>5. Content = Spelled(d, q) /\ obj'.data = Written(d, c, m)
  BY <1>2, ContentIs
<1>6. InHand' = InHand
  <2>1. call[u].cell = c /\ Holders
    BY <1>1 DEF Brings, QueueWith
  <2>2. OwnedBut(u) = Owned \ {c}
    BY <1>2, <2>1, OwnedOthers
  <2>3. \A x \in OwnedBut(u) : obj'.data[x] = obj.data[x]
    <3>1. Owned \subseteq Cell
      BY DEF QueueWith, QOk, QLists
    <3> QED BY <1>2, <1>3, <2>2, <3>1 DEF Written
  <2>4. "cell" \notin DOMAIN NoCall
    BY DEF NoCall
  <2> QED BY <1>2, <2>3, <2>4, QuietCall
<1>7. /\ QueueWith(Append(q, c), p)' => Content' = Spelled(Written(d, c, m), Append(q, c))
      /\ QueueWith(<<c>> \o q, p)' => Content' = Spelled(Written(d, c, m), <<c>> \o q)
  BY <1>5, ContentIs
<1> HIDE DEF d, S
<1>8. AtEnds(d, q, c, m)
  <2>1. d \in [Cell -> S] /\ q \in Seq(Cell) /\ c \in Cell /\ c \notin Members(q) /\ m \in S
    BY <1>2, <1>3, <1>4
  <2> QED BY ONLY <2>1, SpelledAppend
<1>9. Len(Content) < Capacity
  <2>1. Len(Content) = Len(q)
    BY <1>3, <1>5 DEF Spelled
  <2> QED BY <1>2, <2>1
<1>10. Content' = Append(Content, m) \/ Content' = <<m>> \o Content
  BY <1>2, <1>5, <1>7, <1>8 DEF AtEnds
<1>11. Queue!Put(m) \/ Queue!PutFirst(m)
  BY <1>6, <1>9, <1>10 DEF Queue!Put, Queue!PutFirst
<1> QED BY <1>2, <1>11 DEF QueueStep, Queue!Next

\* A receiver returns with its message.
LEMMA FreeStep ==
    ASSUME Base, SameKind, IsQueue, ChainsFound, ChainsFound',
           NEW q, NEW p, QueueWith(q, p), NEW u \in Caller, MqFrees(u)
    PROVE  QueueStep
<1>1. PICK c, m : Brings(u, c, m)
  BY DEF Brings
<1>2. /\ u \in Carrying /\ c \in Owned /\ call[u].op = "recv" /\ Enters(u, NoCall)
      /\ QueueWith(q, <<c>> \o p)' /\ obj'.data = obj.data
  BY <1>1, CellsFree
<1>3. Content' = Content
  BY <1>2, ContentIs
<1>4. HandOf(u) \in Message
  BY <1>2 DEF HandOf, QueueWith, Holders
<1>5. "cell" \notin DOMAIN NoCall
  BY DEF NoCall
<1>6. (\A t \in Caller \ {u} : HandOf(t)' = HandOf(t)) /\ HandOf(u)' = Nothing
  BY <1>2, <1>5, HandsOthers DEF Base
<1>7. InHand' = [InHand EXCEPT ![u] = Nothing] /\ InHand[u] # Nothing
  BY <1>4, <1>6, HandsStep, NothingAssumption
<1>8. Queue!Return(u)
  BY <1>3, <1>7 DEF Queue!Return
<1> QED BY <1>8 DEF QueueStep, Queue!Next, Caller

\* Steps that leave the cells where they are.
LEMMA StayStep ==
    ASSUME Base, SameKind, IsQueue, NotReplaced, ChainsFound, ChainsFound',
           NEW q, NEW p, QueueWith(q, p), QueueWith(q, p)' \/ \E r : QueueWith(<<>>, r)',
           obj'.data = obj.data,
           \/ call' = call
           \/ /\ k.current \in Thread /\ pc[k.current] \in {"run", "woken"}
              /\ \E c : Mine(c) /\ "cell" \notin DOMAIN c
    PROVE  QueueStep
<1>1. InHand' = InHand
  <2>1. CASE call' = call
    <3>1. Carrying' = Carrying /\ IsQueue'
      BY <2>1 DEF Carrying, SameKind, IsQueue
    <3> QED BY <2>1, <3>1 DEF InHand
  <2>2. ASSUME k.current \in Thread, pc[k.current] \in {"run", "woken"},
               NEW c, Mine(c), "cell" \notin DOMAIN c
        PROVE  InHand' = InHand
    <3> DEFINE u == k.current
    <3>1. u \in Caller /\ u # Handler /\ Enters(u, c)
      BY <2>2, HandlerAssumption DEF Caller, Mine, Enters
    <3> HIDE DEF u
    <3>2. u \notin Carrying
      BY <2>2, <3>1, FreeHands DEF u
    <3>3. \A x \in OwnedBut(u) : obj'.data[x] = obj.data[x]
      OBVIOUS
    <3> QED BY <2>2, <3>1, <3>2, <3>3, QuietCall
  <2> QED BY <2>1, <2>2
<1>2. CASE QueueWith(q, p)'
  <2>1. Content' = Content
    BY <1>2, ContentIs
  <2> QED BY <1>1, <2>1 DEF QueueStep
<1>3. ASSUME NEW r, QueueWith(<<>>, r)' PROVE QueueStep
  <2>1. Content' = Spelled(obj'.data, <<>>)
    BY <1>3, ContentIs
  <2>2. Content' = <<>>
    BY <2>1 DEF Spelled
  <2>3. Queue!Clear
    BY <1>1, <2>2 DEF Queue!Clear
  <2> QED BY <2>3 DEF QueueStep, Queue!Next
<1> QED BY <1>2, <1>3

\* The message queue implements the queue of messages.
LEMMA QueueImplements ==
    ASSUME BInv, QueueOk, IsQueue, NotReplaced, ChainsFound, ChainsFound', [ObjectsNext]_allVars
    PROVE  QueueStep
<1>0. Base /\ MsgsTyped /\ SameKind /\ Outcome
  BY Outcomes DEF BInv
<1>1. PICK q, p : QueueWith(q, p)
  BY DEF QueueOk
<1>2. pc \in [Thread -> EveryLabel] /\ IInv
  BY <1>0 DEF Base, IInv, Typed
<1>3. CASE Passes
  <2>1. ASSUME NEW t \in Thread
        PROVE  /\ pc'[t] \in {"fill", "copy"} => pc[t] = pc'[t]
               /\ NotReplaced /\ pc[t] \in {"fill", "copy"} => pc'[t] = pc[t]
    BY <1>2, <1>3, NextPc DEF Passes, NotReplaced, Label
  <2>2. QueueWith(q, p)'
    BY <1>1, <1>3, <2>1, CellsStay DEF Passes
  <2> QED BY <1>0, <1>1, <1>3, <2>2, StayStep DEF Passes
<1>4. CASE Schedules
  <2>1. ASSUME NEW t \in Thread
        PROVE  /\ pc'[t] \in {"fill", "copy"} => pc[t] = pc'[t]
               /\ NotReplaced /\ pc[t] \in {"fill", "copy"} => pc'[t] = pc[t]
    BY <1>2, <1>4 DEF Schedules
  <2>2. QueueWith(q, p)'
    BY <1>1, <1>4, <2>1, CellsStay DEF Schedules
  <2> QED BY <1>0, <1>1, <1>4, <2>2, StayStep DEF Schedules
<1>5. ASSUME NEW op, ChanFails(op) PROVE QueueStep
  <2>1. "cell" \notin DOMAIN NoCall
    BY DEF NoCall
  <2>2. /\ obj' = obj /\ Mine(NoCall) /\ pc' = [pc EXCEPT ![k.current] = "run"]
        /\ k.current \in Thread /\ pc[k.current] \in {"run", "woken"}
    BY <1>5 DEF ChanFails, Moves
  <2>3. QueueWith(q, p)'
    BY <1>0, <1>1, <2>1, <2>2, CellsKept
  <2> QED BY <1>0, <1>1, <2>1, <2>2, <2>3, StayStep
<1>6. ASSUME NEW w, ChanWaits(w) PROVE QueueStep
  <2>1. PICK c : Mine(c) /\ "cell" \notin DOMAIN c
    BY <1>6 DEF ChanWaits
  <2>2. /\ obj' = obj /\ pc' = [pc EXCEPT ![k.current] = "block"]
        /\ k.current \in Thread /\ pc[k.current] \in {"run", "woken"}
    BY <1>6 DEF ChanWaits, Waits, JoinsAt
  <2>3. QueueWith(q, p)'
    BY <1>0, <1>1, <2>1, <2>2, CellsKept
  <2> QED BY <1>0, <1>1, <2>1, <2>2, <2>3, StayStep
<1>7. ASSUME NEW u \in Caller, NEW c, MqAllots(u, c) \/ MqUnlinks(u, c) PROVE QueueStep
  BY <1>0, <1>1, <1>7, AllotStep, UnlinkStep
<1>8. ASSUME NEW u \in Caller, MqLinks(u) \/ MqFrees(u) PROVE QueueStep
  BY <1>0, <1>1, <1>8, LinkStep, FreeStep
<1>9. ASSUME obj' = [AllDrained(obj, Queued) EXCEPT !.entry = 0], ChanBroken PROVE QueueStep
  <2>1. (\E r : QueueWith(<<>>, r)') /\ obj'.data = obj.data
    BY <1>0, <1>1, <1>9, CellsReset
  <2>2. call' = call
    BY <1>9 DEF ChanBroken
  <2> QED BY <1>0, <1>1, <2>1, <2>2, StayStep
<1>10. Passes \/ Schedules \/ Fails \/ MqOutcome
  BY <1>0 DEF Outcome, IsMailbox, IsQueue, IsEvent, IsPool, IsCompletion, IsSerial
<1>11. CASE MqOutcome
  BY <1>5, <1>6, <1>7, <1>8, <1>9, <1>11 DEF MqOutcome
<1>12. CASE Fails
  BY <1>5, <1>12 DEF Fails
<1> QED BY <1>3, <1>4, <1>10, <1>11, <1>12

\* The mailbox implements it.
LEMMA MailboxImplements ==
    ASSUME BInv, MailOk, IsMailbox, [ObjectsNext]_allVars PROVE QueueStep
<1>0. SameKind /\ MailOk' /\ MailStep
  BY Outcomes, NextMailOk
<1>1. IsMailbox' /\ MbOk(obj) /\ MbOk(obj') /\ ~ IsQueue /\ ~ IsQueue'
  BY <1>0 DEF SameKind, IsMailbox, IsQueue, MailOk
<1>2. InHand' = InHand
  BY <1>1 DEF InHand
<1> DEFINE o == obj
           n == obj'
<1>3. Content = MailsIn(o) /\ Content' = MailsIn(n)
  BY <1>1 DEF Content, Mails, MailsIn
<1>4. MbOk(o) /\ MbOk(n)
  BY <1>1
<1>5. MailStep
  BY <1>0
<1> HIDE DEF o, n
<1>6. /\ MailsIn(o) = MailsOf(o) /\ MailsOf(o) \in Seq(Message \cup {Nothing})
      /\ Len(MailsOf(o)) = o.entry /\ MailsIn(n) = MailsOf(n)
  BY <1>4, MailsAre
<1>7. /\ Content = MailsOf(obj) /\ Content' = MailsOf(obj') /\ Len(Content) = obj.entry
      /\ Content \in Seq(Message \cup {Nothing})
  BY <1>3, <1>6 DEF o, n
<1>8. CASE Content' = Content
  BY <1>2, <1>8 DEF QueueStep
<1>9. CASE Content' = <<>>
  BY <1>2, <1>9 DEF QueueStep, Queue!Next, Queue!Clear
<1>10. ASSUME NEW m \in Message, obj.entry < Capacity,
              Content' = Append(Content, m) \/ Content' = <<m>> \o Content
       PROVE  QueueStep
  <2>1. Queue!Put(m) \/ Queue!PutFirst(m)
    BY <1>2, <1>7, <1>10 DEF Queue!Put, Queue!PutFirst
  <2> QED BY <2>1 DEF QueueStep, Queue!Next
<1>11. CASE obj.entry # 0 /\ Content' = Tail(Content)
  <2>1. Content # <<>>
    BY <1>7, <1>11
  <2>2. Queue!Receive
    BY <1>2, <1>11, <2>1 DEF Queue!Receive
  <2> QED BY <2>2 DEF QueueStep, Queue!Next
<1> QED BY <1>5, <1>7, <1>8, <1>9, <1>10, <1>11 DEF MailStep

\* The other objects hold no messages.
LEMMA OthersImplement ==
    ASSUME BInv, ~ IsMailbox, ~ IsQueue, [ObjectsNext]_allVars PROVE QueueStep
<1>1. SameKind
  BY Outcomes
<1>2. ~ IsMailbox' /\ ~ IsQueue'
  BY <1>1 DEF SameKind, IsMailbox, IsQueue
<1> QED BY <1>2 DEF QueueStep, Content, InHand

\* The initial states are those of the abstract queue.
LEMMA InitImplements == ASSUME ObjectsInit, ChainsFound PROVE Queue!Init
<1>1. InHand = [t \in Caller |-> Nothing]
  <2>1. \A t \in Caller : t \notin Carrying
    BY DEF ObjectsInit, Carrying, Caller, NoCall
  <2> QED BY <2>1 DEF InHand, Caller
<1>2. Content = <<>>
  <2>1. ASSUME IsMailbox PROVE Mails = <<>>
    <3>1. obj \in MailboxInit
      BY <2>1 DEF ObjectsInit, IsMailbox, MessageQueueInit, MempoolInit, EventInit,
         SerialInit, CompletionInit
    <3>2. obj.entry = 0
      BY <3>1 DEF MailboxInit
    <3> QED BY <3>2 DEF Mails
  <2>2. ASSUME IsQueue PROVE Messages = <<>>
    <3>1. obj \in MessageQueueInit
      BY <2>2 DEF ObjectsInit, IsQueue, MailboxInit, MempoolInit, EventInit,
         SerialInit, CompletionInit
    <3>2. obj.entry = 0
      BY <3>1 DEF MessageQueueInit
    <3>3. PICK q, p : QueueWith(q, p)
      BY <2>2, InitQueueOk DEF QueueOk
    <3>4. Queued = q /\ Len(q) = 0
      BY <3>2, <3>3 DEF ChainsFound, QueueWith
    <3> QED BY <3>4 DEF Messages
  <2> QED BY <2>1, <2>2 DEF Content
<1> QED BY <1>1, <1>2 DEF Queue!Init, Caller

\* Refinement: the ring of the mailbox and the chains of the message queue
\* are a bounded queue, for every capacity and every set of messages and
\* threads, whatever way rt_mb_send_wait, rt_mb_recv, rt_mq_send_wait,
\* rt_mq_urgent, rt_mq_recv, their calls in an interrupt handler and the
\* reset of RT_IPC_CMD_RESET cross.
THEOREM ObjectsImplementQueue ==
    ASSUME NotReplaced PROVE ObjectsSpec => ImplementsQueue
<1> DEFINE Inv == BInv /\ QueueOk /\ MailOk
<1>1. ObjectsInit => Inv
  BY InitBInv, InitQueueOk, InitMailOk
<1>2. Inv /\ [ObjectsNext]_allVars => Inv'
  BY NextBInv, NextQueueOk, NextMailOk
<1>3. ChainsFound
  BY ChainsAre DEF ChainsFound, QueueWith
<1>4. Inv /\ [ObjectsNext]_allVars /\ ChainsFound /\ ChainsFound'
      => [Queue!Next]_<<Content, InHand>>
  BY QueueImplements, MailboxImplements, OthersImplement DEF QueueStep
<1>5. ObjectsInit /\ ChainsFound => Queue!Init
  BY InitImplements
<1>6. ObjectsSpec => Queue!Spec
  BY <1>1, <1>2, <1>3, <1>4, <1>5, PTL DEF ObjectsSpec, Queue!Spec
<1> QED BY <1>6 DEF ImplementsQueue

-----------------------------------------------------------------------------
(* No lost wakeup *)

\* A thread on a list has not been told of an error.
ErrorsOk == \A w \in WaitList : \A t \in Members(k.wait[w]) : k.error[t] = "ok"

\* Every step keeps it so.
LEMMA NextErrorsOk ==
    ASSUME Base, TakersKept, WaitersLeftAlone, Shape, ErrorsOk PROVE ErrorsOk'
<1>0. /\ IInv /\ k.current \in Thread /\ k.error \in [Thread -> Error]
      /\ \A w \in WaitList : Members(k.wait[w]) \subseteq Thread
  BY WaitersSuspended DEF Base, IInv, Typed, KernelState
<1> SUFFICES ASSUME NEW w \in WaitList, NEW t \in Members(k'.wait[w])
             PROVE  k'.error[t] = "ok"
  BY DEF ErrorsOk
<1>1. ASSUME t \in Members(k.wait[w]), k'.error[t] = k.error[t] PROVE k'.error[t] = "ok"
  BY <1>1 DEF ErrorsOk
<1>2. CASE PassesBy
  <2>1. t \in Members(k.wait[w]) /\ t \in Thread
    BY <1>0, <1>2 DEF PassesBy
  <2>2. pc[t] \in InWait
    BY <2>1 DEF TakersKept
  <2> QED BY <1>1, <1>2, <2>1, <2>2 DEF PassesBy, Undisturbed
<1>3. ASSUME NEW h \in Thread, TimesOut(h) PROVE k'.error[t] = "ok"
  <2>1. k'.wait = WaitsWithout(k, h) /\ k'.error = [k.error EXCEPT ![h] = "timeout"]
    BY <1>3 DEF TimesOut, Fired
  <2>2. t \in Members(k.wait[w]) \ {h}
    BY <1>0, <2>1, MembersLeft
  <2> QED BY <1>0, <1>1, <2>1, <2>2
<1>4. CASE GoesOn
  <2>1. PICK l : Moves(l)
    BY <1>4 DEF GoesOn
  <2>2. t \in Members(k.wait[w]) /\ t # k.current
    BY <1>4, <2>1 DEF Moves, GoesOn, Ready, OffWaits
  <2> QED BY <1>0, <1>1, <2>1, <2>2 DEF Moves
<1>5. ASSUME NEW R, Frees(k, k', R) PROVE k'.error[t] = "ok"
  <2>1. t \in Members(k.wait[w]) /\ t \notin R
    BY <1>5 DEF Frees
  <2> QED BY <1>0, <1>1, <1>5, <2>1 DEF Frees
<1>6. ASSUME NEW v \in WaitList, Waits(v), Ready PROVE k'.error[t] = "ok"
  <2>1. k'.error = [k.error EXCEPT ![k.current] = "ok"]
    BY <1>6 DEF Waits, JoinsAt
  <2>2. t \in Members(k.wait[w]) \/ t = k.current
    BY <1>6 DEF Waits, JoinsAt
  <2> QED BY <1>0, <1>1, <2>1, <2>2
<1>7. Passes => PassesBy \/ \E h \in Thread : TimesOut(h)
  BY <1>0, NextWaiters DEF Passes
<1>8. CASE Passes \/ Schedules
  BY <1>2, <1>3, <1>7, <1>8 DEF Schedules
<1> QED BY <1>4, <1>5, <1>6, <1>8 DEF Shape, Readies

-----------------------------------------------------------------------------
(* How many threads are on their way *)

\* Those that were on their way still are, but for u.
Keeps(op) == \A t \in Thread : OnWay(t, op) => OnWay(t, op)'

KeepsBut(u, op) == \A t \in Thread \ {u} : OnWay(t, op) => OnWay(t, op)'

\* One more is.
Gains(op) == Keeps(op) /\ \E h \in Thread : ~ OnWay(h, op) /\ OnWay(h, op)'

\* Their number.
LEMMA WokenCount ==
    ASSUME NEW op
    PROVE  /\ Cardinality(Woken(op)) \in Nat /\ Cardinality(Woken(op)') \in Nat
           /\ Keeps(op) => Cardinality(Woken(op)) <= Cardinality(Woken(op)')
           /\ Gains(op) => Cardinality(Woken(op)) + 1 <= Cardinality(Woken(op)')
           /\ \A u : KeepsBut(u, op) => Cardinality(Woken(op)) - 1 <= Cardinality(Woken(op)')
<1> DEFINE A == {t \in Thread : OnWay(t, op)}
           B == {t \in Thread : OnWay(t, op)'}
<1>0. Woken(op) = A /\ Woken(op)' = B
  BY WokenIs, WokenNext
<1>1. IsFiniteSet(A) /\ IsFiniteSet(B)
  BY ThreadAssumption, FS_Subset
<1>2. Cardinality(A) \in Nat /\ Cardinality(B) \in Nat
  BY <1>1, FS_CardinalityType
<1>3. Keeps(op) => A \subseteq B
  BY DEF Keeps
<1>4. ASSUME NEW h \in Thread, ~ OnWay(h, op), OnWay(h, op)', Keeps(op)
      PROVE  A \cup {h} \subseteq B /\ h \notin A
  BY <1>3, <1>4
<1>5. ASSUME NEW u, KeepsBut(u, op) PROVE A \subseteq B \cup {u}
  BY <1>5 DEF KeepsBut
<1> HIDE DEF A, B
<1>6. ASSUME Keeps(op) PROVE Cardinality(A) <= Cardinality(B)
  BY <1>1, <1>3, <1>6, FS_Subset
<1>7. ASSUME NEW h, A \cup {h} \subseteq B, h \notin A
      PROVE  Cardinality(A) + 1 <= Cardinality(B)
  <2>1. IsFiniteSet(A \cup {h}) /\ Cardinality(A \cup {h}) = Cardinality(A) + 1
    BY <1>1, <1>7, FS_AddElement
  <2>2. Cardinality(A \cup {h}) <= Cardinality(B)
    BY <1>1, <1>7, FS_Subset
  <2> QED BY <2>1, <2>2
<1>8. ASSUME NEW u, A \subseteq B \cup {u} PROVE Cardinality(A) - 1 <= Cardinality(B)
  <2>1. /\ IsFiniteSet(B \cup {u})
        /\ Cardinality(B \cup {u}) = Cardinality(B) \/ Cardinality(B \cup {u}) = Cardinality(B) + 1
    BY <1>1, FS_AddElement
  <2>2. Cardinality(A) <= Cardinality(B \cup {u})
    BY <1>8, <2>1, FS_Subset
  <2> QED BY <1>2, <2>1, <2>2
<1> QED BY <1>0, <1>2, <1>4, <1>5, <1>6, <1>7, <1>8 DEF Gains

\* What a step does to list w, where calls op wait.
OpOf(w, op) == WaitingOp(w) = op /\ WaitingOp(w)' = op

Change(w, op) ==
    \/ k'.wait[w] = <<>>
    \/ Offered(w)' = 0
    \/ /\ k.wait[w] # <<>> /\ Offered(w) \in Int
       /\ \/ Offered(w)' = Offered(w) /\ Keeps(op)
          \/ Offered(w)' = Offered(w) - 1 /\ \E u : KeepsBut(u, op)
          \/ Offered(w)' = Offered(w) + 1 /\ Gains(op)

ServedOn(w) == k.wait[w] # <<>> => Offered(w) <= Cardinality(Woken(WaitingOp(w)))

\* Such a step leaves ServedOn true.
LEMMA ServedStep ==
    ASSUME NEW w \in WaitList, NEW op, OpOf(w, op), ServedOn(w), Change(w, op)
    PROVE  ServedOn(w)'
<1> DEFINE a == Cardinality(Woken(op))
           b == Cardinality(Woken(op)')
           x == Offered(w)
           y == Offered(w)'
<1>1. /\ a \in Nat /\ b \in Nat
      /\ Keeps(op) => a <= b
      /\ Gains(op) => a + 1 <= b
      /\ \A u : KeepsBut(u, op) => a - 1 <= b
  BY WokenCount
<1>2. (k.wait[w] # <<>> => x <= a) /\ (ServedOn(w)' <=> (k'.wait[w] # <<>> => y <= b))
  <2>1. Cardinality(Woken(WaitingOp(w))) = a /\ Cardinality(Woken(WaitingOp(w)))' = b
    BY DEF OpOf, Woken
  <2> QED BY <2>1 DEF ServedOn
<1>3. \/ k'.wait[w] = <<>> \/ y = 0
      \/ /\ k.wait[w] # <<>> /\ x \in Int
         /\ \/ y = x /\ Keeps(op)
            \/ y = x - 1 /\ \E u : KeepsBut(u, op)
            \/ y = x + 1 /\ Gains(op)
  BY DEF Change
<1> HIDE DEF a, b, x, y
<1> QED BY <1>1, <1>2, <1>3

\* The steps of a call: a thread u of the calls op, or the handler, moves, and
\* the others stay where they are.
Mover(u, op) ==
    /\ \A t \in Thread \ {u} : pc'[t] = pc[t] /\ call'[t] = call[t]
    /\ u \in Thread => OffWaits(k, u) /\ \A x : x # op => ~ OnWay(u, x)

\* The others that have been resumed stay off the lists, and are told nothing.
Aside(u) ==
    \A t \in Thread \ {u} :
        OffWaits(k, t) => k'.error[t] = k.error[t] /\ OffWaits(k', t)

\* Nobody joins list w.
Shrinks(w) == Members(k'.wait[w]) \subseteq Members(k.wait[w])

\* Only the thread that moves may have what it was woken for.
LEMMA MoverKeeps ==
    ASSUME NEW u, NEW op, Mover(u, op), Aside(u), NEW x
    PROVE  KeepsBut(u, x) /\ (x # op => Keeps(x))
<1>1. ASSUME NEW t \in Thread \ {u}, OnWay(t, x) PROVE OnWay(t, x)'
  <2>1. /\ pc'[t] = pc[t] /\ call'[t] = call[t] /\ OffWaits(k, t)
        /\ k'.error[t] = k.error[t] /\ OffWaits(k', t)
    BY <1>1 DEF Mover, Aside, OnWay
  <2> QED BY <1>1, <2>1 DEF OnWay, OffWaits
<1>2. x # op /\ u \in Thread => ~ OnWay(u, x)
  BY DEF Mover
<1> QED BY <1>1, <1>2 DEF KeepsBut, Keeps

\* The steps that resume nobody, or one thread of list w.
LEMMA WakesAside ==
    ASSUME Base, NEW w \in WaitList,
           k' = k \/ WakesFirst(w) \/ (w = Receivers /\ PoolWakes), NEW u
    PROVE  Aside(u) /\ \A v \in WaitList : Shrinks(v)
<1>1. CASE k' = k
  BY <1>1 DEF Aside, Shrinks
<1>2. ASSUME k.wait[w] # <<>>, Frees(k, k', {Head(k.wait[w])})
      PROVE  Aside(u) /\ \A v \in WaitList : Shrinks(v)
  <2> DEFINE h == Head(k.wait[w])
  <2>1. h \in Members(k.wait[w]) /\ h \in Thread /\ Frees(k, k', {h})
    BY <1>2, FirstWaiter DEF Base
  <2> HIDE DEF h
  <2>2. \A t \in Thread : OffWaits(k, t) => t # h
    BY <2>1 DEF OffWaits
  <2> QED BY <2>1, <2>2 DEF Aside, Shrinks, Frees, OffWaits
<1> QED BY <1>1, <1>2 DEF WakesFirst, PoolWakes

\* The calls that wait on list w.
IsListOp(w, op) == ListOp(w) = op

\* The thread that is resumed is on its way.
LEMMA WakesOne ==
    ASSUME Base, ErrorsOk, NEW w \in WaitList, NEW op, IsListOp(w, op),
           WakesFirst(w) \/ (w = Receivers /\ PoolWakes), k.wait[w] # <<>>,
           NEW u, NEW o, Mover(u, o)
    PROVE  \E h \in Thread : ~ OnWay(h, op) /\ OnWay(h, op)'
<1>1. PICK h \in Thread : h \in Members(k.wait[w]) /\ h = Head(k.wait[w]) /\ Frees(k, k', {h})
  BY FirstWaiter DEF Base, WakesFirst, PoolWakes
<1>2. k'.error[h] = "ok"
  <2>1. CASE WakesFirst(w)
    BY <1>1, <2>1 DEF WakesFirst, ErrorsOk
  <2>2. CASE w = Receivers /\ PoolWakes
    BY <1>1, <2>2 DEF PoolWakes
  <2> QED BY <2>1, <2>2
<1>3. ~ OffWaits(k, h) /\ OffWaits(k', h)
  BY <1>1 DEF OffWaits, Frees
<1>4. h # u
  BY <1>1, <1>3 DEF Mover
<1>5. pc'[h] \in {"block", "woken"} /\ call'[h].op = op
  BY <1>1, <1>4 DEF Mover, Base, Listed, Waiter, IsListOp
<1>6. ~ OnWay(h, op) /\ OnWay(h, op)'
  BY <1>2, <1>3, <1>5 DEF OnWay, OffWaits
<1> QED BY <1>1, <1>6

\* A list that does not grow was not empty before.
LEMMA NotEmptied ==
    ASSUME Base, Base', NEW w \in WaitList, Shrinks(w), k'.wait[w] # <<>>
    PROVE  k.wait[w] # <<>>
<1>1. k.wait[w] \in Seq(Thread) /\ k'.wait[w] \in Seq(Thread)
  BY DEF Base, IInv, Typed, KernelState
<1>2. Members(k.wait[w]) # {}
  BY <1>1, MembersEmpty DEF Shrinks
<1> QED BY <1>1, <1>2, MembersEmpty

\* What is offered to the threads of list w.
More(w) == Offered(w) \in Int /\ Offered(w)' = Offered(w) + 1
Less(w) == Offered(w) \in Int /\ Offered(w)' = Offered(w) - 1
Same(w) == Offered(w) \in Int /\ Offered(w)' = Offered(w)
None(w) == Offered(w)' = 0

\* A step that gives nothing to list w.
LEMMA ChangeTakes ==
    ASSUME Base, Base', NEW w \in WaitList, NEW op, NEW u, NEW o, Mover(u, o), Aside(u),
           Shrinks(w), (Same(w) /\ op # o) \/ Less(w) \/ None(w)
    PROVE  Change(w, op)
<1>1. k'.wait[w] # <<>> => k.wait[w] # <<>>
  BY NotEmptied
<1>2. KeepsBut(u, op) /\ (op # o => Keeps(op))
  BY MoverKeeps
<1> QED BY <1>1, <1>2 DEF Change, Same, Less, None

\* A step that gives something to list w, and wakes a thread for it.
LEMMA ChangeGives ==
    ASSUME Base, Base', ErrorsOk, NEW w \in WaitList, NEW op, IsListOp(w, op),
           WakesFirst(w) \/ (w = Receivers /\ PoolWakes),
           NEW u, NEW o, Mover(u, o), op # o, More(w)
    PROVE  Change(w, op)
<1>1. Aside(u) /\ Shrinks(w)
  BY WakesAside
<1>2. k'.wait[w] # <<>> => k.wait[w] # <<>>
  BY <1>1, NotEmptied
<1>3. Keeps(op)
  BY <1>1, MoverKeeps
<1>4. k.wait[w] # <<>> => \E h \in Thread : ~ OnWay(h, op) /\ OnWay(h, op)'
  BY WakesOne
<1>5. k.wait[w] # <<>> => Gains(op)
  BY <1>3, <1>4 DEF Gains
<1> QED BY <1>2, <1>5 DEF Change, More

\* The moves of the calls.
LEMMA ReturnsMover == ASSUME Base, NEW op, Returns(op) PROVE \E u : Mover(u, op)
<1>0. k.current \in Thread /\ pc \in [Thread -> EveryLabel] /\ DOMAIN call = Caller
  BY DEF Base, IInv, Typed, KernelState
<1>1. CASE pc' = pc /\ \A t \in Thread : call'[t] = call[t]
  <2>1. Mover(Handler, op)
    BY <1>1, HandlerAssumption DEF Mover
  <2> QED BY <2>1
<1>2. CASE /\ Ready /\ (pc[k.current] = "run" \/ call[k.current].op = op)
           /\ \E l \in {"run", "sched"} : pc' = [pc EXCEPT ![k.current] = l]
           /\ Mine(NoCall)
  <2>1. \A t \in Thread \ {k.current} : pc'[t] = pc[t] /\ call'[t] = call[t]
    BY <1>0, <1>2 DEF Mine, Caller
  <2>2. \A x : x # op => ~ OnWay(k.current, x)
    BY <1>2 DEF OnWay
  <2>3. Mover(k.current, op)
    BY <1>2, <2>1, <2>2 DEF Mover, Ready
  <2> QED BY <2>3
<1> QED BY <1>1, <1>2 DEF Returns

\* In a critical section of the message queue one caller moves.
LEMMA TurnMover ==
    ASSUME Base, NEW u \in Caller, NEW L, NEW M, Turn(u, L, M), NEW c, Enters(u, c), NEW op,
           u \in Thread => pc[u] \in {"run", "fill", "copy"} \/ call[u].op = op
    PROVE  Mover(u, op)
<1>0. k.current \in Thread /\ pc \in [Thread -> EveryLabel] /\ DOMAIN call = Caller
  BY DEF Base, IInv, Typed, KernelState
<1>1. \A t \in Thread \ {u} : pc'[t] = pc[t] /\ call'[t] = call[t]
  BY <1>0 DEF Turn, Enters, Caller
<1>2. u \in Thread => OffWaits(k, u)
  BY HandlerAssumption DEF Turn, Ready
<1>3. u \in Thread => \A x : x # op => ~ OnWay(u, x)
  BY DEF OnWay
<1> QED BY <1>1, <1>2, <1>3 DEF Mover

\* In a step of the current thread it alone moves.
LEMMA MyMover ==
    ASSUME Base, Ready, NEW c, Mine(c), NEW l, pc' = [pc EXCEPT ![k.current] = l], NEW op,
           \/ pc[k.current] = "run" \/ call[k.current].op = op
           \/ k.error[k.current] # "ok"
    PROVE  Mover(k.current, op)
<1>0. k.current \in Thread /\ pc \in [Thread -> EveryLabel] /\ DOMAIN call = Caller
  BY DEF Base, IInv, Typed, KernelState
<1>1. \A t \in Thread \ {k.current} : pc'[t] = pc[t] /\ call'[t] = call[t]
  BY <1>0 DEF Mine, Caller
<1>2. \A x : x # op => ~ OnWay(k.current, x)
  BY DEF OnWay
<1> QED BY <1>1, <1>2 DEF Mover, Ready

\* A step of the current thread, and one that begins to wait.
LEMMA MovesAside ==
    ASSUME NEW l, Moves(l)
    PROVE  Aside(k.current) /\ \A v \in WaitList : Shrinks(v)
BY DEF Moves, Aside, Shrinks, OffWaits

\* The others stay aside of a thread that begins to wait.
LEMMA WaitsAside ==
    ASSUME Base, NEW w \in WaitList, Waits(w)
    PROVE  Aside(k.current) /\ \A v \in WaitList \ {w} : Shrinks(v)
<1>1. k.error \in [Thread -> Error] /\ k.current \in Thread
  BY DEF Base, IInv, Typed, KernelState
<1>2. \A v \in WaitList : Members(k'.wait[v]) \subseteq Members(k.wait[v]) \cup {k.current}
  BY DEF Waits, JoinsAt
<1>3. \A v \in WaitList \ {w} : Shrinks(v)
  BY DEF Waits, JoinsAt, Shrinks
<1>4. \A t \in Thread \ {k.current} : k'.error[t] = k.error[t]
  BY <1>1 DEF Waits, JoinsAt
<1> QED BY <1>2, <1>3, <1>4 DEF Aside, OffWaits

\* A call that begins to wait.
LEMMA ChanWaitsChange ==
    ASSUME Base, Base', NEW w \in WaitList, NEW v \in WaitList, w # v, NEW a, NEW b,
           IsListOp(w, a), a # b, ChanWaits(w), None(w), Same(v)
    PROVE  Change(w, a) /\ Change(v, b)
<1>1. /\ Ready /\ Waits(w) /\ pc' = [pc EXCEPT ![k.current] = "block"]
      /\ pc[k.current] = "run" \/ call[k.current].op = a
  BY DEF ChanWaits, Waits, JoinsAt, IsListOp
<1>2. PICK c : Mine(c)
  BY DEF ChanWaits
<1>3. PICK u : u = k.current
  OBVIOUS
<1>4. Mover(u, a)
  BY <1>1, <1>2, <1>3, MyMover
<1>5. Aside(u) /\ Shrinks(v)
  BY <1>1, <1>3, WaitsAside
<1>6. Change(v, b)
  BY <1>4, <1>5, ChangeTakes
<1> QED BY <1>6 DEF Change, None

\* A call that gives up.
LEMMA ChanFailsChange ==
    ASSUME Base, Base', NEW o, ChanFails(o), NEW w \in WaitList, NEW op,
           (Same(w) /\ op # o) \/ None(w)
    PROVE  Change(w, op)
<1>1. /\ Ready /\ Moves("run") /\ Mine(NoCall) /\ call[k.current].op = o
      /\ pc' = [pc EXCEPT ![k.current] = "run"]
  BY DEF ChanFails, Moves
<1>2. PICK u : u = k.current
  OBVIOUS
<1>3. Mover(u, o)
  BY <1>1, <1>2, MyMover
<1>4. Aside(u) /\ Shrinks(w)
  BY <1>1, <1>2, MovesAside
<1> QED BY <1>3, <1>4, ChangeTakes

\* A call that ends with an error was not on its way.
LEMMA FailsChange ==
    ASSUME Base, Base', Fails, NEW w \in WaitList, NEW op, NEW o, op # o, Same(w)
    PROVE  Change(w, op)
<1>1. /\ Ready /\ Moves("run") /\ Mine(NoCall) /\ k.error[k.current] # "ok"
      /\ pc' = [pc EXCEPT ![k.current] = "run"]
  BY DEF Fails, ChanFails, Moves
<1>2. PICK u : u = k.current
  OBVIOUS
<1>3. Mover(u, o)
  BY <1>1, <1>2, MyMover
<1>4. Aside(u) /\ Shrinks(w)
  BY <1>1, <1>2, MovesAside
<1> QED BY <1>3, <1>4, ChangeTakes

\* The reset leaves nobody on a list.
LEMMA ChanBrokenChange ==
    ASSUME Base, Base', ChanBroken, NEW w \in WaitList, NEW op PROVE Change(w, op)
<1>1. w \in {Receivers, Senders} /\ k'.wait[w] \in Seq(Thread)
  BY ListsAssumption DEF Base, IInv, Typed, KernelState
<1>2. Members(k'.wait[w]) = {}
  BY <1>1 DEF ChanBroken, BreaksAll, Frees
<1>3. k'.wait[w] = <<>>
  BY <1>1, <1>2, MembersEmpty
<1> QED BY <1>3 DEF Change

\* The steps outside the calls.
LEMMA PassesChange ==
    ASSUME Base, Base', TakersKept, WaitersLeftAlone, Passes \/ Schedules,
           NEW w \in WaitList, NEW op, Same(w)
    PROVE  Change(w, op)
<1>0. IInv
  BY DEF Base
<1>1. Keeps(op)
  BY WokenSame DEF Keeps
<1>2. Shrinks(w)
  <2>1. Passes => k'.wait = k.wait \/ \E h \in Thread : k'.wait = WaitsWithout(k, h)
    BY <1>0, NextLists DEF Passes
  <2>2. Schedules => k'.wait = k.wait
    BY DEF Schedules, PassesBy
  <2> QED BY <1>0, <2>1, <2>2, MembersLeft DEF Shrinks
<1>3. k'.wait[w] # <<>> => k.wait[w] # <<>>
  BY <1>2, NotEmptied
<1> QED BY <1>1, <1>3 DEF Change, Same

\* The calls of a mailbox and of a message queue.
LEMMA ChanOps ==
    ASSUME IsMailbox \/ IsQueue, SameKind
    PROVE  /\ OpOf(Receivers, "recv") /\ OpOf(Senders, "send")
           /\ IsListOp(Receivers, "recv") /\ IsListOp(Senders, "send")
BY ListNames DEF OpOf, WaitingOp, IsListOp, ListOp, SameKind, IsMailbox, IsQueue, IsPool

-----------------------------------------------------------------------------
(* The mailbox *)

\* A mailbox offers its mails and the room that is left.
LEMMA MailOffers ==
    ASSUME IsMailbox, SameKind
    PROVE  /\ Offered(Receivers) = obj.entry /\ Offered(Senders) = Capacity - obj.entry
           /\ Offered(Receivers)' = obj'.entry /\ Offered(Senders)' = Capacity - obj'.entry
<1>1. IsMailbox' /\ ~ IsQueue /\ ~ IsQueue' /\ ~ IsPool /\ ~ IsPool'
  BY DEF SameKind, IsMailbox, IsQueue, IsPool
<1> QED BY <1>1, ListNames DEF Offered

\* The steps of the mailbox.
LEMMA MailboxServed ==
    ASSUME Base, Base', SameKind, IsMailbox, MailOk, ErrorsOk, MbOutcome
    PROVE  Change(Receivers, "recv") /\ Change(Senders, "send")
<1>0. /\ Receivers \in WaitList /\ Senders \in WaitList /\ Receivers # Senders
      /\ IsListOp(Receivers, "recv") /\ IsListOp(Senders, "send")
  BY ListNames, ChanOps
<1>1. MbOk(obj) /\ obj.entry \in Int /\ Capacity \in Int
  BY CapacityAssumption DEF MailOk, MbOk
<1>2. /\ obj'.entry = obj.entry + 1 => More(Receivers) /\ Less(Senders)
      /\ obj'.entry = obj.entry - 1 => Less(Receivers) /\ More(Senders)
      /\ obj'.entry = obj.entry => Same(Receivers) /\ Same(Senders)
      /\ obj'.entry = 0 => None(Receivers)
      /\ obj'.entry = Capacity => None(Senders)
  BY <1>1, MailOffers DEF More, Less, Same, None
<1> DEFINE o == obj
<1>3. ASSUME NEW m \in Message, obj' = Posted(obj, m) \/ obj' = PostedFirst(obj, m),
             obj.entry # Capacity
      PROVE  obj'.entry = obj.entry + 1
  <2>1. MbOk(o) /\ o.entry # Capacity /\ m \in Message
    BY <1>1, <1>3
  <2> HIDE DEF o
  <2>2. Posted(o, m).entry = o.entry + 1 /\ PostedFirst(o, m).entry = o.entry + 1
    BY ONLY <2>1, PostedOk, PostedFirstOk
  <2> QED BY <1>3, <2>2 DEF o
<1>4. ASSUME obj' = Fetched(obj), obj.entry # 0 PROVE obj'.entry = obj.entry - 1
  <2>1. MbOk(o) /\ o.entry # 0
    BY <1>1, <1>4
  <2> HIDE DEF o
  <2>2. Fetched(o).entry = o.entry - 1
    BY ONLY <2>1, FetchedOk
  <2> QED BY <1>4, <2>2 DEF o
<1>5. CASE /\ \E m \in Message : obj' \in {Posted(obj, m), PostedFirst(obj, m)}
           /\ obj.entry # Capacity /\ WakesFirst(Receivers) /\ Returns("send")
  <2>1. More(Receivers) /\ Less(Senders)
    BY <1>2, <1>3, <1>5
  <2>2. PICK u : Mover(u, "send")
    BY <1>5, ReturnsMover
  <2>3. Aside(u) /\ Shrinks(Senders)
    BY <1>0, <1>5, WakesAside
  <2>4. Change(Receivers, "recv")
    BY <1>0, <1>5, <2>1, <2>2, ChangeGives
  <2>5. Change(Senders, "send")
    BY <1>0, <2>1, <2>2, <2>3, ChangeTakes
  <2> QED BY <2>4, <2>5
<1>6. CASE obj.entry # 0 /\ obj' = Fetched(obj) /\ WakesFirst(Senders) /\ Returns("recv")
  <2>1. More(Senders) /\ Less(Receivers)
    BY <1>2, <1>4, <1>6
  <2>2. PICK u : Mover(u, "recv")
    BY <1>6, ReturnsMover
  <2>3. Aside(u) /\ Shrinks(Receivers)
    BY <1>0, <1>6, WakesAside
  <2>4. Change(Senders, "send")
    BY <1>0, <1>6, <2>1, <2>2, ChangeGives
  <2>5. Change(Receivers, "recv")
    BY <1>0, <2>1, <2>2, <2>3, ChangeTakes
  <2> QED BY <2>4, <2>5
<1>7. CASE obj.entry = 0 /\ ChanWaits(Receivers)
  <2>1. None(Receivers) /\ Same(Senders)
    BY <1>2, <1>7 DEF ChanWaits
  <2> QED BY <1>0, <1>7, <2>1, ChanWaitsChange
<1>8. CASE obj.entry = Capacity /\ ChanWaits(Senders)
  <2>1. None(Senders) /\ Same(Receivers)
    BY <1>2, <1>8 DEF ChanWaits
  <2> QED BY <1>0, <1>8, <2>1, ChanWaitsChange
<1>9. CASE obj.entry = 0 /\ ChanFails("recv")
  <2>1. None(Receivers) /\ Same(Senders)
    BY <1>2, <1>9 DEF ChanFails
  <2> QED BY <1>0, <1>9, <2>1, ChanFailsChange
<1>10. CASE obj.entry = Capacity /\ ChanFails("send")
  <2>1. None(Senders) /\ Same(Receivers)
    BY <1>2, <1>10 DEF ChanFails
  <2> QED BY <1>0, <1>10, <2>1, ChanFailsChange
<1>11. CASE ChanBroken
  BY <1>0, <1>11, ChanBrokenChange
<1> QED BY <1>5, <1>6, <1>7, <1>8, <1>9, <1>10, <1>11 DEF MbOutcome

-----------------------------------------------------------------------------
(* The message queue *)

\* A message queue offers its queued cells and its free ones.
LEMMA QueueOffers ==
    ASSUME IsQueue, SameKind, ChainsFound, ChainsFound'
    PROVE  /\ \A q, p : QueueWith(q, p) =>
                 Offered(Receivers) = Len(q) /\ Offered(Senders) = Len(p)
           /\ \A q, p : QueueWith(q, p)' =>
                 Offered(Receivers)' = Len(q) /\ Offered(Senders)' = Len(p)
<1>1. IsQueue' /\ ~ IsMailbox /\ ~ IsMailbox' /\ ~ IsPool /\ ~ IsPool'
  BY DEF SameKind, IsMailbox, IsQueue, IsPool
<1>2. /\ Offered(Receivers) = obj.entry /\ Offered(Senders) = Len(Spare)
      /\ Offered(Receivers)' = obj'.entry /\ Offered(Senders)' = Len(Spare')
  BY <1>1, ListNames DEF Offered
<1> QED BY <1>2 DEF ChainsFound, QueueWith

\* A step that leaves the object alone.
LEMMA ObjectSame ==
    ASSUME obj' = obj, NEW w, Offered(w) \in Int PROVE Same(w)
BY DEF Same, Offered, IsMailbox, IsQueue, IsPool, Spare

\* What a queue offers is a number.
LEMMA QueueCounts ==
    ASSUME IsQueue, SameKind, ChainsFound, ChainsFound', NEW q, NEW p, QueueWith(q, p)
    PROVE  /\ Offered(Receivers) \in Int /\ Offered(Senders) \in Int
           /\ Len(q) \in Int /\ Len(p) \in Int /\ q \in Seq(Cell) /\ p \in Seq(Cell)
           /\ Offered(Receivers) = Len(q) /\ Offered(Senders) = Len(p)
           /\ obj.entry = Len(q) /\ (p = <<>> <=> obj.msg_queue_free = Null)
<1>1. QLists(obj.next, obj.msg_queue_head, obj.msg_queue_tail, obj.msg_queue_free, q, p, Owned)
  BY DEF QueueWith, QOk
<1>2. /\ q \in Seq(Cell) /\ p \in Seq(Cell) /\ Len(q) \in Nat /\ Len(p) \in Nat
      /\ p = <<>> <=> obj.msg_queue_free = Null
  BY <1>1, QListsFacts
<1>3. Offered(Receivers) = Len(q) /\ Offered(Senders) = Len(p)
  BY QueueOffers
<1> QED BY <1>2, <1>3 DEF QueueWith

\* The steps of the message queue.
LEMMA QueueServed ==
    ASSUME Base, Base', SameKind, IsQueue, ChainsFound, ChainsFound', ErrorsOk, MsgsTyped,
           NEW q, NEW p, QueueWith(q, p), MqOutcome
    PROVE  Change(Receivers, "recv") /\ Change(Senders, "send")
<1>0. /\ Receivers \in WaitList /\ Senders \in WaitList /\ Receivers # Senders
      /\ IsListOp(Receivers, "recv") /\ IsListOp(Senders, "send")
  BY ListNames, ChanOps
<1>1. /\ Offered(Receivers) \in Int /\ Offered(Senders) \in Int
      /\ Len(q) \in Int /\ Len(p) \in Int /\ q \in Seq(Cell) /\ p \in Seq(Cell)
      /\ Offered(Receivers) = Len(q) /\ Offered(Senders) = Len(p)
      /\ obj.entry = Len(q) /\ (p = <<>> <=> obj.msg_queue_free = Null)
  BY QueueCounts
<1>2. \A r, s : QueueWith(r, s)' =>
         Offered(Receivers)' = Len(r) /\ Offered(Senders)' = Len(s)
  BY QueueOffers
<1>3. ASSUME NEW u \in Caller, NEW c, MqAllots(u, c)
      PROVE  Change(Receivers, "recv") /\ Change(Senders, "send")
  <2>1. /\ k' = k /\ Turn(u, {"run", "woken"}, {"fill"}) /\ Begins(u, "send")
        /\ Enters(u, c) /\ p # <<>>
    BY <1>1, <1>3 DEF MqAllots
  <2>2. QueueWith(q, Tail(p))'
    BY <1>3, CellsAllot
  <2>3. Len(Tail(p)) = Len(p) - 1
    BY <1>1, <2>1
  <2>4. Less(Senders) /\ Same(Receivers)
    BY <1>1, <1>2, <2>2, <2>3 DEF Less, Same
  <2>5. u \in Thread => pc[u] \in {"run", "fill", "copy"} \/ call[u].op = "send"
    BY <2>1, HandlerAssumption DEF Begins
  <2>6. Mover(u, "send")
    BY <2>1, <2>5, TurnMover
  <2>7. Aside(u) /\ Shrinks(Receivers) /\ Shrinks(Senders)
    BY <1>0, <2>1, WakesAside
  <2> QED BY <1>0, <2>4, <2>6, <2>7, ChangeTakes
<1>4. ASSUME NEW u \in Caller, NEW c, MqUnlinks(u, c)
      PROVE  Change(Receivers, "recv") /\ Change(Senders, "send")
  <2>1. /\ k' = k /\ Turn(u, {"run", "woken"}, {"copy"}) /\ Begins(u, "recv")
        /\ Enters(u, c)
    BY <1>1, <1>4 DEF MqUnlinks
  <2>2. QueueWith(Tail(q), p)' /\ q # <<>>
    BY <1>4, CellsUnlink
  <2>3. Len(Tail(q)) = Len(q) - 1
    BY <1>1, <2>2
  <2>4. Less(Receivers) /\ Same(Senders)
    BY <1>1, <1>2, <2>2, <2>3 DEF Less, Same
  <2>5. u \in Thread => pc[u] \in {"run", "fill", "copy"} \/ call[u].op = "recv"
    BY <2>1, HandlerAssumption DEF Begins
  <2>6. Mover(u, "recv")
    BY <2>1, <2>5, TurnMover
  <2>7. Aside(u) /\ Shrinks(Receivers) /\ Shrinks(Senders)
    BY <1>0, <2>1, WakesAside
  <2> QED BY <1>0, <2>4, <2>6, <2>7, ChangeTakes
<1>5. ASSUME NEW u \in Caller, MqLinks(u)
      PROVE  Change(Receivers, "recv") /\ Change(Senders, "send")
  <2>1. PICK c, m : Brings(u, c, m)
    BY DEF Brings
  <2>2. /\ Turn(u, {"fill"}, {"run", "sched"}) /\ WakesFirst(Receivers) /\ Enters(u, NoCall)
    BY <1>5 DEF MqLinks
  <2>3. c \in Cell /\ (QueueWith(Append(q, c), p)' \/ QueueWith(<<c>> \o q, p)')
    BY <1>5, <2>1, CellsLink
  <2>4. Len(Append(q, c)) = Len(q) + 1 /\ Len(<<c>> \o q) = Len(q) + 1
    BY <1>1, <2>3
  <2>5. More(Receivers) /\ Same(Senders)
    BY <1>1, <1>2, <2>3, <2>4 DEF More, Same
  <2>6. u \in Thread => pc[u] \in {"run", "fill", "copy"} \/ call[u].op = "none"
    BY <2>2, HandlerAssumption DEF Turn
  <2>7. Mover(u, "none")
    BY <2>2, <2>6, TurnMover
  <2>8. Aside(u) /\ Shrinks(Senders)
    BY <1>0, <2>2, WakesAside
  <2>9. Change(Receivers, "recv")
    BY <1>0, <2>2, <2>5, <2>7, ChangeGives
  <2>10. Change(Senders, "send")
    BY <1>0, <2>5, <2>7, <2>8, ChangeTakes
  <2> QED BY <2>9, <2>10
<1>6. ASSUME NEW u \in Caller, MqFrees(u)
      PROVE  Change(Receivers, "recv") /\ Change(Senders, "send")
  <2>1. PICK c, m : Brings(u, c, m)
    BY DEF Brings
  <2>2. /\ Turn(u, {"copy"}, {"run", "sched"}) /\ WakesFirst(Senders) /\ Enters(u, NoCall)
    BY <1>6 DEF MqFrees
  <2>3. QueueWith(q, <<c>> \o p)' /\ Len(<<c>> \o p) = Len(p) + 1
    BY <1>6, <2>1, CellsFree
  <2>5. More(Senders) /\ Same(Receivers)
    BY <1>1, <1>2, <2>3 DEF More, Same
  <2>6. u \in Thread => pc[u] \in {"run", "fill", "copy"} \/ call[u].op = "none"
    BY <2>2, HandlerAssumption DEF Turn
  <2>7. Mover(u, "none")
    BY <2>2, <2>6, TurnMover
  <2>8. Aside(u) /\ Shrinks(Receivers)
    BY <1>0, <2>2, WakesAside
  <2>9. Change(Senders, "send")
    BY <1>0, <2>2, <2>5, <2>7, ChangeGives
  <2>10. Change(Receivers, "recv")
    BY <1>0, <2>5, <2>7, <2>8, ChangeTakes
  <2> QED BY <2>9, <2>10
<1>7. ASSUME obj' = obj
      PROVE  /\ Same(Receivers) /\ Same(Senders)
             /\ obj.entry = 0 => None(Receivers)
             /\ obj.msg_queue_free = Null => None(Senders)
  <2>1. Same(Receivers) /\ Same(Senders)
    BY <1>1, <1>7, ObjectSame
  <2>2. p = <<>> => Len(p) = 0
    OBVIOUS
  <2> QED BY <1>1, <2>1, <2>2 DEF Same, None
<1>8. CASE obj.entry = 0 /\ ChanWaits(Receivers)
  <2>1. None(Receivers) /\ Same(Senders)
    BY <1>7, <1>8 DEF ChanWaits
  <2> QED BY <1>0, <1>8, <2>1, ChanWaitsChange
<1>9. CASE obj.msg_queue_free = Null /\ ChanWaits(Senders)
  <2>1. None(Senders) /\ Same(Receivers)
    BY <1>7, <1>9 DEF ChanWaits
  <2> QED BY <1>0, <1>9, <2>1, ChanWaitsChange
<1>10. CASE obj.entry = 0 /\ ChanFails("recv")
  <2>1. None(Receivers) /\ Same(Senders)
    BY <1>7, <1>10 DEF ChanFails
  <2> QED BY <1>0, <1>10, <2>1, ChanFailsChange
<1>11. CASE obj.msg_queue_free = Null /\ ChanFails("send")
  <2>1. None(Senders) /\ Same(Receivers)
    BY <1>7, <1>11 DEF ChanFails
  <2> QED BY <1>0, <1>11, <2>1, ChanFailsChange
<1>12. CASE ChanBroken
  BY <1>0, <1>12, ChanBrokenChange
<1> QED BY <1>3, <1>4, <1>5, <1>6, <1>8, <1>9, <1>10, <1>11, <1>12 DEF MqOutcome

-----------------------------------------------------------------------------
(* The memory pool *)

\* A step of the current thread or of the handler that leaves the calls alone.
LEMMA StillMover ==
    ASSUME Base, call' = call,
           \/ pc' = pc
           \/ Ready /\ pc[k.current] = "run" /\ pc' = [pc EXCEPT ![k.current] = "sched"]
    PROVE  \E u : Mover(u, "none")
<1>0. k.current \in Thread /\ pc \in [Thread -> EveryLabel]
  BY DEF Base, IInv, Typed, KernelState
<1>1. CASE pc' = pc
  <2>1. Mover(Handler, "none")
    BY <1>1, HandlerAssumption DEF Mover
  <2> QED BY <2>1
<1>2. CASE Ready /\ pc[k.current] = "run" /\ pc' = [pc EXCEPT ![k.current] = "sched"]
  <2>1. \A t \in Thread \ {k.current} : pc'[t] = pc[t] /\ call'[t] = call[t]
    BY <1>0, <1>2
  <2>2. \A x : ~ OnWay(k.current, x)
    BY <1>2 DEF OnWay
  <2>3. Mover(k.current, "none")
    BY <1>2, <2>1, <2>2 DEF Mover, Ready
  <2> QED BY <2>3
<1> QED BY <1>1, <1>2

\* A thread that waits for a block goes round once more.
LEMMA RetryKeeps ==
    ASSUME Base, Ready, k' = k, Moves("retry"), call[k.current].op = "alloc",
           NEW c, Mine(c), c.op = "alloc"
    PROVE  Keeps("alloc")
<1>0. k.current \in Thread /\ pc \in [Thread -> EveryLabel] /\ DOMAIN call = Caller
  BY DEF Base, IInv, Typed, KernelState
<1>1. \A t \in Thread \ {k.current} : pc'[t] = pc[t] /\ call'[t] = call[t]
  BY <1>0 DEF Mine, Moves, Caller
<1>2. pc'[k.current] = "retry" /\ call'[k.current].op = "alloc"
  BY <1>0 DEF Mine, Moves, Caller
<1> QED BY <1>1, <1>2 DEF Keeps, OnWay, OffWaits

\* What the pool offers.
LEMMA PoolOffers ==
    ASSUME IsPool, SameKind
    PROVE  \A w : Offered(w) = obj.block_free_count /\ Offered(w)' = obj'.block_free_count
<1>1. IsPool' /\ ~ IsMailbox /\ ~ IsMailbox' /\ ~ IsQueue /\ ~ IsQueue'
  BY DEF SameKind, IsMailbox, IsQueue, IsPool
<1> QED BY <1>1 DEF Offered

\* Nobody waits for room in a pool.
LEMMA NoSenders ==
    ASSUME Base', ~ IsMailbox', ~ IsQueue' PROVE k'.wait[Senders] = <<>>
<1>1. Senders \in WaitList /\ k'.wait[Senders] \in Seq(Thread)
  BY ListNames DEF Base, IInv, Typed, KernelState
<1>2. Members(k'.wait[Senders]) = {}
  BY <1>1 DEF Base, Waiter, IsMailbox, IsQueue
<1> QED BY <1>1, <1>2, MembersEmpty

\* The count of the free blocks.
LEMMA CountIs ==
    ASSUME NEW o, PoolOk(o), NEW b
    PROVE  /\ o.block_free_count \in Nat
           /\ Allocated(o).block_free_count = o.block_free_count - 1
           /\ Released(o, b).block_free_count = o.block_free_count + 1
<1>1. /\ o.block_free_count \in Nat /\ DOMAIN o = {"kind", "header", "block_list", "block_free_count"}
  BY DEF PoolOk, PoolState, FreeList, IsPath
<1> QED BY <1>1 DEF Allocated, Released

\* The steps of the pool.
LEMMA PoolServed ==
    ASSUME Base, Base', SameKind, IsPool, PoolOk(obj), ErrorsOk, PoolOutcome,
           NEW w \in WaitList
    PROVE  Change(w, "alloc")
<1>0. Receivers \in WaitList /\ w \in {Receivers, Senders}
  BY ListNames, ListsAssumption
<1>1. CASE w = Senders
  <2>1. ~ IsMailbox' /\ ~ IsQueue'
    BY DEF SameKind, IsMailbox, IsQueue, IsPool
  <2> QED BY <1>1, <2>1, NoSenders DEF Change
<1>2. CASE w = Receivers
  <2>0. IsListOp(w, "alloc")
    BY <1>2, ListNames DEF IsListOp, ListOp, IsPool, IsEvent, IsCompletion
  <2>1. Offered(w) = obj.block_free_count /\ Offered(w)' = obj'.block_free_count
    BY PoolOffers
  <2>2. PICK o : o = obj
    OBVIOUS
  <2>3. \A b : /\ o.block_free_count \in Nat
               /\ Allocated(o).block_free_count = o.block_free_count - 1
               /\ Released(o, b).block_free_count = o.block_free_count + 1
    BY <2>2, CountIs
  <2>4. /\ obj' = Allocated(obj) => Less(w)
        /\ (\E b : obj' = Released(obj, b)) => More(w)
        /\ obj' = obj => Same(w)
        /\ obj' = obj /\ obj.block_free_count = 0 => None(w)
    BY <2>1, <2>2, <2>3 DEF Less, More, Same, None
  <2>5. CASE obj' = Allocated(obj) /\ UNCHANGED vars /\ call' = call
    <3>1. k' = k /\ pc' = pc
      BY <2>5 DEF vars
    <3>2. PICK u : Mover(u, "none")
      BY <2>5, <3>1, StillMover
    <3>3. Aside(u) /\ Shrinks(w)
      BY <3>1, WakesAside
    <3> QED BY <2>4, <2>5, <3>2, <3>3, ChangeTakes
  <2>6. ASSUME NEW l, Allocs, Moves(l), NEW c, Mine(c) PROVE Less(w) \/ None(w) => Change(w, "alloc")
    <3>1. PICK u : u = k.current
      OBVIOUS
    <3>2. /\ Ready /\ pc' = [pc EXCEPT ![k.current] = l]
          /\ pc[k.current] = "run" \/ call[k.current].op = "alloc"
      BY <2>6 DEF Allocs, Moves
    <3>3. Mover(u, "alloc")
      BY <2>6, <3>1, <3>2, MyMover
    <3>4. Aside(u) /\ Shrinks(w)
      BY <2>6, <3>1, MovesAside
    <3> QED BY <3>3, <3>4, ChangeTakes
  <2>7. CASE /\ obj.block_free_count = 0 /\ obj' = obj
    BY <2>4, <2>7 DEF Change, None
  <2>8. CASE /\ Ready /\ call[k.current].op = "alloc"
             /\ Moves("retry") /\ k' = k /\ obj' = obj
             /\ \E c : Mine(c) /\ c.op = "alloc"
    <3>1. Keeps("alloc")
      BY <2>8, RetryKeeps
    <3> QED BY <2>4, <2>8, <3>1 DEF Change, Same
  <2>9. CASE /\ \E b \in HandedOut : obj' = Released(obj, b)
             /\ PoolWakes /\ call' = call
             /\ \/ pc' = pc
                \/ /\ Ready /\ pc[k.current] = "run"
                   /\ pc' = [pc EXCEPT ![k.current] = "sched"]
    <3>1. PICK u : Mover(u, "none")
      BY <2>9, StillMover
    <3>2. More(w)
      BY <2>4, <2>9
    <3> QED BY <1>2, <2>0, <2>9, <3>1, <3>2, ChangeGives
  <2> QED BY <2>4, <2>5, <2>6, <2>7, <2>8, <2>9 DEF PoolOutcome
<1> QED BY <1>0, <1>1, <1>2

-----------------------------------------------------------------------------
(* All the objects *)

\* A step that leaves the object alone.
LEMMA OutsideServed ==
    ASSUME Base, Base', TakersKept, WaitersLeftAlone, Passes \/ Schedules \/ Fails,
           NEW w \in WaitList, Offered(w) \in Int, NEW op
    PROVE  Change(w, op)
<1>1. Same(w)
  BY ObjectSame DEF Passes, Schedules, Fails, ChanFails
<1>2. PICK o : op # o
  <2>1. op # {op} \/ op # {}
    OBVIOUS
  <2> QED BY <2>1
<1> QED BY <1>1, <1>2, PassesChange, FailsChange

\* What is offered is a number.
LEMMA OfferedCounts ==
    ASSUME HasKind, SameKind, ChainsFound, ChainsFound', QueueOk, MailOk, PoolInv,
           NEW w \in WaitList
    PROVE  Offered(w) \in Int
<1>0. w \in {Receivers, Senders}
  BY ListsAssumption
<1>1. CASE IsMailbox
  BY <1>0, <1>1, MailOffers, CapacityAssumption DEF MailOk, MbOk
<1>2. CASE IsQueue
  BY <1>0, <1>2, QueueCounts DEF QueueOk
<1>3. CASE IsPool
  <2>1. obj.block_free_count \in Nat
    <3>1. PICK o : o = obj
      OBVIOUS
    <3> QED BY <1>3, <3>1, CountIs DEF PoolInv
  <2> QED BY <1>3, <2>1, PoolOffers
<1>4. CASE ~ IsMailbox /\ ~ IsQueue /\ ~ IsPool
  BY <1>4 DEF Offered
<1> QED BY <1>1, <1>2, <1>3, <1>4

\* Every step.
LEMMA NextServed ==
    ASSUME WaitersLeftAlone, WInv, QueueOk, MailOk, PoolInv, ErrorsOk, WInv',
           ChainsFound, ChainsFound', [ObjectsNext]_allVars,
           NEW w \in WaitList, ServedOn(w)
    PROVE  ServedOn(w)'
<1>0. Base /\ Base' /\ TakersKept /\ MsgsTyped /\ SameKind /\ Outcome /\ HasKind
  BY Outcomes DEF WInv, EventInv, BInv, Base
<1>1. Offered(w) \in Int /\ w \in {Receivers, Senders} /\ Receivers # Senders
  BY <1>0, OfferedCounts, ListNames, ListsAssumption
<1>2. \E op : OpOf(w, op)
  BY <1>0 DEF OpOf, WaitingOp, SameKind, IsPool
<1>3. CASE Passes \/ Schedules \/ Fails
  <2>1. PICK op : OpOf(w, op)
    BY <1>2
  <2>2. Change(w, op)
    BY <1>0, <1>1, <1>3, OutsideServed
  <2> QED BY <2>1, <2>2, ServedStep
<1>4. CASE IsMailbox /\ MbOutcome
  <2>1. Change(Receivers, "recv") /\ Change(Senders, "send")
    BY <1>0, <1>4, MailboxServed
  <2>2. OpOf(Receivers, "recv") /\ OpOf(Senders, "send")
    BY <1>0, <1>4, ChanOps
  <2> QED BY <1>1, <2>1, <2>2, ServedStep
<1>5. CASE IsQueue /\ MqOutcome
  <2>0. PICK q, p : QueueWith(q, p)
    BY <1>5 DEF QueueOk
  <2>1. Change(Receivers, "recv") /\ Change(Senders, "send")
    BY <1>0, <1>5, <2>0, QueueServed
  <2>2. OpOf(Receivers, "recv") /\ OpOf(Senders, "send")
    BY <1>0, <1>5, ChanOps
  <2> QED BY <1>1, <2>1, <2>2, ServedStep
<1>6. CASE IsPool /\ PoolOutcome
  <2>1. PoolOk(obj)
    BY <1>6 DEF PoolInv
  <2>2. Change(w, "alloc")
    BY <1>0, <1>6, <2>1, PoolServed
  <2>3. OpOf(w, "alloc")
    BY <1>0, <1>6 DEF OpOf, WaitingOp, SameKind, IsPool
  <2> QED BY <2>2, <2>3, ServedStep
<1>7. CASE IsEvent \/ IsCompletion \/ IsSerial
  <2>1. ~ IsMailbox' /\ ~ IsQueue' /\ ~ IsPool'
    BY <1>0, <1>7 DEF SameKind, IsMailbox, IsQueue, IsPool, IsEvent, IsCompletion, IsSerial
  <2>2. Offered(w)' = 0
    BY <2>1 DEF Offered
  <2>3. PICK op : OpOf(w, op)
    BY <1>2
  <2>4. Change(w, op)
    BY <2>2 DEF Change
  <2> QED BY <2>3, <2>4, ServedStep
<1> QED BY <1>0, <1>3, <1>4, <1>5, <1>6, <1>7 DEF Outcome

\* No lost wakeup, for every number of threads, messages, cells and blocks:
\* as long as threads wait for messages, for room or for blocks, whatever is
\* there is for threads that rt_mb_send_wait, rt_mb_recv, rt_mq_send,
\* rt_mq_recv, rt_mp_free or a handler has resumed and that have yet to run.
THEOREM WaitersAlwaysServed ==
    ASSUME WaitersLeftAlone PROVE ObjectsSpec => []WaitersServed
<1> DEFINE AllServed == \A w \in WaitList : ServedOn(w)
           Inv == WInv /\ QueueOk /\ MailOk /\ PoolInv /\ ErrorsOk /\ AllServed
<1>1. ObjectsInit => Inv
  <2> SUFFICES ASSUME ObjectsInit PROVE Inv
    OBVIOUS
  <2>1. \A w \in WaitList : k.wait[w] = <<>>
    BY DEF ObjectsInit, Init, KernelInit
  <2>2. ErrorsOk /\ AllServed
    BY <2>1 DEF ErrorsOk, ServedOn, Members
  <2> QED BY <2>2, InitWInv, InitQueueOk, InitMailOk, InitPoolInv
<1>2. ASSUME Inv, [ObjectsNext]_allVars, ChainsFound, ChainsFound' PROVE Inv'
  <2>1. BInv /\ Base /\ TakersKept /\ QueueOk /\ MailOk /\ PoolInv /\ ErrorsOk /\ AllServed /\ WInv
    BY <1>2 DEF WInv, EventInv, BInv
  <2>2. WInv' /\ QueueOk' /\ MailOk' /\ PoolInv'
    BY <1>2, <2>1, NextWInv, NextQueueOk, NextMailOk, NextPoolInv
  <2>3. ErrorsOk'
    BY <1>2, <2>1, Outcomes, Shapes, NextErrorsOk
  <2>4. ASSUME NEW w \in WaitList PROVE ServedOn(w)'
    <3>1. ServedOn(w)
      BY <2>1
    <3> QED BY <1>2, <2>1, <2>2, <3>1, NextServed
  <2> QED BY <2>2, <2>3, <2>4
<1>3. ChainsFound
  BY ChainsAre DEF ChainsFound, QueueWith
<1>4. Inv => WaitersServed
  BY DEF WaitersServed, ServedOn
<1> HIDE DEF Inv
<1> QED BY <1>1, <1>2, <1>3, <1>4, PTL DEF ObjectsSpec
=============================================================================
