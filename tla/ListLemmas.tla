----------------------------- MODULE ListLemmas -----------------------------
(* What the operators of module LinkedLists do to the members and the      *)
(* order of a list.                                                        *)
EXTENDS LinkedLists, SequenceTheorems, WellFoundedInduction, TLAPS

\* A list without members is the empty list.
LEMMA MembersEmpty ==
    ASSUME NEW S, NEW s \in Seq(S)
    PROVE  /\ Members(s) \subseteq S
           /\ s = <<>> <=> Members(s) = {}
BY DEF Members

\* rt_list_insert_before the head: the new node comes last.
LEMMA MembersAppend ==
    ASSUME NEW S, NEW s \in Seq(S), NEW t \in S
    PROVE  /\ Append(s, t) \in Seq(S)
           /\ Members(Append(s, t)) = Members(s) \cup {t}
           /\ NoDup(s) /\ t \notin Members(s) => NoDup(Append(s, t))
<1>1. /\ Append(s, t) \in Seq(S)
      /\ Len(Append(s, t)) = Len(s) + 1
      /\ \A i \in 1 .. Len(s) : Append(s, t)[i] = s[i]
      /\ Append(s, t)[Len(s) + 1] = t
  OBVIOUS
<1>2. Len(s) \in Nat
  OBVIOUS
<1>3. Members(Append(s, t)) = Members(s) \cup {t}
  BY <1>1, <1>2 DEF Members
<1>4. NoDup(s) /\ t \notin Members(s) => NoDup(Append(s, t))
  BY <1>1, <1>2 DEF Members, NoDup
<1> QED
  BY <1>1, <1>3, <1>4

\* rt_list_insert_after the head: the new node comes first.
LEMMA MembersPush ==
    ASSUME NEW S, NEW s \in Seq(S), NEW t \in S
    PROVE  /\ <<t>> \o s \in Seq(S)
           /\ Members(<<t>> \o s) = Members(s) \cup {t}
           /\ NoDup(s) /\ t \notin Members(s) => NoDup(<<t>> \o s)
<1> DEFINE r == <<t>> \o s
<1>1. /\ r \in Seq(S)
      /\ Len(s) \in Nat /\ Len(r) = Len(s) + 1
      /\ r[1] = t
      /\ \A i \in 1 .. Len(s) : r[i + 1] = s[i]
      /\ \A i \in 2 .. Len(r) : r[i] = s[i - 1]
  OBVIOUS
<1> HIDE DEF r
<1>2. Members(r) = Members(s) \cup {t}
  <2>1. ASSUME NEW i \in 1 .. Len(r) PROVE r[i] \in Members(s) \cup {t}
    <3>1. CASE i = 1
      BY <1>1, <3>1
    <3>2. CASE i # 1
      <4>1. i - 1 \in 1 .. Len(s) /\ r[i] = s[i - 1]
        BY <1>1, <3>2
      <4> QED BY <4>1 DEF Members
    <3> QED BY <3>1, <3>2
  <2>2. t \in Members(r)
    BY <1>1 DEF Members
  <2>3. ASSUME NEW i \in 1 .. Len(s) PROVE s[i] \in Members(r)
    <3>1. i + 1 \in 1 .. Len(r) /\ r[i + 1] = s[i]
      BY <1>1
    <3> QED BY <3>1 DEF Members
  <2> QED BY <2>1, <2>2, <2>3 DEF Members
<1>3. NoDup(s) /\ t \notin Members(s) => NoDup(r)
  <2> SUFFICES ASSUME NoDup(s), t \notin Members(s),
                      NEW i \in 1 .. Len(r), NEW j \in 1 .. Len(r), r[i] = r[j]
               PROVE  i = j
    BY DEF NoDup
  <2>1. CASE i = 1 /\ j = 1
    BY <2>1
  <2>2. CASE i # 1 /\ j # 1
    <3>1. /\ i - 1 \in 1 .. Len(s) /\ r[i] = s[i - 1]
          /\ j - 1 \in 1 .. Len(s) /\ r[j] = s[j - 1]
      BY <2>2, <1>1
    <3>2. i - 1 = j - 1
      BY <3>1 DEF NoDup
    <3> QED BY <3>2
  <2>3. ASSUME NEW n \in 2 .. Len(r) PROVE r[n] # t
    <3>1. n - 1 \in 1 .. Len(s) /\ r[n] = s[n - 1]
      BY <1>1
    <3> QED BY <3>1 DEF Members
  <2>4. CASE i = 1 /\ j # 1
    <3>1. j \in 2 .. Len(r) /\ r[1] = t
      BY <1>1, <2>4
    <3> QED BY <2>3, <2>4, <3>1
  <2>5. CASE i # 1 /\ j = 1
    <3>1. i \in 2 .. Len(r) /\ r[1] = t
      BY <1>1, <2>5
    <3> QED BY <2>3, <2>5, <3>1
  <2> QED BY <2>1, <2>2, <2>4, <2>5
<1> QED
  BY <1>1, <1>2, <1>3 DEF r

\* The first node of a non-empty list is taken off.
LEMMA MembersTail ==
    ASSUME NEW S, NEW s \in Seq(S), s # <<>>
    PROVE  /\ Head(s) \in S /\ Head(s) \in Members(s)
           /\ Tail(s) \in Seq(S)
           /\ NoDup(s) => /\ NoDup(Tail(s))
                          /\ Members(Tail(s)) = Members(s) \ {Head(s)}
<1>1. /\ Len(s) \in Nat \ {0} /\ Head(s) = s[1]
      /\ Tail(s) \in Seq(S) /\ Len(Tail(s)) = Len(s) - 1
      /\ \A i \in 1 .. Len(s) - 1 : Tail(s)[i] = s[i + 1]
  OBVIOUS
<1>2. Head(s) \in Members(s) /\ Head(s) \in S
  BY <1>1 DEF Members
<1>3. ASSUME NoDup(s) PROVE NoDup(Tail(s))
  BY <1>1, <1>3 DEF NoDup
<1>4. ASSUME NoDup(s) PROVE Members(Tail(s)) = Members(s) \ {Head(s)}
  <2>1. Members(Tail(s)) \subseteq Members(s) \ {Head(s)}
    BY <1>1, <1>4 DEF Members, NoDup
  <2>2. ASSUME NEW i \in 1 .. Len(s), s[i] # s[1] PROVE s[i] \in Members(Tail(s))
    <3>1. i - 1 \in 1 .. Len(Tail(s)) /\ Tail(s)[i - 1] = s[i]
      BY <1>1, <2>2
    <3> QED BY <3>1 DEF Members
  <2>3. ASSUME NEW u \in Members(s) \ {Head(s)} PROVE u \in Members(Tail(s))
    <3>1. PICK i \in 1 .. Len(s) : s[i] = u
      BY DEF Members
    <3> QED BY <1>1, <2>2, <3>1
  <2> QED BY <2>1, <2>3
<1> QED
  BY <1>1, <1>2, <1>3, <1>4

\* A list without its i-th node.
LEMMA RemoveAtElements ==
    ASSUME NEW S, NEW s \in Seq(S), NEW i \in 1 .. Len(s)
    PROVE  /\ RemoveAt(s, i) \in Seq(S)
           /\ Len(RemoveAt(s, i)) = Len(s) - 1
           /\ \A j \in 1 .. Len(s) - 1 :
                 RemoveAt(s, i)[j] = IF j < i THEN s[j] ELSE s[j + 1]
<1> DEFINE a == SubSeq(s, 1, i - 1)
           b == SubSeq(s, i + 1, Len(s))
<1>1. Len(s) \in Nat /\ i \in Int
  OBVIOUS
<1>2. /\ a \in Seq(S) /\ Len(a) = i - 1
      /\ \A j \in 1 .. i - 1 : a[j] = s[j]
  BY <1>1
<1>3. /\ b \in Seq(S) /\ Len(b) = Len(s) - i
      /\ \A j \in 1 .. Len(s) - i : b[j] = s[i + j]
  BY <1>1
<1>4. RemoveAt(s, i) = a \o b
  BY DEF RemoveAt
<1> HIDE DEF a, b
<1>5. /\ a \o b \in Seq(S) /\ Len(a \o b) = Len(s) - 1
      /\ \A j \in 1 .. Len(s) - 1 :
            (a \o b)[j] = IF j < i THEN a[j] ELSE b[j - (i - 1)]
  <2>1. /\ a \o b \in Seq(S) /\ Len(a \o b) = Len(a) + Len(b)
        /\ \A j \in 1 .. Len(a) + Len(b) :
              (a \o b)[j] = IF j <= Len(a) THEN a[j] ELSE b[j - Len(a)]
    BY <1>2, <1>3, ConcatProperties
  <2> QED BY <1>1, <1>2, <1>3, <2>1
<1>6. ASSUME NEW j \in 1 .. Len(s) - 1
      PROVE  (a \o b)[j] = IF j < i THEN s[j] ELSE s[j + 1]
  BY <1>1, <1>2, <1>3, <1>5
<1> QED
  BY <1>4, <1>5, <1>6

\* rt_list_remove takes one node off the list it is on.
LEMMA MembersWithout ==
    ASSUME NEW S, NEW s \in Seq(S), NoDup(s), NEW t
    PROVE  /\ Without(s, t) \in Seq(S)
           /\ NoDup(Without(s, t))
           /\ Members(Without(s, t)) = Members(s) \ {t}
           /\ t \notin Members(s) => Without(s, t) = s
<1>1. CASE t \notin Members(s)
  BY <1>1 DEF Without
<1>2. CASE t \in Members(s)
  <2> DEFINE i == CHOOSE i \in 1 .. Len(s) : s[i] = t
             r == RemoveAt(s, i)
  <2>1. i \in 1 .. Len(s) /\ s[i] = t
    BY <1>2 DEF Members
  <2> HIDE DEF i
  <2>2. Without(s, t) = r
    BY <1>2 DEF Without, i
  <2>3. /\ r \in Seq(S) /\ Len(r) = Len(s) - 1 /\ Len(s) \in Nat
        /\ \A j \in 1 .. Len(s) - 1 : r[j] = IF j < i THEN s[j] ELSE s[j + 1]
    BY <2>1, RemoveAtElements
  <2> HIDE DEF r
  <2> DEFINE at(j) == IF j < i THEN j ELSE j + 1
  <2>a. ASSUME NEW j \in 1 .. Len(r)
        PROVE  at(j) \in 1 .. Len(s) /\ at(j) # i /\ r[j] = s[at(j)]
    BY <2>1, <2>3
  <2>4. NoDup(r)
    <3> SUFFICES ASSUME NEW j \in 1 .. Len(r), NEW l \in 1 .. Len(r), r[j] = r[l]
                 PROVE  j = l
      BY DEF NoDup
    <3>1. at(j) = at(l)
      <4> HIDE DEF at
      <4> QED BY <2>a DEF NoDup
    <3> QED BY <3>1, <2>1, <2>3
  <2>5. ASSUME NEW j \in 1 .. Len(r) PROVE r[j] \in Members(s) \ {t}
    <3> HIDE DEF at
    <3> QED BY <2>a, <2>1 DEF NoDup, Members
  <2>6. ASSUME NEW u \in Members(s) \ {t} PROVE u \in Members(r)
    <3>1. PICK j \in 1 .. Len(s) : s[j] = u
      BY DEF Members
    <3>2. CASE j < i
      <4>1. j \in 1 .. Len(r) /\ r[j] = u
        BY <2>1, <2>3, <3>1, <3>2
      <4> QED BY <4>1 DEF Members
    <3>3. CASE j > i
      <4>1. j - 1 \in 1 .. Len(r) /\ r[j - 1] = u
        BY <2>1, <2>3, <3>1, <3>3
      <4> QED BY <4>1 DEF Members
    <3> QED BY <2>1, <3>1, <3>2, <3>3
  <2>7. ASSUME NEW u \in Members(r) PROVE u \in Members(s) \ {t}
    <3>1. PICK j \in 1 .. Len(r) : u = r[j]
      BY DEF Members
    <3> QED BY <2>5, <3>1
  <2>8. Members(r) = Members(s) \ {t}
    BY <2>6, <2>7
  <2> QED BY <1>2, <2>2, <2>3, <2>4, <2>8
<1> QED
  BY <1>1, <1>2

\* A list with a node inserted at position i.
LEMMA InsertAtElements ==
    ASSUME NEW S, NEW s \in Seq(S), NEW t \in S, NEW i \in 1 .. Len(s) + 1
    PROVE  /\ InsertAt(s, i, t) \in Seq(S)
           /\ Len(InsertAt(s, i, t)) = Len(s) + 1
           /\ \A j \in 1 .. Len(s) + 1 :
                 InsertAt(s, i, t)[j] =
                    IF j < i THEN s[j] ELSE IF j = i THEN t ELSE s[j - 1]
<1> DEFINE a == SubSeq(s, 1, i - 1)
           b == SubSeq(s, i, Len(s))
           c == a \o <<t>>
           r == c \o b
<1>1. Len(s) \in Nat /\ i \in Int
  OBVIOUS
<1>2. /\ a \in Seq(S) /\ Len(a) = i - 1
      /\ \A j \in 1 .. i - 1 : a[j] = s[j]
  BY <1>1
<1>3. /\ b \in Seq(S) /\ Len(b) = Len(s) - i + 1
      /\ \A j \in 1 .. Len(s) - i + 1 : b[j] = s[i + j - 1]
  BY <1>1
<1> HIDE DEF a, b
<1>4. /\ c \in Seq(S) /\ Len(c) = i
      /\ \A j \in 1 .. i : c[j] = IF j < i THEN s[j] ELSE t
  BY <1>1, <1>2
<1> HIDE DEF c
<1>5. /\ r \in Seq(S) /\ Len(r) = Len(s) + 1
      /\ \A j \in 1 .. Len(s) + 1 :
            r[j] = IF j <= i THEN c[j] ELSE b[j - i]
  <2>1. /\ r \in Seq(S) /\ Len(r) = Len(c) + Len(b)
        /\ \A j \in 1 .. Len(c) + Len(b) :
              r[j] = IF j <= Len(c) THEN c[j] ELSE b[j - Len(c)]
    BY <1>3, <1>4, ConcatProperties
  <2> HIDE DEF r
  <2> QED BY <1>1, <1>3, <1>4, <2>1
<1>6. InsertAt(s, i, t) = r
  BY DEF InsertAt, a, b, c
<1> HIDE DEF r
<1>7. \A j \in 1 .. Len(s) + 1 :
         r[j] = IF j < i THEN s[j] ELSE IF j = i THEN t ELSE s[j - 1]
  <2> SUFFICES ASSUME NEW j \in 1 .. Len(s) + 1
               PROVE  r[j] = IF j < i THEN s[j] ELSE IF j = i THEN t ELSE s[j - 1]
    OBVIOUS
  <2>1. CASE j <= i
    BY <1>1, <1>4, <1>5, <2>1
  <2>2. CASE j > i
    <3>1. j - i \in 1 .. Len(s) - i + 1 /\ i + (j - i) - 1 = j - 1
      BY <1>1, <2>2
    <3>2. r[j] = b[j - i] /\ b[j - i] = s[i + (j - i) - 1]
      BY <1>1, <1>3, <1>5, <2>2, <3>1
    <3> QED BY <1>1, <2>2, <3>1, <3>2
  <2> QED BY <1>1, <2>1, <2>2
<1> QED
  BY <1>5, <1>6, <1>7

\* rt_list_insert_before a node of the list, or its head.
LEMMA MembersInsertAt ==
    ASSUME NEW S, NEW s \in Seq(S), NEW t \in S, NEW i \in 1 .. Len(s) + 1
    PROVE  /\ InsertAt(s, i, t) \in Seq(S)
           /\ Members(InsertAt(s, i, t)) = Members(s) \cup {t}
           /\ NoDup(s) /\ t \notin Members(s) => NoDup(InsertAt(s, i, t))
<1> DEFINE r == InsertAt(s, i, t)
<1>1. Len(s) \in Nat /\ i \in Int
  OBVIOUS
<1>2. /\ r \in Seq(S) /\ Len(r) = Len(s) + 1
      /\ \A j \in 1 .. Len(s) + 1 :
            r[j] = IF j < i THEN s[j] ELSE IF j = i THEN t ELSE s[j - 1]
  BY InsertAtElements
<1> HIDE DEF r
<1>3. Members(r) = Members(s) \cup {t}
  <2>1. ASSUME NEW j \in 1 .. Len(r) PROVE r[j] \in Members(s) \cup {t}
    <3>1. CASE j < i
      BY <1>1, <1>2, <3>1 DEF Members
    <3>2. CASE j = i
      BY <1>1, <1>2, <3>2
    <3>3. CASE j > i
      <4>1. j - 1 \in 1 .. Len(s) /\ r[j] = s[j - 1]
        BY <1>1, <1>2, <3>3
      <4> QED BY <4>1 DEF Members
    <3> QED BY <1>1, <3>1, <3>2, <3>3
  <2>2. i \in 1 .. Len(r) /\ r[i] = t
    BY <1>1, <1>2
  <2>3. ASSUME NEW u \in Members(s) PROVE u \in Members(r)
    <3>1. PICK j \in 1 .. Len(s) : s[j] = u
      BY DEF Members
    <3>2. \/ j \in 1 .. Len(r) /\ r[j] = u
          \/ j + 1 \in 1 .. Len(r) /\ r[j + 1] = u
      BY <1>1, <1>2, <3>1
    <3> QED BY <3>2 DEF Members
  <2> QED BY <2>1, <2>2, <2>3 DEF Members
<1>4. NoDup(s) /\ t \notin Members(s) => NoDup(r)
  <2> SUFFICES ASSUME NoDup(s), t \notin Members(s),
                      NEW m \in 1 .. Len(r), NEW n \in 1 .. Len(r), r[m] = r[n]
               PROVE  m = n
    BY DEF NoDup
  <2>1. \A j \in 1 .. Len(s) : s[j] # t
    BY DEF Members
  <2> DEFINE at(j) == IF j < i THEN j ELSE j - 1
  <2>2. ASSUME NEW j \in 1 .. Len(r), j # i
        PROVE  at(j) \in 1 .. Len(s) /\ r[j] = s[at(j)]
    BY <1>1, <1>2, <2>2
  <2>3. r[i] = t /\ i \in 1 .. Len(r)
    BY <1>1, <1>2
  <2>4. CASE m = i \/ n = i
    BY <2>1, <2>2, <2>3, <2>4
  <2>5. CASE m # i /\ n # i
    <3>1. at(m) = at(n)
      BY <2>2, <2>5 DEF NoDup
    <3> QED BY <1>1, <2>5, <3>1
  <2> QED BY <2>4, <2>5
<1> QED
  BY <1>2, <1>3, <1>4 DEF r

\* A non-empty set of priorities or positions has a least element.
LEMMA MinIsLeast ==
    ASSUME NEW P \in SUBSET Nat, P # {}
    PROVE  Min(P) \in P /\ \A m \in P : Min(P) <= m
<1> DEFINE R == OpToRel(<, Nat)
<1>1. IsWellFoundedOn(R, Nat)
  BY NatLessThanWellFounded
<1>2. \A x, y \in Nat : x < y => <<x, y>> \in R
  BY DEF OpToRel
<1> HIDE DEF R
<1>3. PICK n \in P : \A m \in P : ~ (<<m, n>> \in R)
  BY <1>1, WFMin
<1>4. ASSUME NEW m \in P PROVE n <= m
  <2>1. n \in Nat /\ m \in Nat /\ ~ (m < n)
    BY <1>2, <1>3
  <2> QED BY <2>1
<1> QED
  BY <1>4 DEF Min

\* The walks of rt_timer_start and _ipc_list_suspend end inside the list or
\* right after it.
LEMMA FirstOfIsPosition ==
    ASSUME NEW S, NEW s \in Seq(S), NEW P \in SUBSET (1 .. Len(s))
    PROVE  FirstOf(s, P) \in 1 .. Len(s) + 1
<1>1. Len(s) \in Nat
  OBVIOUS
<1>2. CASE P = {}
  BY <1>1, <1>2 DEF FirstOf
<1>3. CASE P # {}
  <2>1. Min(P) \in P
    BY <1>3, MinIsLeast
  <2>2. Min(P) \in 1 .. Len(s)
    BY <2>1
  <2>3. FirstOf(s, P) = Min(P)
    BY <1>3 DEF FirstOf
  <2> QED BY <1>1, <2>2, <2>3
<1> QED
  BY <1>2, <1>3

\* A list keeps its order under another key that orders its members alike.
LEMMA OrderedAlike ==
    ASSUME NEW S, NEW s \in Seq(S), NEW f, NEW g, Ordered(s, f),
           \A t, u \in Members(s) : f[t] <= f[u] => g[t] <= g[u]
    PROVE  Ordered(s, g)
<1> SUFFICES ASSUME NEW i \in 1 .. Len(s), NEW j \in 1 .. Len(s), i < j
             PROVE  g[s[i]] <= g[s[j]]
  BY DEF Ordered
<1>1. s[i] \in Members(s) /\ s[j] \in Members(s)
  BY DEF Members
<1>2. f[s[i]] <= f[s[j]]
  BY DEF Ordered
<1> QED BY <1>1, <1>2

\* The first node of an ordered list has the least key, and the rest of the
\* list is ordered.
LEMMA OrderedTail ==
    ASSUME NEW S, NEW s \in Seq(S), s # <<>>, NEW f \in [S -> Int], Ordered(s, f)
    PROVE  /\ Ordered(Tail(s), f)
           /\ \A t \in Members(s) : f[Head(s)] <= f[t]
<1>1. /\ Len(s) \in Nat \ {0} /\ Head(s) = s[1] /\ Head(s) \in S
      /\ Tail(s) \in Seq(S) /\ Len(Tail(s)) = Len(s) - 1
      /\ \A i \in 1 .. Len(s) - 1 : Tail(s)[i] = s[i + 1]
  OBVIOUS
<1>2. Ordered(Tail(s), f)
  <2> SUFFICES ASSUME NEW i \in 1 .. Len(s) - 1, NEW j \in 1 .. Len(s) - 1, i < j
               PROVE  f[s[i + 1]] <= f[s[j + 1]]
    BY <1>1 DEF Ordered
  <2>1. i + 1 \in 1 .. Len(s) /\ j + 1 \in 1 .. Len(s) /\ i + 1 < j + 1
    BY <1>1
  <2> QED BY <2>1 DEF Ordered
<1>3. ASSUME NEW t \in Members(s) PROVE f[Head(s)] <= f[t]
  <2>1. PICK i \in 1 .. Len(s) : s[i] = t
    BY DEF Members
  <2>2. CASE i = 1
    <3>1. f[t] \in Int /\ Head(s) = t
      BY <1>1, <2>1, <2>2
    <3> QED BY <3>1
  <2>3. CASE 1 < i
    BY <1>1, <2>1, <2>3 DEF Ordered
  <2> QED BY <2>1, <2>2, <2>3
<1> QED BY <1>2, <1>3

\* rt_list_remove keeps the order of the other nodes.
LEMMA OrderedWithout ==
    ASSUME NEW S, NEW s \in Seq(S), NEW f, Ordered(s, f), NEW t
    PROVE  Ordered(Without(s, t), f)
<1>1. CASE t \notin Members(s)
  BY <1>1 DEF Without
<1>2. CASE t \in Members(s)
  <2> DEFINE i == CHOOSE i \in 1 .. Len(s) : s[i] = t
             r == RemoveAt(s, i)
             at(j) == IF j < i THEN j ELSE j + 1
  <2>1. i \in 1 .. Len(s)
    BY <1>2 DEF Members
  <2> HIDE DEF i
  <2>2. Without(s, t) = r
    BY <1>2 DEF Without, i
  <2>3. /\ Len(r) = Len(s) - 1 /\ Len(s) \in Nat
        /\ \A j \in 1 .. Len(s) - 1 : r[j] = IF j < i THEN s[j] ELSE s[j + 1]
    BY <2>1, RemoveAtElements
  <2> HIDE DEF r
  <2> SUFFICES ASSUME NEW j \in 1 .. Len(r), NEW l \in 1 .. Len(r), j < l
               PROVE  f[r[j]] <= f[r[l]]
    BY <2>2 DEF Ordered
  <2>4. /\ at(j) \in 1 .. Len(s) /\ r[j] = s[at(j)]
        /\ at(l) \in 1 .. Len(s) /\ r[l] = s[at(l)]
        /\ at(j) < at(l)
    BY <2>1, <2>3
  <2> HIDE DEF at
  <2> QED BY <2>4 DEF Ordered
<1> QED
  BY <1>1, <1>2

\* A walk that stops before the first node of a greater key, and inserts
\* there, keeps the order.
LEMMA OrderedInsert ==
    ASSUME NEW S, NEW s \in Seq(S), NEW t \in S, NEW f \in [S -> Int],
           Ordered(s, f)
    PROVE  Ordered(InsertAt(s, FirstOf(s, {i \in 1 .. Len(s) : f[t] < f[s[i]]}),
                            t), f)
<1> DEFINE P == {i \in 1 .. Len(s) : f[t] < f[s[i]]}
           p == FirstOf(s, P)
           r == InsertAt(s, p, t)
<1>1. /\ Len(s) \in Nat /\ f[t] \in Int
      /\ \A i \in 1 .. Len(s) : f[s[i]] \in Int
  OBVIOUS
<1>2. /\ p \in 1 .. Len(s) + 1
      /\ \A i \in 1 .. Len(s) : i < p => f[s[i]] <= f[t]
      /\ \A i \in 1 .. Len(s) : p <= i => f[t] < f[s[i]]
  <2>1. P \in SUBSET (1 .. Len(s)) /\ P \in SUBSET Nat
    BY <1>1
  <2>2. p \in 1 .. Len(s) + 1
    BY <2>1, FirstOfIsPosition
  <2>3. CASE P = {}
    <3>1. p = Len(s) + 1
      BY <2>3 DEF FirstOf
    <3>2. \A i \in 1 .. Len(s) : f[s[i]] <= f[t]
      BY <1>1, <2>3
    <3> HIDE DEF p
    <3> QED BY <1>1, <2>2, <3>1, <3>2
  <2>4. CASE P # {}
    <3>1. p \in P /\ \A m \in P : p <= m
      BY <2>1, <2>4, MinIsLeast DEF FirstOf
    <3> HIDE DEF p
    <3>2. ASSUME NEW i \in 1 .. Len(s), i < p PROVE f[s[i]] <= f[t]
      <4>1. i \notin P
        BY <1>1, <3>1, <3>2
      <4> QED BY <1>1, <4>1
    <3>3. ASSUME NEW i \in 1 .. Len(s), p <= i PROVE f[t] < f[s[i]]
      <4>1. p \in 1 .. Len(s) /\ f[t] < f[s[p]]
        BY <3>1
      <4>2. p < i => f[s[p]] <= f[s[i]]
        BY <4>1 DEF Ordered
      <4> QED BY <1>1, <3>3, <4>1, <4>2
    <3> QED BY <2>2, <3>2, <3>3
  <2> QED BY <2>3, <2>4
<1> HIDE DEF p, P
<1>3. /\ Len(r) = Len(s) + 1
      /\ \A j \in 1 .. Len(s) + 1 :
            r[j] = IF j < p THEN s[j] ELSE IF j = p THEN t ELSE s[j - 1]
  BY <1>2, InsertAtElements
<1> HIDE DEF r
<1>4. Ordered(r, f)
  <2> SUFFICES ASSUME NEW j \in 1 .. Len(s) + 1, NEW l \in 1 .. Len(s) + 1, j < l
               PROVE  f[r[j]] <= f[r[l]]
    BY <1>3 DEF Ordered
  <2> DEFINE at(i) == IF i < p THEN i ELSE i - 1
  <2>1. ASSUME NEW i \in 1 .. Len(s) + 1, i # p
        PROVE  at(i) \in 1 .. Len(s) /\ r[i] = s[at(i)]
    BY <1>1, <1>2, <1>3, <2>1
  <2>2. CASE j # p /\ l # p
    <3>1. at(j) < at(l)
      BY <1>1, <1>2, <2>2
    <3> HIDE DEF at
    <3> QED BY <2>1, <2>2, <3>1 DEF Ordered
  <2>3. CASE j = p
    <3>1. l - 1 \in 1 .. Len(s) /\ p <= l - 1 /\ r[l] = s[l - 1] /\ r[j] = t
      BY <1>1, <1>2, <1>3, <2>3
    <3>2. f[t] < f[s[l - 1]] /\ f[s[l - 1]] \in Int
      BY <1>1, <1>2, <3>1
    <3> QED BY <1>1, <3>1, <3>2
  <2>4. CASE l = p
    <3>1. j \in 1 .. Len(s) /\ r[j] = s[j] /\ r[l] = t
      BY <1>1, <1>2, <1>3, <2>4
    <3> QED BY <1>2, <2>4, <3>1
  <2> QED BY <2>2, <2>3, <2>4
<1> QED
  BY <1>4 DEF r, p, P
=============================================================================
