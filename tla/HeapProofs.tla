----------------------------- MODULE HeapProofs -----------------------------
(***************************************************************************)
(* The heap's invariants for every size, header, alignment and set of      *)
(* requests.  The lemmas are about a heap h that need not be the current   *)
(* one: rt_realloc_Move goes through two.                                  *)
(***************************************************************************)
EXTENDS Heap, ListLemmas, FiniteSetTheorems, TLAPS

Items(h) == DOMAIN h.item
Prev(h, p) == h.item[p].prev

\* The fields of a heap and its headers.
Shaped(h) ==
    /\ h = [item |-> h.item, lfree |-> h.lfree, used |-> h.used, max |-> h.max]
    /\ h.item \in [Items(h) -> [used : BOOLEAN, next : Address, prev : Address]]
    /\ Items(h) \subseteq Address
    /\ {0, End} \subseteq Items(h)

\* The items from heap_ptr to heap_end, linked both ways.
Row(h) ==
    /\ IsUsed(h, End) /\ Next(h, End) = End /\ Prev(h, 0) = 0
    /\ \A p \in Items(h) \ {End} :
          /\ Next(h, p) \in Items(h) /\ Next(h, p) >= p + Header
          /\ p % AlignSize = 0
          /\ \A q \in Items(h) : q <= p \/ q >= Next(h, p)
          /\ Next(h, p) # End => Prev(h, Next(h, p)) = p
    /\ \A q \in Items(h) \ {0, End} :
          Prev(h, q) \in Items(h) \ {End} /\ Next(h, Prev(h, q)) = q

\* The item p is used, or the one behind it is.
NoHole(h, p) == p # End /\ Next(h, p) # End /\ ~ IsUsed(h, p) => IsUsed(h, Next(h, p))

\* lfree is not above a free item ...
NoneBelow(h) ==
    h.lfree \in Items(h) /\ \A q \in Items(h) : ~ IsUsed(h, q) => q >= h.lfree

\* ... and is one itself.
Lowest(h) == NoneBelow(h) /\ (h.lfree = End \/ ~ IsUsed(h, h.lfree))

-----------------------------------------------------------------------------
\* RT_ALIGN rounds up to a multiple.
LEMMA AlignUp ==
    ASSUME NEW n \in Nat
    PROVE  Align(n) \in Nat /\ Align(n) >= n /\ Align(n) % AlignSize = 0
<1>1. Align(n) >= n
  BY SizeAssumption DEF Align
<1>2. Align(n) \in Nat
  BY SizeAssumption DEF Align
<1>3. Align(n) % AlignSize = 0
  BY SizeAssumption DEF Align
<1> QED BY <1>1, <1>2, <1>3

\* The sum of two multiples is one.
LEMMA AlignedSum ==
    ASSUME NEW m \in Nat, NEW n \in Nat, m % AlignSize = 0, n % AlignSize = 0
    PROVE  (m + n) % AlignSize = 0
<1> DEFINE a == m \div AlignSize
           b == n \div AlignSize
<1>0. AlignSize \in Nat \ {0}
  BY SizeAssumption
<1>1. a \in Nat /\ m = AlignSize * a
  BY <1>0
<1>2. b \in Nat /\ n = AlignSize * b
  BY <1>0
<1> HIDE DEF a, b
<1>3. a + b \in Nat /\ m + n = AlignSize * (a + b)
  BY <1>0, <1>1, <1>2
<1>4. ASSUME NEW c \in Nat PROVE (AlignSize * c) % AlignSize = 0
  BY <1>0
<1> QED BY <1>3, <1>4

\* The size of a data block.
LEMMA DataSizeUp ==
    ASSUME NEW n \in Nat
    PROVE  /\ DataSize(n) \in Nat /\ DataSize(n) >= n
           /\ DataSize(n) % AlignSize = 0
<1>1. MinSize \in Nat
  BY SizeAssumption
<1> QED BY <1>1, AlignUp DEF DataSize

\* The sizes.
LEMMA Sizes ==
    /\ Header \in Nat \ {0} /\ Size \in Nat /\ End \in Nat \ {0} /\ End = Size + Header
    /\ Header % AlignSize = 0 /\ Address = 0 .. End
BY SizeAssumption, AlignUp DEF End, Address

\* What is known of a heap whose row is in order.
LEMMA RowFacts ==
    ASSUME NEW h, Shaped(h), Row(h)
    PROVE  /\ Items(h) \subseteq Nat /\ 0 \in Items(h) /\ End \in Items(h)
           /\ \A p \in Items(h) :
                 /\ p <= End /\ Next(h, p) \in Items(h) /\ Next(h, p) \in Nat
                 /\ IsUsed(h, p) \in BOOLEAN
                 /\ p # End => p < Next(h, p)
<1>1. /\ Items(h) \subseteq 0 .. End /\ 0 \in Items(h) /\ End \in Items(h)
  BY Sizes DEF Shaped
<1>2. \A p \in Items(h) : IsUsed(h, p) \in BOOLEAN
  BY DEF Shaped, IsUsed, Items
<1>3. ASSUME NEW p \in Items(h) PROVE Next(h, p) \in Items(h)
  BY <1>1 DEF Row
<1>4. ASSUME NEW p \in Items(h), p # End PROVE p < Next(h, p)
  BY <1>1, <1>3, <1>4, Sizes DEF Row
<1> QED BY <1>1, <1>2, <1>3, <1>4, Sizes

\* A walk along next stops at the lowest item of S from p on.
LEMMA SearchIs ==
    ASSUME NEW h, Shaped(h), Row(h), NEW S, End \in S, NEW p \in Items(h)
    PROVE  /\ Search(h, p, S) \in Items(h) \cap S /\ Search(h, p, S) >= p
           /\ \A q \in Items(h) \cap S : q >= p => q >= Search(h, p, S)
<1> DEFINE D == Items(h)
           n(q) == Next(h, q)
           R(q) == {r \in D : r >= q /\ r \in S}
           g == [q \in D |-> Min(R(q))]
           F == CHOOSE f : f = [q \in D |-> IF q \in S THEN q ELSE f[n(q)]]
<1>1. /\ D \subseteq Nat /\ End \in D
      /\ \A q \in D : q <= End /\ n(q) \in D
      /\ \A q \in D \ {End} : q < n(q) /\ \A r \in D : r <= q \/ r >= n(q)
  BY RowFacts DEF Row
<1>2. Search(h, p, S) = F[p]
  BY DEF Search, Items
<1> HIDE DEF D, n
<1>3. ASSUME NEW q \in D
      PROVE  /\ R(q) \in SUBSET Nat /\ Min(R(q)) \in R(q)
             /\ \A r \in R(q) : Min(R(q)) <= r
  <2>1. R(q) \in SUBSET Nat /\ End \in R(q)
    BY <1>1
  <2> HIDE DEF R
  <2> QED BY <2>1, MinIsLeast
<1>4. ASSUME NEW q \in D PROVE g[q] = IF q \in S THEN q ELSE g[n(q)]
  <2>1. CASE q \in S
    <3>1. q \in R(q) /\ g[q] = Min(R(q)) /\ Min(R(q)) \in Nat /\ Min(R(q)) >= q
      BY <1>1, <1>3, <2>1
    <3>2. Min(R(q)) <= q
      BY <1>3, <3>1
    <3>3. q \in Nat
      BY <1>1
    <3> HIDE DEF R, g
    <3> QED BY <2>1, <3>1, <3>2, <3>3
  <2>2. CASE q \notin S
    <3>1. /\ n(q) \in D /\ q < n(q) /\ q \in Nat /\ n(q) \in Nat
          /\ \A r \in D : r <= q \/ r >= n(q)
      BY <1>1, <2>2
    <3>2. ASSUME NEW r \in D, r \in S PROVE r >= q <=> r >= n(q)
      <4>1. r \in Nat /\ r # q
        BY <1>1, <2>2, <3>2
      <4> QED BY <3>1, <4>1
    <3>3. R(q) = R(n(q))
      BY <3>2
    <3> HIDE DEF R
    <3> QED BY <2>2, <3>1, <3>3
  <2> QED BY <2>1, <2>2
<1>5. g = [q \in D |-> IF q \in S THEN q ELSE g[n(q)]]
  <2> HIDE DEF R
  <2> QED BY <1>4
<1> HIDE DEF g
<1>6. F = [q \in D |-> IF q \in S THEN q ELSE F[n(q)]]
  BY <1>5
<1> HIDE DEF F
<1>7. \A q \in D : F[q] = g[q]
  <2> SUFFICES ASSUME NEW q \in D, F[q] # g[q] PROVE FALSE
    OBVIOUS
  <2> DEFINE P == {End - r : r \in {r \in D : F[r] # g[r]}}
  <2>1. P \in SUBSET Nat /\ P # {}
    BY <1>1, Sizes
  <2>2. Min(P) \in P /\ \A m \in P : Min(P) <= m
    <3> HIDE DEF P
    <3> QED BY <2>1, MinIsLeast
  <2>3. PICK r \in D : F[r] # g[r] /\ Min(P) = End - r
    BY <2>2
  <2>4. r \notin S /\ r # End
    BY <1>4, <1>6, <2>3
  <2>5. F[r] = F[n(r)] /\ g[r] = g[n(r)] /\ n(r) \in D
    BY <1>1, <1>4, <1>6, <2>4
  <2>6. End - n(r) \in P
    BY <2>3, <2>5
  <2>7. r < n(r) /\ r \in Nat /\ n(r) \in Nat /\ End \in Nat
    BY <1>1, <2>4, <2>5, Sizes
  <2>8. End - r <= End - n(r)
    BY <2>2, <2>3, <2>6
  <2> QED BY <2>7, <2>8
<1>8. Search(h, p, S) = Min(R(p)) /\ p \in D
  BY <1>2, <1>7 DEF g, D
<1> QED BY <1>3, <1>8 DEF D

-----------------------------------------------------------------------------
(* What plug_holes does to the row *)

\* The heap g is h with the item m, the next of p, made part of p.
Absorbed(h, g, p, m) ==
    /\ Shaped(g) /\ Items(g) = Items(h) \ {m}
    /\ \A q \in Items(g) :
          /\ Next(g, q) = IF q = p THEN Next(h, m) ELSE Next(h, q)
          /\ Prev(g, q) = IF q = Next(h, m) THEN p ELSE Prev(h, q)
          /\ IsUsed(g, q) = IsUsed(h, q)
    /\ g.lfree = (IF h.lfree = m THEN p ELSE h.lfree)
    /\ g.used = h.used /\ g.max = h.max

\* Merged is that.
LEMMA MergedIs ==
    ASSUME NEW h, Shaped(h), Row(h), NEW p \in Items(h), p # End,
           NEW m, m = Next(h, p), m # End
    PROVE  Absorbed(h, Merged(h, p, m), p, m)
<1> DEFINE n == Next(h, m)
           D == Items(h) \ {m}
           r == [q \in D |-> h.item[q]]
           i == [r EXCEPT ![p].next = n, ![n].prev = p]
           g == Merged(h, p, m)
           H == [used : BOOLEAN, next : Address, prev : Address]
<1>1. /\ m \in Items(h) /\ n \in Items(h) /\ n # m /\ p # m /\ n # p
      /\ {0, End} \subseteq D /\ D \subseteq Address /\ p \in Address /\ n \in Address
  <2>1. /\ m \in Items(h) /\ n \in Items(h) /\ p < m /\ m < n
        /\ p \in Nat /\ m \in Nat /\ n \in Nat /\ m # 0
    BY RowFacts
  <2> QED BY <2>1 DEF Shaped
<1>2. g = [item |-> i, lfree |-> IF h.lfree = m THEN p ELSE h.lfree,
           used |-> h.used, max |-> h.max]
  <2>1. g = [h EXCEPT !.item = i, !.lfree = IF h.lfree = m THEN p ELSE h.lfree]
    BY DEF Merged, Restrict, Items
  <2> HIDE DEF g, i
  <2> QED BY <2>1 DEF Shaped
<1>3. r \in [D -> H] /\ \A q \in D : r[q] = h.item[q]
  BY DEF Shaped
<1>4. h.item \in [Items(h) -> H]
  BY DEF Shaped
<1> HIDE DEF r, n, D
<1>5. /\ i \in [D -> H]
      /\ \A q \in D : /\ i[q].next = IF q = p THEN n ELSE r[q].next
                      /\ i[q].prev = IF q = n THEN p ELSE r[q].prev
                      /\ i[q].used = r[q].used
  <2>1. p \in D /\ n \in D
    BY <1>1 DEF D
  <2> QED BY <1>1, <1>3, <2>1
<1> HIDE DEF i, g, H
<1>6. /\ g.item = i /\ g.lfree = (IF h.lfree = m THEN p ELSE h.lfree)
      /\ g.used = h.used /\ g.max = h.max
  BY <1>2
<1>7. Items(g) = D
  BY <1>5, <1>6 DEF Items
<1>8. Shaped(g)
  BY <1>1, <1>2, <1>5, <1>6, <1>7 DEF Shaped, H
<1>9. ASSUME NEW q \in D
      PROVE  /\ Next(g, q) = IF q = p THEN n ELSE Next(h, q)
             /\ Prev(g, q) = IF q = n THEN p ELSE Prev(h, q)
             /\ IsUsed(g, q) = IsUsed(h, q)
  BY <1>3, <1>5, <1>6 DEF Next, Prev, IsUsed
<1> QED BY <1>6, <1>7, <1>8, <1>9 DEF Absorbed, g, n, D

\* The row stays in order.
LEMMA AbsorbedRow ==
    ASSUME NEW h, NEW g, Shaped(h), Row(h), NEW p \in Items(h), p # End,
           NEW m, m = Next(h, p), m # End, Absorbed(h, g, p, m)
    PROVE  Row(g)
<1> DEFINE n == Next(h, m)
<1>0. /\ Header \in Nat /\ Items(h) \subseteq Nat /\ 0 \in Items(h) /\ End \in Items(h)
      /\ m \in Items(h) /\ n \in Items(h) /\ p < m /\ m < n
      /\ \A q \in Items(h) : Next(h, q) \in Items(h)
  BY RowFacts, Sizes
<1>1. /\ Items(g) = Items(h) \ {m} /\ p \in Items(g) /\ n \in Items(g)
      /\ 0 \in Items(g) /\ End \in Items(g) /\ n # p /\ m # 0
  <2>1. p \in Nat /\ m \in Nat /\ n \in Nat
    BY <1>0
  <2> QED BY <1>0, <2>1 DEF Absorbed
<1>2. \A q \in Items(g) :
          /\ Next(g, q) = IF q = p THEN n ELSE Next(h, q)
          /\ Prev(g, q) = IF q = n THEN p ELSE Prev(h, q)
          /\ IsUsed(g, q) = IsUsed(h, q)
  BY DEF Absorbed
<1>3. /\ m >= p + Header /\ n >= m + Header /\ p % AlignSize = 0
      /\ \A q \in Items(h) : (q <= p \/ q >= m) /\ (q <= m \/ q >= n)
      /\ n # End => Prev(h, n) = m
  BY <1>0 DEF Row
<1> HIDE DEF n
<1>4. IsUsed(g, End) /\ Next(g, End) = End /\ Prev(g, 0) = 0
  BY <1>0, <1>1, <1>2 DEF Row
<1>5. ASSUME NEW q \in Items(g) \ {End}
      PROVE  /\ Next(g, q) \in Items(g) /\ Next(g, q) >= q + Header
             /\ q % AlignSize = 0
             /\ \A r \in Items(g) : r <= q \/ r >= Next(g, q)
             /\ Next(g, q) # End => Prev(g, Next(g, q)) = q
  <2>1. CASE q = p
    <3>1. Next(g, q) = n /\ Prev(g, n) = p
      BY <1>1, <1>2, <2>1
    <3>2. n >= p + Header
      BY <1>0, <1>3
    <3>3. ASSUME NEW r \in Items(g) PROVE r <= p \/ r >= n
      <4>1. r \in Items(h) /\ r # m /\ r \in Nat
        BY <1>0, <1>1
      <4>2. (r <= p \/ r >= m) /\ (r <= m \/ r >= n)
        BY <1>3, <4>1
      <4> QED BY <1>0, <4>1, <4>2
    <3> QED BY <1>1, <1>3, <2>1, <3>1, <3>2, <3>3
  <2>2. CASE q # p
    <3>1. Next(g, q) = Next(h, q) /\ q \in Items(h) \ {End} /\ q # m
      BY <1>1, <1>2, <2>2
    <3>2. /\ Next(h, q) \in Items(h) /\ Next(h, q) >= q + Header
          /\ q % AlignSize = 0
          /\ \A r \in Items(h) : r <= q \/ r >= Next(h, q)
          /\ Next(h, q) # End => Prev(h, Next(h, q)) = q
      BY <3>1 DEF Row
    <3>3. Next(h, q) # m /\ (Next(h, q) # End => Next(h, q) # n)
      <4>1. Prev(h, m) = p
        BY <1>0 DEF Row
      <4> QED BY <1>3, <2>2, <3>1, <3>2, <4>1
    <3> QED BY <1>1, <1>2, <3>1, <3>2, <3>3
  <2> QED BY <2>1, <2>2
<1>6. ASSUME NEW q \in Items(g) \ {0, End}
      PROVE  Prev(g, q) \in Items(g) \ {End} /\ Next(g, Prev(g, q)) = q
  <2>1. CASE q = n
    BY <1>1, <1>2, <2>1
  <2>2. CASE q # n
    <3>1. Prev(g, q) = Prev(h, q) /\ q \in Items(h) \ {0, End} /\ q # m
      BY <1>1, <1>2, <2>2
    <3>2. Prev(h, q) \in Items(h) \ {End} /\ Next(h, Prev(h, q)) = q
      BY <3>1 DEF Row
    <3>3. Prev(h, q) # m /\ Prev(h, q) # p
      BY <2>2, <3>1, <3>2 DEF n
    <3> QED BY <1>1, <1>2, <3>1, <3>2, <3>3
  <2> QED BY <2>1, <2>2
<1> QED BY <1>4, <1>5, <1>6 DEF Row


\* The heap g has the items in use of h, as they are, and its statistics.
SameUse(h, g) ==
    /\ \A q \in Items(h) : IsUsed(h, q) =>
          q \in Items(g) /\ IsUsed(g, q) /\ Next(g, q) = Next(h, q)
    /\ \A q \in Items(g) : IsUsed(g, q) => q \in Items(h) /\ IsUsed(h, q)
    /\ g.used = h.used /\ g.max = h.max

\* Of two free items the lower one is left.
LEMMA AbsorbedFree ==
    ASSUME NEW h, NEW g, Shaped(h), Row(h), Lowest(h), NEW p \in Items(h), p # End,
           NEW m, m = Next(h, p), m # End, ~ IsUsed(h, p), ~ IsUsed(h, m),
           Absorbed(h, g, p, m)
    PROVE  /\ Shaped(g) /\ Row(g) /\ Lowest(g) /\ SameUse(h, g)
           /\ p \in Items(g) /\ ~ IsUsed(g, p)
<1>0. /\ Items(h) \subseteq Nat /\ m \in Items(h) /\ p < m
      /\ h.lfree \in Items(h) /\ h.lfree <= p
  BY RowFacts DEF Lowest, NoneBelow
<1>1. /\ Items(g) = Items(h) \ {m} /\ p \in Items(g)
      /\ \A q \in Items(g) :
            /\ Next(g, q) = IF q = p THEN Next(h, m) ELSE Next(h, q)
            /\ IsUsed(g, q) = IsUsed(h, q)
      /\ g.used = h.used /\ g.max = h.max
  BY <1>0 DEF Absorbed
<1>2. SameUse(h, g)
  BY <1>1 DEF SameUse
<1>3. g.lfree = h.lfree /\ h.lfree # m
  BY <1>0 DEF Absorbed
<1>4. Lowest(g)
  BY <1>0, <1>1, <1>3 DEF Lowest, NoneBelow
<1>5. Shaped(g) /\ Row(g)
  BY AbsorbedRow DEF Absorbed
<1> QED BY <1>1, <1>2, <1>4, <1>5

\* The forward half of plug_holes: only the item before p may still be free
\* beside it.
LEMMA PlugForward ==
    ASSUME NEW h, Shaped(h), Row(h), Lowest(h), NEW p \in Items(h), p # End,
           ~ IsUsed(h, p),
           \A q \in Items(h) : q # p /\ Next(h, q) # p => NoHole(h, q),
           NEW g, g = IF p # Next(h, p) /\ ~ IsUsed(h, Next(h, p)) /\ Next(h, p) # End
                      THEN Merged(h, p, Next(h, p)) ELSE h
    PROVE  /\ Shaped(g) /\ Row(g) /\ Lowest(g) /\ SameUse(h, g)
           /\ p \in Items(g) /\ ~ IsUsed(g, p)
           /\ \A q \in Items(g) : Next(g, q) # p => NoHole(g, q)
<1> DEFINE m == Next(h, p)
<1>0. p \in Nat /\ m \in Items(h) /\ m \in Nat /\ p < m
  BY RowFacts
<1>1. CASE ~ IsUsed(h, m) /\ m # End
  <2>1. g = Merged(h, p, m)
    BY <1>0, <1>1
  <2>2. Absorbed(h, g, p, m)
    BY <1>1, <2>1, MergedIs
  <2>3. /\ Shaped(g) /\ Row(g) /\ Lowest(g) /\ SameUse(h, g)
        /\ p \in Items(g) /\ ~ IsUsed(g, p)
    BY <1>1, <2>2, AbsorbedFree
  <2>4. ASSUME NEW q \in Items(g), Next(g, q) # p PROVE NoHole(g, q)
    <3>1. /\ Items(g) = Items(h) \ {m}
          /\ \A r \in Items(g) :
                /\ Next(g, r) = IF r = p THEN Next(h, m) ELSE Next(h, r)
                /\ IsUsed(g, r) = IsUsed(h, r)
          /\ Next(g, q) \in Items(g)
      BY <2>2, <2>3, RowFacts DEF Absorbed
    <3>2. CASE q = p
      <4>1. Next(h, m) # p
        BY <1>0, <1>1, RowFacts
      <4>2. NoHole(h, m)
        BY <1>0, <4>1
      <4> QED BY <1>1, <3>1, <3>2, <4>2 DEF NoHole
    <3>3. CASE q # p
      BY <2>4, <3>1, <3>3 DEF NoHole
    <3> QED BY <3>2, <3>3
  <2> QED BY <2>3, <2>4
<1>2. CASE IsUsed(h, m) \/ m = End
  <2>1. g = h
    BY <1>2
  <2>2. NoHole(h, p)
    BY <1>2 DEF NoHole
  <2> QED BY <2>1, <2>2 DEF SameUse
<1> QED BY <1>0, <1>1, <1>2, RowFacts

\* plug_holes leaves no two free items in a row when it is called with the
\* only free item that may have a free neighbour.
LEMMA PlugHoles ==
    ASSUME NEW h, Shaped(h), Row(h), Lowest(h), NEW p \in Items(h), p # End,
           ~ IsUsed(h, p),
           \A q \in Items(h) : q # p /\ Next(h, q) # p => NoHole(h, q)
    PROVE  LET g == plug_holes(h, p)
           IN  /\ Shaped(g) /\ Row(g) /\ Lowest(g) /\ SameUse(h, g)
               /\ \A q \in Items(g) : NoHole(g, q)
<1> DEFINE f == IF p # Next(h, p) /\ ~ IsUsed(h, Next(h, p)) /\ Next(h, p) # End
                THEN Merged(h, p, Next(h, p)) ELSE h
           m == Prev(f, p)
           g == plug_holes(h, p)
<1>1. /\ Shaped(f) /\ Row(f) /\ Lowest(f) /\ SameUse(h, f)
      /\ p \in Items(f) /\ ~ IsUsed(f, p)
      /\ \A q \in Items(f) : Next(f, q) # p => NoHole(f, q)
  <2> HIDE DEF f
  <2> QED BY PlugForward DEF f
<1>2. g = IF m # p /\ ~ IsUsed(f, m) THEN Merged(f, m, p) ELSE f
  BY DEF plug_holes, Prev
<1> HIDE DEF f, g
<1>3. ASSUME NEW q \in Items(f), Next(f, q) = p PROVE q = m /\ q # p
  <2>1. q # End /\ q < p /\ q \in Nat /\ p \in Nat
    BY <1>1, <1>3, RowFacts DEF Row
  <2> QED BY <1>1, <1>3, <2>1 DEF Row
<1>4. CASE m # p /\ ~ IsUsed(f, m)
  <2>1. p # 0 /\ m \in Items(f) /\ m # End /\ Next(f, m) = p
    BY <1>1, <1>4 DEF Row
  <2>2. Absorbed(f, g, m, p)
    BY <1>1, <1>2, <1>4, <2>1, MergedIs
  <2>3. Shaped(g) /\ Row(g) /\ Lowest(g) /\ SameUse(f, g)
    BY <1>1, <1>4, <2>1, <2>2, AbsorbedFree
  <2>4. SameUse(h, g)
    BY <1>1, <2>3 DEF SameUse
  <2>5. ASSUME NEW q \in Items(g) PROVE NoHole(g, q)
    <3>1. /\ Items(g) = Items(f) \ {p}
          /\ \A r \in Items(g) :
                /\ Next(g, r) = IF r = m THEN Next(f, p) ELSE Next(f, r)
                /\ IsUsed(g, r) = IsUsed(f, r)
          /\ Next(g, q) \in Items(g)
      BY <2>2, <2>3, RowFacts DEF Absorbed
    <3>2. CASE q = m
      <4>1. Next(f, p) # p
        BY <1>1, RowFacts
      <4> QED BY <1>1, <3>1, <3>2, <4>1 DEF NoHole
    <3>3. CASE q # m
      <4>1. q \in Items(f) /\ Next(f, q) # p
        BY <1>3, <3>1, <3>3
      <4> QED BY <1>1, <3>1, <3>3, <4>1 DEF NoHole
    <3> QED BY <3>2, <3>3
  <2> QED BY <2>3, <2>4, <2>5 DEF g
<1>5. CASE ~ (m # p /\ ~ IsUsed(f, m))
  <2>1. g = f
    BY <1>2, <1>5
  <2>2. ASSUME NEW q \in Items(f), Next(f, q) = p PROVE NoHole(f, q)
    BY <1>3, <1>5, <2>2 DEF NoHole
  <2> QED BY <1>1, <2>1, <2>2 DEF g
<1> QED BY <1>4, <1>5


-----------------------------------------------------------------------------
(* What an allocation does to the row *)

\* The heap g is h with a free item p2 split off from p.
Divided(h, g, p, p2) ==
    /\ Shaped(g) /\ Items(g) = Items(h) \cup {p2}
    /\ \A q \in Items(g) :
          /\ Next(g, q) = IF q = p2 THEN Next(h, p)
                          ELSE IF q = p THEN p2 ELSE Next(h, q)
          /\ Prev(g, q) = IF q = p2 THEN p
                          ELSE IF q = Next(h, p) /\ q # End THEN p2 ELSE Prev(h, q)
          /\ IsUsed(g, q) = IF q = p2 THEN FALSE ELSE IsUsed(h, q)
    /\ g.lfree = h.lfree /\ g.used = h.used /\ g.max = h.max

\* Split is that.
LEMMA SplitIs ==
    ASSUME NEW h, Shaped(h), Row(h), NEW p \in Items(h), p # End,
           NEW p2 \in Nat, p + Header <= p2, p2 + Header <= Next(h, p)
    PROVE  p2 \notin Items(h) /\ Divided(h, Split(h, p, p2), p, p2)
<1> DEFINE n == Next(h, p)
           D == Items(h) \cup {p2}
           H == [used : BOOLEAN, next : Address, prev : Address]
           e == [h.item EXCEPT ![p].next = p2]
           x == [used |-> FALSE, next |-> n, prev |-> p]
           i == With(e, p2, x)
           j == IF n # End THEN [i EXCEPT ![n].prev = p2] ELSE i
           g == Split(h, p, p2)
<1>1. /\ n \in Items(h) /\ p \in Nat /\ n \in Nat /\ Header \in Nat \ {0} /\ n <= End
      /\ Items(h) \subseteq 0 .. End /\ 0 \in Items(h) /\ End \in Items(h)
      /\ Address = 0 .. End /\ \A q \in Items(h) : q <= p \/ q >= n
  BY RowFacts, Sizes DEF Row, Shaped
<1>2. p2 \notin Items(h) /\ p # p2 /\ n # p2 /\ n # p /\ p2 \in Address
  <2>1. p2 \in 0 .. End
    BY <1>1, Sizes
  <2>2. ~ (p2 <= p) /\ ~ (p2 >= n) /\ n # p
    BY <1>1
  <2> QED BY <1>1, <2>1, <2>2
<1>3. g = [item |-> j, lfree |-> h.lfree, used |-> h.used, max |-> h.max]
  <2>1. g = [h EXCEPT !.item = j]
    BY DEF Split
  <2> HIDE DEF g, j
  <2> QED BY <2>1 DEF Shaped
<1>4. h.item \in [Items(h) -> H] /\ x \in H /\ p \in Address /\ n \in Address
  BY <1>1 DEF Shaped
<1> HIDE DEF n, g
<1>5. /\ e \in [Items(h) -> H]
      /\ \A q \in Items(h) : /\ e[q].next = IF q = p THEN p2 ELSE h.item[q].next
                             /\ e[q].prev = h.item[q].prev
                             /\ e[q].used = h.item[q].used
  BY <1>2, <1>4
<1> HIDE DEF e, H
<1>6. /\ i \in [D -> H] /\ i[p2] = x
      /\ \A q \in Items(h) : i[q] = e[q]
  <2> HIDE DEF x
  <2> QED BY <1>2, <1>4, <1>5 DEF With
<1>7. /\ i[p2].next = n /\ i[p2].prev = p /\ i[p2].used = FALSE
      /\ \A q \in Items(h) : /\ i[q].next = IF q = p THEN p2 ELSE h.item[q].next
                             /\ i[q].prev = h.item[q].prev
                             /\ i[q].used = h.item[q].used
  <2>1. i[p2].next = n /\ i[p2].prev = p /\ i[p2].used = FALSE
    <3> HIDE DEF i
    <3> QED BY <1>6
  <2> HIDE DEF i
  <2> QED BY <1>5, <1>6, <2>1
<1> HIDE DEF i
<1>8. /\ j \in [D -> H]
      /\ \A q \in D : /\ j[q].next = i[q].next /\ j[q].used = i[q].used
                      /\ j[q].prev = IF q = n /\ q # End THEN p2 ELSE i[q].prev
  <2>1. CASE n # End
    <3>1. n \in D /\ n # End
      BY <1>1, <2>1 DEF n
    <3> QED BY <1>2, <1>6, <3>1 DEF H
  <2>2. CASE n = End
    BY <1>6, <2>2
  <2> QED BY <2>1, <2>2
<1> HIDE DEF j
<1>9. g.item = j /\ g.lfree = h.lfree /\ g.used = h.used /\ g.max = h.max
  BY <1>3
<1>10. Items(g) = D
  BY <1>8, <1>9 DEF Items
<1>11. Shaped(g)
  <2>1. {0, End} \subseteq D /\ D \subseteq Address
    BY <1>1, <1>2
  <2> QED BY <1>3, <1>8, <1>9, <1>10, <2>1 DEF Shaped, H
<1>12. ASSUME NEW q \in D
       PROVE  /\ Next(g, q) = IF q = p2 THEN n ELSE IF q = p THEN p2 ELSE Next(h, q)
              /\ Prev(g, q) = IF q = p2 THEN p
                              ELSE IF q = n /\ q # End THEN p2 ELSE Prev(h, q)
              /\ IsUsed(g, q) = IF q = p2 THEN FALSE ELSE IsUsed(h, q)
  <2>1. /\ Next(g, q) = i[q].next /\ IsUsed(g, q) = i[q].used
        /\ Prev(g, q) = IF q = n /\ q # End THEN p2 ELSE i[q].prev
    BY <1>8, <1>9 DEF Next, Prev, IsUsed
  <2>2. CASE q = p2
    BY <1>2, <1>7, <2>1, <2>2
  <2>3. CASE q # p2
    <3>1. /\ i[q].next = IF q = p THEN p2 ELSE Next(h, q)
          /\ i[q].prev = Prev(h, q) /\ i[q].used = IsUsed(h, q)
      BY <1>7, <2>3 DEF Next, Prev, IsUsed
    <3> QED BY <2>1, <2>3, <3>1
  <2> QED BY <2>2, <2>3
<1> QED BY <1>2, <1>9, <1>10, <1>11, <1>12 DEF Divided, g, n

\* The row stays in order.
LEMMA DividedRow ==
    ASSUME NEW h, NEW g, Shaped(h), Row(h), NEW p \in Items(h), p # End,
           NEW p2 \in Nat, p + Header <= p2, p2 + Header <= Next(h, p),
           p2 % AlignSize = 0, p2 \notin Items(h), Divided(h, g, p, p2)
    PROVE  Row(g)
<1> DEFINE n == Next(h, p)
<1>0. /\ Header \in Nat \ {0} /\ Items(h) \subseteq Nat
      /\ 0 \in Items(h) /\ End \in Items(h)
      /\ n \in Items(h) /\ p \in Nat /\ n \in Nat
      /\ \A q \in Items(h) : Next(h, q) \in Items(h) /\ q <= End
      /\ p < p2 /\ p2 < n
  BY RowFacts, Sizes
<1>1. /\ Items(g) = Items(h) \cup {p2} /\ p2 # End /\ p2 # 0
      /\ \A q \in Items(g) :
          /\ Next(g, q) = IF q = p2 THEN n ELSE IF q = p THEN p2 ELSE Next(h, q)
          /\ Prev(g, q) = IF q = p2 THEN p
                          ELSE IF q = n /\ q # End THEN p2 ELSE Prev(h, q)
          /\ IsUsed(g, q) = IF q = p2 THEN FALSE ELSE IsUsed(h, q)
  BY <1>0 DEF Divided
<1>2. /\ \A q \in Items(h) : q <= p \/ q >= n
      /\ n # End => Prev(h, n) = p
      /\ p % AlignSize = 0
  BY DEF Row
<1>3. n # 0
  BY <1>0
<1> HIDE DEF n
<1>4. IsUsed(g, End) /\ Next(g, End) = End /\ Prev(g, 0) = 0
  BY <1>0, <1>1, <1>3 DEF Row
<1>5. ASSUME NEW q \in Items(g) \ {End}
      PROVE  /\ Next(g, q) \in Items(g) /\ Next(g, q) >= q + Header
             /\ q % AlignSize = 0
             /\ \A r \in Items(g) : r <= q \/ r >= Next(g, q)
             /\ Next(g, q) # End => Prev(g, Next(g, q)) = q
  <2>1. CASE q = p2
    <3>1. Next(g, q) = n /\ n \in Items(g) /\ (n # End => Prev(g, n) = p2)
      BY <1>0, <1>1, <2>1
    <3>2. n >= p2 + Header
      BY <1>0 DEF n
    <3>3. ASSUME NEW r \in Items(g) PROVE r <= p2 \/ r >= n
      <4>1. CASE r = p2
        BY <4>1
      <4>2. CASE r \in Items(h)
        BY <1>0, <1>2, <4>2
      <4> QED BY <1>1, <4>1, <4>2
    <3> QED BY <2>1, <3>1, <3>2, <3>3
  <2>2. CASE q = p
    <3>1. Next(g, q) = p2 /\ Prev(g, p2) = p /\ p2 \in Items(g)
      BY <1>1, <2>2
    <3>2. ASSUME NEW r \in Items(g) PROVE r <= p \/ r >= p2
      <4>1. CASE r = p2
        BY <1>0, <4>1
      <4>2. CASE r \in Items(h)
        BY <1>0, <1>2, <4>2
      <4> QED BY <1>1, <4>1, <4>2
    <3> QED BY <1>2, <2>2, <3>1, <3>2
  <2>3. CASE q # p /\ q # p2
    <3>1. q \in Items(h) \ {End} /\ Next(g, q) = Next(h, q)
      BY <1>1, <2>3
    <3>2. /\ Next(h, q) \in Items(h) /\ Next(h, q) >= q + Header
          /\ q % AlignSize = 0
          /\ \A r \in Items(h) : r <= q \/ r >= Next(h, q)
          /\ Next(h, q) # End => Prev(h, Next(h, q)) = q
      BY <3>1 DEF Row
    <3>3. Next(h, q) # p2 /\ (Next(h, q) # End => Next(h, q) # n)
      BY <1>2, <2>3, <3>2
    <3>4. p2 <= q \/ p2 >= Next(h, q)
      <4>1. q <= p \/ q >= n
        BY <1>2, <3>1
      <4>2. p <= q \/ p >= Next(h, q)
        BY <3>2
      <4>3. q \in Nat /\ Next(h, q) \in Nat
        BY <1>0, <3>1
      <4> QED BY <1>0, <2>3, <4>1, <4>2, <4>3
    <3> QED BY <1>1, <3>1, <3>2, <3>3, <3>4
  <2> QED BY <2>1, <2>2, <2>3
<1>6. ASSUME NEW q \in Items(g) \ {0, End}
      PROVE  Prev(g, q) \in Items(g) \ {End} /\ Next(g, Prev(g, q)) = q
  <2>1. CASE q = p2
    BY <1>0, <1>1, <2>1
  <2>2. CASE q = n
    BY <1>0, <1>1, <2>2
  <2>3. CASE q # p2 /\ q # n
    <3>1. q \in Items(h) \ {0, End} /\ Prev(g, q) = Prev(h, q)
      BY <1>1, <2>3
    <3>2. Prev(h, q) \in Items(h) \ {End} /\ Next(h, Prev(h, q)) = q
      BY <3>1 DEF Row
    <3>3. Prev(h, q) # p /\ Prev(h, q) # p2
      BY <2>3, <3>2 DEF n
    <3> QED BY <1>1, <3>1, <3>2, <3>3
  <2> QED BY <2>1, <2>2, <2>3
<1> QED BY <1>4, <1>5, <1>6 DEF Row


-----------------------------------------------------------------------------
(* The statistics *)

\* The bytes of the items S.
Bytes(h, S) == UNION {p .. Next(h, p) - 1 : p \in S}

\* They lie between heap_ptr and heap_end.
LEMMA BytesFinite ==
    ASSUME NEW h, Shaped(h), Row(h), NEW S \in SUBSET (Items(h) \ {End})
    PROVE  /\ IsFiniteSet(Bytes(h, S)) /\ Cardinality(Bytes(h, S)) \in 0 .. End
           /\ Bytes(h, S) \subseteq Nat
<1> DEFINE A == 0 .. End - 1
<1>1. Bytes(h, S) \in SUBSET A
  <2> SUFFICES ASSUME NEW p \in S, NEW b \in p .. Next(h, p) - 1 PROVE b \in A
    BY DEF Bytes
  <2>1. p \in Nat /\ Next(h, p) \in Nat /\ Next(h, p) <= End /\ End \in Nat
    BY RowFacts, Sizes
  <2> QED BY <2>1
<1>2. IsFiniteSet(A) /\ Cardinality(A) = End
  <2>1. 0 \in Int /\ End - 1 \in Int /\ ~ (0 > End - 1) /\ End \in Nat
    BY Sizes
  <2>2. IsFiniteSet(A) /\ Cardinality(A) = End - 1 - 0 + 1
    BY <2>1, FS_Interval
  <2> QED BY <2>1, <2>2
<1>3. A \subseteq Nat
  OBVIOUS
<1> HIDE DEF A
<1>4. IsFiniteSet(Bytes(h, S)) /\ Cardinality(Bytes(h, S)) <= End
  BY <1>1, <1>2, FS_Subset
<1>5. Cardinality(Bytes(h, S)) \in Nat
  BY <1>4, FS_CardinalityType
<1>6. End \in Nat
  BY Sizes
<1>7. Cardinality(Bytes(h, S)) \in 0 .. End
  BY <1>4, <1>5, <1>6
<1> QED BY <1>1, <1>3, <1>4, <1>7

\* An item more adds its size.
LEMMA BytesAdd ==
    ASSUME NEW h, Shaped(h), Row(h), NEW S \in SUBSET (Items(h) \ {End}),
           NEW p \in Items(h) \ {End}, p \notin S
    PROVE  Cardinality(Bytes(h, S \cup {p})) =
              Cardinality(Bytes(h, S)) + (Next(h, p) - p)
<1> DEFINE B == Bytes(h, S)
           I == p .. Next(h, p) - 1
<1>1. p \in Nat /\ Next(h, p) \in Nat /\ p < Next(h, p)
  BY RowFacts
<1>2. Bytes(h, S \cup {p}) = B \cup I
  BY DEF Bytes
<1>3. B \cap I = {}
  <2> SUFFICES ASSUME NEW q \in S, NEW b \in q .. Next(h, q) - 1, b \in I PROVE FALSE
    BY DEF Bytes
  <2>1. /\ q \in Nat /\ Next(h, q) \in Nat
        /\ p <= q \/ p >= Next(h, q)
        /\ q <= p \/ q >= Next(h, p)
    BY RowFacts DEF Row
  <2>2. q # p
    OBVIOUS
  <2> QED BY <1>1, <2>1, <2>2
<1>4. IsFiniteSet(I) /\ Cardinality(I) = Next(h, p) - p
  <2>1. p \in Int /\ Next(h, p) - 1 \in Int /\ ~ (p > Next(h, p) - 1)
    BY <1>1
  <2>2. IsFiniteSet(I) /\ Cardinality(I) = Next(h, p) - 1 - p + 1
    BY <2>1, FS_Interval
  <2> QED BY <1>1, <2>2
<1>5. IsFiniteSet(B) /\ Cardinality(B) \in Nat
  BY BytesFinite, Sizes
<1> HIDE DEF B, I
<1>6. Cardinality(B \cup I) = Cardinality(B) + Cardinality(I) - Cardinality(B \cap I)
  BY <1>4, <1>5, FS_Union
<1>7. Cardinality(B \cap I) = 0
  BY <1>3, FS_EmptySet
<1>8. Cardinality(B \cup I) = Cardinality(B) + (Next(h, p) - p)
  BY <1>1, <1>4, <1>5, <1>6, <1>7
<1> QED BY <1>2, <1>8 DEF B

\* Items that are as they were have the same bytes.
LEMMA BytesSame ==
    ASSUME NEW h, NEW g, NEW S, \A p \in S : Next(g, p) = Next(h, p)
    PROVE  Bytes(g, S) = Bytes(h, S)
BY DEF Bytes

-----------------------------------------------------------------------------
(* The inductive invariant *)

\* The items in use are the ones handed out, with the room asked for.
Held(h, g) ==
    /\ DOMAIN g = {p \in Items(h) \ {End} : IsUsed(h, p)}
    /\ \A p \in DOMAIN g : g[p] \in Requests /\ Room(h, p) >= g[p]

\* used is the size of the items S.
Counts(h, S) ==
    h.used = Cardinality(Bytes(h, S)) /\ h.used <= h.max /\ h.max \in 0 .. End

HeapInv(h, g) ==
    /\ Shaped(h) /\ Row(h) /\ Lowest(h)
    /\ \A p \in Items(h) : NoHole(h, p)
    /\ Held(h, g) /\ Counts(h, DOMAIN g)

\* The heap g is h with the used bit of p set to b.
Marked(h, g, p, b) ==
    /\ Shaped(g) /\ Items(g) = Items(h)
    /\ \A q \in Items(h) : /\ Next(g, q) = Next(h, q) /\ Prev(g, q) = Prev(h, q)
                           /\ IsUsed(g, q) = IF q = p THEN b ELSE IsUsed(h, q)

WithBit(h, p, b, l, u, m) ==
    [item |-> [h.item EXCEPT ![p].used = b], lfree |-> l, used |-> u, max |-> m]

\* Setting pool_ptr is that.
LEMMA MarkedIs ==
    ASSUME NEW h, Shaped(h), Row(h), NEW p \in Items(h), p # End, NEW b \in BOOLEAN,
           NEW l, NEW u, NEW m
    PROVE  LET g == WithBit(h, p, b, l, u, m)
           IN  /\ Marked(h, g, p, b) /\ Row(g)
               /\ g.lfree = l /\ g.used = u /\ g.max = m
<1> DEFINE g == WithBit(h, p, b, l, u, m)
           H == [used : BOOLEAN, next : Address, prev : Address]
           i == [h.item EXCEPT ![p].used = b]
<1>1. h.item \in [Items(h) -> H]
  BY DEF Shaped
<1>2. /\ i \in [Items(h) -> H]
      /\ \A q \in Items(h) : /\ i[q].next = h.item[q].next /\ i[q].prev = h.item[q].prev
                             /\ i[q].used = IF q = p THEN b ELSE h.item[q].used
  BY <1>1
<1> HIDE DEF i
<1>3. g = [item |-> i, lfree |-> l, used |-> u, max |-> m]
  BY DEF i, WithBit
<1> HIDE DEF g
<1>4. g.item = i /\ g.lfree = l /\ g.used = u /\ g.max = m
  BY <1>3
<1>5. Items(g) = Items(h)
  BY <1>2, <1>4 DEF Items
<1>6. Shaped(g)
  BY <1>2, <1>3, <1>4, <1>5 DEF Shaped
<1>7. Marked(h, g, p, b)
  BY <1>2, <1>4, <1>5, <1>6 DEF Marked, Next, Prev, IsUsed
<1>8. Row(g)
  <2>1. 0 \in Items(h) /\ End \in Items(h)
    BY RowFacts
  <2> QED BY <1>7, <2>1, RowFacts DEF Marked, Row
<1> QED BY <1>4, <1>7, <1>8 DEF g


-----------------------------------------------------------------------------
(* rt_smem_alloc *)

\* The heap s, h or h with an item split off, when p is about to be taken.
Ready(h, s, p, n) ==
    /\ Shaped(s) /\ Row(s) /\ Lowest(s) /\ SameUse(h, s)
    /\ p \in Items(s) /\ p # End /\ ~ IsUsed(s, p) /\ Next(s, p) >= p + Header + n
    /\ \A q \in Items(s) : q # p => NoHole(s, q)

\* An item of its size is ready as it is.
LEMMA ReadyWhole ==
    ASSUME NEW h, NEW g, HeapInv(h, g), NEW p \in Items(h), ~ IsUsed(h, p),
           NEW n \in Nat, Room(h, p) >= n
    PROVE  Ready(h, h, p, n)
<1>1. p # End /\ p \in Nat /\ Next(h, p) \in Nat /\ Header \in Nat
  BY RowFacts, Sizes DEF HeapInv, Row
<1>2. Next(h, p) >= p + Header + n
  BY <1>1 DEF Room
<1> QED BY <1>1, <1>2 DEF HeapInv, Ready, SameUse

\* A larger one is after it was split: the rest is free behind it, before an
\* item in use.
LEMMA ReadySplit ==
    ASSUME NEW h, NEW g, HeapInv(h, g), NEW p \in Items(h), ~ IsUsed(h, p),
           NEW n \in Nat, n % AlignSize = 0,
           Room(h, p) >= n + Header + Align(MinSize)
    PROVE  LET s == Split(h, p, p + Header + n)
           IN  Ready(h, s, p, n) /\ Next(s, p) = p + Header + n
<1> DEFINE p2 == p + Header + n
           s == Split(h, p, p2)
<1>0. /\ p # End /\ p \in Nat /\ Next(h, p) \in Nat /\ Header \in Nat \ {0}
      /\ Items(h) \subseteq Nat /\ Next(h, p) \in Items(h) /\ Align(MinSize) \in Nat
      /\ p % AlignSize = 0 /\ Header % AlignSize = 0
      /\ Shaped(h) /\ Row(h) /\ Lowest(h) /\ \A q \in Items(h) : NoHole(h, q)
  BY RowFacts, Sizes, AlignUp, SizeAssumption DEF HeapInv, Row
<1>1. p2 \in Nat /\ p + Header <= p2 /\ p2 + Header <= Next(h, p) /\ p < p2
  BY <1>0 DEF Room
<1>2. p2 % AlignSize = 0
  BY <1>0, AlignedSum
<1>3. p2 \notin Items(h) /\ Divided(h, s, p, p2)
  <2> HIDE DEF p2
  <2> QED BY <1>0, <1>1, SplitIs
<1> HIDE DEF p2, s
<1>4. Row(s) /\ Shaped(s)
  BY <1>0, <1>1, <1>2, <1>3, DividedRow DEF Divided
<1>5. /\ Items(s) = Items(h) \cup {p2}
      /\ \A q \in Items(s) :
          /\ Next(s, q) = IF q = p2 THEN Next(h, p)
                          ELSE IF q = p THEN p2 ELSE Next(h, q)
          /\ IsUsed(s, q) = IF q = p2 THEN FALSE ELSE IsUsed(h, q)
      /\ s.lfree = h.lfree /\ s.used = h.used /\ s.max = h.max
  BY <1>3 DEF Divided
<1>6. /\ h.lfree \in Items(h) /\ h.lfree \in Nat /\ h.lfree <= p
      /\ h.lfree = End \/ ~ IsUsed(h, h.lfree)
      /\ \A q \in Items(h) : ~ IsUsed(h, q) => q >= h.lfree
  BY <1>0 DEF Lowest, NoneBelow
<1>7. Lowest(s)
  <2>1. h.lfree \in Items(s) /\ h.lfree # p2
    BY <1>3, <1>5, <1>6
  <2>2. ASSUME NEW q \in Items(s), ~ IsUsed(s, q) PROVE q >= h.lfree
    <3>1. CASE q = p2
      BY <1>0, <1>1, <1>6, <3>1
    <3>2. CASE q # p2
      BY <1>5, <1>6, <2>2, <3>2
    <3> QED BY <3>1, <3>2
  <2> QED BY <1>5, <1>6, <2>1, <2>2 DEF Lowest, NoneBelow
<1>8. p \in Items(s) /\ ~ IsUsed(s, p) /\ Next(s, p) = p2 /\ p # p2
  <2>1. p # p2 /\ p \in Items(s)
    BY <1>0, <1>1, <1>5
  <2> QED BY <1>5, <2>1
<1>9. SameUse(h, s)
  BY <1>3, <1>5 DEF SameUse
<1>10. ASSUME NEW q \in Items(s), q # p PROVE NoHole(s, q)
  <2>1. CASE q = p2
    <3>1. NoHole(h, p) /\ Next(h, p) # p2 /\ Next(h, p) \in Items(s)
      BY <1>0, <1>3, <1>5
    <3> QED BY <1>0, <1>5, <2>1, <3>1 DEF NoHole
  <2>2. CASE q # p2
    <3>1. q \in Items(h) /\ NoHole(h, q) /\ Next(h, q) \in Items(h)
      BY <1>0, <1>5, <2>2, RowFacts
    <3> QED BY <1>3, <1>5, <1>10, <2>2, <3>1 DEF NoHole
  <2> QED BY <2>1, <2>2
<1>11. Next(s, p) >= p + Header + n
  BY <1>0, <1>1, <1>8 DEF p2
<1> QED BY <1>0, <1>4, <1>7, <1>8, <1>9, <1>10, <1>11 DEF Ready, s, p2

\* The search for the next free item leaves lfree with the lowest one.
LEMMA AdvancedIs ==
    ASSUME NEW t, Shaped(t), Row(t), NoneBelow(t), NEW p \in Items(t),
           IsUsed(t, p), p # End, Lowest(t) \/ p = t.lfree
    PROVE  LET a == Advanced(t, p)
           IN  /\ Shaped(a) /\ Row(a) /\ Lowest(a) /\ Items(a) = Items(t)
               /\ a.used = t.used /\ a.max = t.max
               /\ \A q \in Items(t) : /\ Next(a, q) = Next(t, q)
                                      /\ IsUsed(a, q) = IsUsed(t, q)
<1> DEFINE a == Advanced(t, p)
           S == {q \in DOMAIN t.item : ~ IsUsed(t, q) \/ q = End}
           f == Search(t, p, S)
<1>1. CASE p # t.lfree
  BY <1>1 DEF Advanced
<1>2. CASE p = t.lfree
  <2>1. Items(t) \subseteq Nat /\ End \in Items(t) /\ \A q \in Items(t) : q <= End
    BY RowFacts
  <2>2. a = [t EXCEPT !.lfree = f]
    BY <1>2 DEF Advanced
  <2>3. S = {q \in Items(t) : ~ IsUsed(t, q) \/ q = End}
    BY DEF Items
  <2>4. /\ f \in Items(t) \cap S /\ \A q \in Items(t) \cap S : q >= p => q >= f
    <3> HIDE DEF S
    <3>1. End \in S
      BY <2>1, <2>3
    <3> QED BY <3>1, SearchIs
  <2> HIDE DEF a, f, S
  <2>5. /\ a = [item |-> t.item, lfree |-> f, used |-> t.used, max |-> t.max]
        /\ a.item = t.item /\ a.lfree = f /\ a.used = t.used /\ a.max = t.max
    <3>1. a = [item |-> t.item, lfree |-> f, used |-> t.used, max |-> t.max]
      BY <2>2 DEF Shaped
    <3> QED BY <3>1
  <2>6. /\ Items(a) = Items(t)
        /\ \A q : /\ Next(a, q) = Next(t, q) /\ Prev(a, q) = Prev(t, q)
                  /\ IsUsed(a, q) = IsUsed(t, q)
    BY <2>5 DEF Items, Next, Prev, IsUsed
  <2>7. Shaped(a)
    BY <2>5, <2>6 DEF Shaped
  <2>8. Row(a)
    BY <2>6 DEF Row
  <2>9. ASSUME NEW q \in Items(t), ~ IsUsed(t, q) PROVE q >= f
    <3>1. q >= p
      BY <1>2, <2>9 DEF NoneBelow
    <3> QED BY <2>3, <2>4, <2>9, <3>1
  <2>10. Lowest(a)
    BY <2>3, <2>4, <2>5, <2>6, <2>9 DEF Lowest, NoneBelow
  <2> QED BY <2>5, <2>6, <2>7, <2>8, <2>10 DEF a
<1> QED BY <1>1, <1>2


\* The item p of a heap that is ready for it is taken for r bytes.
LEMMA ReadyTaken ==
    ASSUME NEW h, NEW g, HeapInv(h, g), NEW s, NEW p, NEW n \in Nat,
           Ready(h, s, p, n), NEW r \in Requests, r <= n
    PROVE  LET u == s.used + (Next(s, p) - p)
               t == WithBit(s, p, TRUE, s.lfree, u, IF s.max < u THEN u ELSE s.max)
           IN  HeapInv(Advanced(t, p), With(g, p, r))
<1> DEFINE u == s.used + (Next(s, p) - p)
           x == IF s.max < u THEN u ELSE s.max
           t == WithBit(s, p, TRUE, s.lfree, u, x)
           a == Advanced(t, p)
           f == With(g, p, r)
           G == DOMAIN g
<1>0. /\ Shaped(s) /\ Row(s) /\ Lowest(s) /\ SameUse(h, s)
      /\ p \in Items(s) /\ p # End /\ ~ IsUsed(s, p) /\ Next(s, p) >= p + Header + n
      /\ \A q \in Items(s) : q # p => NoHole(s, q)
      /\ r \in Nat
  BY RequestsAssumption DEF Ready
<1> HIDE DEF u, x
<1>1. /\ Marked(s, t, p, TRUE) /\ Row(t) /\ t.lfree = s.lfree /\ t.used = u
      /\ t.max = x
  <2>1. \A b \in BOOLEAN : LET w == WithBit(s, p, b, s.lfree, u, x)
                           IN  /\ Marked(s, w, p, b) /\ Row(w)
                               /\ w.lfree = s.lfree /\ w.used = u /\ w.max = x
    BY <1>0, MarkedIs
  <2>2. TRUE \in BOOLEAN
    OBVIOUS
  <2> QED BY <2>1, <2>2
<1> HIDE DEF t
<1>2. /\ Shaped(t) /\ Items(t) = Items(s)
      /\ \A q \in Items(s) : /\ Next(t, q) = Next(s, q)
                             /\ IsUsed(t, q) = IF q = p THEN TRUE ELSE IsUsed(s, q)
  BY <1>1 DEF Marked
<1>3. NoneBelow(t) /\ IsUsed(t, p) /\ (Lowest(t) \/ p = t.lfree)
  <2>1. NoneBelow(t)
    BY <1>0, <1>1, <1>2 DEF Lowest, NoneBelow
  <2>2. p # t.lfree => Lowest(t)
    BY <1>0, <1>1, <1>2, <2>1 DEF Lowest, NoneBelow
  <2> QED BY <1>0, <1>2, <2>1, <2>2
<1>4. /\ Shaped(a) /\ Row(a) /\ Lowest(a) /\ Items(a) = Items(s)
      /\ a.used = u /\ a.max = x
      /\ \A q \in Items(s) : /\ Next(a, q) = Next(s, q)
                             /\ IsUsed(a, q) = IF q = p THEN TRUE ELSE IsUsed(s, q)
  <2>1. p \in Items(t) /\ Shaped(t) /\ Row(t)
    BY <1>0, <1>1, <1>2
  <2>2. /\ Shaped(a) /\ Row(a) /\ Lowest(a) /\ Items(a) = Items(t)
        /\ a.used = t.used /\ a.max = t.max
        /\ \A q \in Items(t) : Next(a, q) = Next(t, q) /\ IsUsed(a, q) = IsUsed(t, q)
    BY <1>0, <1>3, <2>1, AdvancedIs
  <2> HIDE DEF a, u
  <2> QED BY <1>1, <1>2, <2>2
<1> HIDE DEF a, u
<1>5. ASSUME NEW q \in Items(a) PROVE NoHole(a, q)
  <2>1. q \in Items(s) /\ Next(s, q) \in Items(s)
    BY <1>0, <1>4, RowFacts
  <2> QED BY <1>0, <1>4, <2>1 DEF NoHole
<1>6. /\ G = {q \in Items(h) \ {End} : IsUsed(h, q)}
      /\ \A q \in G : g[q] \in Requests /\ Room(h, q) >= g[q]
      /\ DOMAIN f = G \cup {p} /\ f[p] = r /\ \A q \in G \ {p} : f[q] = g[q]
  BY DEF HeapInv, Held, With
<1> HIDE DEF f, G
<1>7. /\ \A q \in G : q \in Items(s) /\ IsUsed(s, q) /\ Next(s, q) = Next(h, q)
      /\ \A q \in Items(s) \ {End} : IsUsed(s, q) => q \in G
      /\ p \notin G /\ End \notin G
  BY <1>0, <1>6 DEF SameUse
<1>8. Held(a, f)
  <2>1. DOMAIN f = {q \in Items(a) \ {End} : IsUsed(a, q)}
    <3>1. \A q \in Items(a) \ {End} : IsUsed(a, q) <=> q \in G \cup {p}
      BY <1>0, <1>4, <1>7
    <3>2. G \cup {p} \subseteq Items(a) \ {End}
      BY <1>0, <1>4, <1>7
    <3> QED BY <1>6, <3>1, <3>2
  <2>2. ASSUME NEW q \in G PROVE f[q] \in Requests /\ Room(a, q) >= f[q]
    BY <1>4, <1>6, <1>7 DEF Room
  <2>3. f[p] \in Requests /\ Room(a, p) >= f[p]
    <3>1. p \in Nat /\ Next(s, p) \in Nat /\ Header \in Nat
      BY <1>0, RowFacts, Sizes
    <3>2. Next(s, p) - (p + Header) >= r
      BY <1>0, <3>1
    <3> QED BY <1>0, <1>4, <1>6, <3>2 DEF Room
  <2> QED BY <1>6, <2>1, <2>2, <2>3 DEF Held
<1>9. Counts(a, DOMAIN f)
  <2>1. G \in SUBSET (Items(s) \ {End}) /\ p \in Items(s) \ {End}
    BY <1>0, <1>7
  <2>2. Cardinality(Bytes(s, G \cup {p})) = Cardinality(Bytes(s, G)) + (Next(s, p) - p)
    BY <1>0, <1>7, <2>1, BytesAdd
  <2>3. Bytes(s, G) = Bytes(h, G)
    BY <1>7, BytesSame
  <2>4. Bytes(a, G \cup {p}) = Bytes(s, G \cup {p})
    <3>1. \A q \in G \cup {p} : Next(a, q) = Next(s, q)
      BY <1>4, <2>1
    <3> QED BY <3>1, BytesSame
  <2>5. /\ s.used = h.used /\ s.max = h.max /\ h.used = Cardinality(Bytes(h, G))
        /\ h.used <= h.max /\ h.max \in 0 .. End
    BY <1>0 DEF HeapInv, Counts, SameUse, G
  <2>6. u = Cardinality(Bytes(a, G \cup {p}))
    BY <2>2, <2>3, <2>4, <2>5 DEF u
  <2>7. G \cup {p} \in SUBSET (Items(a) \ {End})
    BY <1>4, <2>1
  <2>8. u \in 0 .. End
    BY <1>4, <2>6, <2>7, BytesFinite
  <2>9. End \in Nat
    BY Sizes
  <2> QED BY <1>4, <1>6, <2>5, <2>6, <2>8, <2>9 DEF Counts, x
<1> QED BY <1>4, <1>5, <1>8, <1>9 DEF HeapInv, a, f, t, x, u

\* Taken keeps the heap in order.
LEMMA TakenKeeps ==
    ASSUME NEW h, NEW g, HeapInv(h, g), NEW p \in Items(h), ~ IsUsed(h, p),
           NEW n \in Nat, n % AlignSize = 0, Room(h, p) >= n,
           NEW r \in Requests, r <= n
    PROVE  HeapInv(Taken(h, p, n), With(g, p, r))
<1> DEFINE p2 == p + Header + n
           T(s, k) == WithBit(s, p, TRUE, s.lfree, s.used + k,
                              IF s.max < s.used + k THEN s.used + k ELSE s.max)
<1>1. ASSUME NEW s, Shaped(s), NEW k
      PROVE  [Counted(s, k) EXCEPT !.item[p].used = TRUE] = T(s, k)
  <2> DEFINE c == Counted(s, k)
             m == IF s.max < s.used + k THEN s.used + k ELSE s.max
  <2>1. c = [s EXCEPT !.used = s.used + k, !.max = m]
    BY DEF Counted
  <2> HIDE DEF c, m
  <2>2. c = [item |-> s.item, lfree |-> s.lfree, used |-> s.used + k, max |-> m]
    BY <1>1, <2>1 DEF Shaped
  <2> DEFINE i == [c.item EXCEPT ![p].used = TRUE]
  <2>3. [c EXCEPT !.item[p].used = TRUE] = [c EXCEPT !.item = i]
    OBVIOUS
  <2>4. c.item = s.item
    BY <2>2
  <2>5. i = [s.item EXCEPT ![p].used = TRUE]
    BY <2>4
  <2> HIDE DEF i
  <2>6. [c EXCEPT !.item = i] =
           [item |-> i, lfree |-> s.lfree, used |-> s.used + k, max |-> m]
    BY <2>2
  <2> QED BY <2>3, <2>5, <2>6 DEF c, m, WithBit
<1>2. CASE Room(h, p) >= n + Header + Align(MinSize)
  <2> DEFINE s == Split(h, p, p2)
  <2>1. Ready(h, s, p, n) /\ Next(s, p) = p2
    BY <1>2, ReadySplit
  <2>2. Taken(h, p, n) = Advanced(T(s, n + Header), p)
    <3>1. Taken(h, p, n) = Advanced([Counted(s, n + Header) EXCEPT !.item[p].used = TRUE], p)
      BY <1>2 DEF Taken
    <3>2. Shaped(s)
      BY <2>1 DEF Ready
    <3> HIDE DEF s, T
    <3> QED BY <1>1, <3>1, <3>2
  <2>3. n + Header = Next(s, p) - p
    <3>1. p \in Nat /\ Header \in Nat
      BY Sizes, RowFacts DEF HeapInv
    <3> HIDE DEF s
    <3> QED BY <2>1, <3>1
  <2> HIDE DEF s
  <2>4. HeapInv(Advanced(T(s, Next(s, p) - p), p), With(g, p, r))
    BY <2>1, ReadyTaken
  <2> QED BY <2>2, <2>3, <2>4
<1>3. CASE ~ (Room(h, p) >= n + Header + Align(MinSize))
  <2>1. Ready(h, h, p, n) /\ Shaped(h)
    BY ReadyWhole DEF HeapInv
  <2>2. Taken(h, p, n) = Advanced(T(h, Next(h, p) - p), p)
    <3>1. Taken(h, p, n) =
             Advanced([Counted(h, Next(h, p) - p) EXCEPT !.item[p].used = TRUE], p)
      BY <1>3 DEF Taken
    <3> HIDE DEF T
    <3> QED BY <1>1, <2>1, <3>1
  <2>3. HeapInv(Advanced(T(h, Next(h, p) - p), p), With(g, p, r))
    BY <2>1, ReadyTaken
  <2> QED BY <2>2, <2>3
<1> QED BY <1>2, <1>3


-----------------------------------------------------------------------------
(* rt_smem_free and rt_smem_realloc *)

\* plug_holes ends a step that has left the free item p.
LEMMA PluggedKeeps ==
    ASSUME NEW h, NEW g, Shaped(h), Row(h), Lowest(h), NEW p \in Items(h), p # End,
           ~ IsUsed(h, p),
           \A q \in Items(h) : q # p /\ Next(h, q) # p => NoHole(h, q),
           Held(h, g), Counts(h, DOMAIN g)
    PROVE  HeapInv(plug_holes(h, p), g)
<1> DEFINE f == plug_holes(h, p)
<1>1. /\ Shaped(f) /\ Row(f) /\ Lowest(f) /\ SameUse(h, f)
      /\ \A q \in Items(f) : NoHole(f, q)
  BY PlugHoles
<1> HIDE DEF f
<1>2. /\ DOMAIN g = {q \in Items(h) \ {End} : IsUsed(h, q)}
      /\ \A q \in DOMAIN g : g[q] \in Requests /\ Room(h, q) >= g[q]
  BY DEF Held
<1>3. \A q \in DOMAIN g : q \in Items(f) /\ IsUsed(f, q) /\ Next(f, q) = Next(h, q)
  BY <1>1, <1>2 DEF SameUse
<1>4. DOMAIN g = {q \in Items(f) \ {End} : IsUsed(f, q)}
  BY <1>1, <1>2, <1>3 DEF SameUse
<1>5. Held(f, g)
  BY <1>2, <1>3, <1>4 DEF Held, Room
<1>6. Bytes(f, DOMAIN g) = Bytes(h, DOMAIN g)
  BY <1>3, BytesSame
<1>7. Counts(f, DOMAIN g)
  BY <1>1, <1>6 DEF Counts, SameUse
<1> QED BY <1>1, <1>5, <1>7 DEF HeapInv, f

\* What is handed out is in use and not heap_end.
LEMMA GivenFacts ==
    ASSUME NEW h, NEW g, HeapInv(h, g), NEW p \in DOMAIN g
    PROVE  /\ Shaped(h) /\ Row(h) /\ Lowest(h) /\ \A q \in Items(h) : NoHole(h, q)
           /\ p \in Items(h) /\ p # End /\ IsUsed(h, p)
           /\ p \in Nat /\ Next(h, p) \in Nat /\ p < Next(h, p)
           /\ h.used \in Nat /\ h.max \in 0 .. End /\ h.used <= h.max
           /\ Cardinality(Bytes(h, DOMAIN g \ {p})) \in Nat
           /\ h.used = Cardinality(Bytes(h, DOMAIN g \ {p})) + (Next(h, p) - p)
<1> DEFINE G == DOMAIN g \ {p}
<1>1. /\ Shaped(h) /\ Row(h) /\ Lowest(h) /\ \A q \in Items(h) : NoHole(h, q)
      /\ p \in Items(h) /\ p # End /\ IsUsed(h, p) /\ G \in SUBSET (Items(h) \ {End})
      /\ h.max \in 0 .. End /\ h.used <= h.max
      /\ h.used = Cardinality(Bytes(h, DOMAIN g))
  BY DEF HeapInv, Held, Counts
<1>2. p \in Nat /\ Next(h, p) \in Nat /\ p < Next(h, p)
  BY <1>1, RowFacts
<1>3. Cardinality(Bytes(h, G \cup {p})) = Cardinality(Bytes(h, G)) + (Next(h, p) - p)
  <2> HIDE DEF G
  <2>1. p \notin G
    BY DEF G
  <2> QED BY <1>1, <2>1, BytesAdd
<1>4. G \cup {p} = DOMAIN g
  OBVIOUS
<1>5. Cardinality(Bytes(h, G)) \in Nat
  <2> HIDE DEF G
  <2>1. Cardinality(Bytes(h, G)) \in 0 .. End
    BY <1>1, BytesFinite
  <2> QED BY <2>1, Sizes
<1>6. h.used \in Nat
  BY <1>1, <1>2, <1>3, <1>4, <1>5
<1> QED BY <1>1, <1>2, <1>3, <1>4, <1>5, <1>6

\* Freed keeps the heap in order.
LEMMA FreedKeeps ==
    ASSUME NEW h, NEW g, HeapInv(h, g), NEW p \in DOMAIN g
    PROVE  HeapInv(Freed(h, p), Restrict(g, DOMAIN g \ {p}))
<1> DEFINE l == IF p < h.lfree THEN p ELSE h.lfree
           u == h.used - (Next(h, p) - p)
           m == WithBit(h, p, FALSE, l, u, h.max)
           f == Restrict(g, DOMAIN g \ {p})
<1>0. /\ Shaped(h) /\ Row(h) /\ Lowest(h) /\ \A q \in Items(h) : NoHole(h, q)
      /\ p \in Items(h) /\ p # End /\ IsUsed(h, p)
      /\ p \in Nat /\ Next(h, p) \in Nat /\ p < Next(h, p)
      /\ h.used \in Nat /\ h.max \in 0 .. End /\ h.used <= h.max
      /\ Cardinality(Bytes(h, DOMAIN g \ {p})) \in Nat
      /\ h.used = Cardinality(Bytes(h, DOMAIN g \ {p})) + (Next(h, p) - p)
  BY GivenFacts
<1>1. Freed(h, p) = plug_holes(m, p)
  <2> DEFINE e == [h EXCEPT !.item[p].used = FALSE, !.lfree = l, !.used = u]
             i == [h.item EXCEPT ![p].used = FALSE]
  <2>1. Freed(h, p) = plug_holes(e, p)
    BY DEF Freed
  <2>2. e = [h EXCEPT !.item = i, !.lfree = l, !.used = u]
    OBVIOUS
  <2>3. m = [item |-> i, lfree |-> l, used |-> u, max |-> h.max]
    BY DEF WithBit
  <2> HIDE DEF e, i, l, u, m
  <2>4. h = [item |-> h.item, lfree |-> h.lfree, used |-> h.used, max |-> h.max]
    BY <1>0 DEF Shaped
  <2>5. e = [item |-> i, lfree |-> l, used |-> u, max |-> h.max]
    BY <2>2, <2>4
  <2> QED BY <2>1, <2>3, <2>5
<1>2. /\ Marked(h, m, p, FALSE) /\ Row(m)
      /\ m.lfree = l /\ m.used = u /\ m.max = h.max
  <2> HIDE DEF l, u
  <2>1. \A b \in BOOLEAN : LET w == WithBit(h, p, b, l, u, h.max)
                           IN  /\ Marked(h, w, p, b) /\ Row(w)
                               /\ w.lfree = l /\ w.used = u /\ w.max = h.max
    BY <1>0, MarkedIs
  <2>2. FALSE \in BOOLEAN
    OBVIOUS
  <2> QED BY <2>1, <2>2
<1> HIDE DEF m
<1>3. /\ Shaped(m) /\ Items(m) = Items(h)
      /\ \A q \in Items(h) : /\ Next(m, q) = Next(h, q)
                             /\ IsUsed(m, q) = IF q = p THEN FALSE ELSE IsUsed(h, q)
  BY <1>2 DEF Marked
<1>4. ~ IsUsed(m, p)
  BY <1>0, <1>3
<1>5. Lowest(m)
  <2>1. /\ h.lfree \in Items(h) /\ h.lfree \in Nat /\ Items(h) \subseteq Nat
        /\ h.lfree = End \/ ~ IsUsed(h, h.lfree)
        /\ \A q \in Items(h) : ~ IsUsed(h, q) => q >= h.lfree
    BY <1>0, RowFacts DEF Lowest, NoneBelow
  <2>2. l \in Items(h) /\ (l = End \/ ~ IsUsed(m, l))
    <3>1. CASE p < h.lfree
      BY <1>0, <1>4, <3>1
    <3>2. CASE ~ (p < h.lfree)
      <4>1. l = h.lfree
        BY <3>2
      <4>2. h.lfree = End \/ ~ IsUsed(m, h.lfree)
        BY <1>3, <1>4, <2>1
      <4> HIDE DEF l
      <4> QED BY <2>1, <4>1, <4>2
    <3> QED BY <3>1, <3>2
  <2>3. ASSUME NEW q \in Items(h), ~ IsUsed(m, q) PROVE q >= l
    <3>1. CASE q = p
      BY <1>0, <2>1, <3>1
    <3>2. CASE q # p
      <4>1. q >= h.lfree
        BY <1>3, <2>1, <2>3, <3>2
      <4> QED BY <1>0, <2>1, <4>1
    <3> QED BY <3>1, <3>2
  <2> QED BY <1>2, <1>3, <2>2, <2>3 DEF Lowest, NoneBelow
<1>6. ASSUME NEW q \in Items(m), q # p, Next(m, q) # p PROVE NoHole(m, q)
  <2>1. q \in Items(h) /\ Next(h, q) \in Items(h) /\ NoHole(h, q)
    BY <1>0, <1>3, RowFacts
  <2> QED BY <1>3, <1>6, <2>1 DEF NoHole
<1>7. /\ DOMAIN g = {q \in Items(h) \ {End} : IsUsed(h, q)}
      /\ \A q \in DOMAIN g : g[q] \in Requests /\ Room(h, q) >= g[q]
  BY DEF HeapInv, Held
<1>8. DOMAIN f = DOMAIN g \ {p} /\ \A q \in DOMAIN f : f[q] = g[q]
  BY DEF Restrict
<1> HIDE DEF f
<1>9. Held(m, f)
  <2>1. DOMAIN f = {q \in Items(m) \ {End} : IsUsed(m, q)}
    BY <1>3, <1>7, <1>8
  <2>2. \A q \in DOMAIN f : f[q] \in Requests /\ Room(m, q) >= f[q]
    BY <1>3, <1>7, <1>8 DEF Room
  <2> QED BY <2>1, <2>2 DEF Held
<1>10. Counts(m, DOMAIN f)
  <2>1. Bytes(m, DOMAIN f) = Bytes(h, DOMAIN f)
    <3>1. \A q \in DOMAIN f : Next(m, q) = Next(h, q)
      BY <1>3, <1>7, <1>8
    <3> QED BY <3>1, BytesSame
  <2>2. u = Cardinality(Bytes(m, DOMAIN f)) /\ u <= h.max
    <3>1. Cardinality(Bytes(h, DOMAIN g \ {p})) = Cardinality(Bytes(m, DOMAIN f))
      BY <1>8, <2>1
    <3>2. End \in Nat
      BY Sizes
    <3> QED BY <1>0, <3>1, <3>2
  <2> HIDE DEF u
  <2> QED BY <1>0, <1>2, <2>2 DEF Counts
<1>11. p \in Items(m)
  BY <1>0, <1>3
<1> QED BY <1>0, <1>1, <1>2, <1>3, <1>4, <1>5, <1>6, <1>9, <1>10, <1>11, PluggedKeeps DEF f


\* The heap h with other statistics and another lfree.
WithFields(h, l, u, m) == [item |-> h.item, lfree |-> l, used |-> u, max |-> m]

\* Its items are those of h.
LEMMA FieldsIs ==
    ASSUME NEW h, Shaped(h), Row(h), NEW l, NEW u, NEW m
    PROVE  LET g == WithFields(h, l, u, m)
           IN  /\ Shaped(g) /\ Row(g) /\ Items(g) = Items(h)
               /\ \A q \in Items(h) : Next(g, q) = Next(h, q) /\ IsUsed(g, q) = IsUsed(h, q)
               /\ g.lfree = l /\ g.used = u /\ g.max = m
<1> DEFINE g == WithFields(h, l, u, m)
<1>1. g = [item |-> h.item, lfree |-> l, used |-> u, max |-> m]
  BY DEF WithFields
<1> HIDE DEF g
<1>2. g.item = h.item /\ g.lfree = l /\ g.used = u /\ g.max = m
  BY <1>1
<1>3. /\ Items(g) = Items(h)
      /\ \A q : /\ Next(g, q) = Next(h, q) /\ Prev(g, q) = Prev(h, q)
                /\ IsUsed(g, q) = IsUsed(h, q)
  BY <1>2 DEF Items, Next, Prev, IsUsed
<1>4. Shaped(g)
  BY <1>1, <1>2, <1>3 DEF Shaped
<1>5. Row(g)
  BY <1>3 DEF Row
<1> QED BY <1>2, <1>3, <1>4, <1>5 DEF g

\* Shrunk keeps the heap in order.
LEMMA ShrunkKeeps ==
    ASSUME NEW h, NEW g, HeapInv(h, g), NEW p \in DOMAIN g, NEW n \in Nat,
           n % AlignSize = 0, n + Header + MinSize < Room(h, p),
           NEW r \in Requests, r <= n
    PROVE  HeapInv(Shrunk(h, p, n), [g EXCEPT ![p] = r])
<1> DEFINE p2 == p + Header + n
           s == Split(h, p, p2)
           l == IF p2 < h.lfree THEN p2 ELSE h.lfree
           u == h.used - (Room(h, p) - n)
           m == WithFields(s, l, u, h.max)
           f == [g EXCEPT ![p] = r]
           G == DOMAIN g
<1>0. /\ Shaped(h) /\ Row(h) /\ Lowest(h) /\ \A q \in Items(h) : NoHole(h, q)
      /\ p \in Items(h) /\ p # End /\ IsUsed(h, p)
      /\ p \in Nat /\ Next(h, p) \in Nat /\ p < Next(h, p)
      /\ h.used \in Nat /\ h.max \in 0 .. End /\ h.used <= h.max
      /\ Cardinality(Bytes(h, G \ {p})) \in Nat
      /\ h.used = Cardinality(Bytes(h, G \ {p})) + (Next(h, p) - p)
  BY GivenFacts
<1>1. /\ Header \in Nat \ {0} /\ MinSize \in Nat /\ r \in Nat /\ p2 \in Nat
      /\ p + Header <= p2 /\ p2 + Header <= Next(h, p) /\ p < p2
  <2>1. Header \in Nat \ {0}
    BY Sizes
  <2>2. MinSize \in Nat
    BY SizeAssumption
  <2>3. r \in Nat
    BY RequestsAssumption
  <2> QED BY <1>0, <2>1, <2>2, <2>3 DEF Room
<1>2. p2 % AlignSize = 0
  <2>1. p % AlignSize = 0 /\ Header % AlignSize = 0
    BY <1>0, Sizes DEF Row
  <2> QED BY <1>0, <1>1, <2>1, AlignedSum
<1> HIDE DEF p2
<1>3. p2 \notin Items(h) /\ Divided(h, s, p, p2)
  BY <1>0, <1>1, SplitIs
<1> HIDE DEF s
<1>4. /\ Shaped(s) /\ Row(s) /\ Items(s) = Items(h) \cup {p2}
      /\ s.lfree = h.lfree /\ s.used = h.used /\ s.max = h.max
      /\ \A q \in Items(s) :
            /\ Next(s, q) = IF q = p2 THEN Next(h, p)
                            ELSE IF q = p THEN p2 ELSE Next(h, q)
            /\ IsUsed(s, q) = IF q = p2 THEN FALSE ELSE IsUsed(h, q)
  BY <1>0, <1>1, <1>2, <1>3, DividedRow DEF Divided
<1>5. Shrunk(h, p, n) = plug_holes(m, p2)
  <2> DEFINE e == [s EXCEPT !.used = s.used - (Room(h, p) - n)]
             d == [e EXCEPT !.lfree = IF p2 < e.lfree THEN p2 ELSE e.lfree]
  <2>1. Shrunk(h, p, n) = plug_holes(d, p2)
    BY DEF Shrunk, s, p2
  <2>2. s = [item |-> s.item, lfree |-> h.lfree, used |-> h.used, max |-> h.max]
    BY <1>4 DEF Shaped
  <2>3. e = [s EXCEPT !.used = u]
    BY <1>4
  <2> HIDE DEF e, u
  <2>4. e = [item |-> s.item, lfree |-> h.lfree, used |-> u, max |-> h.max]
    BY <2>2, <2>3
  <2>5. d = [e EXCEPT !.lfree = l]
    BY <2>4
  <2> HIDE DEF d, l
  <2>6. d = [item |-> s.item, lfree |-> l, used |-> u, max |-> h.max]
    BY <2>4, <2>5
  <2> QED BY <2>1, <2>6 DEF WithFields
<1>6. /\ Shaped(m) /\ Row(m) /\ Items(m) = Items(s)
      /\ \A q \in Items(s) : Next(m, q) = Next(s, q) /\ IsUsed(m, q) = IsUsed(s, q)
      /\ m.lfree = l /\ m.used = u /\ m.max = h.max
  <2> HIDE DEF l, u
  <2> QED BY <1>4, FieldsIs
<1> HIDE DEF m
<1>7. /\ Items(m) = Items(h) \cup {p2}
      /\ \A q \in Items(m) :
            /\ Next(m, q) = IF q = p2 THEN Next(h, p)
                            ELSE IF q = p THEN p2 ELSE Next(h, q)
            /\ IsUsed(m, q) = IF q = p2 THEN FALSE ELSE IsUsed(h, q)
  BY <1>4, <1>6
<1>8. p2 \in Items(m) /\ p2 # End /\ ~ IsUsed(m, p2)
  BY <1>0, <1>3, <1>7, RowFacts
<1>9. Lowest(m)
  <2>1. /\ h.lfree \in Items(h) /\ h.lfree \in Nat /\ Items(h) \subseteq Nat
        /\ h.lfree = End \/ ~ IsUsed(h, h.lfree)
        /\ \A q \in Items(h) : ~ IsUsed(h, q) => q >= h.lfree
    BY <1>0, RowFacts DEF Lowest, NoneBelow
  <2>2. l \in Items(m) /\ (l = End \/ ~ IsUsed(m, l))
    <3>1. CASE p2 < h.lfree
      BY <1>8, <3>1
    <3>2. CASE ~ (p2 < h.lfree)
      <4>1. l = h.lfree
        BY <3>2
      <4>2. h.lfree \in Items(m) /\ (h.lfree = End \/ ~ IsUsed(m, h.lfree))
        BY <1>7, <2>1
      <4> HIDE DEF l
      <4> QED BY <4>1, <4>2
    <3> QED BY <3>1, <3>2
  <2>3. ASSUME NEW q \in Items(m), ~ IsUsed(m, q) PROVE q >= l
    <3>1. CASE q = p2
      BY <1>1, <2>1, <3>1
    <3>2. CASE q # p2
      <4>1. q >= h.lfree /\ q \in Nat
        BY <1>7, <2>1, <2>3, <3>2
      <4> QED BY <1>1, <2>1, <4>1
    <3> QED BY <3>1, <3>2
  <2> HIDE DEF l
  <2> QED BY <1>6, <2>2, <2>3 DEF Lowest, NoneBelow
<1>10. ASSUME NEW q \in Items(m), q # p2, Next(m, q) # p2 PROVE NoHole(m, q)
  <2>1. q \in Items(h) /\ q # p /\ Next(h, q) \in Items(h) /\ NoHole(h, q)
    BY <1>0, <1>7, <1>10, RowFacts
  <2> QED BY <1>7, <1>10, <2>1 DEF NoHole
<1>11. /\ G = {q \in Items(h) \ {End} : IsUsed(h, q)}
       /\ \A q \in G : g[q] \in Requests /\ Room(h, q) >= g[q]
       /\ DOMAIN f = G /\ f[p] = r /\ \A q \in G \ {p} : f[q] = g[q]
  BY DEF HeapInv, Held
<1> HIDE DEF f, G
<1>12. Held(m, f)
  <2>1. DOMAIN f = {q \in Items(m) \ {End} : IsUsed(m, q)}
    BY <1>3, <1>7, <1>11
  <2>2. ASSUME NEW q \in G, q # p PROVE f[q] \in Requests /\ Room(m, q) >= f[q]
    BY <1>3, <1>7, <1>11, <2>2 DEF Room
  <2>3. f[p] \in Requests /\ Room(m, p) >= f[p]
    <3>1. Next(m, p) = p + Header + n
      <4>1. p \in Items(m) /\ p # p2
        BY <1>0, <1>1, <1>7
      <4> QED BY <1>7, <4>1 DEF p2
    <3> QED BY <1>0, <1>1, <1>11, <3>1 DEF Room
  <2> QED BY <1>11, <2>1, <2>2, <2>3 DEF Held
<1>13. Counts(m, DOMAIN f)
  <2>1. /\ G \ {p} \in SUBSET (Items(m) \ {End}) /\ p \in Items(m) \ {End}
        /\ Next(m, p) = p2 /\ \A q \in G \ {p} : Next(m, q) = Next(h, q)
    BY <1>0, <1>1, <1>3, <1>7, <1>11
  <2>2. Cardinality(Bytes(m, (G \ {p}) \cup {p})) =
           Cardinality(Bytes(m, G \ {p})) + (p2 - p)
    BY <1>6, <2>1, BytesAdd
  <2>3. Bytes(m, G \ {p}) = Bytes(h, G \ {p})
    BY <2>1, BytesSame
  <2>4. (G \ {p}) \cup {p} = DOMAIN f
    BY <1>11 DEF G
  <2>5. u = Cardinality(Bytes(m, DOMAIN f))
    <3>1. Cardinality(Bytes(m, DOMAIN f)) = Cardinality(Bytes(h, G \ {p})) + (p2 - p)
      BY <2>2, <2>3, <2>4
    <3>2. u = h.used - (Next(h, p) - p2)
      BY <1>0, <1>1 DEF Room, p2
    <3> HIDE DEF u
    <3> QED BY <1>0, <1>1, <3>1, <3>2
  <2>6. u <= h.max
    <3>1. u = h.used - (Next(h, p) - p2)
      BY <1>0, <1>1 DEF Room, p2
    <3>2. End \in Nat
      BY Sizes
    <3> HIDE DEF u
    <3> QED BY <1>0, <1>1, <3>1, <3>2
  <2> HIDE DEF u
  <2> QED BY <1>0, <1>6, <2>5, <2>6 DEF Counts
<1> HIDE DEF l, u
<1>14. HeapInv(plug_holes(m, p2), f)
  BY <1>6, <1>8, <1>9, <1>10, <1>12, <1>13, PluggedKeeps
<1> QED BY <1>5, <1>14 DEF f


-----------------------------------------------------------------------------
(* The theorems *)

\* The heap is in order from rt_smem_init on ...
LEMMA InitInv == Init => HeapInv(heap, given)
<1> SUFFICES ASSUME Init PROVE HeapInv(heap, given)
  OBVIOUS
<1> DEFINE i == [p \in {0, End} |-> [used |-> p = End, next |-> End, prev |-> p]]
<1>0. /\ Header \in Nat \ {0} /\ End \in Nat \ {0} /\ End = Size + Header /\ Size \in Nat
      /\ Address = 0 .. End
  BY Sizes
<1>1. heap = [item |-> i, lfree |-> 0, used |-> 0, max |-> 0] /\ DOMAIN given = {}
  BY DEF Init
<1>2. /\ i \in [{0, End} -> [used : BOOLEAN, next : Address, prev : Address]]
      /\ i[0].used = FALSE /\ i[End].used = TRUE
      /\ i[0].next = End /\ i[End].next = End /\ i[0].prev = 0
  <2> DEFINE H == [used : BOOLEAN, next : Address, prev : Address]
             x(p) == [used |-> p = End, next |-> End, prev |-> p]
  <2>1. i = [p \in {0, End} |-> x(p)] /\ 0 # End
    BY <1>0
  <2>2. x(0).next = End /\ x(End).next = End /\ x(0).prev = 0
    OBVIOUS
  <2>3. x(0).used = FALSE /\ x(End).used = TRUE
    BY <1>0
  <2>4. \A p \in {0, End} : x(p) \in H
    BY <1>0
  <2> HIDE DEF i, x, H
  <2>5. i \in [{0, End} -> H] /\ i[0] = x(0) /\ i[End] = x(End)
    BY <2>1, <2>4
  <2> QED BY <2>2, <2>3, <2>5 DEF H
<1> HIDE DEF i
<1>3. heap.item = i /\ heap.lfree = 0 /\ heap.used = 0 /\ heap.max = 0
  BY <1>1
<1>4. /\ Items(heap) = {0, End} /\ ~ IsUsed(heap, 0) /\ IsUsed(heap, End)
      /\ Next(heap, 0) = End /\ Next(heap, End) = End /\ Prev(heap, 0) = 0
  BY <1>2, <1>3 DEF Items, IsUsed, Next, Prev
<1>5. Shaped(heap)
  BY <1>0, <1>1, <1>2, <1>3, <1>4 DEF Shaped
<1>6. Row(heap)
  <2>1. 0 % AlignSize = 0
    BY SizeAssumption
  <2> QED BY <1>0, <1>4, <2>1 DEF Row
<1>7. Lowest(heap)
  BY <1>0, <1>3, <1>4 DEF Lowest, NoneBelow
<1>8. \A p \in Items(heap) : NoHole(heap, p)
  BY <1>4 DEF NoHole
<1>9. Held(heap, given)
  BY <1>1, <1>4 DEF Held
<1>10. Counts(heap, DOMAIN given)
  <2>1. Bytes(heap, {}) = {}
    BY DEF Bytes
  <2>2. Cardinality({}) = 0
    BY FS_EmptySet
  <2>3. heap.used = Cardinality(Bytes(heap, DOMAIN given))
    BY <1>1, <1>3, <2>1, <2>2
  <2>4. heap.used <= heap.max /\ heap.max \in 0 .. End
    BY <1>0, <1>3
  <2> QED BY <2>3, <2>4 DEF Counts
<1> QED BY <1>5, <1>6, <1>7, <1>8, <1>9, <1>10 DEF HeapInv

\* ... the search of rt_smem_alloc ends at an item for the request ...
LEMMA FoundFits ==
    ASSUME NEW h, NEW g, HeapInv(h, g), NEW n \in Requests, CanAlloc(h, n)
    PROVE  LET p == AllocAt(h, DataSize(n))
           IN  p \in Items(h) /\ ~ IsUsed(h, p) /\ Room(h, p) >= DataSize(n)
<1> DEFINE d == DataSize(n)
           S == {p \in DOMAIN h.item : p > Size - d \/ Fits(h, p, d)}
<1>1. n \in Nat /\ d \in Nat /\ End \in Nat /\ Size \in Nat /\ End > Size - d
  <2>1. n \in Nat
    BY RequestsAssumption
  <2>2. d \in Nat
    BY <2>1, DataSizeUp
  <2> HIDE DEF d
  <2> QED BY <2>1, <2>2, Sizes
<1>2. Shaped(h) /\ Row(h) /\ h.lfree \in Items(h) /\ End \in Items(h)
  BY RowFacts DEF HeapInv, Lowest, NoneBelow
<1>3. End \in S
  BY <1>1, <1>2 DEF Items
<1>4. AllocAt(h, d) = Search(h, h.lfree, S)
  BY DEF AllocAt
<1> HIDE DEF S
<1>5. AllocAt(h, d) \in Items(h)
  BY <1>2, <1>3, <1>4, SearchIs
<1>6. Fits(h, AllocAt(h, d), d)
  BY DEF CanAlloc
<1> QED BY <1>5, <1>6 DEF Fits

\* ... and every call leaves the heap in order.
LEMMA NextInv == HeapInv(heap, given) /\ [HeapNext]_vars => HeapInv(heap', given')
<1> SUFFICES ASSUME HeapInv(heap, given), [HeapNext]_vars
             PROVE  HeapInv(heap', given')
  OBVIOUS
<1>0. \A n \in Requests : /\ DataSize(n) \in Nat /\ n <= DataSize(n)
                          /\ DataSize(n) % AlignSize = 0
                          /\ Align(n) \in Nat /\ n <= Align(n)
                          /\ Align(n) % AlignSize = 0
  BY RequestsAssumption, DataSizeUp, AlignUp
<1>1. ASSUME NEW n \in Requests, rt_malloc(n) PROVE HeapInv(heap', given')
  <2> DEFINE p == AllocAt(heap, DataSize(n))
  <2>1. /\ CanAlloc(heap, n) /\ heap' = Taken(heap, p, DataSize(n))
        /\ given' = With(given, p, n)
    BY <1>1 DEF rt_malloc
  <2>2. p \in Items(heap) /\ ~ IsUsed(heap, p) /\ Room(heap, p) >= DataSize(n)
    BY <2>1, FoundFits
  <2> HIDE DEF p
  <2> QED BY <1>0, <2>1, <2>2, TakenKeeps
<1>2. ASSUME NEW p \in DOMAIN given, rt_free(p) PROVE HeapInv(heap', given')
  BY <1>2, FreedKeeps DEF rt_free
<1>3. ASSUME NEW p \in DOMAIN given, NEW n \in Requests, rt_realloc_Shrink(p, n)
      PROVE  HeapInv(heap', given')
  BY <1>0, <1>3, ShrunkKeeps DEF rt_realloc_Shrink
<1>4. ASSUME NEW p \in DOMAIN given, NEW n \in Requests, rt_realloc_Move(p, n)
      PROVE  HeapInv(heap', given')
  <2> DEFINE q == AllocAt(heap, DataSize(n))
             t == Taken(heap, q, DataSize(n))
             f == With(given, q, n)
  <2>1. /\ CanAlloc(heap, n) /\ heap' = Freed(t, p)
        /\ given' = Restrict(f, (DOMAIN given \cup {q}) \ {p})
    BY <1>4 DEF rt_realloc_Move
  <2>2. q \in Items(heap) /\ ~ IsUsed(heap, q) /\ Room(heap, q) >= DataSize(n)
    BY <2>1, FoundFits
  <2>3. DOMAIN f = DOMAIN given \cup {q}
    BY DEF With
  <2>4. HeapInv(t, f)
    <3> HIDE DEF q
    <3> QED BY <1>0, <2>2, TakenKeeps
  <2> HIDE DEF q, t, f
  <2>5. p \in DOMAIN f /\ given' = Restrict(f, DOMAIN f \ {p})
    BY <2>1, <2>3
  <2> QED BY <2>1, <2>4, <2>5, FreedKeeps
<1>5. CASE UNCHANGED vars
  BY <1>5 DEF vars
<1> QED BY <1>1, <1>2, <1>3, <1>4, <1>5 DEF HeapNext

\* The heap of every reachable state is in order.
THEOREM AlwaysInOrder == Spec => []HeapInv(heap, given)
<1>1. Init => HeapInv(heap, given)
  BY InitInv
<1>2. HeapInv(heap, given) /\ [HeapNext]_vars => HeapInv(heap, given)'
  BY NextInv
<1> QED BY <1>1, <1>2, PTL DEF Spec

\* Headers, addresses, statistics and requests keep their types: TypeOK.
THEOREM HeapTypeCorrect == Spec => []TypeOK
<1>1. HeapInv(heap, given) => TypeOK
  <2> SUFFICES ASSUME HeapInv(heap, given) PROVE TypeOK
    OBVIOUS
  <2>1. /\ Shaped(heap) /\ Row(heap) /\ Lowest(heap) /\ Held(heap, given)
        /\ Counts(heap, DOMAIN given)
    BY DEF HeapInv
  <2>2. /\ Items(heap) \subseteq Address /\ heap.lfree \in Items(heap)
        /\ heap.item \in [Items(heap) -> [used : BOOLEAN, next : Address, prev : Address]]
    BY <2>1 DEF Shaped, Lowest, NoneBelow
  <2>3. /\ DOMAIN given \in SUBSET (Items(heap) \ {End})
        /\ \A p \in DOMAIN given : given[p] \in Requests
    BY <2>1 DEF Held
  <2>4. heap.used \in 0 .. End /\ heap.max \in 0 .. End
    BY <2>1, <2>3, BytesFinite DEF Counts
  <2> QED BY <2>2, <2>3, <2>4 DEF TypeOK, Items
<1> QED BY <1>1, AlwaysInOrder, PTL

\* The items tile the heap, linked both ways, aligned and with no two free
\* ones in a row, whatever rt_malloc, rt_realloc and rt_free are called with.
THEOREM AlwaysTiled == Spec => []Tiled
<1>1. HeapInv(heap, given) => Tiled
  <2> SUFFICES ASSUME HeapInv(heap, given) PROVE Tiled
    OBVIOUS
  <2>1. Shaped(heap) /\ Row(heap) /\ \A p \in Items(heap) : NoHole(heap, p)
    BY DEF HeapInv
  <2>2. {0, End} \subseteq DOMAIN heap.item
    BY <2>1 DEF Shaped, Items
  <2>3. ASSUME NEW p \in Items(heap) \ {End}
        PROVE  LET n == Next(heap, p)
               IN  /\ n \in Items(heap) /\ n >= p + Header
                   /\ \A q \in Items(heap) : q <= p \/ q >= n
                   /\ p % AlignSize = 0
                   /\ n # End => Prev(heap, n) = p
                   /\ n # End /\ ~ IsUsed(heap, p) => IsUsed(heap, n)
    BY <2>1 DEF Row, NoHole
  <2> QED BY <2>2, <2>3 DEF Tiled, Items, Prev
<1> QED BY <1>1, AlwaysInOrder, PTL

\* lfree is the lowest free item or heap_end after every call, so that the
\* search of rt_smem_alloc, which starts there, misses no free item.
THEOREM AlwaysLowestFree == Spec => []LowestFree
<1>1. HeapInv(heap, given) => LowestFree
  <2> SUFFICES ASSUME HeapInv(heap, given) PROVE LowestFree
    OBVIOUS
  <2> DEFINE F == {p \in DOMAIN heap.item : ~ IsUsed(heap, p)} \cup {End}
  <2>1. /\ Items(heap) \subseteq Nat /\ \A p \in Items(heap) : p <= End
        /\ End \in Items(heap) /\ Lowest(heap)
    BY RowFacts DEF HeapInv
  <2>2. /\ F \in SUBSET Nat /\ F # {} /\ heap.lfree \in F
        /\ \A p \in F : heap.lfree <= p
    BY <2>1 DEF Lowest, NoneBelow, Items
  <2> HIDE DEF F
  <2>3. Min(F) \in F /\ \A p \in F : Min(F) <= p
    BY <2>2, MinIsLeast
  <2>4. Min(F) <= heap.lfree /\ heap.lfree <= Min(F)
    BY <2>2, <2>3
  <2>5. Min(F) \in Nat /\ heap.lfree \in Nat
    BY <2>2, <2>3
  <2>6. heap.lfree = Min(F)
    BY <2>4, <2>5
  <2> QED BY <2>6 DEF LowestFree, F
<1> QED BY <1>1, AlwaysInOrder, PTL

\* What rt_malloc and rt_realloc have handed out is exactly what is in use,
\* with the room asked for, and the statistics count it.
THEOREM AllocationsAlwaysHold == Spec => []AllocationsHold
<1>1. HeapInv(heap, given) => AllocationsHold
  BY DEF HeapInv, Held, Counts, Bytes, AllocationsHold, Items
<1> QED BY <1>1, AlwaysInOrder, PTL
=============================================================================
