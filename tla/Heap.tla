-------------------------------- MODULE Heap --------------------------------
(***************************************************************************)
(* The system heap: the small memory management of rt-thread/src/mem.c     *)
(* behind rt_malloc, rt_realloc and rt_free of kservice.c.                 *)
(*                                                                         *)
(* The heap is a row of items.  An item begins with a header (pool_ptr     *)
(* with the used bit, next, prev); addresses are offsets in bytes from     *)
(* heap_ptr.  rt_malloc and the others hold the heap mutex, so a call is   *)
(* one step.                                                               *)
(*                                                                         *)
(* Fields of heap:                                                         *)
(*   item    the headers, by address; the header at End is heap_end        *)
(*   lfree   the lowest free item, or heap_end                             *)
(*   used, max   the statistics of struct rt_memory                        *)
(***************************************************************************)
EXTENDS Naturals, FiniteSets, FiniteSetsExt, Functions

CONSTANTS
    Size,       \* mem_size_aligned
    Header,     \* SIZEOF_STRUCT_MEM
    MinSize,    \* MIN_SIZE
    AlignSize,  \* RT_ALIGN_SIZE
    Requests    \* the sizes asked for

\* RT_ALIGN
Align(n) == ((n + AlignSize - 1) \div AlignSize) * AlignSize

ASSUME SizeAssumption ==
    /\ AlignSize \in Nat \ {0} /\ MinSize \in Nat /\ Header \in Nat \ {0}
    /\ Header = Align(Header)
    /\ Size \in Nat /\ Size = Align(Size) /\ Size >= Align(MinSize)
ASSUME RequestsAssumption == Requests \subseteq Nat \ {0}

VARIABLES
    heap,
    given      \* the items handed out, with the sizes asked for

vars == <<heap, given>>

End == Size + Header

\* rt_smem_init.  prev of heap_end is not kept up to date, and not read.
Init ==
    /\ heap = [item  |-> [p \in {0, End} |->
                             [used |-> p = End, next |-> End, prev |-> p]],
               lfree |-> 0, used |-> 0, max |-> 0]
    /\ given = [p \in {} |-> 0]

\* The function f with the value v at x.
With(f, x, v) == [y \in DOMAIN f \cup {x} |-> IF y = x THEN v ELSE f[y]]

Next(h, p) == h.item[p].next
IsUsed(h, p) == h.item[p].used

\* The bytes of an item behind its header.
Room(h, p) == Next(h, p) - (p + Header)

\* The item a walk along next from p stops at: the first one of the set S.
Search(h, p, S) ==
    LET from[q \in DOMAIN h.item] ==
            IF q \in S THEN q ELSE from[Next(h, q)]
    IN  from[p]

-----------------------------------------------------------------------------
(* plug_holes *)

\* nmem, a free item, becomes part of the item p before it.
Merged(h, p, nmem) ==
    LET n == Next(h, nmem)
    IN  [h EXCEPT !.item = [Restrict(@, DOMAIN @ \ {nmem})
                                EXCEPT ![p].next = n, ![n].prev = p],
                  !.lfree = IF @ = nmem THEN p ELSE @]

\* Mistake: the hole backward is left.
plug_holes_Forward(h, p) ==
    LET nmem == Next(h, p)
    IN  IF ~ IsUsed(h, nmem) /\ nmem # End THEN Merged(h, p, nmem) ELSE h

plug_holes(h, p) ==
    LET nmem == Next(h, p)
        f == IF p # nmem /\ ~ IsUsed(h, nmem) /\ nmem # End
             THEN Merged(h, p, nmem) ELSE h
        pmem == f.item[p].prev
    IN  IF pmem # p /\ ~ IsUsed(f, pmem) THEN Merged(f, pmem, p) ELSE f

-----------------------------------------------------------------------------
(* rt_smem_alloc *)

\* Every data block has at least MIN_SIZE_ALIGNED bytes.
DataSize(n) == IF Align(n) < Align(MinSize) THEN Align(MinSize) ELSE Align(n)

\* The item p is free and has room for n bytes.
Fits(h, p, n) == ~ IsUsed(h, p) /\ Room(h, p) >= n

\* Where the search from lfree for n bytes ends: at an item they fit in, or
\* at the first one that begins too far behind for them.
AllocAt(h, n) ==
    Search(h, h.lfree, {p \in DOMAIN h.item : p > Size - n \/ Fits(h, p, n)})

\* The search finds an item for n bytes.
CanAlloc(h, n) ==
    /\ Align(n) <= Size
    /\ LET p == AllocAt(h, DataSize(n))
       IN  p <= Size - DataSize(n) /\ Fits(h, p, DataSize(n))

\* A new free item at p2 in the item p.
Split(h, p, p2) ==
    LET n == Next(h, p)
        i == With([h.item EXCEPT ![p].next = p2],
                  p2, [used |-> FALSE, next |-> n, prev |-> p])
    IN  [h EXCEPT !.item = IF n # End THEN [i EXCEPT ![n].prev = p2] ELSE i]

Counted(h, n) ==
    [h EXCEPT !.used = @ + n, !.max = IF @ < h.used + n THEN h.used + n ELSE @]

\* The lowest free item after p was taken.
Advanced(h, p) ==
    IF p # h.lfree THEN h
    ELSE [h EXCEPT !.lfree =
             Search(h, p, {q \in DOMAIN h.item : ~ IsUsed(h, q) \/ q = End})]

\* Mistake: the lowest free pointer stays with the item that was taken.
Taken_NotAdvanced(h, p, n) ==
    LET s == IF Room(h, p) >= n + Header + Align(MinSize)
             THEN Counted(Split(h, p, p + Header + n), n + Header)
             ELSE Counted(h, Next(h, p) - p)
    IN  [s EXCEPT !.item[p].used = TRUE]

\* The free item p is taken for n bytes, and split if the rest can hold an
\* item.
Taken(h, p, n) ==
    LET s == IF Room(h, p) >= n + Header + Align(MinSize)
             THEN Counted(Split(h, p, p + Header + n), n + Header)
             ELSE Counted(h, Next(h, p) - p)
    IN  Advanced([s EXCEPT !.item[p].used = TRUE], p)

-----------------------------------------------------------------------------
(* rt_smem_free *)

\* Mistake: the statistics are not updated.
Freed_NotCounted(h, p) ==
    plug_holes([h EXCEPT !.item[p].used = FALSE,
                         !.lfree = IF p < @ THEN p ELSE @], p)

\* Mistake: the size is read after the item was merged with its neighbours.
Freed_Late(h, p) ==
    LET f == plug_holes([h EXCEPT !.item[p].used = FALSE,
                                  !.lfree = IF p < @ THEN p ELSE @], p)
        q == Max({i \in DOMAIN f.item : i <= p})
    IN  [f EXCEPT !.used = @ - (Next(f, q) - q)]

Freed(h, p) ==
    plug_holes([h EXCEPT !.item[p].used = FALSE,
                         !.lfree = IF p < @ THEN p ELSE @,
                         !.used = @ - (Next(h, p) - p)], p)

\* The rest of the item p behind its first n bytes is freed.
Shrunk(h, p, n) ==
    LET p2 == p + Header + n
        s == [Split(h, p, p2) EXCEPT !.used = @ - (Room(h, p) - n)]
    IN  plug_holes([s EXCEPT !.lfree = IF p2 < @ THEN p2 ELSE @], p2)

-----------------------------------------------------------------------------
(* A call that fails, and one that asks for the size an item has, changes  *)
(* nothing.                                                                *)

rt_malloc(n) ==
    /\ CanAlloc(heap, n)
    /\ LET p == AllocAt(heap, DataSize(n))
       IN  /\ heap' = Taken(heap, p, DataSize(n))
           /\ given' = With(given, p, n)

rt_free(p) ==
    /\ heap' = Freed(heap, p)
    /\ given' = Restrict(given, DOMAIN given \ {p})

\* rt_smem_realloc to a size that leaves room for an item ...
rt_realloc_Shrink(p, n) ==
    /\ Align(n) + Header + MinSize < Room(heap, p)
    /\ heap' = Shrunk(heap, p, Align(n))
    /\ given' = [given EXCEPT ![p] = n]

\* ... and to any other: the data moves to a new item.
rt_realloc_Move(p, n) ==
    /\ Align(n) # Room(heap, p)
    /\ Align(n) + Header + MinSize >= Room(heap, p)
    /\ CanAlloc(heap, n)
    /\ LET q == AllocAt(heap, DataSize(n))
       IN  /\ heap' = Freed(Taken(heap, q, DataSize(n)), p)
           /\ given' = Restrict(With(given, q, n), (DOMAIN given \cup {q}) \ {p})

HeapNext ==
    \/ \E n \in Requests : rt_malloc(n)
    \/ \E p \in DOMAIN given :
          \/ rt_free(p)
          \/ \E n \in Requests : rt_realloc_Shrink(p, n) \/ rt_realloc_Move(p, n)

Spec == Init /\ [][HeapNext]_vars

-----------------------------------------------------------------------------
Address == 0 .. End

TypeOK ==
    /\ DOMAIN heap.item \subseteq Address
    /\ heap.item \in [DOMAIN heap.item ->
                         [used : BOOLEAN, next : Address, prev : Address]]
    /\ heap.lfree \in DOMAIN heap.item
    /\ heap.used \in 0 .. End /\ heap.max \in 0 .. End
    /\ DOMAIN given \subseteq DOMAIN heap.item
    /\ \A p \in DOMAIN given : given[p] \in Requests

\* The items are a row from heap_ptr to heap_end, each up to the next without
\* gaps or overlaps, doubly linked, with room for a header, aligned, and no
\* two free ones
\* in a row: "if not we have 2 unused structs in a row, plug_holes should
\* have take care of this" (rt_smem_alloc).
Tiled ==
    /\ {0, End} \subseteq DOMAIN heap.item
    /\ \A p \in DOMAIN heap.item \ {End} :
          LET n == Next(heap, p)
          IN  /\ n \in DOMAIN heap.item /\ n >= p + Header
              /\ \A q \in DOMAIN heap.item : q <= p \/ q >= n
              /\ p % AlignSize = 0
              /\ n # End => heap.item[n].prev = p
              /\ n # End /\ ~ IsUsed(heap, p) => IsUsed(heap, n)

\* lfree is the lowest free item, or heap_end: the search of rt_smem_alloc
\* misses none, and the assertion after it holds.
LowestFree ==
    heap.lfree = Min({p \in DOMAIN heap.item : ~ IsUsed(heap, p)} \cup {End})

\* The items in use are the ones handed out and not freed, each with the
\* room that was asked for, and used is their size.
AllocationsHold ==
    /\ {p \in DOMAIN heap.item \ {End} : IsUsed(heap, p)} = DOMAIN given
    /\ \A p \in DOMAIN given : Room(heap, p) >= given[p]
    /\ heap.used = Cardinality(UNION {p .. Next(heap, p) - 1 : p \in DOMAIN given})
    /\ heap.used <= heap.max
=============================================================================
