------------------------------ MODULE Mempool -------------------------------
(***************************************************************************)
(* The memory pool of rt-thread/src/mempool.c.  A block begins with a      *)
(* header word: the next free block, or, of a block that is handed out,    *)
(* the pool it belongs to.  A thread that finds no block waits at the head *)
(* of the suspend list and tries again when it is resumed.                 *)
(***************************************************************************)
EXTENDS Waiting

CONSTANTS
    Blocks,     \* the number of blocks, mp->block_total_count
    Pool        \* the address of the pool

ASSUME BlocksAssumption == Blocks \in Nat \ {0} /\ Pool \notin 0 .. Blocks

NoBlock == 0
Block_ == 1 .. Blocks

\* rt_mp_init: every block points to the next one.
MempoolInit ==
    [kind : {"pool"} \cap Kinds,
     header : {[b \in Block_ |-> IF b = Blocks THEN NoBlock ELSE b + 1]},
     block_list : {1}, block_free_count : {Blocks}]

IsPool == obj.kind = "pool"

Allocated(o) ==
    LET b == o.block_list
    IN  [o EXCEPT !.block_list = o.header[b], !.header[b] = Pool,
                  !.block_free_count = @ - 1]

\* Mistake: the count is not increased.
Released_NotCounted(o, b) ==
    [o EXCEPT !.header[b] = o.block_list, !.block_list = b]

Released(o, b) ==
    [o EXCEPT !.header[b] = o.block_list, !.block_list = b,
              !.block_free_count = @ + 1]

\* rt_thread_suspend and rt_list_insert_after: the last to come is the
\* first to be resumed.
SuspendFirst(n, t) ==
    [rt_thread_suspend(n, t) EXCEPT !.wait[Receivers] = <<t>> \o @]

-----------------------------------------------------------------------------
(* rt_mp_alloc *)

MpRound(time) ==
    \/ /\ obj.block_free_count # 0
       /\ obj' = Allocated(obj)
       /\ Finish(k)
    \/ /\ obj.block_free_count = 0 /\ time # 0
       /\ Block(SuspendFirst(Reset(k, Me), Me), time)
       /\ Enter([op |-> "alloc", time |-> time])
       /\ UNCHANGED obj
    \/ /\ obj.block_free_count = 0 /\ time = 0
       /\ Finish([k EXCEPT !.error[Me] = "timeout"])
       /\ UNCHANGED obj

\* Nothing asserts that the scheduler is not locked, but a call that has to
\* wait with it locked would go round the loop while it is suspended.
MpAlloc(time) ==
    /\ IsPool /\ Calling
    /\ time # 0 /\ obj.block_free_count = 0 => k.lock = 0
    /\ MpRound(time)

\* The rest of the time is computed with interrupts enabled ...
MpAwake ==
    /\ IsPool /\ Inside("woken", "alloc") /\ k.error[Me] = "ok"
    /\ Enter([call[Me] EXCEPT !.time = Rest(Me)])
    /\ GoOn("retry")
    /\ UNCHANGED obj

\* ... and the loop goes on with them disabled.
MpAllocAgain ==
    /\ IsPool /\ Inside("retry", "alloc")
    /\ MpRound(call[Me].time)

MpAllocIrq ==
    /\ IsPool /\ isr \in Open /\ obj.block_free_count # 0
    /\ obj' = Allocated(obj)
    /\ UNCHANGED <<vars, call>>

-----------------------------------------------------------------------------
(* rt_mp_free of a block that is handed out *)

HandedOut == {b \in Block_ : obj.header[b] = Pool}

\* The first waiter is resumed.
FirstResumed ==
    LET t == Head(k.wait[Receivers]) IN rt_thread_resume(Reset(k, t), t)

MpFree(b) ==
    /\ IsPool /\ Calling /\ b \in HandedOut
    /\ obj' = Released(obj, b)
    /\ IF k.wait[Receivers] # <<>> THEN ThenSchedule(FirstResumed, "sched")
                                   ELSE UNCHANGED vars
    /\ UNCHANGED call

MpFreeIrq(b) ==
    /\ IsPool /\ isr \in Open /\ b \in HandedOut
    /\ obj' = Released(obj, b)
    /\ IF k.wait[Receivers] # <<>>
       THEN /\ k' = rt_schedule(FirstResumed)
            /\ Settle
            /\ UNCHANGED <<pc, isr, picked>>
       ELSE UNCHANGED vars
    /\ UNCHANGED call

MpStep ==
    \/ \E time \in Times \cup {0, Forever} : MpAlloc(time)
    \/ \E b \in Block_ : MpFree(b) \/ MpFreeIrq(b)
    \/ MpAwake \/ MpAllocAgain \/ MpAllocIrq

-----------------------------------------------------------------------------
FreeBlocks == Chain(obj.header, obj.block_list, Blocks)

\* The free list ends, has block_free_count blocks and is the blocks that
\* are not handed out: an allocation that passes the test of the count finds
\* a block (the assertion of rt_mp_alloc), and no block is handed out twice.
BlocksAccounted ==
    IsPool => /\ NoDup(FreeBlocks)
              /\ Members(FreeBlocks) = Block_ \ HandedOut
              /\ obj.block_free_count = Len(FreeBlocks)

\* "time is the maximum waiting time for allocating memory": as RestShrinks,
\* for the rounds of rt_mp_alloc.
PoolTimeKept ==
    [][\A t \in Thread :
          pc[t] = "retry" /\ pc'[t] = "block" /\ call[t].time # Forever =>
              k'.left[t] <= k.left[t]]_allVars
=============================================================================
