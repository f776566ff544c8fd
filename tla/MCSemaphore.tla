---------------------------- MODULE MCSemaphore -----------------------------
(* An instance of Semaphore for TLC. *)
EXTENDS Semaphore

CONSTANTS idle, main, a, b

MCThread == {idle, main, a, b}

\* b is more urgent than main and a, which share a level.
MCInitPrio == (idle :> 2) @@ (main :> 1) @@ (a :> 1) @@ (b :> 0)
=============================================================================
