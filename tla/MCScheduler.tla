---------------------------- MODULE MCScheduler -----------------------------
(* Instances of Scheduler for TLC. *)
EXTENDS Scheduler

CONSTANTS idle, main, a, b

MCThread == {idle, main, a}

\* main and a share a level.
MCInitPrio == (idle :> 2) @@ (main :> 1) @@ (a :> 1)

MCThread4 == {idle, main, a, b}

\* main, a and b share a level.
MCInitPrio4 == (idle :> 2) @@ (main :> 1) @@ (a :> 1) @@ (b :> 1)

AllCalls == CallNames

\* Neither a lock that is never left nor a change of priority holds a thread
\* back.
LiveCalls == {"startup", "yield", "sleep", "irq"}
=============================================================================
