------------------------------ MODULE MCMutex -------------------------------
(* Instances of Mutex for TLC. *)
EXTENDS Mutex

CONSTANTS idle, main, a, b

MCThread == {idle, main, a, b}

\* Three levels of urgency: b, a, main.
MCInitPrio == (idle :> 3) @@ (main :> 2) @@ (a :> 1) @@ (b :> 0)
=============================================================================
