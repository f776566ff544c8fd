-------------------------- MODULE MCUnguardedCalls --------------------------
(* An instance of UnguardedCalls for TLC. *)
EXTENDS UnguardedCalls

CONSTANTS idle, main, a

MCThread == {idle, main, a}

\* main deletes a thread of its own level.
MCInitPrio == (idle :> 2) @@ (main :> 1) @@ (a :> 1)
=============================================================================
