---------------------------- MODULE MCSemDetach -----------------------------
(* An instance of SemDetach for TLC. *)
EXTENDS SemDetach

CONSTANTS idle, main, a

MCThread == {idle, main, a}

MCInitPrio == (idle :> 2) @@ (main :> 1) @@ (a :> 1)
=============================================================================
