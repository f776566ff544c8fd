----------------------------- MODULE MCObjects ------------------------------
(* An instance of Objects for TLC. *)
EXTENDS Objects

CONSTANTS idle, main, a

MCThread == {idle, main, a}

\* a is more urgent than main.
MCInitPrio == (idle :> 2) @@ (main :> 1) @@ (a :> 0)

\* Messages, events and characters are only copied and compared.
MCSymmetry ==
    Permutations(Message) \cup Permutations(EventBit) \cup Permutations(Char)
=============================================================================
