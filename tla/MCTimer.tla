------------------------------ MODULE MCTimer -------------------------------
(* Timers for TLC: the timers are interchangeable. *)
EXTENDS Timer, TLC

TimerSymmetry == Permutations(Timers)
=============================================================================
