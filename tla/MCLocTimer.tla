----------------------------- MODULE MCLocTimer -----------------------------
(***************************************************************************)
(* Model checking of LocTimer: the timers are interchangeable.             *)
(***************************************************************************)
EXTENDS LocTimer, TLC

TimerSymmetry == Permutations(Timers)
=============================================================================
