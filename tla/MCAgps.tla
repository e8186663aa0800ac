------------------------------- MODULE MCAgps -------------------------------
(***************************************************************************)
(* Model checking of Agps.  Handles are interchangeable; the symmetry is   *)
(* used by the runs that check no liveness.                                *)
(***************************************************************************)
EXTENDS Agps, TLC

HandleSymmetry == Permutations(Handles)
=============================================================================
