---------------------------- MODULE MCNiSession ----------------------------
(***************************************************************************)
(* Model checking of NiSession.  Ordinary requests are interchangeable,    *)
(* and so are emergency ones.                                              *)
(***************************************************************************)
EXTENDS NiSession, TLC

RequestSymmetry == Permutations(Emergency) \cup Permutations(Requests \ Emergency)
=============================================================================
