---------------------------- MODULE MCOsObserver ----------------------------
(* Model checking of OsObserver: the clients are interchangeable, as are the values. *)
EXTENDS OsObserver, TLC

ClientSymmetry == Permutations(Clients) \cup Permutations(Values)
=============================================================================
