----------------------------- MODULE AtlService -----------------------------
(***************************************************************************)
(* What the AGPS manager promises the modem about its connection handles,  *)
(* whatever the state machines, the framework and the DS client do: the    *)
(* contract of atlOpenStatus and atlCloseStatus (gps/gnss/Agps.h).         *)
(***************************************************************************)
CONSTANT Handles

VARIABLE atl  \* per handle: idle, requested, open or releasing

Init == atl = [h \in Handles |-> "idle"]

Request(h) == atl[h] = "idle" /\ atl' = [atl EXCEPT ![h] = "requested"]

Release(h) == atl[h] \in {"requested", "open"} /\ atl' = [atl EXCEPT ![h] = "releasing"]

\* A connection is granted to handles that asked for one and have not been told yet;
\* those whose release is under way disregard it.
Grant(S) ==
  /\ \A h \in S : atl[h] = "requested"
  /\ atl' = [h \in Handles |-> IF h \in S THEN "open" ELSE atl[h]]

\* An open is refused, a close is confirmed, or the connection is lost.
End(S) ==
  /\ \A h \in S : atl[h] # "idle"
  /\ atl' = [h \in Handles |-> IF h \in S THEN "idle" ELSE atl[h]]

Answer(h) == \E S \in SUBSET Handles : h \in S /\ (Grant(S) \/ End(S))

Next ==
  \/ \E h \in Handles : Request(h) \/ Release(h)
  \/ \E S \in SUBSET Handles : Grant(S) \/ End(S)

Spec == Init /\ [][Next]_atl

\* Every open and every close that was asked for is answered.
FairSpec ==
  /\ Spec
  /\ \A h \in Handles :
       /\ WF_atl(atl[h] = "requested" /\ Answer(h))
       /\ WF_atl(atl[h] = "releasing" /\ Answer(h))
=============================================================================
