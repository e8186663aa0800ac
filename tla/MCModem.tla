------------------------------- MODULE MCModem -------------------------------
(***************************************************************************)
(* Model checking of what the modem asks the framework for: data           *)
(* connections (Agps) and the user's consent to network-initiated requests *)
(* (NiSession).                                                            *)
(*                                                                         *)
(* They share the adapter's message thread and nothing else, so they are   *)
(* checked side by side: Init chooses the part that runs, and the other    *)
(* stays as it was made.  Handles are interchangeable, and so are ordinary *)
(* requests among themselves and emergency ones.                           *)
(***************************************************************************)
EXTENDS MCAgps, MCNiSession

VARIABLE part

\* One start of the manager is enough for the other part.
ModemInit == part \in {"agps", "ni"} /\ Init /\ NiInit /\ (part = "ni" => ~mDsNif)

ModemNext ==
  \/ part = "agps" /\ Next /\ UNCHANGED <<part, niVars>>
  \/ part = "ni" /\ NiNext /\ UNCHANGED <<part, vars>>

ModemSpec == ModemInit /\ [][ModemNext]_<<part, vars, niVars>>

ModemSymmetry == HandleSymmetry \cup RequestSymmetry
=============================================================================
