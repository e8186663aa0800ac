------------------------------ MODULE MCServices ------------------------------
(***************************************************************************)
(* Model checking of three services: the AGPS manager for the modem (Agps),*)
(* the time-based tracking sessions of the clients (Tracking), and the     *)
(* timers (LocTimer) that much of the stack starts.                        *)
(*                                                                         *)
(* They have no state in common and are checked side by side: Init chooses *)
(* the part that runs, and the others stay as they were made.              *)
(***************************************************************************)
EXTENDS MCAgps, Tracking, MCLocTimer

VARIABLE part

allVars == <<part, vars, trackingVars, timerVars>>

\* Two intervals are enough for a smaller and a larger one.
TwoIntervals == {[minInterval |-> 1, mode |-> "MSB"], [minInterval |-> 2, mode |-> "MSB"]}

ServicesInit == part \in {"agps", "tracking", "timer"} /\ Init /\ TrackingInit /\ TimerInit

ServicesNext ==
  \/ part = "agps" /\ Next /\ UNCHANGED <<part, trackingVars, timerVars>>
  \/ part = "tracking" /\ TrackingNext /\ UNCHANGED <<part, vars, timerVars>>
  \/ part = "timer" /\ TimerNext /\ UNCHANGED <<part, vars, trackingVars>>

\* The fairness of FairSpec, FairTracking and FairTimer, for the part that runs.
ServicesFairness ==
  /\ WF_vars(part = "agps" /\ ProcessMessage) /\ WF_vars(part = "agps" /\ RetryTimeout)
  /\ \A n \in BaseNifs : /\ WF_vars(part = "agps" /\ FrameworkCommand(n))
                         /\ WF_vars(part = "agps" /\ FrameworkAnswer(n))
  /\ WF_vars(part = "agps" /\ DsAnswer)
  /\ WF_trackingVars(part = "tracking" /\ MessageThread)
  /\ WF_timerVars(part = "timer" /\ MsgTask) /\ WF_timerVars(part = "timer" /\ PollTask)
  /\ WF_timerVars(part = "timer" /\ Tick)

ServicesSpec == ServicesInit /\ [][ServicesNext]_allVars /\ ServicesFairness
=============================================================================
