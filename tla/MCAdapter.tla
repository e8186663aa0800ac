------------------------------- MODULE MCAdapter -------------------------------
(***************************************************************************)
(* Model checking of what the GnssAdapter does with its threads: coarse    *)
(* positions on demand, its reports, its message task, its XTRA observer   *)
(* and what it knows of the system.                                        *)
(*                                                                         *)
(* None of the parts reads the state of another, so they are checked side  *)
(* by side: Init chooses the part that runs, and the others stay as they   *)
(* were made.                                                              *)
(***************************************************************************)
EXTENDS Odcpi

\* Of the reports, of the message task, of the XTRA observer, and of the system status.
CONSTANTS Trackers, Positions, Satellites, INTERMEDIATE_POS, ByAp, UlpListens, MaxReports,
          MaxTaskMsgs,
          Items, Values, MaxUpdates, MaxDatagrams, MaxStatusMsgs, MaxRestarts,
          FieldValues, Talkers, DataItems, Networks, maxItem, MaxEvents

VARIABLES part,
          mTrackingSessions, mGnssSvIdUsedInPosAvail, mGnssSvIdUsedInPosition, reports, ulp, sent, log, nmea,
          taskQueue, unblocked, taskAlive, mThread, mRunnable, mJoinable, mRefCount, delegateAlive,
          worker, owner, msg, accepted, handled, flushed,
          value, mReqStatusReceived, mDelayLocTimer, bound, status, toHal, toXtra, daemon,
          answered, late, latest, updates, restarts,
          mCache, seen, connected, downFirst, epoch, events

-----------------------------------------------------------------------------
(***************************************************************************)
(* The reports: fixes by satellites and by sensors, an intermediate one    *)
(* and one of the network; six satellites that need two GSV sentences, a   *)
(* mixed few, and none.                                                    *)
(***************************************************************************)
MCTypes == {"GPS", "GLONASS", "QZSS", "BEIDOU", "GALILEO"}
Position(outcome, tech, used) ==
  [status |-> outcome, tech |-> tech, accurate |-> TRUE, hasUsed |-> TRUE, blank |-> FALSE,
   used |-> [t \in MCTypes |-> IF t \in DOMAIN used THEN used[t] ELSE {}],
   latLong |-> outcome # "FAILURE", differential |-> FALSE]
Sv(type, svId, used) == [type |-> type, svId |-> svId, used |-> used]

MCPositions ==
  {Position("SUCCESS", {"SATELLITE"}, [GPS |-> {1, 5, 31}, GLONASS |-> {2}]),
   Position("SUCCESS", {"SENSORS"}, [GALILEO |-> {3}, QZSS |-> {1}]),
   Position("INTERMEDIATE", {"SATELLITE"}, [GPS |-> {9}]),
   [Position("SUCCESS", {"WIFI"}, [GPS |-> {}]) EXCEPT !.hasUsed = FALSE]}
MCSatellites ==
  {<<Sv("GPS", 1, FALSE), Sv("GPS", 5, FALSE), Sv("GPS", 9, TRUE), Sv("GPS", 12, FALSE), Sv("GPS", 31, FALSE),
     Sv("GLONASS", 2, FALSE)>>,
   <<Sv("GALILEO", 3, FALSE), Sv("QZSS", 1, FALSE), Sv("GPS", 2, FALSE), Sv("BEIDOU", 35, FALSE)>>,
   <<>>}

Report == INSTANCE Reports WITH msgs <- reports
Task == INSTANCE MsgTask WITH MaxMsgs <- MaxTaskMsgs, queue <- taskQueue
XtraStatus == INSTANCE XtraObserver WITH Unset <- None, MaxMsgs <- MaxStatusMsgs, msgs <- status
System == INSTANCE SystemStatus WITH Values <- FieldValues, Items <- DataItems, NoItem <- None

ASSUME AdapterAssumption ==
  /\ Report!ReportAssumption /\ Task!MaxMsgsAssumption /\ Task!NoneAssumption
  /\ XtraStatus!BoundAssumption /\ System!MaxItemAssumption
  /\ System!ValuesAssumption /\ System!TalkersAssumption /\ System!ItemsAssumption

reportVars == <<mTrackingSessions, mGnssSvIdUsedInPosAvail, mGnssSvIdUsedInPosition, reports, ulp, sent, log, nmea>>
taskVars == <<taskQueue, unblocked, taskAlive, mThread, mRunnable, mJoinable, mRefCount, delegateAlive,
              worker, owner, msg, accepted, handled, flushed>>
xtraVars == <<value, mReqStatusReceived, mDelayLocTimer, bound, status, toHal, toXtra, daemon,
              answered, late, latest, updates, restarts>>
statusVars == <<mCache, seen, connected, downFirst, epoch, events>>
allVars == <<part, vars, reportVars, taskVars, xtraVars, statusVars>>

-----------------------------------------------------------------------------
\* One start of the message task is enough for the other parts.
AdapterInit ==
  /\ part \in {"odcpi", "reports", "task", "xtra", "status"}
  /\ Init /\ Report!Init /\ Task!Init /\ XtraStatus!Init /\ System!Init
  /\ part # "task" => ~mThread

AdapterNext ==
  \/ part = "odcpi" /\ Next /\ UNCHANGED <<part, reportVars, taskVars, xtraVars, statusVars>>
  \/ part = "reports" /\ Report!Next /\ UNCHANGED <<part, vars, taskVars, xtraVars, statusVars>>
  \/ part = "task" /\ Task!Next /\ UNCHANGED <<part, vars, reportVars, xtraVars, statusVars>>
  \/ part = "xtra" /\ XtraStatus!Next /\ UNCHANGED <<part, vars, reportVars, taskVars, statusVars>>
  \/ part = "status" /\ System!Next /\ UNCHANGED <<part, vars, reportVars, taskVars, xtraVars>>

\* The weak fairness that the parts' own specifications assume, for the part that runs.
AdapterFairness ==
  /\ WF_vars(part = "odcpi" /\ Adapter) /\ WF_vars(part = "odcpi" /\ timeOutCallback)
  /\ WF_taskVars(part = "task" /\ Task!Worker) /\ WF_taskVars(part = "task" /\ Task!Owner)
  /\ WF_xtraVars(part = "xtra" /\ XtraStatus!listener) /\ WF_xtraVars(part = "xtra" /\ XtraStatus!handle)
  /\ WF_xtraVars(part = "xtra" /\ XtraStatus!timeOutCallback) /\ WF_xtraVars(part = "xtra" /\ XtraStatus!xtraDaemon)

AdapterSpec == AdapterInit /\ [][AdapterNext]_allVars /\ AdapterFairness

-----------------------------------------------------------------------------
(***************************************************************************)
(* The properties of the parts, stated where their modules state them.     *)
(***************************************************************************)
\* GnssAdapter: no report is lost or handled twice, no poor fix is passed on, and satellites are flagged as
\* the newest position used them or the engine flagged them itself.
ReportsTruthful == part = "reports" => Report!ReportsTruthful
\* GnssAdapter: no satellite is flagged that the newest position did not use (the comment of reportSv).
MarkedOnlyIfUsed == part = "reports" => Report!MarkedOnlyIfUsed
\* loc_nmea: every satellite is listed, counts and talkers agree among the sentences of a report.
SentencesAgree == part = "reports" => Report!SentencesAgree
\* MsgTask: accepted messages are handled in order, once, or freed with the queue; the queue and the
\* LocThreadDelegate are freed by the last of their users, unless the thread was stopped before it began.
EndsCleanly == part = "task" => Task!EndsCleanly
\* MsgTask::destroy() returns.
DestroyReturns == Task!DestroyReturns
\* SystemStatus: a report is a history of changes that ends with what it was told last; the debug report
\* shows nothing from before the aiding data were deleted, and a gain with the clock of its own sentence.
StatusTruthful == part = "status" => System!StatusTruthful
\* XtraSystemStatusObserver: an answered daemon believes what the HAL was told last.
XtraAgrees == part = "xtra" => XtraStatus!XtraAgrees
\* XtraSystemStatusObserver: a daemon that runs is answered, restarts included.
DaemonIsAnswered == XtraStatus!DaemonIsAnswered
=============================================================================
