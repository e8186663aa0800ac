-------------------------------- MODULE Agps --------------------------------
(***************************************************************************)
(* The AGPS connection manager of the GNSS HAL (gps/gnss/Agps.{h,cpp}).    *)
(*                                                                         *)
(* The modem asks for a data connection with requestATL(handle, type) and  *)
(* gives it back with releaseATL(handle).  The manager routes each handle  *)
(* to one of three network interface (NIF) state machines; each of them    *)
(* shares one data connection among the handles that subscribed to it.     *)
(* AGNSS and INTERNET get theirs from the Android framework; DS, the       *)
(* emergency one, from the modem's data-service client.                    *)
(*                                                                         *)
(* Everything but the retry timer runs on the adapter's message thread, one*)
(* message of queue at a time.  The modem, the framework and the DS client *)
(* are external: they are what the code in src/ lets them be.              *)
(***************************************************************************)
EXTENDS Naturals, Sequences, FiniteSets

CONSTANTS
  Handles,        \* connection handles of the modem
  Types,          \* the connection types the modem asks for
  EmergencyPdn,   \* USE_EMERGENCY_PDN_FOR_EMERGENCY_SUPL of gps.conf
  FrameworkNifs,  \* NIFs whose commands the registered status callback passes on
  DsResults,      \* what openAndStartDataCall() may return
  MaxRetries,     \* MAX_START_DATA_CALL_RETRIES
  MaxQueue,       \* bound: messages queued when the modem sends one more
  MaxBacklog,     \* bound: framework commands outstanding when it does
  MaxTimers       \* bound: retry timers armed at once

BaseNifs == {"AGNSS", "INTERNET"}
Nifs == BaseNifs \cup {"DS"}
AtlTypes == {"SUPL", "SUPL_ES", "WWAN_ANY"}
AgpsStates == {"RELEASED", "PENDING", "ACQUIRED", "RELEASING"}
DsCallStates == {"idle", "starting", "up", "stopping"}
AtlStates == {"idle", "requested", "open", "releasing", "ghost"}

ASSUME HandlesAssumption == IsFiniteSet(Handles)
ASSUME TypesAssumption == Types \subseteq AtlTypes
ASSUME PdnAssumption == EmergencyPdn \in BOOLEAN
ASSUME FrameworkAssumption == FrameworkNifs \subseteq BaseNifs
ASSUME ResultsAssumption == DsResults \subseteq {"SUCCESS", "BUSY", "UNSUPPORTED", "OTHER"}
ASSUME BoundsAssumption ==
  MaxRetries \in Nat /\ MaxQueue \in Nat /\ MaxBacklog \in Nat /\ MaxTimers \in Nat

VARIABLES
  mState,           \* per NIF: AgpsStateMachine::mState
  mSubscriberList,  \* per NIF: the handles subscribed (their order is abstracted)
  mIsInactive,      \* per NIF: those of them that wait for the close to complete
  mWaitForCloseComplete, \* per NIF: those of them that asked to wait for it
  mDsNif,           \* mDsNif # NULL
  mRetries,         \* DSStateMachine::mRetries
  timers,           \* retry timers armed and not yet expired
  queue,            \* the adapter's message queue
  fw,               \* per base NIF: commands sent and not yet seen by the framework
  conn,             \* per base NIF: the framework's data connection
  dsCall,           \* the DS client's data call
  atl               \* per handle: what the modem believes of it

lists == <<mSubscriberList, mIsInactive, mWaitForCloseComplete>>
ds == <<mRetries, timers, dsCall>>
vars == <<mState, lists, mDsNif, ds, queue, fw, conn, atl>>

RequestATL(h, t) == [msg |-> "RequestATL", handle |-> h, type |-> t]
ReleaseATL(h) == [msg |-> "ReleaseATL", handle |-> h]
AtlMessage ==
  [msg : {"RequestATL"}, handle : Handles, type : AtlTypes]
    \cup [msg : {"ReleaseATL"}, handle : Handles]
NifEvent(e, n) == [msg |-> e, nif |-> n]
NifMessage == [msg : {"GRANTED", "RELEASED", "DENIED"}, nif : Nifs]
Message == AtlMessage \cup NifMessage

Active(n) == mSubscriberList[n] \ mIsInactive[n]

(***************************************************************************)
(* The modem's side of a handle: how an open or close status changes what  *)
(* it believes.  "ghost" is a handle reported open that it did not ask for *)
(* or that was open already.                                               *)
(***************************************************************************)
Opened == [s \in AtlStates |-> CASE s = "requested" -> "open"
                                 [] s = "releasing" -> "releasing"
                                 [] OTHER -> "ghost"]
OpenFailed == [s \in AtlStates |-> IF s = "requested" THEN "idle" ELSE s]
Closed == [s \in AtlStates |-> "idle"]
CloseFailed == [s \in AtlStates |-> IF s = "releasing" THEN "idle" ELSE s]

Tell(S, status) == atl' = [h \in Handles |-> IF h \in S THEN status[atl[h]] ELSE atl[h]]

(***************************************************************************)
(* Subscriber lists.                                                       *)
(***************************************************************************)
\* Mutant: the wait flag is lost.
addSubscriberNoWait(n, h, wait) ==
  /\ mSubscriberList' = [mSubscriberList EXCEPT ![n] = @ \cup {h}]
  /\ UNCHANGED <<mIsInactive, mWaitForCloseComplete>>

addSubscriber(n, h, wait) ==
  IF h \in mSubscriberList[n]
  THEN UNCHANGED lists
  ELSE /\ mSubscriberList' = [mSubscriberList EXCEPT ![n] = @ \cup {h}]
       /\ mWaitForCloseComplete' =
            IF wait THEN [mWaitForCloseComplete EXCEPT ![n] = @ \cup {h}]
            ELSE mWaitForCloseComplete
       /\ UNCHANGED mIsInactive

\* Mutants: nothing, or too much, is deleted.
deleteNone(n, S) == UNCHANGED lists

deleteAll(n, S) ==
  /\ mSubscriberList' = [mSubscriberList EXCEPT ![n] = {}]
  /\ mIsInactive' = [mIsInactive EXCEPT ![n] = {}]
  /\ mWaitForCloseComplete' = [mWaitForCloseComplete EXCEPT ![n] = {}]

deleteSubscribers(n, S) ==
  /\ mSubscriberList' = [mSubscriberList EXCEPT ![n] = @ \ S]
  /\ mIsInactive' = [mIsInactive EXCEPT ![n] = @ \ S]
  /\ mWaitForCloseComplete' = [mWaitForCloseComplete EXCEPT ![n] = @ \ S]

deactivate(n, h) ==
  /\ mIsInactive' = [mIsInactive EXCEPT ![n] = @ \cup {h}]
  /\ UNCHANGED <<mSubscriberList, mWaitForCloseComplete>>

transitionState(n, s) == mState' = [mState EXCEPT ![n] = s]

(***************************************************************************)
(* requestOrReleaseDataConn.  The message being processed leaves the queue *)
(* in the same step.                                                       *)
(***************************************************************************)
Consume == queue' = Tail(queue)

\* Mutant: the command is never sent.
CommandLost(n, c) == UNCHANGED fw

Command(n, c) ==
  fw' = IF n \in FrameworkNifs THEN [fw EXCEPT ![n] = Append(@, c)] ELSE fw

\* mRetries > MAX_START_DATA_CALL_RETRIES once this failure is counted.
Exhausted == mRetries = MaxRetries

\* DS falls back to an ordinary SUPL request of the same handle, through the queue.
FallbackToSupl(order) ==
  /\ mRetries' = IF order = <<>> THEN mRetries ELSE 0
  /\ queue' = Tail(queue) \o [i \in DOMAIN order |-> RequestATL(order[i], "SUPL")]

\* DSStateMachine::requestOrReleaseDataConn(true) for one of the active subscribers.
openAndStartDataCall(active, ok) ==
  \E r \in DsResults :
    /\ ok = (r = "SUCCESS")
    /\ \/ /\ r = "SUCCESS"
          /\ dsCall = "idle"
          /\ dsCall' = "starting"
          /\ Consume
          /\ UNCHANGED <<mRetries, timers>>
       \/ /\ \/ r = "UNSUPPORTED"
             \/ r = "BUSY" /\ Exhausted
          /\ \E h \in active : FallbackToSupl(<<h>>)
          /\ UNCHANGED <<timers, dsCall>>
       \* loc_timer_start returns the timer's handle, which the code takes for an error;
       \* the request counts as refused with or without it.
       \/ /\ r = "BUSY"
          /\ ~Exhausted
          /\ timers < MaxTimers
          /\ mRetries' = mRetries + 1
          /\ timers' = timers + 1
          /\ Consume
          /\ UNCHANGED dsCall
       \/ /\ r = "OTHER"
          /\ Consume
          /\ UNCHANGED ds

\* ok: the request was accepted, which a base NIF never doubts.
requestDataConn(n, active, ok) ==
  \/ n \in BaseNifs /\ ok /\ Command(n, "REQUEST") /\ Consume /\ UNCHANGED ds
  \/ n = "DS" /\ openAndStartDataCall(active, ok) /\ UNCHANGED fw

releaseDataConn(n) ==
  IF n \in BaseNifs
  THEN Command(n, "RELEASE") /\ UNCHANGED dsCall
  ELSE /\ dsCall' = IF dsCall \in {"starting", "up"} THEN "stopping" ELSE dsCall
       /\ UNCHANGED fw

-----------------------------------------------------------------------------
(***************************************************************************)
(* The state machine's five events, each the whole of processAgpsEvent.    *)
(***************************************************************************)
Subscribe(n, h, wait) ==
  /\ addSubscriber(n, h, wait)
  /\ \/ /\ mState[n] = "RELEASED"
        /\ \E ok \in BOOLEAN :
             /\ requestDataConn(n, Active(n) \cup {h}, ok)
             /\ transitionState(n, IF ok THEN "PENDING" ELSE "RELEASED")
        /\ UNCHANGED atl
     \/ /\ mState[n] \in {"PENDING", "RELEASING"}
        /\ Consume
        /\ UNCHANGED <<mState, ds, fw, atl>>
     \/ /\ mState[n] = "ACQUIRED"
        /\ Tell({h}, Opened)
        /\ Consume
        /\ UNCHANGED <<mState, ds, fw>>
  /\ UNCHANGED conn

\* h is subscribed to n.
Unsubscribe(n, h) ==
  /\ \/ /\ mState[n] = "RELEASED"
        /\ Tell({h}, Closed)
        /\ UNCHANGED <<mState, lists, fw, dsCall>>
     \/ /\ mState[n] # "RELEASED"
        /\ IF h \in mWaitForCloseComplete[n]
           THEN deactivate(n, h) /\ UNCHANGED atl
           ELSE deleteSubscribers(n, {h}) /\ Tell({h}, Closed)
        /\ LET empty == mSubscriberList'[n] = {}
               idle == mSubscriberList'[n] = mIsInactive'[n]
           IN \/ /\ mState[n] # "RELEASING" /\ idle
                 /\ transitionState(n, IF empty THEN "RELEASED" ELSE "RELEASING")
                 /\ releaseDataConn(n)
              \/ /\ mState[n] # "RELEASING" /\ ~idle
                 /\ UNCHANGED <<mState, fw, dsCall>>
              \/ /\ mState[n] = "RELEASING"
                 /\ transitionState(n, IF empty THEN "RELEASED" ELSE "RELEASING")
                 /\ UNCHANGED <<fw, dsCall>>
  /\ Consume
  /\ UNCHANGED <<mRetries, timers, conn>>

Ignore == Consume /\ UNCHANGED <<mState, lists, ds, fw, conn, atl>>

\* Mutant: the waiting subscribers are not told.
GrantedSilently(n) ==
  \/ mState[n] # "PENDING" /\ Ignore
  \/ /\ mState[n] = "PENDING"
     /\ transitionState(n, "ACQUIRED")
     /\ Consume
     /\ UNCHANGED <<lists, ds, fw, conn, atl>>

Granted(n) ==
  \/ mState[n] # "PENDING" /\ Ignore
  \/ /\ mState[n] = "PENDING"
     /\ transitionState(n, "ACQUIRED")
     /\ Tell(Active(n), Opened)
     /\ Consume
     /\ UNCHANGED <<lists, ds, fw, conn>>

\* RELEASED and DENIED in state RELEASING: the close is complete.
CloseComplete(n) ==
  /\ mState[n] = "RELEASING"
  /\ Tell(mIsInactive[n], Closed)
  /\ deleteSubscribers(n, mIsInactive[n])
  /\ \/ /\ Active(n) # {}
        /\ transitionState(n, "PENDING")
        /\ \E ok \in BOOLEAN : requestDataConn(n, Active(n), ok)
     \/ /\ Active(n) = {}
        /\ transitionState(n, "RELEASED")
        /\ Consume
        /\ UNCHANGED <<ds, fw>>
  /\ UNCHANGED conn

\* The orders in which a DS machine may hold its subscribers.
Orders(S) == {o \in [1..Cardinality(S) -> S] : \A h \in S : \E i \in DOMAIN o : o[i] = h}

Denied(n) ==
  \/ mState[n] \in {"RELEASED", "ACQUIRED"} /\ Ignore
  \/ CloseComplete(n)
  \/ /\ mState[n] = "PENDING"
     /\ transitionState(n, "RELEASED")
     /\ deleteSubscribers(n, mSubscriberList[n])
     /\ \/ /\ n \in BaseNifs
           /\ Tell(mSubscriberList[n], OpenFailed)
           /\ Consume
           /\ UNCHANGED mRetries
        \/ /\ n = "DS"
           /\ \E order \in Orders(mSubscriberList[n]) : FallbackToSupl(order)
           /\ UNCHANGED atl
     /\ UNCHANGED <<timers, dsCall, fw, conn>>

Released(n) ==
  \/ mState[n] = "RELEASED" /\ Ignore
  \/ /\ mState[n] = "ACQUIRED"
     /\ transitionState(n, "RELEASED")
     /\ Tell(mSubscriberList[n], Closed)
     /\ deleteSubscribers(n, mSubscriberList[n])
     /\ Consume
     /\ UNCHANGED <<ds, fw, conn>>
  \/ CloseComplete(n)
  \/ /\ mState[n] = "PENDING"
     /\ IF n = "DS" THEN Denied(n) ELSE Ignore

-----------------------------------------------------------------------------
(***************************************************************************)
(* AgpsManager: the messages the adapter thread processes.                 *)
(***************************************************************************)
Next1(m) == queue # <<>> /\ Head(queue).msg = m

nifFor(t) ==
  CASE t = "SUPL" -> "AGNSS"
    [] t = "SUPL_ES" -> IF EmergencyPdn THEN "DS" ELSE "AGNSS"
    [] t = "WWAN_ANY" -> "INTERNET"

\* requestATL.  The DS machine is created when it is first needed; initDataServiceClient
\* may fail, and then the request is answered at once.
ProcessRequestATL ==
  /\ Next1("RequestATL")
  /\ LET h == Head(queue).handle
         t == Head(queue).type
         n == nifFor(t)
     IN \/ /\ n = "DS" /\ ~mDsNif
           /\ Tell({h}, OpenFailed)
           /\ Consume
           /\ UNCHANGED <<mState, lists, mDsNif, ds, fw, conn>>
        \/ /\ mDsNif' = (mDsNif \/ n = "DS")
           /\ Subscribe(n, h, t = "SUPL_ES")

\* releaseATL searches the machines in this order.
ownerOf(h) ==
  IF h \in mSubscriberList["AGNSS"] THEN "AGNSS"
  ELSE IF h \in mSubscriberList["INTERNET"] THEN "INTERNET"
  ELSE IF h \in mSubscriberList["DS"] THEN "DS"
  ELSE "none"

ProcessReleaseATL ==
  /\ Next1("ReleaseATL")
  /\ LET h == Head(queue).handle
     IN \/ /\ ownerOf(h) = "none"
           /\ Tell({h}, CloseFailed)
           /\ Consume
           /\ UNCHANGED <<mState, lists, ds, fw, conn>>
        \/ ownerOf(h) # "none" /\ Unsubscribe(ownerOf(h), h)
  /\ UNCHANGED mDsNif

\* reportAtlOpenSuccess and reportDataCallOpened.
ProcessGranted == Next1("GRANTED") /\ Granted(Head(queue).nif) /\ UNCHANGED mDsNif

\* reportAtlOpenFailed.
ProcessDenied == Next1("DENIED") /\ Denied(Head(queue).nif) /\ UNCHANGED mDsNif

\* reportAtlClosed and reportDataCallClosed.
ProcessReleased == Next1("RELEASED") /\ Released(Head(queue).nif) /\ UNCHANGED mDsNif

ProcessMessage ==
  ProcessRequestATL \/ ProcessReleaseATL \/ ProcessGranted \/ ProcessDenied \/ ProcessReleased

\* The retry timer expires, on the timer thread: retryCallback.
RetryTimeout ==
  /\ timers > 0
  /\ timers' = timers - 1
  /\ \/ /\ Active("DS") = {}
        /\ UNCHANGED queue
     \/ \E h \in Active("DS") : queue' = Append(queue, RequestATL(h, "SUPL_ES"))
  /\ UNCHANGED <<mState, lists, mDsNif, mRetries, fw, conn, dsCall, atl>>

-----------------------------------------------------------------------------
(***************************************************************************)
(* The environment.  The modem uses a handle again only when no message    *)
(* about its previous use is left.                                         *)
(***************************************************************************)
Post(m) == queue' = Append(queue, m)
untouched == <<mState, lists, mDsNif, mRetries, timers>>

ModemRequest(h, t) ==
  /\ atl[h] = "idle"
  /\ Len(queue) < MaxQueue
  /\ \A n \in BaseNifs : Len(fw[n]) < MaxBacklog
  /\ \A i \in DOMAIN queue : queue[i].msg \in {"RequestATL", "ReleaseATL"} => queue[i].handle # h
  /\ atl' = [atl EXCEPT ![h] = "requested"]
  /\ Post(RequestATL(h, t))
  /\ UNCHANGED <<untouched, fw, conn, dsCall>>

ModemRelease(h) ==
  /\ atl[h] \in {"requested", "open", "ghost"}
  /\ Len(queue) < MaxQueue
  /\ atl' = [atl EXCEPT ![h] = "releasing"]
  /\ Post(ReleaseATL(h))
  /\ UNCHANGED <<untouched, fw, conn, dsCall>>

\* The framework takes up the next command.
FrameworkCommand(n) ==
  /\ fw[n] # <<>>
  /\ fw' = [fw EXCEPT ![n] = Tail(@)]
  /\ \/ /\ Head(fw[n]) = "REQUEST" /\ conn[n] # "open"
        /\ conn' = [conn EXCEPT ![n] = "opening"]
        /\ UNCHANGED queue
     \/ /\ Head(fw[n]) = "REQUEST" /\ conn[n] = "open"
        /\ Post(NifEvent("GRANTED", n))
        /\ UNCHANGED conn
     \/ /\ Head(fw[n]) = "RELEASE" /\ conn[n] # "closed"
        /\ conn' = [conn EXCEPT ![n] = "closed"]
        /\ Post(NifEvent("RELEASED", n))
     \/ /\ Head(fw[n]) = "RELEASE" /\ conn[n] = "closed"
        /\ UNCHANGED <<conn, queue>>
  /\ UNCHANGED <<untouched, dsCall, atl>>

\* dataConnOpen or dataConnFailed.
FrameworkAnswer(n) ==
  /\ conn[n] = "opening"
  /\ \/ conn' = [conn EXCEPT ![n] = "open"] /\ Post(NifEvent("GRANTED", n))
     \/ conn' = [conn EXCEPT ![n] = "closed"] /\ Post(NifEvent("DENIED", n))
  /\ UNCHANGED <<untouched, fw, dsCall, atl>>

\* dataConnClosed: the network is lost.
FrameworkLost(n) ==
  /\ conn[n] = "open"
  /\ Len(queue) < MaxQueue
  /\ conn' = [conn EXCEPT ![n] = "closed"]
  /\ Post(NifEvent("RELEASED", n))
  /\ UNCHANGED <<untouched, fw, dsCall, atl>>

\* The DS client reports the data call it was asked to start or to stop.
DsAnswer ==
  /\ \/ dsCall = "starting" /\ dsCall' = "up" /\ Post(NifEvent("GRANTED", "DS"))
     \/ dsCall \in {"starting", "stopping"} /\ dsCall' = "idle" /\ Post(NifEvent("RELEASED", "DS"))
  /\ UNCHANGED <<untouched, fw, conn, atl>>

DsLost ==
  /\ dsCall = "up"
  /\ Len(queue) < MaxQueue
  /\ dsCall' = "idle"
  /\ Post(NifEvent("RELEASED", "DS"))
  /\ UNCHANGED <<untouched, fw, conn, atl>>

Init ==
  /\ mState = [n \in Nifs |-> "RELEASED"]
  /\ mSubscriberList = [n \in Nifs |-> {}]
  /\ mIsInactive = [n \in Nifs |-> {}]
  /\ mWaitForCloseComplete = [n \in Nifs |-> {}]
  /\ mDsNif \in {FALSE, EmergencyPdn}
  /\ mRetries = 0 /\ timers = 0
  /\ queue = <<>>
  /\ fw = [n \in BaseNifs |-> <<>>]
  /\ conn = [n \in BaseNifs |-> "closed"]
  /\ dsCall = "idle"
  /\ atl = [h \in Handles |-> "idle"]

Next ==
  \/ ProcessMessage
  \/ RetryTimeout
  \/ \E h \in Handles : (\E t \in Types : ModemRequest(h, t)) \/ ModemRelease(h)
  \/ \E n \in BaseNifs : FrameworkCommand(n) \/ FrameworkAnswer(n) \/ FrameworkLost(n)
  \/ DsAnswer
  \/ DsLost

Spec == Init /\ [][Next]_vars

(***************************************************************************)
(* The message thread keeps taking messages, an armed timer expires, and   *)
(* the framework and the DS client answer what they are asked.  The modem  *)
(* and the network owe nothing.                                            *)
(***************************************************************************)
Fairness ==
  /\ WF_vars(ProcessMessage)
  /\ WF_vars(RetryTimeout)
  /\ \A n \in BaseNifs : WF_vars(FrameworkCommand(n)) /\ WF_vars(FrameworkAnswer(n))
  /\ WF_vars(DsAnswer)

FairSpec == Spec /\ Fairness

-----------------------------------------------------------------------------
(***************************************************************************)
(* Properties.                                                             *)
(***************************************************************************)

\* Type correctness; in particular mRetries never exceeds MAX_START_DATA_CALL_RETRIES
\* between two messages.
TypeOK ==
  /\ mState \in [Nifs -> AgpsStates]
  /\ mSubscriberList \in [Nifs -> SUBSET Handles]
  /\ mIsInactive \in [Nifs -> SUBSET Handles]
  /\ mWaitForCloseComplete \in [Nifs -> SUBSET Handles]
  /\ mDsNif \in BOOLEAN
  /\ mRetries \in 0..MaxRetries
  /\ timers \in Nat
  /\ queue \in Seq(Message)
  /\ fw \in [BaseNifs -> Seq({"REQUEST", "RELEASE"})]
  /\ conn \in [BaseNifs -> {"closed", "opening", "open"}]
  /\ dsCall \in DsCallStates
  /\ atl \in [Handles -> AtlStates]

ListsNested(n) ==
  /\ mIsInactive[n] \subseteq mWaitForCloseComplete[n]
  /\ mWaitForCloseComplete[n] \subseteq mSubscriberList[n]

StateFitsList(n) ==
  /\ mState[n] = "RELEASED" => mIsInactive[n] = {}
  /\ mState[n] = "RELEASED" /\ n \in BaseNifs => mSubscriberList[n] = {}
  /\ mState[n] \in {"PENDING", "ACQUIRED"} => Active(n) # {}
  /\ mState[n] = "RELEASING" => mIsInactive[n] # {}

\* Each machine's state fits its subscriber list after every message: a connection is
\* wanted exactly while somebody active wants it, and a close is awaited only while
\* somebody waits for it.  (A DS machine may hold subscribers in RELEASED: it retries.)
MachinesConsistent == \A n \in Nifs : ListsNested(n) /\ StateFitsList(n)

ReleaseQueued(h) == \E i \in DOMAIN queue : queue[i] = ReleaseATL(h)
RequestQueued(h) == \E i \in DOMAIN queue, t \in AtlTypes : queue[i] = RequestATL(h, t)
Expected(n, h) ==
  IF h \in mIsInactive[n] \/ ReleaseQueued(h) THEN "releasing"
  ELSE IF mState[n] = "ACQUIRED" THEN "open"
  ELSE "requested"

\* What the modem was told of a subscribed handle is what its machine's state says: told
\* open exactly when the connection was granted while it was active, whichever of the
\* three places that notify it (subscribe, grant, release) got there first.
ModemAgrees ==
  \A h \in Handles : \A n \in Nifs : h \in mSubscriberList[n] => atl[h] = Expected(n, h)

\* A handle the modem still waits for is subscribed or has a message in the queue: no
\* sequence of notifications and deletions drops a handle without its final answer.
NoForgottenHandle ==
  \A h \in Handles :
    atl[h] # "idle" =>
      ReleaseQueued(h) \/ RequestQueued(h) \/ \E n \in Nifs : h \in mSubscriberList[n]

\* When every message and command has been dealt with, a NIF without subscribers has no
\* connection left open (Agps.cpp: "If no subscribers in list, release data connection").
NoLeakedConnection ==
  \A n \in BaseNifs :
    mSubscriberList[n] = {} /\ queue = <<>> /\ fw[n] = <<>> => conn[n] # "open"

\* The emergency data call is down, and no late report of it is on its way, whenever the
\* DS machine is RELEASED: waiting for the close to complete keeps one call's events
\* from being taken for the next one's.
NoLeakedDataCall ==
  mState["DS"] = "RELEASED" =>
    /\ dsCall = "idle"
    /\ \A i \in DOMAIN queue : queue[i] \notin {NifEvent("GRANTED", "DS"), NifEvent("RELEASED", "DS")}

\* The manager gives the modem the handle service of AtlService: nothing is opened that
\* was not asked for, nothing twice, and nothing after its close.
Service == INSTANCE AtlService WITH Handles <- Handles, atl <- atl

\* The same with its liveness: every open and every close is answered in the end.
ImplementsFairService == Service!FairSpec
=============================================================================
