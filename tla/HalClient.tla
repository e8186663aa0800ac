------------------------------ MODULE HalClient ------------------------------
(***************************************************************************)
(* The framework and the HAL's objects (gps/android: Gnss,                 *)
(* GnssMeasurement, GnssAPIClient, MeasurementAPIClient), while frameworks *)
(* die and come back.                                                      *)
(*                                                                         *)
(* The service has one binder thread (service.cpp), on which calls and     *)
(* obituaries are handled one after another; a callback that is unlinked   *)
(* has no obituary any more.  Calls become messages to the adapter, whose  *)
(* thread calls back with the capabilities.  Both threads then do the same *)
(* with the callback and the cached capabilities.                          *)
(*                                                                         *)
(* The framework is external: each has a number, calls setCallback before  *)
(* it starts and does not start after cleanup.  Options, configuration and *)
(* what the responses say are in other modules.                            *)
(***************************************************************************)
EXTENDS Naturals, Sequences

CONSTANTS MaxFrameworks, \* bound: frameworks
          MaxSession,    \* bound: sessions generated
          MaxMsgs        \* bound: messages under way when the framework calls

HalAssumption == MaxFrameworks \in Nat /\ MaxSession \in Nat /\ MaxMsgs \in Nat

VARIABLES
  framework,   \* the one that lives, 0 if there is none
  born,        \* frameworks so far
  hal,         \* Gnss, GnssMeasurement: whether mApi exists, the callbacks, those linked to death;
               \* hasAgpsExtendedCapabilities; ghost: createInstance has requested the capabilities
  api,         \* GnssAPIClient, MeasurementAPIClient: the callbacks, cached capabilities, mEnabled
  base,        \* LocationAPIClientBase of both: mTracking and the session of the tracking queue
  sessions,    \* generateSessionId
  binder,      \* where the binder thread is
  thread,      \* where the adapter's thread is
  msgs,        \* to the adapter
  adapter,     \* its sessions, its power vote
  want,        \* ghost: what the living framework has asked for
  told,        \* ghost: those who have heard the capabilities since they set their callback
  overtaken    \* ghost: a framework called before an obituary of another was handled

vars == <<framework, born, hal, api, base, sessions, binder, thread, msgs, adapter, want, told, overtaken>>
outside == <<framework, born, sessions, thread, adapter>>

Clients == {"gnss", "measurement"}
Nobody == 0
Frameworks == 1 .. MaxFrameworks
Nothing == [callback |-> FALSE, tracking |-> FALSE, measurements |-> FALSE]

(***************************************************************************)
(* The client base.  Both operators give the client and the messages after *)
(* the call.                                                               *)
(***************************************************************************)
startTracking(c, m) ==
  IF base[c].mTracking THEN [base |-> base[c], msgs |-> m, sessions |-> sessions]
  ELSE [base |-> [mTracking |-> TRUE, session |-> sessions + 1],
        msgs |-> Append(m, [type |-> "start", id |-> sessions + 1]),
        sessions |-> sessions + 1]

stopTracking(c, m) ==
  IF base[c].session = 0 THEN [base |-> base[c], msgs |-> m]
  ELSE [base |-> [base[c] EXCEPT !.mTracking = FALSE],
        msgs |-> Append(m, [type |-> "stop", id |-> base[c].session])]

\* locAPIEnable, locAPIDisable of the control client.
enable(m) == IF api.mEnabled THEN m ELSE Append(m, [type |-> "enable", id |-> 0])
disable(m) == IF api.mEnabled THEN Append(m, [type |-> "disable", id |-> 0]) ELSE m

\* What the API client registers: trackingCb if there is a callback, gnssNiCb unless the agent for the
\* extended capabilities answers NI requests (GnssAPIClient.cpp:97, 115).
isGnssClient(callback) == callback # Nobody \/ ~hal.extended

\* getApi creates the client, and createInstance requests the capabilities for a GNSS client.  Nothing
\* requests them later: updateCallbacks adds a client to the adapter and does not ask.
requests(callback) == ~hal.mApi /\ isGnssClient(callback)
getApi(callback, m) ==
  IF requests(callback) THEN Append(m, [type |-> "requestCapabilities", id |-> 0]) ELSE m

(***************************************************************************)
(* Calls of the framework.                                                 *)
(***************************************************************************)
Calls == framework # Nobody /\ binder = "idle" /\ Len(msgs) < MaxMsgs

\* There is a dead framework whose obituary has not been handled.
Obituaries == (hal.linked \union hal.measurementLinked) \ {framework}
overtakes == overtaken' = (overtaken \/ Obituaries # {})

\* Mutant: linkToDeath is left out.
linkNobody == {}

\* unlinkToDeath of the old callback, linkToDeath of the new one.
link == {framework}

\* Gnss::setCallback up to requestCapabilities.
setCallback ==
  /\ Calls
  /\ hal' = [hal EXCEPT !.mApi = TRUE, !.mGnssCbIface = framework, !.linked = link,
                        !.requested = @ \/ requests(framework)]
  /\ api' = [api EXCEPT !.mGnssCbIface = framework, !.mEnabled = TRUE]
  /\ msgs' = enable(getApi(framework, msgs))
  /\ binder' = "requestCapabilities"
  /\ want' = [want EXCEPT !.callback = TRUE]
  /\ told' = told \ {framework}
  /\ overtakes
  /\ UNCHANGED <<outside, base>>

\* Gnss::setGnssNiCb, possibly the first call: the API client exists without the other callback.
setGnssNiCb ==
  /\ Calls
  /\ hal' = [hal EXCEPT !.mApi = TRUE, !.requested = @ \/ requests(hal.mGnssCbIface)]
  /\ api' = [api EXCEPT !.mGnssCbIface = hal.mGnssCbIface]
  /\ msgs' = getApi(hal.mGnssCbIface, msgs)
  /\ overtakes
  /\ UNCHANGED <<outside, base, binder, want, told>>

\* GnssAPIClient::requestCapabilities on the binder thread: only if they are cached.
requestCapabilities ==
  /\ binder = "requestCapabilities"
  /\ binder' = "idle"
  /\ told' = IF api.cached THEN told \union {api.mGnssCbIface} ELSE told
  /\ UNCHANGED <<outside, hal, api, base, msgs, want, overtaken>>

start ==
  /\ Calls /\ want.callback /\ sessions < MaxSession
  /\ LET r == startTracking("gnss", msgs) IN
       base' = [base EXCEPT !["gnss"] = r.base] /\ msgs' = r.msgs /\ sessions' = r.sessions
  /\ want' = [want EXCEPT !.tracking = TRUE]
  /\ UNCHANGED <<framework, born, hal, api, binder, thread, adapter, told, overtaken>>

stop ==
  /\ Calls /\ want.callback
  /\ LET r == stopTracking("gnss", msgs) IN base' = [base EXCEPT !["gnss"] = r.base] /\ msgs' = r.msgs
  /\ want' = [want EXCEPT !.tracking = FALSE]
  /\ UNCHANGED <<outside, hal, api, binder, told, overtaken>>

\* As the framework does it, after stop.
cleanup ==
  /\ Calls /\ want.callback /\ ~want.tracking
  /\ msgs' = disable(msgs)
  /\ api' = [api EXCEPT !.mEnabled = FALSE]
  /\ want' = [want EXCEPT !.callback = FALSE]
  /\ UNCHANGED <<outside, hal, base, binder, told, overtaken>>

\* GnssMeasurement::setCallback; a second callback is refused with ERROR_ALREADY_INIT.
setMeasurementCallback ==
  /\ Calls /\ sessions < MaxSession
  /\ IF hal.mGnssMeasurementCbIface # Nobody
     THEN UNCHANGED <<hal, api, base, msgs, sessions>>
     ELSE LET r == startTracking("measurement", msgs) IN
          /\ hal' = [hal EXCEPT !.mGnssMeasurementCbIface = framework, !.measurementLinked = {framework}]
          /\ api' = [api EXCEPT !.mGnssMeasurementCbIface = framework]
          /\ base' = [base EXCEPT !["measurement"] = r.base] /\ msgs' = r.msgs /\ sessions' = r.sessions
  /\ want' = [want EXCEPT !.measurements = TRUE]
  /\ overtakes
  /\ UNCHANGED <<framework, born, binder, thread, adapter, told>>

\* Mutant: the callback stays, and with it the refusal of the next.
forgetNothing == hal.mGnssMeasurementCbIface

forget == Nobody

\* GnssMeasurement::close, what it does to the HAL's objects.
closeMeasurement ==
  /\ hal' = [hal EXCEPT !.mGnssMeasurementCbIface = forget, !.measurementLinked = {}]
  /\ LET r == stopTracking("measurement", msgs) IN
       base' = [base EXCEPT !["measurement"] = r.base] /\ msgs' = r.msgs

close ==
  /\ Calls
  /\ closeMeasurement
  /\ want' = [want EXCEPT !.measurements = FALSE]
  /\ overtakes
  /\ UNCHANGED <<outside, api, binder, told>>

(***************************************************************************)
(* Frameworks die and come back.                                           *)
(***************************************************************************)
dies ==
  /\ framework # Nobody
  /\ framework' = Nobody /\ want' = Nothing
  /\ UNCHANGED <<born, hal, api, base, sessions, binder, thread, msgs, adapter, told, overtaken>>

isBorn ==
  /\ framework = Nobody /\ born < MaxFrameworks
  /\ born' = born + 1 /\ framework' = born + 1
  /\ UNCHANGED <<hal, api, base, sessions, binder, thread, msgs, adapter, want, told, overtaken>>

\* Mutant: serviceDied stops, but does not clean up.
cleanupNothing(m) == m

cleanupDead(m) == disable(m)

\* GnssDeathRecipient::serviceDied: stop and cleanup.
gnssServiceDied ==
  /\ binder = "idle" /\ hal.linked \ {framework} # {}
  /\ hal' = [hal EXCEPT !.linked = @ \intersect {framework}]
  /\ LET r == stopTracking("gnss", msgs) IN
       base' = [base EXCEPT !["gnss"] = r.base] /\ msgs' = cleanupDead(r.msgs)
  /\ api' = [api EXCEPT !.mEnabled = FALSE]
  /\ UNCHANGED <<outside, binder, want, told, overtaken>>

\* GnssMeasurementDeathRecipient::serviceDied: close.
measurementServiceDied ==
  /\ binder = "idle" /\ hal.measurementLinked \ {framework} # {}
  /\ closeMeasurement
  /\ UNCHANGED <<outside, api, binder, want, told, overtaken>>

(***************************************************************************)
(* The adapter's thread.                                                   *)
(***************************************************************************)
\* Mutant: the capabilities are not cached.
cacheNothing == api.cached

cache == TRUE

\* onCapabilitiesCb notes that it has the capabilities before it looks whom to tell.
Handle ==
  /\ thread = "idle" /\ msgs # <<>>
  /\ LET m == Head(msgs) IN
     /\ adapter' = CASE m.type = "start"   -> [adapter EXCEPT !.sessions = @ \union {m.id}]
                     [] m.type = "stop"    -> [adapter EXCEPT !.sessions = @ \ {m.id}]
                     [] m.type = "enable"  -> [adapter EXCEPT !.vote = TRUE]
                     [] m.type = "disable" -> [adapter EXCEPT !.vote = FALSE]
                     [] OTHER -> adapter
     /\ IF m.type = "requestCapabilities"
        THEN api' = [api EXCEPT !.cached = cache] /\ thread' = "onCapabilitiesCb"
        ELSE UNCHANGED <<api, thread>>
  /\ msgs' = Tail(msgs)
  /\ UNCHANGED <<framework, born, hal, base, sessions, binder, want, told, overtaken>>

\* The rest of it, on the callback there is by now.
onCapabilitiesCb ==
  /\ thread = "onCapabilitiesCb"
  /\ thread' = "idle"
  /\ told' = IF api.mGnssCbIface = Nobody THEN told ELSE told \union {api.mGnssCbIface}
  /\ UNCHANGED <<framework, born, hal, api, base, sessions, binder, msgs, adapter, want, overtaken>>

Init ==
  /\ framework = Nobody /\ born = 0
  /\ \E extended \in BOOLEAN :
       hal = [mApi |-> FALSE, mGnssCbIface |-> Nobody, mGnssMeasurementCbIface |-> Nobody,
              linked |-> {}, measurementLinked |-> {}, extended |-> extended, requested |-> FALSE]
  /\ api = [mGnssCbIface |-> Nobody, mGnssMeasurementCbIface |-> Nobody, cached |-> FALSE, mEnabled |-> FALSE]
  /\ base = [c \in Clients |-> [mTracking |-> FALSE, session |-> 0]] /\ sessions = 0
  /\ binder = "idle" /\ thread = "idle" /\ msgs = <<>>
  /\ adapter = [sessions |-> {}, vote |-> FALSE]
  /\ want = Nothing /\ told = {} /\ overtaken = FALSE

Next ==
  \/ setCallback \/ setGnssNiCb \/ start \/ stop \/ cleanup \/ setMeasurementCallback \/ close
  \/ requestCapabilities \/ gnssServiceDied \/ measurementServiceDied
  \/ dies \/ isBorn \/ Handle \/ onCapabilitiesCb

Spec == Init /\ [][Next]_vars

-----------------------------------------------------------------------------
(***************************************************************************)
(* Properties.  They count when both threads have caught up.               *)
(***************************************************************************)
Quiet == binder = "idle" /\ thread = "idle" /\ msgs = <<>>
Runs(c) == base[c].session \in adapter.sessions

\* A framework that has set its callback hears the capabilities, whether the adapter answers before,
\* during or after: one thread sets the callback and then looks for cached capabilities, the other one
\* caches them and then looks for the callback (GnssAPIClient.cpp:278-296).
\* Premise: createInstance has requested them.  It has not if setGnssNiCb created the client and NI
\* requests are the extended agent's (GnssAPIClient.cpp:115, LocationAPI.cpp:61).
CapabilitiesTold ==
  Quiet /\ framework # Nobody /\ want.callback /\ hal.requested => framework \in told

\* Without the premise, as GnssAPIClient.cpp:279-280 has it ("the first time LocationAPI is initialized,
\* capabilities will be sent by LocationAPI") and LocationAPI.h:657-658 ("capabilities callback is called
\* once soon after createInstance is called"): each framework that sets its callback hears them.
EveryFrameworkTold == Quiet /\ framework # Nobody /\ want.callback => framework \in told

\* A dead framework leaves nothing behind once its obituaries have been handled: no session runs and
\* no power is voted for (Gnss.cpp:41-44, GnssMeasurement.cpp:37-39).
NothingForTheDead ==
  Quiet /\ framework = Nobody /\ Obituaries = {} => adapter.sessions = {} /\ ~adapter.vote

\* The adapter does what the framework wants, for that framework, whatever an earlier one wanted.
\* Premise: the obituaries of the earlier one were handled before its successor called; if not, its
\* session goes on, and the callback for measurements is refused or closed by the obituary.
WishesGranted ==
  Quiet /\ framework # Nobody /\ ~overtaken /\ Obituaries = {} =>
    /\ Runs("gnss") <=> want.tracking
    /\ Runs("measurement") <=> want.measurements
    /\ adapter.sessions \subseteq {base[c].session : c \in Clients}
    /\ adapter.vote <=> want.callback
    /\ want.callback => api.mGnssCbIface = framework
    /\ want.measurements => api.mGnssMeasurementCbIface = framework

\* Frameworks come and go; the adapter works for the one there is.
FrameworkServed == CapabilitiesTold /\ NothingForTheDead /\ WishesGranted
=============================================================================
