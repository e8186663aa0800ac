---------------------------- MODULE ClientRegistry ----------------------------
(***************************************************************************)
(* Clients and interfaces of the Location API (gps/location/               *)
(* LocationAPI.cpp) with the entry points of libgnss                       *)
(* (gps/gnss/location_gnss.cpp).                                           *)
(*                                                                         *)
(* gData holds the three interfaces, loaded when a client first needs one, *)
(* and the callbacks of the clients, under gDataMutex.  Calls become       *)
(* messages to the adapters, each with its own thread; which adapter has a *)
(* tracking session is not remembered, so that updates and stops go to two.*)
(*                                                                         *)
(* libflp and libgeofence are not in the repository: their adapters are    *)
(* taken to keep clients and sessions as GnssAdapter does, and to draw     *)
(* session ids from the same counter of LocAdapterBase.                    *)
(***************************************************************************)
EXTENDS Naturals, Sequences, FiniteSets

CONSTANTS Clients,        \* LocationAPI objects
          CallbackSets,   \* sets of callbacks a client may come with
          None,           \* no client data
          MaxId,          \* bound: sessions
          MaxMsgs,        \* bound: messages to the adapters
          MaxUpdates      \* bound: calls of updateCallbacks

BoundAssumption == MaxId \in Nat /\ MaxMsgs \in Nat /\ MaxUpdates \in Nat
NoneAssumption == None \notin Clients /\ None \notin CallbackSets

VARIABLES interface,    \* gData's interfaces: null, loaded, or failed for good (g...LoadFailed)
          clientData,   \* gData.clientData: callbacks of a client
          installed,    \* the libraries of this build
          queues,       \* messages to each adapter
          mClientData,  \* of each adapter: callbacks of a client
          sessions,     \* of all adapters
          lastId,       \* LocAdapterBase::mSessionIdCounter
          started,      \* ghost: who was created, how often updated; client and calls of an id
          answers,      \* ghost: answers to an id
          caps,         \* ghost: capabilities answers to a client
          shrunk        \* ghost: clients that needed an interface and no longer say so

vars == <<interface, clientData, installed, queues, mClientData, sessions, lastId,
          started, answers, caps, shrunk>>

Kinds == <<"gnss", "flp", "geofence">>
Adapters == {"gnss", "flp", "geofence"}
Ids == 1 .. MaxId

(***************************************************************************)
(* Which interface a set of callbacks needs.                               *)
(***************************************************************************)
needsGnssTrackingInfo(cbs) ==
  cbs \cap {"gnssLocationInfoCb", "gnssSvCb", "gnssNmeaCb", "gnssMeasurementsCb"} # {}

\* Mutant: a tracking client is one of libgnss alone.
needsTracked(cbs) ==
  {k \in Adapters : CASE k = "gnss"     -> cbs \cap {"gnssNiCb", "trackingCb", "gnssMeasurementsCb"} # {}
                      [] k = "flp"      -> "batchingCb" \in cbs
                      [] k = "geofence" -> cbs \cap {"geofenceBreachCb", "geofenceStatusCb"} # {}}

\* isGnssClient, isFlpClient, isGeofenceClient.
needs(cbs) ==
  {k \in Adapters : CASE k = "gnss"     -> cbs \cap {"gnssNiCb", "trackingCb", "gnssMeasurementsCb"} # {}
                      [] k = "flp"      -> cbs \cap {"trackingCb", "batchingCb"} # {}
                      [] k = "geofence" -> cbs \cap {"geofenceBreachCb", "geofenceStatusCb"} # {}}

\* loadLocationInterface, once for each kind.
load(cbs) ==
  [k \in Adapters |-> IF k \in needs(cbs) /\ interface[k] = "null"
                      THEN IF k \in installed THEN "loaded" ELSE "failed"
                      ELSE interface[k]]

(***************************************************************************)
(* Messages.                                                               *)
(***************************************************************************)
msg(op, c, id, cbs) == [op |-> op, client |-> c, id |-> id, cbs |-> cbs]
SumOver(q) == Len(q["gnss"]) + Len(q["flp"]) + Len(q["geofence"])
\* Each adapter gets some messages, in order, under gDataMutex.
post(to) == 
  /\ SumOver(queues) + SumOver(to) <= MaxMsgs
  /\ queues' = [k \in Adapters |-> queues[k] \o to[k]]
only(ks, m) == [k \in Adapters |-> IF k \in ks THEN <<m>> ELSE <<>>]
Idle == \A k \in Adapters : queues[k] = <<>>

\* Mutant: only libgnss is asked for the capabilities.
askGnss(ks) == ks \cap {"gnss"}

\* requestedCapabilities: the first of the interfaces the client is added to.
askFirst(ks) ==
  {k \in ks : \E i \in DOMAIN Kinds : Kinds[i] = k /\ \A j \in 1 .. i - 1 : Kinds[j] \notin ks}

Loaded(state, cbs) == {k \in needs(cbs) : state[k] = "loaded"}

\* createInstance; the three mandatory callbacks are there.
createInstance(c, cbs) ==
  LET to == Loaded(load(cbs), cbs) IN
  /\ clientData[c] = None /\ started["used"][c] = FALSE
  /\ interface' = load(cbs)
  /\ post([k \in Adapters |-> (IF k \in to THEN <<msg("add", c, 0, cbs)>> ELSE <<>>)
                              \o (IF k \in askFirst(to) THEN <<msg("capabilities", c, 0, {})>> ELSE <<>>)])
  /\ clientData' = [clientData EXCEPT ![c] = cbs]
  /\ started' = [started EXCEPT !["used"][c] = TRUE]
  /\ UNCHANGED <<installed, mClientData, sessions, lastId, answers, caps, shrunk>>

\* updateCallbacks: adds the client to what it needs now and forgets what it needed before.
updateCallbacks(c, cbs) ==
  /\ clientData[c] # None /\ cbs # clientData[c] /\ started["updates"] < MaxUpdates
  /\ interface' = load(cbs)
  /\ post(only(Loaded(load(cbs), cbs), msg("add", c, 0, cbs)))
  /\ clientData' = [clientData EXCEPT ![c] = cbs]
  /\ shrunk' = IF needs(clientData[c]) \subseteq needs(cbs) THEN shrunk ELSE shrunk \cup {c}
  /\ started' = [started EXCEPT !["updates"] = @ + 1]
  /\ UNCHANGED <<installed, mClientData, sessions, lastId, answers, caps>>

\* Mutant: a client is removed from the first interface that knows it.
removedFirst(c) == askFirst(Loaded(interface, clientData[c]))

\* ~LocationAPI: the interfaces that the last callbacks need.
removedFrom(c) == Loaded(interface, clientData[c])

\* The destructor.
destroy(c) ==
  /\ clientData[c] # None
  /\ post(only(removedFrom(c), msg("remove", c, 0, {})))
  /\ clientData' = [clientData EXCEPT ![c] = None]
  /\ UNCHANGED <<interface, installed, mClientData, sessions, lastId, started, answers, caps, shrunk>>

\* Mutant: each adapter counts its own sessions.
freshAmongOwn(k) == 1 + Cardinality({s \in sessions : s.kind = k})

\* generateSessionId: a counter of the process, whatever the adapter.
generateSessionId(k) == lastId + 1

\* A session is asked of an adapter; its id is returned at once.
ask(c, k, op) ==
  LET id == generateSessionId(k) IN
  /\ lastId < MaxId /\ interface[k] = "loaded"
  /\ lastId' = lastId + 1
  /\ post(only({k}, msg(op, c, id, {})))
  /\ started' = [started EXCEPT !["of"][id] = c,
                                !["batching"][id] = (op = "startBatching"),
                                !["owed"][id] = "trackingCb" \in clientData[c] /\ op = "start"]
  /\ UNCHANGED <<interface, clientData, installed, mClientData, sessions, answers, caps, shrunk>>

\* startTracking.
startTracking(c, minDistance) ==
  /\ clientData[c] # None
  /\ ask(c, IF interface["flp"] = "loaded" /\ minDistance > 0 THEN "flp"
            ELSE IF interface["gnss"] = "loaded" /\ needsGnssTrackingInfo(clientData[c]) THEN "gnss"
            ELSE IF interface["flp"] = "loaded" THEN "flp"
            ELSE "gnss", "start")

\* startBatching asks libflp, whoever loaded it.
startBatching(c) == clientData[c] # None /\ ask(c, "flp", "startBatching")

\* Mutant: a stop goes where a start would go.
stopLikeStart(c) == IF interface["flp"] = "loaded" THEN {"flp"} ELSE {"gnss"}

\* stopTracking: "we don't know if tracking was started on flp or gnss, so we call stop on both".
stopBoth(c) == {k \in {"gnss", "flp"} : interface[k] = "loaded"}

\* stopTracking and stopBatching of a session of the client, once.
stop(c, id) ==
  /\ clientData[c] # None /\ started["of"][id] = c /\ ~started["stopped"][id]
  /\ post(IF started["batching"][id] THEN only({"flp"}, msg("stopBatching", c, id, {}))
          ELSE only(stopBoth(c), msg("stop", c, id, {})))
  /\ started' = [started EXCEPT !["stopped"][id] = TRUE]
  /\ UNCHANGED <<interface, clientData, installed, mClientData, sessions, lastId, answers, caps, shrunk>>

(***************************************************************************)
(* The threads of the adapters.                                            *)
(***************************************************************************)
session(k, m) == [id |-> m.id, client |-> m.client, kind |-> k]

\* hasTrackingCallback or hasMeasurementsCallback; batching is libflp's.
hasCallback(k, m) ==
  /\ mClientData[k][m.client] # None
  /\ mClientData[k][m.client] \cap (IF m.op = "startBatching" THEN {"batchingCb"}
                                    ELSE {"trackingCb", "gnssMeasurementsCb"}) # {}

\* reportResponse: only a client the adapter knows is answered.
respond(k, m) == answers' = IF mClientData[k][m.client] # None THEN [answers EXCEPT ![m.id] = @ + 1] ELSE answers

saveClient(k, m) ==
  /\ m.op = "add"
  /\ mClientData' = [mClientData EXCEPT ![k][m.client] = m.cbs]
  /\ UNCHANGED <<sessions, answers, caps>>

requestCapabilities(k, m) ==
  /\ m.op = "capabilities"
  /\ caps' = IF mClientData[k][m.client] # None THEN [caps EXCEPT ![m.client] = @ + 1] ELSE caps
  /\ UNCHANGED <<mClientData, sessions, answers>>

\* stopClientSessions and eraseClient.
eraseClient(k, m) ==
  /\ m.op = "remove"
  /\ mClientData' = [mClientData EXCEPT ![k][m.client] = None]
  /\ sessions' = {s \in sessions : ~(s.kind = k /\ s.client = m.client)}
  /\ UNCHANGED <<answers, caps>>

startSession(k, m) ==
  /\ m.op \in {"start", "startBatching"}
  /\ sessions' = IF hasCallback(k, m) THEN sessions \cup {session(k, m)} ELSE sessions
  /\ respond(k, m)
  /\ UNCHANGED <<mClientData, caps>>

\* "we do not reportResponse for the case where there is no existing tracking session".
stopSession(k, m) ==
  /\ m.op \in {"stop", "stopBatching"}
  /\ sessions' = sessions \ {session(k, m)}
  /\ IF session(k, m) \in sessions THEN respond(k, m) ELSE UNCHANGED answers
  /\ UNCHANGED <<mClientData, caps>>

handle(k) ==
  /\ queues[k] # <<>>
  /\ queues' = [queues EXCEPT ![k] = Tail(@)]
  /\ LET m == Head(queues[k]) IN
     saveClient(k, m) \/ requestCapabilities(k, m) \/ eraseClient(k, m) \/ startSession(k, m) \/ stopSession(k, m)
  /\ UNCHANGED <<interface, clientData, installed, lastId, started, shrunk>>

-----------------------------------------------------------------------------
Init ==
  /\ interface = [k \in Adapters |-> "null"] /\ clientData = [c \in Clients |-> None]
  /\ installed \in SUBSET Adapters
  /\ queues = [k \in Adapters |-> <<>>] /\ mClientData = [k \in Adapters |-> [c \in Clients |-> None]]
  /\ sessions = {} /\ lastId = 0
  /\ started = [used |-> [c \in Clients |-> FALSE], of |-> [i \in Ids |-> None],
                updates |-> 0, stopped |-> [i \in Ids |-> FALSE],
                batching |-> [i \in Ids |-> FALSE], owed |-> [i \in Ids |-> FALSE]]
  /\ answers = [i \in Ids |-> 0] /\ caps = [c \in Clients |-> 0] /\ shrunk = {}

Next ==
  \/ \E c \in Clients, cbs \in CallbackSets : createInstance(c, cbs) \/ updateCallbacks(c, cbs)
  \/ \E c \in Clients : destroy(c) \/ startBatching(c)
  \/ \E c \in Clients, d \in {0, 1} : startTracking(c, d)
  \/ \E c \in Clients, id \in Ids : stop(c, id)
  \/ \E k \in Adapters : handle(k)

Spec == Init /\ [][Next]_vars

-----------------------------------------------------------------------------
(***************************************************************************)
(* Properties.                                                             *)
(***************************************************************************)
\* One call is answered at most once, though a stop is sent to two adapters: session ids are
\* unique among the adapters of the process (generateSessionId), and only the owner answers.
AnsweredOnce == \A id \in Ids : answers[id] <= IF started["stopped"][id] THEN 2 ELSE 1

\* A client with a tracking callback is answered to every start, whichever interface the start is
\* routed to: it is registered wherever startTracking may send it.
StartAnswered == Idle => \A id \in Ids : started["owed"][id] => answers[id] > 0

\* A client that is owed the answer to a start is answered to the stop of the session too, by one of the
\* two adapters that are asked to stop it, whatever was loaded or updated in between.
StopAnswered == Idle => \A id \in Ids : started["owed"][id] /\ started["stopped"][id] => answers[id] = 2

\* What LocationAPI.h says of stopTracking: the response is that of the stop, or ID_UNKNOWN if the id is
\* not that of a tracking session.  The code does not keep it: the stop of a session that was refused,
\* for want of a trackingCb, finds nothing and is not answered.
EveryStopAnswered == Idle => \A id \in Ids : started["stopped"][id] /\ answers[id] > 0 => answers[id] = 2

\* A session that its client has stopped runs nowhere once the adapters have caught up, although
\* the interfaces loaded may have changed between start and stop.
NoStoppedSession == Idle => \A s \in sessions : ~started["stopped"][s.id]

\* Once the adapters have caught up, an adapter knows no client that was destroyed and runs no
\* session of one.  Premise: the callbacks of the client never ceased to need an interface; the
\* destructor removes the client only from those of its last callbacks.
NoGhostClient ==
  Idle => \A c \in Clients \ shrunk : clientData[c] = None =>
    /\ \A k \in Adapters : mClientData[k][c] = None
    /\ \A s \in sessions : s.client # c

\* A new client that asks for the capabilities is told them once, if any interface it needs is there;
\* what GnssAdapter tells all clients when SUPL_MODE changes is not counted.  Premise: no callbacks
\* were updated; updateCallbacks asks for no capabilities, not even of a first interface.
ToldCapabilitiesOnce ==
  \A c \in Clients :
    /\ caps[c] <= 1
    /\ Idle /\ clientData[c] # None /\ started["updates"] = 0 /\ (\E k \in Adapters : mClientData[k][c] # None)
         => caps[c] = 1

\* Clients get the answers they are owed, each once.
RequestsAnswered == AnsweredOnce /\ StartAnswered /\ StopAnswered /\ ToldCapabilitiesOnce

\* Stopping and destroying reach every adapter that has to know.
NothingLeftBehind == NoStoppedSession /\ NoGhostClient
=============================================================================
