------------------------------ MODULE Tracking ------------------------------
(***************************************************************************)
(* Time-based tracking sessions (gps/gnss/GnssAdapter.cpp).                *)
(*                                                                         *)
(* Clients (LocationAPI objects) start, update and stop sessions.  The     *)
(* modem supports one session only, so the adapter multiplexes: it keeps   *)
(* every client's options and runs the engine with those that have the     *)
(* smallest interval.  Commands are messages of the adapter's queue, which *)
(* one thread takes off in order; removing a client stops its sessions one *)
(* by one.  The engine (LocApiBase and the modem) is external: a command   *)
(* may fail, and the engine may restart at any moment, which stops it and  *)
(* queues restartSessions.  The ULP proxy is the base one, which only takes*)
(* notes.                                                                  *)
(***************************************************************************)
EXTENDS Naturals, Sequences

CONSTANTS
  Clients,        \* LocationAPI objects
  Options,        \* LocationOptions: records with a minInterval (and a mode)
  Off,            \* the engine does not run
  EngineMayFail,  \* startFix() and stopFix() may fail
  MaxId,          \* bound: sessions started
  MaxMessages,    \* bound: messages queued when a client sends one more
  MaxRestarts     \* bound: engine restarts

ASSUME OptionsAssumption == \A o \in Options : o.minInterval \in Nat
ASSUME OffAssumption == Off \notin Options
ASSUME FailAssumption == EngineMayFail \in BOOLEAN
ASSUME TrackingBounds == MaxId \in Nat /\ MaxMessages \in Nat /\ MaxRestarts \in Nat

Ids == 1 .. MaxId
Results == IF EngineMayFail THEN BOOLEAN ELSE {TRUE}

VARIABLES
  mClientData,       \* per client: registered and with a tracking or measurements callback
  mTrackingSessions, \* session id -> options; its client is owner[id]
  engine,            \* the options startFix() was last given, or Off
  missed,            \* restartSessions could not restart the engine
  removing,          \* sessions the client being removed still has to stop
  messages,          \* the adapter's message queue
  alive,             \* clients that exist, as seen by their threads
  owner,             \* session id -> client
  lost,              \* sessions whose stop failed when their client was removed
  restarts

trackingVars ==
  <<mClientData, mTrackingSessions, engine, missed, removing, messages, alive, owner, lost, restarts>>

AddClient(c, cb) == [msg |-> "AddClient", client |-> c, callback |-> cb]
RemoveClient(c) == [msg |-> "RemoveClient", client |-> c]
StartTracking(id, o) == [msg |-> "StartTracking", id |-> id, options |-> o]
UpdateTracking(id, o) == [msg |-> "UpdateTracking", id |-> id, options |-> o]
StopTracking(id) == [msg |-> "StopTracking", id |-> id]
RestartSessions == [msg |-> "RestartSessions"]
TrackingMessage ==
  [msg : {"AddClient"}, client : Clients, callback : BOOLEAN]
    \cup [msg : {"RemoveClient"}, client : Clients]
    \cup [msg : {"StartTracking", "UpdateTracking"}, id : Ids, options : Options]
    \cup [msg : {"StopTracking"}, id : Ids]
    \cup {RestartSessions}

\* mClientData holds one of these for each client.
Registrations == {"none", "callback", "no callback"}

sessions == DOMAIN mTrackingSessions
interval(id) == mTrackingSessions[id].minInterval

\* The sessions of K the loop over the map may find to have the smallest interval; among
\* equals it takes the first one, and the order of the clients' addresses is arbitrary.
smallest(K) == {k \in K : \A j \in K : interval(k) <= interval(j)}

eraseTrackingSession(id) ==
  mTrackingSessions' = [k \in sessions \ {id} |-> mTrackingSessions[k]]

saveTrackingSession(id, o) ==
  mTrackingSessions' = [k \in sessions \cup {id} |-> IF k = id THEN o ELSE mTrackingSessions[k]]

-----------------------------------------------------------------------------
(***************************************************************************)
(* The engine and the multiplexers.  ok says whether the engine's call, if *)
(* there is one, succeeds.                                                 *)
(***************************************************************************)
startTracking(o, ok) ==
  /\ engine' = IF ok THEN o ELSE engine
  /\ missed' = (missed /\ ~ok)

stopTracking(ok) ==
  /\ engine' = IF ok THEN Off ELSE engine
  /\ missed' = (missed /\ ~ok)

keepRunning(ok) == ok /\ UNCHANGED <<engine, missed>>

startTrackingMultiplex(o, ok) ==
  IF sessions = {}
  THEN startTracking(o, ok)
  ELSE \E m \in smallest(sessions) :
         IF o.minInterval < interval(m) THEN startTracking(o, ok) ELSE keepRunning(ok)

\* Mutant: the case of the session that used to be the smallest is missing.
updateWithoutNext(id, o, ok) ==
  IF sessions = {id}
  THEN startTracking(o, ok)
  ELSE \E m \in smallest(sessions \ {id}) :
         IF o.minInterval < interval(m) THEN startTracking(o, ok) ELSE keepRunning(ok)

updateTrackingMultiplex(id, o, ok) ==
  IF sessions = {id}
  THEN startTracking(o, ok)
  ELSE \E m \in smallest(sessions \ {id}) :
         IF o.minInterval < interval(m) THEN startTracking(o, ok)
         ELSE IF interval(id) < interval(m) THEN startTracking(mTrackingSessions[m], ok)
         ELSE keepRunning(ok)

\* Mutant: the last session is recognised by an empty map, as if it were erased already.
stopWhenEmpty(id, ok) ==
  IF sessions = {}
  THEN stopTracking(ok)
  ELSE LET slower == {m \in smallest(sessions \ {id}) : interval(id) < interval(m)} IN
       \/ slower = {} /\ keepRunning(ok)
       \/ \E m \in slower : startTracking(mTrackingSessions[m], ok)

stopTrackingMultiplex(id, ok) ==
  IF sessions = {id}
  THEN stopTracking(ok)
  ELSE \E m \in smallest(sessions \ {id}) :
         IF interval(id) < interval(m) THEN startTracking(mTrackingSessions[m], ok)
         ELSE keepRunning(ok)

-----------------------------------------------------------------------------
(***************************************************************************)
(* The message thread.                                                     *)
(***************************************************************************)
Busy == removing # {}
Receives(kind) == ~Busy /\ messages # <<>> /\ Head(messages).msg = kind
TakeMessage == messages' = Tail(messages)
threads == <<alive, owner, restarts>>
outside == <<threads, lost>>

saveClient ==
  /\ Receives("AddClient")
  /\ TakeMessage
  /\ LET m == Head(messages) IN
       mClientData' = [mClientData EXCEPT ![m.client] =
                         IF m.callback THEN "callback" ELSE "no callback"]
  /\ UNCHANGED <<mTrackingSessions, engine, missed, removing, outside>>

\* Mutant: the client is erased and its sessions are forgotten.
eraseClientOnly ==
  /\ Receives("RemoveClient")
  /\ TakeMessage
  /\ mClientData' = [mClientData EXCEPT ![Head(messages).client] = "none"]
  /\ UNCHANGED <<mTrackingSessions, engine, missed, removing, outside>>

\* MsgRemoveClient: a client without sessions is erased at once; otherwise stopClientSessions
\* begins, and the client is erased with its last session.
removeClient ==
  /\ Receives("RemoveClient")
  /\ LET c == Head(messages).client IN
       IF \E id \in sessions : owner[id] = c
       THEN /\ removing' = {id \in sessions : owner[id] = c}
            /\ UNCHANGED <<mClientData, messages>>
       ELSE /\ mClientData' = [mClientData EXCEPT ![c] = "none"]
            /\ TakeMessage
            /\ UNCHANGED removing
  /\ UNCHANGED <<mTrackingSessions, engine, missed, outside>>

\* One turn of the loop of stopClientSessions.  A session whose stop fails is kept.
stopClientSession ==
  /\ Busy
  /\ \E id \in removing, ok \in Results :
       /\ \A j \in removing : id <= j
       /\ stopTrackingMultiplex(id, ok)
       /\ IF ok THEN eraseTrackingSession(id) ELSE UNCHANGED mTrackingSessions
       /\ removing' = removing \ {id}
       /\ lost' = IF ok THEN lost ELSE lost \cup {id}
       /\ IF removing = {id}
          THEN mClientData' = [mClientData EXCEPT ![Head(messages).client] = "none"] /\ TakeMessage
          ELSE UNCHANGED <<mClientData, messages>>
  /\ UNCHANGED threads

\* LOCATION_ERROR_CALLBACK_MISSING when the client has no callback; a client with one may have
\* given options whose size is 0, LOCATION_ERROR_INVALID_PARAMETER.
processStart ==
  /\ Receives("StartTracking")
  /\ TakeMessage
  /\ LET m == Head(messages) IN
       \/ UNCHANGED <<mTrackingSessions, engine, missed>>
       \/ /\ mClientData[owner[m.id]] = "callback"
          /\ \E ok \in Results :
               /\ startTrackingMultiplex(m.options, ok)
               /\ IF ok THEN saveTrackingSession(m.id, m.options) ELSE UNCHANGED mTrackingSessions
  /\ UNCHANGED <<mClientData, removing, outside>>

processUpdate ==
  /\ Receives("UpdateTracking")
  /\ TakeMessage
  /\ LET m == Head(messages) IN
       IF m.id \in sessions
       THEN \/ UNCHANGED <<mTrackingSessions, engine, missed>>  \* options.size = 0
            \/ \E ok \in Results :
                 /\ updateTrackingMultiplex(m.id, m.options, ok)
                 /\ IF ok THEN saveTrackingSession(m.id, m.options) ELSE UNCHANGED mTrackingSessions
       ELSE UNCHANGED <<mTrackingSessions, engine, missed>>
  /\ UNCHANGED <<mClientData, removing, outside>>

processStop ==
  /\ Receives("StopTracking")
  /\ TakeMessage
  /\ LET id == Head(messages).id IN
       IF id \in sessions
       THEN \E ok \in Results :
              /\ stopTrackingMultiplex(id, ok)
              /\ IF ok THEN eraseTrackingSession(id) ELSE UNCHANGED mTrackingSessions
       ELSE UNCHANGED <<mTrackingSessions, engine, missed>>
  /\ UNCHANGED <<mClientData, removing, outside>>

\* The result of startFix() is ignored.
restartSessions ==
  /\ Receives("RestartSessions")
  /\ TakeMessage
  /\ IF sessions = {}
     THEN UNCHANGED <<engine, missed>>
     ELSE \E m \in smallest(sessions), ok \in Results :
            /\ engine' = IF ok THEN mTrackingSessions[m] ELSE engine
            /\ missed' = ~ok
  /\ UNCHANGED <<mClientData, mTrackingSessions, removing, outside>>

-----------------------------------------------------------------------------
(***************************************************************************)
(* The clients' threads and the engine (external).                         *)
(***************************************************************************)
Send(m) == Len(messages) < MaxMessages /\ messages' = Append(messages, m)
inside == <<mClientData, mTrackingSessions, engine, missed, removing, lost>>

\* LocationAPI::createInstance and updateCallbacks.
ClientRegisters(c) ==
  /\ \E cb \in BOOLEAN : Send(AddClient(c, cb))
  /\ alive' = alive \cup {c}
  /\ UNCHANGED <<inside, owner, restarts>>

\* LocationAPI::destroy: the object is gone, its messages are not.
ClientDestroyed(c) ==
  /\ c \in alive
  /\ Send(RemoveClient(c))
  /\ alive' = alive \ {c}
  /\ UNCHANGED <<inside, owner, restarts>>

ClientStarts(c, o) ==
  /\ c \in alive
  /\ \E id \in Ids : /\ DOMAIN owner = 1 .. (id - 1)
                     /\ Send(StartTracking(id, o))
                     /\ owner' = [k \in 1 .. id |-> IF k = id THEN c ELSE owner[k]]
  /\ UNCHANGED <<inside, alive, restarts>>

ClientChanges(id) ==
  /\ owner[id] \in alive
  /\ \/ Send(StopTracking(id))
     \/ \E o \in Options : Send(UpdateTracking(id, o))
  /\ UNCHANGED <<inside, threads>>

\* The engine goes down and comes up again: handleEngineUpEvent.
EngineRestarts ==
  /\ restarts < MaxRestarts
  /\ engine' = Off
  /\ messages' = Append(messages, RestartSessions)
  /\ restarts' = restarts + 1
  /\ UNCHANGED <<mClientData, mTrackingSessions, missed, removing, alive, owner, lost>>

-----------------------------------------------------------------------------
TrackingInit ==
  /\ mClientData = [c \in Clients |-> "none"]
  /\ mTrackingSessions = [id \in {} |-> Off]
  /\ engine = Off /\ missed = FALSE /\ removing = {} /\ messages = <<>>
  /\ alive = {} /\ owner = [id \in {} |-> Off] /\ lost = {} /\ restarts = 0

MessageThread ==
  \/ saveClient \/ removeClient \/ stopClientSession
  \/ processStart \/ processUpdate \/ processStop \/ restartSessions

Environment ==
  \/ \E c \in Clients : ClientRegisters(c) \/ ClientDestroyed(c)
  \/ \E c \in Clients, o \in Options : ClientStarts(c, o)
  \/ \E id \in DOMAIN owner : ClientChanges(id)
  \/ EngineRestarts

TrackingNext == MessageThread \/ Environment

TrackingSpec == TrackingInit /\ [][TrackingNext]_trackingVars

\* The message thread never stops; clients and the engine owe nothing.
FairTracking == TrackingSpec /\ WF_trackingVars(MessageThread)

-----------------------------------------------------------------------------
TrackingTypeOK ==
  /\ mClientData \in [Clients -> Registrations]
  /\ sessions \subseteq DOMAIN owner
  /\ \A id \in sessions : mTrackingSessions[id] \in Options
  /\ engine \in Options \cup {Off}
  /\ missed \in BOOLEAN
  /\ removing \subseteq sessions
  /\ Busy => messages # <<>> /\ Head(messages).msg = "RemoveClient"
  /\ messages \in Seq(TrackingMessage)
  /\ \A i \in DOMAIN messages :
       messages[i].msg \in {"StartTracking", "UpdateTracking", "StopTracking"} =>
         messages[i].id \in DOMAIN owner
  /\ alive \subseteq Clients
  /\ DOMAIN owner \subseteq Ids
  /\ \A id \in DOMAIN owner : owner[id] \in Clients
  /\ lost \subseteq Ids
  /\ restarts \in 0 .. MaxRestarts

RestartPending == \E i \in DOMAIN messages : messages[i] = RestartSessions

\* Whatever sessions come, change, fail and go, the engine runs exactly when there is a
\* session, and with the smallest interval any of them asks for; only between a restart
\* of the engine and restartSessions, and after restartSessions failed, it may be off.
EngineAtSmallest ==
  RestartPending \/ missed \/
    IF sessions = {} THEN engine = Off
    ELSE /\ engine # Off
         /\ \A id \in sessions : engine.minInterval <= interval(id)
         /\ \E id \in sessions : engine.minInterval = interval(id)

\* A session belongs to a client that is registered, and can so still be stopped, unless
\* the engine refused to stop it when the client went.
NoOrphanSession == \A id \in sessions \ lost : mClientData[owner[id]] # "none"

\* When every client has gone for good, the engine stops, or goes on for a session that it
\* refused to stop.
EngineStopsAtLast == <>[](alive = {}) => <>[](engine = Off \/ sessions \cap lost # {})
=============================================================================
