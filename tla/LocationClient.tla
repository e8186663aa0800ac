--------------------------- MODULE LocationClient ---------------------------
(***************************************************************************)
(* Requests and answers of a location client                               *)
(* (gps/location/LocationAPIClientBase.{h,cpp}).                           *)
(*                                                                         *)
(* A client object sends commands for sessions to an adapter and keeps, in *)
(* FIFO queues, the requests whose answers are to come.  An answer names a *)
(* session only; getRequestBySession finds the request it belongs to.  The *)
(* tracking and the NI queue hold the requests of one session at a time;   *)
(* all batching sessions share the session queue, and a dictionary says    *)
(* which of them the client knows.                                         *)
(*                                                                         *)
(* The subclass decides what is called: GnssAPIClient tracks and answers NI*)
(* notifications, BatchingAPIClient runs sessions.  Calls come from binder *)
(* threads and hold mMutex.  The adapter's thread takes the commands in    *)
(* order and calls back at once: it takes the request under mMutex, and    *)
(* runs its onResponse without, so a session may be removed in the middle  *)
(* of a call about it: such a call looks its id up in a step of its own.   *)
(* Tracking is the adapter of Tracking; batching is done by a library      *)
(* outside the repository, which answers as LocationAPI.h says.            *)
(* BatchingAPIClient starts and updates sessions of the batching modes     *)
(* only: what locAPIStartSession and the others do for SESSION_MODE_ON_FIX *)
(* nobody calls, and it is left out.                                       *)
(***************************************************************************)
EXTENDS Naturals, Sequences

CONSTANTS
  Roles,       \* subclasses: "gnss", "batching"
  BatchIds,    \* the ids BatchingAPIClient uses: mDefaultId
  NiIds,       \* ids of NI notifications
  None,        \* no request, answer or queue
  MaxSession,  \* bound: sessions started
  MaxRequests  \* bound: requests in a queue and commands under way when one more is made

ASSUME RolesAssumption == Roles \subseteq {"gnss", "batching"}
ASSUME NiAssumption == NiIds \subseteq Nat \ {0}
ASSUME BoundsAssumption == MaxSession \in Nat /\ MaxRequests \in Nat

Sessions == 1 .. MaxSession
QueueTypes == {"TRACKING", "SESSION", "NIRESPONSE"}
StartKinds == {"StartTracking", "StartBatching"}
StopKinds == {"StopTracking", "StopBatching"}
Kinds == StartKinds \cup StopKinds
           \cup {"UpdateTracking", "UpdateBatching", "GetBatchedLocations", "GnssNiResponse"}

VARIABLES
  role,
  mRequestQueues,  \* per queue: the session it is for and its requests
  mTracking,
  mSessionBiDict,  \* forward: id -> session, backward: session -> id
  call,            \* the call about a batching session that holds mMutex, or None
  commands,        \* calls of LocationAPI the adapter has not handled
  active,          \* sessions the adapter runs
  response,        \* the answer the adapter's thread is calling back with, or None
  request,         \* the request it found for it, or None
  started,         \* sessions started so far
  refused,         \* ghost: sessions the adapter failed to stop
  hasty            \* ghost: a batching call was made before a start or stop was answered

clientState == <<mRequestQueues, mTracking, mSessionBiDict, call, commands, started, hasty>>
adapterState == <<active, response, request, refused>>
vars == <<role, clientState, adapterState>>

\* A request: what was asked, and for which session (the object only knows the first).
Request(kind, session) == [kind |-> kind, session |-> session]
Requests == [kind : Kinds, session : Sessions \cup NiIds \cup {0}]

\* A command, with the request that waits for its answer (or None).
Command(kind, session, asks) == [kind |-> kind, session |-> session, asks |-> asks]
Ask(kind, session) == Command(kind, session, Request(kind, session))
Commands == [kind : Kinds, session : Sessions \cup NiIds \cup {0}, asks : Requests \cup {None}]
Responses == [command : Commands, ok : BOOLEAN]

\* A call: the session is looked up in a second step.
Calls == [kind : Kinds, id : BatchIds, session : Nat \cup {None}]

ASSUME NoneAssumption == None \notin Nat \cup QueueTypes \cup Requests \cup Responses \cup Calls

(***************************************************************************)
(* Request queues.                                                         *)
(***************************************************************************)
\* Mutant: the requests of the old session stay.
pushOnly(q, session, r) ==
  mRequestQueues' = [mRequestQueues EXCEPT ![q].session = session, ![q].requests = Append(@, r)]

resetAndPush(q, session, r) ==
  mRequestQueues' = [mRequestQueues EXCEPT ![q] = [session |-> session, requests |-> <<r>>]]

push(q, r) == mRequestQueues' = [mRequestQueues EXCEPT ![q].requests = Append(@, r)]

setSessionAndPush(q, session, r) ==
  mRequestQueues' = [mRequestQueues EXCEPT ![q] =
                       [session |-> session, requests |-> Append(@.requests, r)]]

\* One more command, and one more request in queue q.
RoomToSend == Len(commands) < MaxRequests
Room(q) == RoomToSend /\ Len(mRequestQueues[q].requests) < MaxRequests

(***************************************************************************)
(* The dictionary of sessions.                                             *)
(***************************************************************************)
hasId(id) == id \in DOMAIN mSessionBiDict.forward
hasSession(session) == session \in DOMAIN mSessionBiDict.backward
sessionOf(id) == mSessionBiDict.forward[id]

Without(f, x) == [y \in DOMAIN f \ {x} |-> f[y]]
With(f, x, v) == [y \in DOMAIN f \cup {x} |-> IF y = x THEN v ELSE f[y]]

dictSet(d, id, session) ==
  [forward |-> With(d.forward, id, session), backward |-> With(d.backward, session, id)]

\* Mutant: the session stays in the map from ids.
dictRmBackward(d, session) ==
  [forward |-> d.forward, backward |-> Without(d.backward, session)]

dictRmBySession(d, session) ==
  [forward |-> Without(d.forward, d.backward[session]), backward |-> Without(d.backward, session)]

\* The session of an id, 0 if it has none.
lookUp(d, id) == IF id \in DOMAIN d.forward THEN d.forward[id] ELSE 0

dictRmById(d, id) ==
  [forward |-> Without(d.forward, id), backward |-> Without(d.backward, lookUp(d, id))]

removeSession(session) ==
  mSessionBiDict' =
    IF hasSession(session) THEN dictRmBySession(mSessionBiDict, session) ELSE mSessionBiDict

-----------------------------------------------------------------------------
(***************************************************************************)
(* Tracking and NI responses: GnssAPIClient.                               *)
(***************************************************************************)

\* generateSessionId: never 0, and never the same twice.
NewSession(session) == started < MaxSession /\ session = started + 1 /\ started' = session

\* Mutant: mTracking is not asked.
startAnotherTracking ==
  /\ role = "gnss" /\ RoomToSend
  /\ \E session \in Sessions :
       /\ NewSession(session)
       /\ resetAndPush("TRACKING", session, Request("StartTracking", session))
       /\ commands' = Append(commands, Ask("StartTracking", session))
  /\ mTracking' = TRUE
  /\ UNCHANGED <<role, mSessionBiDict, call, hasty, adapterState>>

locAPIStartTracking ==
  /\ role = "gnss" /\ ~mTracking /\ RoomToSend
  /\ \E session \in Sessions :
       /\ NewSession(session)
       /\ resetAndPush("TRACKING", session, Request("StartTracking", session))
       /\ commands' = Append(commands, Ask("StartTracking", session))
  /\ mTracking' = TRUE
  /\ UNCHANGED <<role, mSessionBiDict, call, hasty, adapterState>>

locAPIStopTracking ==
  /\ role = "gnss" /\ Room("TRACKING")
  /\ LET session == mRequestQueues["TRACKING"].session IN
       /\ session > 0
       /\ push("TRACKING", Request("StopTracking", session))
       /\ commands' = Append(commands, Ask("StopTracking", session))
  /\ mTracking' = FALSE
  /\ UNCHANGED <<role, mSessionBiDict, call, started, hasty, adapterState>>

locAPIUpdateTrackingOptions ==
  /\ role = "gnss" /\ Room("TRACKING")
  /\ LET session == mRequestQueues["TRACKING"].session IN
       /\ session > 0
       /\ push("TRACKING", Request("UpdateTracking", session))
       /\ commands' = Append(commands, Ask("UpdateTracking", session))
  /\ UNCHANGED <<role, mTracking, mSessionBiDict, call, started, hasty, adapterState>>

\* The command is sent before the request is queued; mMutex keeps its answer away meanwhile.
locAPIGnssNiResponse(id) ==
  /\ role = "gnss" /\ RoomToSend
  /\ resetAndPush("NIRESPONSE", id, Request("GnssNiResponse", id))
  /\ commands' = Append(commands, Ask("GnssNiResponse", id))
  /\ UNCHANGED <<role, mTracking, mSessionBiDict, call, started, hasty, adapterState>>

-----------------------------------------------------------------------------
(***************************************************************************)
(* Batching sessions: BatchingAPIClient.                                   *)
(***************************************************************************)
\* A command for the session is sent and what its answer does has not been done.
UnderWay(kinds, session) ==
  \/ \E i \in DOMAIN commands : commands[i].kind \in kinds /\ commands[i].session = session
  \/ response # None /\ response.command.kind \in kinds /\ response.command.session = session

SessionCall ==
  /\ role = "batching" /\ call = None /\ Room("SESSION")
  /\ hasty' = (hasty \/ \E s \in Sessions : UnderWay(StartKinds \cup StopKinds, s))

\* With an id that is in use: LOCATION_ERROR_ALREADY_STARTED.
locAPIStartSession(id) ==
  /\ SessionCall /\ ~hasId(id)
  /\ \E session \in Sessions :
       /\ NewSession(session)
       /\ setSessionAndPush("SESSION", session, Request("StartBatching", session))
       /\ commands' = Append(commands, Ask("StartBatching", session))
       /\ mSessionBiDict' = dictSet(mSessionBiDict, id, session)
  /\ UNCHANGED <<role, mTracking, call, adapterState>>

\* With an id that is not in use: LOCATION_ERROR_ID_UNKNOWN.
askAboutSession(kind, id) ==
  /\ SessionCall /\ hasId(id)
  /\ call' = [kind |-> kind, id |-> id, session |-> None]
  /\ UNCHANGED <<role, mRequestQueues, mTracking, mSessionBiDict, commands, started, adapterState>>

locAPIStopSession(id) == askAboutSession("StopBatching", id)
locAPIUpdateSessionOptions(id) == askAboutSession("UpdateBatching", id)
locAPIGetBatchedLocations(id) == askAboutSession("GetBatchedLocations", id)

\* An id that was removed since is entered with session 0 by the look-up.
getExtById ==
  /\ call # None /\ call.session = None
  /\ LET session == lookUp(mSessionBiDict, call.id) IN
       /\ call' = [call EXCEPT !.session = session]
       /\ mSessionBiDict' = [mSessionBiDict EXCEPT !.forward = With(@, call.id, session)]
  /\ UNCHANGED <<role, mRequestQueues, mTracking, commands, started, hasty, adapterState>>

\* Mutant: a session that is stopped is forgotten at once.
forgetStopped(c) ==
  IF c.kind = "StopBatching" THEN removeSession(c.session) ELSE UNCHANGED mSessionBiDict

\* An update replaces the entry of the id by an equal one.
setSession(c) ==
  IF c.kind = "UpdateBatching"
  THEN mSessionBiDict' = dictSet(dictRmById(mSessionBiDict, c.id), c.id, c.session)
  ELSE UNCHANGED mSessionBiDict

askAdapter ==
  /\ call # None /\ call.session # None
  /\ push("SESSION", Request(call.kind, call.session))
  /\ commands' = Append(commands, Ask(call.kind, call.session))
  /\ setSession(call)
  /\ call' = None
  /\ UNCHANGED <<role, mTracking, started, hasty, adapterState>>

-----------------------------------------------------------------------------
(***************************************************************************)
(* The adapter's thread.                                                   *)
(***************************************************************************)
\* Tracking commands for a session that is not running are not answered; the batching ones
\* are, with LOCATION_ERROR_ID_UNKNOWN.
AnswersUnknown == {"StopBatching", "UpdateBatching", "GetBatchedLocations"}

handleStart(c, ok) ==
  /\ c.kind \in StartKinds
  /\ active' = IF ok THEN active \cup {c.session} ELSE active
  /\ response' = [command |-> c, ok |-> ok]
  /\ UNCHANGED refused

handleStop(c, ok) ==
  /\ c.kind \in StopKinds /\ c.session \in active
  /\ active' = IF ok THEN active \ {c.session} ELSE active
  /\ refused' = IF ok THEN refused ELSE refused \cup {c.session}
  /\ response' = [command |-> c, ok |-> ok]

handleOther(c, ok) ==
  /\ c.kind \notin StartKinds \cup StopKinds
  /\ c.kind # "GnssNiResponse" => c.session \in active
  /\ response' = [command |-> c, ok |-> ok]
  /\ UNCHANGED <<active, refused>>

handleUnknown(c) ==
  /\ c.kind \notin StartKinds \cup {"GnssNiResponse"} /\ c.session \notin active
  /\ response' = IF c.kind \in AnswersUnknown THEN [command |-> c, ok |-> FALSE] ELSE None
  /\ UNCHANGED <<active, refused>>

HandleCommand ==
  /\ commands # <<>> /\ response = None
  /\ commands' = Tail(commands)
  /\ LET c == Head(commands) IN
       \/ \E ok \in BOOLEAN : handleStart(c, ok) \/ handleStop(c, ok) \/ handleOther(c, ok)
       \/ handleUnknown(c)
  /\ UNCHANGED <<role, mRequestQueues, mTracking, mSessionBiDict, call, started, hasty, request>>

\* The queue a session's request is looked for in: the tracking and the NI queue by their
\* session, even if they are empty, then the session queue if the dictionary knows it.
SingleQueue(session) ==
  IF mRequestQueues["TRACKING"].session = session THEN "TRACKING"
  ELSE IF mRequestQueues["NIRESPONSE"].session = session THEN "NIRESPONSE"
  ELSE None

QueueFor(session) ==
  LET q == SingleQueue(session) IN
  IF q # None /\ mRequestQueues[q].requests # <<>> THEN q
  ELSE IF hasSession(session) /\ mRequestQueues["SESSION"].requests # <<>> THEN "SESSION"
  ELSE None

getRequestBySession ==
  /\ call = None /\ response # None /\ request = None
  /\ LET q == QueueFor(response.command.session) IN
       IF q = None
       THEN response' = None /\ UNCHANGED <<mRequestQueues, request>>
       ELSE /\ request' = Head(mRequestQueues[q].requests)
            /\ mRequestQueues' = [mRequestQueues EXCEPT ![q].requests = Tail(@)]
            /\ UNCHANGED response
  /\ UNCHANGED <<role, mTracking, mSessionBiDict, call, commands, started, hasty, active, refused>>

\* Mutant: a session whose start fails stays.
endsOnStopOnly(r, ok) == r.kind \in StopKinds /\ ok

\* What the answer means to the session: a failed start and a successful stop end it.
endsSession(r, ok) == IF r.kind \in StartKinds THEN ~ok ELSE r.kind \in StopKinds /\ ok

onResponse ==
  /\ request # None
  /\ IF endsSession(request, response.ok)
     THEN removeSession(response.command.session)
     ELSE UNCHANGED mSessionBiDict
  /\ response' = None /\ request' = None
  /\ UNCHANGED <<role, mRequestQueues, mTracking, call, commands, started, hasty, active, refused>>

-----------------------------------------------------------------------------
Init ==
  /\ role \in Roles
  /\ mRequestQueues = [q \in QueueTypes |-> [session |-> 0, requests |-> <<>>]]
  /\ mTracking = FALSE
  /\ mSessionBiDict = [forward |-> <<>>, backward |-> <<>>] /\ call = None
  /\ commands = <<>> /\ active = {} /\ response = None /\ request = None
  /\ started = 0 /\ refused = {} /\ hasty = FALSE

ClientThreads ==
  \/ locAPIStartTracking \/ locAPIStopTracking \/ locAPIUpdateTrackingOptions
  \/ \E id \in NiIds : locAPIGnssNiResponse(id)
  \/ \E id \in BatchIds :
       \/ locAPIStartSession(id) \/ locAPIStopSession(id)
       \/ locAPIUpdateSessionOptions(id) \/ locAPIGetBatchedLocations(id)
  \/ getExtById \/ askAdapter

AdapterThread == HandleCommand \/ getRequestBySession \/ onResponse

Next == ClientThreads \/ AdapterThread

Spec == Init /\ [][Next]_vars

-----------------------------------------------------------------------------
\* The answers of batching sessions are told apart by their order alone, and those of a session
\* that has ended are dropped with their requests left in the queue.  So a batching client has
\* to wait for the answer to a start or stop before it calls again; nothing in it makes it wait.

\* A session and an NI notification have this id.  Both are counted from 1 on (GnssAdapter.cpp,
\* LocAdapterBase.cpp), and the tracking queue is asked first: it answers for both.
Shared(id) == role = "gnss" /\ id \in NiIds /\ id <= started

\* Every answer is given to the request that asked for it (getRequestBySession), for any order
\* of commands, refused commands and commands nobody answers: the session id "is used ... in
\* the responseCallback to match command with response" (LocationAPI.h).  Only the answers that
\* name an id of a session and of a notification are not told apart; the requests they leave
\* and take never reach a later session.
AnswersMatch ==
  request # None /\ ~hasty /\ ~Shared(response.command.session) => request = response.command.asks

Known(session) == hasSession(session) \/ mRequestQueues["TRACKING"].session = session

\* A session the adapter runs can be stopped by the client: removeSession does not forget it
\* and the tracking queue is not reset to another one, unless a stop is under way or the
\* adapter failed to stop it.
NoRunawaySession ==
  ~hasty => \A s \in active : Known(s) \/ UnderWay(StopKinds, s) \/ s \in refused

\* The other way round, a session in the dictionary, for which locAPIStartSession refuses a
\* start as already started, runs or is about to be started or forgotten.
NoPhantomSession ==
  ~hasty => \A s \in DOMAIN mSessionBiDict.backward :
              s \in active \/ UnderWay(StartKinds \cup StopKinds, s)

\* The two maps of BiDict say the same, however sessions are set and replaced under mMutex and
\* removed without.  An id that was removed in the middle of a call is left with session 0.
DictionaryInverse ==
  /\ \A id \in DOMAIN mSessionBiDict.forward :
       \/ hasSession(sessionOf(id)) /\ mSessionBiDict.backward[sessionOf(id)] = id
       \/ hasty /\ sessionOf(id) = 0
  /\ \A s \in DOMAIN mSessionBiDict.backward :
       hasId(mSessionBiDict.backward[s]) /\ sessionOf(mSessionBiDict.backward[s]) = s

\* When all commands have been answered, no request of a batching session is left in the
\* shared queue (which is never reset) to be taken for one of the next session's.
NoRequestLeft ==
  commands = <<>> /\ response = None /\ ~hasty => mRequestQueues["SESSION"].requests = <<>>

\* The client's sessions and those the adapter runs are the same but for what is under way.
SessionsAgree == NoRunawaySession /\ NoPhantomSession /\ DictionaryInverse /\ NoRequestLeft
=============================================================================
