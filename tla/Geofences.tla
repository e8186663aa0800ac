------------------------------ MODULE Geofences ------------------------------
(***************************************************************************)
(* Geofences of the framework (gps/android/GnssGeofencing.cpp,             *)
(* GeofenceAPIClient.cpp, the geofence calls of LocationAPIClientBase).    *)
(*                                                                         *)
(* The framework names a geofence with an id of its own.  The client keeps *)
(* a dictionary of ids and sessions, and one queue of requests, whatever   *)
(* the geofence: a collective answer belongs to the oldest request, and is *)
(* translated back to ids after mMutex has been released.  A removed       *)
(* geofence has left the dictionary by then, so its request takes the entry*)
(* along.                                                                  *)
(*                                                                         *)
(* The geofence adapter is a library outside the repository: it handles    *)
(* commands in order, answers each, and monitors what was added.           *)
(* GeofenceAPIClient never modifies a geofence and removes none at the     *)
(* framework's death; one geofence is named per call.                      *)
(***************************************************************************)
EXTENDS Naturals, Sequences

CONSTANTS Ids,          \* ids of the framework
          Breaches,     \* breach types: enter, exit
          None,         \* no answer under way
          MaxSession,   \* bound: sessions
          MaxCommands   \* bound: commands under way when one more is given

IdAssumption == Ids \subseteq Nat \ {0}
BoundAssumption == MaxSession \in Nat /\ MaxCommands \in Nat

VARIABLES mRequestQueue,    \* REQUEST_GEOFENCE
          mGeofenceBiDict,  \* session of an id, id and breach types of a session; 0 is none
          commands,         \* for the geofence adapter
          fences,           \* of the adapter: unknown, active, paused, gone, left (its removal failed)
          next,             \* sessions started
          response,         \* the answer of the adapter's thread, and the request it has taken
          breach,           \* the breach told last
          hasty,            \* ghost: a call for a geofence that has no answer yet, or that exists
          wanted            \* ghost: the breach types asked for last

vars == <<mRequestQueue, mGeofenceBiDict, commands, fences, next, response, breach, hasty, wanted>>
Sessions == 1 .. MaxSession

(***************************************************************************)
(* BiDict.                                                                 *)
(***************************************************************************)
emptyBiDict == [session |-> [i \in Ids |-> 0], id |-> [s \in Sessions |-> 0], ext |-> [s \in Sessions |-> {}]]

\* Mutant: the breach types of a known session are not replaced.
setOnce(dict, i, s, ext) ==
  [dict EXCEPT !.session[i] = s, !.id[s] = i, !.ext[s] = IF @ = {} THEN ext ELSE @]

set(dict, i, s, ext) ==
  [dict EXCEPT !.session[i] = s, !.id[s] = i, !.ext[s] = ext]
rmBySession(dict, s) ==
  [dict EXCEPT !.session[dict.id[s]] = 0, !.id[s] = 0, !.ext[s] = {}]

\* Mutant: the entry is not taken along.
removedNothing(i, s) == emptyBiDict

\* removedGeofenceBiDict.
removed(i, s) == set(emptyBiDict, i, s, mGeofenceBiDict.ext[s])

(***************************************************************************)
(* Calls of the framework; each holds mMutex from beginning to end.        *)
(***************************************************************************)
command(kind, s, i) == [kind |-> kind, session |-> s, of |-> i]
request(kind, dict) == [kind |-> kind, removed |-> dict]
Awaited(i) == (\E k \in DOMAIN commands : commands[k].of = i) \/ (response # None /\ response.of = i)

\* Mutant: the queue starts anew with every geofence.
queueReset == <<>>

\* The session of the queue is GEOFENCE_SESSION_ID from the first geofence on: no reset, and the
\* calls below that test it find nothing in the dictionary before.
queueKept == mRequestQueue

\* locAPIAddGeofences: the request is pushed after the command, the answer waits for mMutex.
geofenceAdd(i, types) ==
  LET s == next + 1 IN
  /\ next < MaxSession /\ Len(commands) < MaxCommands
  /\ next' = s
  /\ commands' = Append(commands, command("add", s, i))
  /\ mRequestQueue' = Append(queueKept, request("add", emptyBiDict))
  /\ mGeofenceBiDict' = set(mGeofenceBiDict, i, s, types)
  /\ wanted' = [wanted EXCEPT ![i] = types]
  /\ hasty' = (hasty \/ Awaited(i) \/ (mGeofenceBiDict.session[i] # 0 /\ fences[mGeofenceBiDict.session[i]] # "gone"))
  /\ UNCHANGED <<fences, response, breach>>

\* locAPIRemoveGeofences, locAPIPauseGeofences and locAPIResumeGeofences.
call(kind, i, types) ==
  LET s == mGeofenceBiDict.session[i] IN
  /\ s > 0 /\ Len(commands) < MaxCommands
  /\ mRequestQueue' = Append(mRequestQueue, request(kind, IF kind = "remove" THEN removed(i, s) ELSE emptyBiDict))
  /\ commands' = Append(commands, command(kind, s, i))
  /\ mGeofenceBiDict' = CASE kind = "remove" -> rmBySession(mGeofenceBiDict, s)
                          [] kind = "resume" -> set(mGeofenceBiDict, i, s, types)
                          [] kind = "pause"  -> mGeofenceBiDict
  /\ wanted' = IF kind = "resume" THEN [wanted EXCEPT ![i] = types] ELSE wanted
  /\ hasty' = (hasty \/ Awaited(i))
  /\ UNCHANGED <<fences, next, response, breach>>

geofencePause(i) == call("pause", i, {})
geofenceResume(i, types) == call("resume", i, types)
geofenceRemove(i) == call("remove", i, {})

(***************************************************************************)
(* The thread of the geofence adapter.                                     *)
(***************************************************************************)
\* External: the state of a geofence after a command that succeeds.
after(kind) == [add |-> "active", pause |-> "paused", resume |-> "active", remove |-> "gone"][kind]

\* The adapter handles a command; onCollectiveResponseCb takes the request, under mMutex.
onCollectiveResponseCb ==
  /\ response = None /\ commands # <<>>
  /\ LET c == Head(commands) IN
     \E ok \in BOOLEAN :
       /\ c.kind # "add" /\ fences[c.session] \in {"unknown", "gone"} => ~ok
       /\ fences' = IF ok THEN [fences EXCEPT ![c.session] = after(c.kind)]
                    ELSE [fences EXCEPT ![c.session] = CASE c.kind = "add" -> "gone"
                                                         [] c.kind = "remove" /\ @ \in {"active", "paused"} -> "left"
                                                         [] OTHER -> @]
       /\ response' = [kind |-> c.kind, session |-> c.session, of |-> c.of,
                       request |-> IF mRequestQueue = <<>> THEN request("none", emptyBiDict) ELSE Head(mRequestQueue)]
  /\ commands' = Tail(commands)
  /\ mRequestQueue' = IF mRequestQueue = <<>> THEN <<>> ELSE Tail(mRequestQueue)
  /\ UNCHANGED <<mGeofenceBiDict, next, breach, hasty, wanted>>

\* The id that onAddGeofencesCb and the others are called with.
answeredId(r) ==
  IF r.request.kind = "remove" THEN r.request.removed.id[r.session] ELSE mGeofenceBiDict.id[r.session]

\* onCollectiveResponse of the request, without mMutex.
onCollectiveResponse ==
  /\ response # None
  /\ response' = None
  /\ UNCHANGED <<mRequestQueue, mGeofenceBiDict, commands, fences, next, breach, hasty, wanted>>

\* Mutant: the type of the breach is not compared.
anyBreach(s, type) == mGeofenceBiDict.id[s] # 0

subscribed(s, type) == type \in mGeofenceBiDict.ext[s]

\* beforeGeofenceBreachCb, for an active geofence.
beforeGeofenceBreachCb(s, type) ==
  /\ response = None /\ fences[s] = "active"
  /\ subscribed(s, type)
  /\ breach' = [session |-> s, id |-> mGeofenceBiDict.id[s], wanted |-> type \in wanted[mGeofenceBiDict.id[s]]]
  /\ UNCHANGED <<mRequestQueue, mGeofenceBiDict, commands, fences, next, response, hasty, wanted>>

-----------------------------------------------------------------------------
Init ==
  /\ mRequestQueue = <<>> /\ mGeofenceBiDict = emptyBiDict /\ commands = <<>>
  /\ fences = [s \in Sessions |-> "unknown"]
  /\ next = 0 /\ response = None /\ breach = [session |-> 0, id |-> 0, wanted |-> TRUE]
  /\ hasty = FALSE /\ wanted = [i \in Ids |-> {}]

Next ==
  \/ \E i \in Ids, types \in SUBSET Breaches : geofenceAdd(i, types) \/ geofenceResume(i, types)
  \/ \E i \in Ids : geofencePause(i) \/ geofenceRemove(i)
  \/ onCollectiveResponseCb \/ onCollectiveResponse
  \/ \E s \in Sessions, type \in Breaches : beforeGeofenceBreachCb(s, type)

Spec == Init /\ [][Next]_vars

-----------------------------------------------------------------------------
(***************************************************************************)
(* Properties.                                                             *)
(***************************************************************************)
\* A collective answer, which names no call, finds the request of the call it answers: one queue
\* serves all geofences and all kinds of calls (locAPIAddGeofences keeps the queue, the others
\* push before they call).  It is a request of that kind; which one of several, the answer cannot say.
GeofenceAnswersMatch == response # None => response.request.kind = response.kind

\* The answer names the geofence of the call, even though it is translated after the dictionary
\* has changed.  Premise: the framework waits for an answer before it calls again for the same
\* geofence, and adds no geofence twice.
AnswersNameTheirGeofence == response # None /\ ~hasty => answeredId(response) = response.of

\* What the adapter monitors can be named: the dictionary has it in both directions with the
\* breach types of the last call, unless its removal is under way or has failed.  The same premise.
GeofenceReachable ==
  ~hasty => \A s \in Sessions : fences[s] \in {"active", "paused"} =>
    \/ \E k \in DOMAIN commands : commands[k].session = s /\ commands[k].kind = "remove"
    \/ response # None /\ response.session = s /\ response.kind = "remove"
    \/ /\ mGeofenceBiDict.id[s] # 0
       /\ mGeofenceBiDict.session[mGeofenceBiDict.id[s]] = s
       /\ mGeofenceBiDict.ext[s] = wanted[mGeofenceBiDict.id[s]]

\* A breach is told for a geofence the framework knows and for types it asked for
\* (beforeGeofenceBreachCb), unless it added the geofence twice.
BreachKnown == hasty \/ (breach.session # 0 => breach.id # 0 /\ breach.wanted)

\* Adapter and framework mean the same geofence, in answers and in breaches.
GeofencesNamed == GeofenceAnswersMatch /\ AnswersNameTheirGeofence /\ GeofenceReachable /\ BreachKnown
=============================================================================
