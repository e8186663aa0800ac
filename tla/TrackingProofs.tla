--------------------------- MODULE TrackingProofs ---------------------------
(***************************************************************************)
(* Proofs about Tracking, for any clients, options, intervals and number   *)
(* of sessions: type correctness, that the engine runs exactly when there  *)
(* is a session and with the smallest interval, and that no session        *)
(* outlives its client unless the engine refused to stop it.               *)
(***************************************************************************)
EXTENDS Tracking, TLAPS

USE OptionsAssumption, OffAssumption, FailAssumption, TrackingBounds
USE DEF Ids, TrackingMessage, RestartSessions, Registrations, sessions, interval

StartKinds == {"StartTracking", "UpdateTracking", "StopTracking"}

\* The part of TrackingTypeOK that is about the queue.
QueueOK ==
  /\ messages \in Seq(TrackingMessage)
  /\ \A i \in DOMAIN messages : messages[i].msg \in StartKinds => messages[i].id \in DOMAIN owner

\* What each kind of message carries.
LEMMA MessageFields ==
  ASSUME NEW m \in TrackingMessage
  PROVE  /\ m.msg \in {"AddClient", "RemoveClient"} => m.client \in Clients
         /\ m.msg \in StartKinds => m.id \in Ids
         /\ m.msg \in {"StartTracking", "UpdateTracking"} => m.options \in Options
  BY DEF StartKinds

\* The sessions of K with the smallest interval are sessions of K.
LEMMA SmallestTyping == \A K : smallest(K) \subseteq K
  BY DEF smallest

LEMMA ConsumeQueue ==
  ASSUME QueueOK, messages # <<>>, TakeMessage
  PROVE  /\ messages' \in Seq(TrackingMessage)
         /\ Head(messages) \in TrackingMessage
         /\ Head(messages).msg \in StartKinds => Head(messages).id \in DOMAIN owner
         /\ \A i \in DOMAIN messages' : messages'[i].msg \in StartKinds => messages'[i].id \in DOMAIN owner
<1>1. messages' \in Seq(TrackingMessage) /\ Head(messages) \in TrackingMessage /\ Head(messages) = messages[1] /\ 1 \in DOMAIN messages
  BY DEF QueueOK, TakeMessage
<1>2. \A i \in DOMAIN messages' : i + 1 \in DOMAIN messages /\ messages'[i] = messages[i + 1]
  BY DEF QueueOK, TakeMessage
<1> QED
  BY <1>1, <1>2 DEF QueueOK

LEMMA AppendQueue ==
  ASSUME QueueOK, NEW m \in TrackingMessage, messages' = Append(messages, m),
         DOMAIN owner \subseteq DOMAIN owner',
         m.msg \in StartKinds => m.id \in DOMAIN owner'
  PROVE  QueueOK'
<1>1. messages' \in Seq(TrackingMessage)
  BY DEF QueueOK
<1>2. \A i \in DOMAIN messages' :
        \/ i \in DOMAIN messages /\ messages'[i] = messages[i]
        \/ messages'[i] = m
  BY DEF QueueOK
<1> QED
  BY <1>1, <1>2 DEF QueueOK

\* Whatever a multiplexer decides, the engine runs with options or not at all.
LEMMA MultiplexTyping ==
  ASSUME TrackingTypeOK, NEW ok \in BOOLEAN, NEW o \in Options, NEW id \in Ids,
         \/ startTrackingMultiplex(o, ok)
         \/ updateTrackingMultiplex(id, o, ok)
         \/ id \in sessions /\ stopTrackingMultiplex(id, ok)
  PROVE  engine' \in Options \cup {Off} /\ missed' \in BOOLEAN
<1> USE DEF startTracking, stopTracking, keepRunning, TrackingTypeOK
<1>1. CASE startTrackingMultiplex(o, ok)
  BY <1>1 DEF startTrackingMultiplex
<1>2. CASE updateTrackingMultiplex(id, o, ok)
  BY <1>2 DEF updateTrackingMultiplex, smallest
<1>3. CASE stopTrackingMultiplex(id, ok)
  BY <1>3 DEF stopTrackingMultiplex, smallest
<1> QED
  BY <1>1, <1>2, <1>3

LEMMA ResultsTyping == Results \subseteq BOOLEAN
  BY DEF Results

\* Saving and erasing a session.
LEMMA SaveTyping ==
  ASSUME TrackingTypeOK, NEW id \in DOMAIN owner, NEW o \in Options, saveTrackingSession(id, o)
  PROVE  /\ sessions' = sessions \cup {id}
         /\ \A k \in sessions' : mTrackingSessions'[k] = IF k = id THEN o ELSE mTrackingSessions[k]
         /\ \A k \in sessions' : mTrackingSessions'[k] \in Options
  BY DEF saveTrackingSession, TrackingTypeOK

LEMMA EraseTyping ==
  ASSUME TrackingTypeOK, NEW id, eraseTrackingSession(id)
  PROVE  /\ sessions' = sessions \ {id}
         /\ \A k \in sessions' : mTrackingSessions'[k] = mTrackingSessions[k]
         /\ \A k \in sessions' : mTrackingSessions'[k] \in Options
  BY DEF eraseTrackingSession, TrackingTypeOK

\* Every message, session and registration keeps its type, and a client is being removed
\* only while its message is at the head of the queue.
THEOREM TypeCorrect == TrackingSpec => []TrackingTypeOK
<1>1. TrackingInit => TrackingTypeOK
  <2> SUFFICES ASSUME TrackingInit PROVE TrackingTypeOK
    OBVIOUS
  <2>1. sessions = {} /\ DOMAIN owner = {} /\ messages = <<>> /\ removing = {}
    BY DEF TrackingInit
  <2>2. mClientData \in [Clients -> Registrations] /\ restarts \in 0 .. MaxRestarts
    BY DEF TrackingInit
  <2>6. lost = {}
    BY DEF TrackingInit
  <2>3. messages \in Seq(TrackingMessage) /\ ~Busy
    BY <2>1 DEF Busy
  <2>4. \A i \in DOMAIN messages : FALSE
    BY <2>1
  <2>5. engine = Off /\ missed = FALSE /\ alive = {}
    BY DEF TrackingInit
  <2> QED
    BY <2>1, <2>2, <2>3, <2>4, <2>5, <2>6 DEF TrackingTypeOK
<1>2. TrackingTypeOK /\ [TrackingNext]_trackingVars => TrackingTypeOK'
  <2> SUFFICES ASSUME TrackingTypeOK, [TrackingNext]_trackingVars PROVE TrackingTypeOK'
    OBVIOUS
  <2>0. QueueOK
    BY DEF TrackingTypeOK, QueueOK, StartKinds
  <2> USE DEF threads, outside, inside
  <2>1. CASE saveClient
    <3>1. Head(messages).client \in Clients /\ ~Busy
      BY <2>0, <2>1, ConsumeQueue, MessageFields DEF saveClient, Receives
    <3> QED
      BY <2>0, <2>1, <3>1, ConsumeQueue DEF saveClient, Receives, TrackingTypeOK, StartKinds, Busy
  <2>2. CASE removeClient
    <3>1. Head(messages).client \in Clients /\ messages # <<>>
      BY <2>0, <2>2, MessageFields DEF removeClient, Receives, QueueOK
    <3>2. CASE \E id \in sessions : owner[id] = Head(messages).client
      BY <2>2, <3>1, <3>2 DEF removeClient, Receives, TrackingTypeOK, Busy
    <3>3. CASE ~\E id \in sessions : owner[id] = Head(messages).client
      BY <2>0, <2>2, <3>1, <3>3, ConsumeQueue
      DEF removeClient, Receives, TrackingTypeOK, StartKinds, Busy
    <3> QED
      BY <3>2, <3>3
  <2>3. CASE stopClientSession
    <3>1. PICK id \in removing, ok \in Results :
            /\ stopTrackingMultiplex(id, ok)
            /\ IF ok THEN eraseTrackingSession(id) ELSE UNCHANGED mTrackingSessions
            /\ removing' = removing \ {id}
            /\ lost' = IF ok THEN lost ELSE lost \cup {id}
            /\ IF removing = {id}
               THEN mClientData' = [mClientData EXCEPT ![Head(messages).client] = "none"] /\ TakeMessage
               ELSE UNCHANGED <<mClientData, messages>>
      BY <2>3 DEF stopClientSession
    <3>2. id \in sessions /\ id \in Ids /\ ok \in BOOLEAN
      BY <3>1, ResultsTyping DEF TrackingTypeOK
    <3>3. \A o \in Options : engine' \in Options \cup {Off} /\ missed' \in BOOLEAN
      BY <3>1, <3>2, MultiplexTyping
    <3>4. mTrackingSessions[id] \in Options
      BY <3>2 DEF TrackingTypeOK
    <3>5. /\ sessions' \subseteq DOMAIN owner /\ removing' \subseteq sessions'
          /\ \A k \in sessions' : mTrackingSessions'[k] \in Options
      BY <3>1, EraseTyping DEF TrackingTypeOK
    <3>6. /\ mClientData' \in [Clients -> Registrations] /\ messages' \in Seq(TrackingMessage)
          /\ \A i \in DOMAIN messages' : messages'[i].msg \in StartKinds => messages'[i].id \in DOMAIN owner
          /\ Busy' => messages' # <<>> /\ Head(messages').msg = "RemoveClient"
      <4>1. messages # <<>> /\ Head(messages).msg = "RemoveClient"
        BY <2>3 DEF stopClientSession, TrackingTypeOK
      <4>2. Head(messages) \in TrackingMessage
        BY <2>0, <4>1 DEF QueueOK
      <4>3. CASE removing = {id}
        BY <2>0, <3>1, <4>1, <4>2, <4>3, ConsumeQueue DEF TrackingTypeOK, Busy
      <4>4. CASE removing # {id}
        BY <2>0, <3>1, <4>1, <4>4 DEF TrackingTypeOK, QueueOK
      <4> QED
        BY <4>3, <4>4
    <3>7. lost' \subseteq Ids
      BY <3>1, <3>2 DEF TrackingTypeOK
    <3> QED
      BY <2>3, <3>3, <3>4, <3>5, <3>6, <3>7 DEF stopClientSession, TrackingTypeOK, StartKinds
  <2>4. CASE processStart
    <3> DEFINE m == Head(messages)
    <3>1. m.id \in DOMAIN owner /\ m.options \in Options /\ m.id \in Ids /\ ~Busy
      BY <2>0, <2>4, ConsumeQueue, MessageFields DEF processStart, Receives, StartKinds
    <3>2. engine' \in Options \cup {Off} /\ missed' \in BOOLEAN
      BY <2>4, <3>1, MultiplexTyping, ResultsTyping DEF processStart, TrackingTypeOK
    <3>3. sessions' \subseteq DOMAIN owner /\ \A k \in sessions' : mTrackingSessions'[k] \in Options
      <4>1. saveTrackingSession(m.id, m.options) \/ UNCHANGED mTrackingSessions
        BY <2>4 DEF processStart
      <4>2. CASE saveTrackingSession(m.id, m.options)
        <5>1. /\ sessions' = sessions \cup {m.id}
              /\ \A k \in sessions' : mTrackingSessions'[k] \in Options
          BY <3>1, <4>2, SaveTyping
        <5> QED
          BY <3>1, <5>1 DEF TrackingTypeOK
      <4>3. CASE UNCHANGED mTrackingSessions
        BY <4>3 DEF TrackingTypeOK
      <4> QED
        BY <4>1, <4>2, <4>3
    <3> QED
      BY <2>0, <2>4, <3>1, <3>2, <3>3, ConsumeQueue
      DEF processStart, Receives, TrackingTypeOK, StartKinds, Busy
  <2>5. CASE processUpdate
    <3> DEFINE m == Head(messages)
    <3>1. m.id \in DOMAIN owner /\ m.options \in Options /\ m.id \in Ids /\ ~Busy
      BY <2>0, <2>5, ConsumeQueue, MessageFields DEF processUpdate, Receives, StartKinds
    <3>2. engine' \in Options \cup {Off} /\ missed' \in BOOLEAN
      BY <2>5, <3>1, MultiplexTyping, ResultsTyping DEF processUpdate, TrackingTypeOK
    <3>3. sessions' \subseteq DOMAIN owner /\ \A k \in sessions' : mTrackingSessions'[k] \in Options
      <4>1. saveTrackingSession(m.id, m.options) \/ UNCHANGED mTrackingSessions
        BY <2>5 DEF processUpdate
      <4>2. CASE saveTrackingSession(m.id, m.options)
        <5>1. /\ sessions' = sessions \cup {m.id}
              /\ \A k \in sessions' : mTrackingSessions'[k] \in Options
          BY <3>1, <4>2, SaveTyping
        <5> QED
          BY <3>1, <5>1 DEF TrackingTypeOK
      <4>3. CASE UNCHANGED mTrackingSessions
        BY <4>3 DEF TrackingTypeOK
      <4> QED
        BY <4>1, <4>2, <4>3
    <3> QED
      BY <2>0, <2>5, <3>1, <3>2, <3>3, ConsumeQueue
      DEF processUpdate, Receives, TrackingTypeOK, StartKinds, Busy
  <2>6. CASE processStop
    <3> DEFINE id == Head(messages).id
    <3>1. id \in DOMAIN owner /\ id \in Ids /\ ~Busy
      BY <2>0, <2>6, ConsumeQueue, MessageFields DEF processStop, Receives, StartKinds
    <3>2. engine' \in Options \cup {Off} /\ missed' \in BOOLEAN
      <4>1. CASE id \in sessions
        <5>1. mTrackingSessions[id] \in Options
          BY <4>1 DEF TrackingTypeOK
        <5> QED
          BY <2>6, <3>1, <4>1, <5>1, MultiplexTyping, ResultsTyping DEF processStop
      <4>2. CASE id \notin sessions
        BY <2>6, <4>2 DEF processStop, TrackingTypeOK
      <4> QED
        BY <4>1, <4>2
    <3>3. sessions' \subseteq DOMAIN owner /\ \A k \in sessions' : mTrackingSessions'[k] \in Options
      BY <2>6, <3>1, EraseTyping DEF processStop, TrackingTypeOK
    <3> QED
      BY <2>0, <2>6, <3>1, <3>2, <3>3, ConsumeQueue
      DEF processStop, Receives, TrackingTypeOK, StartKinds, Busy
  <2>7. CASE restartSessions
    <3>1. engine' \in Options \cup {Off} /\ missed' \in BOOLEAN /\ ~Busy
      BY <2>7, ResultsTyping DEF restartSessions, Receives, TrackingTypeOK, smallest
    <3> QED
      BY <2>0, <2>7, <3>1, ConsumeQueue DEF restartSessions, Receives, TrackingTypeOK, StartKinds, Busy
  <2>8. ASSUME NEW c \in Clients, ClientRegisters(c) \/ ClientDestroyed(c) PROVE TrackingTypeOK'
    <3>1. PICK m \in TrackingMessage : messages' = Append(messages, m) /\ m.msg \notin StartKinds
      <4>1. \A cb \in BOOLEAN : AddClient(c, cb) \in TrackingMessage /\ AddClient(c, cb).msg \notin StartKinds
        BY DEF AddClient, StartKinds
      <4>2. RemoveClient(c) \in TrackingMessage /\ RemoveClient(c).msg \notin StartKinds
        BY DEF RemoveClient, StartKinds
      <4> QED
        BY <2>8, <4>1, <4>2 DEF ClientRegisters, ClientDestroyed, Send
    <3>2. QueueOK'
      BY <2>0, <2>8, <3>1, AppendQueue DEF ClientRegisters, ClientDestroyed
    <3>3. messages # <<>> => Head(messages') = Head(messages) /\ messages' # <<>>
      BY <2>0, <3>1 DEF QueueOK
    <3> QED
      BY <2>8, <3>2, <3>3 DEF ClientRegisters, ClientDestroyed, QueueOK, StartKinds, TrackingTypeOK, Busy
  <2>9. ASSUME NEW c \in Clients, NEW o \in Options, ClientStarts(c, o) PROVE TrackingTypeOK'
    <3>1. PICK id \in Ids : /\ DOMAIN owner = 1 .. (id - 1)
                            /\ messages' = Append(messages, StartTracking(id, o))
                            /\ owner' = [k \in 1 .. id |-> IF k = id THEN c ELSE owner[k]]
      BY <2>9 DEF ClientStarts, Send
    <3>2. DOMAIN owner \subseteq DOMAIN owner' /\ id \in DOMAIN owner' /\ DOMAIN owner' \subseteq Ids
      BY <3>1
    <3>3. StartTracking(id, o) \in TrackingMessage /\ StartTracking(id, o).id = id
      BY DEF StartTracking
    <3>4. QueueOK'
      BY <2>0, <3>1, <3>2, <3>3, AppendQueue
    <3>5. messages # <<>> => Head(messages') = Head(messages) /\ messages' # <<>>
      BY <2>0, <3>1, <3>3 DEF QueueOK
    <3>6. \A k \in DOMAIN owner' : owner'[k] \in Clients
      <4>1. \A k \in 1 .. id : k = id \/ k \in 1 .. (id - 1)
        OBVIOUS
      <4> QED
        BY <3>1, <4>1 DEF TrackingTypeOK
    <3> QED
      BY <2>9, <3>2, <3>4, <3>5, <3>6 DEF ClientStarts, QueueOK, StartKinds, TrackingTypeOK, Busy
  <2>10. ASSUME NEW id \in DOMAIN owner, ClientChanges(id) PROVE TrackingTypeOK'
    <3>1. PICK m \in TrackingMessage : messages' = Append(messages, m) /\ m.id = id
      <4>1. id \in Ids
        BY DEF TrackingTypeOK
      <4>2. StopTracking(id) \in TrackingMessage /\ StopTracking(id).id = id
        BY <4>1 DEF StopTracking
      <4>3. \A o \in Options : UpdateTracking(id, o) \in TrackingMessage /\ UpdateTracking(id, o).id = id
        BY <4>1 DEF UpdateTracking
      <4> QED
        BY <2>10, <4>2, <4>3 DEF ClientChanges, Send
    <3>2. QueueOK'
      BY <2>0, <2>10, <3>1, AppendQueue DEF ClientChanges
    <3>3. messages # <<>> => Head(messages') = Head(messages) /\ messages' # <<>>
      BY <2>0, <3>1 DEF QueueOK
    <3> QED
      BY <2>10, <3>2, <3>3 DEF ClientChanges, QueueOK, StartKinds, TrackingTypeOK, Busy
  <2>11. CASE EngineRestarts
    <3>1. RestartSessions \in TrackingMessage /\ RestartSessions.msg \notin StartKinds
      BY DEF RestartSessions, StartKinds
    <3>2. QueueOK'
      BY <2>0, <2>11, <3>1, AppendQueue DEF EngineRestarts
    <3>3. messages # <<>> => Head(messages') = Head(messages) /\ messages' # <<>>
      BY <2>0, <2>11, <3>1 DEF QueueOK, EngineRestarts
    <3>4. restarts' \in 0 .. MaxRestarts
      <4>1. restarts \in 0 .. MaxRestarts
        BY DEF TrackingTypeOK
      <4>2. restarts < MaxRestarts /\ restarts' = restarts + 1
        BY <2>11 DEF EngineRestarts
      <4> QED
        BY <4>1, <4>2
    <3> QED
      BY <2>11, <3>2, <3>3, <3>4 DEF EngineRestarts, QueueOK, StartKinds, TrackingTypeOK, Busy
  <2>12. CASE UNCHANGED trackingVars
    BY <2>12 DEF trackingVars, TrackingTypeOK, Busy
  <2> QED
    BY <2>1, <2>2, <2>3, <2>4, <2>5, <2>6, <2>7, <2>8, <2>9, <2>10, <2>11, <2>12
    DEF TrackingNext, MessageThread, Environment
<1> QED
  BY <1>1, <1>2, PTL DEF TrackingSpec

-----------------------------------------------------------------------------
(***************************************************************************)
(* The engine runs with the smallest interval.  The invariant needs to know*)
(* that a queued start is for a session that does not exist yet (otherwise *)
(* saving it could enlarge the interval of one), and that the engine is off*)
(* without sessions even while a restart is pending (restartSessions then  *)
(* leaves it alone).                                                       *)
(***************************************************************************)
\* A session id is used once: its start is queued at most once, before it is a session.
FreshStarts ==
  \A i \in DOMAIN messages :
    messages[i].msg = "StartTracking" =>
      /\ messages[i].id \notin sessions
      /\ \A j \in DOMAIN messages :
           messages[j].msg = "StartTracking" /\ messages[j].id = messages[i].id => j = i

OffWithoutSessions == sessions = {} => engine = Off

Served(e, ts) ==
  IF DOMAIN ts = {} THEN e = Off
  ELSE /\ e # Off
       /\ \A id \in DOMAIN ts : e.minInterval <= ts[id].minInterval
       /\ \E id \in DOMAIN ts : e.minInterval = ts[id].minInterval

IInv == FreshStarts /\ OffWithoutSessions /\ EngineAtSmallest

LEMMA AtSmallestIsServed ==
  EngineAtSmallest <=> RestartPending \/ missed \/ Served(engine, mTrackingSessions)
  BY DEF EngineAtSmallest, Served

LEMMA FreshConsume ==
  ASSUME QueueOK, FreshStarts, messages # <<>>, TakeMessage,
         sessions' \subseteq sessions
           \cup (IF Head(messages).msg = "StartTracking" THEN {Head(messages).id} ELSE {})
  PROVE  FreshStarts'
<1>1. Head(messages) = messages[1] /\ 1 \in DOMAIN messages
  BY DEF QueueOK
<1>2. \A i \in DOMAIN messages' :
        i + 1 \in DOMAIN messages /\ messages'[i] = messages[i + 1] /\ i + 1 # 1 /\ i \in Nat
  BY DEF QueueOK, TakeMessage
<1>3. ASSUME NEW i \in DOMAIN messages', messages'[i].msg = "StartTracking"
      PROVE  messages'[i].id \notin sessions'
  BY <1>1, <1>2, <1>3 DEF FreshStarts
<1>4. ASSUME NEW i \in DOMAIN messages', messages'[i].msg = "StartTracking",
             NEW j \in DOMAIN messages', messages'[j].msg = "StartTracking",
             messages'[j].id = messages'[i].id
      PROVE  j = i
  <2>1. i + 1 = j + 1
    BY <1>2, <1>4 DEF FreshStarts
  <2> QED
    BY <1>2, <2>1
<1> QED
  BY <1>3, <1>4 DEF FreshStarts

LEMMA FreshAppend ==
  ASSUME QueueOK, FreshStarts, NEW m, messages' = Append(messages, m),
         sessions' = sessions, sessions \subseteq DOMAIN owner,
         m.msg = "StartTracking" => m.id \notin DOMAIN owner
  PROVE  FreshStarts'
<1>1. \A i \in DOMAIN messages' :
        \/ i \in DOMAIN messages /\ messages'[i] = messages[i]
        \/ i = Len(messages) + 1 /\ messages'[i] = m
  BY DEF QueueOK
<1>2. \A i \in DOMAIN messages : messages[i].msg = "StartTracking" => messages[i].id \in DOMAIN owner
  BY DEF QueueOK, StartKinds
<1> QED
  BY <1>1, <1>2 DEF FreshStarts

LEMMA FreshSame ==
  ASSUME FreshStarts, messages' = messages, sessions' \subseteq sessions
  PROVE  FreshStarts'
  BY DEF FreshStarts

LEMMA PendingConsume ==
  ASSUME QueueOK, RestartPending, messages # <<>>, TakeMessage, Head(messages).msg # "RestartSessions"
  PROVE  RestartPending'
<1>1. PICK i \in DOMAIN messages : messages[i] = RestartSessions
  BY DEF RestartPending
<1>2. i # 1 /\ i \in Nat
  BY <1>1 DEF QueueOK
<1>3. i - 1 \in DOMAIN messages' /\ messages'[i - 1] = messages[i]
  BY <1>1, <1>2 DEF QueueOK, TakeMessage
<1> QED
  BY <1>1, <1>3 DEF RestartPending

LEMMA PendingAppend ==
  ASSUME QueueOK, NEW m, messages' = Append(messages, m), RestartPending \/ m = RestartSessions
  PROVE  RestartPending'
<1>1. /\ \A i \in DOMAIN messages : i \in DOMAIN messages' /\ messages'[i] = messages[i]
      /\ Len(messages) + 1 \in DOMAIN messages' /\ messages'[Len(messages) + 1] = m
  BY DEF QueueOK
<1> QED
  BY <1>1 DEF RestartPending

\* Each multiplexer keeps the engine at the smallest interval, whether or not its engine
\* command succeeds.
LEMMA StartServes ==
  ASSUME TrackingTypeOK, OffWithoutSessions, NEW id \in DOMAIN owner \ sessions, NEW o \in Options,
         NEW ok \in BOOLEAN, startTrackingMultiplex(o, ok),
         IF ok THEN saveTrackingSession(id, o) ELSE UNCHANGED mTrackingSessions
  PROVE  /\ OffWithoutSessions'
         /\ missed \/ Served(engine, mTrackingSessions) =>
              missed' \/ Served(engine', mTrackingSessions')
<1> DEFINE Smaller == \A m \in smallest(sessions) : o.minInterval < interval(m)
<1>1. /\ o # Off /\ o.minInterval \in Nat
      /\ \A k \in sessions : mTrackingSessions[k] \in Options /\ interval(k) \in Nat
      /\ engine # Off => engine.minInterval \in Nat
  BY DEF TrackingTypeOK
<1>2. CASE ok /\ Smaller
  <2>1. engine' = o
    BY <1>2 DEF startTrackingMultiplex, startTracking
  <2>2. /\ sessions' = sessions \cup {id}
        /\ \A k \in sessions' : mTrackingSessions'[k] = IF k = id THEN o ELSE mTrackingSessions[k]
    BY <1>2, SaveTyping
  <2>3. \A k \in sessions : o.minInterval <= interval(k)
    <3>1. ASSUME sessions # {} PROVE smallest(sessions) # {}
      BY <3>1 DEF startTrackingMultiplex
    <3> QED
      BY <1>1, <1>2, <3>1 DEF smallest
  <2> QED
    BY <1>1, <2>1, <2>2, <2>3 DEF Served, OffWithoutSessions
<1>3. CASE ~ok
  <2>1. engine' = engine /\ missed' = missed /\ mTrackingSessions' = mTrackingSessions
    BY <1>3 DEF startTrackingMultiplex, startTracking, keepRunning, TrackingTypeOK
  <2> QED
    BY <2>1 DEF OffWithoutSessions
<1>4. CASE ok /\ ~Smaller
  <2>0. \A k, m \in smallest(sessions) : interval(k) = interval(m)
    BY <1>1 DEF smallest
  <2>1. PICK m \in smallest(sessions) : o.minInterval >= interval(m) /\ keepRunning(ok)
    <3>1. \A m \in smallest(sessions) : interval(m) \in Nat
      BY <1>1, SmallestTyping
    <3>2. \A m \in smallest(sessions) : ~(o.minInterval < interval(m))
      BY <1>4, <2>0
    <3>3. sessions # {}
      BY <1>4, SmallestTyping
    <3>4. PICK m \in smallest(sessions) : keepRunning(ok)
      BY <3>2, <3>3 DEF startTrackingMultiplex
    <3> QED
      BY <1>1, <3>1, <3>2, <3>4
  <2>2. /\ sessions' = sessions \cup {id} /\ engine' = engine /\ missed' = missed
        /\ \A k \in sessions' : mTrackingSessions'[k] = IF k = id THEN o ELSE mTrackingSessions[k]
    BY <1>4, <2>1, SaveTyping DEF keepRunning
  <2>3. m \in sessions
    BY <2>1, SmallestTyping
  <2>4. ASSUME Served(engine, mTrackingSessions) PROVE Served(engine', mTrackingSessions')
    <3>1. /\ engine # Off
          /\ \A k \in sessions : engine.minInterval <= interval(k)
          /\ \E k \in sessions : engine.minInterval = interval(k)
      BY <2>3, <2>4 DEF Served
    <3>2. engine.minInterval <= o.minInterval
      BY <1>1, <2>1, <2>3, <3>1
    <3> QED
      BY <2>2, <3>1, <3>2 DEF Served
  <2> QED
    BY <2>2, <2>4 DEF OffWithoutSessions
<1> QED
  BY <1>2, <1>3, <1>4

LEMMA UpdateServes ==
  ASSUME TrackingTypeOK, OffWithoutSessions, NEW id \in sessions, NEW o \in Options,
         NEW ok \in BOOLEAN, updateTrackingMultiplex(id, o, ok),
         IF ok THEN saveTrackingSession(id, o) ELSE UNCHANGED mTrackingSessions
  PROVE  /\ OffWithoutSessions' /\ sessions' = sessions
         /\ missed \/ Served(engine, mTrackingSessions) =>
              missed' \/ Served(engine', mTrackingSessions')
<1>1. /\ \A p \in Options : p # Off /\ p.minInterval \in Nat
      /\ \A k \in sessions : mTrackingSessions[k] \in Options /\ interval(k) \in Nat
      /\ engine # Off => engine.minInterval \in Nat
      /\ id \in DOMAIN owner
  BY DEF TrackingTypeOK
<1>2. CASE ~ok
  <2>1. engine' = engine /\ missed' = missed /\ mTrackingSessions' = mTrackingSessions
    BY <1>2 DEF updateTrackingMultiplex, startTracking, keepRunning, TrackingTypeOK
  <2> QED
    BY <2>1 DEF OffWithoutSessions
<1>3. CASE ok
  <2>1. /\ sessions' = sessions
        /\ \A k \in sessions : mTrackingSessions'[k] = IF k = id THEN o ELSE mTrackingSessions[k]
    BY <1>1, <1>3, SaveTyping
  <2>2. CASE sessions = {id}
    <3>1. engine' = o
      BY <1>3, <2>2 DEF updateTrackingMultiplex, startTracking
    <3> QED
      BY <1>1, <2>1, <2>2, <3>1 DEF Served, OffWithoutSessions
  <2>3. CASE sessions # {id}
    <3>1. PICK m \in smallest(sessions \ {id}) :
            IF o.minInterval < interval(m) THEN startTracking(o, ok)
            ELSE IF interval(id) < interval(m) THEN startTracking(mTrackingSessions[m], ok)
            ELSE keepRunning(ok)
      BY <2>3 DEF updateTrackingMultiplex
    <3>2. /\ m \in sessions /\ m # id /\ interval(m) \in Nat
          /\ \A k \in sessions \ {id} : interval(m) <= interval(k)
      BY <1>1 DEF smallest
    <3>3. CASE o.minInterval < interval(m)
      <4>1. engine' = o
        BY <1>1, <1>3, <3>1, <3>2, <3>3 DEF startTracking
      <4> QED
        BY <1>1, <2>1, <3>2, <3>3, <4>1 DEF Served, OffWithoutSessions
    <3>4. CASE ~(o.minInterval < interval(m)) /\ interval(id) < interval(m)
      <4>1. engine' = mTrackingSessions[m]
        BY <1>1, <1>3, <3>1, <3>2, <3>4 DEF startTracking
      <4> QED
        BY <1>1, <2>1, <3>2, <3>4, <4>1 DEF Served, OffWithoutSessions
    <3>5. CASE ~(o.minInterval < interval(m)) /\ ~(interval(id) < interval(m))
      <4>1. engine' = engine /\ missed' = missed
        BY <1>1, <1>3, <3>1, <3>2, <3>5 DEF keepRunning
      <4>2. ASSUME Served(engine, mTrackingSessions) PROVE Served(engine', mTrackingSessions')
        <5>1. engine # Off /\ engine.minInterval = interval(m)
          BY <1>1, <3>2, <3>5, <4>2 DEF Served
        <5> QED
          BY <1>1, <2>1, <3>2, <3>5, <4>1, <5>1 DEF Served
      <4> QED
        BY <2>1, <4>1, <4>2 DEF OffWithoutSessions
    <3> QED
      BY <1>1, <3>2, <3>3, <3>4, <3>5
  <2> QED
    BY <2>2, <2>3
<1> QED
  BY <1>2, <1>3

LEMMA StopServes ==
  ASSUME TrackingTypeOK, OffWithoutSessions, NEW id \in sessions,
         NEW ok \in BOOLEAN, stopTrackingMultiplex(id, ok),
         IF ok THEN eraseTrackingSession(id) ELSE UNCHANGED mTrackingSessions
  PROVE  /\ OffWithoutSessions' /\ sessions' \subseteq sessions
         /\ missed \/ Served(engine, mTrackingSessions) =>
              missed' \/ Served(engine', mTrackingSessions')
<1>1. /\ \A p \in Options : p # Off /\ p.minInterval \in Nat
      /\ \A k \in sessions : mTrackingSessions[k] \in Options /\ interval(k) \in Nat
      /\ engine # Off => engine.minInterval \in Nat
  BY DEF TrackingTypeOK
<1>2. CASE ~ok
  <2>1. engine' = engine /\ missed' = missed /\ mTrackingSessions' = mTrackingSessions
    BY <1>2 DEF stopTrackingMultiplex, startTracking, stopTracking, keepRunning, TrackingTypeOK
  <2> QED
    BY <2>1 DEF OffWithoutSessions
<1>3. CASE ok
  <2>1. /\ sessions' = sessions \ {id}
        /\ \A k \in sessions' : mTrackingSessions'[k] = mTrackingSessions[k]
    BY <1>3, EraseTyping
  <2>2. CASE sessions = {id}
    <3>1. engine' = Off
      BY <1>3, <2>2 DEF stopTrackingMultiplex, stopTracking
    <3> QED
      BY <2>1, <2>2, <3>1 DEF Served, OffWithoutSessions
  <2>3. CASE sessions # {id}
    <3>1. PICK m \in smallest(sessions \ {id}) :
            IF interval(id) < interval(m) THEN startTracking(mTrackingSessions[m], ok)
            ELSE keepRunning(ok)
      BY <2>3 DEF stopTrackingMultiplex
    <3>2. /\ m \in sessions' /\ m # id /\ interval(m) \in Nat
          /\ \A k \in sessions \ {id} : interval(m) <= interval(k)
      BY <1>1, <2>1 DEF smallest
    <3>3. CASE interval(id) < interval(m)
      <4>1. engine' = mTrackingSessions[m]
        BY <1>3, <3>1, <3>3 DEF startTracking
      <4> QED
        BY <1>1, <2>1, <3>2, <4>1 DEF Served, OffWithoutSessions
    <3>4. CASE ~(interval(id) < interval(m))
      <4>1. engine' = engine /\ missed' = missed
        BY <3>1, <3>4 DEF keepRunning
      <4>2. ASSUME Served(engine, mTrackingSessions) PROVE Served(engine', mTrackingSessions')
        <5>1. engine # Off /\ engine.minInterval = interval(m)
          BY <1>1, <2>1, <3>2, <3>4, <4>2 DEF Served
        <5> QED
          BY <2>1, <3>2, <4>1, <5>1 DEF Served
      <4> QED
        BY <2>1, <3>2, <4>1, <4>2 DEF OffWithoutSessions
    <3> QED
      BY <2>1, <3>3, <3>4
  <2> QED
    BY <2>2, <2>3
<1> QED
  BY <1>2, <1>3

\* restartSessions starts the engine with the smallest interval or owns up to having failed.
LEMMA RestartServes ==
  ASSUME TrackingTypeOK, OffWithoutSessions, restartSessions
  PROVE  /\ OffWithoutSessions' /\ sessions' = sessions
         /\ missed' \/ Served(engine', mTrackingSessions')
<1>1. /\ \A p \in Options : p # Off
      /\ \A k \in sessions : mTrackingSessions[k] \in Options
  BY DEF TrackingTypeOK
<1>2. mTrackingSessions' = mTrackingSessions
  BY DEF restartSessions
<1>3. CASE sessions = {}
  BY <1>2, <1>3 DEF restartSessions, Served, OffWithoutSessions
<1>4. CASE sessions # {}
  <2>1. PICK m \in smallest(sessions), ok \in Results :
          engine' = (IF ok THEN mTrackingSessions[m] ELSE engine) /\ missed' = ~ok
    BY <1>4 DEF restartSessions
  <2>2. m \in sessions /\ \A k \in sessions : interval(m) <= interval(k)
    BY DEF smallest
  <2> QED
    BY <1>1, <1>2, <2>1, <2>2 DEF Served, OffWithoutSessions
<1> QED
  BY <1>3, <1>4

\* Whatever sessions come, change, fail and go, the engine runs exactly when there is a
\* session and with the smallest interval of all of them, unless it has just restarted or
\* could not be restarted: for any number of clients and sessions and any intervals.
THEOREM EngineStaysAtSmallest == TrackingSpec => []EngineAtSmallest
<1>1. TrackingInit => IInv
  <2> SUFFICES ASSUME TrackingInit PROVE IInv
    OBVIOUS
  <2>1. sessions = {} /\ engine = Off /\ \A i \in DOMAIN messages : FALSE
    BY DEF TrackingInit
  <2> QED
    BY <2>1 DEF IInv, FreshStarts, OffWithoutSessions, EngineAtSmallest
<1>2. TrackingTypeOK /\ IInv /\ [TrackingNext]_trackingVars => IInv'
  <2> SUFFICES ASSUME TrackingTypeOK, IInv, [TrackingNext]_trackingVars PROVE IInv'
    OBVIOUS
  <2> DEFINE Kept == missed \/ Served(engine, mTrackingSessions) =>
                       missed' \/ Served(engine', mTrackingSessions')
  <2>0. QueueOK /\ FreshStarts /\ OffWithoutSessions /\ sessions \subseteq DOMAIN owner
    BY DEF TrackingTypeOK, IInv, QueueOK, StartKinds
  <2>a. ASSUME Kept, OffWithoutSessions', FreshStarts', RestartPending => RestartPending'
        PROVE  IInv'
    BY <2>a, AtSmallestIsServed DEF IInv, EngineAtSmallest, Served
  <2>b. ASSUME messages # <<>>, TakeMessage, Head(messages).msg # "RestartSessions", Kept, OffWithoutSessions',
               sessions' \subseteq sessions
                 \cup (IF Head(messages).msg = "StartTracking" THEN {Head(messages).id} ELSE {})
        PROVE  IInv'
    BY <2>0, <2>a, <2>b, FreshConsume, PendingConsume
  <2>c. ASSUME NEW m, messages' = Append(messages, m), UNCHANGED mTrackingSessions, Kept,
               OffWithoutSessions', m.msg = "StartTracking" => m.id \notin DOMAIN owner
        PROVE  IInv'
    BY <2>0, <2>a, <2>c, FreshAppend, PendingAppend
  <2>1. CASE saveClient
    BY <2>0, <2>1, <2>b DEF saveClient, Receives, OffWithoutSessions
  <2>2. CASE removeClient
    <3>1. mTrackingSessions' = mTrackingSessions /\ engine' = engine /\ missed' = missed
      BY <2>2 DEF removeClient
    <3>2. CASE messages' = messages
      BY <2>0, <2>a, <3>1, <3>2, FreshSame DEF RestartPending, OffWithoutSessions
    <3>3. CASE TakeMessage
      BY <2>0, <2>2, <2>b, <3>1, <3>3 DEF removeClient, Receives, OffWithoutSessions
    <3> QED
      BY <2>2, <3>2, <3>3 DEF removeClient
  <2>3. CASE stopClientSession
    <3>1. PICK id \in removing, ok \in Results :
            /\ stopTrackingMultiplex(id, ok)
            /\ IF ok THEN eraseTrackingSession(id) ELSE UNCHANGED mTrackingSessions
            /\ TakeMessage \/ UNCHANGED messages
      BY <2>3 DEF stopClientSession
    <3>2. id \in sessions /\ ok \in BOOLEAN /\ messages # <<>> /\ Head(messages).msg = "RemoveClient"
      BY <2>3, <3>1, ResultsTyping DEF stopClientSession, TrackingTypeOK
    <3>3. OffWithoutSessions' /\ sessions' \subseteq sessions /\ Kept
      BY <2>0, <3>1, <3>2, StopServes
    <3>4. CASE messages' = messages
      BY <2>0, <2>a, <3>3, <3>4, FreshSame DEF RestartPending
    <3>5. CASE TakeMessage
      BY <2>b, <3>2, <3>3, <3>5
    <3> QED
      BY <3>1, <3>4, <3>5
  <2>4. CASE processStart
    <3> DEFINE m == Head(messages)
    <3>1. /\ m.msg = "StartTracking" /\ messages # <<>> /\ TakeMessage
          /\ m.id \in DOMAIN owner /\ m.options \in Options
      BY <2>0, <2>4, ConsumeQueue, MessageFields DEF processStart, Receives, StartKinds
    <3>2. m.id \notin sessions
      BY <2>0, <3>1 DEF FreshStarts, QueueOK
    <3>3. CASE UNCHANGED <<mTrackingSessions, engine, missed>>
      BY <2>0, <2>b, <3>1, <3>3 DEF OffWithoutSessions
    <3>4. ASSUME NEW ok \in Results, startTrackingMultiplex(m.options, ok),
                 IF ok THEN saveTrackingSession(m.id, m.options) ELSE UNCHANGED mTrackingSessions
          PROVE  IInv'
      <4>1. ok \in BOOLEAN
        BY ResultsTyping
      <4>2. OffWithoutSessions' /\ Kept
        BY <2>0, <3>1, <3>2, <3>4, <4>1, StartServes
      <4>3. sessions' \subseteq sessions \cup {m.id}
        BY <3>1, <3>4, SaveTyping
      <4> QED
        BY <2>b, <3>1, <4>2, <4>3
    <3> QED
      BY <2>4, <3>3, <3>4 DEF processStart
  <2>5. CASE processUpdate
    <3> DEFINE m == Head(messages)
    <3>1. m.msg = "UpdateTracking" /\ messages # <<>> /\ TakeMessage /\ m.options \in Options
      BY <2>0, <2>5, ConsumeQueue, MessageFields DEF processUpdate, Receives
    <3>2. CASE UNCHANGED <<mTrackingSessions, engine, missed>>
      BY <2>0, <2>b, <3>1, <3>2 DEF OffWithoutSessions
    <3>3. ASSUME m.id \in sessions, NEW ok \in Results, updateTrackingMultiplex(m.id, m.options, ok),
                 IF ok THEN saveTrackingSession(m.id, m.options) ELSE UNCHANGED mTrackingSessions
          PROVE  IInv'
      <4>1. ok \in BOOLEAN
        BY ResultsTyping
      <4>2. OffWithoutSessions' /\ sessions' = sessions /\ Kept
        BY <2>0, <3>1, <3>3, <4>1, UpdateServes
      <4> QED
        BY <2>b, <3>1, <4>2
    <3> QED
      BY <2>5, <3>2, <3>3 DEF processUpdate
  <2>6. CASE processStop
    <3> DEFINE id == Head(messages).id
    <3>1. Head(messages).msg = "StopTracking" /\ messages # <<>> /\ TakeMessage
      BY <2>6 DEF processStop, Receives
    <3>2. CASE UNCHANGED <<mTrackingSessions, engine, missed>>
      BY <2>0, <2>b, <3>1, <3>2 DEF OffWithoutSessions
    <3>3. ASSUME id \in sessions, NEW ok \in Results, stopTrackingMultiplex(id, ok),
                 IF ok THEN eraseTrackingSession(id) ELSE UNCHANGED mTrackingSessions
          PROVE  IInv'
      <4>1. ok \in BOOLEAN
        BY ResultsTyping
      <4>2. OffWithoutSessions' /\ sessions' \subseteq sessions /\ Kept
        BY <2>0, <3>3, <4>1, StopServes
      <4> QED
        BY <2>b, <3>1, <4>2
    <3> QED
      BY <2>6, <3>2, <3>3 DEF processStop
  <2>7. CASE restartSessions
    <3>1. /\ OffWithoutSessions' /\ sessions' = sessions
          /\ missed' \/ Served(engine', mTrackingSessions')
      BY <2>0, <2>7, RestartServes
    <3>2. FreshStarts'
      BY <2>0, <2>7, <3>1, FreshConsume DEF restartSessions, Receives
    <3> QED
      BY <3>1, <3>2 DEF IInv, EngineAtSmallest, Served
  <2>8. ASSUME NEW c \in Clients, ClientRegisters(c) \/ ClientDestroyed(c) PROVE IInv'
    <3>1. PICK m : messages' = Append(messages, m) /\ m.msg # "StartTracking"
      <4>1. \A cb : AddClient(c, cb).msg # "StartTracking" /\ RemoveClient(c).msg # "StartTracking"
        BY DEF AddClient, RemoveClient
      <4> QED
        BY <2>8, <4>1 DEF ClientRegisters, ClientDestroyed, Send
    <3> QED
      BY <2>0, <2>8, <2>c, <3>1 DEF ClientRegisters, ClientDestroyed, inside, OffWithoutSessions
  <2>9. ASSUME NEW c \in Clients, NEW o \in Options, ClientStarts(c, o) PROVE IInv'
    <3>1. PICK id \in Ids : DOMAIN owner = 1 .. (id - 1) /\ messages' = Append(messages, StartTracking(id, o))
      BY <2>9 DEF ClientStarts, Send
    <3>2. StartTracking(id, o).id \notin DOMAIN owner
      BY <3>1 DEF StartTracking
    <3> QED
      BY <2>0, <2>9, <2>c, <3>1, <3>2 DEF ClientStarts, inside, OffWithoutSessions
  <2>10. ASSUME NEW id \in DOMAIN owner, ClientChanges(id) PROVE IInv'
    <3>1. PICK m : messages' = Append(messages, m) /\ m.msg # "StartTracking"
      <4>1. \A o : StopTracking(id).msg # "StartTracking" /\ UpdateTracking(id, o).msg # "StartTracking"
        BY DEF StopTracking, UpdateTracking
      <4> QED
        BY <2>10, <4>1 DEF ClientChanges, Send
    <3> QED
      BY <2>0, <2>10, <2>c, <3>1 DEF ClientChanges, inside, OffWithoutSessions
  <2>11. CASE EngineRestarts
    <3>1. /\ messages' = Append(messages, RestartSessions) /\ engine' = Off
          /\ mTrackingSessions' = mTrackingSessions
      BY <2>11 DEF EngineRestarts
    <3>2. RestartPending' /\ FreshStarts'
      BY <2>0, <3>1, FreshAppend, PendingAppend
    <3> QED
      BY <3>1, <3>2 DEF IInv, EngineAtSmallest, OffWithoutSessions
  <2>12. CASE UNCHANGED trackingVars
    BY <2>0, <2>a, <2>12, FreshSame DEF trackingVars, RestartPending, OffWithoutSessions
  <2> QED
    BY <2>1, <2>2, <2>3, <2>4, <2>5, <2>6, <2>7, <2>8, <2>9, <2>10, <2>11, <2>12
    DEF TrackingNext, MessageThread, Environment
<1> QED
  BY <1>1, <1>2, TypeCorrect, PTL DEF TrackingSpec, IInv

-----------------------------------------------------------------------------
(***************************************************************************)
(* No session outlives its client, unless the engine refused to stop it.   *)
(* The invariant needs to know that while a client is being removed, every *)
(* session it has is on the list of those still to be stopped.             *)
(***************************************************************************)
AllBeingStopped ==
  Busy => \A id \in sessions \ lost : owner[id] = Head(messages).client => id \in removing

OrphanInv == NoOrphanSession /\ AllBeingStopped

\* A step that leaves the clients and the owners of the sessions alone and adds no session
\* keeps the invariant.
LEMMA OrphanKept ==
  ASSUME OrphanInv, UNCHANGED mClientData, sessions' \subseteq sessions, lost \subseteq lost',
         \A id \in sessions : owner'[id] = owner[id],
         \/ removing' = {}
         \/ removing' = removing /\ Head(messages') = Head(messages)
  PROVE  OrphanInv'
  BY DEF OrphanInv, NoOrphanSession, AllBeingStopped, Busy

\* A session belongs to a client that is registered, and can so still be stopped, unless
\* the engine refused to stop it when the client went: for any number of clients, sessions
\* and restarts and any order of their commands.
THEOREM NoSessionIsOrphan == TrackingSpec => []NoOrphanSession
<1>1. TrackingInit => OrphanInv
  BY DEF TrackingInit, OrphanInv, NoOrphanSession, AllBeingStopped, Busy
<1>2. TrackingTypeOK /\ OrphanInv /\ [TrackingNext]_trackingVars => OrphanInv'
  <2> SUFFICES ASSUME TrackingTypeOK, OrphanInv, [TrackingNext]_trackingVars PROVE OrphanInv'
    OBVIOUS
  <2>0. /\ QueueOK /\ sessions \subseteq DOMAIN owner /\ removing \subseteq sessions
        /\ mClientData \in [Clients -> Registrations]
        /\ \A id \in sessions : owner[id] \in Clients
    BY DEF TrackingTypeOK, QueueOK, StartKinds
  <2>a. ASSUME NEW m, messages' = Append(messages, m)
        PROVE  messages # <<>> => Head(messages') = Head(messages)
    <3>1. messages \in Seq(TrackingMessage \cup {m})
      <4>1. \A T : messages \in Seq(TrackingMessage) => messages \in Seq(TrackingMessage \cup T)
        OBVIOUS
      <4> QED
        BY <2>0, <4>1 DEF QueueOK
    <3>2. ASSUME NEW S, NEW q \in Seq(S), NEW x \in S, q # <<>>
          PROVE  Head(Append(q, x)) = Head(q)
      BY <3>2
    <3> QED
      BY <2>a, <3>1, <3>2
  <2>b. Busy => messages # <<>>
    BY DEF TrackingTypeOK
  <2> USE DEF threads, outside, inside
  <2>1. CASE saveClient
    <3>1. /\ removing' = {} /\ mTrackingSessions' = mTrackingSessions /\ owner' = owner
          /\ lost' = lost
      BY <2>1 DEF saveClient, Receives, Busy
    <3>2. \A c \in Clients : mClientData[c] # "none" => mClientData'[c] # "none"
      BY <2>0, <2>1 DEF saveClient
    <3> QED
      BY <2>0, <3>1, <3>2 DEF OrphanInv, NoOrphanSession, AllBeingStopped, Busy
  <2>2. CASE removeClient
    <3> DEFINE c == Head(messages).client
    <3>1. mTrackingSessions' = mTrackingSessions /\ owner' = owner /\ lost' = lost /\ removing = {}
      BY <2>2 DEF removeClient, Receives, Busy
    <3>2. CASE \E id \in sessions : owner[id] = c
      <4>1. removing' = {id \in sessions : owner[id] = c} /\ messages' = messages
            /\ mClientData' = mClientData
        BY <2>2, <3>2 DEF removeClient
      <4> QED
        BY <3>1, <4>1 DEF OrphanInv, NoOrphanSession, AllBeingStopped, Busy
    <3>3. CASE ~\E id \in sessions : owner[id] = c
      <4>1. removing' = {} /\ mClientData' = [mClientData EXCEPT ![c] = "none"]
        BY <2>2, <3>1, <3>3 DEF removeClient
      <4>2. \A id \in sessions : mClientData'[owner[id]] = mClientData[owner[id]]
        BY <2>0, <3>3, <4>1
      <4> QED
        BY <3>1, <4>1, <4>2 DEF OrphanInv, NoOrphanSession, AllBeingStopped, Busy
    <3> QED
      BY <3>2, <3>3
  <2>3. CASE stopClientSession
    <3>1. PICK id \in removing, ok \in Results :
            /\ IF ok THEN eraseTrackingSession(id) ELSE UNCHANGED mTrackingSessions
            /\ removing' = removing \ {id}
            /\ lost' = IF ok THEN lost ELSE lost \cup {id}
            /\ IF removing = {id}
               THEN mClientData' = [mClientData EXCEPT ![Head(messages).client] = "none"] /\ TakeMessage
               ELSE UNCHANGED <<mClientData, messages>>
      BY <2>3 DEF stopClientSession
    <3>2. sessions' \ lost' \subseteq (sessions \ lost) \ {id} /\ owner' = owner
      BY <2>3, <3>1, EraseTyping DEF stopClientSession
    <3>3. CASE removing = {id}
      <4>1. \A k \in sessions' \ lost' : owner[k] # Head(messages).client
        BY <3>2, <3>3 DEF OrphanInv, AllBeingStopped, Busy
      <4>2. \A k \in sessions' \ lost' : mClientData'[owner[k]] = mClientData[owner[k]]
        BY <2>0, <3>1, <3>2, <3>3, <4>1
      <4> QED
        BY <3>1, <3>2, <3>3, <4>2 DEF OrphanInv, NoOrphanSession, AllBeingStopped, Busy
    <3>4. CASE removing # {id}
      BY <3>1, <3>2, <3>4 DEF OrphanInv, NoOrphanSession, AllBeingStopped, Busy
    <3> QED
      BY <3>3, <3>4
  <2>4. CASE processStart
    <3> DEFINE m == Head(messages)
    <3>1. /\ removing' = {} /\ owner' = owner /\ lost' = lost /\ mClientData' = mClientData
          /\ m.id \in DOMAIN owner /\ m.options \in Options
      BY <2>0, <2>4, ConsumeQueue, MessageFields DEF processStart, Receives, Busy, StartKinds
    <3>2. CASE mTrackingSessions' = mTrackingSessions
      BY <3>1, <3>2, OrphanKept
    <3>3. CASE mClientData[owner[m.id]] = "callback" /\ saveTrackingSession(m.id, m.options)
      <4>1. sessions' = sessions \cup {m.id}
        BY <3>1, <3>3, SaveTyping
      <4> QED
        BY <3>1, <3>3, <4>1 DEF OrphanInv, NoOrphanSession, AllBeingStopped, Busy
    <3> QED
      BY <2>4, <3>2, <3>3 DEF processStart
  <2>5. CASE processUpdate
    <3> DEFINE m == Head(messages)
    <3>1. /\ removing' = {} /\ owner' = owner /\ lost' = lost /\ mClientData' = mClientData
          /\ m.id \in DOMAIN owner /\ m.options \in Options
      BY <2>0, <2>5, ConsumeQueue, MessageFields DEF processUpdate, Receives, Busy, StartKinds
    <3>2. sessions' = sessions
      BY <2>5, <3>1, SaveTyping DEF processUpdate
    <3> QED
      BY <3>1, <3>2, OrphanKept
  <2>6. CASE processStop
    <3>1. /\ removing' = {} /\ owner' = owner /\ lost' = lost /\ mClientData' = mClientData
      BY <2>6 DEF processStop, Receives, Busy
    <3>2. sessions' \subseteq sessions
      BY <2>6, EraseTyping DEF processStop
    <3> QED
      BY <3>1, <3>2, OrphanKept
  <2>7. CASE restartSessions
    <3>1. /\ removing' = {} /\ owner' = owner /\ lost' = lost /\ mClientData' = mClientData
          /\ mTrackingSessions' = mTrackingSessions
      BY <2>7 DEF restartSessions, Receives, Busy
    <3> QED
      BY <3>1, OrphanKept
  <2>8. CASE Environment
    <3>1. /\ mClientData' = mClientData /\ mTrackingSessions' = mTrackingSessions
          /\ removing' = removing /\ lost' = lost
      BY <2>8 DEF Environment, ClientRegisters, ClientDestroyed, ClientStarts, ClientChanges,
                  EngineRestarts
    <3>2. \E m : messages' = Append(messages, m)
      BY <2>8 DEF Environment, ClientRegisters, ClientDestroyed, ClientStarts, ClientChanges,
                  EngineRestarts, Send
    <3>3. \A id \in sessions : owner'[id] = owner[id]
      <4>1. ASSUME NEW c \in Clients, NEW o \in Options, ClientStarts(c, o)
            PROVE  \A id \in DOMAIN owner : owner'[id] = owner[id]
        <5>1. PICK n \in Ids : /\ DOMAIN owner = 1 .. (n - 1)
                               /\ owner' = [k \in 1 .. n |-> IF k = n THEN c ELSE owner[k]]
          BY <4>1 DEF ClientStarts
        <5> QED
          BY <5>1
      <4> QED
        BY <2>0, <2>8, <4>1
        DEF Environment, ClientRegisters, ClientDestroyed, ClientChanges, EngineRestarts
    <3> QED
      BY <2>a, <2>b, <3>1, <3>2, <3>3, OrphanKept DEF Busy
  <2>9. CASE UNCHANGED trackingVars
    BY <2>9, OrphanKept DEF trackingVars
  <2> QED
    BY <2>1, <2>2, <2>3, <2>4, <2>5, <2>6, <2>7, <2>8, <2>9 DEF TrackingNext, MessageThread
<1> QED
  BY <1>1, <1>2, TypeCorrect, PTL DEF TrackingSpec, OrphanInv
=============================================================================
