-------------------------- MODULE NiSessionProofs --------------------------
(***************************************************************************)
(* Proofs about NiSession for every set of requests: type correctness; that*)
(* exactly the sessions with a pending request have a thread waiting for   *)
(* it, when pthread_create() does not fail; that the modem's request is    *)
(* owned once; that an admitted emergency request is never dropped; and    *)
(* that the answers of the two sessions never cross.  The last three hold  *)
(* whether or not threads can be created.                                  *)
(***************************************************************************)
EXTENDS NiSession, TLAPS, FiniteSetTheorems

USE DEF Sessions, Responses, NiMessage, Handler

\* Appending a message of the modem, the user or an NI thread keeps the queue typed.
LEMMA QueueTyping ==
  ASSUME niQueue \in Seq(NiMessage), NEW m \in NiMessage
  PROVE  Append(niQueue, m) \in Seq(NiMessage)
  OBVIOUS

\* Taking the first message off keeps it typed, and that message is one.
LEMMA ConsumeTyping ==
  ASSUME niQueue \in Seq(NiMessage), niQueue # <<>>
  PROVE  Tail(niQueue) \in Seq(NiMessage) /\ Head(niQueue) \in NiMessage
  OBVIOUS

\* The session a request is for.
LEMMA SessionTyping == \A r \in Requests : sessionFor(r) \in Sessions
  BY DEF sessionFor

\* No step breaks a type.
LEMMA TypeKept ==
  ASSUME NiTypeOK, [NiNext]_niVars
  PROVE  NiTypeOK'
<1>1. CASE RequestNiNotify
  <2> DEFINE r == Head(niQueue).req
  <2>1. Tail(niQueue) \in Seq(NiMessage) /\ r \in Requests
    BY <1>1, ConsumeTyping DEF RequestNiNotify, Receives, NiTypeOK
  <2>2. CASE Admit(sessionFor(r), r) /\ TakeOff
             /\ UNCHANGED <<leaving, handler, niClient, userSaid, silenced, heard, sent>>
    <3>1. sessionFor(r) \in Sessions
      BY <2>1, SessionTyping
    <3>2. prompts' \subseteq [id : Nat, req : Requests]
      BY <2>1, <2>2 DEF Admit, NiTypeOK
    <3>3. waiting' \in [Sessions -> Nat] /\ reqID' \in [Sessions -> Nat] /\ reqIDCounter' \in Nat
      BY <2>2, <3>1 DEF Admit, NiTypeOK
    <3>4. rawRequest' \in [Sessions -> Requests \cup {None}]
      BY <2>1, <2>2, <3>1 DEF Admit, NiTypeOK
    <3>5. niQueue' \in Seq(NiMessage)
      BY <2>1, <2>2 DEF TakeOff
    <3> QED
      BY <2>2, <3>2, <3>3, <3>4, <3>5 DEF Admit, NiTypeOK
  <2>3. CASE /\ UNCHANGED <<fields, waiting, prompts>> /\ TakeOff
             /\ freed' = freed \cup {r} \/ UNCHANGED freed
             /\ UNCHANGED <<leaving, handler, niClient, userSaid, silenced, heard, sent>>
    BY <2>1, <2>3 DEF TakeOff, NiTypeOK, fields
  <2> QED
    BY <1>1, <2>2, <2>3 DEF RequestNiNotify
<1>2. CASE LookUpSession
  <2>1. /\ Tail(niQueue) \in Seq(NiMessage)
        /\ Head(niQueue).resp \in UserAnswers /\ Head(niQueue).resp \in Responses
    BY <1>2, ConsumeTyping, AnswersAssumption DEF LookUpSession, Receives, NiTypeOK
  <2>2. handler' \in Handler
    BY <1>2, <2>1 DEF LookUpSession, NiTypeOK
  <2>3. silenced' \subseteq Requests
    BY <1>2 DEF LookUpSession, NiTypeOK, IgnoresOther
  <2> QED
    BY <1>2, <2>1, <2>2, <2>3 DEF LookUpSession, NiTypeOK, TakeOff, fields, threads, user
<1>3. CASE IgnoreOther
  BY <1>3 DEF IgnoreOther, Respond, NiTypeOK, threads, user, ghosts
<1>4. CASE SetResponse
  BY <1>4 DEF SetResponse, Respond, NiTypeOK, threads, user, ghosts, Idle
<1>5. CASE InformNiResponse
  <2>1. /\ Tail(niQueue) \in Seq(NiMessage)
        /\ Head(niQueue).resp \in Responses /\ Head(niQueue).req \in Requests
    BY <1>5, ConsumeTyping DEF InformNiResponse, Receives, NiTypeOK
  <2> QED
    BY <1>5, <2>1 DEF InformNiResponse, TakeOff, NiTypeOK, fields, threads, user
<1>6. ASSUME NEW s \in Sessions, Wake(s) \/ TimeOut(s) PROVE NiTypeOK'
  <2>1. PICK a \in Responses : Finish(s, a) /\ waiting[s] > 0
               /\ UNCHANGED <<reqID, reqIDCounter, handler, niQueue, user, silenced, heard, sent>>
    BY <1>6 DEF Wake, TimeOut, NiTypeOK
  <2>2. leaving' \subseteq [session : Sessions, req : Requests \cup {None}, resp : Responses,
                            step : {"clear", "send"}]
    BY <2>1 DEF Finish, NiTypeOK
  <2>3. \A t \in leaving' : t.step = "send" => t.req \in Requests
    BY <2>1 DEF Finish, NiTypeOK
  <2>4. freed' \subseteq Requests
    BY <2>1 DEF Finish, NiTypeOK
  <2>5. /\ waiting' \in [Sessions -> Nat] /\ respRecvd' \in [Sessions -> BOOLEAN]
        /\ resp' \in [Sessions -> Responses] /\ rawRequest' \in [Sessions -> Requests \cup {None}]
    BY <2>1 DEF Finish, NiTypeOK
  <2> QED
    BY <2>1, <2>2, <2>3, <2>4, <2>5 DEF NiTypeOK, user
<1>7. ASSUME NEW t \in leaving, ClearId(t) PROVE NiTypeOK'
  <2>1. reqID' \in [Sessions -> Nat]
    BY <1>7 DEF ClearId, NiTypeOK
  <2>2. Sends(t) => t.req \in Requests
    BY DEF Sends, NiTypeOK
  <2>3. [t EXCEPT !.step = "send"] \in [session : Sessions, req : Requests \cup {None},
            resp : Responses, step : {"clear", "send"}]
    BY DEF NiTypeOK
  <2>4. [t EXCEPT !.step = "send"].req = t.req
    BY DEF NiTypeOK
  <2>5. leaving' \subseteq leaving \cup (IF Sends(t) THEN {[t EXCEPT !.step = "send"]} ELSE {})
    BY <1>7 DEF ClearId
  <2>6. \A u \in leaving' : u.step = "send" => u.req \in Requests
    BY <2>2, <2>4, <2>5 DEF NiTypeOK
  <2> QED
    BY <1>7, <2>1, <2>3, <2>5, <2>6 DEF ClearId, NiTypeOK, user, ghosts
<1>8. ASSUME NEW t \in leaving, SendResponse(t) PROVE NiTypeOK'
  <2>1. Inform(t.req, t.resp) \in NiMessage
    BY <1>8 DEF SendResponse, NiTypeOK, Inform
  <2> QED
    BY <1>8, <2>1, QueueTyping DEF SendResponse, NiTypeOK, fields, user, ghosts
<1>9. ASSUME NEW r \in Requests, ModemAsks(r) PROVE NiTypeOK'
  <2>1. Notify(r) \in NiMessage
    BY DEF Notify
  <2> QED
    BY <1>9, <2>1, QueueTyping DEF ModemAsks, NiTypeOK, fields, threads, user
<1>10. ASSUME NEW p \in prompts, NEW a \in UserAnswers, UserResponds(p, a) PROVE NiTypeOK'
  <2>1. Answer(p.id, a) \in NiMessage
    BY DEF Answer, NiTypeOK
  <2>2. userSaid' \subseteq [id : Nat, resp : UserAnswers]
    BY <1>10 DEF UserResponds, NiTypeOK
  <2> QED
    BY <1>10, <2>1, <2>2, QueueTyping DEF UserResponds, NiTypeOK, fields, threads, ghosts
<1>11. CASE ClientChanges
  BY <1>11 DEF ClientChanges, NiTypeOK, fields, threads, ghosts
<1>12. CASE UNCHANGED niVars
  BY <1>12 DEF niVars, NiTypeOK, fields, threads, user, ghosts
<1> QED
  BY <1>1, <1>2, <1>3, <1>4, <1>5, <1>6, <1>7, <1>8, <1>9, <1>10, <1>11, <1>12
  DEF NiNext, MessageThread, NiThread, Environment

\* Every field, thread, message and answer keeps its type, through every interleaving of
\* the message thread, the NI threads, the modem and the user.
THEOREM TypeCorrect == NiSpec => []NiTypeOK
<1>1. NiInit => NiTypeOK
  BY RequestsAssumption DEF NiInit, NiTypeOK, Idle
<1>2. NiTypeOK /\ [NiNext]_niVars => NiTypeOK'
  BY TypeKept
<1> QED
  BY <1>1, <1>2, PTL DEF NiSpec

\* The steps that touch neither the waiting threads nor the pending requests.
LEMMA OneWaiterUnchanged ==
  ASSUME OneWaiter, UNCHANGED <<waiting, rawRequest>>
  PROVE  OneWaiter'
  BY DEF OneWaiter

\* As long as every thread can be created, exactly the sessions with a pending request
\* have an NI thread waiting for it: admission looks at the session it fills, and a thread
\* takes its request along in the critical section in which it stops waiting.
THEOREM OneThreadPerRequest == ASSUME ThreadMayFail = FALSE PROVE NiSpec => []OneWaiter
<1>1. NiInit => OneWaiter
  BY DEF NiInit, OneWaiter
<1>2. NiTypeOK /\ OneWaiter /\ [NiNext]_niVars => OneWaiter'
  <2> SUFFICES ASSUME NiTypeOK, OneWaiter, [NiNext]_niVars PROVE OneWaiter'
    OBVIOUS
  <2>1. CASE RequestNiNotify
    <3> DEFINE r == Head(niQueue).req
    <3>1. r \in Requests /\ r # None
      BY <2>1, ConsumeTyping, RequestsAssumption DEF RequestNiNotify, Receives, NiTypeOK
    <3>2. CASE Free(r) /\ Admit(sessionFor(r), r)
      <4>1. sessionFor(r) \in Sessions /\ rawRequest[sessionFor(r)] = None
        BY <3>1, <3>2 DEF Free, sessionFor
      <4>2. waiting' = [waiting EXCEPT ![sessionFor(r)] = @ + 1]
        BY <3>2 DEF Admit
      <4>3. rawRequest' = [rawRequest EXCEPT ![sessionFor(r)] = r]
        BY <3>2 DEF Admit
      <4> QED
        BY <3>1, <4>1, <4>2, <4>3 DEF OneWaiter, NiTypeOK
    <3>3. CASE UNCHANGED <<fields, waiting, prompts>>
      BY <3>3, OneWaiterUnchanged DEF fields
    <3> QED
      BY <2>1, <3>2, <3>3 DEF RequestNiNotify
  <2>2. ASSUME NEW s \in Sessions, Wake(s) \/ TimeOut(s) PROVE OneWaiter'
    <3>1. /\ waiting[s] > 0
          /\ waiting' = [waiting EXCEPT ![s] = @ - 1]
          /\ rawRequest' = [rawRequest EXCEPT ![s] = None]
      BY <2>2 DEF Wake, TimeOut, Finish
    <3>2. waiting[s] = 1
      BY <3>1 DEF OneWaiter
    <3> QED
      BY <3>1, <3>2 DEF OneWaiter, NiTypeOK
  <2>3. CASE LookUpSession \/ InformNiResponse \/ ClientChanges
    BY <2>3, OneWaiterUnchanged
    DEF LookUpSession, InformNiResponse, ClientChanges, fields, threads
  <2>4. CASE IgnoreOther \/ SetResponse
    BY <2>4, OneWaiterUnchanged DEF IgnoreOther, SetResponse, Respond, threads
  <2>5. ASSUME NEW t \in leaving, ClearId(t) \/ SendResponse(t) PROVE OneWaiter'
    BY <2>5, OneWaiterUnchanged DEF ClearId, SendResponse, fields
  <2>6. ASSUME NEW r \in Requests, ModemAsks(r) PROVE OneWaiter'
    BY <2>6, OneWaiterUnchanged DEF ModemAsks, fields, threads
  <2>7. ASSUME NEW p \in prompts, NEW a \in UserAnswers, UserResponds(p, a) PROVE OneWaiter'
    BY <2>7, OneWaiterUnchanged DEF UserResponds, fields, threads
  <2>8. CASE UNCHANGED niVars
    BY <2>8, OneWaiterUnchanged DEF niVars, fields, threads
  <2> QED
    BY <2>1, <2>2, <2>3, <2>4, <2>5, <2>6, <2>7, <2>8
    DEF NiNext, MessageThread, NiThread, Environment
<1> QED
  BY <1>1, <1>2, TypeCorrect, PTL DEF NiSpec

-----------------------------------------------------------------------------
(***************************************************************************)
(* Where a request is.                                                     *)
(***************************************************************************)
\* The indexes of the messages of q that carry r: its notification and its answer.
Carriers(q, r) == {i \in DOMAIN q : q[i].msg # "response" /\ q[i].req = r}
InSessions(r) == {s \in Sessions : rawRequest[s] = r}
Taken(r) == {t \in leaving : t.req = r /\ Sends(t)}
Told(r) == {x \in heard : x.req = r}

FiniteParts == IsFiniteSet(leaving) /\ IsFiniteSet(heard)

\* A message added to the queue is one more carrier of the request it is about.
LEMMA CarriersAppend ==
  ASSUME NEW q \in Seq(NiMessage), NEW m \in NiMessage, NEW r
  PROVE  /\ Cardinality(Carriers(q, r)) \in Nat
         /\ Cardinality(Carriers(Append(q, m), r)) =
              Cardinality(Carriers(q, r)) + (IF m.msg # "response" /\ m.req = r THEN 1 ELSE 0)
<1>1. IsFiniteSet(DOMAIN q)
  BY FS_Interval
<1>2. IsFiniteSet(Carriers(q, r))
  BY <1>1, FS_Subset DEF Carriers
<1>3. /\ DOMAIN Append(q, m) = DOMAIN q \cup {Len(q) + 1} /\ Len(q) + 1 \notin DOMAIN q
      /\ \A i \in DOMAIN q : Append(q, m)[i] = q[i]
      /\ Append(q, m)[Len(q) + 1] = m
  OBVIOUS
<1>4. CASE m.msg # "response" /\ m.req = r
  <2>1. Carriers(Append(q, m), r) = Carriers(q, r) \cup {Len(q) + 1}
    BY <1>3, <1>4 DEF Carriers
  <2>2. Len(q) + 1 \notin Carriers(q, r)
    BY <1>3 DEF Carriers
  <2>3. Cardinality(Carriers(q, r) \cup {Len(q) + 1}) = Cardinality(Carriers(q, r)) + 1
    BY <1>2, <2>2, FS_AddElement
  <2> QED
    BY <1>2, <1>4, <2>1, <2>3, FS_CardinalityType
<1>5. CASE ~ (m.msg # "response" /\ m.req = r)
  <2>1. Carriers(Append(q, m), r) = Carriers(q, r)
    BY <1>3, <1>5 DEF Carriers
  <2> QED
    BY <1>2, <1>5, <2>1, FS_CardinalityType
<1> QED
  BY <1>4, <1>5

\* Taking the first message off is one carrier less of the request it was about.
LEMMA CarriersTail ==
  ASSUME NEW q \in Seq(NiMessage), q # <<>>, NEW r
  PROVE  /\ Cardinality(Carriers(q, r)) \in Nat /\ Cardinality(Carriers(Tail(q), r)) \in Nat
         /\ Cardinality(Carriers(q, r)) = Cardinality(Carriers(Tail(q), r))
              + (IF Head(q).msg # "response" /\ Head(q).req = r THEN 1 ELSE 0)
<1> DEFINE rest == Carriers(q, r) \ {1}
           f == [i \in Carriers(Tail(q), r) |-> i + 1]
<1>1. IsFiniteSet(DOMAIN q) /\ IsFiniteSet(DOMAIN Tail(q))
  BY FS_Interval
<1>2. IsFiniteSet(Carriers(q, r)) /\ IsFiniteSet(Carriers(Tail(q), r))
  BY <1>1, FS_Subset DEF Carriers
<1>3. /\ DOMAIN q = 1..Len(q) /\ DOMAIN Tail(q) = 1..Len(q) - 1 /\ Len(q) \in Nat \ {0}
      /\ \A i \in DOMAIN Tail(q) : Tail(q)[i] = q[i + 1]
  OBVIOUS
<1>4. f \in Bijection(Carriers(Tail(q), r), rest)
  <2>1. \A i \in Carriers(Tail(q), r) : i + 1 \in rest
    BY <1>3 DEF Carriers
  <2>2. \A j \in rest : j - 1 \in Carriers(Tail(q), r) /\ j = (j - 1) + 1
    BY <1>3 DEF Carriers
  <2>3. \A i, j \in Carriers(Tail(q), r) : i + 1 = j + 1 => i = j
    BY <1>3 DEF Carriers
  <2> QED
    BY <2>1, <2>2, <2>3 DEF Bijection, Injection, Surjection, IsInjective
<1>5. Cardinality(Carriers(Tail(q), r)) = Cardinality(rest)
  BY <1>2, <1>4, FS_Bijection DEF ExistsBijection
<1>6. 1 \in Carriers(q, r) <=> Head(q).msg # "response" /\ Head(q).req = r
  BY <1>3 DEF Carriers
<1> HIDE DEF f
<1>7. /\ Cardinality(Carriers(q, r)) \in Nat /\ Cardinality(Carriers(Tail(q), r)) \in Nat
      /\ Cardinality(rest) = IF 1 \in Carriers(q, r) THEN Cardinality(Carriers(q, r)) - 1
                             ELSE Cardinality(Carriers(q, r))
  BY <1>2, FS_CardinalityType, FS_RemoveElement
<1> QED
  BY <1>5, <1>6, <1>7

\* A thread that is about to answer took along a request that is answered.
SendersSend == \A t \in leaving : t.step = "send" => Sends(t)

\* The five summands of Places are natural numbers.
LEMMA PlacesTyping ==
  ASSUME NiTypeOK, FiniteParts, NEW r \in Requests
  PROVE  /\ IsFiniteSet(InSessions(r)) /\ Cardinality(InSessions(r)) \in Nat
         /\ IsFiniteSet(Taken(r)) /\ Cardinality(Taken(r)) \in Nat
         /\ IsFiniteSet(Carriers(niQueue, r)) /\ Cardinality(Carriers(niQueue, r)) \in Nat
         /\ IsFiniteSet(Told(r)) /\ Cardinality(Told(r)) \in Nat
         /\ Places(r) = Cardinality(InSessions(r)) + Cardinality(Taken(r))
              + Cardinality(Carriers(niQueue, r)) + Cardinality(Told(r))
              + (IF r \in freed THEN 1 ELSE 0)
<1>1. IsFiniteSet({"session"}) /\ IsFiniteSet({"session"} \cup {"sessionEs"})
  BY FS_Singleton, FS_AddElement
<1>2. IsFiniteSet(InSessions(r))
  BY <1>1, FS_Subset, {"session"} \cup {"sessionEs"} = Sessions DEF InSessions
<1>3. IsFiniteSet(Taken(r)) /\ IsFiniteSet(Told(r))
  BY FS_Subset DEF FiniteParts, Taken, Told
<1>4. IsFiniteSet(DOMAIN niQueue)
  BY FS_Interval DEF NiTypeOK
<1>5. IsFiniteSet(Carriers(niQueue, r))
  BY <1>4, FS_Subset DEF Carriers
<1>6. Places(r) = Cardinality(InSessions(r)) + Cardinality(Taken(r))
              + Cardinality(Carriers(niQueue, r)) + Cardinality(Told(r))
              + (IF r \in freed THEN 1 ELSE 0)
  BY Zenon DEF Places, InSessions, Taken, Carriers, Told
<1> QED
  BY <1>2, <1>3, <1>5, <1>6, FS_CardinalityType

\* The sets of leaving threads and of answers heard grow by one element at a time.
LEMMA FinitePartsKept ==
  ASSUME FiniteParts, [NiNext]_niVars
  PROVE  FiniteParts'
<1> USE DEF FiniteParts
<1>1. CASE UNCHANGED <<leaving, heard>>
  BY <1>1
<1>2. ASSUME NEW s \in Sessions, NEW a, Finish(s, a), UNCHANGED heard PROVE FiniteParts'
  BY <1>2, FS_AddElement DEF Finish
<1>3. CASE InformNiResponse
  BY <1>3, FS_AddElement DEF InformNiResponse, threads
<1>4. ASSUME NEW t \in leaving, ClearId(t) PROVE FiniteParts'
  <2>1. IsFiniteSet(leaving \ {t})
    BY FS_RemoveElement
  <2>2. IsFiniteSet((leaving \ {t}) \cup {[t EXCEPT !.step = "send"]})
    BY <2>1, FS_AddElement
  <2>3. (leaving \ {t}) \cup {} = leaving \ {t}
    OBVIOUS
  <2> QED
    BY <1>4, <2>1, <2>2, <2>3 DEF ClearId, ghosts
<1>5. ASSUME NEW t \in leaving, SendResponse(t) PROVE FiniteParts'
  BY <1>5, FS_RemoveElement DEF SendResponse, ghosts
<1>6. CASE RequestNiNotify \/ LookUpSession
  BY <1>1, <1>6 DEF RequestNiNotify, LookUpSession, threads
<1>7. CASE IgnoreOther \/ SetResponse
  BY <1>1, <1>7 DEF IgnoreOther, SetResponse, threads, ghosts
<1>8. CASE Environment
  BY <1>1, <1>8 DEF Environment, ModemAsks, UserResponds, ClientChanges, threads, ghosts
<1>9. CASE UNCHANGED niVars
  BY <1>1, <1>9 DEF niVars, threads, ghosts
<1> QED
  BY <1>2, <1>3, <1>4, <1>5, <1>6, <1>7, <1>8, <1>9
  DEF NiNext, MessageThread, NiThread, Wake, TimeOut

LEMMA SendersSendKept ==
  ASSUME NiTypeOK, SendersSend, [NiNext]_niVars
  PROVE  SendersSend'
<1> USE DEF SendersSend, Sends
<1>1. CASE UNCHANGED leaving
  BY <1>1
<1>2. ASSUME NEW s \in Sessions, NEW a, Finish(s, a) PROVE SendersSend'
  BY <1>2 DEF Finish
<1>3. ASSUME NEW t \in leaving, ClearId(t) PROVE SendersSend'
  <2>1. /\ leaving' \subseteq leaving \cup (IF Sends(t) THEN {[t EXCEPT !.step = "send"]} ELSE {})
        /\ [t EXCEPT !.step = "send"].req = t.req /\ [t EXCEPT !.step = "send"].resp = t.resp
    BY <1>3 DEF ClearId, NiTypeOK
  <2> QED
    BY <2>1
<1>4. ASSUME NEW t \in leaving, SendResponse(t) PROVE SendersSend'
  BY <1>4 DEF SendResponse
<1>5. CASE RequestNiNotify \/ LookUpSession \/ InformNiResponse
  BY <1>1, <1>5 DEF RequestNiNotify, LookUpSession, InformNiResponse, threads
<1>6. CASE IgnoreOther \/ SetResponse
  BY <1>1, <1>6 DEF IgnoreOther, SetResponse, threads
<1>7. CASE Environment
  BY <1>1, <1>7 DEF Environment, ModemAsks, UserResponds, ClientChanges, threads
<1>8. CASE UNCHANGED niVars
  BY <1>1, <1>8 DEF niVars, threads
<1> QED
  BY <1>2, <1>3, <1>4, <1>5, <1>6, <1>7, <1>8
  DEF NiNext, MessageThread, NiThread, Wake, TimeOut

\* The modem sends r, which is not anywhere yet.
Arrives(r) == r \notin sent /\ r \in sent' /\ Places(r)' = Places(r) + 1

\* Its notification is dropped because no client has a gnssNiCb.
Dropped(r) ==
  /\ Receives("notify") /\ Head(niQueue).req = r /\ ~niClient
  /\ UNCHANGED prompts
  /\ Places(r)' \in Nat /\ Places(r) = Places(r)' + 1

\* A step moves a request from one place to another; only the modem adds one, and only a
\* notification without a client is lost.
Conserves(r) == Places(r)' = Places(r) \/ Arrives(r) \/ Dropped(r)

\* Places, before and after a step, with its sets named.
LEMMA PlacesSum ==
  ASSUME NEW r
  PROVE  /\ Places(r) = Cardinality(InSessions(r)) + Cardinality(Taken(r))
              + Cardinality(Carriers(niQueue, r)) + Cardinality(Told(r))
              + (IF r \in freed THEN 1 ELSE 0)
         /\ Places(r)' = Cardinality(InSessions(r)') + Cardinality(Taken(r)')
              + Cardinality(Carriers(niQueue', r)) + Cardinality(Told(r)')
              + (IF r \in freed' THEN 1 ELSE 0)
  BY Zenon DEF Places, InSessions, Taken, Carriers, Told

LEMMA PlacesUnchanged ==
  ASSUME UNCHANGED <<rawRequest, leaving, niQueue, heard, freed>>, NEW r
  PROVE  Places(r)' = Places(r)
  BY Zenon DEF Places

LEMMA AnswerMovesNothing ==
  ASSUME NiTypeOK, FiniteParts, LookUpSession, NEW r \in Requests
  PROVE  Places(r)' = Places(r)
<1>1. /\ niQueue # <<>> /\ niQueue' = Tail(niQueue) /\ Head(niQueue).msg = "response"
      /\ UNCHANGED <<rawRequest, leaving, heard, freed>>
  BY DEF LookUpSession, Receives, TakeOff, fields, threads
<1>2. InSessions(r)' = InSessions(r) /\ Taken(r)' = Taken(r) /\ Told(r)' = Told(r)
  BY <1>1 DEF InSessions, Taken, Told
<1>3. /\ Cardinality(Carriers(niQueue, r)) = Cardinality(Carriers(niQueue', r))
      /\ Cardinality(Carriers(niQueue', r)) \in Nat
  BY <1>1, CarriersTail DEF NiTypeOK
<1> QED
  BY <1>1, <1>2, <1>3, PlacesSum, PlacesTyping

\* The message thread has a notification: the request goes from the queue into its session
\* or is freed, or it is dropped.
LEMMA NotifyMoves ==
  ASSUME NiTypeOK, FiniteParts, RequestNiNotify, NEW r \in Requests, Places(r) <= 1
  PROVE  Places(r)' = Places(r) \/ Dropped(r)
<1> DEFINE r0 == Head(niQueue).req
           moved == IF r0 = r THEN 1 ELSE 0
<1>1. /\ niQueue # <<>> /\ niQueue' = Tail(niQueue) /\ Head(niQueue).msg = "notify"
      /\ UNCHANGED <<leaving, heard>> /\ r0 \in Requests
  BY ConsumeTyping DEF RequestNiNotify, Receives, TakeOff, NiTypeOK
<1>2. Taken(r)' = Taken(r) /\ Told(r)' = Told(r)
  BY <1>1 DEF Taken, Told
<1>3. Cardinality(Carriers(niQueue, r)) = Cardinality(Carriers(niQueue', r)) + moved
  BY <1>1, CarriersTail DEF NiTypeOK
<1>4. /\ Cardinality(InSessions(r)) \in Nat /\ Cardinality(Taken(r)) \in Nat
      /\ Cardinality(Carriers(niQueue, r)) \in Nat /\ Cardinality(Told(r)) \in Nat
      /\ Cardinality(Carriers(niQueue', r)) \in Nat /\ IsFiniteSet(InSessions(r))
  BY <1>1, PlacesTyping, CarriersTail DEF NiTypeOK
<1>5. CASE niClient /\ Free(r0) /\ Admit(sessionFor(r0), r0)
  <2>1. rawRequest[sessionFor(r0)] = None /\ sessionFor(r0) \in Sessions
    BY <1>5 DEF Free, sessionFor
  <2>2. rawRequest' = [rawRequest EXCEPT ![sessionFor(r0)] = r0] /\ UNCHANGED freed
    BY <1>5 DEF Admit
  <2>3. CASE r0 = r
    <3>1. /\ InSessions(r)' = InSessions(r) \cup {sessionFor(r0)}
          /\ sessionFor(r0) \notin InSessions(r)
      BY <2>1, <2>2, <2>3, <1>1, RequestsAssumption DEF InSessions, NiTypeOK
    <3>2. Cardinality(InSessions(r)') = Cardinality(InSessions(r)) + 1
      BY <3>1, <1>4, FS_AddElement
    <3> QED
      BY <1>2, <1>3, <1>4, <2>2, <2>3, <3>2, PlacesSum
  <2>4. CASE r0 # r
    <3>1. InSessions(r)' = InSessions(r)
      BY <2>1, <2>2, <2>4, RequestsAssumption DEF InSessions, NiTypeOK
    <3> QED
      BY <1>2, <1>3, <1>4, <2>2, <2>4, <3>1, PlacesSum
  <2> QED
    BY <2>3, <2>4
<1>6. CASE freed' = freed \cup {r0} /\ UNCHANGED <<fields, waiting, prompts>>
  <2>1. InSessions(r)' = InSessions(r)
    BY <1>6 DEF InSessions, fields
  <2>2. r0 = r => r \notin freed
    BY <1>3, <1>4, PlacesSum
  <2> QED
    BY <1>2, <1>3, <1>4, <1>6, <2>1, <2>2, PlacesSum
<1>7. CASE ~niClient /\ UNCHANGED <<fields, waiting, prompts, freed>>
  <2>1. InSessions(r)' = InSessions(r)
    BY <1>7 DEF InSessions, fields
  <2>2. Places(r) = Places(r)' + moved
    BY <1>2, <1>3, <1>4, <1>7, <2>1, PlacesSum
  <2>3. Places(r)' \in Nat
    BY <1>2, <1>4, <1>7, <2>1, PlacesSum
  <2> QED
    BY <1>1, <1>7, <2>2, <2>3 DEF Dropped, RequestNiNotify
<1> QED
  BY <1>5, <1>6, <1>7 DEF RequestNiNotify

\* A thread stops waiting: the request leaves its session with the thread, or is freed.
LEMMA FinishMoves ==
  ASSUME NiTypeOK, FiniteParts, NEW r \in Requests, Places(r) <= 1,
         NEW s \in Sessions, NEW a, Finish(s, a), UNCHANGED <<niQueue, heard>>
  PROVE  Places(r)' = Places(r)
<1> DEFINE t == [session |-> s, req |-> rawRequest[s], resp |-> a, step |-> "clear"]
<1>1. /\ rawRequest' = [rawRequest EXCEPT ![s] = None] /\ leaving' = leaving \cup {t}
      /\ freed' = IF rawRequest[s] # None /\ a = "IGNORE" THEN freed \cup {rawRequest[s]} ELSE freed
  BY DEF Finish
<1>2. Told(r)' = Told(r)
  BY DEF Told
<1>3. /\ Cardinality(InSessions(r)) \in Nat /\ Cardinality(Taken(r)) \in Nat
      /\ Cardinality(Carriers(niQueue, r)) \in Nat /\ Cardinality(Told(r)) \in Nat
      /\ IsFiniteSet(InSessions(r)) /\ IsFiniteSet(Taken(r))
  BY PlacesTyping
<1>4. CASE rawRequest[s] # r
  <2>1. InSessions(r)' = InSessions(r) /\ (r \in freed' <=> r \in freed)
    BY <1>1, <1>4, RequestsAssumption DEF InSessions, NiTypeOK
  <2>2. Taken(r)' = Taken(r)
    BY <1>1, <1>4 DEF Taken, Sends
  <2> QED
    BY <1>2, <1>3, <2>1, <2>2, PlacesSum
<1>5. CASE rawRequest[s] = r
  <2>1. r # None
    BY RequestsAssumption
  <2>2. InSessions(r)' = InSessions(r) \ {s} /\ s \in InSessions(r)
    BY <1>1, <1>5, <2>1 DEF InSessions, NiTypeOK
  <2>3. Cardinality(InSessions(r)') = Cardinality(InSessions(r)) - 1
    BY <1>3, <2>2, FS_RemoveElement
  <2>4. Cardinality(InSessions(r)) # 0
    BY <1>3, <2>2, FS_EmptySet
  <2>5. Cardinality(Taken(r)) = 0 /\ r \notin freed
    BY <1>3, <2>4, PlacesSum
  <2>6. CASE a = "IGNORE"
    <3>1. Taken(r)' = Taken(r)
      BY <1>1, <2>6 DEF Taken, Sends
    <3> QED
      BY <1>1, <1>2, <1>3, <1>5, <2>1, <2>3, <2>5, <2>6, <3>1, PlacesSum
  <2>7. CASE a # "IGNORE"
    <3>1. Taken(r)' = Taken(r) \cup {t}
      BY <1>1, <1>5, <2>1, <2>7 DEF Taken, Sends
    <3>2. Taken(r) = {}
      BY <1>3, <2>5, FS_EmptySet
    <3>3. Cardinality(Taken(r)') = Cardinality(Taken(r)) + 1
      BY <1>3, <3>1, <3>2, FS_AddElement
    <3>4. freed' = freed /\ Told(r)' = Told(r) /\ niQueue' = niQueue
      BY <1>1, <1>2, <2>7
    <3>5. Cardinality(InSessions(r)') + Cardinality(Taken(r)') = Cardinality(InSessions(r)) + Cardinality(Taken(r))
      BY <1>3, <2>3, <3>3
    <3> QED
      BY <1>3, <3>4, <3>5, PlacesSum
  <2> QED
    BY <2>6, <2>7
<1> QED
  BY <1>4, <1>5

\* A thread clears the id of its session and keeps the request it is to answer.
LEMMA ClearMoves ==
  ASSUME NiTypeOK, FiniteParts, NEW r \in Requests, Places(r) <= 1,
         NEW t \in leaving, ClearId(t)
  PROVE  Places(r)' = Places(r)
<1> DEFINE next == [t EXCEPT !.step = "send"]
<1>1. /\ leaving' = (leaving \ {t}) \cup (IF Sends(t) THEN {next} ELSE {})
      /\ UNCHANGED <<rawRequest, niQueue, heard, freed>>
  BY DEF ClearId, user, ghosts
<1>2. InSessions(r)' = InSessions(r) /\ Told(r)' = Told(r)
  BY <1>1 DEF InSessions, Told
<1>3. next.req = t.req /\ next.resp = t.resp
  BY DEF NiTypeOK
<1>4. /\ Cardinality(InSessions(r)) \in Nat /\ Cardinality(Taken(r)) \in Nat
      /\ Cardinality(Carriers(niQueue, r)) \in Nat /\ Cardinality(Told(r)) \in Nat
      /\ IsFiniteSet(Taken(r))
  BY PlacesTyping
<1> HIDE DEF next
<1>5. CASE Sends(t) /\ t.req = r
  <2>1. t \in Taken(r) /\ Taken(r)' = (Taken(r) \ {t}) \cup {next}
    BY <1>1, <1>3, <1>5 DEF Taken, Sends
  <2>2. IsFiniteSet(Taken(r) \ {t}) /\ Cardinality(Taken(r) \ {t}) = Cardinality(Taken(r)) - 1
    BY <1>4, <2>1, FS_RemoveElement
  <2>3. Cardinality(Taken(r)) = 1
    BY <1>4, <2>1, FS_EmptySet, PlacesSum
  <2>4. Taken(r) \ {t} = {}
    BY <2>2, <2>3, FS_EmptySet
  <2>5. Cardinality(Taken(r)') = 1
    BY <2>1, <2>4, FS_Singleton
  <2> QED
    BY <1>1, <1>2, <2>3, <2>5, PlacesSum
<1>6. CASE ~ (Sends(t) /\ t.req = r)
  <2>1. Taken(r)' = Taken(r)
    BY <1>1, <1>3, <1>6 DEF Taken, Sends
  <2> QED
    BY <1>1, <1>2, <2>1, PlacesSum
<1> QED
  BY <1>5, <1>6

\* A thread sends its answer: the request goes from the thread into a message.
LEMMA SendMoves ==
  ASSUME NiTypeOK, FiniteParts, SendersSend, NEW r \in Requests,
         NEW t \in leaving, SendResponse(t)
  PROVE  Places(r)' = Places(r)
<1> DEFINE moved == IF t.req = r THEN 1 ELSE 0
<1>1. /\ leaving' = leaving \ {t} /\ niQueue' = Append(niQueue, Inform(t.req, t.resp))
      /\ UNCHANGED <<rawRequest, heard, freed>>
  BY DEF SendResponse, fields, ghosts
<1>2. InSessions(r)' = InSessions(r) /\ Told(r)' = Told(r)
  BY <1>1 DEF InSessions, Told
<1>3. /\ Cardinality(InSessions(r)) \in Nat /\ Cardinality(Taken(r)) \in Nat
      /\ Cardinality(Carriers(niQueue, r)) \in Nat /\ Cardinality(Told(r)) \in Nat
      /\ IsFiniteSet(Taken(r))
  BY PlacesTyping
<1>4. /\ Inform(t.req, t.resp) \in NiMessage /\ Inform(t.req, t.resp).msg # "response"
      /\ Inform(t.req, t.resp).req = t.req
  BY DEF Inform, SendResponse, NiTypeOK
<1>5. Cardinality(Carriers(niQueue', r)) = Cardinality(Carriers(niQueue, r)) + moved
  BY <1>1, <1>4, CarriersAppend DEF NiTypeOK
<1>6. Sends(t)
  BY DEF SendResponse, SendersSend
<1>7. Taken(r)' = Taken(r) \ {t} /\ (t \in Taken(r) <=> t.req = r)
  BY <1>1, <1>6 DEF Taken, Sends
<1>8. Cardinality(Taken(r) \ {t})
        = IF t \in Taken(r) THEN Cardinality(Taken(r)) - 1 ELSE Cardinality(Taken(r))
  BY <1>3, FS_RemoveElement
<1>9. Cardinality(Taken(r)') = Cardinality(Taken(r)) - moved
  BY <1>3, <1>7, <1>8
<1> QED
  BY <1>1, <1>2, <1>3, <1>5, <1>9, PlacesSum

\* The modem is told: the request goes from the message into what it has heard.
LEMMA InformMoves ==
  ASSUME NiTypeOK, FiniteParts, InformNiResponse, NEW r \in Requests, Places(r) <= 1
  PROVE  Places(r)' = Places(r)
<1> DEFINE x == [req |-> Head(niQueue).req, resp |-> Head(niQueue).resp]
           moved == IF x.req = r THEN 1 ELSE 0
<1>1. /\ niQueue # <<>> /\ niQueue' = Tail(niQueue) /\ Head(niQueue).msg = "inform"
      /\ heard' = heard \cup {x} /\ UNCHANGED <<rawRequest, leaving, freed>>
  BY DEF InformNiResponse, Receives, TakeOff, fields, threads
<1>2. InSessions(r)' = InSessions(r) /\ Taken(r)' = Taken(r)
  BY <1>1 DEF InSessions, Taken
<1>3. /\ Cardinality(InSessions(r)) \in Nat /\ Cardinality(Taken(r)) \in Nat
      /\ Cardinality(Carriers(niQueue, r)) \in Nat /\ Cardinality(Told(r)) \in Nat
      /\ IsFiniteSet(Told(r))
  BY PlacesTyping
<1>4. /\ Cardinality(Carriers(niQueue, r)) = Cardinality(Carriers(niQueue', r)) + moved
      /\ Cardinality(Carriers(niQueue', r)) \in Nat
  BY <1>1, CarriersTail DEF NiTypeOK
<1>5. CASE x.req = r
  <2>1. Cardinality(Told(r)) = 0
    BY <1>3, <1>4, <1>5, PlacesSum
  <2>2. Told(r) = {}
    BY <1>3, <2>1, FS_EmptySet
  <2>3. Told(r)' = {x} /\ Cardinality({x}) = 1
    BY <1>1, <1>5, <2>2, FS_Singleton DEF Told
  <2>4. Cardinality(Told(r)') = 1
    BY <2>3
  <2> QED
    BY <1>1, <1>2, <1>3, <1>4, <1>5, <2>1, <2>4, PlacesSum
<1>6. CASE x.req # r
  <2>1. Told(r)' = Told(r)
    BY <1>1, <1>6 DEF Told
  <2> QED
    BY <1>1, <1>2, <1>3, <1>4, <1>6, <2>1, PlacesSum
<1> QED
  BY <1>5, <1>6

\* A message of the modem or of the user is added: only the request notified gains a place.
LEMMA PostMoves ==
  ASSUME NiTypeOK, FiniteParts, NEW r \in Requests, NEW m \in NiMessage,
         niQueue' = Append(niQueue, m), UNCHANGED <<rawRequest, leaving, heard, freed>>
  PROVE  Places(r)' = Places(r) + (IF m.msg # "response" /\ m.req = r THEN 1 ELSE 0)
<1>1. InSessions(r)' = InSessions(r) /\ Told(r)' = Told(r) /\ Taken(r)' = Taken(r)
  BY DEF InSessions, Told, Taken
<1>2. /\ Cardinality(InSessions(r)) \in Nat /\ Cardinality(Taken(r)) \in Nat
      /\ Cardinality(Carriers(niQueue, r)) \in Nat /\ Cardinality(Told(r)) \in Nat
  BY PlacesTyping
<1>3. Cardinality(Carriers(niQueue', r))
        = Cardinality(Carriers(niQueue, r)) + (IF m.msg # "response" /\ m.req = r THEN 1 ELSE 0)
  BY CarriersAppend DEF NiTypeOK
<1> QED
  BY <1>1, <1>2, <1>3, PlacesSum

LEMMA StepsConserve ==
  ASSUME NiTypeOK, FiniteParts, SendersSend, [NiNext]_niVars, NEW r \in Requests, Places(r) <= 1
  PROVE  Conserves(r)
<1> USE DEF Conserves
<1>1. CASE RequestNiNotify
  BY <1>1, NotifyMoves
<1>2. CASE LookUpSession
  BY <1>2, AnswerMovesNothing
<1>3. CASE InformNiResponse
  BY <1>3, InformMoves
<1>4. ASSUME NEW s \in Sessions, Wake(s) \/ TimeOut(s) PROVE Conserves(r)
  BY <1>4, FinishMoves DEF Wake, TimeOut
<1>5. ASSUME NEW t \in leaving, ClearId(t) \/ SendResponse(t) PROVE Conserves(r)
  BY <1>5, ClearMoves, SendMoves
<1>6. ASSUME NEW r0 \in Requests, ModemAsks(r0) PROVE Conserves(r)
  <2>1. /\ Notify(r0) \in NiMessage /\ Notify(r0).msg # "response" /\ Notify(r0).req = r0
        /\ niQueue' = Append(niQueue, Notify(r0)) /\ UNCHANGED <<rawRequest, leaving, heard, freed>>
        /\ r0 \notin sent /\ r0 \in sent'
    BY <1>6 DEF Notify, ModemAsks, fields, threads
  <2>2. Places(r)' = Places(r) + (IF r0 = r THEN 1 ELSE 0)
    BY <2>1, PostMoves
  <2>3. Places(r) \in Nat
    BY PlacesTyping
  <2> QED
    BY <2>1, <2>2, <2>3 DEF Arrives
<1>7. ASSUME NEW p \in prompts, NEW a \in UserAnswers, UserResponds(p, a) PROVE Conserves(r)
  <2>1. /\ Answer(p.id, a) \in NiMessage /\ Answer(p.id, a).msg = "response"
        /\ niQueue' = Append(niQueue, Answer(p.id, a))
        /\ UNCHANGED <<rawRequest, leaving, heard, freed>>
    BY <1>7 DEF Answer, UserResponds, fields, threads, ghosts, NiTypeOK
  <2>2. Places(r)' = Places(r) + 0
    BY <2>1, PostMoves
  <2>3. Places(r) \in Nat
    BY PlacesTyping
  <2> QED
    BY <2>2, <2>3
<1>8. CASE IgnoreOther \/ SetResponse
  BY <1>8, PlacesUnchanged DEF IgnoreOther, SetResponse, Respond, threads, ghosts
<1>9. CASE ClientChanges
  BY <1>9, PlacesUnchanged DEF ClientChanges, fields, threads, ghosts
<1>10. CASE UNCHANGED niVars
  BY <1>10, PlacesUnchanged DEF niVars, fields, threads, ghosts
<1> QED
  BY <1>1, <1>2, <1>3, <1>4, <1>5, <1>6, <1>7, <1>8, <1>9, <1>10
  DEF NiNext, MessageThread, NiThread, Environment

-----------------------------------------------------------------------------
(***************************************************************************)
(* The request object is owned once.                                       *)
(***************************************************************************)
Prompted(r) == \E p \in prompts : p.req = r

\* A request the modem has not sent is nowhere and the user has not been asked about it.
UnsentNowhere == \A r \in Requests : r \notin sent => Places(r) = 0 /\ ~Prompted(r)

\* The induction hypothesis of the counting: types, finite parts, one place per request.
Owned == NiTypeOK /\ FiniteParts /\ SendersSend /\ PayloadOwnedOnce /\ UnsentNowhere

LEMMA PromptsComeFromQueue ==
  ASSUME NiTypeOK, [NiNext]_niVars, NEW r, ~Prompted(r), Prompted(r)'
  PROVE  /\ RequestNiNotify /\ Head(niQueue).req = r /\ r \in Requests
         /\ rawRequest' = [rawRequest EXCEPT ![sessionFor(r)] = r]
         /\ rawRequest[sessionFor(r)] = None
         /\ reqIDCounter' = reqIDCounter + 1
         /\ reqID' = [reqID EXCEPT ![sessionFor(r)] = reqIDCounter + 1]
         /\ prompts' = prompts \cup {[id |-> reqIDCounter + 1, req |-> r]}
         /\ UNCHANGED <<freed, resp, respRecvd>>
<1>1. prompts' # prompts
  BY DEF Prompted
<1>2. RequestNiNotify
  BY <1>1 DEF NiNext, MessageThread, LookUpSession, IgnoreOther, SetResponse, InformNiResponse,
    NiThread, Wake, TimeOut, ClearId, SendResponse, Environment, ModemAsks, UserResponds,
    ClientChanges, niVars, user
<1>3. Head(niQueue).req \in Requests
  BY <1>2, ConsumeTyping DEF RequestNiNotify, Receives, NiTypeOK
<1>4. Free(Head(niQueue).req) /\ Admit(sessionFor(Head(niQueue).req), Head(niQueue).req)
  BY <1>1, <1>2 DEF RequestNiNotify
<1>5. Head(niQueue).req = r
  BY <1>4 DEF Admit, Prompted
<1> QED
  BY <1>2, <1>3, <1>4, <1>5 DEF Admit, Free, sessionFor

LEMMA SentGrows ==
  ASSUME [NiNext]_niVars
  PROVE  sent \subseteq sent'
  BY DEF NiNext, MessageThread, RequestNiNotify, LookUpSession, IgnoreOther, SetResponse,
    InformNiResponse, NiThread, Wake, TimeOut, ClearId, SendResponse, Environment, ModemAsks,
    UserResponds, ClientChanges, niVars, ghosts

LEMMA OwnedKept ==
  ASSUME Owned, [NiNext]_niVars
  PROVE  Owned'
<1>1. NiTypeOK' /\ FiniteParts' /\ SendersSend'
  BY TypeKept, FinitePartsKept, SendersSendKept DEF Owned
<1>2. \A r \in Requests : Conserves(r) /\ Places(r) \in Nat
  BY <1>1, StepsConserve, PlacesTyping DEF Owned, PayloadOwnedOnce
<1>3. ASSUME NEW r \in Requests PROVE Places(r)' <= 1
  BY <1>2 DEF Conserves, Arrives, Dropped, Owned, PayloadOwnedOnce, UnsentNowhere
<1>4. ASSUME NEW r \in Requests, r \notin sent' PROVE Places(r)' = 0 /\ ~Prompted(r)'
  <2>1. r \notin sent
    BY <1>4, SentGrows
  <2>2. Places(r) = 0 /\ ~Prompted(r)
    BY <2>1 DEF Owned, UnsentNowhere
  <2>3. Places(r)' = 0
    BY <1>2, <1>4, <2>2 DEF Conserves, Arrives, Dropped
  <2>4. ASSUME Prompted(r)' PROVE FALSE
    <3>1. RequestNiNotify /\ Head(niQueue).req = r
      BY <2>2, <2>4, PromptsComeFromQueue DEF Owned
    <3>2. Cardinality(Carriers(niQueue, r)) = Cardinality(Carriers(Tail(niQueue), r)) + 1
          /\ Cardinality(Carriers(Tail(niQueue), r)) \in Nat
      BY <3>1, CarriersTail DEF RequestNiNotify, Receives, Owned, NiTypeOK
    <3> QED
      BY <2>2, <3>2, PlacesTyping, PlacesSum DEF Owned
  <2> QED
    BY <2>3, <2>4
<1> QED
  BY <1>1, <1>3, <1>4 DEF Owned, PayloadOwnedOnce, UnsentNowhere

\* The induction hypothesis holds in every state.
LEMMA AlwaysOwned == NiSpec => []Owned
<1>1. NiInit => Owned
  <2> SUFFICES ASSUME NiInit PROVE Owned
    OBVIOUS
  <2>1. NiTypeOK
    BY RequestsAssumption DEF NiInit, NiTypeOK, Idle
  <2>2. FiniteParts /\ SendersSend
    BY FS_EmptySet DEF NiInit, FiniteParts, SendersSend
  <2>3. ASSUME NEW r \in Requests PROVE Places(r) = 0 /\ ~Prompted(r)
    <3>1. InSessions(r) = {} /\ Taken(r) = {} /\ Told(r) = {} /\ Carriers(niQueue, r) = {}
      BY RequestsAssumption DEF NiInit, InSessions, Taken, Told, Carriers
    <3>2. Cardinality({}) = 0 /\ r \notin freed
      BY FS_EmptySet DEF NiInit
    <3>3. Places(r) = Cardinality({}) + Cardinality({}) + Cardinality({}) + Cardinality({})
                        + (IF r \in freed THEN 1 ELSE 0)
      BY <3>1, PlacesSum, Zenon
    <3>4. Places(r) = 0
      BY <3>2, <3>3
    <3> QED
      BY <3>4 DEF NiInit, Prompted
  <2> QED
    BY <2>1, <2>2, <2>3 DEF Owned, PayloadOwnedOnce, UnsentNowhere
<1>2. Owned /\ [NiNext]_niVars => Owned'
  BY OwnedKept
<1> QED
  BY <1>1, <1>2, PTL DEF NiSpec

\* The modem's request is at any moment in at most one session, thread or message, freed
\* or answered: no step of the message thread or of an NI thread copies it, whatever their
\* order, and whether or not the threads could be created.
THEOREM RequestOwnedOnce == NiSpec => []PayloadOwnedOnce
<1>1. Owned => PayloadOwnedOnce
  BY DEF Owned
<1> QED
  BY <1>1, AlwaysOwned, PTL

-----------------------------------------------------------------------------
(***************************************************************************)
(* An emergency request is never dropped.                                  *)
(***************************************************************************)
\* A request whose notification is still queued has not been put to the user.
NotifiedOnce ==
  \A i \in DOMAIN niQueue : niQueue[i].msg = "notify" => ~Prompted(niQueue[i].req)

\* Every request is in the session of its kind.
SessionKinds == \A s \in Sessions : rawRequest[s] # None => sessionFor(rawRequest[s]) = s

\* Nobody tells the ES session to ignore its request.
EsNotIgnored ==
  /\ handler.step # "idle" => handler.resp # "IGNORE"
  /\ respRecvd["sessionEs"] => resp["sessionEs"] # "IGNORE"

EsKept == Owned /\ NotifiedOnce /\ SessionKinds /\ EsNotIgnored /\ EsNeverDropped

\* A request in the first message of the queue is in no other message and nowhere else.
LEMMA HeadOwnsRequest ==
  ASSUME Owned, niQueue # <<>>, Head(niQueue).msg # "response"
  PROVE  LET r == Head(niQueue).req IN
         /\ r \in Requests /\ Places(r) = 1 /\ Carriers(Tail(niQueue), r) = {} /\ r \notin freed
<1> DEFINE r == Head(niQueue).req
<1>1. r \in Requests
  BY ConsumeTyping DEF Owned, NiTypeOK
<1>2. /\ Cardinality(Carriers(niQueue, r)) = Cardinality(Carriers(Tail(niQueue), r)) + 1
      /\ Cardinality(Carriers(Tail(niQueue), r)) \in Nat
  BY CarriersTail DEF Owned, NiTypeOK
<1>3. /\ Cardinality(InSessions(r)) \in Nat /\ Cardinality(Taken(r)) \in Nat
      /\ Cardinality(Told(r)) \in Nat /\ Places(r) <= 1
  BY <1>1, PlacesTyping DEF Owned, PayloadOwnedOnce
<1> HIDE DEF r
<1>4. /\ Places(r) = 1 /\ Cardinality(Carriers(Tail(niQueue), r)) = 0
      /\ r \notin freed
  BY <1>2, <1>3, PlacesSum
<1>5. IsFiniteSet(DOMAIN Tail(niQueue))
  BY FS_Interval DEF Owned, NiTypeOK
<1>6. IsFiniteSet(Carriers(Tail(niQueue), r))
  BY <1>5, FS_Subset DEF Carriers
<1>7. Carriers(Tail(niQueue), r) = {}
  BY <1>4, <1>6, FS_EmptySet
<1> QED
  BY <1>1, <1>4, <1>7 DEF r

LEMMA SessionKindsKept ==
  ASSUME NiTypeOK, SessionKinds, [NiNext]_niVars
  PROVE  SessionKinds'
<1> USE DEF SessionKinds
<1>1. CASE UNCHANGED rawRequest
  BY <1>1
<1>2. CASE RequestNiNotify
  <2> DEFINE r == Head(niQueue).req
  <2>1. CASE Admit(sessionFor(r), r)
    <3>1. sessionFor(r) \in Sessions
      BY DEF sessionFor
    <3> HIDE DEF r
    <3> QED
      BY <2>1, <3>1 DEF Admit, NiTypeOK
  <2>2. CASE UNCHANGED fields
    BY <1>1, <2>2 DEF fields
  <2> QED
    BY <1>2, <2>1, <2>2 DEF RequestNiNotify
<1>3. ASSUME NEW s \in Sessions, NEW a, Finish(s, a) PROVE SessionKinds'
  BY <1>3 DEF Finish, NiTypeOK
<1>4. CASE LookUpSession \/ InformNiResponse
  BY <1>1, <1>4 DEF LookUpSession, InformNiResponse, fields
<1>5. CASE IgnoreOther \/ SetResponse
  BY <1>1, <1>5 DEF IgnoreOther, SetResponse, Respond
<1>6. ASSUME NEW t \in leaving, ClearId(t) \/ SendResponse(t) PROVE SessionKinds'
  BY <1>1, <1>6 DEF ClearId, SendResponse, fields
<1>7. CASE Environment
  BY <1>1, <1>7 DEF Environment, ModemAsks, UserResponds, ClientChanges, fields
<1>8. CASE UNCHANGED niVars
  BY <1>1, <1>8 DEF niVars, fields
<1> QED
  BY <1>2, <1>3, <1>4, <1>5, <1>6, <1>7, <1>8
  DEF NiNext, MessageThread, NiThread, Wake, TimeOut

LEMMA EsNotIgnoredKept ==
  ASSUME NiTypeOK, EsNotIgnored, [NiNext]_niVars
  PROVE  EsNotIgnored'
<1> USE DEF EsNotIgnored
<1>1. CASE UNCHANGED <<handler, respRecvd, resp>>
  BY <1>1
<1>2. CASE RequestNiNotify
  BY <1>1, <1>2 DEF RequestNiNotify, Admit, fields
<1>3. ASSUME NEW s \in Sessions, NEW a, Finish(s, a), UNCHANGED handler PROVE EsNotIgnored'
  BY <1>3 DEF Finish, NiTypeOK
<1>4. CASE LookUpSession
  <2>1. Head(niQueue).resp \in UserAnswers
    BY <1>4, ConsumeTyping DEF LookUpSession, Receives, NiTypeOK
  <2>2. Head(niQueue).resp # "IGNORE"
    BY <2>1, AnswersAssumption
  <2> QED
    BY <1>4, <2>2 DEF LookUpSession, fields
<1>5. CASE IgnoreOther \/ SetResponse
  BY <1>5 DEF IgnoreOther, SetResponse, Respond, NiTypeOK, Idle
<1>6. ASSUME NEW t \in leaving, ClearId(t) \/ SendResponse(t) PROVE EsNotIgnored'
  BY <1>1, <1>6 DEF ClearId, SendResponse, fields
<1>7. CASE Environment \/ InformNiResponse
  BY <1>1, <1>7 DEF Environment, ModemAsks, UserResponds, ClientChanges, InformNiResponse, fields
<1>8. CASE UNCHANGED niVars
  BY <1>1, <1>8 DEF niVars, fields
<1> QED
  BY <1>2, <1>3, <1>4, <1>5, <1>6, <1>7, <1>8
  DEF NiNext, MessageThread, NiThread, Wake, TimeOut

LEMMA NotifiedOnceKept ==
  ASSUME Owned, NotifiedOnce, [NiNext]_niVars
  PROVE  NotifiedOnce'
<1> SUFFICES ASSUME NEW i \in DOMAIN niQueue', niQueue'[i].msg = "notify",
                    NEW r, r = niQueue'[i].req, Prompted(r)'
             PROVE  FALSE
  BY DEF NotifiedOnce, Prompted
<1>1. niQueue \in Seq(NiMessage) /\ NiTypeOK
  BY DEF Owned, NiTypeOK
<1>2. CASE Prompted(r)
  <2>1. CASE UNCHANGED niQueue
    BY <1>2, <2>1 DEF NotifiedOnce
  <2>2. CASE niQueue # <<>> /\ TakeOff
    <3>1. i + 1 \in DOMAIN niQueue /\ niQueue'[i] = niQueue[i + 1]
      BY <1>1, <2>2 DEF TakeOff
    <3> QED
      BY <1>2, <3>1 DEF NotifiedOnce
  <2>3. ASSUME NEW m \in NiMessage, niQueue' = Append(niQueue, m),
               m.msg = "notify" => ~Prompted(m.req)
        PROVE  FALSE
    <3>1. (i \in DOMAIN niQueue /\ niQueue'[i] = niQueue[i]) \/ niQueue'[i] = m
      BY <1>1, <2>3
    <3> QED
      BY <1>2, <2>3, <3>1 DEF NotifiedOnce
  <2>4. ASSUME NEW r0 \in Requests, ModemAsks(r0) PROVE FALSE
    <3>1. Notify(r0) \in NiMessage /\ Notify(r0).req = r0 /\ ~Prompted(r0)
      BY <2>4 DEF Notify, ModemAsks, Owned, UnsentNowhere
    <3> QED
      BY <2>3, <2>4, <3>1 DEF ModemAsks
  <2>5. ASSUME NEW p \in prompts, NEW a \in UserAnswers, UserResponds(p, a) PROVE FALSE
    <3>1. Answer(p.id, a) \in NiMessage /\ Answer(p.id, a).msg = "response"
      BY <1>1 DEF Answer, NiTypeOK
    <3> QED
      BY <2>3, <2>5, <3>1 DEF UserResponds
  <2>6. ASSUME NEW t \in leaving, SendResponse(t) PROVE FALSE
    <3>1. Inform(t.req, t.resp) \in NiMessage /\ Inform(t.req, t.resp).msg = "inform"
      BY <1>1, <2>6 DEF Inform, SendResponse, NiTypeOK
    <3> QED
      BY <2>3, <2>6, <3>1 DEF SendResponse
  <2>7. CASE RequestNiNotify \/ LookUpSession \/ InformNiResponse
    BY <2>2, <2>7 DEF RequestNiNotify, LookUpSession, InformNiResponse, Receives
  <2>8. CASE IgnoreOther \/ SetResponse \/ ClientChanges
    BY <2>1, <2>8 DEF IgnoreOther, SetResponse, ClientChanges
  <2>9. ASSUME NEW s \in Sessions, Wake(s) \/ TimeOut(s) PROVE FALSE
    BY <2>1, <2>9 DEF Wake, TimeOut
  <2>10. ASSUME NEW t \in leaving, ClearId(t) PROVE FALSE
    BY <2>1, <2>10 DEF ClearId
  <2>11. CASE UNCHANGED niVars
    BY <2>1, <2>11 DEF niVars
  <2> QED
    BY <2>4, <2>5, <2>6, <2>7, <2>8, <2>9, <2>10, <2>11
    DEF NiNext, MessageThread, NiThread, Environment
<1>3. CASE ~Prompted(r)
  <2>1. RequestNiNotify /\ Head(niQueue).req = r
    BY <1>1, <1>3, PromptsComeFromQueue
  <2>2. niQueue # <<>> /\ Head(niQueue).msg # "response" /\ niQueue' = Tail(niQueue)
    BY <2>1 DEF RequestNiNotify, Receives, TakeOff
  <2>3. Carriers(niQueue', r) = {}
    BY <2>1, <2>2, HeadOwnsRequest
  <2> QED
    BY <2>3 DEF Carriers
<1> QED
  BY <1>2, <1>3

\* A request in a session that a thread gives up is freed only when it is an ordinary one.
LEMMA EsNotFreed ==
  ASSUME EsKept, [NiNext]_niVars, NEW r \in Emergency, Prompted(r), r \notin freed
  PROVE  r \notin freed'
<1>1. CASE UNCHANGED freed
  BY <1>1
<1>2. CASE RequestNiNotify
  <2>1. Head(niQueue).req # r
    <3>1. /\ 1 \in DOMAIN niQueue /\ niQueue[1] = Head(niQueue) /\ Head(niQueue).msg = "notify"
      BY <1>2 DEF RequestNiNotify, Receives, EsKept, Owned, NiTypeOK
    <3> QED
      BY <3>1 DEF EsKept, NotifiedOnce
  <2> QED
    BY <1>2, <2>1 DEF RequestNiNotify, Admit
<1>3. ASSUME NEW s \in Sessions, Wake(s) \/ TimeOut(s) PROVE r \notin freed'
  <2>1. CASE rawRequest[s] # r
    BY <1>3, <2>1 DEF Wake, TimeOut, Finish
  <2>2. CASE rawRequest[s] = r
    <3>1. s = "sessionEs"
      BY <2>2, RequestsAssumption DEF EsKept, SessionKinds, sessionFor
    <3> QED
      BY <1>3, <3>1 DEF Wake, TimeOut, Finish, EsKept, EsNotIgnored
  <2> QED
    BY <2>1, <2>2
<1>4. CASE LookUpSession \/ InformNiResponse \/ IgnoreOther \/ SetResponse
  BY <1>1, <1>4 DEF LookUpSession, InformNiResponse, IgnoreOther, SetResponse, ghosts
<1>5. ASSUME NEW t \in leaving, ClearId(t) \/ SendResponse(t) PROVE r \notin freed'
  BY <1>1, <1>5 DEF ClearId, SendResponse, ghosts
<1>6. CASE Environment
  BY <1>1, <1>6 DEF Environment, ModemAsks, UserResponds, ClientChanges, ghosts
<1>7. CASE UNCHANGED niVars
  BY <1>1, <1>7 DEF niVars, ghosts
<1> QED
  BY <1>2, <1>3, <1>4, <1>5, <1>6, <1>7 DEF NiNext, MessageThread, NiThread

\* An emergency request that the user has been asked about is never dropped, and never
\* freed in its session as if it had been ignored: in every interleaving it has exactly one
\* place, from which it reaches the modem.
THEOREM EsRequestKept == NiSpec => []EsNeverDropped
<1>1. NiInit => NotifiedOnce /\ SessionKinds /\ EsNotIgnored /\ EsNeverDropped
  BY DEF NiInit, NotifiedOnce, SessionKinds, EsNotIgnored, EsNeverDropped, Idle
<1>2. Owned /\ NotifiedOnce /\ SessionKinds /\ EsNotIgnored /\ EsNeverDropped /\ [NiNext]_niVars
        => Owned' /\ NotifiedOnce' /\ SessionKinds' /\ EsNotIgnored' /\ EsNeverDropped'
  <2> SUFFICES ASSUME EsKept, [NiNext]_niVars
               PROVE  Owned' /\ NotifiedOnce' /\ SessionKinds' /\ EsNotIgnored' /\ EsNeverDropped'
    BY DEF EsKept
  <2>1. Owned' /\ NotifiedOnce' /\ SessionKinds' /\ EsNotIgnored'
    BY OwnedKept, NotifiedOnceKept, SessionKindsKept, EsNotIgnoredKept DEF EsKept, Owned
  <2>2. ASSUME NEW p \in prompts', p.req \in Emergency
        PROVE  p.req \notin freed' /\ Places(p.req)' = 1
    <3> DEFINE r == p.req
    <3>1. r \in Requests /\ Prompted(r)'
      BY <2>1, <2>2, RequestsAssumption DEF Prompted
    <3>2. Conserves(r)
      BY <3>1, StepsConserve DEF EsKept, Owned, PayloadOwnedOnce
    <3>3. CASE Prompted(r)
      <4>1. r \notin freed /\ Places(r) = 1
        BY <2>2, <3>3 DEF Prompted, EsKept, EsNeverDropped
      <4>2. r \notin freed'
        BY <2>2, <3>3, <4>1, EsNotFreed
      <4>3. ~Arrives(r)
        BY <3>1, <3>3 DEF Arrives, EsKept, Owned, UnsentNowhere
      <4>4. ~Dropped(r)
        <5>1. ASSUME Dropped(r) PROVE 1 \in DOMAIN niQueue /\ niQueue[1] = Head(niQueue)
          BY <5>1 DEF Dropped, Receives, EsKept, Owned, NiTypeOK
        <5> QED
          BY <3>3, <5>1 DEF Dropped, Receives, EsKept, NotifiedOnce
      <4> QED
        BY <3>2, <4>1, <4>2, <4>3, <4>4 DEF Conserves
    <3>4. CASE ~Prompted(r)
      <4>1. RequestNiNotify /\ Head(niQueue).req = r /\ UNCHANGED freed /\ prompts' # prompts
        BY <3>1, <3>4, PromptsComeFromQueue DEF EsKept, Owned, Prompted
      <4>2. Places(r) = 1 /\ r \notin freed
        BY <4>1, HeadOwnsRequest DEF RequestNiNotify, Receives, EsKept
      <4>3. ~Arrives(r)
        BY <3>1, <4>2 DEF Arrives, EsKept, Owned, UnsentNowhere
      <4> QED
        BY <3>2, <4>1, <4>2, <4>3 DEF Conserves, Dropped
    <3> QED
      BY <3>3, <3>4
  <2> QED
    BY <2>1, <2>2 DEF EsNeverDropped
<1> QED
  BY <1>1, <1>2, AlwaysOwned, PTL DEF NiSpec

-----------------------------------------------------------------------------
(***************************************************************************)
(* The answers of the two sessions never cross.                            *)
(***************************************************************************)
\* If a is a user's answer, it was given to a prompt of session s that is not newer than
\* any prompt of r.
Said(s, a, r) ==
  a \in {"ACCEPT", "DENY"} =>
    \E u \in userSaid, p \in prompts :
      /\ u.resp = a /\ p.id = u.id /\ sessionFor(p.req) = s
      /\ \A i \in IdOf(r) : p.id <= i

\* A thread waits only for a pending request, also when threads cannot be created.
WaiterHasRequest == \A s \in Sessions : waiting[s] <= IF rawRequest[s] = None THEN 0 ELSE 1

\* Ids are counted from 1, and a record's id is that of a prompt of its session, not newer
\* than those of the request in the record.
IdsCounted == \A p \in prompts : p.id \in 1..reqIDCounter
RecordIds ==
  \A s \in Sessions :
    /\ reqID[s] # 0 => \E p \in prompts : p.id = reqID[s] /\ sessionFor(p.req) = s
    /\ rawRequest[s] # None => \A i \in IdOf(rawRequest[s]) : reqID[s] <= i

\* What the user said was asked, and a queued answer was said.
UserAsked == \A u \in userSaid : \E p \in prompts : p.id = u.id
QueuedSaid ==
  \A i \in DOMAIN niQueue :
    niQueue[i].msg = "response" => \E u \in userSaid : u.id = niQueue[i].id /\ u.resp = niQueue[i].resp

\* The answer in the handler, in a record, with a thread, in a message, at the modem.
HandlerSaid ==
  handler.step # "idle" => Said(handler.session, handler.resp, rawRequest[handler.session])
RecordSaid == \A s \in Sessions : respRecvd[s] => Said(s, resp[s], rawRequest[s])
ThreadSaid == \A t \in leaving : t.req \in Requests /\ Said(sessionFor(t.req), t.resp, t.req)
MessageSaid ==
  \A i \in DOMAIN niQueue :
    niQueue[i].msg = "inform" => Said(sessionFor(niQueue[i].req), niQueue[i].resp, niQueue[i].req)
ModemSaid == \A x \in heard : Said(sessionFor(x.req), x.resp, x.req)

Answered ==
  /\ WaiterHasRequest /\ IdsCounted /\ RecordIds /\ UserAsked /\ QueuedSaid
  /\ HandlerSaid /\ RecordSaid /\ ThreadSaid /\ MessageSaid /\ ModemSaid
Asked == Owned /\ NotifiedOnce /\ SessionKinds /\ Answered

\* What every step does to the user's variables, and the only step that asks.
LEMMA PromptsGrow ==
  ASSUME NiTypeOK, [NiNext]_niVars
  PROVE  /\ userSaid \subseteq userSaid' /\ prompts \subseteq prompts'
         /\ reqIDCounter \in Nat
         /\ \/ UNCHANGED <<prompts, reqIDCounter>>
            \/ \E r \in Requests :
                 /\ RequestNiNotify /\ Head(niQueue).req = r /\ handler = Idle
                 /\ Free(r) /\ Admit(sessionFor(r), r)
                 /\ reqIDCounter' = reqIDCounter + 1
                 /\ prompts' = prompts \cup {[id |-> reqIDCounter + 1, req |-> r]}
<1>1. userSaid \subseteq userSaid'
  BY DEF NiNext, MessageThread, RequestNiNotify, LookUpSession, IgnoreOther, SetResponse,
    InformNiResponse, NiThread, Wake, TimeOut, ClearId, SendResponse, Environment, ModemAsks,
    UserResponds, ClientChanges, niVars, user
<1>2. RequestNiNotify \/ UNCHANGED <<prompts, reqIDCounter>>
  BY DEF NiNext, MessageThread, LookUpSession, IgnoreOther, SetResponse, Respond,
    InformNiResponse, NiThread, Wake, TimeOut, ClearId, SendResponse, Environment, ModemAsks,
    UserResponds, ClientChanges, niVars, user, fields
<1>3. CASE RequestNiNotify
  <2>1. Head(niQueue).req \in Requests /\ handler = Idle
    BY <1>3, ConsumeTyping DEF RequestNiNotify, Receives, NiTypeOK
  <2>2. CASE Free(Head(niQueue).req) /\ Admit(sessionFor(Head(niQueue).req), Head(niQueue).req)
    BY <1>1, <1>3, <2>1, <2>2 DEF Admit, NiTypeOK
  <2>3. CASE UNCHANGED <<fields, prompts>>
    BY <1>1, <2>3 DEF fields, NiTypeOK
  <2> QED
    BY <1>3, <2>2, <2>3 DEF RequestNiNotify
<1> QED
  BY <1>1, <1>2, <1>3 DEF NiTypeOK

\* What was said once stays said: a newer prompt has a larger id.
LEMMA SaidStays ==
  ASSUME NiTypeOK, IdsCounted, [NiNext]_niVars, NEW s, NEW a, NEW r, Said(s, a, r)
  PROVE  Said(s, a, r)'
<1> SUFFICES ASSUME a \in {"ACCEPT", "DENY"}
             PROVE  \E u \in userSaid', p \in prompts' :
                      /\ u.resp = a /\ p.id = u.id /\ sessionFor(p.req) = s
                      /\ \A i \in IdOf(r)' : p.id <= i
  BY DEF Said, sessionFor
<1>1. PICK u \in userSaid, p \in prompts :
        /\ u.resp = a /\ p.id = u.id /\ sessionFor(p.req) = s /\ \A i \in IdOf(r) : p.id <= i
  BY DEF Said
<1>2. p.id \in Nat /\ p.id <= reqIDCounter
  BY DEF IdsCounted, NiTypeOK
<1>3. \A i \in IdOf(r)' : p.id <= i
  BY <1>1, <1>2, PromptsGrow DEF IdOf
<1> QED
  BY <1>1, <1>3, PromptsGrow

\* What was said to a session holds for the next request of the session, too.
LEMMA SaidBefore ==
  ASSUME NiTypeOK, IdsCounted, [NiNext]_niVars, NEW s, NEW a, NEW r, NEW x, Said(s, a, x), ~Prompted(r)
  PROVE  Said(s, a, r)'
<1> SUFFICES ASSUME a \in {"ACCEPT", "DENY"}
             PROVE  \E u \in userSaid', p \in prompts' :
                      /\ u.resp = a /\ p.id = u.id /\ sessionFor(p.req) = s
                      /\ \A i \in IdOf(r)' : p.id <= i
  BY DEF Said, sessionFor
<1>1. PICK u \in userSaid, p \in prompts : u.resp = a /\ p.id = u.id /\ sessionFor(p.req) = s
  BY DEF Said
<1>2. p.id \in Nat /\ p.id <= reqIDCounter
  BY DEF IdsCounted, NiTypeOK
<1>3. \A i \in IdOf(r)' : p.id <= i
  BY <1>1, <1>2, PromptsGrow DEF IdOf, Prompted
<1> QED
  BY <1>1, <1>3, PromptsGrow

\* An answer that is none of the user's needs no reason.
LEMMA NotSaid == \A s, a, r : a \notin {"ACCEPT", "DENY"} => Said(s, a, r) /\ Said(s, a, r)'
  BY DEF Said

LEMMA WaiterKept ==
  ASSUME NiTypeOK, WaiterHasRequest, [NiNext]_niVars
  PROVE  WaiterHasRequest'
<1> USE DEF WaiterHasRequest
<1>1. CASE UNCHANGED <<waiting, rawRequest>>
  BY <1>1
<1>2. CASE RequestNiNotify
  <2> DEFINE r == Head(niQueue).req
  <2>1. r \in Requests /\ r # None
    BY <1>2, ConsumeTyping, RequestsAssumption DEF RequestNiNotify, Receives, NiTypeOK
  <2>2. CASE Free(r) /\ Admit(sessionFor(r), r)
    <3>1. sessionFor(r) \in Sessions /\ rawRequest[sessionFor(r)] = None
      BY <2>1, <2>2 DEF Free, sessionFor
    <3>2. waiting[sessionFor(r)] = 0
      BY <3>1 DEF NiTypeOK
    <3> HIDE DEF r
    <3> QED
      BY <2>1, <2>2, <3>1, <3>2 DEF Admit, NiTypeOK
  <2>3. CASE UNCHANGED <<fields, waiting>>
    BY <1>1, <2>3 DEF fields
  <2> QED
    BY <1>2, <2>2, <2>3 DEF RequestNiNotify
<1>3. ASSUME NEW s \in Sessions, Wake(s) \/ TimeOut(s) PROVE WaiterHasRequest'
  <2>1. /\ waiting[s] > 0
        /\ waiting' = [waiting EXCEPT ![s] = @ - 1]
        /\ rawRequest' = [rawRequest EXCEPT ![s] = None]
    BY <1>3 DEF Wake, TimeOut, Finish
  <2>2. waiting[s] = 1
    BY <2>1 DEF NiTypeOK
  <2> QED
    BY <2>1, <2>2 DEF NiTypeOK
<1>4. CASE LookUpSession \/ InformNiResponse
  BY <1>1, <1>4 DEF LookUpSession, InformNiResponse, fields, threads
<1>5. CASE IgnoreOther \/ SetResponse
  BY <1>1, <1>5 DEF IgnoreOther, SetResponse, Respond, threads
<1>6. ASSUME NEW t \in leaving, ClearId(t) \/ SendResponse(t) PROVE WaiterHasRequest'
  BY <1>1, <1>6 DEF ClearId, SendResponse, fields
<1>7. CASE Environment
  BY <1>1, <1>7 DEF Environment, ModemAsks, UserResponds, ClientChanges, fields, threads
<1>8. CASE UNCHANGED niVars
  BY <1>1, <1>8 DEF niVars, fields, threads
<1> QED
  BY <1>2, <1>3, <1>4, <1>5, <1>6, <1>7, <1>8 DEF NiNext, MessageThread, NiThread

LEMMA IdsKept ==
  ASSUME Asked, [NiNext]_niVars
  PROVE  IdsCounted' /\ UserAsked' /\ RecordIds'
<1>1. NiTypeOK /\ NotifiedOnce /\ IdsCounted /\ UserAsked /\ RecordIds
  BY DEF Asked, Answered, Owned
<1>2. IdsCounted'
  BY <1>1, PromptsGrow DEF IdsCounted, NiTypeOK
<1>3. UserAsked'
  <2>1. CASE UNCHANGED userSaid
    BY <1>1, <2>1, PromptsGrow DEF UserAsked
  <2>2. ASSUME NEW p \in prompts, NEW a \in UserAnswers, UserResponds(p, a) PROVE UserAsked'
    BY <1>1, <2>2 DEF UserResponds, UserAsked
  <2>3. (\E p \in prompts, a \in UserAnswers : UserResponds(p, a)) \/ UNCHANGED userSaid
    BY DEF NiNext, MessageThread, RequestNiNotify, LookUpSession, IgnoreOther, SetResponse,
      InformNiResponse, NiThread, Wake, TimeOut, ClearId, SendResponse, Environment, ModemAsks,
      ClientChanges, niVars, user
  <2> QED
    BY <2>1, <2>2, <2>3
<1>4. RecordIds'
  <2>1. CASE UNCHANGED <<prompts, reqID, rawRequest>>
    BY <1>1, <2>1 DEF RecordIds, IdOf, sessionFor
  <2>2. CASE RequestNiNotify
    <3>1. CASE UNCHANGED <<fields, prompts>>
      BY <2>1, <3>1 DEF fields
    <3>2. ASSUME NEW r \in Requests, Free(r), Admit(sessionFor(r), r), Head(niQueue).req = r
          PROVE  RecordIds'
      <4>1. ~Prompted(r)
        <5>1. 1 \in DOMAIN niQueue /\ niQueue[1] = Head(niQueue) /\ Head(niQueue).msg = "notify"
          BY <1>1, <2>2 DEF RequestNiNotify, Receives, NiTypeOK
        <5> QED
          BY <1>1, <3>2, <5>1 DEF NotifiedOnce
      <4>2. /\ sessionFor(r) \in Sessions
            /\ rawRequest' = [rawRequest EXCEPT ![sessionFor(r)] = r]
            /\ reqID' = [reqID EXCEPT ![sessionFor(r)] = reqIDCounter + 1]
            /\ prompts' = prompts \cup {[id |-> reqIDCounter + 1, req |-> r]}
        BY <3>2 DEF Admit, sessionFor
      <4>3. ASSUME NEW s \in Sessions, s = sessionFor(r)
            PROVE  /\ reqID'[s] # 0 => \E p \in prompts' : p.id = reqID'[s] /\ sessionFor(p.req) = s
                   /\ \A i \in IdOf(rawRequest[s])' : reqID'[s] <= i
        <5>1. rawRequest'[s] = r /\ reqID'[s] = reqIDCounter + 1
          BY <1>1, <4>2, <4>3 DEF NiTypeOK
        <5>2. \A i \in IdOf(r)' : i = reqIDCounter + 1
          BY <4>1, <4>2 DEF IdOf, Prompted
        <5>3. IdOf(rawRequest[s])' = IdOf(r)'
          BY <5>1 DEF IdOf
        <5>4. \A i \in IdOf(rawRequest[s])' : reqID'[s] <= i
          BY <1>1, <5>1, <5>2, <5>3 DEF NiTypeOK
        <5>5. [id |-> reqIDCounter + 1, req |-> r] \in prompts'
          BY <4>2
        <5> QED
          BY <4>3, <5>1, <5>4, <5>5
      <4>4. ASSUME NEW s \in Sessions, s # sessionFor(r)
            PROVE  /\ reqID'[s] # 0 => \E p \in prompts' : p.id = reqID'[s] /\ sessionFor(p.req) = s
                   /\ rawRequest'[s] # None => \A i \in IdOf(rawRequest[s])' : reqID'[s] <= i
        <5>1. rawRequest'[s] = rawRequest[s] /\ reqID'[s] = reqID[s]
          BY <1>1, <4>2, <4>4 DEF NiTypeOK
        <5>2. reqID[s] <= reqIDCounter + 1
          BY <1>1 DEF RecordIds, IdsCounted, NiTypeOK
        <5>3. \A i \in IdOf(rawRequest[s])' : i \in IdOf(rawRequest[s]) \/ i = reqIDCounter + 1
          BY <4>2, <5>1 DEF IdOf
        <5> QED
          BY <1>1, <4>2, <5>1, <5>2, <5>3 DEF RecordIds
      <4> QED
        BY <4>3, <4>4 DEF RecordIds, sessionFor
    <3> QED
      BY <1>1, <2>2, <3>1, <3>2, ConsumeTyping DEF RequestNiNotify, Receives, NiTypeOK
  <2>3. ASSUME NEW s \in Sessions, NEW a, Finish(s, a), UNCHANGED <<prompts, reqID>>
        PROVE  RecordIds'
    <3>1. \A t \in Sessions : rawRequest'[t] # None => rawRequest'[t] = rawRequest[t]
      BY <1>1, <2>3 DEF Finish, NiTypeOK
    <3> QED
      BY <1>1, <2>3, <3>1 DEF RecordIds, IdOf, sessionFor
  <2>4. ASSUME NEW t \in leaving, ClearId(t) PROVE RecordIds'
    <3>1. /\ UNCHANGED <<prompts, rawRequest>>
          /\ \A s \in Sessions : reqID'[s] = reqID[s] \/ reqID'[s] = 0
      BY <1>1, <2>4 DEF ClearId, NiTypeOK, user
    <3>2. \A i \in {p.id : p \in prompts} : 0 <= i
      BY <1>1 DEF NiTypeOK
    <3> QED
      BY <1>1, <3>1, <3>2 DEF RecordIds, IdOf, sessionFor
  <2>5. CASE LookUpSession \/ InformNiResponse \/ IgnoreOther \/ SetResponse
    BY <2>1, <2>5 DEF LookUpSession, InformNiResponse, IgnoreOther, SetResponse, Respond,
      fields, user
  <2>6. ASSUME NEW t \in leaving, SendResponse(t) PROVE RecordIds'
    BY <2>1, <2>6 DEF SendResponse, fields, user
  <2>7. CASE Environment
    BY <2>1, <2>7 DEF Environment, ModemAsks, UserResponds, ClientChanges, fields, user
  <2>8. CASE UNCHANGED niVars
    BY <2>1, <2>8 DEF niVars, fields, user
  <2> QED
    BY <2>2, <2>3, <2>4, <2>5, <2>6, <2>7, <2>8
    DEF NiNext, MessageThread, NiThread, Wake, TimeOut, user
<1> QED
  BY <1>2, <1>3, <1>4

\* A queued answer was said by the user.
LEMMA QueuedSaidKept ==
  ASSUME Asked, [NiNext]_niVars
  PROVE  QueuedSaid'
<1> SUFFICES ASSUME NEW i \in DOMAIN niQueue', niQueue'[i].msg = "response"
             PROVE  \E u \in userSaid' : u.id = niQueue'[i].id /\ u.resp = niQueue'[i].resp
  BY DEF QueuedSaid
<1>1. /\ NiTypeOK /\ niQueue \in Seq(NiMessage) /\ QueuedSaid /\ userSaid \subseteq userSaid'
  BY PromptsGrow DEF Asked, Answered, Owned, NiTypeOK
<1>2. CASE UNCHANGED niQueue
  BY <1>1, <1>2 DEF QueuedSaid
<1>3. CASE niQueue # <<>> /\ TakeOff
  <2>1. i + 1 \in DOMAIN niQueue /\ niQueue'[i] = niQueue[i + 1]
    BY <1>1, <1>3 DEF TakeOff
  <2> QED
    BY <1>1, <2>1 DEF QueuedSaid
<1>4. ASSUME NEW m \in NiMessage, niQueue' = Append(niQueue, m),
             m.msg = "response" => \E u \in userSaid' : u.id = m.id /\ u.resp = m.resp
      PROVE  \E u \in userSaid' : u.id = niQueue'[i].id /\ u.resp = niQueue'[i].resp
  <2>1. (i \in DOMAIN niQueue /\ niQueue'[i] = niQueue[i]) \/ niQueue'[i] = m
    BY <1>1, <1>4
  <2>2. CASE niQueue'[i] = m
    BY <1>4, <2>2
  <2>3. CASE i \in DOMAIN niQueue /\ niQueue'[i] = niQueue[i]
    BY <1>1, <2>3 DEF QueuedSaid
  <2> QED
    BY <2>1, <2>2, <2>3
<1> DEFINE Goal == \E u \in userSaid' : u.id = niQueue'[i].id /\ u.resp = niQueue'[i].resp
<1>5. ASSUME NEW r \in Requests, ModemAsks(r) PROVE Goal
  BY <1>4, <1>5 DEF ModemAsks, Notify
<1>6. ASSUME NEW p \in prompts, NEW a \in UserAnswers, UserResponds(p, a) PROVE Goal
  <2>1. /\ Answer(p.id, a) \in NiMessage
        /\ [id |-> p.id, resp |-> a] \in userSaid' /\ niQueue' = Append(niQueue, Answer(p.id, a))
    BY <1>1, <1>6 DEF UserResponds, Answer, NiTypeOK
  <2>2. Answer(p.id, a).id = p.id /\ Answer(p.id, a).resp = a
    BY DEF Answer
  <2> QED
    BY <1>4, <2>1, <2>2
<1>7. ASSUME NEW t \in leaving, SendResponse(t) PROVE Goal
  <2>1. Inform(t.req, t.resp) \in NiMessage /\ Inform(t.req, t.resp).msg # "response"
    BY <1>1, <1>7 DEF SendResponse, Inform, NiTypeOK
  <2> QED
    BY <1>4, <1>7, <2>1 DEF SendResponse
<1>8. CASE RequestNiNotify \/ LookUpSession \/ InformNiResponse
  BY <1>3, <1>8 DEF RequestNiNotify, LookUpSession, InformNiResponse, Receives
<1>9. CASE IgnoreOther \/ SetResponse \/ ClientChanges
  BY <1>2, <1>9 DEF IgnoreOther, SetResponse, ClientChanges
<1>10. ASSUME NEW s \in Sessions, Wake(s) \/ TimeOut(s) PROVE Goal
  BY <1>2, <1>10 DEF Wake, TimeOut
<1>11. ASSUME NEW t \in leaving, ClearId(t) PROVE Goal
  BY <1>2, <1>11 DEF ClearId
<1>12. CASE UNCHANGED niVars
  BY <1>2, <1>12 DEF niVars
<1> QED
  BY <1>5, <1>6, <1>7, <1>8, <1>9, <1>10, <1>11, <1>12
  DEF NiNext, MessageThread, NiThread, Environment

\* The step that asks fills a free session for a request the user has not been asked about.
LEMMA AskedFresh ==
  ASSUME Asked, RequestNiNotify, NEW r \in Requests, Head(niQueue).req = r
  PROVE  ~Prompted(r)
<1>1. 1 \in DOMAIN niQueue /\ niQueue[1] = Head(niQueue) /\ Head(niQueue).msg = "notify"
  BY DEF RequestNiNotify, Receives, Asked, Owned, NiTypeOK
<1> QED
  BY <1>1 DEF Asked, NotifiedOnce

\* The answer in the handler: looked up in a record that holds the id of its prompt.
LEMMA HandlerSaidKept ==
  ASSUME Asked, [NiNext]_niVars
  PROVE  HandlerSaid'
<1> SUFFICES ASSUME handler'.step # "idle",
                    NEW s, s = handler'.session, NEW a, a = handler'.resp,
                    NEW r, r = rawRequest'[s]
             PROVE  Said(s, a, r)'
  BY DEF HandlerSaid, Said, IdOf, sessionFor
<1>1. /\ NiTypeOK /\ IdsCounted /\ HandlerSaid /\ RecordIds /\ UserAsked /\ QueuedSaid
      /\ niQueue \in Seq(NiMessage)
  BY DEF Asked, Answered, Owned, NiTypeOK
<1>2. CASE UNCHANGED <<handler, rawRequest>>
  BY <1>1, <1>2, SaidStays DEF HandlerSaid
<1>3. CASE RequestNiNotify
  BY <1>3 DEF RequestNiNotify, Receives, Idle
<1>4. CASE LookUpSession
  <2>1. /\ Head(niQueue).msg = "response" /\ niQueue # <<>> /\ handler = Idle /\ UNCHANGED rawRequest
    BY <1>4 DEF LookUpSession, Receives, fields
  <2>2. /\ s \in Sessions /\ ActiveSession(Head(niQueue).id, s) /\ a = Head(niQueue).resp
    BY <1>4, <2>1 DEF LookUpSession, Idle
  <2>3. PICK u \in userSaid : u.id = Head(niQueue).id /\ u.resp = a
    <3>1. 1 \in DOMAIN niQueue /\ niQueue[1] = Head(niQueue)
      BY <1>1, <2>1
    <3> QED
      BY <1>1, <2>1, <2>2, <3>1 DEF QueuedSaid
  <2>4. reqID[s] = u.id /\ rawRequest[s] # None /\ r = rawRequest[s]
    BY <2>1, <2>2, <2>3 DEF ActiveSession
  <2>5. reqID[s] # 0
    BY <1>1, <2>4 DEF UserAsked, IdsCounted
  <2>6. Said(s, a, r)
    BY <1>1, <2>2, <2>3, <2>4, <2>5 DEF RecordIds, Said
  <2> QED
    BY <1>1, <2>6, SaidStays
<1>5. CASE IgnoreOther
  BY <1>1, <1>5, SaidStays DEF IgnoreOther, Respond, HandlerSaid, NiTypeOK
<1>6. CASE SetResponse
  BY <1>6 DEF SetResponse, Idle
<1>7. CASE InformNiResponse \/ Environment
  BY <1>2, <1>7 DEF InformNiResponse, Environment, ModemAsks, UserResponds, ClientChanges, fields
<1>8. ASSUME NEW q \in Sessions, NEW b, Finish(q, b), UNCHANGED handler PROVE Said(s, a, r)'
  <2>1. Said(s, a, rawRequest[s])
    BY <1>1, <1>8 DEF HandlerSaid
  <2>2. r = rawRequest[s] \/ r = None
    BY <1>1, <1>8 DEF Finish, NiTypeOK
  <2>3. ~Prompted(None)
    BY <1>1, RequestsAssumption DEF Prompted, NiTypeOK
  <2> QED
    BY <1>1, <2>1, <2>2, <2>3, SaidStays, SaidBefore
<1>9. ASSUME NEW t \in leaving, ClearId(t) \/ SendResponse(t) PROVE Said(s, a, r)'
  BY <1>2, <1>9 DEF ClearId, SendResponse, fields
<1>10. CASE UNCHANGED niVars
  BY <1>2, <1>10 DEF niVars, fields
<1> QED
  BY <1>3, <1>4, <1>5, <1>6, <1>7, <1>8, <1>9, <1>10
  DEF NiNext, MessageThread, NiThread, Wake, TimeOut

\* The answer in a record, which may be left over from an earlier request.
LEMMA RecordSaidKept ==
  ASSUME Asked, [NiNext]_niVars
  PROVE  RecordSaid'
<1> SUFFICES ASSUME NEW s \in Sessions, respRecvd'[s],
                    NEW a, a = resp'[s], NEW r, r = rawRequest'[s]
             PROVE  Said(s, a, r)'
  BY DEF RecordSaid, Said, IdOf, sessionFor
<1>1. NiTypeOK /\ IdsCounted /\ HandlerSaid /\ RecordSaid
  BY DEF Asked, Answered, Owned
<1>2. CASE UNCHANGED <<respRecvd, resp, rawRequest>>
  BY <1>1, <1>2, SaidStays DEF RecordSaid
<1>3. CASE RequestNiNotify
  <2>1. Head(niQueue).req \in Requests
    BY <1>1, <1>3, ConsumeTyping DEF RequestNiNotify, Receives, NiTypeOK
  <2>2. ASSUME NEW r0 \in Requests, r0 = Head(niQueue).req, Admit(sessionFor(r0), r0)
        PROVE  Said(s, a, r)'
    <3>1. /\ rawRequest' = [rawRequest EXCEPT ![sessionFor(r0)] = r0]
          /\ UNCHANGED <<respRecvd, resp>> /\ sessionFor(r0) \in Sessions
      BY <2>2 DEF Admit, sessionFor
    <3>2. Said(s, a, rawRequest[s])
      BY <1>1, <3>1 DEF RecordSaid
    <3>3. r = rawRequest[s] \/ r = r0
      BY <1>1, <3>1 DEF NiTypeOK
    <3>4. ~Prompted(r0)
      BY <1>3, <2>2, AskedFresh
    <3> QED
      BY <1>1, <3>2, <3>3, <3>4, SaidStays, SaidBefore
  <2>3. CASE UNCHANGED fields
    BY <1>2, <2>3 DEF fields
  <2> QED
    BY <1>3, <2>1, <2>2, <2>3 DEF RequestNiNotify
<1>4. CASE LookUpSession \/ InformNiResponse \/ Environment
  BY <1>2, <1>4
  DEF LookUpSession, InformNiResponse, Environment, ModemAsks, UserResponds,
    ClientChanges, fields
<1>5. CASE IgnoreOther
  <2>1. CASE s = "session"
    BY <1>1, <1>5, <2>1, NotSaid DEF IgnoreOther, Respond, NiTypeOK
  <2>2. CASE s # "session"
    BY <1>1, <1>5, <2>2, SaidStays DEF IgnoreOther, Respond, RecordSaid, NiTypeOK
  <2> QED
    BY <2>1, <2>2
<1>6. CASE SetResponse
  <2>1. CASE s = handler.session
    BY <1>1, <1>6, <2>1, SaidStays DEF SetResponse, Respond, HandlerSaid, NiTypeOK
  <2>2. CASE s # handler.session
    BY <1>1, <1>6, <2>2, SaidStays DEF SetResponse, Respond, RecordSaid, NiTypeOK
  <2> QED
    BY <2>1, <2>2
<1>7. ASSUME NEW q \in Sessions, NEW b, Finish(q, b) PROVE Said(s, a, r)'
  <2>1. s # q /\ a = resp[s] /\ r = rawRequest[s] /\ respRecvd[s]
    BY <1>1, <1>7 DEF Finish, NiTypeOK
  <2> QED
    BY <1>1, <2>1, SaidStays DEF RecordSaid
<1>8. ASSUME NEW t \in leaving, ClearId(t) \/ SendResponse(t) PROVE Said(s, a, r)'
  BY <1>2, <1>8 DEF ClearId, SendResponse, fields
<1>9. CASE UNCHANGED niVars
  BY <1>2, <1>9 DEF niVars, fields
<1> QED
  BY <1>3, <1>4, <1>5, <1>6, <1>7, <1>8, <1>9
  DEF NiNext, MessageThread, NiThread, Wake, TimeOut

\* The answer a thread leaves with: its record's, or none when the wait timed out.
LEMMA ThreadSaidKept ==
  ASSUME Asked, [NiNext]_niVars
  PROVE  ThreadSaid'
<1> SUFFICES ASSUME NEW t \in leaving'
             PROVE  t.req \in Requests /\ Said(sessionFor(t.req), t.resp, t.req)'
  BY DEF ThreadSaid
<1>1. NiTypeOK /\ IdsCounted /\ RecordSaid /\ ThreadSaid /\ SessionKinds /\ WaiterHasRequest
  BY DEF Asked, Answered, Owned
<1>2. CASE \E o \in leaving : t.req = o.req /\ t.resp = o.resp
  BY <1>1, <1>2, SaidStays DEF ThreadSaid
<1>3. CASE UNCHANGED leaving
  BY <1>2, <1>3
<1> DEFINE Goal == t.req \in Requests /\ Said(sessionFor(t.req), t.resp, t.req)'
<1>4. ASSUME NEW s \in Sessions, Wake(s) \/ TimeOut(s) PROVE Goal
  <2>1. PICK a : /\ Finish(s, a) /\ waiting[s] > 0
                 /\ a = "NO_RESPONSE" \/ (respRecvd[s] /\ a = resp[s])
    BY <1>4 DEF Wake, TimeOut
  <2>2. rawRequest[s] \in Requests /\ sessionFor(rawRequest[s]) = s
    BY <1>1, <2>1 DEF WaiterHasRequest, SessionKinds, NiTypeOK
  <2>3. Said(s, a, rawRequest[s])
    BY <1>1, <2>1, NotSaid DEF RecordSaid
  <2>4. t \in leaving \/ (t.req = rawRequest[s] /\ t.resp = a)
    BY <2>1 DEF Finish
  <2>5. CASE t.req = rawRequest[s] /\ t.resp = a
    BY <1>1, <2>2, <2>3, <2>5, SaidStays
  <2> QED
    BY <1>2, <2>4, <2>5
<1>5. ASSUME NEW o \in leaving, ClearId(o) PROVE Goal
  <2>1. /\ [o EXCEPT !.step = "send"].req = o.req /\ [o EXCEPT !.step = "send"].resp = o.resp
        /\ t \in leaving \/ t = [o EXCEPT !.step = "send"]
    BY <1>1, <1>5 DEF ClearId, NiTypeOK
  <2> QED
    BY <1>2, <2>1
<1>6. ASSUME NEW o \in leaving, SendResponse(o) PROVE Goal
  BY <1>2, <1>6 DEF SendResponse
<1>7. CASE RequestNiNotify \/ LookUpSession \/ InformNiResponse
  BY <1>3, <1>7 DEF RequestNiNotify, LookUpSession, InformNiResponse, threads
<1>8. CASE IgnoreOther \/ SetResponse \/ Environment
  BY <1>3, <1>8
  DEF IgnoreOther, SetResponse, Environment, ModemAsks, UserResponds, ClientChanges, threads
<1>9. CASE UNCHANGED niVars
  BY <1>3, <1>9 DEF niVars, threads
<1> QED
  BY <1>4, <1>5, <1>6, <1>7, <1>8, <1>9 DEF NiNext, MessageThread, NiThread

\* The answer in a message of a thread, and the one the modem hears.
LEMMA MessageSaidKept ==
  ASSUME Asked, [NiNext]_niVars
  PROVE  MessageSaid' /\ ModemSaid'
<1>1. /\ NiTypeOK /\ IdsCounted /\ ThreadSaid /\ MessageSaid /\ ModemSaid /\ niQueue \in Seq(NiMessage)
  BY DEF Asked, Answered, Owned, NiTypeOK
<1>2. ASSUME NEW i \in DOMAIN niQueue', NEW r, r = niQueue'[i].req, NEW a, a = niQueue'[i].resp,
             niQueue'[i].msg = "inform"
      PROVE  Said(sessionFor(r), a, r)'
  <2>1. CASE \E j \in DOMAIN niQueue : niQueue'[i] = niQueue[j]
    BY <1>1, <1>2, <2>1, SaidStays DEF MessageSaid
  <2>2. CASE UNCHANGED niQueue
    BY <2>1, <2>2
  <2>3. CASE niQueue # <<>> /\ TakeOff
    <3>1. i + 1 \in DOMAIN niQueue /\ niQueue'[i] = niQueue[i + 1]
      BY <1>1, <2>3 DEF TakeOff
    <3> QED
      BY <2>1, <3>1
  <2>4. ASSUME NEW m \in NiMessage, niQueue' = Append(niQueue, m), m.msg # "inform"
        PROVE  Said(sessionFor(r), a, r)'
    <3>1. i \in DOMAIN niQueue /\ niQueue'[i] = niQueue[i]
      BY <1>1, <1>2, <2>4
    <3> QED
      BY <2>1, <3>1
  <2>5. ASSUME NEW t \in leaving, SendResponse(t) PROVE Said(sessionFor(r), a, r)'
    <3>1. Inform(t.req, t.resp) \in NiMessage /\ niQueue' = Append(niQueue, Inform(t.req, t.resp))
      BY <1>1, <2>5 DEF SendResponse, Inform, NiTypeOK
    <3>2. (i \in DOMAIN niQueue /\ niQueue'[i] = niQueue[i]) \/ niQueue'[i] = Inform(t.req, t.resp)
      BY <1>1, <3>1
    <3>3. CASE niQueue'[i] = Inform(t.req, t.resp)
      <4>1. r = t.req /\ a = t.resp
        BY <1>2, <3>3 DEF Inform
      <4> QED
        BY <1>1, <4>1, SaidStays DEF ThreadSaid
    <3> QED
      BY <2>1, <3>2, <3>3
  <2>6. ASSUME NEW r0 \in Requests, ModemAsks(r0) PROVE Said(sessionFor(r), a, r)'
    BY <2>4, <2>6 DEF ModemAsks, Notify
  <2>7. ASSUME NEW p \in prompts, NEW b \in UserAnswers, UserResponds(p, b)
        PROVE  Said(sessionFor(r), a, r)'
    <3>1. Answer(p.id, b) \in NiMessage /\ Answer(p.id, b).msg # "inform"
      BY <1>1 DEF Answer, NiTypeOK
    <3> QED
      BY <2>4, <2>7, <3>1 DEF UserResponds
  <2>8. CASE RequestNiNotify \/ LookUpSession \/ InformNiResponse
    BY <2>3, <2>8 DEF RequestNiNotify, LookUpSession, InformNiResponse, Receives
  <2>9. CASE IgnoreOther \/ SetResponse \/ ClientChanges
    BY <2>2, <2>9 DEF IgnoreOther, SetResponse, ClientChanges
  <2>10. ASSUME NEW s \in Sessions, Wake(s) \/ TimeOut(s) PROVE Said(sessionFor(r), a, r)'
    BY <2>2, <2>10 DEF Wake, TimeOut
  <2>11. ASSUME NEW t \in leaving, ClearId(t) PROVE Said(sessionFor(r), a, r)'
    BY <2>2, <2>11 DEF ClearId
  <2>12. CASE UNCHANGED niVars
    BY <2>2, <2>12 DEF niVars
  <2> QED
    BY <2>5, <2>6, <2>7, <2>8, <2>9, <2>10, <2>11, <2>12
    DEF NiNext, MessageThread, NiThread, Environment
<1>3. ASSUME NEW x \in heard' PROVE Said(sessionFor(x.req), x.resp, x.req)'
  <2>1. CASE x \in heard
    BY <1>1, <2>1, SaidStays DEF ModemSaid
  <2>2. CASE InformNiResponse
    <3>1. /\ 1 \in DOMAIN niQueue /\ niQueue[1] = Head(niQueue) /\ Head(niQueue).msg = "inform"
          /\ x \in heard \/ x = [req |-> Head(niQueue).req, resp |-> Head(niQueue).resp]
      BY <1>1, <2>2 DEF InformNiResponse, Receives
    <3>2. CASE x = [req |-> Head(niQueue).req, resp |-> Head(niQueue).resp]
      <4>1. Said(sessionFor(x.req), x.resp, x.req)
        BY <1>1, <3>1, <3>2 DEF MessageSaid
      <4> QED
        BY <1>1, <4>1, SaidStays
    <3> QED
      BY <2>1, <3>1, <3>2
  <2>3. CASE UNCHANGED heard
    BY <2>1, <2>3
  <2> QED
    BY <2>2, <2>3 DEF NiNext, MessageThread, RequestNiNotify, LookUpSession, IgnoreOther, SetResponse,
      NiThread, Wake, TimeOut, ClearId, SendResponse, Environment, ModemAsks, UserResponds,
      ClientChanges, niVars, ghosts
<1>4. MessageSaid'
  BY <1>2 DEF MessageSaid, Said, IdOf, sessionFor
<1> QED
  BY <1>3, <1>4 DEF ModemSaid

\* No acceptance or refusal reaches the modem that the user has not given, and none crosses
\* from the ordinary session to the emergency one or back: of all interleavings of the
\* unlocked look-up, the timeout and the late answer, the worst is that an answer given to
\* an earlier prompt of the same session is taken for the answer to a later one.
THEOREM AnswersNeverCross == NiSpec => []AnswersStayInSession
<1>1. NiInit => NotifiedOnce /\ SessionKinds /\ Answered
  BY DEF NiInit, NotifiedOnce, SessionKinds, Answered, WaiterHasRequest, IdsCounted, RecordIds,
    UserAsked, QueuedSaid, HandlerSaid, RecordSaid, ThreadSaid, MessageSaid, ModemSaid, Idle
<1>2. Owned /\ NotifiedOnce /\ SessionKinds /\ Answered /\ [NiNext]_niVars
        => NotifiedOnce' /\ SessionKinds' /\ Answered'
  <2> SUFFICES ASSUME Asked, [NiNext]_niVars PROVE NotifiedOnce' /\ SessionKinds' /\ Answered'
    BY DEF Asked
  <2>1. NotifiedOnce' /\ SessionKinds' /\ WaiterHasRequest'
    BY NotifiedOnceKept, SessionKindsKept, WaiterKept DEF Asked, Answered, Owned
  <2>2. IdsCounted' /\ UserAsked' /\ RecordIds' /\ QueuedSaid'
    BY IdsKept, QueuedSaidKept
  <2>3. HandlerSaid' /\ RecordSaid' /\ ThreadSaid' /\ MessageSaid' /\ ModemSaid'
    BY HandlerSaidKept, RecordSaidKept, ThreadSaidKept, MessageSaidKept
  <2> QED
    BY <2>1, <2>2, <2>3 DEF Answered
<1>3. Answered => AnswersStayInSession
  BY DEF Answered, ThreadSaid, ModemSaid, Said, AnswersStayInSession, Decided
<1> QED
  BY <1>1, <1>2, <1>3, AlwaysOwned, PTL DEF NiSpec
=============================================================================
