----------------------------- MODULE NiSession -----------------------------
(***************************************************************************)
(* Network-initiated (NI) location requests (gps/gnss/GnssAdapter.cpp).    *)
(*                                                                         *)
(* The modem asks for the user's consent.  The adapter keeps at most one   *)
(* ordinary SUPL request and one emergency (ES) request in two NiSession   *)
(* records, spawns a thread per request that waits for the user's answer   *)
(* or times out, and sends the answer back to the modem.                   *)
(*                                                                         *)
(* The message thread, and any number of NI threads, share the records.    *)
(* The fields rawRequest, respRecvd and resp are changed by the NI threads *)
(* under tLock; the message thread reads rawRequest and reqID without it,  *)
(* and an NI thread resets reqID after it has let tLock go.  Every step    *)
(* between two accesses is an action.  respTimeLeft is abstracted: a wait  *)
(* may time out at any moment.                                             *)
(***************************************************************************)
EXTENDS Naturals, Sequences, FiniteSets

CONSTANTS
  Requests,        \* the modem's requests; each is sent once
  Emergency,       \* those of type GNSS_NI_TYPE_EMERGENCY_SUPL
  UserAnswers,     \* what the user may answer
  None,            \* NULL
  ThreadMayFail,   \* pthread_create() may fail
  ClientMayLeave   \* the client may change its gnssNiCb while requests are pending

Sessions == {"session", "sessionEs"}
Responses == {"ACCEPT", "DENY", "NO_RESPONSE", "IGNORE"}

ASSUME RequestsAssumption == None \notin Requests /\ Emergency \subseteq Requests
ASSUME AnswersAssumption == UserAnswers \subseteq Responses \ {"IGNORE"}
ASSUME SwitchesAssumption == ThreadMayFail \in BOOLEAN /\ ClientMayLeave \in BOOLEAN

VARIABLES
  rawRequest, reqID, respRecvd, resp,  \* per session: the fields of NiSession
  reqIDCounter,
  waiting,    \* per session: NI threads before or in pthread_cond_timedwait()
  leaving,    \* NI threads that have unlocked tLock, with what they took along
  handler,    \* the response the message thread is in the middle of processing
  niClient,   \* a client with a gnssNiCb is registered
  niQueue,      \* the adapter's message queue
  prompts,    \* questions put to the user
  userSaid,   \* the user's answers
  silenced,   \* requests an ES acceptance has decided to ignore
  freed,      \* requests freed without an answer
  heard,      \* answers the modem was given
  sent        \* requests the modem has sent

fields == <<rawRequest, reqID, respRecvd, resp, reqIDCounter>>
threads == <<waiting, leaving>>
user == <<prompts, userSaid, niClient>>
ghosts == <<silenced, freed, heard, sent>>
niVars == <<fields, threads, handler, niQueue, user, ghosts>>

Notify(r) == [msg |-> "notify", req |-> r]
Answer(id, a) == [msg |-> "response", id |-> id, resp |-> a]
Inform(r, a) == [msg |-> "inform", req |-> r, resp |-> a]
NiMessage ==
  [msg : {"notify"}, req : Requests]
    \cup [msg : {"response"}, id : Nat, resp : UserAnswers]
    \cup [msg : {"inform"}, req : Requests, resp : Responses]

Idle == [step |-> "idle", session |-> "session", resp |-> "IGNORE"]
Handler == [step : {"idle", "ignore", "set"}, session : Sessions, resp : Responses]

Receives(kind) == handler = Idle /\ niQueue # <<>> /\ Head(niQueue).msg = kind
TakeOff == niQueue' = Tail(niQueue)

sessionFor(r) == IF r \in Emergency THEN "sessionEs" ELSE "session"

-----------------------------------------------------------------------------
(***************************************************************************)
(* The message thread: requestNiNotify.                                    *)
(***************************************************************************)
\* Mutant: an ordinary request does not look at its own session.
FreeButForItself(r) == rawRequest["sessionEs"] = None

\* An ordinary request is refused while any request is pending, an ES one while an ES
\* one is.
Free(r) ==
  /\ rawRequest["sessionEs"] = None
  /\ r \in Emergency \/ rawRequest["session"] = None

\* The record is filled, without tLock, and the thread created; a failure of
\* pthread_create() is only logged.
Admit(s, r) ==
  /\ rawRequest' = [rawRequest EXCEPT ![s] = r]
  /\ reqIDCounter' = reqIDCounter + 1
  /\ reqID' = [reqID EXCEPT ![s] = reqIDCounter + 1]
  /\ prompts' = prompts \cup {[id |-> reqIDCounter + 1, req |-> r]}
  /\ \/ waiting' = [waiting EXCEPT ![s] = @ + 1]
     \/ ThreadMayFail /\ UNCHANGED waiting
  /\ UNCHANGED <<respRecvd, resp, freed>>

RequestNiNotify ==
  /\ Receives("notify")
  /\ TakeOff
  /\ LET r == Head(niQueue).req IN
       \/ niClient /\ Free(r) /\ Admit(sessionFor(r), r)
       \/ niClient /\ ~Free(r) /\ freed' = freed \cup {r} /\ UNCHANGED <<fields, waiting, prompts>>
       \/ ~niClient /\ UNCHANGED <<fields, waiting, prompts, freed>>
  /\ UNCHANGED <<leaving, handler, niClient, userSaid, silenced, heard, sent>>

(***************************************************************************)
(* The message thread: gnssNiResponseCommand for the user's answer.  The   *)
(* session is looked up without tLock, then tLock is taken, first for the  *)
(* ordinary session an ES acceptance ignores.                              *)
(***************************************************************************)
\* Mutant: the answer is given to the other session.
WrongSession(id, s) == rawRequest[s] # None /\ \E t \in Sessions \ {s} : reqID[t] = id

ActiveSession(id, s) == reqID[s] = id /\ rawRequest[s] # None

IgnoresOther(s, a) == s = "sessionEs" /\ a = "ACCEPT" /\ rawRequest["session"] # None

LookUpSession ==
  /\ Receives("response")
  /\ TakeOff
  /\ LET m == Head(niQueue) IN
       IF niClient /\ \E s \in Sessions : ActiveSession(m.id, s)
       THEN \E s \in Sessions :
              /\ ActiveSession(m.id, s)
              /\ handler' = [step |-> IF IgnoresOther(s, m.resp) THEN "ignore" ELSE "set",
                             session |-> s, resp |-> m.resp]
              /\ silenced' = IF IgnoresOther(s, m.resp)
                             THEN silenced \cup {rawRequest["session"]} ELSE silenced
       ELSE UNCHANGED <<handler, silenced>>  \* LOCATION_ERROR_ID_UNKNOWN
  /\ UNCHANGED <<fields, threads, user, freed, heard, sent>>

Respond(s, a) ==
  /\ resp' = [resp EXCEPT ![s] = a]
  /\ respRecvd' = [respRecvd EXCEPT ![s] = TRUE]
  /\ UNCHANGED <<rawRequest, reqID, reqIDCounter>>

\* Mutant: the ES session itself is ignored.
IgnoreEs == handler.step = "ignore" /\ Respond("sessionEs", "IGNORE") /\ handler' = Idle
            /\ UNCHANGED <<threads, niQueue, user, ghosts>>

IgnoreOther ==
  /\ handler.step = "ignore"
  /\ Respond("session", "IGNORE")
  /\ handler' = [handler EXCEPT !.step = "set"]
  /\ UNCHANGED <<threads, niQueue, user, ghosts>>

SetResponse ==
  /\ handler.step = "set"
  /\ Respond(handler.session, handler.resp)
  /\ handler' = Idle
  /\ UNCHANGED <<threads, niQueue, user, ghosts>>

\* The other gnssNiResponseCommand: the modem is told and the request freed.
InformNiResponse ==
  /\ Receives("inform")
  /\ TakeOff
  /\ heard' = heard \cup {[req |-> Head(niQueue).req, resp |-> Head(niQueue).resp]}
  /\ UNCHANGED <<fields, threads, handler, user, silenced, freed, sent>>

-----------------------------------------------------------------------------
(***************************************************************************)
(* The NI threads: niThreadProc.                                           *)
(***************************************************************************)
\* Mutant: the request stays in the record.
FinishKeeping(s, a) ==
  /\ waiting' = [waiting EXCEPT ![s] = @ - 1]
  /\ respRecvd' = [respRecvd EXCEPT ![s] = FALSE]
  /\ resp' = [resp EXCEPT ![s] = a]
  /\ leaving' = leaving \cup {[session |-> s, req |-> rawRequest[s], resp |-> a, step |-> "clear"]}
  /\ UNCHANGED <<rawRequest, freed>>

\* The critical section after the wait: the response flag is reset and the request, if
\* there still is one, taken out of the record; an ignored one is freed.
Finish(s, a) ==
  /\ waiting' = [waiting EXCEPT ![s] = @ - 1]
  /\ respRecvd' = [respRecvd EXCEPT ![s] = FALSE]
  /\ resp' = [resp EXCEPT ![s] = a]
  /\ rawRequest' = [rawRequest EXCEPT ![s] = None]
  /\ leaving' = leaving \cup {[session |-> s, req |-> rawRequest[s], resp |-> a, step |-> "clear"]}
  /\ freed' = IF rawRequest[s] # None /\ a = "IGNORE" THEN freed \cup {rawRequest[s]} ELSE freed

Wake(s) ==
  /\ waiting[s] > 0
  /\ respRecvd[s]
  /\ Finish(s, resp[s])
  /\ UNCHANGED <<reqID, reqIDCounter, handler, niQueue, user, silenced, heard, sent>>

\* The wait may end with ETIMEDOUT even when an answer has just come: NO_RESPONSE wins.
TimeOut(s) ==
  /\ waiting[s] > 0
  /\ Finish(s, "NO_RESPONSE")
  /\ UNCHANGED <<reqID, reqIDCounter, handler, niQueue, user, silenced, heard, sent>>

Sends(t) == t.req # None /\ t.resp # "IGNORE"

\* reqID = 0, outside tLock.
ClearId(t) ==
  /\ t.step = "clear"
  /\ reqID' = [reqID EXCEPT ![t.session] = 0]
  /\ leaving' = (leaving \ {t}) \cup (IF Sends(t) THEN {[t EXCEPT !.step = "send"]} ELSE {})
  /\ UNCHANGED <<rawRequest, respRecvd, resp, reqIDCounter, waiting, handler, niQueue, user, ghosts>>

SendResponse(t) ==
  /\ t.step = "send"
  /\ leaving' = leaving \ {t}
  /\ niQueue' = Append(niQueue, Inform(t.req, t.resp))
  /\ UNCHANGED <<fields, waiting, handler, user, ghosts>>

-----------------------------------------------------------------------------
(***************************************************************************)
(* The modem, the user and the client (external).                          *)
(***************************************************************************)
ModemAsks(r) ==
  /\ r \notin sent
  /\ sent' = sent \cup {r}
  /\ niQueue' = Append(niQueue, Notify(r))
  /\ UNCHANGED <<fields, threads, handler, user, silenced, freed, heard>>

\* The framework answers a prompt at most once, possibly long after it timed out.
UserResponds(p, a) ==
  /\ \A u \in userSaid : u.id # p.id
  /\ userSaid' = userSaid \cup {[id |-> p.id, resp |-> a]}
  /\ niQueue' = Append(niQueue, Answer(p.id, a))
  /\ UNCHANGED <<fields, threads, handler, prompts, niClient, ghosts>>

ClientChanges ==
  /\ ClientMayLeave /\ handler = Idle
  /\ niClient' = ~niClient
  /\ UNCHANGED <<fields, threads, handler, niQueue, prompts, userSaid, ghosts>>

-----------------------------------------------------------------------------
NiInit ==
  /\ rawRequest = [s \in Sessions |-> None]
  /\ reqID = [s \in Sessions |-> 0]
  /\ respRecvd = [s \in Sessions |-> FALSE]
  /\ resp = [s \in Sessions |-> "IGNORE"]  \* never read before it is written
  /\ reqIDCounter = 0
  /\ waiting = [s \in Sessions |-> 0]
  /\ leaving = {} /\ prompts = {} /\ userSaid = {} /\ silenced = {}
  /\ freed = {} /\ heard = {} /\ sent = {}
  /\ handler = Idle /\ niClient = TRUE /\ niQueue = <<>>

MessageThread ==
  RequestNiNotify \/ LookUpSession \/ IgnoreOther \/ SetResponse \/ InformNiResponse

NiThread ==
  \/ \E s \in Sessions : Wake(s) \/ TimeOut(s)
  \/ \E t \in leaving : ClearId(t) \/ SendResponse(t)

Environment ==
  \/ \E r \in Requests : ModemAsks(r)
  \/ \E p \in prompts, a \in UserAnswers : UserResponds(p, a)
  \/ ClientChanges

NiNext == MessageThread \/ NiThread \/ Environment

NiSpec == NiInit /\ [][NiNext]_niVars

\* The message thread and every NI thread run on; a wait always ends.
FairNi ==
  /\ NiSpec
  /\ WF_niVars(MessageThread)
  /\ \A s \in Sessions : WF_niVars(Wake(s) \/ TimeOut(s))
  /\ WF_niVars(\E t \in leaving : ClearId(t) \/ SendResponse(t))

-----------------------------------------------------------------------------
NiTypeOK ==
  /\ rawRequest \in [Sessions -> Requests \cup {None}]
  /\ reqID \in [Sessions -> Nat]
  /\ respRecvd \in [Sessions -> BOOLEAN]
  /\ resp \in [Sessions -> Responses]
  /\ reqIDCounter \in Nat
  /\ waiting \in [Sessions -> Nat]
  /\ leaving \subseteq [session : Sessions, req : Requests \cup {None}, resp : Responses,
                        step : {"clear", "send"}]
  /\ \A t \in leaving : t.step = "send" => t.req \in Requests
  /\ handler \in Handler
  /\ niClient \in BOOLEAN
  /\ niQueue \in Seq(NiMessage)
  /\ prompts \subseteq [id : Nat, req : Requests]
  /\ userSaid \subseteq [id : Nat, resp : UserAnswers]
  /\ silenced \subseteq Requests /\ freed \subseteq Requests
  /\ heard \subseteq [req : Requests, resp : Responses]
  /\ sent \subseteq Requests

\* Exactly the sessions with a pending request have a thread waiting for it, and just
\* one: no request is left without its timeout and no thread waits for nothing.
OneWaiter == \A s \in Sessions : waiting[s] = IF rawRequest[s] = None THEN 0 ELSE 1

\* The modem's request is a heap object that is passed along: at any moment it is in at
\* most one session, thread or message, freed or answered, and never twice.
Places(r) ==
  Cardinality({s \in Sessions : rawRequest[s] = r})
    + Cardinality({t \in leaving : t.req = r /\ Sends(t)})
    + Cardinality({i \in DOMAIN niQueue : niQueue[i].msg # "response" /\ niQueue[i].req = r})
    + Cardinality({x \in heard : x.req = r})
    + (IF r \in freed THEN 1 ELSE 0)
PayloadOwnedOnce == \A r \in Requests : Places(r) <= 1

\* An emergency request that was admitted is never dropped or ignored: it is in its
\* session, with a thread that sends its answer, in the message that informs the modem,
\* or the modem has been informed.
EsNeverDropped ==
  \A p \in prompts : p.req \in Emergency => p.req \notin freed /\ Places(p.req) = 1

\* What an NI thread decided about r, in whatever stage it is.
Decided == {[req |-> t.req, resp |-> t.resp] : t \in leaving} \cup heard
IdOf(r) == {p.id : p \in {q \in prompts : q.req = r}}

\* An acceptance or a refusal sent for a request was given by the user to a prompt of the
\* same kind (ordinary or ES), to this one or an earlier one: the two sessions' answers
\* never cross and nothing is answered before it is asked.
AnswersStayInSession ==
  \A d \in Decided :
    d.resp \in {"ACCEPT", "DENY"} =>
      \E u \in userSaid, p \in prompts :
        /\ u.resp = d.resp /\ p.id = u.id /\ sessionFor(p.req) = sessionFor(d.req)
        /\ \A i \in IdOf(d.req) : p.id <= i

\* Stronger: the answer was given to this very request, and only a request that an ES
\* acceptance found pending is ignored (niThreadProc: "Reset the user response flag for
\* the next session").
AnswerIsForRequest ==
  \A d \in Decided :
    /\ d.resp \in {"ACCEPT", "DENY"} =>
         \E u \in userSaid : u.resp = d.resp /\ u.id \in IdOf(d.req)
    /\ d.resp = "IGNORE" => d.req \in silenced

\* A pending request can be answered: its record holds the id its prompt was shown with
\* (requestNiNotify: "Save request").
PendingKeepsId ==
  \A s \in Sessions : rawRequest[s] # None => reqID[s] \in IdOf(rawRequest[s])

\* Every admitted request leaves its session, so that the next one can be admitted.
Settled ==
  \A s \in Sessions, r \in Requests : rawRequest[s] = r ~> rawRequest[s] # r
=============================================================================
