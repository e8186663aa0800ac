----------------------------- MODULE XtraObserver -----------------------------
(***************************************************************************)
(* What the XTRA daemon is told of the system                              *)
(* (gps/gnss/XtraSystemStatusObserver.{h,cpp}) over datagram sockets       *)
(* (gps/utils/LocIpc.{h,cpp}).                                             *)
(*                                                                         *)
(* The observer is part of the HAL process.  Its message thread stores     *)
(* what it is told and sends it on once the daemon has asked for the       *)
(* status; its listener thread binds the socket of the HAL and posts what  *)
(* it receives; a timer says "halinit" after the start.  Either process    *)
(* can end and start again.  A datagram to a socket nobody has bound is    *)
(* lost; sendto waits while the socket of the receiver is full.            *)
(*                                                                         *)
(* The daemon is not in the repository.  It is taken to ask for the status *)
(* when it starts and when it hears "halinit", and to believe what it      *)
(* hears.                                                                  *)
(***************************************************************************)
EXTENDS Naturals, Sequences

CONSTANTS Items,         \* gpslock, connection, tac, mncmcc, xtrathrottle
          Values,
          Unset,         \* nothing was told yet
          MaxUpdates,    \* bound: updates
          MaxDatagrams,  \* datagrams that a socket holds
          MaxMsgs,       \* bound: messages of the message thread
          MaxRestarts    \* bound: restarts of either process

BoundAssumption == {MaxUpdates, MaxDatagrams, MaxMsgs, MaxRestarts} \subseteq Nat

VARIABLES value,               \* mGpsLock, mConnections, mTac, mMccmnc, mXtraThrottle
          mReqStatusReceived,
          mDelayLocTimer,      \* the timer runs
          bound,               \* the listener has bound its socket
          msgs,                \* messages of the message thread
          toHal, toXtra,       \* what the sockets hold
          daemon,              \* up, what it believes, whether it is about to ask
          answered,            \* ghost: the daemon of today has had an answer of the HAL of today
          late,                \* ghost: halinit was said before the socket was bound
          latest,              \* ghost: what the HAL of today was told last
          updates, restarts    \* bounds

hal == <<value, mReqStatusReceived, mDelayLocTimer, bound, msgs>>
ghosts == <<answered, late, latest>>
counters == <<updates, restarts>>
vars == <<hal, toHal, toXtra, daemon, ghosts, counters>>

Told == Items \ {"xtrathrottle"}   \* what an answer contains
Nothing == [i \in Items |-> Unset]

(***************************************************************************)
(* LocIpc.                                                                 *)
(***************************************************************************)
\* sendto, to the socket of the daemon.
send(d) ==
  /\ daemon.up => Len(toXtra) < MaxDatagrams
  /\ toXtra' = IF daemon.up THEN Append(toXtra, d) ELSE toXtra

\* startListeningBlocking, up to bind.
listen ==
  /\ ~bound /\ bound' = TRUE
  /\ UNCHANGED <<value, mReqStatusReceived, mDelayLocTimer, msgs, toHal, toXtra, daemon, ghosts, counters>>

\* The loop of startListeningBlocking with onReceive: a request becomes a message.
onReceive ==
  /\ bound /\ toHal # <<>> /\ Len(msgs) < MaxMsgs
  /\ msgs' = Append(msgs, [type |-> "request", updated |-> Head(toHal)])
  /\ toHal' = Tail(toHal)
  /\ UNCHANGED <<value, mReqStatusReceived, mDelayLocTimer, bound, toXtra, daemon, ghosts, counters>>

(***************************************************************************)
(* The observer.                                                           *)
(***************************************************************************)
\* notify of a data item, or a caller of updateLockStatus or updateXtraThrottle.
notify ==
  /\ updates < MaxUpdates /\ updates' = updates + 1 /\ Len(msgs) < MaxMsgs
  /\ \E i \in Items, v \in Values :
       /\ msgs' = Append(msgs, [type |-> "update", item |-> i, value |-> v])
       /\ latest' = [latest EXCEPT ![i] = v]
  /\ UNCHANGED <<value, mReqStatusReceived, mDelayLocTimer, bound, toHal, toXtra, daemon, answered, late, restarts>>

\* Mutant: nothing is stored before the daemon asks.
storeWhenAsked(m) == IF mReqStatusReceived THEN [value EXCEPT ![m.item] = m.value] ELSE value

store(m) == [value EXCEPT ![m.item] = m.value]

\* updateLockStatus, updateConnections, updateTac, updateMccMnc, updateXtraThrottle.
update(m) ==
  /\ m.type = "update"
  /\ value' = store(m)
  /\ IF mReqStatusReceived THEN send([type |-> "item", item |-> m.item, value |-> m.value]) ELSE UNCHANGED toXtra
  /\ UNCHANGED mReqStatusReceived

\* Who says that it has the status already is not answered.
onStatusRequested(m) ==
  /\ m.type = "request"
  /\ mReqStatusReceived' = TRUE
  /\ IF m.updated THEN UNCHANGED toXtra ELSE send([type |-> "respondStatus", values |-> value])
  /\ UNCHANGED value

handle ==
  /\ msgs # <<>>
  /\ LET m == Head(msgs) IN update(m) \/ onStatusRequested(m)
  /\ msgs' = Tail(msgs)
  /\ UNCHANGED <<mDelayLocTimer, bound, toHal, daemon, ghosts, counters>>

\* Mutant: the timer is not started.
timerOff == FALSE

timerOn == TRUE

timeOutCallback ==
  /\ mDelayLocTimer /\ mDelayLocTimer' = FALSE
  /\ send([type |-> "halinit"])
  /\ late' = ~bound
  /\ UNCHANGED <<value, mReqStatusReceived, bound, msgs, toHal, daemon, answered, latest, counters>>

\* The process ends, and the constructor of a new observer has run.
halRestarts ==
  /\ restarts < MaxRestarts /\ restarts' = restarts + 1
  /\ value' = Nothing /\ mReqStatusReceived' = FALSE /\ mDelayLocTimer' = timerOn
  /\ bound' = FALSE /\ msgs' = <<>> /\ toHal' = <<>>
  /\ answered' = FALSE /\ late' = FALSE /\ latest' = Nothing
  /\ UNCHANGED <<toXtra, daemon, updates>>

(***************************************************************************)
(* The daemon.                                                             *)
(***************************************************************************)
daemonStarts ==
  /\ ~daemon.up
  /\ daemon' = [up |-> TRUE, view |-> Nothing, asks |-> TRUE]
  /\ UNCHANGED <<hal, toHal, toXtra, ghosts, counters>>

daemonEnds ==
  /\ daemon.up /\ restarts < MaxRestarts /\ restarts' = restarts + 1
  /\ daemon' = [up |-> FALSE, view |-> Nothing, asks |-> FALSE]
  /\ toXtra' = <<>> /\ answered' = FALSE
  /\ UNCHANGED <<hal, toHal, late, latest, updates>>

daemonAsks ==
  /\ daemon.up /\ daemon.asks /\ (bound => Len(toHal) < MaxDatagrams)
  /\ \E updated \in {FALSE} \union {answered} :
       toHal' = IF bound THEN Append(toHal, updated) ELSE toHal
  /\ daemon' = [daemon EXCEPT !.asks = FALSE]
  /\ UNCHANGED <<hal, toXtra, ghosts, counters>>

\* What the daemon believes after an answer: it has heard nothing of the throttle in it.
believe(d) == [i \in Items |-> IF i \in Told THEN d.values[i] ELSE daemon.view[i]]

daemonHears ==
  /\ daemon.up /\ toXtra # <<>>
  /\ LET d == Head(toXtra) IN
     /\ daemon' = CASE d.type = "halinit"       -> [daemon EXCEPT !.asks = TRUE]
                    [] d.type = "item"          -> [daemon EXCEPT !.view[d.item] = d.value]
                    [] d.type = "respondStatus" -> [daemon EXCEPT !.view = believe(d)]
     \* An answer of an earlier HAL says nothing of this one.
     /\ answered' = (answered \/ (d.type = "respondStatus" /\ mReqStatusReceived))
  /\ toXtra' = Tail(toXtra)
  /\ UNCHANGED <<hal, toHal, late, latest, counters>>

-----------------------------------------------------------------------------
Init ==
  /\ value = Nothing /\ mReqStatusReceived = FALSE /\ mDelayLocTimer = timerOn /\ bound = FALSE /\ msgs = <<>>
  /\ toHal = <<>> /\ toXtra = <<>>
  /\ daemon = [up |-> FALSE, view |-> Nothing, asks |-> FALSE]
  /\ answered = FALSE /\ late = FALSE /\ latest = Nothing /\ updates = 0 /\ restarts = 0

listener == listen \/ onReceive
xtraDaemon == daemonAsks \/ daemonHears

Next ==
  \/ listener \/ notify \/ handle \/ timeOutCallback \/ halRestarts
  \/ daemonStarts \/ daemonEnds \/ xtraDaemon

Spec == Init /\ [][Next]_vars

\* Threads run and the timer expires; the daemon does what it is about to do.
Fairness == WF_vars(listener) /\ WF_vars(handle) /\ WF_vars(timeOutCallback) /\ WF_vars(xtraDaemon)
FairSpec == Spec /\ Fairness

-----------------------------------------------------------------------------
(***************************************************************************)
(* Properties.                                                             *)
(***************************************************************************)
\* A daemon that has been answered, with nothing on its way to it, believes what the HAL was told last
\* of everything an answer contains, whether that came before, between the request and the answer, or after
\* (XtraSystemStatusObserver::onStatusRequested and the update functions).
XtraAgrees ==
  answered /\ msgs = <<>> /\ toXtra = <<>> => \A i \in Told : daemon.view[i] = latest[i]

\* A daemon that runs is answered, even if it started before the HAL or the HAL was restarted:
\* halinit makes it ask again.  Premise: the listener has bound its socket within the tenth of a
\* second that the timer gives it; if not, the request that halinit brings is lost.
DaemonIsAnswered == (daemon.up /\ ~late) ~> (answered \/ ~daemon.up \/ late)
=============================================================================
