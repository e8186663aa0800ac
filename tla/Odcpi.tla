-------------------------------- MODULE Odcpi --------------------------------
(***************************************************************************)
(* On-demand coarse position injection, gps/gnss/GnssAdapter.cpp           *)
(* (reportOdcpiRequest, odcpiTimerExpire) and OdcpiTimer of GnssAdapter.h. *)
(*                                                                         *)
(* The modem asks for a coarse position (START), perhaps for an emergency, *)
(* and ends its request (STOP).  The adapter passes it to the framework at *)
(* most once in ten seconds and repeats it as long as the request is       *)
(* active.  Requests and expirations of the timer are messages of the      *)
(* adapter's queue; each handler is one action.  The timer runs on its own *)
(* thread: its expiration waits in the queue, where stopping or starting   *)
(* the timer again does not reach it.                                      *)
(***************************************************************************)
EXTENDS Integers, Sequences

CONSTANTS
  MaxQueue,   \* bound: messages in the adapter's queue when one is sent
  MaxBurst,   \* bound: framework requests counted in a burst
  None

ASSUME BoundsAssumption == MaxQueue \in Nat \ {0} /\ MaxBurst \in Nat \ {0, 1}
ASSUME NoneAssumption == None \notin BOOLEAN

VARIABLES
  supported,   \* mOdcpiRequestCb # NULL: somebody has registered for requests
  mOdcpiRequestActive,
  emergency,   \* mOdcpiRequest.isEmergencyMode
  mActive,     \* OdcpiTimer::mActive
  ticking,     \* the LocTimer is running
  queue,       \* messages of the adapter
  asked,       \* isEmergencyMode of the latest request to the framework
  burst,       \* ghost: requests each made within ten seconds of the one before
  upgraded     \* ghost: an emergency has replaced a request

timer == <<mActive, ticking>>
framework == <<asked, burst>>
vars == <<supported, mOdcpiRequestActive, emergency, timer, queue, framework, upgraded>>

Start(isEmergency) == [type |-> "START", emergency |-> isEmergency]
Message == {Start(e) : e \in BOOLEAN} \cup [type : {"STOP", "EXPIRE", "RESTART", "INIT"}, emergency : {FALSE}]
ExpireQueued == \E i \in DOMAIN queue : queue[i].type = "EXPIRE"

(***************************************************************************)
(* What the handlers are made of.                                          *)
(***************************************************************************)
mOdcpiRequestCb(isEmergency) ==
  /\ asked' = isEmergency
  /\ burst' = IF burst < MaxBurst THEN burst + 1 ELSE burst

\* OdcpiTimer::start() and restart(): LocTimer::start() of a running timer does nothing,
\* and both leave a timer running.
start == mActive' = TRUE /\ ticking' = TRUE
stop == mActive' = FALSE /\ ticking' = FALSE

Handle(type) ==
  /\ queue # <<>> /\ Head(queue).type = type
  /\ queue' = Tail(queue)

(***************************************************************************)
(* The adapter.                                                            *)
(***************************************************************************)

\* reportOdcpiRequest(), START: the three cases, and the one that does nothing.
FirstRequest(e) ==
  /\ ~mOdcpiRequestActive /\ ~mActive
  /\ mOdcpiRequestCb(e) /\ start
  /\ mOdcpiRequestActive' = TRUE
  /\ UNCHANGED upgraded

EmergencyRequest(e) ==
  /\ mOdcpiRequestActive \/ mActive
  /\ e /\ ~emergency
  /\ mOdcpiRequestCb(e) /\ start
  /\ mOdcpiRequestActive' = TRUE
  /\ upgraded' = TRUE

\* Mutant: a request during the ten seconds is passed on at once.
AskAgain(e) ==
  /\ mOdcpiRequestActive \/ mActive
  /\ ~(e /\ ~emergency)
  /\ mOdcpiRequestCb(e) /\ start
  /\ mOdcpiRequestActive' = TRUE
  /\ UNCHANGED upgraded

RequestAgain(e) ==
  /\ mOdcpiRequestActive \/ mActive
  /\ ~(e /\ ~emergency)
  /\ mOdcpiRequestActive' = TRUE
  /\ UNCHANGED <<timer, framework, upgraded>>

\* Requests are dropped as long as nobody has registered.
reportUnsupported ==
  /\ ~supported
  /\ Handle("START") \/ Handle("STOP")
  /\ UNCHANGED <<supported, mOdcpiRequestActive, emergency, timer, framework, upgraded>>

reportStart ==
  /\ supported /\ Handle("START")
  /\ UNCHANGED supported
  /\ LET e == Head(queue).emergency IN
       /\ FirstRequest(e) \/ EmergencyRequest(e) \/ RequestAgain(e)
       /\ emergency' = e

reportStop ==
  /\ supported /\ Handle("STOP")
  /\ mOdcpiRequestActive' = FALSE
  /\ UNCHANGED <<supported, emergency, timer, framework, upgraded>>

\* Mutant: the timer is left as it is when the request is repeated.
ExpireOnce ==
  /\ Handle("EXPIRE")
  /\ IF mOdcpiRequestActive
     THEN mOdcpiRequestCb(emergency) /\ UNCHANGED timer
     ELSE stop /\ UNCHANGED framework
  /\ UNCHANGED <<supported, mOdcpiRequestActive, emergency, upgraded>>

odcpiTimerExpire ==
  /\ Handle("EXPIRE")
  /\ IF mOdcpiRequestActive
     THEN mOdcpiRequestCb(emergency) /\ start
     ELSE stop /\ UNCHANGED framework
  /\ UNCHANGED <<supported, mOdcpiRequestActive, emergency, upgraded>>

\* restartSessions(), on engine up: "odcpi session is no longer active after restart".
restartSessions ==
  /\ Handle("RESTART")
  /\ mOdcpiRequestActive' = FALSE
  /\ UNCHANGED <<supported, emergency, timer, framework, upgraded>>

initOdcpi ==
  /\ Handle("INIT")
  /\ supported' = TRUE
  /\ UNCHANGED <<mOdcpiRequestActive, emergency, timer, framework, upgraded>>

Adapter ==
  \/ reportStart \/ reportStop \/ reportUnsupported
  \/ odcpiTimerExpire \/ restartSessions \/ initOdcpi

(***************************************************************************)
(* The modem and the clients of the adapter, and time.                     *)
(***************************************************************************)
Post ==
  /\ Len(queue) < MaxQueue
  /\ \E m \in Message : m.type # "EXPIRE" /\ queue' = Append(queue, m)
  /\ UNCHANGED <<supported, mOdcpiRequestActive, emergency, timer, framework, upgraded>>

\* The timer expires ten seconds after it was started, which is when the framework was
\* asked: the burst is over.
timeOutCallback ==
  /\ ticking /\ ticking' = FALSE
  /\ queue' = Append(queue, [type |-> "EXPIRE", emergency |-> FALSE])
  /\ burst' = 0
  /\ UNCHANGED <<supported, mOdcpiRequestActive, emergency, mActive, asked, upgraded>>

\* Ten seconds go by while the timer is stopped.
Elapse ==
  /\ ~ticking /\ burst # 0 /\ burst' = 0
  /\ UNCHANGED <<supported, mOdcpiRequestActive, emergency, timer, queue, asked, upgraded>>

Init ==
  /\ supported = FALSE
  /\ mOdcpiRequestActive = FALSE /\ emergency = FALSE
  /\ mActive = FALSE /\ ticking = FALSE
  /\ queue = <<>>
  /\ asked = None /\ burst = 0 /\ upgraded = FALSE

Next == Adapter \/ Post \/ timeOutCallback \/ Elapse

Spec == Init /\ [][Next]_vars

\* The adapter handles its messages and the timer thread goes on; the modem need not do
\* anything.
FairSpec == Spec /\ WF_vars(Adapter) /\ WF_vars(timeOutCallback)

(***************************************************************************)
(* Properties.                                                             *)
(***************************************************************************)
\* Type correctness; the framework was asked before a request is active.
TypeOK ==
  /\ supported \in BOOLEAN
  /\ mOdcpiRequestActive \in BOOLEAN /\ emergency \in BOOLEAN
  /\ mActive \in BOOLEAN /\ ticking \in BOOLEAN
  /\ queue \in Seq(Message)
  /\ asked \in BOOLEAN \cup {None}
  /\ mOdcpiRequestActive \/ mActive => asked # None
  /\ burst \in 0..MaxBurst /\ upgraded \in BOOLEAN

\* An active request will be repeated, and a timer that is believed to run will report:
\* it is running, or its expiration is waiting, however late, for its handler.
ActiveIsTimed == mOdcpiRequestActive \/ mActive => ticking \/ ExpireQueued

\* An emergency is passed on at once: while the adapter holds an emergency request the
\* framework's latest request is one for an emergency.
EmergencyAsked == emergency => asked = TRUE

\* Unless an emergency has replaced a request, the framework is not asked twice within
\* ten seconds ("the mOdcpiTimer helps avoid spamming the framework").
NoSpam == ~upgraded => burst <= 1

\* A request that stays active is repeated for ever: the ten seconds end and the framework
\* is asked again.
Repeated == <>[]mOdcpiRequestActive => []<>(burst = 0) /\ []<>(burst # 0)
=============================================================================
