----------------------------- MODULE AdapterProofs -----------------------------
(***************************************************************************)
(* Proofs about what the GnssAdapter does with its threads.  Coarse        *)
(* positions on demand (Odcpi): an active request is timed, an emergency   *)
(* reaches the framework, and nothing floods it.  The reports (Reports),   *)
(* for any positions and satellites: each is handled once, and satellites  *)
(* are flagged as the newest position used them.  The message task         *)
(* (MsgTask), for any number of messages: however it ends, every           *)
(* message it accepted is handled in order or freed with the queue, and    *)
(* neither thread uses the queue or the delegate after it was freed.  The  *)
(* XTRA observer (XtraObserver), for any items, values and bounds: an      *)
(* answered daemon believes what the HAL was told last.  The system        *)
(* status (SystemStatus) reads what it was told last, for histories of any *)
(* length.  NMEA sentences (Nmea) agree with their report, for any         *)
(* positions and satellites.                                               *)
(***************************************************************************)
EXTENDS MCAdapter, FiniteSetTheorems, TLAPS

-----------------------------------------------------------------------------
(***************************************************************************)
(* Coarse positions on demand, for queues and bursts of any length.        *)
(***************************************************************************)
ExpireMessage == [type |-> "EXPIRE", emergency |-> FALSE]

\* At most one expiration waits in a queue q.
OneExpire(q) == \A i, j \in DOMAIN q : q[i].type = "EXPIRE" /\ q[j].type = "EXPIRE" => i = j

\* Consuming the head of the queue.
LEMMA HandleQueue ==
  ASSUME TypeOK, NEW type, Handle(type)
  PROVE  /\ queue' \in Seq(Message)
         /\ Head(queue) \in Message
         /\ ExpireQueued => ExpireQueued' \/ type = "EXPIRE"
         /\ ExpireQueued' => ExpireQueued
         /\ OneExpire(queue) => OneExpire(queue')
         /\ OneExpire(queue) /\ type = "EXPIRE" => ExpireQueued /\ ~ExpireQueued'
<1>1. queue \in Seq(Message) /\ queue # <<>> /\ Head(queue).type = type /\ queue' = Tail(queue)
  BY DEF Handle, TypeOK
<1>2. /\ Len(queue) \in Nat \ {0} /\ DOMAIN queue = 1..Len(queue) /\ Head(queue) = queue[1]
      /\ DOMAIN queue' = 1..(Len(queue) - 1) /\ queue' \in Seq(Message) /\ 1 \in DOMAIN queue
  BY <1>1
<1>3. \A i \in DOMAIN queue' : i + 1 \in DOMAIN queue /\ queue'[i] = queue[i + 1] /\ i + 1 # 1
  BY <1>1, <1>2
<1>4. \A i \in DOMAIN queue : i = 1 \/ (i - 1 \in DOMAIN queue' /\ queue'[i - 1] = queue[i])
  BY <1>1, <1>2
<1>5. ExpireQueued => ExpireQueued' \/ type = "EXPIRE"
  BY <1>1, <1>2, <1>4 DEF ExpireQueued
<1>6. ExpireQueued' => ExpireQueued
  BY <1>3 DEF ExpireQueued
<1>7. OneExpire(queue) => OneExpire(queue')
  <2> SUFFICES ASSUME OneExpire(queue), NEW i \in DOMAIN queue', NEW j \in DOMAIN queue',
                      queue'[i].type = "EXPIRE", queue'[j].type = "EXPIRE"
               PROVE  i = j
    BY DEF OneExpire
  <2>1. i + 1 = j + 1
    BY <1>3 DEF OneExpire
  <2> QED  BY <1>2, <2>1
<1>8. OneExpire(queue) /\ type = "EXPIRE" => ExpireQueued /\ ~ExpireQueued'
  BY <1>1, <1>2, <1>3 DEF OneExpire, ExpireQueued
<1> QED  BY <1>1, <1>2, <1>5, <1>6, <1>7, <1>8

\* Appending a message.
LEMMA AppendQueue ==
  ASSUME TypeOK, NEW m \in Message, queue' = Append(queue, m)
  PROVE  /\ queue' \in Seq(Message)
         /\ ExpireQueued' <=> ExpireQueued \/ m.type = "EXPIRE"
         /\ OneExpire(queue) /\ (m.type # "EXPIRE" \/ ~ExpireQueued) => OneExpire(queue')
<1>1. /\ queue \in Seq(Message) /\ Len(queue) \in Nat /\ DOMAIN queue = 1..Len(queue)
      /\ DOMAIN queue' = 1..(Len(queue) + 1) /\ queue'[Len(queue) + 1] = m
      /\ queue' \in Seq(Message)
  BY DEF TypeOK
<1>2. \A i \in DOMAIN queue : i \in DOMAIN queue' /\ queue'[i] = queue[i]
  BY <1>1
<1>3. \A i \in DOMAIN queue' : i \in DOMAIN queue \/ i = Len(queue) + 1
  BY <1>1
<1>4. ExpireQueued' <=> ExpireQueued \/ m.type = "EXPIRE"
  BY <1>1, <1>2, <1>3 DEF ExpireQueued
<1>5. OneExpire(queue) /\ (m.type # "EXPIRE" \/ ~ExpireQueued) => OneExpire(queue')
  BY <1>1, <1>2, <1>3 DEF OneExpire, ExpireQueued
<1> QED  BY <1>1, <1>4, <1>5

-----------------------------------------------------------------------------
\* Until an emergency replaces a request there is one expiration for each request to the
\* framework, and no request during the ten seconds before it.
CalmInv ==
  ~upgraded => /\ burst = 0 \/ (burst = 1 /\ ticking)
               /\ OneExpire(queue)
               /\ ExpireQueued => ~ticking
               /\ ticking \/ ExpireQueued => mActive

OdcpiInv == TypeOK /\ ActiveIsTimed /\ EmergencyAsked /\ CalmInv

LEMMA OdcpiStarts == Init => OdcpiInv
<1> SUFFICES ASSUME Init PROVE OdcpiInv
  OBVIOUS
<1>1. queue = <<>> /\ queue \in Seq(Message) /\ ~ExpireQueued /\ OneExpire(queue)
  BY DEF Init, ExpireQueued, OneExpire
<1>2. burst \in 0..MaxBurst
  BY BoundsAssumption DEF Init
<1>3. TypeOK
  BY <1>1, <1>2 DEF Init, TypeOK
<1> QED  BY <1>1, <1>3 DEF Init, OdcpiInv, ActiveIsTimed, EmergencyAsked, CalmInv

\* Asking the framework counts one more request, up to the bound.
LEMMA AskCounts ==
  ASSUME TypeOK, NEW e \in BOOLEAN, mOdcpiRequestCb(e)
  PROVE  asked' = e /\ burst' \in 0..MaxBurst /\ (burst = 0 => burst' = 1)
<1>1. asked' = e
  BY DEF mOdcpiRequestCb
<1>2. MaxBurst \in Nat /\ MaxBurst > 1 /\ burst \in 0..MaxBurst
  BY BoundsAssumption DEF TypeOK
<1>3. burst' = IF burst < MaxBurst THEN burst + 1 ELSE burst
  BY DEF mOdcpiRequestCb
<1>4. burst' \in 0..MaxBurst /\ (burst = 0 => burst' = 1)
  BY <1>2, <1>3
<1> QED  BY <1>1, <1>4

\* What a handler of the message m leaves to the queue, for the invariant.
QueueKept ==
  /\ queue' \in Seq(Message)
  /\ ExpireQueued <=> ExpireQueued'
  /\ OneExpire(queue) => OneExpire(queue')

\* A step that keeps the timer and the framework may clear the request or keep it.
LEMMA QuietStep ==
  ASSUME OdcpiInv, QueueKept, UNCHANGED <<timer, framework, upgraded, emergency>>,
         supported' \in BOOLEAN, mOdcpiRequestActive' \in BOOLEAN,
         mOdcpiRequestActive' => mOdcpiRequestActive \/ mActive
  PROVE  OdcpiInv'
<1>1. mActive' = mActive /\ ticking' = ticking /\ asked' = asked /\ burst' = burst
  BY DEF timer, framework
<1>2. TypeOK'
  BY <1>1 DEF OdcpiInv, TypeOK, QueueKept
<1>3. ActiveIsTimed'
  BY <1>1 DEF OdcpiInv, ActiveIsTimed, QueueKept
<1>4. EmergencyAsked'
  BY <1>1 DEF OdcpiInv, EmergencyAsked
<1>5. CalmInv'
  BY <1>1 DEF OdcpiInv, CalmInv, QueueKept
<1> QED  BY <1>2, <1>3, <1>4, <1>5 DEF OdcpiInv

\* A step that asks the framework starts the timer.
LEMMA AskStep ==
  ASSUME OdcpiInv, NEW e \in BOOLEAN, mOdcpiRequestCb(e), start, emergency' = e,
         queue' \in Seq(Message), supported' = supported, mOdcpiRequestActive' = TRUE,
         upgraded' \in BOOLEAN,
         upgraded' \/ (~upgraded /\ ~ticking /\ ~ExpireQueued' /\ OneExpire(queue'))
  PROVE  OdcpiInv'
<1>0. TypeOK
  BY DEF OdcpiInv
<1>1. asked' = e /\ burst' \in 0..MaxBurst /\ (burst = 0 => burst' = 1)
  BY <1>0, AskCounts
<1>2. mActive' = TRUE /\ ticking' = TRUE
  BY DEF start
<1>3. TypeOK'
  <2>1. asked' \in BOOLEAN \cup {None} /\ asked' # None
    BY <1>1, NoneAssumption
  <2> QED  BY <1>0, <1>1, <1>2, <2>1 DEF TypeOK
<1>4. ActiveIsTimed'
  BY <1>2 DEF ActiveIsTimed
<1>5. EmergencyAsked'
  BY <1>1 DEF EmergencyAsked
<1>6. CalmInv'
  <2> SUFFICES ASSUME ~upgraded' PROVE burst' = 1 /\ ticking' /\ mActive' /\ OneExpire(queue') /\ ~ExpireQueued'
    BY DEF CalmInv
  <2>1. burst = 0
    BY DEF OdcpiInv, CalmInv
  <2> QED  BY <1>1, <1>2, <2>1
<1> QED  BY <1>3, <1>4, <1>5, <1>6 DEF OdcpiInv

LEMMA OdcpiKept == OdcpiInv /\ [Next]_vars => OdcpiInv'
<1> SUFFICES ASSUME OdcpiInv, [Next]_vars PROVE OdcpiInv'
  OBVIOUS
<1>0. TypeOK
  BY DEF OdcpiInv
<1>1. CASE reportStart
  <2> DEFINE e == Head(queue).emergency
  <2>1. Handle("START") /\ emergency' = e /\ supported' = supported
    BY <1>1 DEF reportStart
  <2>2. Head(queue) \in Message /\ QueueKept
    BY <1>0, <2>1, HandleQueue DEF QueueKept
  <2>3. e \in BOOLEAN
    <3>1. Head(queue) \in {Start(b) : b \in BOOLEAN} \/ Head(queue).emergency \in {FALSE}
      BY <2>2 DEF Message
    <3>2. \A b \in BOOLEAN : Start(b).emergency = b
      BY DEF Start
    <3> QED  BY <3>1, <3>2
  <2>4. FirstRequest(e) \/ EmergencyRequest(e) \/ RequestAgain(e)
    BY <1>1 DEF reportStart
  <2> HIDE DEF e
  <2>5. CASE FirstRequest(e)
    <3>1. /\ mOdcpiRequestCb(e) /\ start /\ mOdcpiRequestActive' = TRUE /\ upgraded' = upgraded
          /\ ~mActive
      BY <2>5 DEF FirstRequest
    <3>2. upgraded \in BOOLEAN
      BY <1>0 DEF TypeOK
    <3>3. ~upgraded => ~ticking /\ ~ExpireQueued' /\ OneExpire(queue')
      BY <2>2, <3>1 DEF OdcpiInv, CalmInv, QueueKept
    <3> QED  BY <2>1, <2>2, <2>3, <3>1, <3>2, <3>3, AskStep DEF QueueKept
  <2>6. CASE EmergencyRequest(e)
    BY <2>1, <2>2, <2>3, <2>6, AskStep DEF EmergencyRequest, QueueKept
  <2>7. CASE RequestAgain(e)
    <3>1. /\ mActive' = mActive /\ ticking' = ticking /\ asked' = asked /\ burst' = burst
          /\ upgraded' = upgraded /\ mOdcpiRequestActive' = TRUE
      BY <2>7 DEF RequestAgain, timer, framework
    <3>2. TypeOK'
      BY <1>0, <2>1, <2>2, <2>3, <2>7, <3>1 DEF RequestAgain, TypeOK, QueueKept
    <3>3. ActiveIsTimed'
      BY <2>2, <2>7, <3>1 DEF RequestAgain, OdcpiInv, ActiveIsTimed, QueueKept
    <3>4. EmergencyAsked'
      BY <2>1, <2>7, <3>1 DEF RequestAgain, OdcpiInv, EmergencyAsked
    <3>5. CalmInv'
      BY <2>2, <3>1 DEF OdcpiInv, CalmInv, QueueKept
    <3> QED  BY <3>2, <3>3, <3>4, <3>5 DEF OdcpiInv
  <2> QED  BY <2>4, <2>5, <2>6, <2>7
<1>2. CASE reportUnsupported \/ reportStop \/ restartSessions \/ initOdcpi
  <2>1. QueueKept
    BY <1>0, <1>2, HandleQueue DEF reportUnsupported, reportStop, restartSessions, initOdcpi, QueueKept
  <2>2. /\ UNCHANGED <<timer, framework, upgraded, emergency>>
        /\ supported' = supported \/ supported' = TRUE
        /\ mOdcpiRequestActive' = mOdcpiRequestActive \/ mOdcpiRequestActive' = FALSE
    BY <1>2 DEF reportUnsupported, reportStop, restartSessions, initOdcpi
  <2>3. /\ supported' \in BOOLEAN /\ mOdcpiRequestActive' \in BOOLEAN
        /\ mOdcpiRequestActive' => mOdcpiRequestActive
    <3>1. supported \in BOOLEAN /\ mOdcpiRequestActive \in BOOLEAN
      BY <1>0 DEF TypeOK
    <3>2. supported' = supported \/ supported' = TRUE
      BY <2>2
    <3>3. supported' \in BOOLEAN
      <4>1. CASE supported' = supported
        BY <3>1, <4>1
      <4>2. CASE supported' = TRUE
        BY <4>2
      <4> QED  BY <3>2, <4>1, <4>2
    <3>4. mOdcpiRequestActive' = mOdcpiRequestActive \/ mOdcpiRequestActive' = FALSE
      BY <2>2
    <3>5. CASE mOdcpiRequestActive' = mOdcpiRequestActive
      BY <3>1, <3>3, <3>5
    <3>6. CASE mOdcpiRequestActive' = FALSE
      BY <3>3, <3>6
    <3> QED  BY <3>4, <3>5, <3>6
  <2> QED  BY <2>1, <2>2, <2>3, QuietStep
<1>3. CASE odcpiTimerExpire
  <2>1. /\ queue' \in Seq(Message)
        /\ ExpireQueued' => ExpireQueued
        /\ OneExpire(queue) => OneExpire(queue') /\ ExpireQueued /\ ~ExpireQueued'
    BY <1>0, <1>3, HandleQueue DEF odcpiTimerExpire
  <2>2. emergency \in BOOLEAN /\ upgraded \in BOOLEAN
    BY <1>0 DEF TypeOK
  <2>3. supported' = supported /\ emergency' = emergency /\ upgraded' = upgraded
        /\ mOdcpiRequestActive' = mOdcpiRequestActive
    BY <1>3 DEF odcpiTimerExpire
  <2>4. ~upgraded => ~ticking /\ burst = 0 /\ ~ExpireQueued' /\ OneExpire(queue')
    BY <2>1 DEF OdcpiInv, CalmInv
  <2>5. CASE mOdcpiRequestActive
    <3>1. mOdcpiRequestCb(emergency) /\ start
      BY <1>3, <2>5 DEF odcpiTimerExpire
    <3>2. mOdcpiRequestActive' = TRUE
      BY <1>0, <2>3, <2>5 DEF TypeOK
    <3> QED  BY <2>1, <2>2, <2>3, <2>4, <3>1, <3>2, AskStep
  <2>6. CASE ~mOdcpiRequestActive
    <3>1. mActive' = FALSE /\ ticking' = FALSE /\ asked' = asked /\ burst' = burst
      BY <1>3, <2>6 DEF odcpiTimerExpire, stop, framework
    <3>2. TypeOK'
      BY <1>0, <2>1, <2>3, <2>6, <3>1 DEF TypeOK
    <3>3. ActiveIsTimed' /\ EmergencyAsked'
      BY <2>3, <2>6, <3>1 DEF OdcpiInv, ActiveIsTimed, EmergencyAsked
    <3>4. CalmInv'
      BY <2>3, <2>4, <3>1 DEF CalmInv
    <3> QED  BY <3>2, <3>3, <3>4 DEF OdcpiInv
  <2> QED  BY <2>5, <2>6
<1>4. CASE Post
  <2>1. PICK m \in Message : m.type # "EXPIRE" /\ queue' = Append(queue, m)
    BY <1>4 DEF Post
  <2>2. QueueKept
    BY <1>0, <2>1, AppendQueue DEF QueueKept
  <2> QED  BY <1>0, <1>4, <2>2, QuietStep DEF Post, TypeOK
<1>5. CASE timeOutCallback
  <2>1. ExpireMessage \in Message /\ ExpireMessage.type = "EXPIRE" /\ queue' = Append(queue, ExpireMessage)
    BY <1>5 DEF timeOutCallback, ExpireMessage, Message
  <2>2. /\ queue' \in Seq(Message) /\ ExpireQueued'
        /\ OneExpire(queue) /\ ~ExpireQueued => OneExpire(queue')
    BY <1>0, <2>1, AppendQueue
  <2>3. /\ ticking /\ ticking' = FALSE /\ burst' = 0
        /\ UNCHANGED <<supported, mOdcpiRequestActive, emergency, mActive, asked, upgraded>>
    BY <1>5 DEF timeOutCallback
  <2>4. TypeOK'
    <3>1. burst' \in 0..MaxBurst
      BY <2>3, BoundsAssumption
    <3>2. ticking' \in BOOLEAN /\ queue' \in Seq(Message)
      BY <2>2, <2>3
    <3> QED  BY <1>0, <2>3, <3>1, <3>2 DEF TypeOK
  <2>5. ActiveIsTimed'
    BY <2>2 DEF ActiveIsTimed
  <2>6. EmergencyAsked'
    BY <2>3 DEF OdcpiInv, EmergencyAsked
  <2>7. CalmInv'
    BY <2>2, <2>3 DEF OdcpiInv, CalmInv
  <2> QED  BY <2>4, <2>5, <2>6, <2>7 DEF OdcpiInv
<1>6. CASE Elapse
  <2>1. /\ burst' = 0 /\ ExpireQueued' = ExpireQueued
        /\ UNCHANGED <<supported, mOdcpiRequestActive, emergency, mActive, ticking, queue, asked, upgraded>>
    BY <1>6 DEF Elapse, timer, ExpireQueued
  <2>2. TypeOK'
    BY <1>0, <2>1, BoundsAssumption DEF TypeOK
  <2>3. ActiveIsTimed' /\ EmergencyAsked'
    BY <2>1 DEF OdcpiInv, ActiveIsTimed, EmergencyAsked
  <2>4. CalmInv'
    BY <2>1 DEF OdcpiInv, CalmInv
  <2> QED  BY <2>2, <2>3, <2>4 DEF OdcpiInv
<1>7. CASE UNCHANGED vars
  <2>1. QueueKept
    BY <1>0, <1>7 DEF vars, QueueKept, TypeOK, ExpireQueued
  <2> QED  BY <1>0, <1>7, <2>1, QuietStep DEF vars, TypeOK
<1> QED  BY <1>1, <1>2, <1>3, <1>4, <1>5, <1>6, <1>7 DEF Next, Adapter

LEMMA OdcpiInvariance == Spec => []OdcpiInv
<1> QED  BY OdcpiStarts, OdcpiKept, PTL DEF Spec

\* An active request is timed, for any number of waiting messages.
THEOREM ActiveStaysTimed == Spec => []ActiveIsTimed
<1>1. OdcpiInv => ActiveIsTimed
  BY DEF OdcpiInv
<1> QED  BY <1>1, OdcpiInvariance, PTL

\* An emergency is never held back.
THEOREM EmergencyAlwaysAsked == Spec => []EmergencyAsked
<1>1. OdcpiInv => EmergencyAsked
  BY DEF OdcpiInv
<1> QED  BY <1>1, OdcpiInvariance, PTL

\* Without emergencies the framework is asked once in ten seconds.
THEOREM NeverSpams == Spec => []NoSpam
<1>1. OdcpiInv => NoSpam
  BY DEF OdcpiInv, CalmInv, NoSpam
<1> QED  BY <1>1, OdcpiInvariance, PTL

-----------------------------------------------------------------------------
(***************************************************************************)
(* The reports, for any positions, satellites, clients and configuration,  *)
(* and any number of reports.                                              *)
(***************************************************************************)
\* Positions and satellites on their way, and as they were handled.
PositionReport == [n : Nat, kind : {"position"}, p : Positions]
SvReport == [n : Nat, kind : {"sv"}, svs : Satellites]
AnyReport == PositionReport \cup SvReport
HandledPosition == [n : Nat, kind : {"position"}, p : Positions, to : {Trackers, {}}]
HandledSv == [n : Nat, kind : {"sv"}, svs : Satellites, marked : SUBSET Nat]
AnyHandled == HandledPosition \cup HandledSv

ReportTypes ==
  /\ reports \in Seq(AnyReport) /\ ulp \in Seq(AnyReport) /\ log \in Seq(AnyHandled)
  /\ sent \in Nat

\* The numbers of the reports in a sequence.
Numbers(s) == {s[i].n : i \in DOMAIN s}

\* Each report is in one place, or was handled.
Accounted ==
  /\ Len(log) + Len(reports) + Len(ulp) = sent
  /\ Numbers(log) \cup Numbers(reports) \cup Numbers(ulp) = 1..sent

\* A position with satellites that clients were told of.
Gives(e) == e.kind = "position" /\ Report!needReport(e.p) /\ e.p.hasUsed

\* Of those handled, the positions with satellites that no satellite report has followed.
Unused(l) == {i \in 1..Len(l) : Gives(l[i]) /\ \A k \in i..Len(l) : l[k].kind # "sv"}

\* The adapter has the satellites of the newest of them.
UsedRemembered ==
  /\ mGnssSvIdUsedInPosAvail \in BOOLEAN
  /\ mGnssSvIdUsedInPosAvail <=> Unused(log) # {}
  /\ mGnssSvIdUsedInPosAvail =>
       \E i \in Unused(log) : /\ \A j \in Unused(log) : i >= j
                              /\ mGnssSvIdUsedInPosition = log[i].p.used

ReportInv == /\ ReportTypes /\ Accounted /\ UsedRemembered
             /\ Report!OnlyGoodFixes /\ Report!UsedInFixTruthful

-----------------------------------------------------------------------------
\* What an entry at the end of the log does to those that came before: nothing, unless it is a
\* satellite report, which leaves none, or gives satellites itself, which makes it the newest.
LEMMA UnusedAppended ==
  ASSUME NEW l \in Seq(AnyHandled), NEW e \in AnyHandled
  PROVE  /\ e.kind = "sv" => Unused(Append(l, e)) = {}
         /\ e.kind # "sv" /\ ~Gives(e) => Unused(Append(l, e)) = Unused(l)
         /\ Gives(e) => Unused(Append(l, e)) = Unused(l) \cup {Len(l) + 1}
<1> DEFINE a == Append(l, e)
<1>1. /\ Len(l) \in Nat /\ Len(a) = Len(l) + 1 /\ a[Len(l) + 1] = e
      /\ \A i \in 1..Len(l) : a[i] = l[i]
  OBVIOUS
<1> HIDE DEF a
<1>2. ASSUME e.kind = "sv" PROVE Unused(a) = {}
  BY <1>1, <1>2 DEF Unused
<1>3. ASSUME e.kind # "sv"
      PROVE  \A i \in 1..Len(l) : i \in Unused(a) <=> i \in Unused(l)
  <2> TAKE i \in 1..Len(l)
  <2>1. (\A k \in i..Len(a) : a[k].kind # "sv") <=> \A k \in i..Len(l) : l[k].kind # "sv"
    <3>1. \A k \in i..Len(a) : k = Len(l) + 1 \/ k \in i..Len(l)
      BY <1>1
    <3>2. \A k \in i..Len(l) : k \in 1..Len(l) /\ k \in i..Len(a)
      BY <1>1
    <3> QED  BY <1>1, <1>3, <3>1, <3>2
  <2>2. i \in 1..Len(a) /\ a[i] = l[i]
    BY <1>1
  <2> QED  BY <2>1, <2>2 DEF Unused
<1>4. ASSUME e.kind # "sv" PROVE Len(l) + 1 \in Unused(a) <=> Gives(e)
  <2>1. \A k \in (Len(l) + 1)..Len(a) : a[k].kind # "sv"
    BY <1>1, <1>4
  <2> QED  BY <1>1, <2>1 DEF Unused
<1>5. Unused(l) \subseteq 1..Len(l) /\ Unused(a) \subseteq 1..Len(l) \cup {Len(l) + 1}
  BY <1>1 DEF Unused
<1>6. Gives(e) => e.kind # "sv"
  BY DEF Gives
<1>7. ASSUME e.kind # "sv" PROVE Unused(a) = IF Gives(e) THEN Unused(l) \cup {Len(l) + 1} ELSE Unused(l)
  <2>1. \A i \in Unused(a) : i \in Unused(l) \/ (i = Len(l) + 1 /\ Gives(e))
    BY <1>3, <1>4, <1>5, <1>7
  <2>2. \A i \in Unused(l) : i \in Unused(a)
    BY <1>3, <1>5, <1>7
  <2>3. Gives(e) => Len(l) + 1 \in Unused(a)
    BY <1>4, <1>7
  <2>4. \A i \in Unused(a) : ~Gives(e) => i \in Unused(l)
    BY <2>1
  <2>5. CASE Gives(e)
    BY <2>1, <2>2, <2>3, <2>5
  <2>6. CASE ~Gives(e)
    BY <2>2, <2>4, <2>6
  <2> QED  BY <2>5, <2>6
<1> QED
  BY <1>2, <1>6, <1>7 DEF a

LEMMA UnusedNumbers == ASSUME NEW l \in Seq(AnyHandled) PROVE Unused(l) \subseteq 1..Len(l) /\ Len(l) \in Nat
  BY DEF Unused

\* A maximum, once there is one, is the one that Max chooses.
LEMMA MaxIs ==
  ASSUME NEW S \in SUBSET Nat, NEW n \in S, \A y \in S : n >= y
  PROVE  Report!Max(S) = n
<1>1. Report!Max(S) \in S /\ \A y \in S : Report!Max(S) >= y
  BY DEF Report!Max
<1>2. Report!Max(S) \in Nat /\ Report!Max(S) >= n /\ n >= Report!Max(S)
  BY <1>1
<1> QED
  BY <1>2

\* The numbers of a sequence that grows, that loses its head, and that is two.
LEMMA NumbersAppended ==
  ASSUME NEW S, NEW s \in Seq(S), NEW e \in S
  PROVE  Numbers(Append(s, e)) = Numbers(s) \cup {e.n} /\ Len(Append(s, e)) = Len(s) + 1
<1>1. /\ DOMAIN Append(s, e) = DOMAIN s \cup {Len(s) + 1}
      /\ \A i \in DOMAIN s : Append(s, e)[i] = s[i]
      /\ Append(s, e)[Len(s) + 1] = e /\ Len(Append(s, e)) = Len(s) + 1
  OBVIOUS
<1> QED
  BY <1>1 DEF Numbers

LEMMA NumbersTaken ==
  ASSUME NEW S, NEW s \in Seq(S), s # <<>>
  PROVE  /\ Numbers(s) = {Head(s).n} \cup Numbers(Tail(s)) /\ Len(Tail(s)) = Len(s) - 1
         /\ Head(s) \in S /\ Tail(s) \in Seq(S) /\ Len(s) \in Nat
<1>1. /\ Len(s) \in Nat \ {0} /\ DOMAIN s = 1..Len(s) /\ Head(s) = s[1] /\ Head(s) \in S
      /\ Tail(s) \in Seq(S) /\ DOMAIN Tail(s) = 1..(Len(s) - 1) /\ Len(Tail(s)) = Len(s) - 1
      /\ \A i \in 1..(Len(s) - 1) : Tail(s)[i] = s[i + 1]
  OBVIOUS
<1>2. \A i \in DOMAIN s : i = 1 \/ (i - 1 \in DOMAIN Tail(s) /\ Tail(s)[i - 1] = s[i])
  BY <1>1
<1>3. \A i \in DOMAIN Tail(s) : i + 1 \in DOMAIN s /\ Tail(s)[i] = s[i + 1]
  BY <1>1
<1>4. 1 \in DOMAIN s
  BY <1>1
<1>5. ASSUME NEW x \in Numbers(s) PROVE x \in {Head(s).n} \cup Numbers(Tail(s))
  <2>1. PICK i \in DOMAIN s : x = s[i].n
    BY DEF Numbers
  <2>2. CASE i = 1
    BY <1>1, <2>1, <2>2
  <2>3. CASE i - 1 \in DOMAIN Tail(s) /\ Tail(s)[i - 1] = s[i]
    BY <2>1, <2>3 DEF Numbers
  <2> QED  BY <1>2, <2>2, <2>3
<1>6. {Head(s).n} \cup Numbers(Tail(s)) \subseteq Numbers(s)
  BY <1>1, <1>3, <1>4 DEF Numbers
<1> QED
  BY <1>1, <1>5, <1>6

LEMMA NumbersJoined ==
  ASSUME NEW S, NEW T, NEW s \in Seq(S), NEW t \in Seq(T)
  PROVE  Numbers(s \o t) = Numbers(s) \cup Numbers(t) /\ Len(s \o t) = Len(s) + Len(t)
<1>1. /\ Len(s) \in Nat /\ Len(t) \in Nat /\ DOMAIN s = 1..Len(s) /\ DOMAIN t = 1..Len(t)
      /\ Len(s \o t) = Len(s) + Len(t) /\ DOMAIN (s \o t) = 1..(Len(s) + Len(t))
      /\ \A i \in 1..(Len(s) + Len(t)) : (s \o t)[i] = IF i <= Len(s) THEN s[i] ELSE t[i - Len(s)]
  OBVIOUS
<1>2. \A i \in DOMAIN (s \o t) : \/ i \in DOMAIN s /\ (s \o t)[i] = s[i]
                                 \/ i - Len(s) \in DOMAIN t /\ (s \o t)[i] = t[i - Len(s)]
  BY <1>1
<1>3. \A i \in DOMAIN s : i \in DOMAIN (s \o t) /\ (s \o t)[i] = s[i]
  BY <1>1
<1>4. \A i \in DOMAIN t : Len(s) + i \in DOMAIN (s \o t) /\ (s \o t)[Len(s) + i] = t[i]
  BY <1>1
<1>5. Numbers(s \o t) \subseteq Numbers(s) \cup Numbers(t)
  BY <1>2 DEF Numbers
<1>6. Numbers(s) \cup Numbers(t) \subseteq Numbers(s \o t)
  BY <1>3, <1>4 DEF Numbers
<1> QED
  BY <1>1, <1>5, <1>6

-----------------------------------------------------------------------------
LEMMA ReportsStart == Report!Init => ReportInv
<1> SUFFICES ASSUME Report!Init PROVE ReportInv
  OBVIOUS
<1>1. log = <<>> /\ reports = <<>> /\ ulp = <<>> /\ sent = 0 /\ mGnssSvIdUsedInPosAvail = FALSE
  BY DEF Report!Init
<1>2. <<>> \in Seq(AnyReport) /\ <<>> \in Seq(AnyHandled) /\ Len(<<>>) = 0 /\ DOMAIN <<>> = {}
  OBVIOUS
<1>3. ReportTypes
  BY <1>1, <1>2 DEF ReportTypes
<1>4. Numbers(<<>>) = {} /\ Unused(<<>>) = {}
  BY <1>2 DEF Numbers, Unused
<1>5. Accounted
  BY <1>1, <1>2, <1>4 DEF Accounted
<1>6. UsedRemembered
  BY <1>1, <1>4 DEF UsedRemembered
<1>7. Report!OnlyGoodFixes /\ Report!UsedInFixTruthful
  BY <1>1, <1>2 DEF Report!OnlyGoodFixes, Report!UsedInFixTruthful, Report!Handled
<1> QED
  BY <1>3, <1>5, <1>6, <1>7 DEF ReportInv

\* What depends on the log only.
LogKept == UNCHANGED <<mGnssSvIdUsedInPosAvail, mGnssSvIdUsedInPosition, log>>

LEMMA SameLog ==
  ASSUME ReportInv, LogKept
  PROVE  UsedRemembered' /\ (Report!OnlyGoodFixes /\ Report!UsedInFixTruthful)'
<1>1. Unused(log)' = Unused(log)
  BY DEF LogKept
<1>2. UsedRemembered'
  BY <1>1 DEF ReportInv, UsedRemembered, LogKept
<1>3. Report!OnlyGoodFixes'
  BY DEF ReportInv, LogKept, Report!OnlyGoodFixes
<1>4. Report!UsedInFixTruthful'
  <2>1. log' = log /\ Report!UsedInFixTruthful
    BY DEF ReportInv, LogKept
  <2>2. Report!PositionsSince' = Report!PositionsSince
    BY <2>1 DEF Report!PositionsSince
  <2>3. \A t : Report!UsedInNewest(t)' = Report!UsedInNewest(t)
    BY <2>1, <2>2 DEF Report!UsedInNewest
  <2> QED  BY <2>1, <2>3, SMTT(30) DEF Report!UsedInFixTruthful, Report!Handled, Report!Newest
<1> QED
  BY <1>2, <1>3, <1>4

\* The engine's thread: a new report is posted, or taken by the ULP.
LEMMA ReportAdded ==
  ASSUME ReportInv, LogKept, sent' = sent + 1,
         NEW r \in AnyReport, r.n = sent + 1, Report!report(r)
  PROVE  ReportInv'
<1>1. /\ reports \in Seq(AnyReport) /\ ulp \in Seq(AnyReport) /\ log \in Seq(AnyHandled) /\ sent \in Nat
      /\ log' = log
  BY DEF ReportInv, ReportTypes, LogKept
<1>2. 1..(sent + 1) = 1..sent \cup {sent + 1} /\ sent' \in Nat
  BY <1>1
<1>3. Len(log) \in Nat /\ Len(reports) \in Nat /\ Len(ulp) \in Nat
  BY <1>1
<1>4. Accounted
  BY DEF ReportInv
<1>5. CASE ulp' = Append(ulp, r) /\ reports' = reports
  <2>1. Numbers(ulp') = Numbers(ulp) \cup {sent + 1} /\ Len(ulp') = Len(ulp) + 1 /\ ulp' \in Seq(AnyReport)
    BY <1>1, <1>5, NumbersAppended
  <2>2. Accounted'
    <3> DEFINE a == Len(log)  b == Len(reports)  c == Len(ulp)
    <3>0. a + b + c = sent /\ a \in Nat /\ b \in Nat /\ c \in Nat
      BY <1>3, <1>4 DEF Accounted
    <3>1. Len(log') + Len(reports') + Len(ulp') = sent'
      <4>1. Len(log') = a /\ Len(reports') = b /\ Len(ulp') = c + 1
        BY <1>1, <1>5, <2>1
      <4> HIDE DEF a, b, c
      <4>2. a + b + (c + 1) = sent + 1
        BY <3>0
      <4> QED  BY <4>1, <4>2
    <3> HIDE DEF a, b, c
    <3>2. Numbers(log') \cup Numbers(reports') \cup Numbers(ulp') = 1..sent'
      BY <1>1, <1>2, <1>4, <1>5, <2>1 DEF Accounted
    <3> QED  BY <3>1, <3>2 DEF Accounted
  <2> QED  BY <1>1, <1>2, <1>5, <2>1, <2>2, SameLog DEF ReportInv, ReportTypes
<1>6. CASE reports' = Append(reports, r) /\ ulp' = ulp
  <2>1. Numbers(reports') = Numbers(reports) \cup {sent + 1} /\ Len(reports') = Len(reports) + 1
        /\ reports' \in Seq(AnyReport)
    BY <1>1, <1>6, NumbersAppended
  <2>2. Accounted'
    <3> DEFINE a == Len(log)  b == Len(reports)  c == Len(ulp)
    <3>0. a + b + c = sent /\ a \in Nat /\ b \in Nat /\ c \in Nat
      BY <1>3, <1>4 DEF Accounted
    <3>1. Len(log') + Len(reports') + Len(ulp') = sent'
      <4>1. Len(log') = a /\ Len(reports') = b + 1 /\ Len(ulp') = c
        BY <1>1, <1>6, <2>1
      <4> HIDE DEF a, b, c
      <4>2. a + (b + 1) + c = sent + 1
        BY <3>0
      <4> QED  BY <4>1, <4>2
    <3> HIDE DEF a, b, c
    <3>2. Numbers(log') \cup Numbers(reports') \cup Numbers(ulp') = 1..sent'
      BY <1>1, <1>2, <1>4, <1>6, <2>1 DEF Accounted
    <3> QED  BY <3>1, <3>2 DEF Accounted
  <2> QED  BY <1>1, <1>2, <1>6, <2>1, <2>2, SameLog DEF ReportInv, ReportTypes
<1> QED
  BY <1>5, <1>6 DEF Report!report

\* The ULP hands a report back.
LEMMA ReportReturned == ReportInv /\ Report!fromUlp => ReportInv'
<1> SUFFICES ASSUME ReportInv, Report!fromUlp PROVE ReportInv'
  OBVIOUS
<1>1. /\ ulp # <<>> /\ reports' = Append(reports, Head(ulp)) /\ ulp' = Tail(ulp)
      /\ log' = log /\ sent' = sent /\ LogKept
  BY DEF Report!fromUlp, LogKept
<1>2. /\ reports \in Seq(AnyReport) /\ ulp \in Seq(AnyReport) /\ log \in Seq(AnyHandled) /\ sent \in Nat
      /\ Len(reports) \in Nat /\ Len(log) \in Nat
  BY DEF ReportInv, ReportTypes
<1>3. /\ Numbers(ulp) = {Head(ulp).n} \cup Numbers(ulp') /\ Len(ulp') = Len(ulp) - 1
      /\ Head(ulp) \in AnyReport /\ ulp' \in Seq(AnyReport) /\ Len(ulp) \in Nat
  BY <1>1, <1>2, NumbersTaken
<1>4. /\ Numbers(reports') = Numbers(reports) \cup {Head(ulp).n} /\ Len(reports') = Len(reports) + 1
      /\ reports' \in Seq(AnyReport)
  BY <1>1, <1>2, <1>3, NumbersAppended
<1>5. Accounted'
  <2> DEFINE a == Len(reports)  b == Len(ulp)  a1 == Len(reports')  b1 == Len(ulp')
  <2>0. Len(log) + a + b = sent /\ a \in Nat /\ b \in Nat /\ a1 = a + 1 /\ b1 = b - 1
    BY <1>2, <1>3, <1>4 DEF ReportInv, Accounted
  <2>1. Len(log') + Len(reports') + Len(ulp') = sent'
    <3> HIDE DEF a, b, a1, b1
    <3>1. Len(log) + a1 + b1 = sent
      BY <1>2, <2>0
    <3> QED  BY <1>1, <3>1 DEF a1, b1
  <2>2. Numbers(log') \cup Numbers(reports') \cup Numbers(ulp') = 1..sent'
    BY <1>1, <1>3, <1>4 DEF ReportInv, Accounted
  <2> QED  BY <2>1, <2>2 DEF Accounted
<1> QED
  BY <1>1, <1>2, <1>3, <1>4, <1>5, SameLog DEF ReportInv, ReportTypes

\* The message thread handles a report: its entry e is added to the log.
LEMMA ReportTaken ==
  ASSUME ReportInv, reports # <<>>, reports' = Tail(reports), UNCHANGED <<ulp, sent>>,
         NEW e \in AnyHandled, e.n = Head(reports).n, log' = Append(log, e)
  PROVE  /\ ReportTypes' /\ Accounted'
         /\ Len(log) \in Nat /\ Len(log') = Len(log) + 1 /\ log'[Len(log) + 1] = e
         /\ \A i \in 1..Len(log) : log'[i] = log[i]
<1>1. /\ reports \in Seq(AnyReport) /\ ulp \in Seq(AnyReport) /\ log \in Seq(AnyHandled) /\ sent \in Nat
      /\ Len(log) \in Nat /\ Len(ulp) \in Nat
  BY DEF ReportInv, ReportTypes
<1>2. /\ Numbers(reports) = {Head(reports).n} \cup Numbers(reports') /\ Len(reports') = Len(reports) - 1
      /\ reports' \in Seq(AnyReport) /\ Len(reports) \in Nat
  BY <1>1, NumbersTaken
<1>3. Numbers(log') = Numbers(log) \cup {e.n} /\ Len(log') = Len(log) + 1 /\ log' \in Seq(AnyHandled)
  BY <1>1, NumbersAppended
<1>4. Accounted'
  <2> DEFINE a == Len(log)  b == Len(reports)  a1 == Len(log')  b1 == Len(reports')
  <2>0. a + b + Len(ulp) = sent /\ a \in Nat /\ b \in Nat /\ a1 = a + 1 /\ b1 = b - 1
    BY <1>1, <1>2, <1>3 DEF ReportInv, Accounted
  <2>1. Len(log') + Len(reports') + Len(ulp') = sent'
    <3> HIDE DEF a, b, a1, b1
    <3>1. a1 + b1 + Len(ulp) = sent
      BY <1>1, <2>0
    <3> QED  BY <3>1 DEF a1, b1
  <2>2. Numbers(log') \cup Numbers(reports') \cup Numbers(ulp') = 1..sent'
    BY <1>2, <1>3 DEF ReportInv, Accounted
  <2> QED  BY <2>1, <2>2 DEF Accounted
<1>5. log'[Len(log) + 1] = e /\ \A i \in 1..Len(log) : log'[i] = log[i]
  BY <1>1
<1> QED
  BY <1>1, <1>2, <1>3, <1>4, <1>5 DEF ReportTypes

LEMMA PositionHandled ==
  ASSUME ReportInv, reports # <<>>, reports' = Tail(reports), UNCHANGED <<ulp, sent>>,
         Head(reports) \in PositionReport, Report!reportPosition(Head(reports))
  PROVE  ReportInv'
<1> DEFINE r == Head(reports)
           reported == Report!needReport(r.p)
           e == [n |-> r.n, kind |-> "position", p |-> r.p, to |-> IF reported THEN Trackers ELSE {}]
<1>1. e \in HandledPosition /\ e \in AnyHandled /\ e.n = r.n /\ e.kind = "position" /\ e.p = r.p
  BY DEF PositionReport, HandledPosition, AnyHandled
<1>2. log' = Append(log, e)
  BY DEF Report!reportPosition
<1>3. IF reported /\ r.p.hasUsed
      THEN mGnssSvIdUsedInPosAvail' = TRUE /\ mGnssSvIdUsedInPosition' = r.p.used
      ELSE UNCHANGED <<mGnssSvIdUsedInPosAvail, mGnssSvIdUsedInPosition>>
  BY DEF Report!reportPosition
<1>4. Gives(e) <=> reported /\ r.p.hasUsed
  BY <1>1 DEF Gives
<1>5. e.to # {} => reported
  OBVIOUS
<1>6. reported => \/ r.p.status = "SUCCESS" /\ r.p.tech \cap {"SATELLITE", "SENSORS", "HYBRID"} # {}
                  \/ r.p.status = "INTERMEDIATE" /\ INTERMEDIATE_POS
  BY DEF Report!needReport
<1> HIDE DEF e, reported
<1>7. /\ ReportTypes' /\ Accounted'
      /\ Len(log) \in Nat /\ Len(log') = Len(log) + 1 /\ log'[Len(log) + 1] = e
      /\ \A i \in 1..Len(log) : log'[i] = log[i]
  BY <1>1, <1>2, ReportTaken
<1>8. log \in Seq(AnyHandled) /\ log' \in Seq(AnyHandled)
  BY <1>7 DEF ReportInv, ReportTypes
<1>9. Report!OnlyGoodFixes'
  <2> SUFFICES ASSUME NEW i \in DOMAIN log', log'[i].kind = "position", log'[i].to # {}
               PROVE  \/ log'[i].p.status = "SUCCESS" /\ log'[i].p.tech \cap {"SATELLITE", "SENSORS", "HYBRID"} # {}
                      \/ log'[i].p.status = "INTERMEDIATE" /\ INTERMEDIATE_POS
    BY DEF Report!OnlyGoodFixes
  <2>1. i \in DOMAIN log \/ i = Len(log) + 1
    BY <1>7, <1>8
  <2>2. CASE i \in DOMAIN log
    <3>1. log'[i] = log[i]
      BY <1>7, <1>8, <2>2
    <3> QED  BY <2>2, <3>1 DEF ReportInv, Report!OnlyGoodFixes
  <2>3. CASE i = Len(log) + 1
    BY <1>1, <1>5, <1>6, <1>7, <2>3
  <2> QED  BY <2>1, <2>2, <2>3
<1>10. UsedRemembered'
  <2>1. CASE Gives(e)
    <3>1. Unused(log') = Unused(log) \cup {Len(log) + 1}
      BY <1>1, <1>2, <1>8, <2>1, UnusedAppended
    <3>2. Len(log) + 1 \in Unused(log') /\ \A j \in Unused(log') : Len(log) + 1 >= j
      BY <1>7, <1>8, <3>1, UnusedNumbers
    <3> QED  BY <1>1, <1>3, <1>4, <1>7, <2>1, <3>2 DEF UsedRemembered
  <2>2. CASE ~Gives(e)
    <3>1. Unused(log') = Unused(log)
      BY <1>1, <1>2, <1>8, <2>2, UnusedAppended
    <3>2. UNCHANGED <<mGnssSvIdUsedInPosAvail, mGnssSvIdUsedInPosition>>
      BY <1>3, <1>4, <2>2
    <3>3. \A i \in Unused(log) : log'[i] = log[i]
      BY <1>7, <1>8, UnusedNumbers
    <3> QED  BY <3>1, <3>2, <3>3 DEF ReportInv, UsedRemembered
  <2> QED  BY <2>1, <2>2
<1>11. Report!UsedInFixTruthful'
  <2>1. log' # <<>> /\ Report!Newest' = e
    <3>1. log' # <<>> /\ log'[Len(log')] = e
      BY <1>7, <1>8
    <3> QED  BY <3>1 DEF Report!Newest, Report!Last
  <2> QED  BY <1>1, <2>1 DEF Report!UsedInFixTruthful
<1> QED
  BY <1>7, <1>9, <1>10, <1>11 DEF ReportInv

LEMMA SvTyping ==
  ASSUME NEW svs \in Seq([type : Report!Types, svId : Nat \ {0}, used : BOOLEAN])
  PROVE  DOMAIN svs \subseteq Nat /\ \A i \in DOMAIN svs : svs[i].svId \in Nat /\ svs[i].used \in BOOLEAN
<1> DEFINE T == [type : Report!Types, svId : Nat \ {0}, used : BOOLEAN]
<1>1. \A sv \in T : sv.svId \in Nat /\ sv.used \in BOOLEAN
  OBVIOUS
<1>2. svs \in Seq(T)
  OBVIOUS
<1> HIDE DEF T
<1>3. DOMAIN svs \subseteq Nat /\ \A i \in DOMAIN svs : svs[i] \in T
  BY <1>2
<1> QED
  BY <1>1, <1>3

LEMMA SatellitesHandled ==
  ASSUME ReportInv, reports # <<>>, reports' = Tail(reports), UNCHANGED <<ulp, sent>>,
         Head(reports) \in SvReport, Report!reportSv(Head(reports))
  PROVE  ReportInv'
<1> DEFINE r == Head(reports)
           mask(t) == IF mGnssSvIdUsedInPosAvail THEN mGnssSvIdUsedInPosition[t] ELSE {}
<1>1. PICK undefined \in SUBSET {i \in DOMAIN r.svs : r.svs[i].svId > 32} :
        log' = Append(log, [n |-> r.n, kind |-> "sv", svs |-> r.svs,
                            marked |-> undefined \union
                              {i \in DOMAIN r.svs : Report!hits(mask(r.svs[i].type), r.svs[i].svId) \/ r.svs[i].used}])
  BY DEF Report!reportSv
<1> DEFINE marked == undefined \union
                       {i \in DOMAIN r.svs : Report!hits(mask(r.svs[i].type), r.svs[i].svId) \/ r.svs[i].used}
           e == [n |-> r.n, kind |-> "sv", svs |-> r.svs, marked |-> marked]
<1>2. r.svs \in Satellites /\ r.n \in Nat /\ r.svs \in Seq([type : Report!Types, svId : Nat \ {0}, used : BOOLEAN])
  BY AdapterAssumption DEF SvReport, Report!ReportAssumption
<1>3. DOMAIN r.svs \subseteq Nat /\ \A i \in DOMAIN r.svs : r.svs[i].svId \in Nat /\ r.svs[i].used \in BOOLEAN
  BY <1>2, SvTyping
<1>4. \A i \in DOMAIN r.svs : r.svs[i].svId <= 31 =>
        (i \in marked <=> r.svs[i].svId \in mask(r.svs[i].type) \/ r.svs[i].used)
  BY <1>3 DEF Report!hits
<1>5. marked \in SUBSET Nat
  BY <1>3
<1> HIDE DEF marked
<1>6. e \in HandledSv /\ e \in AnyHandled /\ e.n = r.n /\ e.kind = "sv" /\ e.svs = r.svs /\ e.marked = marked
  BY <1>2, <1>5 DEF HandledSv, AnyHandled
<1>7. log' = Append(log, e)
  BY <1>1 DEF marked
<1>8. mGnssSvIdUsedInPosAvail' = FALSE
  BY DEF Report!reportSv, Report!availReset
<1> HIDE DEF e
<1>9. /\ ReportTypes' /\ Accounted'
      /\ Len(log) \in Nat /\ Len(log') = Len(log) + 1 /\ log'[Len(log) + 1] = e
      /\ \A i \in 1..Len(log) : log'[i] = log[i]
  BY <1>6, <1>7, ReportTaken
<1>10. log \in Seq(AnyHandled) /\ log' \in Seq(AnyHandled) /\ DOMAIN log' = 1..(Len(log) + 1)
       /\ DOMAIN log = 1..Len(log)
  BY <1>9 DEF ReportInv, ReportTypes
<1>11. Report!OnlyGoodFixes'
  <2> SUFFICES ASSUME NEW i \in DOMAIN log', log'[i].kind = "position", log'[i].to # {}
               PROVE  \/ log'[i].p.status = "SUCCESS" /\ log'[i].p.tech \cap {"SATELLITE", "SENSORS", "HYBRID"} # {}
                      \/ log'[i].p.status = "INTERMEDIATE" /\ INTERMEDIATE_POS
    BY DEF Report!OnlyGoodFixes
  <2>1. i \in DOMAIN log /\ log'[i] = log[i]
    BY <1>6, <1>9, <1>10
  <2> QED  BY <2>1 DEF ReportInv, Report!OnlyGoodFixes
<1>12. UsedRemembered'
  <2>1. Unused(log') = {}
    BY <1>6, <1>7, <1>10, UnusedAppended
  <2> QED  BY <1>8, <2>1 DEF UsedRemembered
<1>13. Report!UsedInFixTruthful'
  <2> DEFINE since == {i \in 1..Len(log') - 1 :
                         /\ log'[i].kind = "position" /\ Report!needReport(log'[i].p) /\ log'[i].p.hasUsed
                         /\ \A k \in i..Len(log') - 1 : log'[k].kind # "sv"}
  <2>1. since = Unused(log)
    <3>1. Len(log') - 1 = Len(log)
      BY <1>9
    <3>2. \A i \in 1..Len(log) : \A k \in i..Len(log) : log'[k] = log[k]
      BY <1>9
    <3> QED  BY <1>9, <3>1, <3>2 DEF Unused, Gives
  <2> HIDE DEF since
  <2>2. Report!Newest' = e
    BY <1>9, <1>10 DEF Report!Newest, Report!Last
  <2>3. since # {} <=> mGnssSvIdUsedInPosAvail
    BY <2>1 DEF ReportInv, UsedRemembered
  <2>4. since # {} => log'[Report!Max(since)].p.used = mGnssSvIdUsedInPosition
    <3> SUFFICES ASSUME since # {} PROVE log'[Report!Max(since)].p.used = mGnssSvIdUsedInPosition
      OBVIOUS
    <3>1. PICK i \in since : (\A j \in since : i >= j) /\ mGnssSvIdUsedInPosition = log[i].p.used
      BY <2>1, <2>3 DEF ReportInv, UsedRemembered
    <3>2. since \in SUBSET Nat /\ i \in 1..Len(log)
      BY <1>10, <2>1, UnusedNumbers
    <3>3. Report!Max(since) = i
      BY <3>1, <3>2, MaxIs
    <3> QED  BY <1>9, <3>1, <3>2, <3>3
  <2>5. \A i \in DOMAIN e.svs : e.svs[i].svId <= 31 =>
          (i \in e.marked <=>
             \/ e.svs[i].used
             \/ since # {} /\ e.svs[i].svId \in log'[Report!Max(since)].p.used[e.svs[i].type])
    BY <1>4, <1>6, <2>3, <2>4
  <2>6. Report!PositionsSince' = since
    BY DEF Report!PositionsSince, since
  <2>7. \A i \in DOMAIN e.svs : e.svs[i].svId <= 31 =>
          (i \in e.marked <=>
             e.svs[i].used \/ e.svs[i].svId \in (IF since = {} THEN {} ELSE log'[Report!Max(since)].p.used[e.svs[i].type]))
    BY <2>5
  <2> QED  BY <2>2, <2>6, <2>7 DEF Report!UsedInFixTruthful, Report!UsedInNewest
<1> QED
  BY <1>9, <1>11, <1>12, <1>13 DEF ReportInv

LEMMA ReportsKept == ReportInv /\ [Report!Next]_(Report!vars) => ReportInv'
<1> SUFFICES ASSUME ReportInv, [Report!Next]_(Report!vars) PROVE ReportInv'
  OBVIOUS
<1>1. sent \in Nat /\ reports \in Seq(AnyReport)
  BY DEF ReportInv, ReportTypes
<1>2. CASE Report!reportPositionEvent
  <2>1. PICK p \in Positions : Report!report([n |-> sent + 1, kind |-> "position", p |-> p])
    BY <1>2 DEF Report!reportPositionEvent
  <2>2. [n |-> sent + 1, kind |-> "position", p |-> p] \in AnyReport
    BY <1>1 DEF AnyReport, PositionReport
  <2> QED  BY <1>2, <2>1, <2>2, ReportAdded DEF Report!reportPositionEvent, LogKept
<1>3. CASE Report!reportSvEvent
  <2>1. PICK svs \in Satellites : Report!report([n |-> sent + 1, kind |-> "sv", svs |-> svs])
    BY <1>3 DEF Report!reportSvEvent
  <2>2. [n |-> sent + 1, kind |-> "sv", svs |-> svs] \in AnyReport
    BY <1>1 DEF AnyReport, SvReport
  <2> QED  BY <1>3, <2>1, <2>2, ReportAdded DEF Report!reportSvEvent, LogKept
<1>4. CASE Report!handle
  <2>1. /\ reports # <<>> /\ reports' = Tail(reports) /\ UNCHANGED <<ulp, sent>>
        /\ \/ Head(reports).kind = "position" /\ Report!reportPosition(Head(reports))
           \/ Head(reports).kind = "sv" /\ Report!reportSv(Head(reports))
    BY <1>4 DEF Report!handle
  <2>2. Head(reports) \in AnyReport
    BY <1>1, <2>1
  <2>3. /\ Head(reports).kind = "position" => Head(reports) \in PositionReport
        /\ Head(reports).kind = "sv" => Head(reports) \in SvReport
    BY <2>2 DEF AnyReport, PositionReport, SvReport
  <2> QED  BY <2>1, <2>3, PositionHandled, SatellitesHandled
<1>5. CASE Report!startOrStop \/ UNCHANGED Report!vars
  <2>1. LogKept /\ UNCHANGED <<reports, ulp, sent>>
    BY <1>5 DEF Report!startOrStop, Report!vars, LogKept
  <2> QED  BY <2>1, SameLog DEF ReportInv, ReportTypes, Accounted, LogKept
<1> QED
  BY <1>2, <1>3, <1>4, <1>5, ReportReturned DEF Report!Next

\* However the ULP delays and reorders reports between the handlers of positions and of satellites: no
\* report is lost or handled twice, clients hear of no position that the configuration does not accept,
\* and a satellite is flagged as used in the fix iff the newest position says so (GnssAdapter::reportPosition
\* and reportSv).  For any positions, satellites and number of reports.
THEOREM ReportsStayTruthful == AdapterSpec => []ReportsTruthful
<1>1. AdapterInit => ReportInv
  BY ReportsStart DEF AdapterInit
<1>2. ReportInv /\ [AdapterNext]_allVars => ReportInv'
  <2>1. [AdapterNext]_allVars => [Report!Next]_(Report!vars)
    BY DEF AdapterNext, allVars, reportVars, Report!vars
  <2> QED  BY <2>1, ReportsKept
<1>3. ReportInv => ReportsTruthful
  <2> SUFFICES ASSUME ReportInv PROVE Report!HandledOnce
    BY DEF ReportInv, ReportsTruthful, Report!ReportsTruthful
  <2> DEFINE all == log \o reports \o ulp
  <2>1. /\ log \in Seq(AnyHandled) /\ reports \in Seq(AnyReport) /\ ulp \in Seq(AnyReport)
        /\ log \o reports \in Seq(AnyHandled \cup AnyReport)
    BY DEF ReportInv, ReportTypes
  <2> DEFINE two == log \o reports
  <2>2. Numbers(two) = Numbers(log) \cup Numbers(reports) /\ Len(two) = Len(log) + Len(reports)
    BY <2>1, NumbersJoined
  <2> HIDE DEF two
  <2>3. Numbers(two \o ulp) = Numbers(two) \cup Numbers(ulp) /\ Len(two \o ulp) = Len(two) + Len(ulp)
    <3>1. two \in Seq(AnyHandled \cup AnyReport)
      BY <2>1 DEF two
    <3> QED  BY <2>1, <3>1, NumbersJoined
  <2>4. all = two \o ulp
    BY DEF two
  <2>5. Len(all) = sent /\ Numbers(all) = 1..sent
    BY <2>2, <2>3, <2>4 DEF ReportInv, Accounted
  <2> QED  BY <2>5 DEF Report!HandledOnce, Numbers
<1> QED
  BY <1>1, <1>2, <1>3, PTL DEF AdapterSpec

-----------------------------------------------------------------------------
(***************************************************************************)
(* The message task.                                                       *)
(***************************************************************************)
\* Where the threads may be.
Workers == {"begin", "loop", "rcv", "wait", "woken", "proc", "end", "bye", "done", "never", "gone"}
Owners == {"idle", "unblocked", "stop", "join", "destroy", "done"}

MessageTypes ==
  /\ taskQueue \in Seq(Nat) /\ accepted \in Seq(Nat) /\ handled \in Seq(Nat)
  /\ msg \in Nat \cup {None}

ThreadTypes ==
  /\ unblocked \in BOOLEAN /\ taskAlive \in BOOLEAN /\ mThread \in BOOLEAN
  /\ mRunnable \in BOOLEAN /\ mJoinable \in BOOLEAN /\ delegateAlive \in BOOLEAN
  /\ mRefCount \in Nat
  /\ worker \in Workers /\ owner \in Owners

\* Messages are numbered as they are accepted, so no two are the same.
Numbered == \A i \in DOMAIN accepted : accepted[i] = i

\* The worker has a message exactly while it handles one.
InHand == msg = None <=> worker # "proc"

\* As long as the task lives, what was accepted has been taken off the queue or is still in it.
HeldOrQueued == taskAlive => Task!received \o taskQueue = accepted /\ flushed = {}

\* When it has been deleted, the messages that were not received have been freed with the
\* queue, the worker is on its way out and destroy() was called.
FreedRest ==
  ~taskAlive =>
    /\ taskQueue = <<>>
    /\ Task!IsPrefix(Task!received, accepted) /\ flushed = Task!ToSet(accepted) \ Task!ToSet(Task!received)
    /\ worker \in {"bye", "done"} /\ owner # "idle"

\* The worker comes to its end only after the owner has unblocked the queue, and finds itself
\* stopped only after the owner has let go of the thread.
EndsByOwner ==
  /\ unblocked <=> owner # "idle"
  /\ mThread => owner \in {"idle", "unblocked"}
  /\ ~mThread /\ owner \in {"idle", "unblocked"} => worker = "done"
  /\ worker \notin {"end", "bye", "done", "never", "gone"} /\ ~mRunnable => owner \notin {"idle", "unblocked"}
  /\ worker = "end" => owner # "idle"
  /\ worker \in {"never", "gone"} => owner \notin {"idle", "unblocked"}

\* The two threads that may hold the delegate.
WorkerHolds == worker \notin {"done", "gone"}
OwnerHolds == mThread \/ owner \in {"stop", "join", "destroy"}

\* mRefCount counts those that do.
RefsCounted ==
  /\ WorkerHolds /\ OwnerHolds => mRefCount = 2
  /\ WorkerHolds /\ ~OwnerHolds => mRefCount = 1
  /\ ~WorkerHolds /\ OwnerHolds => mRefCount = 1
  /\ ~WorkerHolds /\ ~OwnerHolds => mRefCount = 0
  /\ delegateAlive <=> mRefCount > 0

\* A worker that has run has deleted the task before it leaves; one that has not yet, or never will,
\* has handled nothing.
DeletedByWorker ==
  /\ worker = "bye" => ~taskAlive
  /\ worker = "done" /\ (mThread \/ owner \notin {"idle", "unblocked"}) => ~taskAlive
  /\ worker \in {"begin", "never", "gone"} => taskAlive /\ handled = <<>>

Threads == ThreadTypes /\ EndsByOwner /\ RefsCounted
Messages == MessageTypes /\ Numbered /\ InHand /\ HeldOrQueued /\ FreedRest
TaskInv == Threads /\ Messages /\ DeletedByWorker

-----------------------------------------------------------------------------
(***************************************************************************)
(* Sequences.                                                              *)
(***************************************************************************)
\* Appending to a queue appends to all that was accepted.
LEMMA AppendJoined ==
  ASSUME NEW S, NEW s \in Seq(S), NEW t \in Seq(S), NEW e \in S
  PROVE  s \o Append(t, e) = Append(s \o t, e)
  BY SMTT(30)

\* The same, of messages.
LEMMA OfNumbersJoined ==
  ASSUME NEW s \in Seq(Nat), NEW t \in Seq(Nat), NEW e \in Nat
  PROVE  s \o Append(t, e) = Append(s \o t, e)
  BY SMTT(30)

\* The head of the queue becomes the last of the messages received.
LEMMA HeadMoves ==
  ASSUME NEW S, NEW s \in Seq(S), NEW t \in Seq(S), t # <<>>
  PROVE  /\ Append(s, Head(t)) \o Tail(t) = s \o t
         /\ Head(t) \in S /\ Tail(t) \in Seq(S) /\ Append(s, Head(t)) \in Seq(S)
  OBVIOUS

\* The first part of a sequence is a prefix of it.
LEMMA FirstPart ==
  ASSUME NEW S, NEW s \in Seq(S), NEW t \in Seq(S)
  PROVE  Task!IsPrefix(s, s \o t)
<1>1. /\ s \o t \in Seq(S) /\ Len(s \o t) = Len(s) + Len(t)
      /\ \A i \in 1 .. Len(s) : (s \o t)[i] = s[i]
  OBVIOUS
<1>2. Len(s) <= Len(s \o t)
  BY <1>1
<1>3. SubSeq(s, 1, Len(s)) = SubSeq(s \o t, 1, Len(s))
  BY <1>1
<1> QED
  BY <1>2, <1>3 DEF Task!IsPrefix

\* With distinct elements, the second part of a sequence is what the first leaves.
LEMMA SecondPart ==
  ASSUME NEW s \in Seq(Nat), NEW t \in Seq(Nat),
         \A i \in DOMAIN (s \o t) : (s \o t)[i] = i
  PROVE  Task!ToSet(t) = Task!ToSet(s \o t) \ Task!ToSet(s)
<1> DEFINE u == s \o t
<1>1. /\ Len(s) \in Nat /\ Len(t) \in Nat
      /\ DOMAIN s = 1 .. Len(s) /\ DOMAIN t = 1 .. Len(t) /\ DOMAIN u = 1 .. Len(s) + Len(t)
      /\ \A i \in 1 .. Len(s) : s[i] = u[i]
      /\ \A i \in 1 .. Len(t) : t[i] = u[Len(s) + i]
  OBVIOUS
<1>2. \A i \in 1 .. Len(s) + Len(t) : u[i] = i
  BY <1>1
<1> HIDE DEF u
<1>3. Task!ToSet(s) = 1 .. Len(s)
  BY <1>1, <1>2 DEF Task!ToSet
<1>4. Task!ToSet(u) = 1 .. Len(s) + Len(t)
  BY <1>1, <1>2 DEF Task!ToSet
<1>5. \A i \in 1 .. Len(t) : t[i] = Len(s) + i
  BY <1>1, <1>2
<1>6. Task!ToSet(t) = (Len(s) + 1) .. (Len(s) + Len(t))
  <2>1. Task!ToSet(t) \subseteq (Len(s) + 1) .. (Len(s) + Len(t))
    BY <1>1, <1>5 DEF Task!ToSet
  <2>2. ASSUME NEW n \in (Len(s) + 1) .. (Len(s) + Len(t)) PROVE n \in Task!ToSet(t)
    <3>1. n - Len(s) \in 1 .. Len(t) /\ t[n - Len(s)] = n
      BY <1>1, <1>5
    <3> QED
      BY <3>1, <1>1 DEF Task!ToSet
  <2> QED
    BY <2>1, <2>2
<1> QED
  BY <1>1, <1>3, <1>4, <1>6 DEF u

-----------------------------------------------------------------------------
(***************************************************************************)
(* The threads.                                                            *)
(***************************************************************************)
LEMMA ThreadsStart ==
  ASSUME Task!Init PROVE Threads
<1>1. CASE mThread
  <2>1. /\ unblocked = FALSE /\ taskAlive = TRUE /\ mJoinable \in BOOLEAN /\ owner = "idle"
        /\ mThread = TRUE /\ mRefCount = 2 /\ delegateAlive = TRUE /\ mRunnable = TRUE /\ worker = "begin"
    BY <1>1 DEF Task!Init
  <2>2. ThreadTypes
    BY <2>1 DEF ThreadTypes, Workers, Owners
  <2>3. EndsByOwner
    BY <2>1 DEF EndsByOwner
  <2>4. RefsCounted
    BY <2>1 DEF RefsCounted, WorkerHolds, OwnerHolds
  <2> QED
    BY <2>2, <2>3, <2>4 DEF Threads
<1>2. CASE ~mThread
  <2>1. /\ unblocked = FALSE /\ taskAlive = TRUE /\ mJoinable \in BOOLEAN /\ owner = "idle"
        /\ mThread = FALSE /\ mRefCount = 0 /\ delegateAlive = FALSE /\ mRunnable = FALSE /\ worker = "done"
    BY <1>2 DEF Task!Init
  <2>2. ThreadTypes
    BY <2>1 DEF ThreadTypes, Workers, Owners
  <2>3. EndsByOwner
    BY <2>1 DEF EndsByOwner
  <2>4. RefsCounted
    BY <2>1 DEF RefsCounted, WorkerHolds, OwnerHolds
  <2> QED
    BY <2>2, <2>3, <2>4 DEF Threads
<1> QED
  BY <1>1, <1>2

USE DEF Workers, Owners, Task!At

\* A thread that waits is woken, and another one does not notice.
LEMMA Woken ==
  ASSUME Task!WakeUp
  PROVE  worker' = worker \/ (worker = "wait" /\ worker' = "woken")
  BY DEF Task!WakeUp

\* What the messages are does not concern the threads.
LEMMA ThreadsKept ==
  ASSUME Threads, [Task!Next]_(Task!vars)
  PROVE  Threads'
<1> USE DEF Threads, ThreadTypes, EndsByOwner, RefsCounted, WorkerHolds, OwnerHolds, Task!msgQ, Task!delegate
<1>1. CASE Task!Send
  <2>1. /\ UNCHANGED <<unblocked, taskAlive, mThread, Task!delegate, owner>>
        /\ worker' = worker \/ (worker = "wait" /\ worker' = "woken")
    BY <1>1, Woken DEF Task!Send, Task!msg_q_snd
  <2> QED
    BY <2>1
<1>2. CASE Task!Begin
  BY <1>2 DEF Task!Begin
<1>3. CASE Task!Loop
  BY <1>3 DEF Task!Loop
<1>4. CASE Task!msg_q_rcv
  <2>1. /\ UNCHANGED <<unblocked, taskAlive, mThread, Task!delegate, owner>>
        /\ worker \in {"rcv", "woken"}
        /\ worker' \in {"wait", "proc"} \/ (worker' = "end" /\ unblocked)
    BY <1>4 DEF Task!msg_q_rcv, Task!Receive
  <2> QED
    BY <2>1
<1>5. CASE Task!WakeSpuriously
  BY <1>5 DEF Task!WakeSpuriously
<1>6. CASE Task!Proc
  <2>1. UNCHANGED <<unblocked, taskAlive, mThread, mRunnable, mJoinable, mRefCount, delegateAlive, owner>>
    BY <1>6 DEF Task!Proc
  <2>2. worker = "proc" /\ worker' = "loop"
    BY <1>6 DEF Task!Proc
  <2> QED
    BY <2>1, <2>2
<1>7. CASE Task!End
  BY <1>7 DEF Task!End, Task!deleteTask
<1>8. CASE Task!Bye
  BY <1>8 DEF Task!Bye, Task!destroyDelegate
<1>9. CASE Task!destroy
  <2>1. /\ owner = "idle" /\ owner' = "unblocked" /\ unblocked' = TRUE
        /\ UNCHANGED <<taskAlive, mThread, Task!delegate>>
        /\ worker' = worker \/ (worker = "wait" /\ worker' = "woken")
    BY <1>9, Woken DEF Task!destroy, Task!msg_q_unblock, Task!wakeAll
  <2> QED
    BY <2>1
<1>10. CASE Task!releaseThread
  <2>1. CASE mThread
    BY <1>10, <2>1 DEF Task!releaseThread, Task!leaveTask
  <2>2. CASE ~mThread
    BY <1>10, <2>2 DEF Task!releaseThread, Task!deleteTask
  <2> QED
    BY <2>1, <2>2
<1>11. CASE Task!stop
  BY <1>11 DEF Task!stop
<1>12. CASE Task!join
  BY <1>12 DEF Task!join
<1>13. CASE Task!leave
  BY <1>13 DEF Task!leave, Task!destroyDelegate
<1>14. CASE UNCHANGED Task!vars
  BY <1>14 DEF Task!vars
<1> QED
  BY <1>1, <1>2, <1>3, <1>4, <1>5, <1>6, <1>7, <1>8, <1>9, <1>10, <1>11, <1>12, <1>13, <1>14
     DEF Task!Next, Task!Worker, Task!Owner

-----------------------------------------------------------------------------
(***************************************************************************)
(* The messages.                                                           *)
(***************************************************************************)
LEMMA MessagesStart == Task!Init => Messages
  BY DEF Task!Init, Messages, MessageTypes, Numbered, InHand, HeldOrQueued, FreedRest, Task!received, Workers

\* Nothing the messages depend on changes, and the worker is neither given a message nor done with one.
LEMMA MessagesUnmoved ==
  ASSUME Messages, UNCHANGED <<taskQueue, taskAlive, accepted, owner, msg, handled, flushed>>,
         worker' = "proc" <=> worker = "proc", worker \in {"bye", "done"} => worker' \in {"bye", "done"}
  PROVE  Messages'
  BY DEF Messages, MessageTypes, Numbered, InHand, HeldOrQueued, FreedRest, Task!received

\* The messages received are a sequence of numbers.
LEMMA ReceivedTyping ==
  ASSUME MessageTypes
  PROVE  Task!received \in Seq(Nat) /\ (msg # None => Append(handled, msg) \in Seq(Nat))
  BY DEF MessageTypes, Task!received

\* Deleting the task frees what is left in the queue.
LEMMA RestFreed ==
  ASSUME Messages, Task!deleteTask, UNCHANGED <<msg, handled>>, owner' # "idle",
         worker # "proc", worker' \in {"bye", "done"}
  PROVE  Messages'
<1> USE DEF Task!deleteTask, Task!msg_q_flush
<1>1. MessageTypes' /\ Numbered' /\ InHand' /\ HeldOrQueued'
  BY DEF Messages, MessageTypes, Numbered, InHand, HeldOrQueued
<1>2. Task!received' = Task!received /\ Task!received \in Seq(Nat)
  BY ReceivedTyping DEF Messages, Task!received
<1>3. CASE taskAlive
  <2>1. Task!received \o taskQueue = accepted /\ flushed = {}
    BY <1>3 DEF Messages, HeldOrQueued
  <2>2. Task!IsPrefix(Task!received, accepted) /\ Task!ToSet(taskQueue) = Task!ToSet(accepted) \ Task!ToSet(Task!received)
    BY <1>2, <2>1, FirstPart, SecondPart DEF Messages, MessageTypes, Numbered
  <2> QED
    BY <1>1, <1>2, <2>1, <2>2 DEF Messages, FreedRest
<1>4. CASE ~taskAlive
  <2>1. Task!ToSet(taskQueue) = {}
    BY <1>4 DEF Messages, FreedRest, Task!ToSet
  <2> QED
    BY <1>1, <1>2, <1>4, <2>1 DEF Messages, FreedRest
<1> QED
  BY <1>3, <1>4 DEF Messages

LEMMA MessagesKept ==
  ASSUME Task!NoneAssumption, Threads, Messages, [Task!Next]_(Task!vars)
  PROVE  Messages'
<1> USE DEF Task!msgQ, Task!delegate
<1>t. taskAlive \in BOOLEAN /\ Task!received \in Seq(Nat)
      /\ taskQueue \in Seq(Nat) /\ accepted \in Seq(Nat) /\ handled \in Seq(Nat)
  BY ReceivedTyping DEF Threads, ThreadTypes, Messages, MessageTypes
<1>1. CASE Task!Send
  <2>1. /\ taskAlive /\ taskAlive' /\ UNCHANGED <<owner, msg, handled, flushed>>
        /\ worker' = worker \/ (worker = "wait" /\ worker' = "woken")
    BY <1>1, Woken DEF Task!Send, Task!msg_q_snd
  <2>2. CASE unblocked
    BY <1>1, <2>1, <2>2, MessagesUnmoved DEF Task!Send, Task!msg_q_snd
  <2>3. CASE ~unblocked
    <3> DEFINE m == Len(accepted) + 1
    <3>1. taskQueue' = Append(taskQueue, m) /\ accepted' = Append(accepted, m)
      BY <1>1, <2>3 DEF Task!Send, Task!msg_q_snd
    <3>2. /\ m \in Nat /\ taskQueue' \in Seq(Nat) /\ accepted' \in Seq(Nat)
          /\ \A i \in DOMAIN accepted' : i \in DOMAIN accepted \/ (i = m /\ accepted'[i] = m)
          /\ \A i \in DOMAIN accepted : accepted'[i] = accepted[i]
      BY <1>t, <3>1
    <3>3. Task!received' = Task!received
      BY <2>1 DEF Task!received
    <3>4. Task!received \o taskQueue = accepted
      BY <2>1 DEF Messages, HeldOrQueued
    <3> HIDE DEF m
    <3>5. Task!received' \o taskQueue' = accepted'
      <4>1. Task!received \o Append(taskQueue, m) = Append(Task!received \o taskQueue, m)
        <5>1. Task!received \in Seq(Nat) /\ taskQueue \in Seq(Nat) /\ m \in Nat
          BY <1>t, <3>2
        <5> QED  BY <5>1, OfNumbersJoined
      <4> QED
        BY <3>1, <3>3, <3>4, <4>1
    <3>6. Numbered'
      BY <3>2 DEF Messages, Numbered
    <3> QED
      BY <2>1, <3>2, <3>5, <3>6 DEF Messages, MessageTypes, InHand, HeldOrQueued, FreedRest
  <2> QED
    BY <2>2, <2>3
<1>2. CASE Task!Begin \/ Task!Loop \/ Task!WakeSpuriously \/ Task!Bye \/ Task!stop \/ Task!join \/ Task!leave
  <2>1. /\ UNCHANGED <<taskQueue, taskAlive, accepted, msg, handled, flushed>>
        /\ worker' = "proc" <=> worker = "proc"
        /\ worker \in {"bye", "done"} => worker' \in {"bye", "done"}
        /\ owner' = "idle" <=> owner = "idle"
    BY <1>2 DEF Task!Begin, Task!Loop, Task!WakeSpuriously, Task!Bye, Task!stop, Task!join, Task!leave
  <2> QED
    BY <2>1, MessagesUnmoved DEF Messages, MessageTypes, Numbered, InHand, HeldOrQueued, FreedRest, Task!received
<1>3. CASE Task!msg_q_rcv
  <2>1. /\ UNCHANGED <<taskAlive, accepted, owner, handled, flushed>>
        /\ worker \in {"rcv", "wait", "woken"}
    BY <1>3 DEF Task!msg_q_rcv
  <2>2. taskAlive /\ msg = None /\ Task!received = handled
    BY <1>t, <2>1 DEF Messages, FreedRest, InHand, Task!received
  <2>3. CASE UNCHANGED <<taskQueue, msg>> /\ worker' \in {"end", "wait"}
    BY <2>1, <2>3, MessagesUnmoved
  <2>4. CASE Task!Receive
    <3>1. taskQueue # <<>> /\ msg' = Head(taskQueue) /\ taskQueue' = Tail(taskQueue) /\ worker' = "proc"
      BY <2>4 DEF Task!Receive
    <3>2. /\ Append(handled, Head(taskQueue)) \o Tail(taskQueue) = handled \o taskQueue
          /\ Head(taskQueue) \in Nat /\ Tail(taskQueue) \in Seq(Nat)
      BY <1>t, <3>1, HeadMoves
    <3>3. msg' # None /\ Task!received' = Append(handled, Head(taskQueue))
      BY <2>1, <3>1, <3>2 DEF Task!NoneAssumption, Task!received
    <3> QED
      BY <2>1, <2>2, <3>1, <3>2, <3>3 DEF Messages, MessageTypes, Numbered, InHand, HeldOrQueued, FreedRest
  <2> QED
    BY <1>3, <2>3, <2>4 DEF Task!msg_q_rcv
<1>4. CASE Task!Proc
  <2>1. /\ UNCHANGED <<taskQueue, taskAlive, accepted, owner, flushed>> /\ worker = "proc" /\ worker' = "loop"
        /\ handled' = Append(handled, msg) /\ msg' = None
    BY <1>4 DEF Task!Proc
  <2>2. taskAlive /\ msg # None /\ Task!received' = Task!received
    BY <1>t, <2>1 DEF Messages, FreedRest, InHand, Task!received
  <2> QED
    BY <1>t, <2>1, <2>2, ReceivedTyping DEF Messages, MessageTypes, Numbered, InHand, HeldOrQueued, FreedRest
<1>5. CASE Task!End
  <2>1. owner # "idle"
    BY <1>5 DEF Task!End, Threads, EndsByOwner
  <2> QED
    BY <1>5, <2>1, RestFreed DEF Task!End
<1>6. CASE Task!destroy
  <2>1. /\ UNCHANGED <<taskQueue, taskAlive, accepted, msg, handled, flushed>>
        /\ worker' = worker \/ (worker = "wait" /\ worker' = "woken")
        /\ owner' # "idle"
    BY <1>6, Woken DEF Task!destroy, Task!msg_q_unblock, Task!wakeAll
  <2> QED
    BY <2>1 DEF Messages, MessageTypes, Numbered, InHand, HeldOrQueued, FreedRest, Task!received
<1>7. CASE Task!releaseThread
  <2>1. CASE mThread
    BY <1>7, <2>1 DEF Task!releaseThread, Task!leaveTask, Messages, MessageTypes, Numbered, InHand, HeldOrQueued,
                      FreedRest, Task!received
  <2>2. CASE ~mThread
    <3>1. worker = "done"
      BY <1>7, <2>2 DEF Task!releaseThread, Threads, EndsByOwner
    <3> QED
      BY <1>7, <2>2, <3>1, RestFreed DEF Task!releaseThread
  <2> QED
    BY <2>1, <2>2
<1>8. CASE UNCHANGED Task!vars
  BY <1>8, MessagesUnmoved DEF Task!vars
<1> QED
  BY <1>1, <1>2, <1>3, <1>4, <1>5, <1>6, <1>7, <1>8 DEF Task!Next, Task!Worker, Task!Owner

-----------------------------------------------------------------------------
\* Who has run deletes the task, and nobody else does while there is a thread.
LEMMA DeletionKept ==
  ASSUME Threads, DeletedByWorker, [Task!Next]_(Task!vars)
  PROVE  DeletedByWorker'
<1> USE DEF DeletedByWorker, Task!msgQ, Task!delegate
<1>1. CASE Task!Send
  <2>1. /\ UNCHANGED <<taskAlive, mThread, owner, handled>>
        /\ worker' = worker \/ (worker = "wait" /\ worker' = "woken")
    BY <1>1, Woken DEF Task!Send, Task!msg_q_snd
  <2> QED
    BY <2>1
<1>2. CASE Task!Begin \/ Task!Loop \/ Task!WakeSpuriously \/ Task!Bye
  BY <1>2 DEF Task!Begin, Task!Loop, Task!WakeSpuriously, Task!Bye
<1>3. CASE Task!msg_q_rcv
  <2>1. worker \in {"rcv", "woken"} /\ worker' \in {"wait", "proc", "end"}
    BY <1>3 DEF Task!msg_q_rcv, Task!Receive
  <2> QED
    BY <2>1
<1>4. CASE Task!Proc
  <2>1. worker' = "loop"
    BY <1>4 DEF Task!Proc
  <2> QED
    BY <2>1
<1>5. CASE Task!End
  <2>1. worker' = "bye" /\ taskAlive' = FALSE
    BY <1>5 DEF Task!End, Task!deleteTask
  <2> QED
    BY <2>1
<1>6. CASE Task!destroy
  <2>1. /\ owner = "idle" /\ owner' = "unblocked" /\ UNCHANGED <<taskAlive, mThread, handled>>
        /\ worker' = worker \/ (worker = "wait" /\ worker' = "woken")
    BY <1>6, Woken DEF Task!destroy, Task!msg_q_unblock, Task!wakeAll
  <2> QED
    BY <2>1
<1>7. CASE Task!releaseThread
  <2>1. CASE mThread
    BY <1>7, <2>1 DEF Task!releaseThread, Task!leaveTask
  <2>2. CASE ~mThread
    <3>1. worker = "done" /\ worker' = "done" /\ taskAlive' = FALSE
      BY <1>7, <2>2 DEF Task!releaseThread, Task!deleteTask, Threads, EndsByOwner
    <3> QED
      BY <3>1
  <2> QED
    BY <2>1, <2>2
<1>8. CASE Task!stop \/ Task!join \/ Task!leave
  <2>1. UNCHANGED <<worker, taskAlive, mThread, handled>> /\ owner \notin {"idle", "unblocked"}
    BY <1>8 DEF Task!stop, Task!join, Task!leave
  <2> QED
    BY <2>1
<1>9. CASE UNCHANGED Task!vars
  BY <1>9 DEF Task!vars
<1> QED
  BY <1>1, <1>2, <1>3, <1>4, <1>5, <1>6, <1>7, <1>8, <1>9 DEF Task!Next, Task!Worker, Task!Owner

\* The invariants say that the task ends cleanly.
LEMMA CleanEnd ==
  ASSUME Threads, Messages, DeletedByWorker
  PROVE  Task!EndsCleanly
<1>1. Task!AcceptedOnce
  <2>1. Task!received \in Seq(Nat) /\ taskQueue \in Seq(Nat) /\ accepted \in Seq(Nat)
    BY ReceivedTyping DEF Messages, MessageTypes
  <2>2. CASE taskAlive
    <3>1. Task!received \o taskQueue = accepted /\ flushed = {}
      BY <2>2 DEF Messages, HeldOrQueued
    <3>2. accepted \o <<>> = accepted
      BY <2>1
    <3> DEFINE none == <<>>
    <3>4. none \in Seq(Nat) /\ accepted \o none = accepted
      BY <3>2
    <3> HIDE DEF none
    <3>3. Task!IsPrefix(accepted, accepted)
      BY <2>1, <3>4, FirstPart
    <3> QED
      BY <3>1, <3>3 DEF Task!AcceptedOnce
  <2>3. CASE ~taskAlive
    <3>1. Task!received \o taskQueue = Task!received
      BY <2>1, <2>3 DEF Messages, FreedRest
    <3> QED
      BY <2>3, <3>1 DEF Task!AcceptedOnce, Messages, FreedRest
  <2> QED
    BY <2>2, <2>3
<1>2. Task!DelegateFreedLast
  BY DEF Task!DelegateFreedLast, Task!WorkerLeft, Threads, ThreadTypes, EndsByOwner, RefsCounted, WorkerHolds,
         OwnerHolds
<1>3. Task!QueueUsedAlive
  BY DEF Task!QueueUsedAlive, Messages, FreedRest, Threads, ThreadTypes
<1>4. Task!TaskFreedUnlessUnbegun
  <2>1. ASSUME worker = "gone" PROVE taskAlive /\ handled = <<>> /\ taskQueue = accepted
    <3>1. taskAlive /\ handled = <<>> /\ msg = None
      BY <2>1 DEF DeletedByWorker, Messages, InHand
    <3>2. <<>> \o taskQueue = accepted
      BY <3>1 DEF Messages, HeldOrQueued, Task!received
    <3> QED
      BY <3>1, <3>2 DEF Messages, MessageTypes
  <2>2. worker = "done" /\ owner = "done" => ~taskAlive
    BY DEF DeletedByWorker
  <2> QED
    BY <2>1, <2>2 DEF Task!TaskFreedUnlessUnbegun
<1> QED
  BY <1>1, <1>2, <1>3, <1>4 DEF Task!EndsCleanly

\* When destroy() ends a message task, at any moment of the worker's loop, with a thread that is joined,
\* detached or was never created: messages are handled in the order they were accepted, none is lost or
\* both handled and freed, and the queue and the LocThreadDelegate are freed by the last of those who use
\* them.  A joinable thread that is stopped before it begins is the exception, and named in the property:
\* the task and its queue then stay behind as they were.  What destroy() itself writes to the task after the
\* unblock is not covered.  For any number of messages.
THEOREM TaskEndsCleanly == AdapterSpec => []EndsCleanly
<1>1. AdapterInit => TaskInv
  <2>1. Task!Init => DeletedByWorker
    BY DEF Task!Init, DeletedByWorker
  <2> QED
    BY <2>1, ThreadsStart, MessagesStart DEF TaskInv, AdapterInit
<1>2. TaskInv /\ [AdapterNext]_allVars => TaskInv'
  <2>1. [AdapterNext]_allVars => [Task!Next]_(Task!vars)
    BY DEF AdapterNext, allVars, taskVars, Task!vars, Task!msgQ, Task!delegate
  <2>2. Task!NoneAssumption
    BY AdapterAssumption
  <2> QED
    BY <2>1, <2>2, ThreadsKept, MessagesKept, DeletionKept DEF TaskInv
<1>3. TaskInv => EndsCleanly
  BY CleanEnd DEF TaskInv, EndsCleanly
<1> QED
  BY <1>1, <1>2, <1>3, PTL DEF AdapterSpec

-----------------------------------------------------------------------------
(***************************************************************************)
(* The XTRA observer.  Its message queue and the socket of the daemon are  *)
(* two queues one behind the other; what matters of each is the last thing *)
(* said about an item.                                                     *)
(***************************************************************************)
\* The last element of q that is in A, if there is one, is in G.
LastIn(q, A, G) ==
  \A k \in DOMAIN q : q[k] \in A /\ (\A l \in DOMAIN q : l > k => q[l] \notin A) => q[k] \in G
NoneIn(q, A) == \A k \in DOMAIN q : q[k] \notin A

\* An appended element is in A, or leaves it to the others to be.
LEMMA NoneAppended ==
  ASSUME NEW S, NEW q \in Seq(S), NEW e \in S, NEW A
  PROVE  NoneIn(Append(q, e), A) <=> NoneIn(q, A) /\ e \notin A
<1> DEFINE p == Append(q, e)
<1>1. /\ Len(q) \in Nat /\ DOMAIN q = 1 .. Len(q) /\ DOMAIN p = 1 .. Len(q) + 1
      /\ p[Len(q) + 1] = e /\ \A k \in 1 .. Len(q) : p[k] = q[k]
  OBVIOUS
<1> HIDE DEF p
<1>2. NoneIn(p, A) <=> NoneIn(q, A) /\ e \notin A
  BY <1>1 DEF NoneIn
<1> QED
  BY <1>2 DEF p

\* None is in A if neither the first nor one of the others is.
LEMMA NoneLeft ==
  ASSUME NEW S, NEW q \in Seq(S), q # <<>>, NEW A
  PROVE  NoneIn(q, A) <=> NoneIn(Tail(q), A) /\ Head(q) \notin A
<1> DEFINE p == Tail(q)
<1>1. /\ Len(q) \in Nat /\ Len(q) > 0 /\ DOMAIN q = 1 .. Len(q) /\ DOMAIN p = 1 .. Len(q) - 1
      /\ Head(q) = q[1] /\ \A k \in 1 .. Len(q) - 1 : p[k] = q[k + 1]
  OBVIOUS
<1>2. \A k \in DOMAIN q : k # 1 => k - 1 \in DOMAIN p /\ p[k - 1] = q[k]
  BY <1>1
<1>3. \A k \in DOMAIN p : k + 1 \in DOMAIN q /\ p[k] = q[k + 1]
  BY <1>1
<1> HIDE DEF p
<1>4. ASSUME NoneIn(q, A) PROVE NoneIn(p, A) /\ Head(q) \notin A
  BY <1>1, <1>3, <1>4 DEF NoneIn
<1>5. ASSUME NoneIn(p, A), Head(q) \notin A PROVE NoneIn(q, A)
  BY <1>1, <1>2, <1>5 DEF NoneIn
<1> QED
  BY <1>4, <1>5 DEF p

\* Something else may be appended.
LEMMA LastStays ==
  ASSUME NEW S, NEW q \in Seq(S), NEW e \in S, NEW A, NEW G, LastIn(q, A, G), e \notin A
  PROVE  LastIn(Append(q, e), A, G)
<1> DEFINE p == Append(q, e)
<1>1. /\ Len(q) \in Nat /\ DOMAIN q = 1 .. Len(q) /\ DOMAIN p = 1 .. Len(q) + 1
      /\ p[Len(q) + 1] = e /\ \A k \in 1 .. Len(q) : p[k] = q[k]
  OBVIOUS
<1> HIDE DEF p
<1>2. ASSUME NEW k \in DOMAIN p, p[k] \in A, \A l \in DOMAIN p : l > k => p[l] \notin A
      PROVE  p[k] \in G
  <2>1. k \in DOMAIN q /\ p[k] = q[k]
    BY <1>1, <1>2
  <2>2. \A l \in DOMAIN q : l > k => q[l] \notin A
    BY <1>1, <1>2
  <2> QED
    BY <1>2, <2>1, <2>2 DEF LastIn
<1>3. LastIn(p, A, G)
  BY <1>2 DEF LastIn
<1> QED
  BY <1>3 DEF p

\* What is appended is the last.
LEMMA LastSaid ==
  ASSUME NEW S, NEW q \in Seq(S), NEW e \in S, NEW A, NEW G, e \in A, e \in G
  PROVE  LastIn(Append(q, e), A, G)
<1> DEFINE p == Append(q, e)
<1>1. /\ Len(q) \in Nat /\ DOMAIN p = 1 .. Len(q) + 1 /\ p[Len(q) + 1] = e
  OBVIOUS
<1> HIDE DEF p
<1>2. ASSUME NEW k \in DOMAIN p, p[k] \in A, \A l \in DOMAIN p : l > k => p[l] \notin A
      PROVE  p[k] \in G
  <2>1. k = Len(q) + 1
    BY <1>1, <1>2
  <2> QED
    BY <1>1, <2>1
<1>3. LastIn(p, A, G)
  BY <1>2 DEF LastIn
<1> QED
  BY <1>3 DEF p

\* Taking off the first does not change the last, unless it was the only one.
LEMMA LastLeft ==
  ASSUME NEW S, NEW q \in Seq(S), q # <<>>, NEW A, NEW G, LastIn(q, A, G)
  PROVE  /\ LastIn(Tail(q), A, G)
         /\ NoneIn(Tail(q), A) /\ Head(q) \in A => Head(q) \in G
<1> DEFINE p == Tail(q)
<1>1. /\ Len(q) \in Nat /\ Len(q) > 0 /\ DOMAIN q = 1 .. Len(q) /\ DOMAIN p = 1 .. Len(q) - 1
      /\ Head(q) = q[1] /\ \A k \in 1 .. Len(q) - 1 : p[k] = q[k + 1]
  OBVIOUS
<1>2. \A k \in DOMAIN q : k # 1 => k - 1 \in DOMAIN p /\ p[k - 1] = q[k]
  BY <1>1
<1> HIDE DEF p
<1>3. ASSUME NEW k \in DOMAIN p, p[k] \in A, \A l \in DOMAIN p : l > k => p[l] \notin A
      PROVE  p[k] \in G
  <2>1. k + 1 \in DOMAIN q /\ q[k + 1] = p[k]
    BY <1>1
  <2>2. ASSUME NEW l \in DOMAIN q, l > k + 1 PROVE q[l] \notin A
    <3>1. l - 1 \in DOMAIN p /\ p[l - 1] = q[l] /\ l - 1 > k
      BY <1>1, <1>2, <2>2
    <3> QED
      BY <1>3, <3>1
  <2> QED
    BY <1>3, <2>1, <2>2 DEF LastIn
<1>4. LastIn(p, A, G)
  BY <1>3 DEF LastIn
<1>5. ASSUME NoneIn(p, A), Head(q) \in A PROVE Head(q) \in G
  <2>1. 1 \in DOMAIN q /\ q[1] \in A
    BY <1>1, <1>5
  <2>2. \A l \in DOMAIN q : l > 1 => q[l] \notin A
    BY <1>1, <1>2, <1>5 DEF NoneIn
  <2>3. q[1] \in G
    BY <2>1, <2>2 DEF LastIn
  <2> QED
    BY <1>1, <2>3
<1> QED
  BY <1>4, <1>5 DEF p

\* What the observer's queue and the sockets may hold.
Known == Values \cup {None}
XtraMsg == [type : {"update"}, item : Items, value : Values] \cup [type : {"request"}, updated : BOOLEAN]
Datagram == [type : {"item"}, item : Items, value : Values] \cup [type : {"halinit"}]
              \cup [type : {"respondStatus"}, values : [Items -> Known]]

XtraTypeOK ==
  /\ value \in [Items -> Known] /\ latest \in [Items -> Known]
  /\ status \in Seq(XtraMsg) /\ toHal \in Seq(BOOLEAN) /\ toXtra \in Seq(Datagram)
  /\ daemon \in [up : BOOLEAN, view : [Items -> Known], asks : BOOLEAN]
  /\ mReqStatusReceived \in BOOLEAN /\ answered \in BOOLEAN

\* Updates of item i, and those that say v.
UpdatesOf(i) == {m \in XtraMsg : m.type = "update" /\ m.item = i}
Telling(v) == {m \in XtraMsg : m.type = "update" /\ m.value = v}

\* Requests of who says that it has the status already.
Repeats == {m \in XtraMsg : m.type = "request" /\ m.updated = TRUE}

\* Answers; datagrams about item i, one of those an answer contains; and those that say v of it.
Answers == {d \in Datagram : d.type = "respondStatus"}
About(i) == Answers \cup {d \in Datagram : d.type = "item" /\ d.item = i}
Saying(i, v) == {d \in Datagram : (d.type = "item" /\ d.value = v) \/ (d.type = "respondStatus" /\ d.values[i] = v)}

\* A daemon that is down hears nothing.
DownIsDeaf == ~daemon.up => toXtra = <<>> /\ ~answered

\* Who has been answered had asked; who says so is not answered again, but has been heard.
AskedBefore ==
  ~mReqStatusReceived => ~answered /\ NoneIn(toHal, {TRUE}) /\ NoneIn(status, Repeats)

\* The last update on its way to the observer, or else what it has stored, is the latest.
Stored ==
  \A i \in Items : /\ LastIn(status, UpdatesOf(i), Telling(latest[i]))
                   /\ NoneIn(status, UpdatesOf(i)) => value[i] = latest[i]

\* Once the daemon has an answer, or one is on its way, the last datagram on its way about an item,
\* or else what the daemon believes, is what the observer has stored.
Spoken ==
  mReqStatusReceived /\ (answered \/ ~NoneIn(toXtra, Answers)) =>
    \A i \in XtraStatus!Told :
      /\ LastIn(toXtra, About(i), Saying(i, value[i]))
      /\ NoneIn(toXtra, About(i)) => daemon.view[i] = value[i]

XtraInv == XtraTypeOK /\ DownIsDeaf /\ AskedBefore /\ Stored /\ Spoken

USE DEF XtraStatus!hal, XtraStatus!ghosts, XtraStatus!counters

LEMMA XtraStarts ==
  ASSUME XtraStatus!Init
  PROVE  XtraInv
<1> USE DEF XtraStatus!Init, XtraStatus!Nothing
<1>1. XtraTypeOK
  <2>1. [i \in Items |-> None] \in [Items -> Known]
    BY DEF Known
  <2>2. status \in Seq(XtraMsg) /\ toHal \in Seq(BOOLEAN) /\ toXtra \in Seq(Datagram)
    OBVIOUS
  <2>3. daemon \in [up : BOOLEAN, view : [Items -> Known], asks : BOOLEAN]
    BY <2>1
  <2> QED
    BY <2>1, <2>2, <2>3 DEF XtraTypeOK
<1>2. DownIsDeaf /\ AskedBefore
  BY DEF DownIsDeaf, AskedBefore, NoneIn
<1>3. Stored
  BY DEF Stored, LastIn, NoneIn
<1>4. Spoken
  BY DEF Spoken
<1> QED
  BY <1>1, <1>2, <1>3, <1>4 DEF XtraInv

\* A step that changes nothing of this.
LEMMA XtraUnmoved ==
  ASSUME XtraInv, UNCHANGED <<value, latest, status, toHal, toXtra, daemon, mReqStatusReceived, answered>>
  PROVE  XtraInv'
  BY DEF XtraInv, XtraTypeOK, DownIsDeaf, AskedBefore, Stored, Spoken

\* What a queue and the rest of it contain.
LEMMA XtraTaken ==
  ASSUME NEW S, NEW q \in Seq(S), q # <<>>
  PROVE  Head(q) \in S /\ Tail(q) \in Seq(S)
  OBVIOUS

LEMMA XtraAdded ==
  ASSUME NEW S, NEW q \in Seq(S), NEW e \in S
  PROVE  Append(q, e) \in Seq(S)
  OBVIOUS

\* A message arrives: onReceive posts what the socket holds.
LEMMA ReceiveKeeps ==
  ASSUME XtraInv, XtraStatus!onReceive
  PROVE  XtraInv'
<1> DEFINE m == [type |-> "request", updated |-> Head(toHal)]
<1>1. /\ toHal # <<>> /\ toHal' = Tail(toHal) /\ status' = Append(status, m)
      /\ UNCHANGED <<value, latest, toXtra, daemon, mReqStatusReceived, answered>>
  BY DEF XtraStatus!onReceive
<1>2. Head(toHal) \in BOOLEAN /\ Tail(toHal) \in Seq(BOOLEAN)
  BY <1>1, XtraTaken DEF XtraInv, XtraTypeOK
<1>3. m \in XtraMsg /\ m.type = "request" /\ m.updated = Head(toHal)
  BY <1>2 DEF XtraMsg
<1> HIDE DEF m
<1>4. XtraTypeOK'
  BY <1>1, <1>2, <1>3, XtraAdded DEF XtraInv, XtraTypeOK
<1>5. AskedBefore'
  <2> SUFFICES ASSUME ~mReqStatusReceived
               PROVE  ~answered /\ NoneIn(Tail(toHal), {TRUE}) /\ NoneIn(Append(status, m), Repeats)
    BY <1>1 DEF AskedBefore
  <2>1. ~answered /\ NoneIn(toHal, {TRUE}) /\ NoneIn(status, Repeats)
    BY DEF XtraInv, AskedBefore
  <2>2. NoneIn(Tail(toHal), {TRUE}) /\ Head(toHal) \notin {TRUE}
    BY <1>1, <2>1, NoneLeft DEF XtraInv, XtraTypeOK
  <2>3. m \notin Repeats
    BY <1>3, <2>2 DEF Repeats
  <2> QED
    BY <1>3, <2>1, <2>2, <2>3, NoneAppended DEF XtraInv, XtraTypeOK
<1>6. Stored'
  <2> SUFFICES ASSUME NEW i \in Items
               PROVE  /\ LastIn(Append(status, m), UpdatesOf(i), Telling(latest[i]))
                      /\ NoneIn(Append(status, m), UpdatesOf(i)) => value[i] = latest[i]
    BY <1>1 DEF Stored
  <2>1. m \notin UpdatesOf(i)
    BY <1>3 DEF UpdatesOf
  <2> QED
    BY <1>3, <2>1, LastStays, NoneAppended DEF XtraInv, XtraTypeOK, Stored
<1> QED
  BY <1>1, <1>4, <1>5, <1>6 DEF XtraInv, DownIsDeaf, Spoken

\* The HAL is told something: the message is the latest word on its item.
LEMMA NotifyKeeps ==
  ASSUME XtraInv, XtraStatus!notify
  PROVE  XtraInv'
<1>1. PICK i \in Items, v \in Values :
        /\ status' = Append(status, [type |-> "update", item |-> i, value |-> v])
        /\ latest' = [latest EXCEPT ![i] = v]
  BY DEF XtraStatus!notify
<1> DEFINE m == [type |-> "update", item |-> i, value |-> v]
<1>2. UNCHANGED <<value, toHal, toXtra, daemon, mReqStatusReceived, answered>>
  BY DEF XtraStatus!notify
<1>3. status' = Append(status, m) /\ m \in XtraMsg /\ m.type = "update" /\ m.item = i /\ m.value = v
  BY <1>1 DEF XtraMsg
<1> HIDE DEF m
<1>4. XtraTypeOK'
  BY <1>1, <1>2, <1>3, XtraAdded DEF XtraInv, XtraTypeOK, Known
<1>5. AskedBefore'
  <2>1. m \notin Repeats
    BY <1>3 DEF Repeats
  <2>2. NoneIn(status, Repeats) => NoneIn(status', Repeats)
    BY <1>3, <2>1, NoneAppended DEF XtraInv, XtraTypeOK
  <2> QED
    BY <1>2, <2>2 DEF XtraInv, AskedBefore
<1>6. Stored'
  <2> SUFFICES ASSUME NEW j \in Items
               PROVE  /\ LastIn(status', UpdatesOf(j), Telling(latest'[j]))
                      /\ NoneIn(status', UpdatesOf(j)) => value[j] = latest'[j]
    BY <1>2 DEF Stored
  <2>1. CASE j = i
    <3>1. latest'[j] = v /\ m \in UpdatesOf(j) /\ m \in Telling(v)
      BY <1>1, <1>3, <2>1 DEF UpdatesOf, Telling, XtraInv, XtraTypeOK
    <3> QED
      BY <1>3, <3>1, LastSaid, NoneAppended DEF XtraInv, XtraTypeOK
  <2>2. CASE j # i
    <3>1. latest'[j] = latest[j] /\ m \notin UpdatesOf(j)
      BY <1>1, <1>3, <2>2 DEF UpdatesOf, XtraInv, XtraTypeOK
    <3> QED
      BY <1>3, <3>1, LastStays, NoneAppended DEF XtraInv, XtraTypeOK, Stored
  <2> QED
    BY <2>1, <2>2
<1> QED
  BY <1>2, <1>4, <1>5, <1>6 DEF XtraInv, DownIsDeaf, Spoken

\* The observer takes a message: what the rest of the queue says.
LEMMA HandleTakes ==
  ASSUME XtraInv, XtraStatus!handle
  PROVE  /\ status # <<>> /\ Head(status) \in XtraMsg /\ status' \in Seq(XtraMsg)
         /\ UNCHANGED <<latest, toHal, daemon, answered>>
         /\ NoneIn(status, Repeats) => NoneIn(status', Repeats) /\ Head(status) \notin Repeats
         /\ \A i \in Items :
              /\ LastIn(status', UpdatesOf(i), Telling(latest[i]))
              /\ NoneIn(status', UpdatesOf(i)) =>
                   IF Head(status) \in UpdatesOf(i) THEN Head(status) \in Telling(latest[i])
                   ELSE value[i] = latest[i]
<1>1. /\ status # <<>> /\ status' = Tail(status) /\ UNCHANGED <<latest, toHal, daemon, answered>>
      /\ status \in Seq(XtraMsg)
  BY DEF XtraStatus!handle, XtraInv, XtraTypeOK
<1>2. Head(status) \in XtraMsg /\ status' \in Seq(XtraMsg)
  BY <1>1, XtraTaken
<1>3. NoneIn(status, Repeats) => NoneIn(status', Repeats) /\ Head(status) \notin Repeats
  BY <1>1, NoneLeft
<1>4. ASSUME NEW i \in Items
      PROVE  /\ LastIn(status', UpdatesOf(i), Telling(latest[i]))
             /\ NoneIn(status', UpdatesOf(i)) =>
                  IF Head(status) \in UpdatesOf(i) THEN Head(status) \in Telling(latest[i])
                  ELSE value[i] = latest[i]
  <2>1. /\ LastIn(status, UpdatesOf(i), Telling(latest[i]))
        /\ NoneIn(status, UpdatesOf(i)) => value[i] = latest[i]
    BY DEF XtraInv, Stored
  <2>2. /\ LastIn(Tail(status), UpdatesOf(i), Telling(latest[i]))
        /\ NoneIn(Tail(status), UpdatesOf(i)) /\ Head(status) \in UpdatesOf(i) => Head(status) \in Telling(latest[i])
    BY <1>1, <2>1, LastLeft
  <2>3. NoneIn(Tail(status), UpdatesOf(i)) /\ Head(status) \notin UpdatesOf(i) => NoneIn(status, UpdatesOf(i))
    BY <1>1, NoneLeft
  <2> QED
    BY <1>1, <2>1, <2>2, <2>3
<1> QED
  BY <1>1, <1>2, <1>3, <1>4

\* Sending a datagram, which a daemon that is down does not get.
LEMMA SendTyping ==
  ASSUME XtraInv, NEW d \in Datagram, XtraStatus!send(d)
  PROVE  /\ toXtra' \in Seq(Datagram)
         /\ daemon.up => toXtra' = Append(toXtra, d)
         /\ ~daemon.up => toXtra' = <<>> /\ toXtra = <<>> /\ ~answered
<1>1. CASE daemon.up
  BY <1>1, XtraAdded DEF XtraStatus!send, XtraInv, XtraTypeOK
<1>2. CASE ~daemon.up
  BY <1>2 DEF XtraStatus!send, XtraInv, XtraTypeOK, DownIsDeaf
<1> QED
  BY <1>1, <1>2

\* A daemon that has an answer, or one on its way, is up.
LEMMA AnswerMeansUp ==
  ASSUME XtraInv, answered \/ ~NoneIn(toXtra, Answers)
  PROVE  daemon.up
  BY DEF XtraInv, DownIsDeaf, NoneIn

\* An update is stored, and passed on to a daemon that has asked.
LEMMA UpdateKeeps ==
  ASSUME XtraInv, XtraStatus!handle, XtraStatus!update(Head(status))
  PROVE  XtraInv'
<1> DEFINE m == Head(status)
           d == [type |-> "item", item |-> m.item, value |-> m.value]
<1>1. /\ m \in XtraMsg /\ m.type = "update"
      /\ value' = [value EXCEPT ![m.item] = m.value]
      /\ UNCHANGED mReqStatusReceived
      /\ IF mReqStatusReceived THEN XtraStatus!send(d) ELSE UNCHANGED toXtra
  BY HandleTakes DEF XtraStatus!update, XtraStatus!store
<1>2. m.item \in Items /\ m.value \in Values
  BY <1>1 DEF XtraMsg
<1>3. d \in Datagram /\ d.type = "item" /\ d.item = m.item /\ d.value = m.value
  BY <1>2 DEF Datagram
<1> HIDE DEF d
<1>4. toXtra' \in Seq(Datagram)
  BY <1>1, <1>3, SendTyping DEF XtraInv, XtraTypeOK
<1>5. XtraTypeOK'
  <2>1. value' \in [Items -> Known]
    BY <1>1, <1>2 DEF XtraInv, XtraTypeOK, Known
  <2> QED
    BY <1>1, <1>4, <2>1, HandleTakes DEF XtraInv, XtraTypeOK
<1>6. DownIsDeaf'
  BY <1>1, <1>3, SendTyping, HandleTakes DEF XtraInv, XtraTypeOK, DownIsDeaf
<1>7. AskedBefore'
  BY <1>1, HandleTakes DEF XtraInv, AskedBefore
<1>8. Stored'
  <2> SUFFICES ASSUME NEW i \in Items
               PROVE  /\ LastIn(status', UpdatesOf(i), Telling(latest[i]))
                      /\ NoneIn(status', UpdatesOf(i)) => value'[i] = latest[i]
    BY HandleTakes DEF Stored
  <2>1. CASE i = m.item
    <3>1. value'[i] = m.value /\ m \in UpdatesOf(i)
      BY <1>1, <2>1 DEF UpdatesOf, XtraInv, XtraTypeOK
    <3>2. m \in Telling(latest[i]) => m.value = latest[i]
      BY DEF Telling
    <3> QED
      BY <3>1, <3>2, HandleTakes
  <2>2. CASE i # m.item
    <3>1. value'[i] = value[i] /\ m \notin UpdatesOf(i)
      BY <1>1, <2>2 DEF UpdatesOf, XtraInv, XtraTypeOK
    <3> QED
      BY <3>1, HandleTakes
  <2> QED
    BY <2>1, <2>2
<1>9. Spoken'
  <2> SUFFICES ASSUME mReqStatusReceived, answered \/ ~NoneIn(toXtra', Answers), NEW i \in XtraStatus!Told
               PROVE  /\ LastIn(toXtra', About(i), Saying(i, value'[i]))
                      /\ NoneIn(toXtra', About(i)) => daemon.view[i] = value'[i]
    BY <1>1, HandleTakes DEF Spoken
  <2>1. XtraStatus!send(d)
    BY <1>1
  <2>2. daemon.up
    BY <1>3, <2>1, SendTyping DEF NoneIn
  <2>3. toXtra' = Append(toXtra, d) /\ toXtra \in Seq(Datagram)
    BY <1>3, <2>1, <2>2, SendTyping DEF XtraInv, XtraTypeOK
  <2>4. answered \/ ~NoneIn(toXtra, Answers)
    BY <1>3, <2>3, NoneAppended DEF Answers
  <2>5. /\ LastIn(toXtra, About(i), Saying(i, value[i]))
        /\ NoneIn(toXtra, About(i)) => daemon.view[i] = value[i]
    BY <2>4 DEF XtraInv, Spoken
  <2>6. i \in Items
    BY DEF XtraStatus!Told
  <2>7. CASE i = m.item
    <3>1. value'[i] = m.value /\ d \in About(i) /\ d \in Saying(i, m.value)
      BY <1>1, <1>3, <2>6, <2>7 DEF About, Saying, XtraInv, XtraTypeOK
    <3> QED
      BY <1>3, <2>3, <3>1, LastSaid, NoneAppended
  <2>8. CASE i # m.item
    <3>1. value'[i] = value[i] /\ d \notin About(i)
      BY <1>1, <1>3, <2>6, <2>8 DEF About, Answers, XtraInv, XtraTypeOK
    <3> QED
      BY <1>3, <2>3, <2>5, <3>1, LastStays, NoneAppended
  <2> QED
    BY <2>7, <2>8
<1> QED
  BY <1>5, <1>6, <1>7, <1>8, <1>9 DEF XtraInv

\* The daemon asks, and is answered with all that is stored; who has it already said so before.
LEMMA RequestKeeps ==
  ASSUME XtraInv, XtraStatus!handle, XtraStatus!onStatusRequested(Head(status))
  PROVE  XtraInv'
<1> DEFINE m == Head(status)
           d == [type |-> "respondStatus", values |-> value]
<1>1. /\ m \in XtraMsg /\ m.type = "request"
      /\ mReqStatusReceived' = TRUE /\ UNCHANGED value
      /\ IF m.updated THEN UNCHANGED toXtra ELSE XtraStatus!send(d)
  BY HandleTakes DEF XtraStatus!onStatusRequested
<1>2. m.updated \in BOOLEAN
  BY <1>1 DEF XtraMsg
<1>3. d \in Datagram /\ d.type = "respondStatus" /\ d.values = value
  BY DEF Datagram, XtraInv, XtraTypeOK
<1> HIDE DEF d
<1>4. toXtra' \in Seq(Datagram)
  BY <1>1, <1>3, SendTyping DEF XtraInv, XtraTypeOK
<1>5. XtraTypeOK'
  BY <1>1, <1>4, HandleTakes DEF XtraInv, XtraTypeOK
<1>6. DownIsDeaf'
  BY <1>1, <1>3, SendTyping, HandleTakes DEF XtraInv, XtraTypeOK, DownIsDeaf
<1>7. AskedBefore'
  BY <1>1 DEF AskedBefore
<1>8. Stored'
  <2> SUFFICES ASSUME NEW i \in Items
               PROVE  /\ LastIn(status', UpdatesOf(i), Telling(latest[i]))
                      /\ NoneIn(status', UpdatesOf(i)) => value[i] = latest[i]
    BY <1>1, HandleTakes DEF Stored
  <2>1. m \notin UpdatesOf(i)
    BY <1>1 DEF UpdatesOf
  <2> QED
    BY <2>1, HandleTakes
<1>9. Spoken'
  <2> SUFFICES ASSUME answered \/ ~NoneIn(toXtra', Answers), NEW i \in XtraStatus!Told
               PROVE  /\ LastIn(toXtra', About(i), Saying(i, value[i]))
                      /\ NoneIn(toXtra', About(i)) => daemon.view[i] = value[i]
    BY <1>1, HandleTakes DEF Spoken
  <2>1. CASE m.updated
    <3>1. m \in Repeats
      BY <1>1, <1>2, <2>1 DEF Repeats
    <3>2. mReqStatusReceived
      BY <3>1, HandleTakes DEF XtraInv, AskedBefore
    <3> QED
      BY <1>1, <2>1, <3>2 DEF XtraInv, Spoken
  <2>2. CASE ~m.updated
    <3>1. XtraStatus!send(d)
      BY <1>1, <2>2
    <3>2. daemon.up
      BY <1>3, <3>1, SendTyping DEF NoneIn
    <3>3. toXtra' = Append(toXtra, d) /\ toXtra \in Seq(Datagram)
      BY <1>3, <3>1, <3>2, SendTyping DEF XtraInv, XtraTypeOK
    <3>4. d \in About(i) /\ d \in Saying(i, value[i])
      BY <1>3 DEF About, Answers, Saying
    <3> QED
      BY <1>3, <3>3, <3>4, LastSaid, NoneAppended
  <2> QED
    BY <2>1, <2>2
<1> QED
  BY <1>5, <1>6, <1>7, <1>8, <1>9 DEF XtraInv

\* The daemon asks by the socket of the HAL.
LEMMA AskKeeps ==
  ASSUME XtraInv, XtraStatus!daemonAsks
  PROVE  XtraInv'
<1>1. /\ daemon' = [daemon EXCEPT !.asks = FALSE]
      /\ UNCHANGED <<value, latest, status, toXtra, mReqStatusReceived, answered>>
  BY DEF XtraStatus!daemonAsks
<1>2. daemon' \in [up : BOOLEAN, view : [Items -> Known], asks : BOOLEAN]
      /\ daemon'.up = daemon.up /\ daemon'.view = daemon.view
  BY <1>1 DEF XtraInv, XtraTypeOK
<1>3. PICK b \in {FALSE} \union {answered} : toHal' = IF bound THEN Append(toHal, b) ELSE toHal
  BY DEF XtraStatus!daemonAsks
<1>4. b \in BOOLEAN /\ (b = TRUE => answered = TRUE) /\ toHal \in Seq(BOOLEAN)
  BY DEF XtraInv, XtraTypeOK
<1>5. toHal' \in Seq(BOOLEAN) /\ (NoneIn(toHal, {TRUE}) /\ ~answered => NoneIn(toHal', {TRUE}))
  <2>1. CASE toHal' = Append(toHal, b)
    <3>1. Append(toHal, b) \in Seq(BOOLEAN)
      BY <1>4, XtraAdded, Zenon
    <3>2. NoneIn(Append(toHal, b), {TRUE}) <=> NoneIn(toHal, {TRUE}) /\ b \notin {TRUE}
      BY <1>4, NoneAppended, Zenon
    <3> QED
      BY <1>4, <2>1, <3>1, <3>2, Zenon
  <2>2. CASE toHal' = toHal
    BY <1>4, <2>2
  <2> QED
    BY <1>3, <2>1, <2>2, Zenon
<1>6. XtraTypeOK'
  BY <1>1, <1>2, <1>5 DEF XtraInv, XtraTypeOK
<1>7. DownIsDeaf' /\ Stored' /\ Spoken'
  BY <1>1, <1>2 DEF XtraInv, DownIsDeaf, Stored, Spoken
<1>8. AskedBefore'
  BY <1>1, <1>5 DEF XtraInv, AskedBefore
<1> QED
  BY <1>6, <1>7, <1>8 DEF XtraInv

\* What the daemon believes of an item, when it hears something about it and when not.
LEMMA Believed ==
  ASSUME XtraInv, XtraStatus!daemonHears
  PROVE  /\ toXtra # <<>> /\ Head(toXtra) \in Datagram /\ toXtra \in Seq(Datagram) /\ toXtra' = Tail(toXtra)
         /\ UNCHANGED <<value, latest, status, toHal, mReqStatusReceived>>
         /\ daemon' \in [up : BOOLEAN, view : [Items -> Known], asks : BOOLEAN] /\ daemon.up /\ daemon'.up
         /\ answered' = (answered \/ (Head(toXtra).type = "respondStatus" /\ mReqStatusReceived))
         /\ \A i \in XtraStatus!Told :
              daemon'.view[i] = IF Head(toXtra).type = "respondStatus" THEN Head(toXtra).values[i]
                                ELSE IF Head(toXtra).type = "item" /\ Head(toXtra).item = i THEN Head(toXtra).value
                                ELSE daemon.view[i]
<1> DEFINE d == Head(toXtra)
<1>1. /\ toXtra # <<>> /\ toXtra' = Tail(toXtra) /\ daemon.up
      /\ UNCHANGED <<value, latest, status, toHal, mReqStatusReceived>>
      /\ answered' = (answered \/ (d.type = "respondStatus" /\ mReqStatusReceived))
      /\ toXtra \in Seq(Datagram)
  BY DEF XtraStatus!daemonHears, XtraInv, XtraTypeOK
<1>2. d \in Datagram
  BY <1>1, XtraTaken
<1>3. /\ d.type = "halinit" => daemon' = [daemon EXCEPT !.asks = TRUE]
      /\ d.type = "item" => daemon' = [daemon EXCEPT !.view[d.item] = d.value]
      /\ d.type = "respondStatus" => daemon' = [daemon EXCEPT !.view = XtraStatus!believe(d)]
  BY DEF XtraStatus!daemonHears
<1> HIDE DEF d
<1>4. daemon \in [up : BOOLEAN, view : [Items -> Known], asks : BOOLEAN]
  BY DEF XtraInv, XtraTypeOK
<1>5. \A i \in XtraStatus!Told : i \in Items
  BY DEF XtraStatus!Told
<1>6. CASE d.type = "halinit"
  <2>1. /\ daemon' \in [up : BOOLEAN, view : [Items -> Known], asks : BOOLEAN]
        /\ daemon'.up = daemon.up /\ daemon'.view = daemon.view
    BY <1>3, <1>4, <1>6
  <2> QED
    BY <1>1, <1>2, <1>6, <2>1 DEF d
<1>7. CASE d.type = "item"
  <2>1. d.item \in Items /\ d.value \in Known
    BY <1>2, <1>7 DEF Datagram, Known
  <2>2. /\ daemon' \in [up : BOOLEAN, view : [Items -> Known], asks : BOOLEAN]
        /\ daemon'.up = daemon.up
        /\ \A i \in Items : daemon'.view[i] = IF d.item = i THEN d.value ELSE daemon.view[i]
    BY <1>3, <1>4, <1>7, <2>1
  <2> QED
    BY <1>1, <1>2, <1>5, <1>7, <2>2 DEF d
<1>8. CASE d.type = "respondStatus"
  <2>1. d.values \in [Items -> Known]
    BY <1>2, <1>8 DEF Datagram
  <2>2. XtraStatus!believe(d) \in [Items -> Known] /\ \A i \in XtraStatus!Told : XtraStatus!believe(d)[i] = d.values[i]
    BY <1>4, <1>5, <2>1 DEF XtraStatus!believe
  <2>3. /\ daemon' \in [up : BOOLEAN, view : [Items -> Known], asks : BOOLEAN]
        /\ daemon'.up = daemon.up /\ daemon'.view = XtraStatus!believe(d)
    BY <1>3, <1>4, <1>8, <2>2
  <2> QED
    BY <1>1, <1>2, <1>8, <2>2, <2>3 DEF d
<1> QED
  BY <1>2, <1>6, <1>7, <1>8 DEF Datagram

\* The daemon hears the next datagram.
LEMMA HearKeeps ==
  ASSUME XtraInv, XtraStatus!daemonHears
  PROVE  XtraInv'
<1> DEFINE d == Head(toXtra)
<1>1. /\ toXtra # <<>> /\ d \in Datagram /\ toXtra \in Seq(Datagram) /\ toXtra' = Tail(toXtra)
      /\ UNCHANGED <<value, latest, status, toHal, mReqStatusReceived>>
      /\ daemon' \in [up : BOOLEAN, view : [Items -> Known], asks : BOOLEAN] /\ daemon'.up
      /\ answered' = (answered \/ (d.type = "respondStatus" /\ mReqStatusReceived))
      /\ \A i \in XtraStatus!Told :
           daemon'.view[i] = IF d.type = "respondStatus" THEN d.values[i]
                             ELSE IF d.type = "item" /\ d.item = i THEN d.value ELSE daemon.view[i]
  BY Believed
<1> HIDE DEF d
<1>2. XtraTypeOK'
  <2>1. toXtra' \in Seq(Datagram) /\ answered' \in BOOLEAN
    BY <1>1, XtraTaken
  <2> QED
    BY <1>1, <2>1 DEF XtraInv, XtraTypeOK
<1>3. DownIsDeaf' /\ AskedBefore' /\ Stored'
  BY <1>1 DEF XtraInv, DownIsDeaf, AskedBefore, Stored
<1>4. Spoken'
  <2> SUFFICES ASSUME mReqStatusReceived, answered' \/ ~NoneIn(Tail(toXtra), Answers), NEW i \in XtraStatus!Told
               PROVE  /\ LastIn(Tail(toXtra), About(i), Saying(i, value[i]))
                      /\ NoneIn(Tail(toXtra), About(i)) => daemon'.view[i] = value[i]
    BY <1>1 DEF Spoken
  <2>1. answered \/ ~NoneIn(toXtra, Answers)
    <3>1. NoneIn(toXtra, Answers) => NoneIn(Tail(toXtra), Answers) /\ d \notin Answers
      BY <1>1, NoneLeft DEF d
    <3>2. d.type = "respondStatus" => d \in Answers
      BY <1>1 DEF Answers
    <3> QED
      BY <1>1, <3>1, <3>2
  <2>2. /\ LastIn(toXtra, About(i), Saying(i, value[i]))
        /\ NoneIn(toXtra, About(i)) => daemon.view[i] = value[i]
    BY <2>1 DEF XtraInv, Spoken
  <2>3. /\ LastIn(Tail(toXtra), About(i), Saying(i, value[i]))
        /\ NoneIn(Tail(toXtra), About(i)) /\ d \in About(i) => d \in Saying(i, value[i])
        /\ NoneIn(Tail(toXtra), About(i)) /\ d \notin About(i) => NoneIn(toXtra, About(i))
    BY <1>1, <2>2, LastLeft, NoneLeft DEF d
  <2>4. CASE d \in About(i)
    <3>1. d \in Saying(i, value[i]) => daemon'.view[i] = value[i]
      BY <1>1, <2>4 DEF About, Answers, Saying
    <3> QED
      BY <2>3, <2>4, <3>1
  <2>5. CASE d \notin About(i)
    <3>1. daemon'.view[i] = daemon.view[i]
      BY <1>1, <2>5 DEF About, Answers
    <3> QED
      BY <2>2, <2>3, <2>5, <3>1
  <2> QED
    BY <2>4, <2>5
<1> QED
  BY <1>2, <1>3, <1>4 DEF XtraInv

\* The timer says halinit.
LEMMA TimeOutKeeps ==
  ASSUME XtraInv, XtraStatus!timeOutCallback
  PROVE  XtraInv'
<1> DEFINE d == [type |-> "halinit"]
<1>1. XtraStatus!send(d) /\ UNCHANGED <<value, latest, status, toHal, daemon, mReqStatusReceived, answered>>
  BY DEF XtraStatus!timeOutCallback
<1>2. d \in Datagram /\ d.type = "halinit"
  BY DEF Datagram
<1> HIDE DEF d
<1>3. /\ toXtra' \in Seq(Datagram)
      /\ daemon.up => toXtra' = Append(toXtra, d)
      /\ ~daemon.up => toXtra' = <<>> /\ toXtra = <<>> /\ ~answered
  BY <1>1, <1>2, SendTyping
<1>4. Spoken'
  <2> SUFFICES ASSUME mReqStatusReceived, answered \/ ~NoneIn(toXtra', Answers), NEW i \in XtraStatus!Told
               PROVE  /\ LastIn(toXtra', About(i), Saying(i, value[i]))
                      /\ NoneIn(toXtra', About(i)) => daemon.view[i] = value[i]
    BY <1>1 DEF Spoken
  <2>1. toXtra' = Append(toXtra, d) /\ toXtra \in Seq(Datagram)
    BY <1>3 DEF NoneIn, XtraInv, XtraTypeOK
  <2>2. d \notin Answers /\ d \notin About(i)
    BY <1>2 DEF Answers, About
  <2>3. answered \/ ~NoneIn(toXtra, Answers)
    BY <1>2, <2>1, <2>2, NoneAppended
  <2>4. /\ LastIn(toXtra, About(i), Saying(i, value[i]))
        /\ NoneIn(toXtra, About(i)) => daemon.view[i] = value[i]
    BY <2>3 DEF XtraInv, Spoken
  <2> QED
    BY <1>2, <2>1, <2>2, <2>4, LastStays, NoneAppended
<1> QED
  BY <1>1, <1>3, <1>4 DEF XtraInv, XtraTypeOK, DownIsDeaf, AskedBefore, Stored

\* Either process ends or starts.
LEMMA RestartsKeep ==
  ASSUME XtraInv, XtraStatus!halRestarts \/ XtraStatus!daemonStarts \/ XtraStatus!daemonEnds
  PROVE  XtraInv'
<1> DEFINE none == [i \in Items |-> None]
<1>1. none \in [Items -> Known]
  BY DEF Known
<1>2. <<>> \in Seq(XtraMsg) /\ <<>> \in Seq(BOOLEAN) /\ <<>> \in Seq(Datagram)
  OBVIOUS
<1>3. CASE XtraStatus!halRestarts
  <2>1. /\ value' = none /\ latest' = none /\ mReqStatusReceived' = FALSE
        /\ status' = <<>> /\ toHal' = <<>> /\ answered' = FALSE /\ UNCHANGED <<toXtra, daemon>>
    BY <1>3 DEF XtraStatus!halRestarts, XtraStatus!Nothing
  <2> HIDE DEF none
  <2>2. XtraTypeOK'
    BY <1>1, <1>2, <2>1 DEF XtraInv, XtraTypeOK
  <2>3. DownIsDeaf' /\ AskedBefore'
    BY <2>1 DEF XtraInv, DownIsDeaf, AskedBefore, NoneIn
  <2>4. Stored'
    BY <2>1 DEF Stored, LastIn, NoneIn
  <2>5. Spoken'
    BY <2>1 DEF Spoken
  <2> QED
    BY <2>2, <2>3, <2>4, <2>5 DEF XtraInv
<1>4. ASSUME NEW b \in BOOLEAN, NEW c \in BOOLEAN, daemon' = [up |-> b, view |-> none, asks |-> c],
             toXtra' = <<>>, answered' = FALSE, UNCHANGED <<value, latest, status, toHal, mReqStatusReceived>>
      PROVE  XtraInv'
  <2> HIDE DEF none
  <2>1. daemon' \in [up : BOOLEAN, view : [Items -> Known], asks : BOOLEAN]
    BY <1>1, <1>4
  <2>2. XtraTypeOK'
    BY <1>2, <1>4, <2>1 DEF XtraInv, XtraTypeOK
  <2>3. DownIsDeaf' /\ AskedBefore' /\ Stored'
    BY <1>4 DEF XtraInv, DownIsDeaf, AskedBefore, Stored
  <2>4. Spoken'
    BY <1>4 DEF Spoken, NoneIn
  <2> QED
    BY <2>2, <2>3, <2>4 DEF XtraInv
<1>5. CASE XtraStatus!daemonStarts
  <2>1. toXtra = <<>> /\ answered = FALSE
    BY <1>5 DEF XtraStatus!daemonStarts, XtraInv, XtraTypeOK, DownIsDeaf
  <2> QED
    BY <1>4, <1>5, <2>1 DEF XtraStatus!daemonStarts, XtraStatus!Nothing
<1>6. CASE XtraStatus!daemonEnds
  BY <1>4, <1>6 DEF XtraStatus!daemonEnds, XtraStatus!Nothing
<1> QED
  BY <1>3, <1>5, <1>6

LEMMA XtraKept ==
  ASSUME XtraInv, [XtraStatus!Next]_(XtraStatus!vars)
  PROVE  XtraInv'
<1>1. CASE XtraStatus!listen
  BY <1>1, XtraUnmoved DEF XtraStatus!listen
<1>2. CASE XtraStatus!handle
  BY <1>2, UpdateKeeps, RequestKeeps DEF XtraStatus!handle
<1>3. CASE UNCHANGED XtraStatus!vars
  BY <1>3, XtraUnmoved DEF XtraStatus!vars
<1> QED
  BY <1>1, <1>2, <1>3, ReceiveKeeps, NotifyKeeps, TimeOutKeeps, RestartsKeep, AskKeeps, HearKeeps
     DEF XtraStatus!Next, XtraStatus!listener, XtraStatus!xtraDaemon

\* However updates, requests, answers, the delayed halinit and restarts of either process interleave:
\* a daemon that the HAL of today has answered, with nothing more on its way to it, believes of every item
\* an answer contains what the HAL was told last (XtraSystemStatusObserver.cpp).  For any items and
\* values, queues and sockets of any length and any number of updates and restarts.
THEOREM XtraIsTruthful == AdapterSpec => []XtraAgrees
<1>1. AdapterInit => XtraInv
  BY XtraStarts DEF AdapterInit
<1>2. XtraInv /\ [AdapterNext]_allVars => XtraInv'
  <2>1. [AdapterNext]_allVars => [XtraStatus!Next]_(XtraStatus!vars)
    BY DEF AdapterNext, allVars, xtraVars, XtraStatus!vars
  <2> QED
    BY <2>1, XtraKept
<1>3. XtraInv => XtraStatus!XtraAgrees
  <2> SUFFICES ASSUME XtraInv, answered, status = <<>>, toXtra = <<>>, NEW i \in XtraStatus!Told
               PROVE  daemon.view[i] = latest[i]
    BY DEF XtraStatus!XtraAgrees
  <2>1. i \in Items /\ mReqStatusReceived
    BY DEF XtraStatus!Told, XtraInv, AskedBefore
  <2>2. daemon.view[i] = value[i]
    BY <2>1 DEF XtraInv, Spoken, NoneIn
  <2>3. value[i] = latest[i]
    BY <2>1 DEF XtraInv, Stored, NoneIn
  <2> QED
    BY <2>2, <2>3
<1>4. XtraStatus!XtraAgrees => XtraAgrees
  BY DEF XtraAgrees
<1> QED
  BY <1>1, <1>2, <1>3, <1>4, PTL DEF AdapterSpec

-----------------------------------------------------------------------------
(***************************************************************************)
(* Numbers.                                                                *)
(***************************************************************************)
\* A set of natural numbers has a least one, which is how what a recursive function gives is proved.
LEMMA NatMin == ASSUME NEW T, T \subseteq Nat, T # {} PROVE \E m \in T : \A k \in T : m <= k
<1> DEFINE R == OpToRel(<, Nat)
<1>1. \E x \in T : \A y \in T : ~(<<y, x>> \in R)
  <2>1. IsWellFoundedOn(R, Nat)
    BY NatLessThanWellFounded
  <2> HIDE DEF R
  <2> QED  BY <2>1, WFMin
<1>2. PICK x \in T : \A y \in T : ~(<<y, x>> \in R)
  BY <1>1
<1>3. \A y \in T : ~(y < x)
  BY <1>2 DEF OpToRel
<1> QED  BY <1>3

\* How many numbers there are in the intervals used below.
LEMMA Sizes ==
  ASSUME NEW n \in Nat
  PROVE  IsFiniteSet(1..n) /\ Cardinality(1..n) = n /\ IsFiniteSet(0..n - 1) /\ Cardinality(0..n - 1) = n
<1>1. IsFiniteSet(1..n) /\ Cardinality(1..n) = IF 1 > n THEN 0 ELSE n - 1 + 1
  BY FS_Interval
<1>2. IsFiniteSet(0..n - 1) /\ Cardinality(0..n - 1) = IF 0 > n - 1 THEN 0 ELSE (n - 1) - 0 + 1
  <2>1. n - 1 \in Int
    OBVIOUS
  <2> QED  BY <2>1, FS_Interval
<1> QED  BY <1>1, <1>2

-----------------------------------------------------------------------------
(***************************************************************************)
(* The system status, for any contents, talkers, items, networks and any   *)
(* number of entries and events.                                           *)
(***************************************************************************)
Told == FieldValues \cup (FieldValues \X FieldValues) \cup (SUBSET Networks) \cup {None}
Entries == [cmp : Told, mValid : BOOLEAN, epoch : Nat]

\* A history q of a report of the engine or of another, when the aiding data were deleted e times.
History(q, e, engine) ==
  /\ Len(q) <= maxItem
  /\ \A i \in 1..Len(q) : q[i].epoch <= e
  /\ \A i \in 1..Len(q) - 1 : q[i].cmp # q[i+1].cmp \/ (engine /\ q[i+1].epoch > q[i].epoch)
  /\ engine /\ q # <<>> => q[Len(q)].epoch = e

\* It ends with what the report was told last.
EndsWith(q, cmp) == q # <<>> => q[Len(q)].cmp = cmp

Networked ==
  LET q == mCache["mNetworkInfo"] IN
  /\ \A i \in 1..Len(q) : q[i].cmp \in SUBSET Networks
  /\ ~downFirst => IF q = <<>> THEN connected = {} ELSE q[Len(q)].cmp = connected

\* The gain and the clock come together.
Together(rf, clock) ==
  /\ rf = <<>> <=> clock = <<>>
  /\ rf # <<>> => rf[Len(rf)].cmp[1] = clock[Len(clock)].cmp[1]

StatusInv ==
  /\ epoch \in Nat /\ mCache \in [System!Reports -> Seq(Entries)]
  /\ \A r \in System!Reports :
       History(mCache[r], epoch, r \in System!EngineReports) /\ EndsWith(mCache[r], seen[r])
  /\ Networked
  /\ Together(mCache["mRfAndParams"], mCache["mTimeAndClock"])

\* The reports that matter below.
LEMMA SomeReports ==
  /\ {"mRfAndParams", "mTimeAndClock"} \subseteq System!EngineReports
  /\ System!EngineReports \subseteq System!Reports
  /\ "mNetworkInfo" \in System!Reports \ System!EngineReports
  BY DEF System!EngineReports, System!Reports, System!ItemReports, System!ReportOf

\* At the start the histories are empty.
LEMMA StatusStarts == System!Init => StatusInv
<1> SUFFICES ASSUME System!Init PROVE StatusInv
  OBVIOUS
<1>1. mCache = [r \in System!Reports |-> <<>>] /\ epoch = 0 /\ connected = {} /\ maxItem \in Nat
  BY AdapterAssumption DEF System!Init, System!MaxItemAssumption
<1>2. \A r \in System!Reports : History(mCache[r], epoch, r \in System!EngineReports) /\ EndsWith(mCache[r], seen[r])
  BY <1>1 DEF History, EndsWith
<1> QED
  BY <1>1, <1>2, SomeReports DEF StatusInv, Networked, Together

\* A history with an entry s appended and, if it grew too long, without its first entry.
LEMMA Appended ==
  ASSUME NEW q \in Seq(Entries), NEW e \in Nat, NEW engine \in BOOLEAN, NEW s \in Entries, NEW f \in Nat,
         History(q, e, engine), e <= f, s.epoch = f,
         q # <<>> => q[Len(q)].cmp # s.cmp \/ (engine /\ e < f)
  PROVE  /\ System!Append5(q, s) \in Seq(Entries) /\ System!Append5(q, s) # <<>>
         /\ System!Append5(q, s)[Len(System!Append5(q, s))] = s
         /\ History(System!Append5(q, s), f, engine)
<1> DEFINE longer == Append(q, s)
           n == Len(q)
<1>1. /\ n \in Nat /\ longer \in Seq(Entries) /\ Len(longer) = n + 1 /\ longer[n + 1] = s
      /\ \A i \in 1..n : longer[i] = q[i] /\ q[i] \in Entries
  OBVIOUS
<1>2. maxItem \in Nat \ {0} /\ n <= maxItem
  BY AdapterAssumption DEF System!MaxItemAssumption, History
<1>3. \A i \in 1..n + 1 : longer[i].epoch <= f
  <2>1. \A i \in 1..n : q[i].epoch <= e /\ q[i].epoch \in Nat
    BY <1>1 DEF History, Entries
  <2> QED  BY <1>1, <2>1
<1>4. \A i \in 1..n : longer[i].cmp # longer[i+1].cmp \/ (engine /\ longer[i+1].epoch > longer[i].epoch)
  <2> SUFFICES ASSUME NEW i \in 1..n
               PROVE  longer[i].cmp # longer[i+1].cmp \/ (engine /\ longer[i+1].epoch > longer[i].epoch)
    OBVIOUS
  <2>1. CASE i < n
    <3>1. i \in 1..n - 1 /\ i + 1 \in 1..n
      BY <2>1, <1>1
    <3>2. longer[i] = q[i] /\ longer[i+1] = q[i+1]
      BY <3>1, <1>1
    <3>3. q[i].cmp # q[i+1].cmp \/ (engine /\ q[i+1].epoch > q[i].epoch)
      BY <3>1 DEF History
    <3> QED  BY <3>2, <3>3
  <2>2. CASE i = n
    <3>1. q # <<>> /\ longer[i] = q[n] /\ longer[i+1] = s /\ q[n].epoch \in Nat
      BY <2>2, <1>1 DEF Entries
    <3>2. engine => q[n].epoch = e
      BY <3>1 DEF History
    <3> QED  BY <3>1, <3>2
  <2> QED  BY <2>1, <2>2, <1>1
<1>5. CASE n + 1 > maxItem
  <2> DEFINE t == Tail(longer)
  <2>1. System!Append5(q, s) = t
    BY <1>1, <1>5 DEF System!Append5
  <2>2. t \in Seq(Entries) /\ Len(t) = n /\ n > 0 /\ \A i \in 1..n : t[i] = longer[i+1] /\ i + 1 \in 1..n+1
    BY <1>1, <1>2, <1>5
  <2>3. \A i \in 1..n : t[i].epoch <= f
    BY <2>2, <1>3
  <2>4. \A i \in 1..n - 1 : t[i].cmp # t[i+1].cmp \/ (engine /\ t[i+1].epoch > t[i].epoch)
    <3> SUFFICES ASSUME NEW i \in 1..n - 1
                 PROVE  t[i].cmp # t[i+1].cmp \/ (engine /\ t[i+1].epoch > t[i].epoch)
      OBVIOUS
    <3>1. i + 1 \in 1..n /\ i \in 1..n
      BY <1>1
    <3>2. t[i] = longer[i+1] /\ t[i+1] = longer[(i+1)+1]
      BY <2>2, <3>1
    <3> HIDE DEF t, longer
    <3> QED  BY <1>4, <3>1, <3>2
  <2>5. t[Len(t)] = s /\ t # <<>>
    BY <2>2, <1>1
  <2> HIDE DEF t, longer
  <2> QED  BY <2>1, <2>2, <2>3, <2>4, <2>5, <1>2 DEF History
<1>6. CASE n + 1 <= maxItem
  <2>1. System!Append5(q, s) = longer
    BY <1>1, <1>2, <1>6 DEF System!Append5
  <2>2. longer # <<>> /\ (n + 1) - 1 = n
    BY <1>1
  <2> HIDE DEF longer
  <2> QED  BY <2>1, <2>2, <1>1, <1>3, <1>4, <1>6 DEF History
<1> QED  BY <1>5, <1>6, <1>1, <1>2

\* What recording does to the reports: each is still a history, and ends with what it was told.
Keeps(r) ==
  /\ mCache'[r] \in Seq(Entries)
  /\ History(mCache'[r], epoch', r \in System!EngineReports) /\ EndsWith(mCache'[r], seen'[r])

\* What an event records, in a state in which the invariant holds.
LEMMA Recorded ==
  ASSUME StatusInv, NEW news, DOMAIN news \subseteq System!Reports, System!record(news), epoch' = epoch,
         \A r \in DOMAIN news : news[r] \in Entries /\ news[r].epoch = epoch
  PROVE  /\ mCache' \in [System!Reports -> Seq(Entries)]
         /\ \A r \in System!Reports : Keeps(r)
         /\ \A r \in System!Reports \ DOMAIN news : mCache'[r] = mCache[r]
         /\ \A r \in DOMAIN news :
              /\ mCache'[r] # <<>> /\ mCache'[r][Len(mCache'[r])].cmp = news[r].cmp
              /\ \/ mCache'[r] = mCache[r]
                 \/ mCache'[r] = System!Append5(mCache[r], news[r])
<1>1. /\ mCache' = [r \in System!Reports |-> IF r \in DOMAIN news THEN System!setIteminReport(mCache[r], news[r])
                                             ELSE mCache[r]]
      /\ seen' = [r \in System!Reports |-> IF r \in DOMAIN news THEN news[r].cmp ELSE seen[r]]
  BY DEF System!record
<1>2. epoch \in Nat /\ \A r \in System!Reports :
         mCache[r] \in Seq(Entries) /\ History(mCache[r], epoch, r \in System!EngineReports) /\ EndsWith(mCache[r], seen[r])
  BY DEF StatusInv
<1>3. ASSUME NEW r \in System!Reports, r \notin DOMAIN news PROVE Keeps(r) /\ mCache'[r] = mCache[r]
  BY <1>1, <1>2, <1>3 DEF Keeps
<1>4. ASSUME NEW r \in DOMAIN news
      PROVE  /\ Keeps(r)
             /\ mCache'[r] # <<>> /\ mCache'[r][Len(mCache'[r])].cmp = news[r].cmp
             /\ \/ mCache'[r] = mCache[r]
                \/ mCache'[r] = System!Append5(mCache[r], news[r])
  <2> DEFINE q == mCache[r]
             s == news[r]
  <2>1. /\ r \in System!Reports /\ q \in Seq(Entries) /\ History(q, epoch, r \in System!EngineReports)
        /\ s \in Entries /\ s.epoch = epoch /\ seen'[r] = s.cmp
        /\ mCache'[r] = System!setIteminReport(q, s)
    BY <1>1, <1>2, <1>4
  <2>2. CASE q # <<>> /\ q[Len(q)].cmp = s.cmp
    <3>1. mCache'[r] = q
      BY <2>1, <2>2 DEF System!setIteminReport
    <3> QED  BY <2>1, <2>2, <3>1, <1>2 DEF Keeps, EndsWith
  <2>3. CASE q # <<>> => q[Len(q)].cmp # s.cmp
    <3>1. mCache'[r] = System!Append5(q, s)
      BY <2>1, <2>3 DEF System!setIteminReport
    <3> DEFINE engine == r \in System!EngineReports
    <3>2. /\ q \in Seq(Entries) /\ s \in Entries /\ epoch \in Nat /\ epoch <= epoch /\ s.epoch = epoch
          /\ History(q, epoch, engine) /\ engine \in BOOLEAN
          /\ q # <<>> => q[Len(q)].cmp # s.cmp \/ (engine /\ epoch < epoch)
      BY <2>1, <2>3, <1>2
    <3>5. /\ System!Append5(q, s) \in Seq(Entries) /\ System!Append5(q, s) # <<>>
          /\ System!Append5(q, s)[Len(System!Append5(q, s))] = s
          /\ History(System!Append5(q, s), epoch, engine)
      <4> HIDE DEF q, s, engine
      <4> QED  BY <3>2, Appended
    <3> HIDE DEF q, s
    <3>3. Keeps(r)
      BY <3>1, <3>5, <2>1 DEF Keeps, EndsWith
    <3> QED  BY <3>1, <3>5, <3>3 DEF q, s
  <2> QED  BY <2>2, <2>3
<1>5. mCache' \in [System!Reports -> Seq(Entries)] /\ \A r \in System!Reports : Keeps(r)
  <2>1. \A r \in System!Reports : Keeps(r)
    BY <1>3, <1>4
  <2>2. \A r \in System!Reports : mCache'[r] \in Seq(Entries)
    BY <2>1 DEF Keeps
  <2> QED  BY <2>1, <2>2, <1>1
<1> QED  BY <1>3, <1>4, <1>5

\* So it is enough to look at the network's report and at gain and clock.
LEMMA RecordKeeps ==
  ASSUME StatusInv, NEW news, DOMAIN news \subseteq System!Reports, System!record(news), epoch' = epoch,
         \A r \in DOMAIN news : news[r] \in Entries /\ news[r].epoch = epoch,
         "mNetworkInfo" \notin DOMAIN news, UNCHANGED <<connected, downFirst>>,
         \/ {"mRfAndParams", "mTimeAndClock"} \cap DOMAIN news = {}
         \/ /\ {"mRfAndParams", "mTimeAndClock"} \subseteq DOMAIN news
            /\ news["mRfAndParams"].cmp[1] = news["mTimeAndClock"].cmp[1]
  PROVE  StatusInv'
<1>1. /\ mCache' \in [System!Reports -> Seq(Entries)]
      /\ \A r \in System!Reports : Keeps(r)
      /\ \A r \in System!Reports \ DOMAIN news : mCache'[r] = mCache[r]
      /\ \A r \in DOMAIN news : mCache'[r] # <<>> /\ mCache'[r][Len(mCache'[r])].cmp = news[r].cmp
  BY Recorded
<1>2. mCache'["mNetworkInfo"] = mCache["mNetworkInfo"]
  BY <1>1, SomeReports
<1>3. Networked'
  BY <1>2 DEF StatusInv, Networked
<1>4. Together(mCache'["mRfAndParams"], mCache'["mTimeAndClock"])
  <2>1. CASE {"mRfAndParams", "mTimeAndClock"} \cap DOMAIN news = {}
    BY <2>1, <1>1, SomeReports DEF StatusInv
  <2>2. CASE /\ {"mRfAndParams", "mTimeAndClock"} \subseteq DOMAIN news
             /\ news["mRfAndParams"].cmp[1] = news["mTimeAndClock"].cmp[1]
    BY <2>2, <1>1 DEF Together
  <2> QED  BY <2>1, <2>2
<1>5. epoch' \in Nat
  BY DEF StatusInv
<1>6. \A r \in System!Reports : History(mCache'[r], epoch', r \in System!EngineReports) /\ EndsWith(mCache'[r], seen'[r])
  BY <1>1 DEF Keeps
<1> QED  BY <1>1, <1>3, <1>4, <1>5, <1>6 DEF StatusInv

\* What a parser returns, and the entries made of it.
Parsed == [main : FieldValues, leap : FieldValues, amp : FieldValues]

\* What a parser makes of a sentence of any size and contents.
LEMMA ParserTyping ==
  ASSUME NEW talker \in Talkers, NEW size, NEW val \in FieldValues,
         NEW p \in System!Parser([talker |-> talker, size |-> size, val |-> val])
  PROVE  p \in Parsed
<1> DEFINE s == [talker |-> talker, size |-> size, val |-> val]
<1>1. 0 \in FieldValues
  BY AdapterAssumption DEF System!ValuesAssumption
<1>2. \A eMax : System!Tokens(s, eMax) \subseteq Parsed
  BY <1>1 DEF System!Tokens, System!Contents, Parsed
<1>3. System!PQWM1parser(s) \subseteq Parsed
  BY <1>1 DEF System!PQWM1parser, System!Contents, Parsed
<1>4. /\ s.talker = talker
      /\ talker \in {"PQWM1", "PQWP1", "PQWP2", "PQWP3", "PQWP4", "PQWP5", "PQWP6", "PQWP7", "PQWS1"}
  BY AdapterAssumption DEF System!TalkersAssumption
<1> HIDE DEF s
<1> QED
  BY <1>2, <1>3, <1>4 DEF System!Parser, s, System!PQWP1parser, System!PQWP2parser, System!PQWP3parser,
     System!PQWP4parser, System!PQWP5parser, System!PQWP6parser, System!PQWP7parser, System!PQWS1parser

\* A sentence is recorded under reports of the engine; the gain comes with its clock.
LEMMA SentenceTyping ==
  ASSUME epoch \in Nat, NEW talker \in Talkers, NEW p \in Parsed
  PROVE  /\ DOMAIN System!Sentence(talker, p) \subseteq System!EngineReports
         /\ \A r \in DOMAIN System!Sentence(talker, p) :
              System!Sentence(talker, p)[r] \in Entries /\ System!Sentence(talker, p)[r].epoch = epoch
         /\ \/ {"mRfAndParams", "mTimeAndClock"} \cap DOMAIN System!Sentence(talker, p) = {}
            \/ /\ {"mRfAndParams", "mTimeAndClock"} \subseteq DOMAIN System!Sentence(talker, p)
               /\ System!Sentence(talker, p)["mRfAndParams"].cmp[1] = System!Sentence(talker, p)["mTimeAndClock"].cmp[1]
<1>1. /\ p.main \in FieldValues /\ p.main \in Told /\ <<p.main, p.leap>> \in Told /\ <<p.main, p.amp>> \in Told
      /\ <<p.main, p.leap>>[1] = p.main /\ <<p.main, p.amp>>[1] = p.main
  BY DEF Parsed, Told
<1>2. \A cmp \in Told : System!Entry(cmp, TRUE) \in Entries /\ System!Entry(cmp, TRUE).epoch = epoch
                        /\ System!Entry(cmp, TRUE).cmp = cmp
  BY DEF System!Entry, Entries
<1>3. talker \in {"PQWM1", "PQWP1", "PQWP2", "PQWP3", "PQWP4", "PQWP5", "PQWP6", "PQWP7", "PQWS1"}
  BY AdapterAssumption DEF System!TalkersAssumption
<1>4. CASE talker = "PQWM1"
  <2>1. System!Sentence(talker, p) =
          [mTimeAndClock |-> System!Entry(<<p.main, p.leap>>, TRUE), mXoState |-> System!Entry(p.main, TRUE),
           mRfAndParams |-> System!Entry(<<p.main, p.amp>>, TRUE), mErrRecovery |-> System!Entry(p.main, TRUE)]
    BY <1>4 DEF System!Sentence, System!TimeAndClock, System!XoState, System!RfAndParams, System!ErrRecovery
  <2>3. {"mTimeAndClock", "mXoState", "mRfAndParams", "mErrRecovery"} \subseteq System!EngineReports
    BY DEF System!EngineReports
  <2> DEFINE n == System!Sentence(talker, p)
  <2>4. /\ DOMAIN n = {"mTimeAndClock", "mXoState", "mRfAndParams", "mErrRecovery"}
        /\ n["mTimeAndClock"] = System!Entry(<<p.main, p.leap>>, TRUE) /\ n["mXoState"] = System!Entry(p.main, TRUE)
        /\ n["mRfAndParams"] = System!Entry(<<p.main, p.amp>>, TRUE) /\ n["mErrRecovery"] = System!Entry(p.main, TRUE)
    <3> DEFINE a == System!Entry(<<p.main, p.leap>>, TRUE)
               b == System!Entry(p.main, TRUE)
               c == System!Entry(<<p.main, p.amp>>, TRUE)
    <3>1. n = [mTimeAndClock |-> a, mXoState |-> b, mRfAndParams |-> c, mErrRecovery |-> b]
      BY <2>1
    <3> HIDE DEF n, a, b, c
    <3>2. /\ DOMAIN n = {"mTimeAndClock", "mXoState", "mRfAndParams", "mErrRecovery"}
          /\ n["mTimeAndClock"] = a /\ n["mXoState"] = b /\ n["mRfAndParams"] = c /\ n["mErrRecovery"] = b
      BY <3>1
    <3> QED  BY <3>2 DEF a, b, c
  <2>5. \A r \in DOMAIN n : n[r] \in Entries /\ n[r].epoch = epoch
    <3> HIDE DEF n
    <3>1. \A cmp \in {<<p.main, p.leap>>, <<p.main, p.amp>>, p.main} :
            System!Entry(cmp, TRUE) \in Entries /\ System!Entry(cmp, TRUE).epoch = epoch
      BY <1>1, <1>2
    <3>2. \A r \in DOMAIN n : \E cmp \in {<<p.main, p.leap>>, <<p.main, p.amp>>, p.main} : n[r] = System!Entry(cmp, TRUE)
      BY <2>4
    <3> QED  BY <3>1, <3>2
  <2>6. n["mRfAndParams"].cmp = <<p.main, p.amp>> /\ n["mTimeAndClock"].cmp = <<p.main, p.leap>>
    <3> HIDE DEF n
    <3> QED  BY <2>4, <1>1, <1>2
  <2> HIDE DEF n
  <2>7. n["mRfAndParams"].cmp[1] = n["mTimeAndClock"].cmp[1]
    BY <2>6
  <2> QED  BY <2>3, <2>4, <2>5, <2>7 DEF n
<1>5. CASE talker # "PQWM1"
  <2>1. \E r \in System!EngineReports \ {"mRfAndParams", "mTimeAndClock"} :
          System!Sentence(talker, p) = [x \in {r} |-> System!Entry(p.main, TRUE)]
    <3>10. {"mInjectedPosition", "mBestPosition", "mXtra", "mEphemeris", "mSvHealth", "mPdr", "mNavData",
            "mPositionFailure"} \subseteq System!EngineReports \ {"mRfAndParams", "mTimeAndClock"}
      BY DEF System!EngineReports
    <3>1. CASE talker = "PQWP1"
      <4>1. System!Sentence(talker, p) = [x \in {"mInjectedPosition"} |-> System!Entry(p.main, TRUE)]
        <5>1. System!Sentence(talker, p) = [mInjectedPosition |-> System!InjectedPosition(p)]
          BY <3>1 DEF System!Sentence
        <5>2. System!InjectedPosition(p) = System!Entry(p.main, TRUE)
          BY DEF System!InjectedPosition
        <5>3. \A e : [mInjectedPosition |-> e] = [x \in {"mInjectedPosition"} |-> e]
          OBVIOUS
        <5> QED  BY <5>1, <5>2, <5>3
      <4> QED  BY <4>1, <3>10
    <3>2. CASE talker = "PQWP2"
      <4>1. System!Sentence(talker, p) = [x \in {"mBestPosition"} |-> System!Entry(p.main, TRUE)]
        <5>1. System!Sentence(talker, p) = [mBestPosition |-> System!BestPosition(p)]
          BY <3>2 DEF System!Sentence
        <5>2. System!BestPosition(p) = System!Entry(p.main, TRUE)
          BY DEF System!BestPosition
        <5>3. \A e : [mBestPosition |-> e] = [x \in {"mBestPosition"} |-> e]
          OBVIOUS
        <5> QED  BY <5>1, <5>2, <5>3
      <4> QED  BY <4>1, <3>10
    <3>3. CASE talker = "PQWP3"
      <4>1. System!Sentence(talker, p) = [x \in {"mXtra"} |-> System!Entry(p.main, TRUE)]
        <5>1. System!Sentence(talker, p) = [mXtra |-> System!Xtra(p)]
          BY <3>3 DEF System!Sentence
        <5>2. System!Xtra(p) = System!Entry(p.main, TRUE)
          BY DEF System!Xtra
        <5>3. \A e : [mXtra |-> e] = [x \in {"mXtra"} |-> e]
          OBVIOUS
        <5> QED  BY <5>1, <5>2, <5>3
      <4> QED  BY <4>1, <3>10
    <3>4. CASE talker = "PQWP4"
      <4>1. System!Sentence(talker, p) = [x \in {"mEphemeris"} |-> System!Entry(p.main, TRUE)]
        <5>1. System!Sentence(talker, p) = [mEphemeris |-> System!Ephemeris(p)]
          BY <3>4 DEF System!Sentence
        <5>2. System!Ephemeris(p) = System!Entry(p.main, TRUE)
          BY DEF System!Ephemeris
        <5>3. \A e : [mEphemeris |-> e] = [x \in {"mEphemeris"} |-> e]
          OBVIOUS
        <5> QED  BY <5>1, <5>2, <5>3
      <4> QED  BY <4>1, <3>10
    <3>5. CASE talker = "PQWP5"
      <4>1. System!Sentence(talker, p) = [x \in {"mSvHealth"} |-> System!Entry(p.main, TRUE)]
        <5>1. System!Sentence(talker, p) = [mSvHealth |-> System!SvHealth(p)]
          BY <3>5 DEF System!Sentence
        <5>2. System!SvHealth(p) = System!Entry(p.main, TRUE)
          BY DEF System!SvHealth
        <5>3. \A e : [mSvHealth |-> e] = [x \in {"mSvHealth"} |-> e]
          OBVIOUS
        <5> QED  BY <5>1, <5>2, <5>3
      <4> QED  BY <4>1, <3>10
    <3>6. CASE talker = "PQWP6"
      <4>1. System!Sentence(talker, p) = [x \in {"mPdr"} |-> System!Entry(p.main, TRUE)]
        <5>1. System!Sentence(talker, p) = [mPdr |-> System!Pdr(p)]
          BY <3>6 DEF System!Sentence
        <5>2. System!Pdr(p) = System!Entry(p.main, TRUE)
          BY DEF System!Pdr
        <5>3. \A e : [mPdr |-> e] = [x \in {"mPdr"} |-> e]
          OBVIOUS
        <5> QED  BY <5>1, <5>2, <5>3
      <4> QED  BY <4>1, <3>10
    <3>7. CASE talker = "PQWP7"
      <4>1. System!Sentence(talker, p) = [x \in {"mNavData"} |-> System!Entry(p.main, TRUE)]
        <5>1. System!Sentence(talker, p) = [mNavData |-> System!NavData(p)]
          BY <3>7 DEF System!Sentence
        <5>2. System!NavData(p) = System!Entry(p.main, TRUE)
          BY DEF System!NavData
        <5>3. \A e : [mNavData |-> e] = [x \in {"mNavData"} |-> e]
          OBVIOUS
        <5> QED  BY <5>1, <5>2, <5>3
      <4> QED  BY <4>1, <3>10
    <3>8. CASE talker = "PQWS1"
      <4>1. System!Sentence(talker, p) = [x \in {"mPositionFailure"} |-> System!Entry(p.main, TRUE)]
        <5>1. System!Sentence(talker, p) = [mPositionFailure |-> System!PositionFailure(p)]
          BY <3>8 DEF System!Sentence
        <5>2. System!PositionFailure(p) = System!Entry(p.main, TRUE)
          BY DEF System!PositionFailure
        <5>3. \A e : [mPositionFailure |-> e] = [x \in {"mPositionFailure"} |-> e]
          OBVIOUS
        <5> QED  BY <5>1, <5>2, <5>3
      <4> QED  BY <4>1, <3>10
    <3> QED  BY <1>3, <1>5, <3>1, <3>2, <3>3, <3>4, <3>5, <3>6, <3>7, <3>8
  <2> QED  BY <2>1, <1>1, <1>2
<1> QED  BY <1>4, <1>5

\* Debug sentences keep the invariant.
LEMMA NmeaKeeps == StatusInv /\ System!setNmeaString => StatusInv'
<1> SUFFICES ASSUME StatusInv, System!setNmeaString PROVE StatusInv'
  OBVIOUS
<1>1. PICK talker \in Talkers, size \in System!Sizes, val \in FieldValues :
         \E p \in System!Parser([talker |-> talker, size |-> size, val |-> val]) :
            System!record(System!Sentence(talker, p))
  BY DEF System!setNmeaString
<1>2. PICK p \in System!Parser([talker |-> talker, size |-> size, val |-> val]) : System!record(System!Sentence(talker, p))
  BY <1>1
<1>3. UNCHANGED <<connected, downFirst>> /\ epoch' = epoch /\ epoch \in Nat
  BY DEF System!setNmeaString, StatusInv
<1> DEFINE news == System!Sentence(talker, p)
<1>4. /\ DOMAIN news \subseteq System!EngineReports
      /\ \A r \in DOMAIN news : news[r] \in Entries /\ news[r].epoch = epoch
      /\ \/ {"mRfAndParams", "mTimeAndClock"} \cap DOMAIN news = {}
         \/ /\ {"mRfAndParams", "mTimeAndClock"} \subseteq DOMAIN news
            /\ news["mRfAndParams"].cmp[1] = news["mTimeAndClock"].cmp[1]
  <2>1. p \in Parsed
    BY ParserTyping
  <2> QED  BY <2>1, <1>3, SentenceTyping
<1>5. DOMAIN news \subseteq System!Reports /\ "mNetworkInfo" \notin DOMAIN news
  BY <1>4, SomeReports
<1> HIDE DEF news
<1>6. System!record(news)
  BY <1>2 DEF news
<1> QED
  BY <1>3, <1>4, <1>5, <1>6, RecordKeeps

\* One report is told something.
LEMMA OneKeeps ==
  ASSUME StatusInv, NEW r \in System!Reports \ {"mNetworkInfo", "mRfAndParams", "mTimeAndClock"}, NEW s \in Entries,
         s.epoch = epoch, System!record([x \in {r} |-> s]), UNCHANGED <<connected, downFirst>>, epoch' = epoch
  PROVE  StatusInv'
<1> DEFINE news == [x \in {r} |-> s]
<1>1. DOMAIN news = {r} /\ news[r] = s
  OBVIOUS
<1> HIDE DEF news
<1>2. System!record(news)
  BY DEF news
<1> QED
  BY <1>1, <1>2, RecordKeeps

\* Positions do.
LEMMA PositionKeeps == StatusInv /\ System!eventPosition => StatusInv'
<1> SUFFICES ASSUME StatusInv, System!eventPosition PROVE StatusInv'
  OBVIOUS
<1>1. PICK v \in FieldValues : System!record([mLocation |-> System!Location(v)])
  BY DEF System!eventPosition
<1>2. [mLocation |-> System!Location(v)] = [x \in {"mLocation"} |-> System!Location(v)]
  OBVIOUS
<1>3. System!Location(v) \in Entries /\ System!Location(v).epoch = epoch
  BY DEF StatusInv, System!Location, System!Entry, Entries, Told
<1>4. "mLocation" \in System!Reports \ {"mNetworkInfo", "mRfAndParams", "mTimeAndClock"}
  BY DEF System!Reports, System!EngineReports
<1>5. UNCHANGED <<connected, downFirst>> /\ epoch' = epoch
  BY DEF System!eventPosition
<1>6. System!record([x \in {"mLocation"} |-> System!Location(v)])
  BY <1>1, <1>2
<1> HIDE <1>1, <1>2
<1> QED
  BY <1>3, <1>4, <1>5, <1>6, OneKeeps

\* A network that comes or goes.
LEMMA NetworkKeeps ==
  ASSUME StatusInv, NEW type \in Networks, NEW up \in BOOLEAN, System!eventNetwork(type, up), epoch' = epoch
  PROVE  StatusInv'
<1> DEFINE q == mCache["mNetworkInfo"]
           types == System!typeToAllTypes(type)
           all == IF q = <<>> THEN types ELSE System!collate(up, types, q[Len(q)].cmp)
           s == System!Entry(all, TRUE)
           news == [x \in {"mNetworkInfo"} |-> s]
<1>1. /\ System!record([mNetworkInfo |-> s])
      /\ connected' = CASE up -> connected \cup types
                       [] ~up /\ types = {} -> {}
                       [] ~up /\ types # {} -> connected \ types
      /\ downFirst' = (downFirst \/ (q = <<>> /\ ~up /\ types # {}))
  BY DEF System!eventNetwork
<1>2. types \in SUBSET Networks
  BY DEF System!typeToAllTypes
<1>3. /\ q \in Seq(Entries) /\ (\A i \in 1..Len(q) : q[i].cmp \in SUBSET Networks)
      /\ ~downFirst => IF q = <<>> THEN connected = {} ELSE q[Len(q)].cmp = connected
  BY SomeReports DEF StatusInv, Networked
<1>4. q # <<>> => Len(q) \in 1..Len(q)
  BY <1>3
<1>5. all \in SUBSET Networks
  BY <1>2, <1>3, <1>4 DEF System!collate
<1>6. s \in Entries /\ s.epoch = epoch /\ s.cmp = all
  BY <1>5 DEF System!Entry, Entries, Told, StatusInv
<1>7. ~downFirst' => all = connected'
  <2>1. CASE up
    BY <2>1, <1>1, <1>3 DEF System!collate
  <2>2. CASE ~up
    BY <2>2, <1>1, <1>3 DEF System!collate
  <2> QED  BY <2>1, <2>2
<1>8. DOMAIN news = {"mNetworkInfo"} /\ news["mNetworkInfo"] = s
  OBVIOUS
<1>9. System!record(news)
  <2>1. [mNetworkInfo |-> s] = news
    <3> HIDE DEF s
    <3> QED  OBVIOUS
  <2> QED  BY <1>1, <2>1
<1>10. /\ mCache' \in [System!Reports -> Seq(Entries)]
       /\ \A r \in System!Reports : Keeps(r)
       /\ \A r \in System!Reports \ DOMAIN news : mCache'[r] = mCache[r]
       /\ LET t == mCache'["mNetworkInfo"] IN
            /\ t # <<>> /\ t[Len(t)].cmp = all
            /\ t = q \/ t = System!Append5(q, s)
  <2> HIDE DEF news, s, all, types
  <2>1. DOMAIN news \subseteq System!Reports /\ \A r \in DOMAIN news : news[r] \in Entries /\ news[r].epoch = epoch
    BY <1>6, <1>8, SomeReports
  <2>2. /\ mCache' \in [System!Reports -> Seq(Entries)]
        /\ \A r \in System!Reports : Keeps(r)
        /\ \A r \in System!Reports \ DOMAIN news : mCache'[r] = mCache[r]
        /\ \A r \in DOMAIN news :
              /\ mCache'[r] # <<>> /\ mCache'[r][Len(mCache'[r])].cmp = news[r].cmp
              /\ \/ mCache'[r] = mCache[r]
                 \/ mCache'[r] = System!Append5(mCache[r], news[r])
    BY <2>1, <1>9, Recorded
  <2> QED  BY <2>2, <1>6, <1>8
<1>11. \A i \in 1..Len(mCache'["mNetworkInfo"]) : mCache'["mNetworkInfo"][i].cmp \in SUBSET Networks
  <2> HIDE DEF s, all
  <2>1. \A i \in 1..Len(Append(q, s)) : Append(q, s)[i].cmp \in SUBSET Networks
    BY <1>3, <1>5, <1>6
  <2>2. Append(q, s) \in Seq(Entries) /\ Append(q, s) # <<>>
    BY <1>3, <1>6
  <2>3. \A i \in 1..Len(Tail(Append(q, s))) : Tail(Append(q, s))[i].cmp \in SUBSET Networks
    <3> DEFINE longer == Append(q, s)
    <3>1. \A i \in 1..Len(Tail(longer)) : i + 1 \in 1..Len(longer) /\ Tail(longer)[i] = longer[i+1]
      <4> HIDE DEF longer
      <4> QED  BY <2>2 DEF longer
    <3> QED  BY <3>1, <2>1
  <2> QED  BY <1>10, <1>3, <2>1, <2>3 DEF System!Append5
<1>12. Networked'
  BY <1>7, <1>10, <1>11 DEF Networked
<1>13. Together(mCache'["mRfAndParams"], mCache'["mTimeAndClock"])
  BY <1>8, <1>10, SomeReports DEF StatusInv
<1>14. epoch' \in Nat
  BY DEF StatusInv
<1>15. \A r \in System!Reports : History(mCache'[r], epoch', r \in System!EngineReports) /\ EndsWith(mCache'[r], seen'[r])
  BY <1>10 DEF Keeps
<1> QED  BY <1>10, <1>12, <1>13, <1>14, <1>15 DEF StatusInv

\* Data items and network events do.
LEMMA DataItemKeeps == StatusInv /\ System!eventDataItemNotify => StatusInv'
<1> SUFFICES ASSUME StatusInv, System!eventDataItemNotify PROVE StatusInv'
  OBVIOUS
<1>1. epoch' = epoch /\ epoch \in Nat
  BY DEF System!eventDataItemNotify, StatusInv
<1>2. ASSUME NEW type \in Networks, NEW up \in BOOLEAN, System!eventNetwork(type, up) PROVE StatusInv'
  BY <1>1, <1>2, NetworkKeeps
<1>3. ASSUME NEW id \in DataItems \ {"NETWORKINFO"}, NEW s \in Entries, s.epoch = epoch,
             System!record([r \in {System!ReportOf[id]} |-> s]), UNCHANGED <<connected, downFirst>>
      PROVE  StatusInv'
  <2>1. id \in DOMAIN System!ReportOf
    BY AdapterAssumption DEF System!ItemsAssumption
  <2>2. System!ReportOf[id] \in System!Reports \ {"mNetworkInfo", "mRfAndParams", "mTimeAndClock"}
    <3>1. System!ReportOf[id] \in System!Reports
      BY <2>1 DEF System!Reports, System!ItemReports
    <3>2. System!ReportOf[id] \notin {"mNetworkInfo", "mRfAndParams", "mTimeAndClock"}
      BY <1>3, <2>1 DEF System!ReportOf
    <3> QED  BY <3>1, <3>2
  <2> QED  BY <2>2, <1>1, <1>3, OneKeeps
<1>4. \A id, v : v \in FieldValues => /\ System!SimpleItem(id, v) \in Entries /\ System!SimpleItem(id, v).epoch = epoch
  <2> SUFFICES ASSUME NEW id, NEW v \in FieldValues
               PROVE  System!SimpleItem(id, v) \in Entries /\ System!SimpleItem(id, v).epoch = epoch
    OBVIOUS
  <2>1. System!Entry(v, TRUE) \in Entries /\ System!Entry(v, TRUE).epoch = epoch
    BY <1>1 DEF System!Entry, Entries, Told
  <2>2. System!SimpleItem(id, v) = System!Entry(v, TRUE)
    BY DEF System!SimpleItem, System!FlagItem, System!ChangeItem, System!TextItem
  <2> QED  BY <2>1, <2>2
<1>5. System!BtDeviceScanDetail \in Entries /\ System!BtDeviceScanDetail.epoch = epoch
  <2>1. None \in Told
    BY DEF Told
  <2>2. \A cmp \in Told : System!Entry(cmp, TRUE) \in Entries /\ System!Entry(cmp, TRUE).epoch = epoch
    BY <1>1 DEF System!Entry, Entries
  <2> QED  BY <2>1, <2>2 DEF System!BtDeviceScanDetail
<1>6. CASE \E type \in Networks, up \in BOOLEAN : System!eventNetwork(type, up)
  BY <1>6, <1>2
<1>7. CASE /\ \E id \in DataItems \ {"NETWORKINFO"} :
                \/ \E v \in FieldValues : System!record([r \in {System!ReportOf[id]} |-> System!SimpleItem(id, v)])
                \/ System!record([r \in {System!ReportOf[id]} |-> System!BtDeviceScanDetail])
           /\ UNCHANGED <<connected, downFirst>>
  <2>1. PICK id \in DataItems \ {"NETWORKINFO"} :
               \/ \E v \in FieldValues : System!record([r \in {System!ReportOf[id]} |-> System!SimpleItem(id, v)])
               \/ System!record([r \in {System!ReportOf[id]} |-> System!BtDeviceScanDetail])
    BY <1>7
  <2>2. \E s \in Entries : s.epoch = epoch /\ System!record([r \in {System!ReportOf[id]} |-> s])
    BY <2>1, <1>4, <1>5
  <2> QED  BY <2>2, <1>3, <1>7
<1> QED
  <2>1. \/ \E type \in Networks, up \in BOOLEAN : System!eventNetwork(type, up)
        \/ /\ \E id \in DataItems \ {"NETWORKINFO"} :
                \/ \E v \in FieldValues : System!record([r \in {System!ReportOf[id]} |-> System!SimpleItem(id, v)])
                \/ System!record([r \in {System!ReportOf[id]} |-> System!BtDeviceScanDetail])
           /\ UNCHANGED <<connected, downFirst>>
    BY DEF System!eventDataItemNotify
  <2> QED  BY <2>1, <1>6, <1>7

\* The defaults are entries, and a default gain has the default clock.
LEMMA DefaultsTyping ==
  ASSUME epoch \in Nat, NEW r \in System!EngineReports
  PROVE  /\ System!EngineDefaults[r].cmp \in Told /\ System!EngineDefaults[r].mValid \in BOOLEAN
         /\ [System!EngineDefaults[r] EXCEPT !.epoch = epoch'] =
              [cmp |-> System!EngineDefaults[r].cmp, mValid |-> System!EngineDefaults[r].mValid, epoch |-> epoch']
         /\ System!EngineDefaults["mRfAndParams"].cmp[1] = System!EngineDefaults["mTimeAndClock"].cmp[1]
<1> DEFINE entry(cmp, valid) == [cmp |-> cmp, mValid |-> valid, epoch |-> epoch]
<1>1. 0 \in Told /\ <<0, 0>> \in Told
  BY AdapterAssumption DEF System!ValuesAssumption, Told
<1>2. /\ System!StateDefaults =
           [mLocation |-> entry(0, FALSE), mTimeAndClock |-> entry(<<0, 0>>, TRUE), mXoState |-> entry(0, TRUE),
            mRfAndParams |-> entry(<<0, 0>>, TRUE), mErrRecovery |-> entry(0, TRUE),
            mInjectedPosition |-> entry(0, TRUE), mBestPosition |-> entry(0, FALSE)]
  BY DEF System!StateDefaults, System!Entry, System!zero, System!Contents, System!TimeAndClock, System!XoState,
     System!RfAndParams, System!ErrRecovery, System!InjectedPosition
<1>3. /\ System!HealthDefaults =
           [mXtra |-> entry(0, TRUE), mEphemeris |-> entry(0, TRUE), mSvHealth |-> entry(0, TRUE),
            mPdr |-> entry(0, TRUE), mNavData |-> entry(0, TRUE), mPositionFailure |-> entry(0, TRUE)]
  BY DEF System!HealthDefaults, System!Entry, System!zero, System!Contents, System!Xtra, System!Ephemeris,
     System!SvHealth, System!Pdr, System!NavData, System!PositionFailure
<1>4. \A x \in System!EngineReports : \E cmp \in {0, <<0, 0>>}, valid \in BOOLEAN : System!EngineDefaults[x] = entry(cmp, valid)
  <2> SUFFICES ASSUME NEW x \in System!EngineReports
               PROVE  \E cmp \in {0, <<0, 0>>}, valid \in BOOLEAN : System!EngineDefaults[x] = entry(cmp, valid)
    OBVIOUS
  <2> DEFINE a == entry(0, TRUE)
             b == entry(0, FALSE)
             c == entry(<<0, 0>>, TRUE)
  <2>1. /\ System!StateDefaults = [mLocation |-> b, mTimeAndClock |-> c, mXoState |-> a, mRfAndParams |-> c,
                                   mErrRecovery |-> a, mInjectedPosition |-> a, mBestPosition |-> b]
        /\ System!HealthDefaults = [mXtra |-> a, mEphemeris |-> a, mSvHealth |-> a, mPdr |-> a, mNavData |-> a,
                                    mPositionFailure |-> a]
    BY <1>2, <1>3
  <2>2. System!EngineDefaults[x] \in {a, b, c}
    <3> HIDE DEF a, b, c
    <3> QED  BY <2>1 DEF System!EngineDefaults, System!EngineReports
  <2>3. /\ \E cmp \in {0, <<0, 0>>}, valid \in BOOLEAN : a = entry(cmp, valid)
        /\ \E cmp \in {0, <<0, 0>>}, valid \in BOOLEAN : b = entry(cmp, valid)
        /\ \E cmp \in {0, <<0, 0>>}, valid \in BOOLEAN : c = entry(cmp, valid)
    BY Zenon
  <2> HIDE DEF a, b, c, entry
  <2> QED  BY <2>2, <2>3
<1>5. System!EngineDefaults["mRfAndParams"] = entry(<<0, 0>>, TRUE) /\ System!EngineDefaults["mTimeAndClock"] = entry(<<0, 0>>, TRUE)
  <2> DEFINE a == entry(0, TRUE)
             b == entry(0, FALSE)
             c == entry(<<0, 0>>, TRUE)
  <2>1. System!StateDefaults = [mLocation |-> b, mTimeAndClock |-> c, mXoState |-> a, mRfAndParams |-> c,
                                mErrRecovery |-> a, mInjectedPosition |-> a, mBestPosition |-> b]
    BY <1>2
  <2>2. System!EngineDefaults["mRfAndParams"] = c /\ System!EngineDefaults["mTimeAndClock"] = c
    <3> HIDE DEF a, b, c
    <3> QED  BY <2>1 DEF System!EngineDefaults, System!EngineReports
  <2> QED  BY <2>2
<1>6. PICK cmp \in {0, <<0, 0>>}, valid \in BOOLEAN : System!EngineDefaults[r] = entry(cmp, valid)
  BY <1>4
<1>7. cmp \in Told
  BY <1>1
<1> QED  BY <1>5, <1>6, <1>7

\* The deletion of aiding data keeps the invariant.
LEMMA DefaultsKeep == StatusInv /\ System!setDefaultGnssEngineStates => StatusInv'
<1> SUFFICES ASSUME StatusInv, System!setDefaultGnssEngineStates PROVE StatusInv'
  OBVIOUS
<1> DEFINE default(r) == [System!EngineDefaults[r] EXCEPT !.epoch = epoch']
<1>1. /\ epoch \in Nat /\ epoch' = epoch + 1 /\ UNCHANGED <<connected, downFirst>>
      /\ mCache' = [r \in System!Reports |-> IF r \in System!EngineReports THEN System!Append5(mCache[r], default(r))
                                              ELSE mCache[r]]
      /\ seen' = [r \in System!Reports |-> IF r \in System!EngineReports THEN System!EngineDefaults[r].cmp ELSE seen[r]]
  BY DEF StatusInv, System!setDefaultGnssEngineStates, System!setDefaults, System!setDefaultIteminReport
<1>2. \A r \in System!Reports :
         mCache[r] \in Seq(Entries) /\ History(mCache[r], epoch, r \in System!EngineReports) /\ EndsWith(mCache[r], seen[r])
  BY DEF StatusInv
<1>3. ASSUME NEW r \in System!EngineReports
      PROVE  /\ default(r) \in Entries /\ default(r).epoch = epoch' /\ default(r).cmp = System!EngineDefaults[r].cmp
  <2> DEFINE cmp == System!EngineDefaults[r].cmp
             valid == System!EngineDefaults[r].mValid
  <2>1. default(r) = [cmp |-> cmp, mValid |-> valid, epoch |-> epoch'] /\ cmp \in Told /\ valid \in BOOLEAN
    BY <1>1, <1>3, DefaultsTyping
  <2>2. epoch' \in Nat
    BY <1>1
  <2> HIDE DEF default, cmp, valid
  <2>3. default(r) \in Entries /\ default(r).epoch = epoch' /\ default(r).cmp = cmp
    BY <2>1, <2>2 DEF Entries
  <2> QED  BY <2>3 DEF cmp
<1>4. ASSUME NEW r \in System!EngineReports
      PROVE  /\ Keeps(r) /\ mCache'[r] # <<>> /\ mCache'[r][Len(mCache'[r])].cmp = System!EngineDefaults[r].cmp
  <2> DEFINE q == mCache[r]
             s == default(r)
  <2>1. /\ r \in System!Reports /\ q \in Seq(Entries) /\ History(q, epoch, TRUE)
        /\ s \in Entries /\ s.epoch = epoch' /\ s.cmp = System!EngineDefaults[r].cmp
    BY <1>2, <1>3, <1>4, SomeReports
  <2>2. /\ System!Append5(q, s) \in Seq(Entries) /\ System!Append5(q, s) # <<>>
        /\ System!Append5(q, s)[Len(System!Append5(q, s))] = s
        /\ History(System!Append5(q, s), epoch', TRUE)
    <3>1. epoch <= epoch' /\ epoch < epoch' /\ epoch' \in Nat
      BY <1>1
    <3> HIDE DEF q, s
    <3> QED  BY <3>1, <2>1, <1>1, Appended
  <2>3. mCache'[r] = System!Append5(q, s) /\ seen'[r] = System!EngineDefaults[r].cmp
    BY <1>1, <2>1
  <2> HIDE DEF q, s
  <2> QED  BY <2>1, <2>2, <2>3 DEF Keeps, EndsWith
<1>5. ASSUME NEW r \in System!Reports \ System!EngineReports
      PROVE  Keeps(r) /\ mCache'[r] = mCache[r]
  <2>1. mCache'[r] = mCache[r] /\ seen'[r] = seen[r]
    BY <1>1
  <2>2. History(mCache[r], epoch + 1, FALSE)
    <3> DEFINE q == mCache[r]
    <3>1. q \in Seq(Entries) /\ epoch \in Nat /\ Len(q) <= maxItem /\ (\A i \in 1..Len(q) : q[i].epoch <= epoch)
          /\ \A i \in 1..Len(q) - 1 : q[i].cmp # q[i+1].cmp \/ (FALSE /\ q[i+1].epoch > q[i].epoch)
      BY <1>1, <1>2, <1>5 DEF History
    <3> HIDE DEF q
    <3>2. \A i \in 1..Len(q) : q[i].epoch \in Nat
      <4>1. \A i \in 1..Len(q) : q[i] \in Entries
        BY <3>1
      <4> QED  BY <4>1 DEF Entries
    <3>3. \A i \in 1..Len(q) : q[i].epoch <= epoch + 1
      BY <3>1, <3>2
    <3>4. History(q, epoch + 1, FALSE)
      BY <3>1, <3>3 DEF History
    <3> QED  BY <3>4 DEF q
  <2>3. (r \in System!EngineReports) = FALSE
    OBVIOUS
  <2> QED  BY <2>1, <2>2, <2>3, <1>1, <1>2 DEF Keeps, EndsWith
<1> HIDE DEF default
<1>6. /\ \A r \in System!Reports : mCache'[r] \in Seq(Entries)
      /\ \A r \in System!Reports : History(mCache'[r], epoch', r \in System!EngineReports) /\ EndsWith(mCache'[r], seen'[r])
  BY <1>4, <1>5 DEF Keeps
<1>7. mCache' \in [System!Reports -> Seq(Entries)] /\ epoch' \in Nat
  BY <1>1, <1>6
<1>8. Networked'
  <2>1. mCache'["mNetworkInfo"] = mCache["mNetworkInfo"]
    BY <1>5, SomeReports
  <2> QED  BY <2>1, <1>1 DEF StatusInv, Networked
<1>9. Together(mCache'["mRfAndParams"], mCache'["mTimeAndClock"])
  <2>1. System!EngineDefaults["mRfAndParams"].cmp[1] = System!EngineDefaults["mTimeAndClock"].cmp[1]
    BY <1>1, SomeReports, DefaultsTyping
  <2> QED  BY <2>1, <1>4, SomeReports DEF Together
<1> QED  BY <1>6, <1>7, <1>8, <1>9 DEF StatusInv

\* Every step does.
LEMMA StatusKept == StatusInv /\ [System!Next]_(System!vars) => StatusInv'
<1> SUFFICES ASSUME StatusInv, [System!Next]_(System!vars) PROVE StatusInv'
  OBVIOUS
<1>1. CASE System!setNmeaString
  BY <1>1, NmeaKeeps
<1>2. CASE System!eventPosition
  BY <1>2, PositionKeeps
<1>3. CASE System!eventDataItemNotify
  BY <1>3, DataItemKeeps
<1>4. CASE System!setDefaultGnssEngineStates
  BY <1>4, DefaultsKeep
<1>5. CASE UNCHANGED System!vars
  BY <1>5 DEF System!vars, StatusInv, Networked
<1> QED  BY <1>1, <1>2, <1>3, <1>4, <1>5 DEF System!Next

\* The invariant says what the status promises.
LEMMA StatusSays == StatusInv => System!StatusTruthful
<1> SUFFICES ASSUME StatusInv PROVE System!StatusTruthful
  OBVIOUS
<1> DEFINE told == System!getReport(mCache)
<1>1. /\ \A r \in DOMAIN told : r \in System!Reports /\ mCache[r] # <<>> /\ told[r] = mCache[r][Len(mCache[r])]
      /\ \A r \in System!Reports : mCache[r] # <<>> => r \in DOMAIN told
  BY DEF System!getReport
<1>2. \A r \in System!Reports : History(mCache[r], epoch, r \in System!EngineReports) /\ EndsWith(mCache[r], seen[r])
  BY DEF StatusInv
<1>3. System!LatestIsLastTold
  BY <1>1, <1>2 DEF System!LatestIsLastTold, EndsWith
<1>4. System!RecordsChanges
  BY <1>2 DEF System!RecordsChanges, History
<1>5. System!NetworksFollow
  BY DEF StatusInv, Networked, System!NetworksFollow
<1>6. System!DeletedDataGone
  <2>1. System!getDebugReport(told) \subseteq System!EngineReports \cap DOMAIN told
    BY DEF System!getDebugReport, System!Valid, System!convertSatelliteInfo, System!EngineReports
  <2> HIDE DEF told
  <2>2. \A r \in System!getDebugReport(told) : told[r].epoch = epoch
    BY <2>1, <1>1, <1>2 DEF History
  <2> QED  BY <2>2 DEF System!DeletedDataGone, told
<1>7. System!GainMatchesClock
  <2> HIDE DEF told
  <2>1. System!getAgcInformation(told)[1] = System!getAgcInformation(told)[2]
    <3>1. CASE {"mRfAndParams", "mTimeAndClock"} \subseteq DOMAIN told
      <4>1. told["mRfAndParams"].cmp[1] = told["mTimeAndClock"].cmp[1]
        BY <3>1, <1>1 DEF StatusInv, Together
      <4> QED  BY <3>1, <4>1 DEF System!getAgcInformation
    <3>2. CASE ~({"mRfAndParams", "mTimeAndClock"} \subseteq DOMAIN told)
      BY <3>2 DEF System!getAgcInformation
    <3> QED  BY <3>1, <3>2
  <2> QED  BY <2>1 DEF System!GainMatchesClock, told
<1> QED  BY <1>3, <1>4, <1>5, <1>6, <1>7 DEF System!StatusTruthful

\* Whatever sentences, positions and data items come, the newest entry of a report is what it was told last, its
\* history holds changes only, networks are merged right, deleted data are not shown, and a gain has the clock of
\* its own sentence, for histories of any length (SystemStatus.cpp; getDebugReport and getAgcInformation of
\* GnssAdapter.cpp).
THEOREM StatusStaysTruthful == AdapterSpec => []StatusTruthful
<1>1. AdapterInit => StatusInv
  BY StatusStarts DEF AdapterInit
<1>2. StatusInv /\ [AdapterNext]_allVars => StatusInv'
  <2> SUFFICES ASSUME StatusInv, [AdapterNext]_allVars PROVE StatusInv'
    OBVIOUS
  <2>1. [System!Next]_(System!vars)
    BY DEF AdapterNext, allVars, statusVars, System!vars
  <2> QED  BY <2>1, StatusKept
<1>3. StatusInv => StatusTruthful
  BY StatusSays DEF StatusTruthful
<1> QED
  BY <1>1, <1>2, <1>3, PTL DEF AdapterSpec

-----------------------------------------------------------------------------
(***************************************************************************)
(* The sentences, for any positions and satellites.                        *)
(***************************************************************************)
LEMMA ReportCardinality == \A S : Report!Cardinality(S) = Cardinality(S)
  BY DEF Report!Cardinality, Cardinality

\* Expanded once.
LEMMA ReportMin == \A S : Report!Min(S) = CHOOSE x \in S : \A y \in S : x <= y
  BY DEF Report!Min

\* f selects from the first m elements of s those at the places in I, one after the other.
SelectsUpTo(f, s, I, m) ==
  f = [n \in 0..m |-> IF n = 0 THEN <<>> ELSE IF n \in I THEN Append(f[n - 1], s[n]) ELSE f[n - 1]]

Selects(f, s, I) ==
  f = [n \in 0..Len(s) |-> IF n = 0 THEN <<>> ELSE IF n \in I THEN Append(f[n - 1], s[n]) ELSE f[n - 1]]

\* What is selected from a sequence by places, front to back, is determined ...
LEMMA SelectsOnce ==
  ASSUME NEW s, Len(s) \in Nat, NEW I, NEW f, NEW g, Selects(f, s, I), Selects(g, s, I)
  PROVE  f = g
<1> DEFINE bad == {n \in 0 .. Len(s) : f[n] # g[n]}
<1>1. /\ f = [n \in 0 .. Len(s) |-> f[n]] /\ g = [n \in 0 .. Len(s) |-> g[n]]
      /\ \A n \in 0 .. Len(s) :
           /\ f[n] = IF n = 0 THEN <<>> ELSE IF n \in I THEN Append(f[n - 1], s[n]) ELSE f[n - 1]
           /\ g[n] = IF n = 0 THEN <<>> ELSE IF n \in I THEN Append(g[n - 1], s[n]) ELSE g[n - 1]
  BY DEF Selects
<1>2. CASE bad # {}
  <2>1. PICK n \in bad : \A k \in bad : n <= k
    <3>1. bad \subseteq Nat
      OBVIOUS
    <3> HIDE DEF bad
    <3> QED  BY <3>1, <1>2, NatMin
  <2>2. n \in 0..Len(s) /\ f[n] # g[n] /\ (n # 0 => n - 1 \in 0..Len(s) /\ n - 1 \notin bad)
    BY <2>1
  <2>3. n # 0 => f[n-1] = g[n-1]
    BY <2>2
  <2> QED  BY <1>1, <2>2, <2>3
<1>3. CASE bad = {}
  BY <1>1, <1>3
<1> QED  BY <1>2, <1>3

\* ... and exists ...
LEMMA SelectsExist == ASSUME NEW s, Len(s) \in Nat, NEW I PROVE \E f : Selects(f, s, I)
<1> DEFINE bad == {m \in Nat : ~\E f : SelectsUpTo(f, s, I, m)}
<1>1. ASSUME bad # {} PROVE FALSE
  <2>1. PICK m \in bad : \A k \in bad : m <= k
    <3>1. bad \subseteq Nat
      OBVIOUS
    <3> HIDE DEF bad
    <3> QED  BY <3>1, <1>1, NatMin
  <2>2. CASE m = 0
    <3>1. SelectsUpTo([n \in 0..m |-> <<>>], s, I, m)
      BY <2>2 DEF SelectsUpTo
    <3> QED  BY <3>1
  <2>3. CASE m # 0
    <3>1. m \in Nat /\ m - 1 \in Nat /\ m - 1 \notin bad
      BY <2>1, <2>3
    <3>2. PICK f : SelectsUpTo(f, s, I, m - 1)
      BY <3>1
    <3>3. \A n \in 0..m - 1 : f[n] = IF n = 0 THEN <<>> ELSE IF n \in I THEN Append(f[n - 1], s[n]) ELSE f[n - 1]
      BY <3>2 DEF SelectsUpTo
    <3> DEFINE g == [n \in 0..m |-> IF n = m THEN IF n \in I THEN Append(f[n - 1], s[n]) ELSE f[n - 1] ELSE f[n]]
    <3>4. \A n \in 0..m : /\ n = m => n - 1 \in 0..m - 1 /\ n - 1 \in 0..m /\ n - 1 # m /\ n # 0
                          /\ n # m => n \in 0..m - 1
                          /\ n # m /\ n # 0 => n - 1 \in 0..m /\ n - 1 # m
      BY <3>1, <2>3
    <3>5. ASSUME NEW n \in 0..m PROVE g[n] = IF n = 0 THEN <<>> ELSE IF n \in I THEN Append(g[n - 1], s[n]) ELSE g[n - 1]
      <4>1. CASE n = m
        <5>1. g[n-1] = f[n-1]
          BY <3>4, <4>1
        <5> QED  BY <5>1, <4>1, <3>4
      <4>2. CASE n # m
        <5>1. n # 0 => g[n-1] = f[n-1]
          BY <3>4, <4>2
        <5>2. g[n] = f[n] /\ n \in 0..m - 1
          BY <3>4, <4>2
        <5> HIDE DEF g
        <5> QED  BY <5>1, <5>2, <3>3
      <4> QED  BY <4>1, <4>2
    <3>6. SelectsUpTo(g, s, I, m)
      <4>1. g = [n \in 0..m |-> g[n]]
        OBVIOUS
      <4> HIDE DEF g
      <4> QED  BY <4>1, <3>5 DEF SelectsUpTo
    <3> QED  BY <3>6
  <2> QED  BY <2>2, <2>3
<1> QED  BY <1>1 DEF SelectsUpTo, Selects

\* ... so the operator of the module computes it.
LEMMA SelectedBy ==
  ASSUME NEW s, Len(s) \in Nat, NEW I, NEW f, Selects(f, s, I)
  PROVE  Report!selected(s, I) = f[Len(s)]
<1> DEFINE upTo == CHOOSE upTo : Selects(upTo, s, I)
<1>1. Report!selected(s, I) = upTo[Len(s)]
  BY DEF Report!selected, Selects
<1>2. Selects(upTo, s, I)
  OBVIOUS
<1> HIDE DEF upTo
<1> QED  BY <1>1, <1>2, SelectsOnce

\* What is selected: as many elements as there are places, and no other.
LEMMA SelectedIs ==
  ASSUME NEW D, NEW s \in Seq(D), NEW I
  PROVE  /\ Report!selected(s, I) \in Seq({s[i] : i \in I \cap 1..Len(s)})
         /\ Len(Report!selected(s, I)) = Cardinality(I \cap 1..Len(s))
         /\ IsFiniteSet(I \cap 1..Len(s))
<1> DEFINE E == {s[i] : i \in I \cap 1..Len(s)}
<1>1. PICK f : Selects(f, s, I)
  BY SelectsExist
<1>2. Len(s) \in Nat /\ \A n \in 0..Len(s) : f[n] = IF n = 0 THEN <<>> ELSE IF n \in I THEN Append(f[n - 1], s[n]) ELSE f[n - 1]
  <2>1. \A n \in 0..Len(s) : f[n] = IF n = 0 THEN <<>> ELSE IF n \in I THEN Append(f[n - 1], s[n]) ELSE f[n - 1]
    <3> HIDE DEF E
    <3> QED  BY <1>1 DEF Selects
  <2> QED  BY <2>1
<1>3. \A n \in Nat : IsFiniteSet(I \cap 1..n)
  <2> TAKE n \in Nat
  <2>1. IsFiniteSet(1..n)
    BY FS_Interval
  <2> QED  BY <2>1, FS_Subset
<1> DEFINE Good(n) == f[n] \in Seq(E) /\ Len(f[n]) = Cardinality(I \cap 1..n)
           bad == {n \in 0..Len(s) : ~Good(n)}
<1>4. ASSUME bad # {} PROVE FALSE
  <2> HIDE DEF Good, E
  <2>1. PICK n \in bad : \A k \in bad : n <= k
    <3>1. bad \subseteq Nat
      OBVIOUS
    <3> HIDE DEF bad
    <3> QED  BY <3>1, <1>4, NatMin
  <2>2. n \in 0..Len(s) /\ ~Good(n)
    BY <2>1
  <2>3. CASE n = 0
    <3>1. f[n] = <<>> /\ I \cap 1..n = {}
      BY <2>2, <2>3, <1>2
    <3>2. Cardinality({}) = 0
      BY FS_EmptySet
    <3>3. <<>> \in Seq(E) /\ Len(<<>>) = 0
      OBVIOUS
    <3> QED  BY <3>1, <3>2, <3>3, <2>2 DEF Good
  <2>4. CASE n # 0
    <3>1. n - 1 \in 0..Len(s) /\ n - 1 \notin bad /\ n \in 1..Len(s) /\ n - 1 \in Nat
      <4>1. n \in 1..Len(s) /\ n - 1 \in 0..Len(s) /\ n - 1 \in Nat /\ ~(n <= n - 1)
        BY <1>2, <2>2, <2>4
      <4> HIDE DEF bad
      <4> QED  BY <4>1, <2>1
    <3> DEFINE e == f[n - 1]
    <3>2. e \in Seq(E) /\ Len(e) = Cardinality(I \cap 1..n - 1)
      BY <3>1 DEF Good
    <3>3. CASE n \in I
      <4>1. f[n] = Append(e, s[n]) /\ s[n] \in E
        BY <1>2, <2>2, <2>4, <3>1, <3>3 DEF E
      <4>2. I \cap 1..n = (I \cap 1..n - 1) \cup {n} /\ n \notin I \cap 1..n - 1
        BY <3>1, <3>3
      <4> DEFINE S == I \cap 1..n - 1
      <4>3. IsFiniteSet(S)
        BY <1>3, <3>1
      <4>4. Cardinality(S \cup {n}) = Cardinality(S) + 1
        <5> HIDE DEF S
        <5>1. n \notin S
          BY <4>2 DEF S
        <5> QED  BY <4>3, <5>1, FS_AddElement
      <4> HIDE DEF E, e
      <4>5. f[n] \in Seq(E) /\ Len(f[n]) = Len(e) + 1
        BY <3>2, <4>1
      <4> QED  BY <2>2, <3>2, <4>2, <4>4, <4>5 DEF Good
    <3>4. CASE n \notin I
      <4>1. f[n] = e
        BY <1>2, <2>2, <2>4, <3>4
      <4>2. I \cap 1..n = I \cap 1..n - 1
        BY <3>1, <3>4
      <4> HIDE DEF E, e
      <4> QED  BY <2>2, <3>2, <4>1, <4>2 DEF Good
    <3> QED  BY <3>3, <3>4
  <2> QED  BY <2>3, <2>4
<1>5. Report!selected(s, I) = f[Len(s)]
  BY <1>1, <1>2, SelectedBy
<1> HIDE DEF E
<1>7. f[Len(s)] \in Seq(E) /\ Len(f[Len(s)]) = Cardinality(I \cap 1..Len(s))
  <2> DEFINE k == Len(s)
  <2>1. k \in 0..Len(s) /\ k \notin bad
    <3>1. k \in 0..Len(s)
      BY <1>2
    <3> HIDE DEF bad, k
    <3> QED  BY <3>1, <1>4
  <2> HIDE DEF Good, k
  <2>2. Good(k)
    BY <2>1
  <2> QED  BY <2>2 DEF Good, k
<1> QED  BY <1>2, <1>3, <1>5, <1>7 DEF E

\* It only depends on the elements that are selected.
LEMMA SelectedSame ==
  ASSUME NEW s, NEW t, Len(s) \in Nat, Len(t) = Len(s), NEW I, \A i \in I \cap 1..Len(s) : s[i] = t[i]
  PROVE  Report!selected(s, I) = Report!selected(t, I)
<1>1. PICK f : Selects(f, s, I)
  BY SelectsExist
<1>2. [n \in 0..Len(s) |-> IF n = 0 THEN <<>> ELSE IF n \in I THEN Append(f[n - 1], s[n]) ELSE f[n - 1]]
        = [n \in 0..Len(t) |-> IF n = 0 THEN <<>> ELSE IF n \in I THEN Append(f[n - 1], t[n]) ELSE f[n - 1]]
  OBVIOUS
<1>3. Selects(f, t, I)
  BY <1>1, <1>2 DEF Selects
<1> QED  BY <1>1, <1>3, SelectedBy

\* r is the elements of s after the first a, up to the place b.
Places(r, s, a, b) == r = [k \in 1..b - a |-> s[a + k]]

\* Sequences with the same elements are equal.
LEMMA SeqSame ==
  ASSUME NEW D, NEW s \in Seq(D), NEW t \in Seq(D), Len(s) = Len(t), \A i \in 1..Len(s) : s[i] = t[i]
  PROVE  s = t
  OBVIOUS

\* j is s followed by t, or by one element.
Joins(j, s, t) ==
  /\ Len(j) = Len(s) + Len(t)
  /\ \A i \in 1..Len(s) : j[i] = s[i]
  /\ \A i \in 1..Len(t) : j[Len(s) + i] = t[i]

Adds(j, s, x) == Len(j) = Len(s) + 1 /\ j[Len(s) + 1] = x /\ \A i \in 1..Len(s) : j[i] = s[i]

\* What a concatenation is ...
LEMMA SeqJoin ==
  ASSUME NEW D, NEW s \in Seq(D), NEW t \in Seq(D)
  PROVE  s \o t \in Seq(D) /\ Joins(s \o t, s, t)
  BY DEF Joins

\* ... and what appending gives, as predicates that need not be expanded.
LEMMA SeqAdd ==
  ASSUME NEW D, NEW s \in Seq(D), NEW x \in D
  PROVE  Append(s, x) \in Seq(D) /\ Adds(Append(s, x), s, x)
  BY DEF Adds

\* A sequence over a set is one over a larger set.
LEMMA SeqWider == ASSUME NEW A, NEW B, A \subseteq B, NEW s \in Seq(A) PROVE s \in Seq(B)
  OBVIOUS

\* Places that follow one another.
LEMMA SelectedRange ==
  ASSUME NEW D, NEW s \in Seq(D), NEW a \in Nat, NEW b \in Nat, a <= b, b <= Len(s), NEW I,
         \A i \in 1..Len(s) : i \in I <=> a < i /\ i <= b
  PROVE  Places(Report!selected(s, I), s, a, b)
<1> DEFINE piece(n) == [k \in 1..n |-> s[a + k]]
           f == [n \in 0..Len(s) |-> IF n <= a THEN <<>> ELSE IF n <= b THEN piece(n - a) ELSE piece(b - a)]
<1>1. Len(s) \in Nat
  OBVIOUS
<1>2. \A n \in 0..b - a : piece(n) \in Seq(D) /\ Len(piece(n)) = n
  BY <1>1
<1>3. ASSUME NEW n \in 1..b - a PROVE Append(piece(n - 1), s[a + n]) = piece(n)
  <2> DEFINE p == piece(n - 1)
             r == piece(n)
             x == s[a + n]
  <2>1. n - 1 \in 0..b - a /\ n \in 0..b - a /\ x \in D
    BY <1>1
  <2>2. p \in Seq(D) /\ Len(p) = n - 1 /\ r \in Seq(D) /\ Len(r) = n
    <3> HIDE DEF piece
    <3> QED  BY <1>2, <2>1
  <2>3. r[n] = x /\ \A k \in 1..n - 1 : p[k] = r[k]
    BY <2>1
  <2> HIDE DEF p, r, x
  <2> DEFINE t == Append(p, x)
  <2>4. t \in Seq(D) /\ Len(t) = n /\ \A k \in 1..n : t[k] = r[k]
    BY <2>1, <2>2, <2>3
  <2> HIDE DEF t
  <2>5. t = r
    BY <2>2, <2>4
  <2> QED  BY <2>5 DEF t, p, r, x
<1>4. piece(0) = <<>>
  OBVIOUS
<1>5. Selects(f, s, I)
  <2> SUFFICES ASSUME NEW n \in 0..Len(s)
               PROVE  f[n] = IF n = 0 THEN <<>> ELSE IF n \in I THEN Append(f[n - 1], s[n]) ELSE f[n - 1]
    BY DEF Selects
  <2>1. CASE n = 0
    BY <2>1
  <2>2. CASE n # 0
    <3>1. n \in 1..Len(s) /\ n - 1 \in 0..Len(s)
      BY <2>2
    <3> HIDE DEF piece
    <3>2. CASE n <= a
      <4>1. n \notin I /\ n - 1 <= a
        BY <3>1, <3>2
      <4> QED  BY <2>2, <3>1, <3>2, <4>1
    <3>3. CASE a < n /\ n <= b
      <4>1. /\ n \in I /\ n - a \in 1..b - a /\ a + (n - a) = n /\ (n - 1 <= a <=> n - a = 1) /\ (n - 1) - a = (n - a) - 1
            /\ n - 1 <= b /\ ~(n <= a)
        BY <3>1, <3>3
      <4>2. Append(piece((n - a) - 1), s[n]) = piece(n - a)
        BY <4>1, <1>3
      <4>3. f[n - 1] = piece((n - a) - 1)
        <5>1. n - a = 1 => (n - a) - 1 = 0
          OBVIOUS
        <5> QED  BY <3>1, <4>1, <5>1, <1>4
      <4>4. f[n] = piece(n - a)
        BY <3>1, <3>3, <4>1
      <4> HIDE DEF f
      <4> QED  BY <2>2, <4>1, <4>2, <4>3, <4>4
    <3>4. CASE b < n
      <4>1. n \notin I /\ ~(n <= a) /\ ~(n <= b)
        BY <3>1, <3>4
      <4>2. f[n] = piece(b - a)
        BY <3>1, <4>1
      <4>3. f[n - 1] = piece(b - a)
        <5>1. CASE n - 1 <= a
          <6>1. b - a = 0
            BY <5>1, <3>4, <3>1
          <6> QED  BY <6>1, <5>1, <3>1, <1>4
        <5>2. CASE ~(n - 1 <= a)
          <6>1. (n - 1 <= b) => (n - 1) - a = b - a
            BY <3>1, <3>4
          <6> QED  BY <6>1, <5>2, <3>1
        <5> QED  BY <5>1, <5>2
      <4> HIDE DEF f
      <4> QED  BY <2>2, <4>1, <4>2, <4>3
    <3> QED  BY <3>1, <3>2, <3>3, <3>4
  <2> QED  BY <2>1, <2>2
<1>6. Report!selected(s, I) = f[Len(s)]
  <2> HIDE DEF f
  <2> QED  BY <1>1, <1>5, SelectedBy
<1>7. f[Len(s)] = piece(b - a)
  <2>1. CASE Len(s) <= a
    <3>1. b - a = 0
      BY <2>1, <1>1
    <3> HIDE DEF piece
    <3> QED  BY <3>1, <2>1, <1>1, <1>4
  <2>2. CASE ~(Len(s) <= a)
    <3>1. Len(s) <= b => Len(s) - a = b - a
      BY <1>1
    <3> HIDE DEF piece
    <3> QED  BY <3>1, <2>2, <1>1
  <2> QED  BY <2>1, <2>2
<1> QED  BY <1>6, <1>7 DEF Places

\* f joins the first m sequences of q.
FlattensUpTo(f, q, m) == f = [i \in 1..m |-> IF i = 1 THEN q[i] ELSE f[i - 1] \o q[i]]
Flattens(f, q) == f = [i \in 1..Len(q) |-> IF i = 1 THEN q[i] ELSE f[i - 1] \o q[i]]

\* The concatenation of many sequences is determined ...
LEMMA FlattensOnce ==
  ASSUME NEW q, Len(q) \in Nat, NEW f, NEW g, Flattens(f, q), Flattens(g, q)
  PROVE  f = g
<1> DEFINE bad == {n \in 1 .. Len(q) : f[n] # g[n]}
<1>1. /\ f = [n \in 1 .. Len(q) |-> f[n]] /\ g = [n \in 1 .. Len(q) |-> g[n]]
      /\ \A n \in 1 .. Len(q) :
           /\ f[n] = IF n = 1 THEN q[n] ELSE f[n - 1] \o q[n]
           /\ g[n] = IF n = 1 THEN q[n] ELSE g[n - 1] \o q[n]
  BY DEF Flattens
<1>2. CASE bad # {}
  <2>1. PICK n \in bad : \A k \in bad : n <= k
    <3>1. bad \subseteq Nat
      OBVIOUS
    <3> HIDE DEF bad
    <3> QED  BY <3>1, <1>2, NatMin
  <2>2. n \in 1..Len(q) /\ f[n] # g[n] /\ (n # 1 => n - 1 \in 1..Len(q) /\ n - 1 \notin bad)
    BY <2>1
  <2>3. n # 1 => f[n-1] = g[n-1]
    BY <2>2
  <2> HIDE DEF bad
  <2>4. CASE n = 1
    <3>1. f[n] = q[n] /\ g[n] = q[n]
      BY <1>1, <2>2, <2>4
    <3> QED  BY <3>1, <2>2
  <2>5. CASE n # 1
    <3>1. f[n] = f[n - 1] \o q[n] /\ g[n] = g[n - 1] \o q[n]
      BY <1>1, <2>2, <2>5
    <3>2. f[n - 1] = g[n - 1]
      BY <2>3, <2>5
    <3> QED  BY <3>1, <3>2, <2>2
  <2> QED  BY <2>4, <2>5
<1>3. CASE bad = {}
  <2>1. \A n \in 1 .. Len(q) : f[n] = g[n]
    BY <1>3
  <2> HIDE DEF bad
  <2>2. [n \in 1 .. Len(q) |-> f[n]] = [n \in 1 .. Len(q) |-> g[n]]
    BY <2>1
  <2> QED  BY <1>1, <2>2
<1> QED  BY <1>2, <1>3

\* ... and exists ...
LEMMA FlattensExist == ASSUME NEW q, Len(q) \in Nat PROVE \E f : Flattens(f, q)
<1> DEFINE bad == {m \in Nat : ~\E f : FlattensUpTo(f, q, m)}
<1>1. ASSUME bad # {} PROVE FALSE
  <2>1. PICK m \in bad : \A k \in bad : m <= k
    <3>1. bad \subseteq Nat
      OBVIOUS
    <3> HIDE DEF bad
    <3> QED  BY <3>1, <1>1, NatMin
  <2>2. CASE m = 0
    <3>1. FlattensUpTo([i \in 1..m |-> <<>>], q, m)
      BY <2>2 DEF FlattensUpTo
    <3> QED  BY <3>1
  <2>3. CASE m # 0
    <3>1. m \in Nat /\ m - 1 \in Nat /\ m - 1 \notin bad
      BY <2>1, <2>3
    <3>2. PICK f : FlattensUpTo(f, q, m - 1)
      BY <3>1
    <3>3. \A n \in 1..m - 1 : f[n] = IF n = 1 THEN q[n] ELSE f[n - 1] \o q[n]
      BY <3>2 DEF FlattensUpTo
    <3> DEFINE g == [n \in 1..m |-> IF n = m THEN IF n = 1 THEN q[n] ELSE f[n - 1] \o q[n] ELSE f[n]]
    <3>4. \A n \in 1..m : /\ n = m /\ n # 1 => n - 1 \in 1..m - 1 /\ n - 1 \in 1..m /\ n - 1 # m
                          /\ n # m => n \in 1..m - 1
                          /\ n # m /\ n # 1 => n - 1 \in 1..m /\ n - 1 # m
      BY <3>1, <2>3
    <3>5. ASSUME NEW n \in 1..m PROVE g[n] = IF n = 1 THEN q[n] ELSE g[n - 1] \o q[n]
      <4>1. CASE n = m
        <5>1. n # 1 => g[n-1] = f[n-1]
          BY <3>4, <4>1
        <5> QED  BY <5>1, <4>1, <3>4
      <4>2. CASE n # m
        <5>1. n # 1 => g[n-1] = f[n-1]
          BY <3>4, <4>2
        <5>2. g[n] = f[n] /\ n \in 1..m - 1
          BY <3>4, <4>2
        <5> HIDE DEF g
        <5> QED  BY <5>1, <5>2, <3>3
      <4> QED  BY <4>1, <4>2
    <3>6. FlattensUpTo(g, q, m)
      <4>1. g = [n \in 1..m |-> g[n]]
        OBVIOUS
      <4> HIDE DEF g
      <4> QED  BY <4>1, <3>5 DEF FlattensUpTo
    <3> QED  BY <3>6
  <2> QED  BY <2>2, <2>3
<1> QED  BY <1>1 DEF FlattensUpTo, Flattens

\* ... so FlattenSeq computes it ...
LEMMA FlattenedBy ==
  ASSUME NEW q, Len(q) \in Nat, Len(q) # 0, NEW f, Flattens(f, q)
  PROVE  Report!FlattenSeq(q) = f[Len(q)]
<1> DEFINE flatten == CHOOSE flatten : Flattens(flatten, q)
<1>1. Report!FlattenSeq(q) = flatten[Len(q)]
  BY DEF Report!FlattenSeq, Flattens
<1>2. Flattens(flatten, q)
  OBVIOUS
<1> HIDE DEF flatten
<1> QED  BY <1>1, <1>2, FlattensOnce

\* ... and one more sequence is joined at the end.
LEMMA FlattenAppend ==
  ASSUME NEW D, NEW q \in Seq(Seq(D)), NEW x \in Seq(D), Report!FlattenSeq(q) \in Seq(D)
  PROVE  Report!FlattenSeq(Append(q, x)) = Report!FlattenSeq(q) \o x
<1> DEFINE n == Len(q)
           r == Append(q, x)
<1>1. n \in Nat /\ Len(r) = n + 1 /\ Len(r) # 0 /\ r[n + 1] = x /\ \A i \in 1..n : r[i] = q[i]
  OBVIOUS
<1> HIDE DEF r
<1>2. PICK f : Flattens(f, q)
  BY <1>1, FlattensExist
<1>3. \A i \in 1..n : f[i] = IF i = 1 THEN q[i] ELSE f[i - 1] \o q[i]
  BY <1>2 DEF Flattens
<1> DEFINE g == [i \in 1..n + 1 |-> IF i <= n THEN f[i] ELSE IF n = 0 THEN x ELSE f[n] \o x]
<1>4. Flattens(g, r)
  <2> SUFFICES \A i \in 1..n + 1 : g[i] = IF i = 1 THEN r[i] ELSE g[i - 1] \o r[i]
    <3>1. g = [i \in 1..n + 1 |-> g[i]]
      OBVIOUS
    <3>2. Len(r) = n + 1
      BY <1>1
    <3> HIDE DEF g
    <3> QED  BY <3>1, <3>2 DEF Flattens
  <2> TAKE i \in 1..n + 1
  <2>1. CASE i <= n
    <3>1. i \in 1..n /\ r[i] = q[i] /\ (i # 1 => i - 1 \in 1..n + 1 /\ i - 1 <= n)
      BY <2>1, <1>1
    <3>2. g[i] = f[i] /\ (i # 1 => g[i - 1] = f[i - 1])
      BY <3>1, <2>1
    <3> HIDE DEF g, n
    <3> QED  BY <3>1, <3>2, <1>3
  <2>2. CASE i = n + 1
    <3>1. r[i] = x /\ ~(i <= n) /\ (i = 1 <=> n = 0) /\ (i # 1 => i - 1 = n /\ n \in 1..n + 1 /\ n <= n)
      BY <2>2, <1>1
    <3>2. g[i] = (IF n = 0 THEN x ELSE f[n] \o x) /\ (i # 1 => g[i - 1] = f[n])
      BY <3>1
    <3> HIDE DEF g, n
    <3>3. i # 1 => g[i - 1] = f[n]
      BY <3>2
    <3>4. CASE i = 1
      BY <3>1, <3>2, <3>4
    <3>5. CASE i # 1
      <4>1. n # 0 /\ g[i] = f[n] \o x
        BY <3>1, <3>2, <3>5
      <4> QED  BY <4>1, <3>1, <3>3, <3>5
    <3> QED  BY <3>4, <3>5
  <2> QED  BY <2>1, <2>2, <1>1
<1>5. Report!FlattenSeq(r) = g[Len(r)]
  <2> HIDE DEF g
  <2> QED  BY <1>1, <1>4, FlattenedBy
<1>6. g[Len(r)] = IF n = 0 THEN x ELSE f[n] \o x
  BY <1>1
<1>7. CASE n = 0
  <2>1. Report!FlattenSeq(q) = <<>>
    BY <1>7 DEF Report!FlattenSeq
  <2> QED  BY <2>1, <1>5, <1>6, <1>7 DEF r
<1>8. CASE n # 0
  <2>1. Report!FlattenSeq(q) = f[n]
    BY <1>1, <1>2, <1>8, FlattenedBy
  <2> QED  BY <2>1, <1>5, <1>6, <1>8 DEF r
<1> QED  BY <1>7, <1>8

-----------------------------------------------------------------------------
(***************************************************************************)
(* The sentences of a position.                                            *)
(***************************************************************************)
TalkerIds == {"GN", "GP", "GL", "GA", "PQ"}
GsaRecords == [id : {"GSA"}, talker : TalkerIds, systemId : 0..5, fixType : 1..3, svs : Seq(Nat)]

\* The five constellations.
LEMMA TypesAre == Report!Types = {"GPS", "GLONASS", "GALILEO", "QZSS", "BEIDOU"}
<1> DEFINE c == Report!Constellations
<1>1. c = <<"GPS", "GLONASS", "GALILEO", "QZSS", "BEIDOU">>
  BY DEF Report!Constellations
<1>2. DOMAIN c = 1..5 /\ c[1] = "GPS" /\ c[2] = "GLONASS" /\ c[3] = "GALILEO" /\ c[4] = "QZSS" /\ c[5] = "BEIDOU"
  BY <1>1
<1>3. 1..5 = {1, 2, 3, 4, 5}
  OBVIOUS
<1>4. Report!Types = {c[i] : i \in DOMAIN c}
  BY DEF Report!Types, Report!Range
<1> HIDE DEF c
<1> QED  BY <1>2, <1>3, <1>4

MetaOf(m, used, count, t, combine) ==
  /\ m.svType = t /\ m.talker \in TalkerIds /\ m.mask = used[t] /\ m.svCount = count[t]
  /\ m.svIdOffset = (IF t = "GLONASS" THEN 64 ELSE 0)
  /\ m.systemId = [GPS |-> 1, GLONASS |-> 2, GALILEO |-> 3, BEIDOU |-> 4, QZSS |-> 5][t]
  /\ m.systemId \in 1..5
  /\ ~combine => m.talker = [GPS |-> "GP", GLONASS |-> "GL", GALILEO |-> "GA", QZSS |-> "PQ", BEIDOU |-> "PQ"][t]

\* A constellation's talker, mask, count and offset, as loc_nmea_sv_meta_init sets them.
LEMMA MetaIs ==
  ASSUME NEW used, NEW count, NEW t \in Report!Types, NEW combine \in BOOLEAN
  PROVE  MetaOf(Report!sv_meta_init(used, count, t, combine), used, count, t, combine)
  BY TypesAre DEF Report!sv_meta_init, TalkerIds, Report!GLONASS_SV_ID_OFFSET, MetaOf

\* The masks that are read, and the satellites of a position that they stand for.
LEMMA MasksAre ==
  ASSUME NEW p \in Positions, NEW t \in Report!Types
  PROVE  /\ Report!usedMasks(p)[t] \subseteq 1..32 /\ IsFiniteSet(Report!usedMasks(p)[t])
         /\ Cardinality(Report!usedMasks(p)[t]) \in Nat
         /\ t \in {"GPS", "GLONASS", "GALILEO"} => Report!usedMasks(p)[t] \subseteq p.used[t]
<1> DEFINE used == Report!usedMasks(p)
           held == p.used
           source == [x \in Report!Types |-> CASE x = "QZSS" -> "BEIDOU" [] x = "BEIDOU" -> "QZSS"
                                               [] x \notin {"QZSS", "BEIDOU"} -> x]
           u == source[t]
<1>1. held \in [Report!Types -> SUBSET (1..64)]
  BY AdapterAssumption DEF Report!ReportAssumption
<1>2. u \in Report!Types /\ (t \in {"GPS", "GLONASS", "GALILEO"} => u = t)
  BY TypesAre
<1>3. used[t] = IF p.hasUsed THEN {i \in held[u] : i <= 32} ELSE {}
  BY DEF Report!usedMasks
<1>4. used[t] \subseteq 1..32 /\ (t \in {"GPS", "GLONASS", "GALILEO"} => used[t] \subseteq held[t])
  <2> HIDE DEF used, held, u
  <2>1. held[u] \subseteq 1..64
    BY <1>1, <1>2
  <2>2. \A i \in 1..64 : i <= 32 => i \in 1..32
    OBVIOUS
  <2> QED  BY <1>2, <1>3, <2>1, <2>2
<1> HIDE DEF used
<1>5. IsFiniteSet(used[t]) /\ Cardinality(used[t]) \in Nat
  <2> DEFINE n == 32
  <2>1. n \in Nat /\ used[t] \subseteq 1..n
    BY <1>4
  <2> HIDE DEF n
  <2>2. IsFiniteSet(1..n)
    BY <2>1, Sizes
  <2> QED  BY <2>1, <2>2, FS_Subset, FS_CardinalityType
<1> QED  BY <1>4, <1>5 DEF used

\* One GSA sentence, with the satellites of its mask and at most twelve, or none without satellites.
GsaOf(g, mask, t) ==
  \/ g = <<>> /\ Cardinality(mask) = 0
  \/ \E x \in GsaRecords :
       /\ g = <<x>>
       /\ x.systemId = [GPS |-> 1, GLONASS |-> 2, GALILEO |-> 3, BEIDOU |-> 4, QZSS |-> 5][t]
       /\ Len(x.svs) < 12 => Len(x.svs) = Cardinality(mask)
       /\ \A k \in 1..Len(x.svs) : \E n \in mask : x.svs[k] = n + (IF t = "GLONASS" THEN 64 ELSE 0)

\* The GSA sentence of a constellation lists the satellites of its mask, and says whose they are.
LEMMA GsaIs ==
  ASSUME NEW p \in Positions, NEW t \in Report!Types, NEW combine \in BOOLEAN, NEW count, NEW used, used = Report!usedMasks(p)
  PROVE  GsaOf(Report!generate_GSA(Report!sv_meta_init(used, count, t, combine)), used[t], t)
<1> DEFINE m == Report!sv_meta_init(used, count, t, combine)
           mask == used[t]
           off == IF t = "GLONASS" THEN 64 ELSE 0
<1>1. /\ m.svType = t /\ m.talker \in TalkerIds /\ m.mask = mask /\ m.svIdOffset = off
      /\ m.systemId = [GPS |-> 1, GLONASS |-> 2, GALILEO |-> 3, BEIDOU |-> 4, QZSS |-> 5][t]
      /\ m.systemId \in 1..5
  <2>1. MetaOf(m, used, count, t, combine)
    BY MetaIs
  <2> HIDE DEF m
  <2> QED  BY <2>1 DEF MetaOf
<1>2. mask \subseteq 1..32 /\ Cardinality(mask) \in Nat
  <2>1. /\ Report!usedMasks(p)[t] \subseteq 1..32 /\ Cardinality(Report!usedMasks(p)[t]) \in Nat
    BY MasksAre
  <2> QED  BY <2>1
<1>off. off \in Nat
  OBVIOUS
<1> HIDE DEF m, mask, off
<1> DEFINE id == [i \in 1..32 |-> i]
           D == 1..32
           places == mask \cap 1..Len(id)
           bits == Report!selected(id, mask)
           c == Len(bits)
<1>id. id \in Seq(D) /\ Len(id) = 32 /\ \A i \in D : id[i] = i
  OBVIOUS
<1>3. bits \in Seq(mask) /\ c = Cardinality(mask) /\ c \in Nat
  <2> HIDE DEF id
  <2>1. places = mask
    BY <1>2, <1>id
  <2>2. {id[i] : i \in places} = mask
    <3>1. \A i \in mask : id[i] = i
      BY <1>2, <1>id
    <3> HIDE DEF places
    <3> QED  BY <2>1, <3>1
  <2>3. bits \in Seq({id[i] : i \in places}) /\ c = Cardinality(places)
    <3> HIDE DEF D
    <3> QED  BY <1>id, SelectedIs
  <2> HIDE DEF bits, places
  <2>4. Len(bits) = Cardinality(mask) /\ bits \in Seq(mask)
    BY <2>1, <2>2, <2>3
  <2> QED  BY <2>4, <1>2
<1> HIDE DEF id, D
<1> DEFINE list == [i \in DOMAIN bits |-> bits[i] + off]
           top == Report!Min({12, c})
           svs == SubSeq(list, 1, top)
           x == [id |-> "GSA", talker |-> m.talker, systemId |-> m.systemId,
                 fixType |-> IF c = 0 THEN 1 ELSE IF c <= 3 THEN 2 ELSE 3, svs |-> svs]
<1>4. Report!generate_GSA(m) = IF c = 0 /\ t # "GPS" THEN <<>> ELSE <<x>>
  BY <1>1 DEF Report!generate_GSA, id
<1> HIDE DEF bits
<1>5. /\ list \in Seq(Nat) /\ Len(list) = c
      /\ \A i \in 1..c : list[i] = bits[i] + off /\ bits[i] \in mask
  <2>1. DOMAIN bits = 1..c /\ \A i \in 1..c : bits[i] \in mask
    BY <1>3
  <2> HIDE DEF c
  <2>2. \A i \in 1..c : bits[i] \in mask /\ bits[i] \in Nat
    <3>1. \A n \in mask : n \in Nat
      BY <1>2
    <3> QED  BY <2>1, <3>1
  <2> QED  BY <2>1, <2>2, <1>3, <1>off
<1>6. top \in 0..c /\ top <= 12 /\ (top < 12 => top = c)
  <2>0. c \in Nat
    BY <1>3
  <2> HIDE DEF c
  <2>1. top = CHOOSE y \in {12, c} : \A z \in {12, c} : y <= z
    BY ReportMin
  <2>2. \E y \in {12, c} : \A z \in {12, c} : y <= z
    BY <2>0
  <2> HIDE DEF top
  <2> QED  BY <2>1, <2>2, <2>0
<1> HIDE DEF list, top
<1>7. svs \in Seq(Nat) /\ Len(svs) = top /\ \A k \in 1..top : svs[k] = list[k] /\ k \in 1..c
  <2> HIDE DEF c
  <2> QED  BY <1>5, <1>6, <1>3
<1> HIDE DEF svs
<1>c. c \in Nat /\ c = Cardinality(mask)
  BY <1>3
<1> HIDE DEF c
<1>8. /\ x \in GsaRecords /\ x.systemId = m.systemId /\ x.svs = svs
  BY <1>1, <1>7, <1>c DEF GsaRecords
<1>9. CASE c = 0 /\ t # "GPS"
  <2>1. Report!generate_GSA(m) = <<>> /\ Cardinality(mask) = 0
    BY <1>9, <1>c, <1>4
  <2> QED  BY <2>1 DEF GsaOf, m, mask
<1>10. CASE ~(c = 0 /\ t # "GPS")
  <2> HIDE DEF x
  <2>1. Report!generate_GSA(m) = <<x>>
    BY <1>4, <1>10
  <2>2. Len(x.svs) < 12 => Len(x.svs) = Cardinality(mask)
    BY <1>c, <1>6, <1>7, <1>8
  <2>3. \A k \in 1..Len(x.svs) : \E n \in mask : x.svs[k] = n + off
    BY <1>5, <1>7, <1>8
  <2>4. GsaOf(Report!generate_GSA(m), mask, t)
    BY <1>1, <1>8, <2>1, <2>2, <2>3 DEF GsaOf, off
  <2> QED  BY <2>4 DEF m, mask
<1> QED  BY <1>9, <1>10

\* What the sentences gs list, one after the other.
Listing(gs) == Report!FlattenSeq([i \in DOMAIN gs |-> gs[i].svs])

\* What several GSA sentences list grows at the end with each.
LEMMA ListingAppend ==
  ASSUME NEW gs \in Seq(GsaRecords), NEW x \in GsaRecords, Listing(gs) \in Seq(Nat)
  PROVE  Listing(Append(gs, x)) = Listing(gs) \o x.svs /\ Listing(Append(gs, x)) \in Seq(Nat)
<1> DEFINE q == [i \in DOMAIN gs |-> gs[i].svs]
           n == Len(gs)
           a == Append(gs, x)
           r == [i \in DOMAIN a |-> a[i].svs]
           y == x.svs
<1>1. y \in Seq(Nat) /\ \A z \in GsaRecords : z.svs \in Seq(Nat)
  BY DEF GsaRecords
<1>2. n \in Nat /\ DOMAIN gs = 1..n /\ \A i \in 1..n : gs[i] \in GsaRecords
  OBVIOUS
<1>3. DOMAIN a = 1..n + 1 /\ Len(a) = n + 1 /\ a[n + 1] = x /\ \A i \in 1..n : a[i] = gs[i]
  OBVIOUS
<1>4. q \in Seq(Seq(Nat)) /\ Len(q) = n /\ \A i \in 1..n : q[i] = gs[i].svs
  <2> HIDE DEF n
  <2>1. \A i \in 1..n : q[i] = gs[i].svs /\ gs[i].svs \in Seq(Nat)
    BY <1>1, <1>2
  <2> QED  BY <1>2, <2>1
<1> HIDE DEF n, a, y, q
<1>5. r = Append(q, y)
  <2> DEFINE t == Append(q, y)
  <2>1. t \in Seq(Seq(Nat)) /\ Len(t) = n + 1 /\ t[n + 1] = y /\ \A i \in 1..n : t[i] = q[i]
    BY <1>1, <1>2, <1>4
  <2> HIDE DEF t
  <2>2. \A i \in 1..n + 1 : r[i] = t[i]
    <3> SUFFICES ASSUME NEW i \in 1..n + 1 PROVE a[i].svs = t[i]
      BY <1>3
    <3>1. CASE i \in 1..n
      BY <3>1, <2>1, <1>3, <1>4
    <3>2. CASE i = n + 1
      BY <3>2, <2>1, <1>3 DEF y
    <3> QED  BY <3>1, <3>2, <1>2
  <2>3. DOMAIN r = 1..n + 1 /\ DOMAIN t = 1..n + 1 /\ t = [i \in 1..n + 1 |-> t[i]] /\ r = [i \in 1..n + 1 |-> r[i]]
    BY <1>3, <2>1
  <2> HIDE DEF r
  <2>4. r = t
    BY <2>2, <2>3
  <2> QED  BY <2>4 DEF t
<1> DEFINE l == Report!FlattenSeq(q)
<1>6. l = Listing(gs) /\ Listing(a) = Report!FlattenSeq(r)
  BY DEF Listing, q
<1>7. l \in Seq(Nat)
  BY <1>6
<1> HIDE DEF r
<1>8. Report!FlattenSeq(Append(q, y)) = l \o y
  BY <1>1, <1>4, <1>7, FlattenAppend
<1> HIDE DEF l
<1>9. Listing(a) = l \o y /\ l \o y \in Seq(Nat)
  BY <1>1, <1>5, <1>6, <1>7, <1>8
<1> QED  BY <1>6, <1>9 DEF a, y

\* A sentence of GPS, GLONASS or Galileo lists satellites the position p uses of that system.
Owned(x, p) ==
  x.systemId \in 1..3 =>
    \A k \in 1..Len(x.svs) : \E n \in p.used[Report!Constellations[x.systemId]] :
      x.svs[k] = n + (IF x.systemId = 2 THEN 64 ELSE 0)

\* The sentences gs list n satellites as long as none is full.
Sums(gs, n, p) ==
  /\ gs \in Seq(GsaRecords) /\ Listing(gs) \in Seq(Nat)
  /\ (\A i \in 1..Len(gs) : Len(gs[i].svs) < 12) => Len(Listing(gs)) = n
  /\ \A i \in 1..Len(gs) : Owned(gs[i], p)

\* A GSA sentence lists satellites of its own constellation.
LEMMA OwnedGsa ==
  ASSUME NEW p \in Positions, NEW t \in Report!Types, NEW mask, mask = Report!usedMasks(p)[t], NEW x \in GsaRecords,
         x.systemId = [GPS |-> 1, GLONASS |-> 2, GALILEO |-> 3, BEIDOU |-> 4, QZSS |-> 5][t],
         \A k \in 1..Len(x.svs) : \E n \in mask : x.svs[k] = n + (IF t = "GLONASS" THEN 64 ELSE 0)
  PROVE  Owned(x, p)
<1> SUFFICES ASSUME x.systemId \in 1..3, NEW k \in 1..Len(x.svs)
             PROVE  \E n \in p.used[Report!Constellations[x.systemId]] : x.svs[k] = n + (IF x.systemId = 2 THEN 64 ELSE 0)
  BY DEF Owned
<1> DEFINE s == x.systemId
           c == Report!Constellations
<1>1. /\ c[1] = "GPS" /\ c[2] = "GLONASS" /\ c[3] = "GALILEO"
  BY DEF Report!Constellations
<1>2. s \in 1..3 /\ s = [GPS |-> 1, GLONASS |-> 2, GALILEO |-> 3, BEIDOU |-> 4, QZSS |-> 5][t]
  OBVIOUS
<1> HIDE DEF s, c
<1>3. t \in {"GPS", "GLONASS", "GALILEO"} /\ c[s] = t /\ (s = 2 <=> t = "GLONASS")
  BY <1>1, <1>2, TypesAre
<1>4. mask \subseteq p.used[t]
  BY <1>3, MasksAre
<1>5. PICK n \in mask : x.svs[k] = n + (IF t = "GLONASS" THEN 64 ELSE 0)
  OBVIOUS
<1>6. n \in p.used[c[s]] /\ x.svs[k] = n + (IF s = 2 THEN 64 ELSE 0)
  BY <1>3, <1>4, <1>5
<1> QED  BY <1>6 DEF s, c

\* The GSA sentence of one more constellation adds to the count what it lists.
LEMMA GsaJoined ==
  ASSUME NEW p \in Positions, NEW t \in Report!Types, NEW mask, mask = Report!usedMasks(p)[t],
         NEW g, GsaOf(g, mask, t), NEW gs, NEW n \in Nat, Sums(gs, n, p), NEW m, m = n + Cardinality(mask)
  PROVE  Sums(gs \o g, m, p) /\ m \in Nat
<1>1. Cardinality(mask) \in Nat
  BY MasksAre
<1>2. gs \in Seq(GsaRecords) /\ Listing(gs) \in Seq(Nat)
  BY DEF Sums
<1>3. CASE g = <<>> /\ Cardinality(mask) = 0
  <2>1. gs \o g = gs /\ m = n
    BY <1>2, <1>3
  <2> QED  BY <2>1
<1>4. ASSUME NEW x \in GsaRecords, g = <<x>>,
             x.systemId = [GPS |-> 1, GLONASS |-> 2, GALILEO |-> 3, BEIDOU |-> 4, QZSS |-> 5][t],
             Len(x.svs) < 12 => Len(x.svs) = Cardinality(mask),
             \A k \in 1..Len(x.svs) : \E i \in mask : x.svs[k] = i + (IF t = "GLONASS" THEN 64 ELSE 0)
      PROVE  Sums(gs \o g, m, p)
  <2>1. gs \o g = Append(gs, x)
    BY <1>2, <1>4
  <2> DEFINE a == Append(gs, x)
             l == Listing(a)
             o == Listing(gs)
             y == x.svs
             e == Len(gs)
  <2>2. l = o \o y /\ l \in Seq(Nat)
    BY <1>2, ListingAppend
  <2>3. a \in Seq(GsaRecords) /\ Len(a) = e + 1 /\ e \in Nat /\ a[e + 1] = x /\ \A i \in 1..e : a[i] = gs[i]
    BY <1>2
  <2>4. y \in Seq(Nat)
    BY DEF GsaRecords
  <2> HIDE DEF a, l
  <2>5. Owned(x, p)
    BY <1>4, OwnedGsa
  <2>6. \A i \in 1..e + 1 : i \in 1..e \/ i = e + 1
    BY <2>3
  <2>7. \A i \in 1..e + 1 : Owned(a[i], p)
    BY <2>3, <2>5, <2>6 DEF Sums
  <2>8. ASSUME \A i \in 1..Len(a) : Len(a[i].svs) < 12
        PROVE  Len(l) = m
    <3>1. Len(y) < 12
      BY <2>3, <2>8
    <3>2. \A i \in 1..e : Len(gs[i].svs) < 12
      BY <2>3, <2>8
    <3>3. Len(o) = n /\ Len(y) = Cardinality(mask)
      BY <3>1, <3>2, <1>4 DEF Sums
    <3> HIDE DEF o, y
    <3>4. o \in Seq(Nat)
      BY <1>2 DEF o
    <3>5. Len(o \o y) = Len(o) + Len(y)
      BY <3>4, <2>4
    <3> QED  BY <3>3, <3>5, <2>2
  <2>9. Sums(a, m, p)
    BY <2>2, <2>3, <2>7, <2>8 DEF Sums, l
  <2> QED  BY <2>1, <2>9 DEF a
<1>5. m \in Nat
  BY <1>1
<1> QED  BY <1>3, <1>4, <1>5 DEF GsaOf

\* No sentences yet, and sentences without a satellite.
LEMMA NothingListed ==
  ASSUME NEW p
  PROVE  Sums(<<>>, 0, p)
<1> DEFINE e == <<>>
<1>1. [i \in DOMAIN e |-> e[i].svs] = <<>>
  OBVIOUS
<1>2. Listing(e) = <<>>
  BY <1>1 DEF Listing, Report!FlattenSeq
<1>3. e \in Seq(GsaRecords) /\ Len(e) = 0
  OBVIOUS
<1> HIDE DEF e
<1>4. Listing(e) \in Seq(Nat) /\ Len(Listing(e)) = 0
  BY <1>2
<1>5. Sums(e, 0, p)
  BY <1>3, <1>4 DEF Sums
<1> QED  BY <1>5 DEF e

\* An empty GSA sentence adds nothing.
LEMMA EmptyJoined ==
  ASSUME NEW p, NEW gs, Sums(gs, 0, p), NEW x \in GsaRecords, x.systemId = 0, x.svs = <<>>
  PROVE  Sums(Append(gs, x), 0, p)
<1> DEFINE a == Append(gs, x)
           l == Listing(a)
           o == Listing(gs)
           e == Len(gs)
<1>1. gs \in Seq(GsaRecords) /\ o \in Seq(Nat)
  BY DEF Sums
<1>2. l = o \o x.svs /\ l \in Seq(Nat)
  BY <1>1, ListingAppend
<1>3. a \in Seq(GsaRecords) /\ Len(a) = e + 1 /\ e \in Nat /\ a[e + 1] = x /\ \A i \in 1..e : a[i] = gs[i]
  BY <1>1
<1> HIDE DEF a, l
<1>4. l = o
  <2> HIDE DEF o
  <2> QED  BY <1>1, <1>2
<1>5. \A i \in 1..e + 1 : i \in 1..e \/ i = e + 1
  BY <1>3
<1>6. Owned(x, p)
  BY DEF Owned
<1>7. \A i \in 1..e + 1 : Owned(a[i], p)
  BY <1>3, <1>5, <1>6 DEF Sums
<1>8. (\A i \in 1..Len(a) : Len(a[i].svs) < 12) => Len(l) = 0
  <2>1. (\A i \in 1..Len(a) : Len(a[i].svs) < 12) => \A i \in 1..e : Len(gs[i].svs) < 12
    BY <1>3
  <2> QED  BY <2>1, <1>4 DEF Sums
<1>9. Sums(a, 0, p)
  BY <1>2, <1>3, <1>7, <1>8 DEF Sums, l
<1> QED  BY <1>9 DEF a

\* The sentences of a position: GSA of the systems, then VTG, RMC and GGA, which counts what they list.
Closing(tail) ==
  /\ DOMAIN tail = 1..3 /\ Len(tail) = 3 /\ tail = <<tail[1], tail[2], tail[3]>>
  /\ tail[1].id = "VTG" /\ tail[2].id = "RMC" /\ tail[3].id = "GGA"

PositionSentences(N, p, talker) ==
  \E gs, tail, n :
    /\ n \in Nat /\ Sums(gs, n, p) /\ Closing(tail) /\ N = gs \o tail
    /\ tail[3].svUsedCount = Report!Min({12, n}) /\ tail[3].talker = talker

\* A report of a position ends with VTG, RMC and GGA.
LEMMA ClosingIs ==
  ASSUME NEW v, NEW r, NEW gg, v.id = "VTG", r.id = "RMC", gg.id = "GGA", NEW tail, tail = <<v, r, gg>>
  PROVE  Closing(tail) /\ tail[3] = gg
  BY DEF Closing

\* The sentences of a position.
LEMMA PositionIs ==
  ASSUME NEW p \in Positions
  PROVE  PositionSentences(Report!generate_pos(p, TRUE), p, Report!talkerOf(Report!usedMasks(p)))
<1> DEFINE used == Report!usedMasks(p)
           talker == Report!talkerOf(used)
           count == [x \in Report!Types |-> 0]
           G(t) == Report!generate_GSA(Report!sv_meta_init(used, count, t, t \notin {"QZSS", "BEIDOU"}))
           C(t) == Cardinality(used[t])
           v == Report!VTG(talker, p)
           r == Report!RMC(talker, p)
           gg == Report!GGA(talker, p, Report!countUsed(used))
<1>1. /\ "GPS" \in Report!Types /\ "GLONASS" \in Report!Types /\ "GALILEO" \in Report!Types
      /\ "QZSS" \in Report!Types /\ "BEIDOU" \in Report!Types
  BY TypesAre
<1>2. ASSUME NEW t \in Report!Types PROVE GsaOf(G(t), used[t], t) /\ C(t) \in Nat
  <2> DEFINE combine == t \notin {"QZSS", "BEIDOU"}
  <2>1. combine \in BOOLEAN
    OBVIOUS
  <2>2. C(t) \in Nat
    BY MasksAre
  <2> HIDE DEF combine, used, count
  <2>3. used = Report!usedMasks(p)
    BY DEF used
  <2>4. GsaOf(Report!generate_GSA(Report!sv_meta_init(used, count, t, combine)), used[t], t)
    BY <2>1, <2>3, GsaIs
  <2> QED  BY <2>2, <2>4 DEF combine
<1>3. Report!generate_pos(p, TRUE)
        = ((((G("GPS") \o G("GLONASS")) \o G("GALILEO")) \o G("QZSS")) \o G("BEIDOU")) \o <<v, r, gg>>
  BY DEF Report!generate_pos
<1>4. v.id = "VTG" /\ r.id = "RMC" /\ gg.id = "GGA" /\ gg.talker = talker
      /\ gg.svUsedCount = Report!Min({12, Report!countUsed(used)})
  BY DEF Report!VTG, Report!RMC, Report!GGA, Report!MAX_SATELLITES_IN_USE
<1>5. Report!countUsed(used) = (((C("GPS") + C("GLONASS")) + C("GALILEO")) + C("QZSS")) + C("BEIDOU")
  BY ReportCardinality DEF Report!countUsed
<1>6. /\ used["GPS"] = Report!usedMasks(p)["GPS"] /\ used["GLONASS"] = Report!usedMasks(p)["GLONASS"]
      /\ used["GALILEO"] = Report!usedMasks(p)["GALILEO"] /\ used["QZSS"] = Report!usedMasks(p)["QZSS"]
      /\ used["BEIDOU"] = Report!usedMasks(p)["BEIDOU"]
  OBVIOUS
<1> HIDE DEF used, talker, count, G, C, v, r, gg
<1>c. \A t \in Report!Types : C(t) \in Nat
  BY <1>2
<1>g. \A t \in Report!Types : GsaOf(G(t), used[t], t)
  BY <1>2
<1> DEFINE g1 == G("GPS")
           g2 == g1 \o G("GLONASS")
           g3 == g2 \o G("GALILEO")
           g4 == g3 \o G("QZSS")
           g5 == g4 \o G("BEIDOU")
           n1 == C("GPS")
           n2 == n1 + C("GLONASS")
           n3 == n2 + C("GALILEO")
           n4 == n3 + C("QZSS")
           n5 == n4 + C("BEIDOU")
<1>7. Sums(g1, n1, p) /\ n1 \in Nat
  <2> DEFINE e == <<>>
             o == 0
             g == G("GPS")
             m == o + Cardinality(used["GPS"])
  <2>1. Sums(e, o, p)
    BY NothingListed
  <2>2. GsaOf(g, used["GPS"], "GPS")
    BY <1>1, <1>g
  <2>3. o \in Nat
    OBVIOUS
  <2> HIDE DEF e, o, g
  <2>4. Sums(e \o g, m, p) /\ m \in Nat
    BY <1>1, <1>6, <2>1, <2>2, <2>3, GsaJoined
  <2>5. e \o g = g
    <3>1. g \in Seq(GsaRecords)
      <4>1. <<>> \in Seq(GsaRecords) /\ \A z \in GsaRecords : <<z>> \in Seq(GsaRecords)
        OBVIOUS
      <4>2. g = <<>> \/ \E z \in GsaRecords : g = <<z>>
        BY <2>2 DEF GsaOf
      <4> QED  BY <4>1, <4>2
    <3> QED  BY <3>1 DEF e
  <2>6. m = n1
    <3>1. n1 \in Nat
      BY <1>1, <1>c
    <3> QED  BY <3>1 DEF o, C
  <2> QED  BY <2>4, <2>5, <2>6 DEF g
<1>8. Sums(g2, n2, p) /\ n2 \in Nat
  <2> HIDE DEF g1, n1
  <2> QED  BY <1>1, <1>g, <1>6, <1>7, GsaJoined DEF C
<1>9. Sums(g3, n3, p) /\ n3 \in Nat
  <2> HIDE DEF g2, n2
  <2> QED  BY <1>1, <1>g, <1>6, <1>8, GsaJoined DEF C
<1>10. Sums(g4, n4, p) /\ n4 \in Nat
  <2> HIDE DEF g3, n3
  <2> QED  BY <1>1, <1>g, <1>6, <1>9, GsaJoined DEF C
<1>11. Sums(g5, n5, p) /\ n5 \in Nat
  <2> HIDE DEF g4, n4
  <2> QED  BY <1>1, <1>g, <1>6, <1>10, GsaJoined DEF C
<1> HIDE DEF g5
<1>12. Report!countUsed(used) = n5 /\ Report!generate_pos(p, TRUE) = g5 \o <<v, r, gg>>
  BY <1>3, <1>5 DEF g5
<1> HIDE DEF n5
<1>13. PositionSentences(Report!generate_pos(p, TRUE), p, talker)
  <2> DEFINE tail == <<v, r, gg>>
  <2>1. Closing(tail) /\ tail[3] = gg
    BY <1>4, ClosingIs
  <2>2. Report!generate_pos(p, TRUE) = g5 \o tail
    BY <1>12
  <2> HIDE DEF tail
  <2> QED  BY <1>4, <1>11, <1>12, <2>1, <2>2 DEF PositionSentences
<1> QED  BY <1>13 DEF talker, used

\* The sentences of no position.
LEMMA BlankIs ==
  ASSUME NEW p
  PROVE  PositionSentences(Report!blank, p, "GP")
<1> DEFINE x(talker) == [id |-> "GSA", talker |-> talker, systemId |-> 0, fixType |-> 1, svs |-> <<>>]
           v == [id |-> "VTG", talker |-> "GP", mode |-> "N"]
           r == [id |-> "RMC", talker |-> "GP", mode |-> "N"]
           gg == [id |-> "GGA", talker |-> "GP", quality |-> 0, svUsedCount |-> 0]
           e == <<>>
           a == x("GP")
           b == x("GN")
           c == x("PQ")
           n == 0
<1>1. v.id = "VTG" /\ r.id = "RMC" /\ gg.id = "GGA" /\ gg.talker = "GP" /\ gg.svUsedCount = 0
  OBVIOUS
<1>2. \A talker \in TalkerIds : x(talker) \in GsaRecords /\ x(talker).systemId = 0 /\ x(talker).svs = <<>>
  <2>1. <<>> \in Seq(Nat) /\ 0 \in 0..5 /\ 1 \in 1..3
    OBVIOUS
  <2> QED  BY <2>1 DEF GsaRecords
<1>3. "GP" \in TalkerIds /\ "GN" \in TalkerIds /\ "PQ" \in TalkerIds
  BY DEF TalkerIds
<1>4. Report!blank = <<a, b, c, v, r, gg>>
  BY DEF Report!blank
<1> HIDE DEF x, v, r, gg
<1>5. a \in GsaRecords /\ a.systemId = 0 /\ a.svs = <<>> /\ b \in GsaRecords /\ b.systemId = 0 /\ b.svs = <<>>
      /\ c \in GsaRecords /\ c.systemId = 0 /\ c.svs = <<>>
  BY <1>2, <1>3
<1> HIDE DEF a, b, c
<1>6. Sums(e, 0, p)
  BY NothingListed
<1> DEFINE g1 == Append(e, a)
           g2 == Append(g1, b)
           g3 == Append(g2, c)
<1>7. g3 \o <<v, r, gg>> = <<a, b, c, v, r, gg>>
  <2> DEFINE E == {a, b, c, v, r, gg}
             tail == <<v, r, gg>>
             all == <<a, b, c, v, r, gg>>
             t == g3 \o tail
  <2>1. all \in Seq(E) /\ Len(all) = 6 /\ all[1] = a /\ all[2] = b /\ all[3] = c /\ all[4] = v /\ all[5] = r /\ all[6] = gg
    OBVIOUS
  <2>2. tail \in Seq(E) /\ Len(tail) = 3 /\ tail[1] = v /\ tail[2] = r /\ tail[3] = gg
    OBVIOUS
  <2>3. e \in Seq(E) /\ Len(e) = 0 /\ a \in E /\ b \in E /\ c \in E
    OBVIOUS
  <2> HIDE DEF E, tail, all, e
  <2>4. g1 \in Seq(E) /\ Len(g1) = 1 /\ g1[1] = a
    <3>1. g1 \in Seq(E) /\ Adds(g1, e, a)
      BY <2>3, SeqAdd
    <3> HIDE DEF g1
    <3> QED  BY <3>1, <2>3 DEF Adds
  <2>5. g2 \in Seq(E) /\ Len(g2) = 2 /\ g2[1] = a /\ g2[2] = b
    <3> HIDE DEF g1
    <3>1. g2 \in Seq(E) /\ Adds(g2, g1, b)
      BY <2>3, <2>4, SeqAdd
    <3> HIDE DEF g2
    <3> QED  BY <3>1, <2>4 DEF Adds
  <2>6. g3 \in Seq(E) /\ Len(g3) = 3 /\ g3[1] = a /\ g3[2] = b /\ g3[3] = c
    <3> HIDE DEF g2
    <3>1. g3 \in Seq(E) /\ Adds(g3, g2, c)
      BY <2>3, <2>5, SeqAdd
    <3> HIDE DEF g3
    <3>2. 1 \in 1..2 /\ 2 \in 1..2
      OBVIOUS
    <3> QED  BY <3>1, <3>2, <2>5 DEF Adds
  <2> HIDE DEF g3
  <2>7. t \in Seq(E) /\ Len(t) = 6 /\ t[1] = a /\ t[2] = b /\ t[3] = c /\ t[3 + 1] = v /\ t[3 + 2] = r /\ t[3 + 3] = gg
    <3>1. t \in Seq(E) /\ Joins(t, g3, tail)
      BY <2>2, <2>6, SeqJoin
    <3> HIDE DEF t
    <3>2. 1 \in 1..3 /\ 2 \in 1..3 /\ 3 \in 1..3
      OBVIOUS
    <3> QED  BY <3>1, <3>2, <2>2, <2>6 DEF Joins
  <2>8. \A i \in 1..6 : i = 1 \/ i = 2 \/ i = 3 \/ i = 4 \/ i = 5 \/ i = 6
    OBVIOUS
  <2>9. t[4] = v /\ t[5] = r /\ t[6] = gg
    BY <2>7
  <2> HIDE DEF t
  <2>10. \A i \in 1..Len(t) : t[i] = all[i]
    BY <2>1, <2>7, <2>8, <2>9
  <2>11. t = all
    BY <2>1, <2>7, <2>10, SeqSame
  <2> QED  BY <2>11 DEF t, tail, all
<1>8. Sums(g1, 0, p)
  <2> HIDE DEF e
  <2> QED  BY <1>5, <1>6, EmptyJoined
<1>9. Sums(g2, 0, p)
  <2> HIDE DEF g1
  <2> QED  BY <1>5, <1>8, EmptyJoined
<1>10. Sums(g3, 0, p)
  <2> HIDE DEF g2
  <2> QED  BY <1>5, <1>9, EmptyJoined
<1>11. Report!Min({12, n}) = n /\ n \in Nat
  <2>1. Report!Min({12, n}) = CHOOSE y \in {12, n} : \A z \in {12, n} : y <= z
    BY ReportMin
  <2> QED  BY <2>1
<1>12. Sums(g3, n, p) /\ gg.svUsedCount = n /\ Report!blank = g3 \o <<v, r, gg>>
  BY <1>1, <1>4, <1>7, <1>10
<1> HIDE DEF g3, n
<1> DEFINE tail == <<v, r, gg>>
<1>13. Closing(tail) /\ tail[3] = gg
  BY <1>1, ClosingIs
<1>14. Report!blank = g3 \o tail
  BY <1>12
<1> HIDE DEF tail
<1> QED  BY <1>1, <1>11, <1>12, <1>13, <1>14 DEF PositionSentences

\* The sentences of one kind.
OfId(N, id) == Report!selected(N, {i \in DOMAIN N : N[i].id = id})

\* Which of the sentences are GSA, and which is the GGA.
LEMMA KindsOf ==
  ASSUME NEW gs \in Seq(GsaRecords), NEW tail, Closing(tail), NEW N, N = gs \o tail
  PROVE  OfId(N, "GSA") = gs /\ OfId(N, "GGA")[1] = tail[3]
<1> DEFINE v == tail[1]
           r == tail[2]
           gg == tail[3]
           D == GsaRecords \union {v, r, gg}
           n == Len(gs)
           o == 0
<1>0. v.id = "VTG" /\ r.id = "RMC" /\ gg.id = "GGA"
  BY DEF Closing
<1>1. tail \in Seq(D) /\ Len(tail) = 3
  <2> DEFINE t == <<v, r, gg>>
  <2>1. t \in Seq(D)
    OBVIOUS
  <2>2. tail = t
    BY DEF Closing
  <2> HIDE DEF t, D
  <2> QED  BY <2>1, <2>2 DEF Closing
<1>2. gs \in Seq(D) /\ n \in Nat /\ \A i \in 1..n : gs[i] \in GsaRecords
  <2>1. GsaRecords \subseteq D
    OBVIOUS
  <2> HIDE DEF D
  <2>2. gs \in Seq(D)
    BY <2>1, SeqWider
  <2> QED  BY <2>2
<1> HIDE DEF D
<1>3. N \in Seq(D) /\ Len(N) = n + 3 /\ N[n + 1] = v /\ N[n + 2] = r /\ N[n + 3] = gg /\ \A i \in 1..n : N[i] = gs[i]
  <2>1. N \in Seq(D) /\ Joins(N, gs, tail)
    <3>1. gs \o tail \in Seq(D) /\ Joins(gs \o tail, gs, tail)
      BY <1>1, <1>2, SeqJoin
    <3> QED  BY <3>1
  <2>2. 1 \in 1..3 /\ 2 \in 1..3 /\ 3 \in 1..3
    OBVIOUS
  <2> QED  BY <1>1, <2>1, <2>2 DEF Joins
<1> HIDE DEF v, r, gg
<1>4. \A i \in 1..n : N[i].id = "GSA"
  BY <1>2, <1>3 DEF GsaRecords
<1>5. \A i \in 1..Len(N) : i \in 1..n \/ i = n + 1 \/ i = n + 2 \/ i = n + 3
  BY <1>2, <1>3
<1> HIDE DEF n
<1>6. OfId(N, "GSA") = [k \in 1..n - o |-> N[o + k]]
  <2> DEFINE I == {i \in DOMAIN N : N[i].id = "GSA"}
  <2>1. \A i \in 1..Len(N) : i \in I <=> o < i /\ i <= n
    <3> SUFFICES ASSUME NEW i \in 1..Len(N) PROVE i \in I <=> o < i /\ i <= n
      OBVIOUS
    <3>0. DOMAIN N = 1..Len(N)
      BY <1>3
    <3>1. i \in I <=> i \in 1..n
      BY <1>0, <1>3, <1>4, <1>5, <3>0
    <3>2. (o < i /\ i <= n) <=> i \in 1..n
      BY <1>2, <1>3
    <3> QED  BY <3>1, <3>2
  <2>2. o \in Nat /\ o <= n /\ n <= Len(N)
    BY <1>2, <1>3
  <2> HIDE DEF I, o
  <2>3. Places(Report!selected(N, I), N, o, n)
    BY <1>2, <1>3, <2>1, <2>2, SelectedRange
  <2> QED  BY <2>3 DEF OfId, I, Places
<1>7. OfId(N, "GSA") = gs
  <2>1. \A k \in 1..n : N[o + k] = gs[k]
    <3>1. \A k \in 1..n : o + k = k
      BY <1>2
    <3>2. \A k \in 1..n : N[k] = gs[k]
      BY <1>3
    <3> HIDE DEF o
    <3> QED  BY <3>1, <3>2
  <2>2. n - o = n
    BY <1>2
  <2>3. gs = [k \in 1..n |-> gs[k]]
    BY <1>2 DEF n
  <2> HIDE DEF o
  <2> QED  BY <1>6, <2>1, <2>2, <2>3
<1>8. OfId(N, "GGA")[1] = gg
  <2> DEFINE I == {i \in DOMAIN N : N[i].id = "GGA"}
             a == n + 2
             b == n + 3
  <2>1. \A i \in 1..Len(N) : i \in I <=> a < i /\ i <= b
    <3> SUFFICES ASSUME NEW i \in 1..Len(N) PROVE i \in I <=> a < i /\ i <= b
      OBVIOUS
    <3>0. DOMAIN N = 1..Len(N)
      BY <1>3
    <3>1. i \in I <=> i = n + 3
      BY <1>0, <1>3, <1>4, <1>5, <3>0
    <3>2. (a < i /\ i <= b) <=> i = n + 3
      BY <1>2, <1>3
    <3> QED  BY <3>1, <3>2
  <2>2. a \in Nat /\ b \in Nat /\ a <= b /\ b <= Len(N) /\ b - a = 1 /\ a + 1 = n + 3
    BY <1>2, <1>3
  <2> HIDE DEF I, a, b
  <2>3. Places(Report!selected(N, I), N, a, b)
    BY <1>2, <1>3, <2>1, <2>2, SelectedRange
  <2>4. Report!selected(N, I)[1] = N[a + 1]
    <3>1. 1 \in 1..b - a
      BY <2>2
    <3> QED  BY <2>3, <3>1 DEF Places
  <2> QED  BY <1>3, <2>2, <2>4 DEF OfId, I
<1> QED  BY <1>7, <1>8 DEF gg

\* What GGA counts is what GSA lists.
Counts(gsa, gga, p, talker) ==
  /\ gga.talker = talker
  /\ (\A i \in DOMAIN gsa : Len(gsa[i].svs) < 12) => gga.svUsedCount = Report!Min({12, Len(Listing(gsa))})
  /\ \A i \in DOMAIN gsa : gsa[i].systemId \in 1..3 =>
       Report!Range(gsa[i].svs) \subseteq
         {n + (IF gsa[i].systemId = 2 THEN 64 ELSE 0) : n \in p.used[Report!Constellations[gsa[i].systemId]]}

\* So the GGA counts what the GSA list, and the talker is the one that fits.
LEMMA GgaCounts ==
  ASSUME NEW N, NEW p, NEW talker, PositionSentences(N, p, talker)
  PROVE  Counts(OfId(N, "GSA"), OfId(N, "GGA")[1], p, talker)
<1>1. PICK gs, tail, n : /\ n \in Nat /\ Sums(gs, n, p) /\ Closing(tail) /\ N = gs \o tail
                         /\ tail[3].svUsedCount = Report!Min({12, n}) /\ tail[3].talker = talker
  BY DEF PositionSentences
<1> DEFINE gg == tail[3]
<1>2. gs \in Seq(GsaRecords)
  BY <1>1 DEF Sums
<1>3. OfId(N, "GSA") = gs /\ OfId(N, "GGA")[1] = gg
  BY <1>1, <1>2, KindsOf
<1>4. DOMAIN gs = 1..Len(gs)
  BY <1>2
<1>5. (\A i \in DOMAIN gs : Len(gs[i].svs) < 12) => gg.svUsedCount = Report!Min({12, Len(Listing(gs))})
  BY <1>1, <1>4 DEF Sums
<1>6. ASSUME NEW i \in DOMAIN gs, gs[i].systemId \in 1..3
      PROVE  Report!Range(gs[i].svs) \subseteq
               {m + (IF gs[i].systemId = 2 THEN 64 ELSE 0) : m \in p.used[Report!Constellations[gs[i].systemId]]}
  <2> DEFINE x == gs[i]
             y == x.svs
             off == IF x.systemId = 2 THEN 64 ELSE 0
             own == p.used[Report!Constellations[x.systemId]]
  <2>1. x \in GsaRecords /\ Owned(x, p)
    BY <1>1, <1>2, <1>4 DEF Sums
  <2>2. y \in Seq(Nat)
    BY <2>1 DEF GsaRecords
  <2>3. \A k \in 1..Len(y) : \E m \in own : y[k] = m + off
    BY <1>6, <2>1 DEF Owned
  <2>4. Report!Range(y) = {y[k] : k \in 1..Len(y)}
    BY <2>2 DEF Report!Range
  <2> HIDE DEF y, own, off
  <2>5. Report!Range(y) \subseteq {m + off : m \in own}
    BY <2>3, <2>4
  <2> QED  BY <2>5 DEF y, own, off
<1>7. Counts(gs, gg, p, talker)
  BY <1>1, <1>5, <1>6 DEF Counts
<1> QED  BY <1>3, <1>7

\* More than one, for a set that holds t.
LEMMA Several ==
  ASSUME NEW S, NEW T, S \subseteq T, IsFiniteSet(T), NEW t \in S
  PROVE  Cardinality(S) > 1 <=> \E x \in T \ {t} : x \in S
<1>1. IsFiniteSet(S) /\ Cardinality(S) \in Nat
  BY FS_Subset, FS_CardinalityType
<1>2. ASSUME NEW x \in S, x # t PROVE Cardinality(S) > 1
  <2> DEFINE R == S \ {t}
  <2>1. IsFiniteSet(R) /\ Cardinality(R) = Cardinality(S) - 1
    BY <1>1, FS_RemoveElement
  <2>2. Cardinality(R) \in Nat /\ Cardinality(R) # 0
    BY <1>2, <2>1, FS_CardinalityType, FS_EmptySet
  <2> HIDE DEF R
  <2> QED  BY <1>1, <2>1, <2>2
<1>3. ASSUME \A x \in S : x = t PROVE ~(Cardinality(S) > 1)
  <2>1. S = {t}
    BY <1>3
  <2>2. Cardinality(S) = 1
    BY <2>1, FS_Singleton
  <2> QED  BY <2>2
<1> QED  BY <1>2, <1>3

\* The talker is GN exactly when another constellation has satellites too.
LEMMA TalkerIs ==
  ASSUME NEW used, NEW t \in {"GPS", "GLONASS", "GALILEO"}, used[t] # {}
  PROVE  Report!talkerOf(used) = "GN" <=> \E x \in Report!Types \ {t} : used[x] # {}
<1> DEFINE c == Report!Constellations
           with == {i \in 1..3 : used[c[i]] # {}}
           count == [x \in Report!Types |-> 0]
           S == {x \in Report!Types : used[x] # {}}
           m == Report!Max(with)
           u == c[m]
           meta == Report!sv_meta_init(used, count, u, TRUE)
<1>1. c[1] = "GPS" /\ c[2] = "GLONASS" /\ c[3] = "GALILEO"
  BY DEF Report!Constellations
<1>2. with # {}
  <2> HIDE DEF c
  <2>1. t = c[1] \/ t = c[2] \/ t = c[3]
    BY <1>1
  <2>2. 1 \in 1..3 /\ 2 \in 1..3 /\ 3 \in 1..3
    OBVIOUS
  <2> QED  BY <2>1, <2>2
<1>3. m \in 1..3
  <2> HIDE DEF c
  <2>1. with \subseteq 1..3
    OBVIOUS
  <2>2. m = CHOOSE x \in with : \A y \in with : x >= y
    BY DEF Report!Max
  <2> HIDE DEF with, m
  <2>3. \E x \in with : \A y \in with : x >= y
    <3>1. 1..3 = {1, 2, 3}
      OBVIOUS
    <3>2. CASE 3 \in with
      BY <2>1, <3>2
    <3>3. CASE 3 \notin with /\ 2 \in with
      BY <2>1, <3>1, <3>3
    <3>4. CASE 3 \notin with /\ 2 \notin with
      <4>1. with = {1}
        BY <2>1, <1>2, <3>1, <3>4
      <4> QED  BY <4>1
    <3> QED  BY <3>2, <3>3, <3>4
  <2>4. m \in with
    BY <2>2, <2>3
  <2> QED  BY <2>1, <2>4
<1>4. u \in {"GPS", "GLONASS", "GALILEO"}
  <2> HIDE DEF c, m
  <2>1. m = 1 \/ m = 2 \/ m = 3
    BY <1>3
  <2> QED  BY <1>1, <2>1
<1>5. Report!talkerOf(used) = meta.talker
  BY <1>2 DEF Report!talkerOf
<1> HIDE DEF u
<1>6. meta.talker = IF Report!Cardinality(S) > 1 THEN "GN"
                    ELSE [GPS |-> "GP", GLONASS |-> "GL", GALILEO |-> "GA", QZSS |-> "PQ", BEIDOU |-> "PQ"][u]
  BY DEF Report!sv_meta_init
<1>7. Report!Cardinality(S) = Cardinality(S)
  BY ReportCardinality
<1> HIDE DEF meta
<1>8. Cardinality(S) > 1 <=> \E x \in Report!Types \ {t} : x \in S
  <2> DEFINE T == Report!Types
  <2>1. IsFiniteSet({"GPS", "GLONASS", "GALILEO", "QZSS", "BEIDOU"})
    <3>1. IsFiniteSet({}) 
      BY FS_EmptySet
    <3>2. IsFiniteSet({} \union {"GPS"})
      BY <3>1, FS_AddElement
    <3>3. IsFiniteSet(({} \union {"GPS"}) \union {"GLONASS"})
      BY <3>2, FS_AddElement
    <3>4. IsFiniteSet((({} \union {"GPS"}) \union {"GLONASS"}) \union {"GALILEO"})
      BY <3>3, FS_AddElement
    <3>5. IsFiniteSet(((({} \union {"GPS"}) \union {"GLONASS"}) \union {"GALILEO"}) \union {"QZSS"})
      BY <3>4, FS_AddElement
    <3>6. IsFiniteSet((((({} \union {"GPS"}) \union {"GLONASS"}) \union {"GALILEO"}) \union {"QZSS"}) \union {"BEIDOU"})
      BY <3>5, FS_AddElement
    <3>7. (((({} \union {"GPS"}) \union {"GLONASS"}) \union {"GALILEO"}) \union {"QZSS"}) \union {"BEIDOU"}
            = {"GPS", "GLONASS", "GALILEO", "QZSS", "BEIDOU"}
      OBVIOUS
    <3> QED  BY <3>6, <3>7
  <2>2. IsFiniteSet(T) /\ S \subseteq T /\ t \in S
    BY <2>1, TypesAre
  <2> HIDE DEF S, T
  <2>3. Cardinality(S) > 1 <=> \E x \in T \ {t} : x \in S
    BY <2>2, Several
  <2> QED  BY <2>3 DEF T
<1>9. [GPS |-> "GP", GLONASS |-> "GL", GALILEO |-> "GA", QZSS |-> "PQ", BEIDOU |-> "PQ"][u] # "GN"
  BY <1>4
<1>10. (\E x \in Report!Types \ {t} : x \in S) <=> \E x \in Report!Types \ {t} : used[x] # {}
  OBVIOUS
<1> HIDE DEF S
<1>11. meta.talker = "GN" <=> Cardinality(S) > 1
  BY <1>6, <1>7, <1>9
<1> QED  BY <1>5, <1>8, <1>10, <1>11

-----------------------------------------------------------------------------
(***************************************************************************)
(* The sentences of satellites.                                            *)
(***************************************************************************)
SatRecords == [type : Report!Types, svId : Nat, used : BOOLEAN]
GsvRecords == [id : {"GSV"}, talker : TalkerIds, of : Nat, number : Nat, svCount : Nat, svs : Seq(Nat)]

\* There are as many GSV sentences as four satellites in each require.
LEMMA Ceiling ==
  ASSUME NEW c \in Nat
  PROVE  LET n == Report!sentenceCount(c) IN
         n \in Nat /\ c <= 4 * n /\ 4 * n < c + 4
  BY DEF Report!sentenceCount

\* The numbers of the satellites own, and how many of them the first i sentences list.
SvIds(own, off) == [k \in 1..Len(own) |-> own[k].svId + off]
UpTo(i, c) == IF 4 * i <= c THEN 4 * i ELSE c
Chunk(own, off, i) == [k \in 1..UpTo(i, Len(own)) - UpTo(i - 1, Len(own)) |-> own[4 * (i - 1) + k].svId + off]

\* Satellites that are listed four by four are all listed, in their order.
LEMMA ChunksFlatten ==
  ASSUME NEW own \in Seq(SatRecords), NEW off \in Nat, NEW n \in Nat, n # 0, Len(own) <= 4 * n,
         NEW q, q = [i \in 1..n |-> Chunk(own, off, i)]
  PROVE  Report!FlattenSeq(q) = SvIds(own, off)
<1> DEFINE c == Len(own)
           u(i) == UpTo(i, c)
           v(k) == own[k].svId + off
           pre(m) == [k \in 1..m |-> v(k)]
           f == [i \in 1..n |-> pre(u(i))]
<1>1. c \in Nat /\ \A k \in 1..c : v(k) \in Nat
  <2>1. c \in Nat /\ \A k \in 1..c : own[k] \in SatRecords
    OBVIOUS
  <2>2. \A x \in SatRecords : x.svId \in Nat
    BY DEF SatRecords
  <2> QED  BY <2>1, <2>2
<1>2. \A i \in 0..n : u(i) \in Nat /\ u(i) <= c /\ u(0) = 0
  BY <1>1 DEF UpTo
<1>3. \A m \in Nat : m <= c => pre(m) \in Seq(Nat) /\ Len(pre(m)) = m
  <2> SUFFICES ASSUME NEW m \in Nat, m <= c PROVE pre(m) \in Seq(Nat) /\ Len(pre(m)) = m
    OBVIOUS
  <2>1. \A k \in 1..m : v(k) \in Nat
    BY <1>1
  <2> HIDE DEF v
  <2> QED  BY <2>1
<1>4. ASSUME NEW i \in 1..n
      PROVE  /\ Chunk(own, off, i) \in Seq(Nat) /\ Len(Chunk(own, off, i)) = u(i) - u(i - 1)
             /\ u(i - 1) <= u(i)
             /\ \A k \in 1..u(i) - u(i - 1) : u(i - 1) + k \in 1..c /\ Chunk(own, off, i)[k] = v(u(i - 1) + k)
  <2> DEFINE x == u(i - 1)
             y == u(i)
  <2>1. x \in Nat /\ y \in Nat /\ x <= y /\ y <= c /\ (x # y => x = 4 * (i - 1))
    BY <1>1 DEF UpTo
  <2>2. Chunk(own, off, i) = [k \in 1..y - x |-> v(4 * (i - 1) + k)]
    BY DEF Chunk
  <2> HIDE DEF x, y, c
  <2>3. \A k \in 1..y - x : 4 * (i - 1) + k = x + k /\ x + k \in 1..c
    BY <2>1, <1>1
  <2> HIDE DEF v
  <2>4. Chunk(own, off, i) = [k \in 1..y - x |-> v(x + k)]
    BY <2>2, <2>3
  <2>5. y - x \in Nat /\ \A k \in 1..y - x : v(x + k) \in Nat
    BY <1>1, <2>1, <2>3
  <2>6. Chunk(own, off, i) \in Seq(Nat) /\ Len(Chunk(own, off, i)) = y - x
    BY <2>4, <2>5
  <2>7. \A k \in 1..y - x : Chunk(own, off, i)[k] = v(x + k)
    BY <2>4
  <2> QED  BY <2>1, <2>3, <2>6, <2>7 DEF x, y
<1>5. Len(q) = n /\ DOMAIN q = 1..n /\ \A i \in 1..n : q[i] = Chunk(own, off, i)
  OBVIOUS
<1> HIDE DEF v, u, c
<1>6. ASSUME NEW i \in 1..n PROVE pre(u(i)) = pre(u(i - 1)) \o Chunk(own, off, i)
  <2> DEFINE x == u(i - 1)
             y == u(i)
             s == pre(x)
             t == Chunk(own, off, i)
             r == pre(y)
             j == s \o t
  <2>1. x \in Nat /\ y \in Nat /\ x <= y /\ y <= c
    <3>1. i - 1 \in 0..n /\ i \in 0..n
      OBVIOUS
    <3> QED  BY <3>1, <1>2, <1>4
  <2>2. s \in Seq(Nat) /\ Len(s) = x /\ r \in Seq(Nat) /\ Len(r) = y
    <3>1. x <= c
      BY <2>1, <1>1
    <3> HIDE DEF pre, x, y
    <3> QED  BY <3>1, <2>1, <1>3
  <2>3. t \in Seq(Nat) /\ Len(t) = y - x /\ \A k \in 1..y - x : t[k] = v(x + k)
    BY <1>4
  <2>4. (\A k \in 1..x : s[k] = v(k)) /\ \A k \in 1..y : r[k] = v(k)
    OBVIOUS
  <2> HIDE DEF s, t, r, x, y
  <2>5. j \in Seq(Nat) /\ Joins(j, s, t)
    BY <2>2, <2>3, SeqJoin
  <2> HIDE DEF j
  <2>6. Len(j) = y
    BY <2>1, <2>2, <2>3, <2>5 DEF Joins
  <2>7. ASSUME NEW k \in 1..y PROVE j[k] = r[k]
    <3>1. CASE k <= x
      <4>1. k \in 1..x
        BY <3>1, <2>1
      <4> QED  BY <4>1, <2>2, <2>4, <2>5 DEF Joins
    <3>2. CASE ~(k <= x)
      <4>1. k - x \in 1..y - x /\ x + (k - x) = k
        BY <3>2, <2>1
      <4>2. j[x + (k - x)] = t[k - x]
        BY <4>1, <2>2, <2>3, <2>5 DEF Joins
      <4>3. t[k - x] = v(x + (k - x))
        BY <4>1, <2>3
      <4> QED  BY <4>1, <4>2, <4>3, <2>4
    <3> QED  BY <3>1, <3>2
  <2>8. j = r
    BY <2>2, <2>5, <2>6, <2>7, SeqSame
  <2> QED  BY <2>8 DEF j, r, s, t, x, y
<1>7. Flattens(f, q)
  <2> SUFFICES ASSUME NEW i \in 1..n PROVE f[i] = IF i = 1 THEN q[i] ELSE f[i - 1] \o q[i]
    BY <1>5 DEF Flattens
  <2>1. f[i] = pre(u(i))
    OBVIOUS
  <2>2. CASE i = 1
    <3>1. pre(u(0)) = <<>>
      BY <1>2
    <3>2. i - 1 = 0 /\ Chunk(own, off, i) \in Seq(Nat)
      BY <2>2, <1>4
    <3>3. <<>> \o Chunk(own, off, i) = Chunk(own, off, i)
      BY <3>2
    <3> HIDE DEF pre, f
    <3> QED  BY <2>1, <2>2, <3>1, <3>2, <3>3, <1>5, <1>6
  <2>3. CASE i # 1
    <3>1. i - 1 \in 1..n
      BY <2>3
    <3>2. f[i - 1] = pre(u(i - 1))
      BY <3>1
    <3> HIDE DEF pre, f
    <3> QED  BY <2>1, <2>3, <3>2, <1>5, <1>6
  <2> QED  BY <2>2, <2>3
<1>8. Report!FlattenSeq(q) = f[n]
  <2> HIDE DEF f
  <2> QED  BY <1>5, <1>7, FlattenedBy
<1>9. f[n] = pre(c)
  <2>1. u(n) = c /\ n \in 1..n
    BY <1>1 DEF UpTo, u, c
  <2> QED  BY <2>1
<1> QED  BY <1>8, <1>9 DEF SvIds, c, v

\* The sentences of one constellation: numbered, at most four satellites each, all of them in turn.
GsvOf(g, own, off, talker) ==
  /\ g \in Seq(GsvRecords)
  /\ \A i \in 1..Len(g) : /\ g[i].talker = talker /\ g[i].number = i /\ g[i].of = Len(g)
                          /\ g[i].svs \in Seq(Nat) /\ Len(g[i].svs) <= 4
  /\ Report!FlattenSeq([i \in DOMAIN g |-> g[i].svs]) = SvIds(own, off)

\* The GSV sentences of a constellation with satellites ...
LEMMA FullGsv ==
  ASSUME NEW own \in Seq(SatRecords), NEW off \in Nat, NEW talker \in TalkerIds, Len(own) # 0,
         NEW n, n = Report!sentenceCount(Len(own)), NEW g,
         g = [i \in 1..n |->
               [id |-> "GSV", talker |-> talker, of |-> n, number |-> i, svCount |-> Len(own),
                svs |-> [k \in 1..Report!Min({4, Len(own) - 4 * (i - 1)}) |-> own[4 * (i - 1) + k].svId + off]]]
  PROVE  GsvOf(g, own, off, talker)
<1> DEFINE c == Len(own)
           w(i) == Report!Min({4, c - 4 * (i - 1)})
           l(i) == [k \in 1..w(i) |-> own[4 * (i - 1) + k].svId + off]
           q == [i \in 1..n |-> Chunk(own, off, i)]
<1>1. n \in Nat /\ n # 0 /\ c \in Nat /\ c <= 4 * n /\ 4 * n < c + 4
  <2>1. c \in Nat /\ c # 0
    OBVIOUS
  <2> HIDE DEF c
  <2>2. LET m == Report!sentenceCount(c) IN m \in Nat /\ c <= 4 * m /\ 4 * m < c + 4
    BY <2>1, Ceiling
  <2>3. n \in Nat /\ c <= 4 * n /\ 4 * n < c + 4
    BY <2>2 DEF c
  <2> QED  BY <2>1, <2>3
<1>2. ASSUME NEW i \in 1..n
      PROVE  l(i) = Chunk(own, off, i) /\ Chunk(own, off, i) \in Seq(Nat) /\ Len(Chunk(own, off, i)) <= 4
  <2> DEFINE x == c - 4 * (i - 1)
  <2>1. x \in Nat /\ x # 0
    BY <1>1
  <2>2. w(i) = IF x <= 4 THEN x ELSE 4
    <3>1. w(i) = CHOOSE y \in {4, x} : \A z \in {4, x} : y <= z
      BY ReportMin
    <3>2. \E y \in {4, x} : \A z \in {4, x} : y <= z
      BY <2>1
    <3> HIDE DEF w, x
    <3> QED  BY <2>1, <3>1, <3>2
  <2>3. UpTo(i, c) - UpTo(i - 1, c) = IF x <= 4 THEN x ELSE 4
    <3> HIDE DEF c
    <3>1. UpTo(i - 1, c) = 4 * (i - 1)
      BY <1>1, <2>1 DEF UpTo
    <3>2. 4 * i <= c => 4 <= x
      BY <1>1
    <3>3. ~(4 * i <= c) => x <= 4
      BY <1>1
    <3>4. 4 * i - 4 * (i - 1) = 4
      OBVIOUS
    <3> QED  BY <1>1, <2>1, <3>1, <3>2, <3>3, <3>4 DEF UpTo
  <2> DEFINE m == UpTo(i, c) - UpTo(i - 1, c)
  <2>4. m = w(i) /\ m \in Nat /\ m <= 4 /\ 4 * (i - 1) + m <= c
    <3> HIDE DEF w, m
    <3>1. m = IF x <= 4 THEN x ELSE 4
      BY <2>3 DEF m
    <3>2. m = w(i)
      BY <3>1, <2>2
    <3>3. m \in Nat /\ m <= 4 /\ m <= x
      <4> HIDE DEF x
      <4> QED  BY <3>1, <2>1
    <3>4. 4 * (i - 1) + m <= c
      BY <3>3, <1>1
    <3> QED  BY <3>2, <3>3, <3>4
  <2>5. Chunk(own, off, i) = [k \in 1..m |-> own[4 * (i - 1) + k].svId + off]
    BY DEF Chunk
  <2> HIDE DEF w, m
  <2>6. \A k \in 1..m : own[4 * (i - 1) + k].svId + off \in Nat
    <3> SUFFICES ASSUME NEW k \in 1..m PROVE own[4 * (i - 1) + k].svId + off \in Nat
      OBVIOUS
    <3> DEFINE j == 4 * (i - 1) + k
    <3>1. j \in 1..c
      BY <1>1, <2>4
    <3> HIDE DEF j
    <3>2. own[j] \in SatRecords
      BY <3>1
    <3>3. own[j].svId \in Nat
      BY <3>2 DEF SatRecords
    <3>4. own[j].svId + off \in Nat
      BY <3>3
    <3> QED  BY <3>4 DEF j
  <2>7. l(i) = Chunk(own, off, i)
    BY <2>4, <2>5
  <2> HIDE DEF l
  <2>8. Chunk(own, off, i) \in Seq(Nat) /\ Len(Chunk(own, off, i)) = m
    BY <2>4, <2>5, <2>6
  <2> QED  BY <2>4, <2>7, <2>8
<1> HIDE DEF w
<1>3. \A i \in 1..n : g[i] = [id |-> "GSV", talker |-> talker, of |-> n, number |-> i, svCount |-> c, svs |-> l(i)]
  BY DEF w
<1>4. DOMAIN g = 1..n /\ g = [i \in 1..n |-> g[i]]
  OBVIOUS
<1> HIDE DEF l, c
<1>5. ASSUME NEW i \in 1..n
      PROVE  /\ g[i] \in GsvRecords /\ g[i].talker = talker /\ g[i].number = i /\ g[i].of = n
             /\ g[i].svs = Chunk(own, off, i) /\ g[i].svs \in Seq(Nat) /\ Len(g[i].svs) <= 4
  <2> DEFINE y == l(i)
             r(z) == [id |-> "GSV", talker |-> talker, of |-> n, number |-> i, svCount |-> c, svs |-> z]
  <2>1. y = Chunk(own, off, i) /\ y \in Seq(Nat) /\ Len(y) <= 4
    BY <1>2
  <2>2. \A z \in Seq(Nat) : r(z) \in GsvRecords
    BY <1>1 DEF GsvRecords
  <2>3. \A z : r(z).talker = talker /\ r(z).number = i /\ r(z).of = n /\ r(z).svs = z
    OBVIOUS
  <2>4. g[i] = r(y)
    BY <1>3
  <2> HIDE DEF r, y
  <2> QED  BY <2>1, <2>2, <2>3, <2>4
<1>6. g \in Seq(GsvRecords) /\ Len(g) = n
  <2>1. \A i \in 1..n : g[i] \in GsvRecords
    BY <1>5
  <2>2. n \in Nat
    BY <1>1
  <2> HIDE DEF GsvRecords
  <2> QED  BY ONLY <2>1, <2>2, <1>4
<1>7. [i \in DOMAIN g |-> g[i].svs] = q
  BY <1>4, <1>5
<1>8. Report!FlattenSeq(q) = SvIds(own, off)
  <2>1. n \in Nat /\ n # 0 /\ Len(own) <= 4 * n
    BY <1>1 DEF c
  <2> HIDE DEF q
  <2>2. q = [i \in 1..n |-> Chunk(own, off, i)]
    BY DEF q
  <2> QED  BY <2>1, <2>2, ChunksFlatten
<1> QED  BY <1>5, <1>6, <1>7, <1>8 DEF GsvOf

\* ... and the one of a constellation without.
LEMMA EmptyGsv ==
  ASSUME NEW own, Len(own) = 0, NEW off, NEW talker \in TalkerIds, NEW g,
         g = <<[id |-> "GSV", talker |-> talker, of |-> 1, number |-> 1, svCount |-> 0, svs |-> <<>>]>>
  PROVE  GsvOf(g, own, off, talker)
<1> DEFINE x == [id |-> "GSV", talker |-> talker, of |-> 1, number |-> 1, svCount |-> 0, svs |-> <<>>]
           q == <<<<>>>>
           f == <<<<>>>>
<1>1. x \in GsvRecords /\ x.talker = talker /\ x.number = 1 /\ x.of = 1 /\ x.svs = <<>>
  BY DEF GsvRecords
<1> HIDE DEF x
<1>2. g = <<x>>
  BY DEF x
<1>3. g \in Seq(GsvRecords) /\ Len(g) = 1 /\ DOMAIN g = 1..1 /\ g[1] = x
  BY <1>1, <1>2
<1>4. \A i \in 1..1 : i = 1
  OBVIOUS
<1>5. [i \in DOMAIN g |-> g[i].svs] = q
  BY <1>1, <1>3, <1>4
<1>6. Report!FlattenSeq(q) = <<>>
  <2>1. Len(q) = 1 /\ q[1] = <<>> /\ f[1] = <<>>
    OBVIOUS
  <2>2. Flattens(f, q)
    BY <1>4 DEF Flattens
  <2> HIDE DEF f, q
  <2>3. Len(q) \in Nat /\ Len(q) # 0
    BY <2>1
  <2>4. Report!FlattenSeq(q) = f[Len(q)]
    BY <2>2, <2>3, FlattenedBy
  <2> QED  BY <2>1, <2>4
<1>7. SvIds(own, off) = <<>>
  BY DEF SvIds
<1>8. <<>> \in Seq(Nat) /\ Len(<<>>) <= 4
  OBVIOUS
<1> HIDE DEF q
<1>9. /\ \A i \in 1..Len(g) : /\ g[i].talker = talker /\ g[i].number = i /\ g[i].of = Len(g)
                              /\ g[i].svs \in Seq(Nat) /\ Len(g[i].svs) <= 4
  BY <1>1, <1>3, <1>4, <1>8
<1> QED  BY <1>3, <1>5, <1>6, <1>7, <1>9 DEF GsvOf

\* The satellites of a constellation are satellites of the report.
LEMMA OfTypeIs ==
  ASSUME NEW svs \in Seq(SatRecords), NEW t
  PROVE  Report!ofType(svs, t) \in Seq(SatRecords)
<1> DEFINE I == {i \in DOMAIN svs : svs[i].type = t}
           S == {svs[i] : i \in I \cap 1..Len(svs)}
           r == Report!selected(svs, I)
<1>1. S \subseteq SatRecords
  OBVIOUS
<1>2. r \in Seq(S)
  <2> HIDE DEF I
  <2> QED  BY SelectedIs
<1> HIDE DEF S, r
<1>3. r \in Seq(SatRecords)
  BY <1>1, <1>2, SeqWider
<1> QED  BY <1>3 DEF Report!ofType, r

OwnTalker(t) == [GPS |-> "GP", GLONASS |-> "GL", GALILEO |-> "GA", QZSS |-> "PQ", BEIDOU |-> "PQ"][t]
Offset(t) == IF t = "GLONASS" THEN 64 ELSE 0

\* The GSV sentences of any constellation.
LEMMA GsvIs ==
  ASSUME NEW svs \in Seq(SatRecords), NEW t \in Report!Types, NEW none, NEW count, count[t] = Len(Report!ofType(svs, t))
  PROVE  GsvOf(Report!generate_GSV(svs, Report!sv_meta_init(none, count, t, FALSE)),
               Report!ofType(svs, t), Offset(t), OwnTalker(t))
<1> DEFINE m == Report!sv_meta_init(none, count, t, FALSE)
           own == Report!ofType(svs, t)
           off == Offset(t)
           talker == OwnTalker(t)
           g == Report!generate_GSV(svs, m)
           c == Len(own)
           n == Report!sentenceCount(c)
<1>1. m.svType = t /\ m.talker \in TalkerIds /\ m.svCount = c /\ m.svIdOffset = off /\ m.talker = talker
  <2> DEFINE combine == FALSE
  <2>1. combine \in BOOLEAN /\ ~combine
    OBVIOUS
  <2> HIDE DEF combine
  <2>2. MetaOf(Report!sv_meta_init(none, count, t, combine), none, count, t, combine)
    BY <2>1, MetaIs
  <2>3. MetaOf(m, none, count, t, combine)
    BY <2>2 DEF combine
  <2> HIDE DEF m
  <2> QED  BY <2>1, <2>3 DEF MetaOf, OwnTalker, Offset
<1>2. own \in Seq(SatRecords) /\ off \in Nat /\ talker \in TalkerIds /\ c \in Nat
  <2>1. own \in Seq(SatRecords)
    BY OfTypeIs
  <2>2. off \in Nat
    BY DEF Offset
  <2> HIDE DEF own, off, m
  <2> QED  BY <2>1, <2>2, <1>1
<1> HIDE DEF m, off, talker
<1>3. g = IF c = 0
          THEN <<[id |-> "GSV", talker |-> talker, of |-> 1, number |-> 1, svCount |-> 0, svs |-> <<>>]>>
          ELSE [i \in 1..n |->
                 [id |-> "GSV", talker |-> talker, of |-> n, number |-> i, svCount |-> c,
                  svs |-> [k \in 1..Report!Min({4, c - 4 * (i - 1)}) |-> own[4 * (i - 1) + k].svId + off]]]
  BY <1>1 DEF Report!generate_GSV
<1> HIDE DEF own, g
<1>4. GsvOf(g, own, off, talker)
  <2>1. CASE c = 0
    BY <2>1, <1>2, <1>3, EmptyGsv
  <2>2. CASE c # 0
    <3> HIDE DEF n
    <3>1. n = Report!sentenceCount(Len(own))
      BY DEF n
    <3>2. g = [i \in 1..n |->
                [id |-> "GSV", talker |-> talker, of |-> n, number |-> i, svCount |-> Len(own),
                 svs |-> [k \in 1..Report!Min({4, Len(own) - 4 * (i - 1)}) |-> own[4 * (i - 1) + k].svId + off]]]
      BY <2>2, <1>3
    <3> QED  BY <2>2, <3>1, <3>2, <1>2, FullGsv
  <2> QED  BY <2>1, <2>2
<1> QED  BY <1>4 DEF g, m, own, off, talker

\* The sentences of one talker.
OfTalker(N, talker) == Report!selected(N, {i \in DOMAIN N : N[i].talker = talker})

\* s has no sentence of the talker; g are all those s has of it, after the first a.
LacksTalker(s, talker) == s \in Seq(GsvRecords) /\ \A i \in 1..Len(s) : s[i].talker # talker
AllOfTalker(g, talker) == g \in Seq(GsvRecords) /\ \A i \in 1..Len(g) : g[i].talker = talker
HoldsTalker(s, talker, g, a) ==
  /\ s \in Seq(GsvRecords) /\ a \in Nat /\ a + Len(g) <= Len(s)
  /\ \A k \in 1..Len(g) : s[a + k] = g[k]
  /\ \A i \in 1..Len(s) : s[i].talker = talker <=> (a < i /\ i <= a + Len(g))

\* Sentences of other talkers, joined.
LEMMA WithoutJoin ==
  ASSUME NEW talker, NEW s, LacksTalker(s, talker), NEW h, LacksTalker(h, talker)
  PROVE  LacksTalker(s \o h, talker)
<1> DEFINE j == s \o h
           D == GsvRecords
<1>1. s \in Seq(D) /\ h \in Seq(D)
  BY DEF LacksTalker
<1> HIDE DEF D
<1>2. j \in Seq(D) /\ Joins(j, s, h)
  BY <1>1, SeqJoin
<1>3. Len(s) \in Nat /\ Len(h) \in Nat
  BY <1>1
<1> HIDE DEF j
<1>4. ASSUME NEW i \in 1..Len(j) PROVE j[i].talker # talker
  <2>1. Len(j) = Len(s) + Len(h)
    BY <1>2 DEF Joins
  <2>2. CASE i <= Len(s)
    <3>1. i \in 1..Len(s)
      BY <2>2, <1>3
    <3> QED  BY <3>1, <1>2 DEF Joins, LacksTalker
  <2>3. CASE ~(i <= Len(s))
    <3> DEFINE k == i - Len(s)
    <3>1. k \in 1..Len(h) /\ Len(s) + k = i
      BY <2>1, <2>3, <1>3
    <3> HIDE DEF k
    <3>2. j[Len(s) + k] = h[k]
      BY <3>1, <1>2 DEF Joins
    <3> QED  BY <3>1, <3>2 DEF LacksTalker
  <2> QED  BY <2>2, <2>3
<1>5. LacksTalker(j, talker)
  BY <1>2, <1>4 DEF LacksTalker, D
<1> QED  BY <1>5 DEF j

\* The sentences of a talker come after those of others ...
LEMMA HoldsFirst ==
  ASSUME NEW talker, NEW s, LacksTalker(s, talker), NEW g, AllOfTalker(g, talker)
  PROVE  HoldsTalker(s \o g, talker, g, Len(s))
<1> DEFINE j == s \o g
           D == GsvRecords
           a == Len(s)
<1>1. s \in Seq(D) /\ g \in Seq(D)
  BY DEF LacksTalker, AllOfTalker
<1> HIDE DEF D
<1>2. j \in Seq(D) /\ Joins(j, s, g)
  BY <1>1, SeqJoin
<1>3. a \in Nat /\ Len(g) \in Nat
  BY <1>1
<1> HIDE DEF j
<1>4. Len(j) = a + Len(g)
  BY <1>2 DEF Joins
<1>5. ASSUME NEW i \in 1..Len(j) PROVE j[i].talker = talker <=> (a < i /\ i <= a + Len(g))
  <2>2. CASE i <= a
    <3>1. i \in 1..Len(s)
      BY <2>2, <1>3
    <3>2. j[i].talker # talker
      BY <3>1, <1>2 DEF Joins, LacksTalker
    <3> QED  BY <2>2, <3>2, <1>3
  <2>3. CASE ~(i <= a)
    <3> DEFINE k == i - a
    <3>1. k \in 1..Len(g) /\ a + k = i
      BY <1>4, <2>3, <1>3
    <3> HIDE DEF k
    <3>2. j[a + k] = g[k]
      BY <3>1, <1>2 DEF Joins
    <3>3. j[i].talker = talker
      BY <3>1, <3>2 DEF AllOfTalker
    <3> QED  BY <2>3, <3>3, <1>3, <1>4
  <2> QED  BY <2>2, <2>3
<1>6. HoldsTalker(j, talker, g, a)
  BY <1>2, <1>3, <1>4, <1>5 DEF HoldsTalker, Joins, D
<1> QED  BY <1>6 DEF j

\* ... are still there when others follow ...
LEMMA HoldsStill ==
  ASSUME NEW talker, NEW s, NEW g, NEW a, Len(g) \in Nat, HoldsTalker(s, talker, g, a), NEW h, LacksTalker(h, talker)
  PROVE  HoldsTalker(s \o h, talker, g, a)
<1> DEFINE j == s \o h
           D == GsvRecords
<1>1. s \in Seq(D) /\ h \in Seq(D)
  BY DEF LacksTalker, HoldsTalker
<1> HIDE DEF D
<1>2. j \in Seq(D) /\ Joins(j, s, h)
  BY <1>1, SeqJoin
<1>3. a \in Nat /\ Len(s) \in Nat /\ Len(h) \in Nat /\ a + Len(g) <= Len(s)
  BY <1>1 DEF HoldsTalker
<1> HIDE DEF j
<1>4. Len(j) = Len(s) + Len(h)
  BY <1>2 DEF Joins
<1>5. ASSUME NEW i \in 1..Len(j) PROVE j[i].talker = talker <=> (a < i /\ i <= a + Len(g))
  <2>2. CASE i <= Len(s)
    <3>1. i \in 1..Len(s)
      BY <2>2, <1>3
    <3> QED  BY <3>1, <1>2 DEF Joins, HoldsTalker
  <2>3. CASE ~(i <= Len(s))
    <3> DEFINE k == i - Len(s)
    <3>1. k \in 1..Len(h) /\ Len(s) + k = i
      BY <1>4, <2>3, <1>3
    <3> HIDE DEF k
    <3>2. j[Len(s) + k] = h[k]
      BY <3>1, <1>2 DEF Joins
    <3>3. j[i].talker # talker
      BY <3>1, <3>2 DEF LacksTalker
    <3>4. ~(i <= a + Len(g))
      BY <2>3, <1>3
    <3> QED  BY <3>3, <3>4
  <2> QED  BY <2>2, <2>3
<1>6. ASSUME NEW k \in 1..Len(g) PROVE j[a + k] = g[k]
  <2>1. a + k \in 1..Len(s)
    BY <1>3
  <2>2. s[a + k] = g[k]
    BY DEF HoldsTalker
  <2> QED  BY <2>1, <2>2, <1>2 DEF Joins
<1>7. a + Len(g) <= Len(j)
  BY <1>3, <1>4
<1>8. HoldsTalker(j, talker, g, a)
  BY <1>2, <1>3, <1>5, <1>6, <1>7 DEF HoldsTalker, D
<1> QED  BY <1>8 DEF j

\* ... and are what a selection of that talker finds.
LEMMA HoldsSelected ==
  ASSUME NEW talker, NEW s, NEW g \in Seq(GsvRecords), NEW a, HoldsTalker(s, talker, g, a)
  PROVE  OfTalker(s, talker) = g
<1> DEFINE I == {i \in DOMAIN s : s[i].talker = talker}
           D == GsvRecords
           b == a + Len(g)
<1>1. s \in Seq(D) /\ DOMAIN s = 1..Len(s) /\ Len(g) \in Nat
  BY DEF HoldsTalker
<1>2. a \in Nat /\ b \in Nat /\ a <= b /\ b <= Len(s) /\ b - a = Len(g)
  BY <1>1 DEF HoldsTalker
<1>3. \A i \in 1..Len(s) : i \in I <=> a < i /\ i <= b
  BY <1>1 DEF HoldsTalker
<1> HIDE DEF I, D, b
<1>4. Places(Report!selected(s, I), s, a, b)
  BY <1>1, <1>2, <1>3, SelectedRange
<1>5. Report!selected(s, I) = [k \in 1..Len(g) |-> s[a + k]]
  BY <1>2, <1>4 DEF Places
<1>6. g = [k \in 1..Len(g) |-> g[k]]
  OBVIOUS
<1>7. \A k \in 1..Len(g) : s[a + k] = g[k]
  BY DEF HoldsTalker
<1> QED  BY <1>5, <1>6, <1>7 DEF OfTalker, I

\* Sentences of one talker only.
LEMMA HoldsWhole ==
  ASSUME NEW talker, NEW g, AllOfTalker(g, talker)
  PROVE  HoldsTalker(g, talker, g, 0)
<1>1. g \in Seq(GsvRecords) /\ Len(g) \in Nat
  BY DEF AllOfTalker
<1> QED  BY <1>1 DEF AllOfTalker, HoldsTalker

\* The sentences of satellites, for the three constellations that have a talker of their own.
LEMMA SvSentences ==
  ASSUME NEW svs \in Seq(SatRecords), NEW t \in {"GPS", "GLONASS", "GALILEO"}, NEW N, N = Report!generate_sv(svs)
  PROVE  GsvOf(OfTalker(N, OwnTalker(t)), Report!ofType(svs, t), Offset(t), OwnTalker(t))
<1> DEFINE none == [x \in Report!Types |-> {}]
           count == [x \in Report!Types |-> Len(Report!ofType(svs, x))]
           G(x) == Report!generate_GSV(svs, Report!sv_meta_init(none, count, x, FALSE))
           T == OwnTalker(t)
           D == GsvRecords
<1>1. /\ "GPS" \in Report!Types /\ "GLONASS" \in Report!Types /\ "GALILEO" \in Report!Types
      /\ "QZSS" \in Report!Types /\ "BEIDOU" \in Report!Types
  BY TypesAre
<1>2. N = (((G("GPS") \o G("GLONASS")) \o G("GALILEO")) \o G("QZSS")) \o G("BEIDOU")
  BY DEF Report!generate_sv
<1>3. \A x \in Report!Types : GsvOf(G(x), Report!ofType(svs, x), Offset(x), OwnTalker(x))
  <2> SUFFICES ASSUME NEW x \in Report!Types
               PROVE  GsvOf(G(x), Report!ofType(svs, x), Offset(x), OwnTalker(x))
    OBVIOUS
  <2>1. count[x] = Len(Report!ofType(svs, x))
    OBVIOUS
  <2> HIDE DEF none, count
  <2> QED  BY <2>1, GsvIs
<1> HIDE DEF G
<1>4. \A x \in Report!Types : AllOfTalker(G(x), OwnTalker(x))
  BY <1>3 DEF GsvOf, AllOfTalker
<1>5. \A x \in Report!Types : OwnTalker(x) # T => LacksTalker(G(x), T)
  BY <1>3 DEF GsvOf, LacksTalker
<1>6. \A x \in Report!Types : x # t => OwnTalker(x) # T
  BY TypesAre DEF OwnTalker
<1>7. \A x \in Report!Types : x # t => LacksTalker(G(x), T)
  BY <1>5, <1>6
<1>8. AllOfTalker(G(t), T) /\ G(t) \in Seq(D) /\ Len(G(t)) \in Nat
  <2>1. AllOfTalker(G(t), T)
    BY <1>1, <1>4
  <2>2. G(t) \in Seq(D)
    BY <2>1 DEF AllOfTalker
  <2> QED  BY <2>1, <2>2
<1> HIDE DEF T, D
<1> DEFINE g1 == G("GPS")
           g2 == G("GLONASS")
           g3 == G("GALILEO")
           g4 == G("QZSS")
           g5 == G("BEIDOU")
           s2 == g1 \o g2
           s3 == s2 \o g3
           s4 == s3 \o g4
           s5 == s4 \o g5
           g == G(t)
<1>9. LacksTalker(g4, T) /\ LacksTalker(g5, T)
  BY <1>1, <1>7
<1>10. \E a : HoldsTalker(s3, T, g, a)
  <2>1. CASE t = "GPS"
    <3>1. LacksTalker(g2, T) /\ LacksTalker(g3, T) /\ g = g1
      BY <2>1, <1>1, <1>7
    <3> HIDE DEF g1, g2, g3, g
    <3> DEFINE a == 0
    <3>2. HoldsTalker(g, T, g, a)
      BY <1>8, HoldsWhole DEF g
    <3>3. Len(g) \in Nat
      BY <1>8 DEF g
    <3> HIDE DEF a
    <3>4. HoldsTalker(g \o g2, T, g, a)
      BY <3>1, <3>2, <3>3, HoldsStill
    <3> DEFINE j == g \o g2
    <3>5. s2 = j
      BY <3>1
    <3> HIDE DEF j, s2
    <3>6. HoldsTalker(j \o g3, T, g, a)
      BY <3>1, <3>3, <3>4, HoldsStill DEF j
    <3> QED  BY <3>5, <3>6
  <2>2. CASE t = "GLONASS"
    <3>1. LacksTalker(g1, T) /\ LacksTalker(g3, T) /\ g = g2
      BY <2>2, <1>1, <1>7
    <3> HIDE DEF g1, g2, g3, g
    <3> DEFINE a == Len(g1)
    <3>3. Len(g) \in Nat /\ AllOfTalker(g, T)
      BY <1>8 DEF g
    <3>2. HoldsTalker(g1 \o g, T, g, Len(g1))
      BY <3>1, <3>3, HoldsFirst
    <3> HIDE DEF a
    <3> DEFINE j == g1 \o g
    <3>4. HoldsTalker(j, T, g, a)
      BY <3>2 DEF a
    <3>5. s2 = j
      BY <3>1
    <3> HIDE DEF j, s2
    <3>6. HoldsTalker(j \o g3, T, g, a)
      BY <3>1, <3>3, <3>4, HoldsStill
    <3> QED  BY <3>5, <3>6
  <2>3. CASE t = "GALILEO"
    <3>1. LacksTalker(g1, T) /\ LacksTalker(g2, T) /\ g = g3
      BY <2>3, <1>1, <1>7
    <3> HIDE DEF g1, g2, g3, g
    <3>2. LacksTalker(s2, T)
      BY <3>1, WithoutJoin
    <3>3. AllOfTalker(g, T)
      BY <1>8 DEF g
    <3> HIDE DEF s2
    <3>4. HoldsTalker(s2 \o g, T, g, Len(s2))
      BY <3>2, <3>3, HoldsFirst
    <3> QED  BY <3>1, <3>4
  <2> QED  BY <2>1, <2>2, <2>3
<1>11. PICK a : HoldsTalker(s3, T, g, a)
  BY <1>10
<1>12. g \in Seq(D) /\ Len(g) \in Nat
  BY <1>8
<1> HIDE DEF g, g4, g5, s3
<1>13. HoldsTalker(s4, T, g, a)
  BY <1>9, <1>11, <1>12, HoldsStill
<1> HIDE DEF s4
<1>14. HoldsTalker(s5, T, g, a)
  BY <1>9, <1>12, <1>13, HoldsStill
<1>15. N = s5
  BY <1>2 DEF s4, s3, g4, g5
<1> HIDE DEF s5
<1>16. OfTalker(s5, T) = g
  BY <1>12, <1>14, HoldsSelected DEF D
<1>17. GsvOf(g, Report!ofType(svs, t), Offset(t), T)
  BY <1>1, <1>3 DEF g, T
<1> QED  BY <1>15, <1>16, <1>17 DEF T

\* The satellites as they are handed to the sentences: those of QZSS have the numbers of the standard.
Renamed(svs) ==
  [i \in DOMAIN svs |-> IF svs[i].type = "QZSS" THEN [svs[i] EXCEPT !.svId = @ + 192] ELSE svs[i]]

\* The numbers of QZSS satellites are changed before; those of the others are not.
LEMMA RenamedIs ==
  ASSUME NEW svs \in Satellites
  PROVE  /\ svs \in Seq(SatRecords) /\ Renamed(svs) \in Seq(SatRecords)
         /\ \A t : t # "QZSS" => Report!ofType(Renamed(svs), t) = Report!ofType(svs, t)
<1> DEFINE R == [type : Report!Types, svId : Nat \ {0}, used : BOOLEAN]
           n == Len(svs)
           x(i) == IF svs[i].type = "QZSS" THEN [svs[i] EXCEPT !.svId = @ + 192] ELSE svs[i]
           r == Renamed(svs)
<1>1. svs \in Seq(R)
  BY AdapterAssumption DEF Report!ReportAssumption
<1>2. n \in Nat /\ DOMAIN svs = 1..n /\ \A i \in 1..n : svs[i] \in R
  <2> HIDE DEF R
  <2> QED  BY <1>1
<1>3. \A y \in R : /\ y \in SatRecords
                   /\ [y EXCEPT !.svId = @ + 192] \in SatRecords /\ [y EXCEPT !.svId = @ + 192].type = y.type
  BY DEF SatRecords
<1>4. svs \in Seq(SatRecords)
  <2>1. R \subseteq SatRecords
    BY <1>3
  <2> HIDE DEF R
  <2> QED  BY <1>1, <2>1, SeqWider
<1> HIDE DEF R, n
<1>5. \A i \in 1..n : x(i) \in SatRecords /\ x(i).type = svs[i].type /\ (svs[i].type # "QZSS" => x(i) = svs[i])
  BY <1>2, <1>3
<1>6. r = [i \in 1..n |-> x(i)]
  BY <1>2 DEF Renamed
<1> HIDE DEF x, r
<1>7. r \in Seq(SatRecords) /\ Len(r) = n /\ DOMAIN r = 1..n /\ \A i \in 1..n : r[i] = x(i)
  BY <1>2, <1>5, <1>6
<1>8. ASSUME NEW t, t # "QZSS" PROVE Report!ofType(r, t) = Report!ofType(svs, t)
  <2> DEFINE I == {i \in DOMAIN svs : svs[i].type = t}
             J == {i \in DOMAIN r : r[i].type = t}
  <2>1. J = I
    BY <1>2, <1>5, <1>7
  <2>2. \A i \in I \cap 1..Len(svs) : svs[i] = r[i]
    BY <1>2, <1>5, <1>7, <1>8
  <2>3. Len(svs) \in Nat /\ Len(r) = Len(svs)
    BY <1>2, <1>7 DEF n
  <2> HIDE DEF I, J
  <2>4. Report!selected(svs, I) = Report!selected(r, I)
    BY <2>2, <2>3, SelectedSame
  <2>5. Report!ofType(svs, t) = Report!selected(svs, I) /\ Report!ofType(r, t) = Report!selected(r, J)
    BY DEF Report!ofType, I, J
  <2> QED  BY <2>1, <2>4, <2>5
<1> QED  BY <1>4, <1>7, <1>8 DEF r

-----------------------------------------------------------------------------
(***************************************************************************)
(* The sentences there are were made of the report handled last.           *)
(***************************************************************************)
MadeOf(e) ==
  \/ e.kind = "position" /\ (nmea = Report!generate_pos(e.p, TRUE) \/ nmea = Report!blank)
  \/ e.kind = "sv" /\ nmea = Report!generate_sv(Renamed(e.svs))

NmeaInv == nmea = <<>> \/ (log # <<>> /\ MadeOf(Report!Newest))

\* What was appended is last.
LEMMA LastAdded == ASSUME NEW D, NEW l \in Seq(D), NEW e PROVE Append(l, e) # <<>> /\ Report!Last(Append(l, e)) = e
<1>1. Len(l) \in Nat /\ Len(Append(l, e)) = Len(l) + 1 /\ Append(l, e)[Len(l) + 1] = e
  OBVIOUS
<1> QED  BY <1>1 DEF Report!Last

\* Every step leaves sentences that were made of the report handled last.
LEMMA SentencesKept == ReportTypes /\ NmeaInv /\ [Report!Next]_(Report!vars) => NmeaInv'
<1> SUFFICES ASSUME ReportTypes, NmeaInv, [Report!Next]_(Report!vars) PROVE NmeaInv'
  OBVIOUS
<1>1. log \in Seq(AnyHandled)
  BY DEF ReportTypes
<1>2. ASSUME UNCHANGED <<log, nmea>> PROVE NmeaInv'
  BY <1>2 DEF NmeaInv, MadeOf, Report!Newest
<1>3. ASSUME NEW r, Report!reportPosition(r) PROVE NmeaInv'
  <2> DEFINE e == [n |-> r.n, kind |-> "position", p |-> r.p, to |-> IF Report!needReport(r.p) THEN Trackers ELSE {}]
  <2>1. log' = Append(log, e)
    BY <1>3 DEF Report!reportPosition
  <2>2. e.kind = "position" /\ e.p = r.p
    OBVIOUS
  <2>3. nmea' = Report!generate_pos(r.p, TRUE) \/ nmea' = Report!blank \/ nmea' = <<>>
    BY <1>3 DEF Report!reportPosition, Report!generate_pos
  <2> HIDE DEF e
  <2>4. log' # <<>> /\ Report!Newest' = e
    BY <1>1, <2>1, LastAdded DEF Report!Newest
  <2> QED  BY <2>2, <2>3, <2>4 DEF NmeaInv, MadeOf
<1>4. ASSUME NEW r, Report!reportSv(r) PROVE NmeaInv'
  <2>1. PICK marked : log' = Append(log, [n |-> r.n, kind |-> "sv", svs |-> r.svs, marked |-> marked])
    BY <1>4 DEF Report!reportSv
  <2> DEFINE e == [n |-> r.n, kind |-> "sv", svs |-> r.svs, marked |-> marked]
  <2>2. e.kind = "sv" /\ e.svs = r.svs /\ log' = Append(log, e)
    BY <2>1
  <2>3. nmea' = Report!generate_sv(Renamed(r.svs)) \/ nmea' = <<>>
    BY <1>4 DEF Report!reportSv, Renamed
  <2> HIDE DEF e
  <2>4. log' # <<>> /\ Report!Newest' = e
    BY <1>1, <2>2, LastAdded DEF Report!Newest
  <2> QED  BY <2>2, <2>3, <2>4 DEF NmeaInv, MadeOf
<1>5. CASE Report!handle
  <2>1. Report!reportPosition(Head(reports)) \/ Report!reportSv(Head(reports))
    BY <1>5 DEF Report!handle
  <2> QED  BY <2>1, <1>3, <1>4
<1>6. CASE ~Report!handle
  <2>1. UNCHANGED <<log, nmea>>
    BY <1>6 DEF Report!Next, Report!vars, Report!reportPositionEvent, Report!reportSvEvent, Report!fromUlp,
                Report!startOrStop
  <2> QED  BY <1>2, <2>1
<1> QED  BY <1>5, <1>6

\* The sentences of a position agree with each other and with it.
LEMMA PositionAgrees ==
  ASSUME NmeaInv, ReportTypes
  PROVE  Report!GgaCountsGsa /\ Report!TalkerSaysCombined
<1> SUFFICES ASSUME log # <<>>, Report!Newest.kind = "position", Report!Sentences("GGA") # <<>>
             PROVE  Report!GgaCountsGsa /\ Report!TalkerSaysCombined
  BY DEF Report!GgaCountsGsa, Report!TalkerSaysCombined, Report!Handled
<1> DEFINE e == Report!Newest
           p == e.p
           gsa == Report!Sentences("GSA")
           gga == Report!Sentences("GGA")[1]
           talker == Report!talkerOf(Report!usedMasks(p))
<1>1. gsa = OfId(nmea, "GSA") /\ gga = OfId(nmea, "GGA")[1]
  BY DEF OfId, Report!Sentences
<1>2. p \in Positions
  <2>1. log \in Seq(AnyHandled)
    BY DEF ReportTypes
  <2>2. log[Len(log)] \in AnyHandled
    BY <2>1
  <2>3. e \in AnyHandled /\ e.kind = "position"
    BY <2>2 DEF Report!Newest, Report!Last
  <2> HIDE DEF e
  <2> QED  BY <2>3 DEF AnyHandled, HandledPosition, HandledSv
<1>3. nmea # <<>>
  <2>1. ASSUME nmea = <<>> PROVE Report!Sentences("GGA") = <<>>
    <3> DEFINE I == {i \in DOMAIN nmea : nmea[i].id = "GGA"}
               D == Nat
               a == 0
    <3>1. nmea \in Seq(D) /\ Len(nmea) = 0
      BY <2>1
    <3>2. a \in Nat /\ a <= a /\ a <= Len(nmea) /\ \A i \in 1..Len(nmea) : i \in I <=> a < i /\ i <= a
      BY <3>1
    <3> HIDE DEF I, D, a
    <3>3. Places(Report!selected(nmea, I), nmea, a, a)
      BY <3>1, <3>2, SelectedRange
    <3>4. a - a = 0
      BY <3>2
    <3>5. Report!selected(nmea, I) = <<>>
      BY <3>3, <3>4 DEF Places
    <3> QED  BY <3>5 DEF Report!Sentences, I
  <2> QED  BY <2>1
<1>4. nmea = Report!generate_pos(p, TRUE) \/ nmea = Report!blank
  BY <1>3 DEF NmeaInv, MadeOf
<1> HIDE DEF e, gsa, gga
<1>5. /\ nmea # Report!blank => PositionSentences(nmea, p, talker)
      /\ \E x : PositionSentences(nmea, p, x)
  <2>1. PositionSentences(Report!generate_pos(p, TRUE), p, talker)
    BY <1>2, PositionIs
  <2>2. PositionSentences(Report!blank, p, "GP")
    BY BlankIs
  <2> HIDE DEF talker, p
  <2> QED  BY <1>4, <2>1, <2>2
<1> HIDE DEF p, talker
<1>6. PICK x : Counts(gsa, gga, p, x)
  BY <1>1, <1>5, GgaCounts
<1>7. nmea # Report!blank => gga.talker = talker
  <2>1. nmea # Report!blank => Counts(gsa, gga, p, talker)
    BY <1>1, <1>5, GgaCounts
  <2> QED  BY <2>1 DEF Counts
<1>8. Report!GgaCountsGsa
  BY <1>6 DEF Counts, Listing, Report!GgaCountsGsa, gsa, gga, p, e
<1>9. Report!TalkerSaysCombined
  <2> DEFINE used == Report!usedMasks(p)
  <2>1. ASSUME nmea # Report!blank, NEW t \in {"GPS", "GLONASS", "GALILEO"}, used[t] # {}
        PROVE  gga.talker = "GN" <=> \E y \in Report!Types \ {t} : used[y] # {}
    <3> HIDE DEF used
    <3>1. talker = Report!talkerOf(used)
      BY DEF talker, used
    <3>2. Report!talkerOf(used) = "GN" <=> \E y \in Report!Types \ {t} : used[y] # {}
      BY <2>1, TalkerIs
    <3> QED  BY <2>1, <3>1, <3>2, <1>7
  <2> QED  BY <2>1 DEF Report!TalkerSaysCombined, gga, p, e
<1> QED  BY <1>8, <1>9

\* The sentences of a satellite report list its satellites.
LEMMA SatellitesListed ==
  ASSUME NmeaInv, ReportTypes
  PROVE  Report!GsvListsAll
<1> SUFFICES ASSUME log # <<>>, Report!Newest.kind = "sv", nmea # <<>>, NEW t \in {"GPS", "GLONASS", "GALILEO"}
             PROVE  LET talker == [GPS |-> "GP", GLONASS |-> "GL", GALILEO |-> "GA"][t]
                        own    == Report!ofType(Report!Newest.svs, t)
                        gsv    == Report!selected(nmea, {i \in DOMAIN nmea : nmea[i].talker = talker}) IN
                    /\ Report!FlattenSeq([i \in DOMAIN gsv |-> gsv[i].svs])
                         = [i \in DOMAIN own |-> own[i].svId + (IF t = "GLONASS" THEN 64 ELSE 0)]
                    /\ \A i \in DOMAIN gsv : gsv[i].number = i /\ gsv[i].of = Len(gsv) /\ Len(gsv[i].svs) <= 4
  BY DEF Report!GsvListsAll, Report!Handled
<1> DEFINE e == Report!Newest
           svs == e.svs
           r == Renamed(svs)
           talker == OwnTalker(t)
           own == Report!ofType(svs, t)
           gsv == OfTalker(nmea, talker)
<1>1. svs \in Satellites
  <2>1. log \in Seq(AnyHandled)
    BY DEF ReportTypes
  <2>2. log[Len(log)] \in AnyHandled
    BY <2>1
  <2>3. e \in AnyHandled /\ e.kind = "sv"
    BY <2>2 DEF Report!Newest, Report!Last
  <2> HIDE DEF e
  <2> QED  BY <2>3 DEF AnyHandled, HandledPosition, HandledSv
<1>2. nmea = Report!generate_sv(r)
  BY DEF NmeaInv, MadeOf
<1>3. [GPS |-> "GP", GLONASS |-> "GL", GALILEO |-> "GA"][t] = talker
  BY DEF OwnTalker
<1> HIDE DEF e, svs, talker
<1>4. r \in Seq(SatRecords) /\ svs \in Seq(SatRecords) /\ Report!ofType(r, t) = own
  BY <1>1, RenamedIs
<1>5. own \in Seq(SatRecords)
  BY <1>4, OfTypeIs
<1> HIDE DEF r, own
<1>6. GsvOf(gsv, own, Offset(t), talker)
  <2>1. GsvOf(OfTalker(nmea, OwnTalker(t)), Report!ofType(r, t), Offset(t), OwnTalker(t))
    BY <1>2, <1>4, SvSentences
  <2> QED  BY <2>1, <1>4 DEF talker
<1> HIDE DEF gsv
<1>7. gsv \in Seq(GsvRecords)
  BY <1>6 DEF GsvOf
<1>8. DOMAIN gsv = 1..Len(gsv) /\ DOMAIN own = 1..Len(own)
  BY <1>5, <1>7
<1>9. Report!FlattenSeq([i \in DOMAIN gsv |-> gsv[i].svs])
        = [i \in DOMAIN own |-> own[i].svId + (IF t = "GLONASS" THEN 64 ELSE 0)]
  BY <1>6, <1>8 DEF GsvOf, SvIds, Offset
<1>10. \A i \in DOMAIN gsv : gsv[i].number = i /\ gsv[i].of = Len(gsv) /\ Len(gsv[i].svs) <= 4
  BY <1>6, <1>8 DEF GsvOf
<1> QED  BY <1>3, <1>9, <1>10 DEF gsv, own, svs, e, OfTalker

\* The sentences of a report agree with it and with each other: GSV list each satellite of GPS, GLONASS and Galileo
\* once, in numbered sentences of at most four; as long as no GSA is full, GGA counts what the GSA list, those of GPS,
\* GLONASS and Galileo under their own number; and where one of these three is used, the talker is GN iff there is
\* another constellation.  For any positions and any satellites in any order (loc_nmea_generate_pos and
\* loc_nmea_generate_sv, loc_nmea.cpp).
THEOREM SentencesAlwaysAgree == AdapterSpec => []SentencesAgree
<1>1. AdapterInit => ReportInv /\ NmeaInv
  <2>1. Report!Init => NmeaInv
    BY DEF Report!Init, NmeaInv
  <2> QED  BY <2>1, ReportsStart DEF AdapterInit
<1>2. ReportInv /\ NmeaInv /\ [AdapterNext]_allVars => ReportInv' /\ NmeaInv'
  <2>1. [AdapterNext]_allVars => [Report!Next]_(Report!vars)
    BY DEF AdapterNext, allVars, reportVars, Report!vars
  <2> QED  BY <2>1, ReportsKept, SentencesKept DEF ReportInv
<1>3. ReportInv /\ NmeaInv => SentencesAgree
  BY PositionAgrees, SatellitesListed DEF ReportInv, SentencesAgree, Report!SentencesAgree
<1> QED
  BY <1>1, <1>2, <1>3, PTL DEF AdapterSpec
=============================================================================
