--------------------------- MODULE LocTimerProofs ---------------------------
(***************************************************************************)
(* Proofs about LocTimer, for any timers, delays, starts and clock:        *)
(*   TypeCorrect         the type invariant;                               *)
(*   NoTimerIsForgotten  a running timer is in the heap or on its way;     *)
(*   SoonestStaysArmed   the timerfd is set for the soonest timer;         *)
(*   DeletedOnce         no delegate is deleted twice.                     *)
(***************************************************************************)
EXTENDS LocTimer, TLAPS, FiniteSetTheorems

\* What a queue holds after a message is appended: what it held, and the message.
LEMMA AppendHolds ==
  ASSUME NEW q \in Seq(TimerMessage), NEW m \in TimerMessage, NEW x
  PROVE  (\E i \in DOMAIN Append(q, m) : Append(q, m)[i] = x) <=> (\E i \in DOMAIN q : q[i] = x) \/ x = m
<1> DEFINE r == Append(q, m)
<1>1. Len(r) = Len(q) + 1 /\ r[Len(q) + 1] = m /\ DOMAIN r = 1..(Len(q) + 1) /\ Len(q) \in Nat
  OBVIOUS
<1>2. \A i \in DOMAIN q : i \in DOMAIN r /\ r[i] = q[i]
  OBVIOUS
<1>3. \A i \in DOMAIN r : i \in DOMAIN q \/ i = Len(q) + 1
  BY <1>1
<1> QED  BY <1>1, <1>2, <1>3

\* What a queue held before its head was consumed: what is left, and the head.
LEMMA TailHolds ==
  ASSUME NEW q \in Seq(TimerMessage), q # <<>>, NEW x
  PROVE  /\ Head(q) \in TimerMessage /\ Tail(q) \in Seq(TimerMessage)
         /\ (\E i \in DOMAIN q : q[i] = x) <=> (\E i \in DOMAIN Tail(q) : Tail(q)[i] = x) \/ x = Head(q)
<1> DEFINE r == Tail(q)
<1>1. Len(q) \in Nat \ {0} /\ DOMAIN q = 1..Len(q) /\ DOMAIN r = 1..(Len(q) - 1) /\ Head(q) = q[1]
  OBVIOUS
<1>2. \A i \in DOMAIN r : i + 1 \in DOMAIN q /\ r[i] = q[i + 1]
  BY <1>1
<1>3. \A i \in DOMAIN q : i = 1 \/ (i - 1 \in DOMAIN r /\ r[i - 1] = q[i])
  BY <1>1, <1>2
<1>4. 1 \in DOMAIN q /\ Head(q) \in TimerMessage /\ Tail(q) \in Seq(TimerMessage)
  BY <1>1
<1> QED  BY <1>1, <1>2, <1>3, <1>4

\* Messages are told apart by their kind and their timer.
LEMMA Messages ==
  ASSUME NEW d \in Delegates, NEW e \in Delegates
  PROVE  /\ Push(d) \in TimerMessage /\ Remove(d) \in TimerMessage /\ Expire \in TimerMessage
         /\ Push(d) # Remove(e) /\ Push(d) # Expire /\ Remove(d) # Expire
         /\ Push(d) = Push(e) => d = e
         /\ Remove(d) = Remove(e) => d = e
BY DEF Push, Remove, Expire, TimerMessage

-----------------------------------------------------------------------------
(***************************************************************************)
(* Types.                                                                  *)
(***************************************************************************)
LEMMA TaskTypes ==
  /\ Idle \in Task
  /\ SettingTime \in Task
BY DEF Idle, SettingTime, Task

\* The soonest delegates of a heap of delegates that were born have a time.
LEMMA SoonestTypes ==
  ASSUME TimerTypeOK, NEW d \in Soonest(mTree)
  PROVE  d \in mTree /\ d \in Delegates /\ mFutureTime[d] \in Time \cup {None}
BY DEF Soonest, TimerTypeOK

LEMMA DestroyTypes ==
  ASSUME TimerTypeOK, NEW d \in Delegates, destroyLocked(d)
  PROVE  /\ mTimer' \in [Timers -> Delegates \cup {None}]
         /\ mFutureTime' \in [Delegates -> Time \cup {None}]
         /\ mClient' \subseteq Delegates
         /\ taskQueue' \in Seq(TimerMessage)
<1>1. taskQueue' \in Seq(TimerMessage)
  BY Messages DEF destroyLocked, TimerTypeOK
<1> QED  BY <1>1 DEF destroyLocked, TimerTypeOK

LEMMA UpdateTypes ==
  ASSUME TimerTypeOK, NEW changed \in BOOLEAN, updateSoonestTime(changed)
  PROVE  /\ task' \in Task
         /\ armed' \in Time \cup {None} /\ polled' \in BOOLEAN
BY TaskTypes DEF updateSoonestTime, TimerTypeOK

LEMMA PopTypes ==
  ASSUME TimerTypeOK, NEW from \in Time, pop(from)
  PROVE  /\ mTree' \subseteq Delegates
         /\ task' \in Task
<1>1. PICK d \in Soonest(mTree) : pop(from)!(d)
  BY DEF pop
<1>2. d \in Delegates
  BY SoonestTypes
<1> QED  BY <1>1, <1>2 DEF TimerTypeOK, Task

LEMMA InitTypes == TimerInit => TimerTypeOK
<1> SUFFICES ASSUME TimerInit PROVE TimerTypeOK
  OBVIOUS
<1>1. now \in Time
  BY TimerBounds DEF TimerInit, Time
<1>2. mTimer \in [Timers -> Delegates \cup {None}]
  BY DEF TimerInit
<1>3. mFutureTime \in [Delegates -> Time \cup {None}]
  BY DEF TimerInit
<1>4. taskQueue \in Seq(TimerMessage)
  BY DEF TimerInit
<1> QED  BY <1>1, <1>2, <1>3, <1>4, TaskTypes DEF TimerInit, TimerTypeOK

LEMMA StepTypes == TimerTypeOK /\ [TimerNext]_timerVars => TimerTypeOK'
<1> SUFFICES ASSUME TimerTypeOK, [TimerNext]_timerVars PROVE TimerTypeOK'
  OBVIOUS
<1>1. ASSUME NEW t \in Timers, Stop(t) PROVE TimerTypeOK'
  <2>1. mTimer[t] \in Delegates
    BY <1>1 DEF Stop, TimerTypeOK
  <2> QED  BY <1>1, <2>1, DestroyTypes DEF Stop, TimerTypeOK, heap, fd
<1>2. ASSUME NEW t \in Timers, NEW delay \in Delays, Start(t, delay) PROVE TimerTypeOK'
  <2>1. PICK n \in 1..MaxStarts :
          /\ mFutureTime[<<t, n>>] = None
          /\ mTimer' = [mTimer EXCEPT ![t] = <<t, n>>]
          /\ mFutureTime' = [mFutureTime EXCEPT ![<<t, n>>] = now + delay]
          /\ mClient' = mClient \cup {<<t, n>>}
          /\ taskQueue' = Append(taskQueue, Push(<<t, n>>))
    BY <1>2 DEF Start
  <2>2. <<t, n>> \in Delegates
    BY DEF Delegates
  <2>3. now + delay \in Time
    BY <1>2, DelaysAssumption, TimerBounds DEF Start, Time, TimerTypeOK
  <2>4. taskQueue' \in Seq(TimerMessage)
    BY <2>1, <2>2, Messages DEF TimerTypeOK
  <2>5. mTimer' \in [Timers -> Delegates \cup {None}] /\ mClient' \subseteq Delegates
    BY <2>1, <2>2 DEF TimerTypeOK
  <2>6. mFutureTime' \in [Delegates -> Time \cup {None}]
    BY <2>1, <2>2, <2>3 DEF TimerTypeOK
  <2> QED  BY <1>2, <2>4, <2>5, <2>6 DEF Start, TimerTypeOK, heap, fd
<1>3. ASSUME NEW d \in Delegates, ProcessPush(d) PROVE TimerTypeOK'
  <2>1. taskQueue' \in Seq(TimerMessage)
    BY <1>3, TailHolds DEF ProcessPush, TakeMsg, TimerTypeOK
  <2>2. PICK changed \in BOOLEAN : updateSoonestTime(changed)
    BY <1>3 DEF ProcessPush
  <2> QED  BY <1>3, <2>1, <2>2, UpdateTypes DEF ProcessPush, TimerTypeOK, delegates
<1>4. ASSUME NEW d \in Delegates, ProcessRemove(d) PROVE TimerTypeOK'
  <2>1. taskQueue' \in Seq(TimerMessage)
    BY <1>4, TailHolds DEF ProcessRemove, TakeMsg, TimerTypeOK
  <2>2. PICK changed \in BOOLEAN : updateSoonestTime(changed)
    BY <1>4 DEF ProcessRemove
  <2> QED  BY <1>4, <2>1, <2>2, UpdateTypes DEF ProcessRemove, remove, TimerTypeOK, delegates
<1>5. CASE ProcessExpire
  <2>1. taskQueue' \in Seq(TimerMessage)
    BY <1>5, TailHolds DEF ProcessExpire, TakeMsg, TimerTypeOK
  <2>2. now \in Time
    BY DEF TimerTypeOK
  <2>3. mTree' \subseteq Delegates /\ task' \in Task
    BY <1>5, <2>2, PopTypes DEF ProcessExpire, TimerTypeOK
  <2> QED  BY <1>5, <2>1, <2>3 DEF ProcessExpire, TimerTypeOK, delegates, fd
<1>6. CASE StopClient
  <2> DEFINE t == clientOf(task.timer)
  <2>1. /\ mTimer' \in [Timers -> Delegates \cup {None}]
        /\ mFutureTime' \in [Delegates -> Time \cup {None}]
        /\ mClient' \subseteq Delegates
        /\ taskQueue' \in Seq(TimerMessage)
    <3>1. CASE mTimer[t] # None /\ mTimer[t] \in Delegates
      BY <1>6, <3>1, DestroyTypes DEF StopClient
    <3>2. CASE mTimer[t] = None
      BY <1>6, <3>2 DEF StopClient, TimerTypeOK, delegates
    <3>3. mTimer[t] \in Delegates \cup {None}
      BY <1>6 DEF StopClient, TimerTypeOK, Task, Delegates, clientOf
    <3> QED  BY <3>1, <3>2, <3>3
  <2>2. task' \in Task
    BY <1>6 DEF StopClient, TimerTypeOK, Task
  <2> QED  BY <1>6, <2>1, <2>2 DEF StopClient, TimerTypeOK, heap, fd
<1>7. CASE popIfOutRanks
  <2>1. task.now \in Time
    BY <1>7 DEF popIfOutRanks, TimerTypeOK, Task
  <2> QED  BY <1>7, <2>1, PopTypes DEF popIfOutRanks, TimerTypeOK, delegates, fd
<1>8. CASE EndExpire
  BY <1>8, UpdateTypes DEF EndExpire, TimerTypeOK, delegates, heap
<1>9. CASE SetTime
  <2>1. PICK d \in Soonest(mTree) : armed' = mFutureTime[d]
    BY <1>9 DEF SetTime
  <2> QED  BY <1>9, <2>1, SoonestTypes, TaskTypes DEF SetTime, TimerTypeOK, delegates, heap
<1>10. CASE PollTask
  <2>1. CASE WakeUp
    BY <2>1 DEF WakeUp, TimerTypeOK, delegates, heap, fd
  <2>2. CASE Disarm
    BY <2>2 DEF Disarm, TimerTypeOK, delegates, heap
  <2>3. CASE removePoll
    BY <2>3 DEF removePoll, TimerTypeOK, delegates, heap
  <2>4. CASE SendExpire
    <3>1. Expire \in TimerMessage
      BY DEF Expire, TimerMessage
    <3>2. taskQueue' \in Seq(TimerMessage)
      BY <2>4, <3>1 DEF SendExpire, TimerTypeOK
    <3> QED  BY <2>4, <3>2 DEF SendExpire, TimerTypeOK, delegates, heap, fd
  <2> QED  BY <1>10, <2>1, <2>2, <2>3, <2>4 DEF PollTask
<1>11. CASE Tick
  BY <1>11, TimerBounds DEF Tick, TimerTypeOK, Time, delegates, heap, fd
<1>12. CASE UNCHANGED timerVars
  BY <1>12 DEF timerVars, TimerTypeOK
<1> QED  BY <1>1, <1>2, <1>3, <1>4, <1>5, <1>6, <1>7, <1>8, <1>9, <1>10, <1>11, <1>12 DEF TimerNext, MsgTask

\* The timer service keeps its types, for any timers, delays and bounds.
THEOREM TypeCorrect == TimerSpec => []TimerTypeOK
<1> QED  BY InitTypes, StepTypes, PTL DEF TimerSpec

-----------------------------------------------------------------------------
(***************************************************************************)
(* No running timer is forgotten.                                          *)
(***************************************************************************)
\* A timer runs with a delegate of its own whose client is set.
OwnTimers ==
  \A t \in Timers : mTimer[t] # None => mTimer[t] \in mClient /\ clientOf(mTimer[t]) = t

\* Only delegates that were born are about.
KnownDelegates ==
  \A d \in Delegates :
    d \in mClient \cup mTree \/ InQueue(Push(d)) \/ InQueue(Remove(d)) => mFutureTime[d] # None

\* A delegate that is to be removed has lost its client.
RemovedHaveNoClient == \A d \in Delegates : InQueue(Remove(d)) => d \notin mClient

DelegatesInv == TimerTypeOK /\ OwnTimers /\ KnownDelegates /\ RemovedHaveNoClient /\ NoTimerForgotten

\* A message appended, or the head consumed, in terms of InQueue.
LEMMA Appended ==
  ASSUME TimerTypeOK, NEW m \in TimerMessage, taskQueue' = Append(taskQueue, m), NEW x
  PROVE  InQueue(x)' <=> InQueue(x) \/ x = m
BY AppendHolds DEF TimerTypeOK, InQueue

LEMMA Consumed ==
  ASSUME TimerTypeOK, NEW m, TakeMsg(m), NEW x
  PROVE  InQueue(x) <=> InQueue(x)' \/ x = m
BY TailHolds DEF TimerTypeOK, InQueue, TakeMsg

LEMMA Unqueued ==
  ASSUME taskQueue' = taskQueue, NEW x
  PROVE  InQueue(x)' <=> InQueue(x)
BY DEF InQueue

\* Stopping a running timer keeps the invariant; its delegate may be the one being expired.
LEMMA DestroyKeeps ==
  ASSUME DelegatesInv, NEW t \in Timers, mTimer[t] # None, destroyLocked(mTimer[t]), mTree' = mTree
  PROVE  /\ OwnTimers' /\ KnownDelegates' /\ RemovedHaveNoClient'
         /\ \A s \in Timers : mTimer'[s] = IF s = t THEN None ELSE mTimer[s]
         /\ \A d \in Delegates : InQueue(Push(d)) => InQueue(Push(d))'
<1> DEFINE gone == mTimer[t]
<1>1. gone \in Delegates /\ gone \in mClient /\ clientOf(gone) = t
  BY DEF DelegatesInv, OwnTimers, TimerTypeOK
<1>2. Remove(gone) \in TimerMessage
  BY <1>1, Messages
<1>3. /\ \A d \in Delegates : InQueue(Push(d))' <=> InQueue(Push(d))
      /\ \A d \in Delegates : InQueue(Remove(d))' <=> InQueue(Remove(d)) \/ d = gone
  <2>1. TimerTypeOK /\ taskQueue' = Append(taskQueue, Remove(gone))
    BY DEF DelegatesInv, destroyLocked
  <2>2. \A x : InQueue(x)' <=> InQueue(x) \/ x = Remove(gone)
    BY <1>2, <2>1, Appended
  <2> QED  BY <1>1, <2>2, Messages
<1>4. /\ \A s \in Timers : mTimer'[s] = IF s = t THEN None ELSE mTimer[s]
      /\ mClient' = mClient \ {gone} /\ mFutureTime' = mFutureTime
  BY <1>1 DEF destroyLocked, DelegatesInv, TimerTypeOK
<1>5. OwnTimers'
  <2> SUFFICES ASSUME NEW s \in Timers, mTimer'[s] # None
               PROVE  mTimer'[s] \in mClient' /\ clientOf(mTimer'[s]) = s
    BY DEF OwnTimers
  <2>1. s # t /\ mTimer'[s] = mTimer[s]
    BY <1>4
  <2>2. mTimer[s] \in mClient /\ clientOf(mTimer[s]) = s
    BY <2>1 DEF DelegatesInv, OwnTimers
  <2> QED  BY <1>1, <1>4, <2>1, <2>2
<1>6. KnownDelegates'
  BY <1>1, <1>3, <1>4 DEF KnownDelegates, DelegatesInv, TimerTypeOK
<1>7. RemovedHaveNoClient'
  BY <1>3, <1>4 DEF RemovedHaveNoClient, DelegatesInv
<1> QED  BY <1>3, <1>4, <1>5, <1>6, <1>7

\* Popping keeps the invariant: the delegate is expired if it still has a client.
LEMMA PopKeeps ==
  ASSUME DelegatesInv, NEW from, pop(from), UNCHANGED delegates, task.at # "expire",
         \A d \in Delegates : (InQueue(Push(d))' <=> InQueue(Push(d))) /\ (InQueue(Remove(d))' <=> InQueue(Remove(d)))
  PROVE  OwnTimers' /\ KnownDelegates' /\ RemovedHaveNoClient' /\ NoTimerForgotten'
<1>1. PICK d \in Soonest(mTree) : pop(from)!(d)
  BY DEF pop
<1>2. mTimer' = mTimer /\ mFutureTime' = mFutureTime /\ mClient' = mClient
  BY DEF delegates
<1>3. OwnTimers'
  BY <1>2 DEF OwnTimers, DelegatesInv
<1>4. KnownDelegates'
  BY <1>1, <1>2 DEF KnownDelegates, DelegatesInv
<1>5. RemovedHaveNoClient'
  BY <1>2 DEF RemovedHaveNoClient, DelegatesInv
<1>6. NoTimerForgotten'
  <2> SUFFICES ASSUME NEW t \in Timers, NEW e \in Delegates, mTimer[t] = e
               PROVE  e \in mTree' \/ InQueue(Push(e))' \/ (task'.at = "expire" /\ task'.timer = e)
    BY <1>2, NoneAssumption DEF NoTimerForgotten, DelegatesInv, TimerTypeOK
  <2>1. e \in mClient
    BY NoneAssumption DEF DelegatesInv, OwnTimers, Delegates
  <2>2. e \in mTree \/ InQueue(Push(e))
    BY NoneAssumption DEF DelegatesInv, NoTimerForgotten, Delegates
  <2>3. CASE e = d
    BY <1>1, <2>1, <2>3
  <2>4. CASE e # d
    BY <1>1, <2>2, <2>4
  <2> QED  BY <2>3, <2>4
<1> QED  BY <1>3, <1>4, <1>5, <1>6

\* What touches neither delegates, heap, queue nor the expiration keeps the invariant.
LEMMA StutterKeeps ==
  ASSUME DelegatesInv, UNCHANGED <<delegates, mTree>>,
         task.at # "expire" \/ task' = task,
         \A d \in Delegates : (InQueue(Push(d))' <=> InQueue(Push(d))) /\ (InQueue(Remove(d))' <=> InQueue(Remove(d)))
  PROVE  OwnTimers' /\ KnownDelegates' /\ RemovedHaveNoClient' /\ NoTimerForgotten'
<1>1. mTimer' = mTimer /\ mFutureTime' = mFutureTime /\ mClient' = mClient /\ mTree' = mTree
  BY DEF delegates
<1>2. OwnTimers' /\ KnownDelegates' /\ RemovedHaveNoClient'
  BY <1>1 DEF OwnTimers, KnownDelegates, RemovedHaveNoClient, DelegatesInv
<1>3. NoTimerForgotten'
  <2> SUFFICES ASSUME NEW t \in Timers, NEW e \in Delegates, mTimer[t] = e
               PROVE  e \in mTree \/ InQueue(Push(e))' \/ (task'.at = "expire" /\ task'.timer = e)
    BY <1>1, NoneAssumption DEF NoTimerForgotten, DelegatesInv, TimerTypeOK
  <2>1. e \in mTree \/ InQueue(Push(e)) \/ (task.at = "expire" /\ task.timer = e)
    BY NoneAssumption DEF DelegatesInv, NoTimerForgotten, Delegates
  <2> QED  BY <2>1
<1> QED  BY <1>2, <1>3

LEMMA InitDelegates == TimerInit => DelegatesInv
<1> SUFFICES ASSUME TimerInit PROVE DelegatesInv
  OBVIOUS
<1>1. TimerTypeOK
  BY InitTypes
<1>2. \A m : ~InQueue(m)
  BY DEF TimerInit, InQueue
<1> QED  BY <1>1, <1>2 DEF TimerInit, DelegatesInv, OwnTimers, KnownDelegates, RemovedHaveNoClient, NoTimerForgotten

LEMMA StepDelegates == DelegatesInv /\ [TimerNext]_timerVars => DelegatesInv'
<1> DEFINE Rest == OwnTimers /\ KnownDelegates /\ RemovedHaveNoClient /\ NoTimerForgotten
<1> SUFFICES ASSUME DelegatesInv, [TimerNext]_timerVars PROVE Rest'
  BY StepTypes DEF DelegatesInv
<1>0. TimerTypeOK /\ TimerTypeOK'
  BY StepTypes DEF DelegatesInv
<1>1. ASSUME NEW t \in Timers, Stop(t) PROVE Rest'
  <2>1. /\ OwnTimers' /\ KnownDelegates' /\ RemovedHaveNoClient'
        /\ \A s \in Timers : mTimer'[s] = IF s = t THEN None ELSE mTimer[s]
        /\ \A d \in Delegates : InQueue(Push(d)) => InQueue(Push(d))'
        /\ mTree' = mTree /\ task' = task
    BY <1>1, DestroyKeeps DEF Stop, heap
  <2>2. NoTimerForgotten'
    <3> SUFFICES ASSUME NEW s \in Timers, NEW d \in Delegates, mTimer'[s] = d
                 PROVE  d \in mTree \/ InQueue(Push(d))' \/ (task.at = "expire" /\ task.timer = d)
      BY <1>0, <2>1, NoneAssumption DEF NoTimerForgotten, TimerTypeOK
    <3>1. mTimer[s] = d
      BY <2>1, NoneAssumption DEF Delegates
    <3> QED  BY <2>1, <3>1, NoneAssumption DEF DelegatesInv, NoTimerForgotten, Delegates
  <2> QED  BY <2>1, <2>2
<1>2. ASSUME NEW t \in Timers, NEW delay \in Delays, Start(t, delay) PROVE Rest'
  <2>1. PICK n \in 1..MaxStarts :
          /\ mFutureTime[<<t, n>>] = None
          /\ mTimer' = [mTimer EXCEPT ![t] = <<t, n>>]
          /\ mFutureTime' = [mFutureTime EXCEPT ![<<t, n>>] = now + delay]
          /\ mClient' = mClient \cup {<<t, n>>}
          /\ taskQueue' = Append(taskQueue, Push(<<t, n>>))
    BY <1>2 DEF Start
  <2> DEFINE new == <<t, n>>
  <2>2. new \in Delegates /\ clientOf(new) = t
    BY DEF Delegates, clientOf
  <2>3. mTree' = mTree /\ task' = task
    BY <1>2 DEF Start, heap
  <2>4. /\ \A d \in Delegates : InQueue(Push(d))' <=> InQueue(Push(d)) \/ d = new
        /\ \A d \in Delegates : InQueue(Remove(d))' <=> InQueue(Remove(d))
    <3>1. Push(new) \in TimerMessage
      BY <2>2, Messages
    <3>2. \A x : InQueue(x)' <=> InQueue(x) \/ x = Push(new)
      BY <1>0, <2>1, <3>1, Appended
    <3> QED  BY <2>2, <3>2, Messages
  <2>5. now + delay # None
    BY <1>0, <1>2, DelaysAssumption, NoneAssumption DEF TimerTypeOK, Time
  <2>6. \A s \in Timers : mTimer'[s] = IF s = t THEN new ELSE mTimer[s]
    BY <1>0, <2>1 DEF TimerTypeOK
  <2>7. \A d \in Delegates : mFutureTime'[d] = IF d = new THEN now + delay ELSE mFutureTime[d]
    BY <1>0, <2>1, <2>2 DEF TimerTypeOK
  <2> HIDE DEF new
  <2>8. OwnTimers'
    <3> SUFFICES ASSUME NEW s \in Timers, mTimer'[s] # None
                 PROVE  mTimer'[s] \in mClient' /\ clientOf(mTimer'[s]) = s
      BY DEF OwnTimers
    <3>1. CASE s = t
      BY <2>1, <2>2, <2>6, <3>1 DEF new
    <3>2. CASE s # t
      BY <2>1, <2>6, <3>2 DEF DelegatesInv, OwnTimers
    <3> QED  BY <3>1, <3>2
  <2>9. KnownDelegates'
    <3> SUFFICES ASSUME NEW d \in Delegates, d # new,
                        d \in mClient' \cup mTree' \/ InQueue(Push(d))' \/ InQueue(Remove(d))'
                 PROVE  mFutureTime[d] # None
      BY <2>5, <2>7 DEF KnownDelegates
    <3>1. d \in mClient \cup mTree \/ InQueue(Push(d)) \/ InQueue(Remove(d))
      BY <2>1, <2>3, <2>4 DEF new
    <3> QED  BY <3>1 DEF DelegatesInv, KnownDelegates
  <2>10. RemovedHaveNoClient'
    <3>1. ~InQueue(Remove(new))
      BY <2>1, <2>2 DEF DelegatesInv, KnownDelegates, new
    <3> QED  BY <2>1, <2>4, <3>1 DEF RemovedHaveNoClient, DelegatesInv, new
  <2>11. NoTimerForgotten'
    <3> SUFFICES ASSUME NEW s \in Timers, NEW d \in Delegates, mTimer'[s] = d
                 PROVE  d \in mTree \/ InQueue(Push(d))' \/ (task.at = "expire" /\ task.timer = d)
      BY <1>0, <2>3, NoneAssumption DEF NoTimerForgotten, TimerTypeOK
    <3>1. CASE s = t
      BY <2>4, <2>6, <3>1
    <3>2. CASE s # t
      <4>1. mTimer[s] = d
        BY <2>6, <3>2
      <4> QED  BY <2>4, <4>1, NoneAssumption DEF DelegatesInv, NoTimerForgotten, Delegates
    <3> QED  BY <3>1, <3>2
  <2> QED  BY <2>8, <2>9, <2>10, <2>11
<1>3. ASSUME NEW d \in Delegates, ProcessPush(d) PROVE Rest'
  <2>1. /\ \A e \in Delegates : InQueue(Push(e)) <=> InQueue(Push(e))' \/ e = d
        /\ \A e \in Delegates : InQueue(Remove(e)) <=> InQueue(Remove(e))'
    <3>1. \A x : InQueue(x) <=> InQueue(x)' \/ x = Push(d)
      BY <1>0, <1>3, Consumed DEF ProcessPush
    <3> QED  BY <3>1, Messages
  <2>2. mTimer' = mTimer /\ mFutureTime' = mFutureTime /\ mClient' = mClient /\ mTree' = mTree \cup {d}
    BY <1>3 DEF ProcessPush, delegates
  <2>3. task.at # "expire"
    BY <1>3 DEF ProcessPush, TakeMsg, Idle
  <2>4. OwnTimers' /\ RemovedHaveNoClient'
    BY <2>1, <2>2 DEF OwnTimers, RemovedHaveNoClient, DelegatesInv
  <2>5. KnownDelegates'
    BY <2>1, <2>2 DEF KnownDelegates, DelegatesInv
  <2>6. NoTimerForgotten'
    <3> SUFFICES ASSUME NEW t \in Timers, NEW e \in Delegates, mTimer[t] = e
                 PROVE  e \in mTree' \/ InQueue(Push(e))'
      BY <1>0, <2>2, NoneAssumption DEF NoTimerForgotten, TimerTypeOK
    <3>1. e \in mTree \/ InQueue(Push(e))
      BY <2>3, NoneAssumption DEF DelegatesInv, NoTimerForgotten, Delegates
    <3> QED  BY <2>1, <2>2, <3>1
  <2> QED  BY <2>4, <2>5, <2>6
<1>4. ASSUME NEW d \in Delegates, ProcessRemove(d) PROVE Rest'
  <2>1. /\ \A e \in Delegates : InQueue(Remove(e)) <=> InQueue(Remove(e))' \/ e = d
        /\ \A e \in Delegates : InQueue(Push(e)) <=> InQueue(Push(e))'
    <3>1. \A x : InQueue(x) <=> InQueue(x)' \/ x = Remove(d)
      BY <1>0, <1>4, Consumed DEF ProcessRemove
    <3> QED  BY <3>1, Messages
  <2>2. mTimer' = mTimer /\ mFutureTime' = mFutureTime /\ mClient' = mClient /\ mTree' = mTree \ {d}
    BY <1>4 DEF ProcessRemove, remove, delegates
  <2>3. task.at # "expire" /\ d \notin mClient
    BY <1>4, <2>1 DEF ProcessRemove, TakeMsg, Idle, DelegatesInv, RemovedHaveNoClient
  <2>4. OwnTimers' /\ RemovedHaveNoClient'
    BY <2>1, <2>2 DEF OwnTimers, RemovedHaveNoClient, DelegatesInv
  <2>5. KnownDelegates'
    BY <2>1, <2>2 DEF KnownDelegates, DelegatesInv
  <2>6. NoTimerForgotten'
    <3> SUFFICES ASSUME NEW t \in Timers, NEW e \in Delegates, mTimer[t] = e
                 PROVE  e \in mTree' \/ InQueue(Push(e))'
      BY <1>0, <2>2, NoneAssumption DEF NoTimerForgotten, TimerTypeOK
    <3>1. e \in mTree \/ InQueue(Push(e))
      BY <2>3, NoneAssumption DEF DelegatesInv, NoTimerForgotten, Delegates
    <3>2. e # d
      BY <2>3, NoneAssumption DEF DelegatesInv, OwnTimers, Delegates
    <3> QED  BY <2>1, <2>2, <3>1, <3>2
  <2> QED  BY <2>4, <2>5, <2>6
<1>5. CASE ProcessExpire
  <2>1. \A e \in Delegates : (InQueue(Push(e))' <=> InQueue(Push(e))) /\ (InQueue(Remove(e))' <=> InQueue(Remove(e)))
    <3>1. \A x : InQueue(x) <=> InQueue(x)' \/ x = Expire
      BY <1>0, <1>5, Consumed DEF ProcessExpire
    <3> QED  BY <3>1, Messages
  <2>2. task.at # "expire" /\ UNCHANGED delegates
    BY <1>5 DEF ProcessExpire, TakeMsg, Idle
  <2>3. CASE mTree = {}
    BY <1>5, <2>1, <2>2, <2>3, StutterKeeps DEF ProcessExpire
  <2>4. CASE mTree # {}
    <3>1. pop(now)
      BY <1>5, <2>4 DEF ProcessExpire
    <3> QED  BY <2>1, <2>2, <3>1, PopKeeps
  <2> QED  BY <2>3, <2>4
<1>6. CASE StopClient
  <2> DEFINE t == clientOf(task.timer)
  <2>1. task.timer \in Delegates /\ t \in Timers /\ mTree' = mTree /\ task'.at = "loop"
    BY <1>0, <1>6 DEF StopClient, heap, TimerTypeOK, Task, Delegates, clientOf
  <2>2. CASE mTimer[t] = None
    <3>1. UNCHANGED <<delegates, taskQueue>>
      BY <1>6, <2>2 DEF StopClient
    <3>2. mTimer' = mTimer /\ mFutureTime' = mFutureTime /\ mClient' = mClient
      BY <3>1 DEF delegates
    <3>3. \A x : InQueue(x)' <=> InQueue(x)
      BY <3>1, Unqueued
    <3>4. OwnTimers' /\ KnownDelegates' /\ RemovedHaveNoClient'
      BY <2>1, <3>2, <3>3 DEF OwnTimers, KnownDelegates, RemovedHaveNoClient, DelegatesInv
    <3>5. NoTimerForgotten'
      <4> SUFFICES ASSUME NEW s \in Timers, NEW d \in Delegates, mTimer[s] = d
                   PROVE  d \in mTree \/ InQueue(Push(d))'
        BY <1>0, <2>1, <3>2, NoneAssumption DEF NoTimerForgotten, TimerTypeOK
      <4>1. clientOf(d) = s /\ d # None
        BY NoneAssumption DEF DelegatesInv, OwnTimers, Delegates
      <4>2. d # task.timer
        BY <2>2, <4>1
      <4> QED  BY <3>3, <4>1, <4>2 DEF DelegatesInv, NoTimerForgotten
    <3> QED  BY <3>4, <3>5
  <2>3. CASE mTimer[t] # None
    <3>1. /\ OwnTimers' /\ KnownDelegates' /\ RemovedHaveNoClient'
          /\ \A s \in Timers : mTimer'[s] = IF s = t THEN None ELSE mTimer[s]
          /\ \A d \in Delegates : InQueue(Push(d)) => InQueue(Push(d))'
      <4>1. destroyLocked(mTimer[t])
        BY <1>6, <2>3 DEF StopClient
      <4> HIDE DEF t
      <4> QED  BY <2>1, <2>3, <4>1, DestroyKeeps
    <3>2. NoTimerForgotten'
      <4> SUFFICES ASSUME NEW s \in Timers, NEW d \in Delegates, mTimer'[s] = d
                   PROVE  d \in mTree \/ InQueue(Push(d))'
        BY <1>0, <2>1, NoneAssumption DEF NoTimerForgotten, TimerTypeOK
      <4>1. s # t /\ mTimer[s] = d /\ d # None
        BY <3>1, NoneAssumption DEF Delegates
      <4>2. d # task.timer
        BY <4>1 DEF DelegatesInv, OwnTimers
      <4> QED  BY <3>1, <4>1, <4>2 DEF DelegatesInv, NoTimerForgotten
    <3> QED  BY <3>1, <3>2
  <2> QED  BY <2>2, <2>3
<1>7. CASE popIfOutRanks
  <2>1. \A x : InQueue(x)' <=> InQueue(x)
    BY <1>7, Unqueued DEF popIfOutRanks
  <2> QED  BY <1>7, <2>1, PopKeeps DEF popIfOutRanks
<1>8. CASE EndExpire \/ SetTime
  <2>1. \A x : InQueue(x)' <=> InQueue(x)
    BY <1>8, Unqueued DEF EndExpire, SetTime
  <2>2. task.at # "expire" /\ UNCHANGED <<delegates, mTree>>
    BY <1>8 DEF EndExpire, SetTime, SettingTime, heap
  <2> QED  BY <2>1, <2>2, StutterKeeps
<1>9. CASE PollTask
  <2>1. \A e \in Delegates : (InQueue(Push(e))' <=> InQueue(Push(e))) /\ (InQueue(Remove(e))' <=> InQueue(Remove(e)))
    <3>1. CASE taskQueue' = taskQueue
      BY <3>1, Unqueued
    <3>2. CASE taskQueue' = Append(taskQueue, Expire)
      <4>1. Expire \in TimerMessage
        BY DEF Expire, TimerMessage
      <4>2. \A x : InQueue(x)' <=> InQueue(x) \/ x = Expire
        BY <1>0, <3>2, <4>1, Appended
      <4> QED  BY <4>2, Messages
    <3> QED  BY <1>9, <3>1, <3>2 DEF PollTask, WakeUp, Disarm, removePoll, SendExpire
  <2>2. task' = task /\ UNCHANGED <<delegates, mTree>>
    BY <1>9 DEF PollTask, WakeUp, Disarm, removePoll, SendExpire, heap
  <2> QED  BY <2>1, <2>2, StutterKeeps
<1>10. CASE Tick \/ UNCHANGED timerVars
  <2>1. \A x : InQueue(x)' <=> InQueue(x)
    BY <1>10, Unqueued DEF Tick, timerVars
  <2>2. task' = task /\ UNCHANGED <<delegates, mTree>>
    BY <1>10 DEF Tick, timerVars, heap, delegates
  <2> QED  BY <2>1, <2>2, StutterKeeps
<1> QED
  BY <1>1, <1>2, <1>3, <1>4, <1>5, <1>6, <1>7, <1>8, <1>9, <1>10 DEF TimerNext, MsgTask

\* No interleaving of starts, stops and expirations loses a running timer, however many
\* timers there are.
THEOREM NoTimerIsForgotten == TimerSpec => []NoTimerForgotten
<1>1. DelegatesInv => NoTimerForgotten
  BY DEF DelegatesInv
<1> QED  BY <1>1, InitDelegates, StepDelegates, PTL DEF TimerSpec

-----------------------------------------------------------------------------
(***************************************************************************)
(* The timerfd is set for the soonest timer.                               *)
(***************************************************************************)
\* No expiration is under way outside the message task.
Quiet == poller = "wait" /\ ~InQueue(Expire)

Armed == polled /\ \E d \in Soonest(mTree) : armed = mFutureTime[d]

\* The two system calls of updateSoonestTime(): after the first the fd is polled, after
\* the second it is set.
ArmedInv ==
  /\ task.at = "setTime" => mTree # {} /\ (Quiet => polled)
  /\ task.at = "idle" /\ mTree # {} /\ Quiet => Armed

FdInv == DelegatesInv /\ ArmedInv

\* Delegates in the heap have a time.
LEMMA HeapTimes ==
  ASSUME DelegatesInv, NEW d \in mTree
  PROVE  d \in Delegates /\ mFutureTime[d] \in Nat
<1>1. d \in Delegates
  BY DEF DelegatesInv, TimerTypeOK
<1>2. mFutureTime[d] \in Time
  BY <1>1 DEF DelegatesInv, TimerTypeOK, KnownDelegates
<1> QED  BY <1>1, <1>2, TimerBounds DEF Time

\* A step that keeps the heap, its times, the fd and the expiration keeps the invariant.
LEMMA ArmedStutter ==
  ASSUME ArmedInv, mTree' = mTree, \A d \in mTree : mFutureTime'[d] = mFutureTime[d],
         UNCHANGED <<task, fd, poller>>, InQueue(Expire)' <=> InQueue(Expire)
  PROVE  ArmedInv'
<1>1. armed' = armed /\ polled' = polled
  BY DEF fd
<1>2. Soonest(mTree)' = Soonest(mTree)
  BY DEF Soonest
<1>3. Armed => Armed'
  <2> SUFFICES ASSUME Armed PROVE Armed'
    OBVIOUS
  <2>1. PICK d \in Soonest(mTree) : armed = mFutureTime[d]
    BY DEF Armed
  <2>2. d \in mTree
    BY DEF Soonest
  <2> QED  BY <1>1, <1>2, <2>1, <2>2 DEF Armed
<1> QED  BY <1>1, <1>3 DEF ArmedInv, Quiet

LEMMA StepArmed == FdInv /\ [TimerNext]_timerVars => ArmedInv'
<1> SUFFICES ASSUME DelegatesInv, ArmedInv, [TimerNext]_timerVars PROVE ArmedInv'
  BY DEF FdInv
<1>0. TimerTypeOK /\ task \in Task
  BY DEF DelegatesInv, TimerTypeOK
<1>1. ASSUME NEW t \in Timers, Stop(t) PROVE ArmedInv'
  <2>1. mTimer[t] \in Delegates
    BY <1>0, <1>1 DEF Stop, TimerTypeOK
  <2>2. Remove(mTimer[t]) \in TimerMessage /\ Expire # Remove(mTimer[t])
    BY <2>1, Messages
  <2>3. InQueue(Expire)' <=> InQueue(Expire)
    <3>1. taskQueue' = Append(taskQueue, Remove(mTimer[t]))
      BY <1>1 DEF Stop, destroyLocked
    <3> QED  BY <1>0, <2>2, <3>1, Appended
  <2> QED  BY <1>1, <2>3, ArmedStutter DEF Stop, destroyLocked, heap
<1>2. ASSUME NEW t \in Timers, NEW delay \in Delays, Start(t, delay) PROVE ArmedInv'
  <2>1. PICK n \in 1..MaxStarts :
          /\ mFutureTime[<<t, n>>] = None
          /\ mFutureTime' = [mFutureTime EXCEPT ![<<t, n>>] = now + delay]
          /\ taskQueue' = Append(taskQueue, Push(<<t, n>>))
    BY <1>2 DEF Start
  <2>2. <<t, n>> \in Delegates
    BY DEF Delegates
  <2>3. InQueue(Expire)' <=> InQueue(Expire)
    <3>1. Push(<<t, n>>) \in TimerMessage /\ Expire # Push(<<t, n>>)
      BY <2>2, Messages
    <3> QED  BY <1>0, <2>1, <3>1, Appended
  <2>4. \A d \in mTree : mFutureTime'[d] = mFutureTime[d]
    <3> SUFFICES ASSUME NEW d \in mTree PROVE mFutureTime'[d] = mFutureTime[d]
      OBVIOUS
    <3>1. d \in Delegates /\ d # <<t, n>>
      BY <2>1, HeapTimes, NoneAssumption
    <3> QED  BY <1>0, <2>1, <3>1 DEF TimerTypeOK
  <2> QED  BY <1>2, <2>3, <2>4, ArmedStutter DEF Start, heap
<1>3. ASSUME NEW d \in Delegates, ProcessPush(d) PROVE ArmedInv'
  <2> DEFINE changed == \A e \in mTree : mFutureTime[d] < mFutureTime[e]
  <2>1. mTree' = mTree \cup {d} /\ mFutureTime' = mFutureTime /\ poller' = poller
        /\ task.at = "idle" /\ updateSoonestTime(changed)
    BY <1>3 DEF ProcessPush, TakeMsg, Idle, delegates
  <2>2. InQueue(Expire)' <=> InQueue(Expire)
    BY <1>0, <1>3, Consumed, Messages DEF ProcessPush
  <2>3. CASE changed
    BY <2>1, <2>3 DEF ArmedInv, updateSoonestTime, SettingTime
  <2>4. CASE ~changed
    <3>1. task' = Idle /\ armed' = armed /\ polled' = polled
      BY <2>1, <2>4, <1>0 DEF updateSoonestTime, TimerTypeOK
    <3>2. PICK e \in mTree : ~(mFutureTime[d] < mFutureTime[e])
      BY <2>4
    <3>3. ASSUME Quiet' PROVE Armed'
      <4>1. PICK f \in Soonest(mTree) : polled /\ armed = mFutureTime[f]
        BY <2>1, <2>2, <3>2, <3>3 DEF ArmedInv, Armed, Quiet
      <4>2. f \in mTree /\ \A g \in mTree : mFutureTime[f] <= mFutureTime[g]
        BY DEF Soonest
      <4>3. mFutureTime[e] \in Nat /\ mFutureTime[f] \in Nat /\ mFutureTime[d] \in Nat
        <5>1. InQueue(Push(d))
          BY <1>0, <1>3, Consumed DEF ProcessPush
        <5>2. mFutureTime[d] \in Time
          BY <1>0, <5>1 DEF DelegatesInv, KnownDelegates, TimerTypeOK
        <5> QED  BY <3>2, <4>2, <5>2, HeapTimes, TimerBounds DEF Time
      <4>4. mFutureTime[f] <= mFutureTime[d]
        BY <3>2, <4>2, <4>3
      <4>5. f \in Soonest(mTree)'
        BY <2>1, <4>2, <4>4 DEF Soonest
      <4> QED  BY <2>1, <3>1, <4>1, <4>5 DEF Armed
    <3> QED  BY <3>1, <3>3 DEF ArmedInv, Idle
  <2> QED  BY <2>3, <2>4
<1>4. ASSUME NEW d \in Delegates, ProcessRemove(d) PROVE ArmedInv'
  <2>1. mTree' = mTree \ {d} /\ mFutureTime' = mFutureTime /\ poller' = poller /\ task.at = "idle"
    BY <1>4 DEF ProcessRemove, remove, TakeMsg, Idle, delegates
  <2>2. InQueue(Expire)' <=> InQueue(Expire)
    BY <1>0, <1>4, Consumed, Messages DEF ProcessRemove
  <2>3. PICK isTop \in BOOLEAN :
          /\ isTop => d \in Soonest(mTree)
          /\ Soonest(mTree) = {d} => isTop
          /\ updateSoonestTime(isTop /\ mTree' # {})
    BY <1>4 DEF ProcessRemove
  <2>4. CASE isTop /\ mTree' # {}
    BY <2>3, <2>4 DEF ArmedInv, updateSoonestTime, SettingTime
  <2>5. CASE mTree' = {}
    BY <2>3, <2>5 DEF ArmedInv, updateSoonestTime, Idle
  <2>6. CASE ~isTop
    <3>1. task' = Idle /\ armed' = armed /\ polled' = polled
      BY <2>3, <2>6, <1>0 DEF updateSoonestTime, TimerTypeOK
    <3>2. ASSUME Quiet', mTree' # {} PROVE Armed'
      <4>1. PICK f \in Soonest(mTree) : polled /\ armed = mFutureTime[f]
        BY <2>1, <2>2, <3>2 DEF ArmedInv, Armed, Quiet
      <4>2. PICK g \in Soonest(mTree) : g # d
        BY <2>3, <2>6, <4>1
      <4>3. g \in mTree' /\ g \in mTree /\ f \in mTree
        BY <2>1, <4>2 DEF Soonest
      <4>4. mFutureTime[g] = mFutureTime[f]
        <5>1. mFutureTime[g] <= mFutureTime[f] /\ mFutureTime[f] <= mFutureTime[g]
          BY <4>3 DEF Soonest
        <5> QED  BY <4>3, <5>1, HeapTimes
      <4>5. g \in Soonest(mTree)'
        BY <2>1, <4>3 DEF Soonest
      <4> QED  BY <2>1, <3>1, <4>1, <4>4, <4>5 DEF Armed
    <3> QED  BY <3>1, <3>2 DEF ArmedInv, Idle
  <2> QED  BY <2>4, <2>5, <2>6
<1>5. CASE ProcessExpire
  BY <1>5 DEF ProcessExpire, pop, ArmedInv, TakeMsg, Idle
<1>6. CASE StopClient
  BY <1>6 DEF StopClient, ArmedInv
<1>7. CASE popIfOutRanks
  BY <1>7 DEF popIfOutRanks, pop, ArmedInv
<1>8. CASE EndExpire
  <2>1. CASE mTree # {}
    BY <1>8, <2>1 DEF EndExpire, updateSoonestTime, SettingTime, ArmedInv, heap
  <2>2. CASE mTree = {}
    BY <1>8, <2>2 DEF EndExpire, updateSoonestTime, Idle, ArmedInv, heap
  <2> QED  BY <2>1, <2>2
<1>9. CASE SetTime
  <2>1. PICK d \in Soonest(mTree) : armed' = mFutureTime[d]
    BY <1>9 DEF SetTime
  <2>2. /\ mTree' = mTree /\ mFutureTime' = mFutureTime /\ polled' = polled /\ poller' = poller
        /\ taskQueue' = taskQueue /\ task.at = "setTime" /\ task'.at = "idle"
    BY <1>9 DEF SetTime, SettingTime, Idle, heap, delegates
  <2>3. InQueue(Expire)' <=> InQueue(Expire)
    BY <2>2, Unqueued
  <2>4. d \in Soonest(mTree)'
    BY <2>2 DEF Soonest
  <2> QED  BY <2>1, <2>2, <2>3, <2>4 DEF ArmedInv, Armed, Quiet
<1>10. CASE PollTask
  <2>1. CASE SendExpire
    <3>1. Expire \in TimerMessage
      BY DEF Expire, TimerMessage
    <3>2. InQueue(Expire)'
      BY <1>0, <2>1, <3>1, Appended DEF SendExpire
    <3> QED  BY <2>1, <3>2 DEF SendExpire, ArmedInv, Quiet, heap
  <2>2. CASE WakeUp \/ Disarm \/ removePoll
    BY <2>2 DEF WakeUp, Disarm, removePoll, ArmedInv, Quiet, heap
  <2> QED  BY <1>10, <2>1, <2>2 DEF PollTask
<1>11. CASE Tick \/ UNCHANGED timerVars
  <2>1. InQueue(Expire)' <=> InQueue(Expire)
    BY <1>11, Unqueued DEF Tick, timerVars
  <2> QED  BY <1>11, <2>1, ArmedStutter DEF Tick, timerVars, heap, delegates, fd
<1> QED
  BY <1>1, <1>2, <1>3, <1>4, <1>5, <1>6, <1>7, <1>8, <1>9, <1>10, <1>11 DEF TimerNext, MsgTask

\* Whenever no expiration is under way, the timerfd is polled and set to the soonest time
\* of the heap: the unlocked system calls of the two threads never leave it unset.
THEOREM SoonestStaysArmed == TimerSpec => []SoonestIsArmed
<1>1. TimerInit => FdInv
  <2> SUFFICES ASSUME TimerInit PROVE FdInv
    OBVIOUS
  <2>1. ArmedInv
    BY DEF TimerInit, ArmedInv, Idle
  <2> QED  BY <2>1, InitDelegates DEF FdInv
<1>2. FdInv /\ [TimerNext]_timerVars => FdInv'
  BY StepDelegates, StepArmed DEF FdInv
<1>3. FdInv => SoonestIsArmed
  <2> SUFFICES ASSUME FdInv, mTree # {}, task = Idle, Quiet, NEW d \in Soonest(mTree)
               PROVE  polled /\ armed = mFutureTime[d]
    BY DEF SoonestIsArmed, Quiet, FdInv, ArmedInv, Idle, Armed
  <2>1. PICK f \in Soonest(mTree) : polled /\ armed = mFutureTime[f]
    BY DEF FdInv, ArmedInv, Armed, Idle
  <2>2. d \in mTree /\ f \in mTree /\ mFutureTime[d] <= mFutureTime[f] /\ mFutureTime[f] <= mFutureTime[d]
    BY DEF Soonest
  <2>3. mFutureTime[d] \in Nat /\ mFutureTime[f] \in Nat
    BY <2>2, HeapTimes DEF FdInv
  <2> QED  BY <2>1, <2>2, <2>3
<1> QED  BY <1>1, <1>2, <1>3, PTL DEF TimerSpec

-----------------------------------------------------------------------------
(***************************************************************************)
(* Every delegate is deleted once, and nothing reaches a deleted one.      *)
(***************************************************************************)
Copies(q, x) == {i \in DOMAIN q : q[i] = x}
Removals(d) == Cardinality(Copies(taskQueue, Remove(d)))

\* A delegate is pushed before it is removed, and is deleted after it was born.
PushFirst ==
  \A d \in Delegates : \A i, j \in DOMAIN taskQueue :
    taskQueue[i] = Push(d) /\ taskQueue[j] = Remove(d) => i < j
FreedBorn == \A d \in Delegates : d \in freed => mFutureTime[d] # None

DeletedInv == DelegatesInv /\ PushFirst /\ FreedBorn /\ FreedOnce

\* How many copies of a message a queue holds after one is appended or its head consumed.
LEMMA CopiesAppend ==
  ASSUME NEW q \in Seq(TimerMessage), NEW m \in TimerMessage, NEW x
  PROVE  /\ Cardinality(Copies(q, x)) \in Nat
         /\ Cardinality(Copies(Append(q, m), x)) = Cardinality(Copies(q, x)) + (IF m = x THEN 1 ELSE 0)
<1>1. IsFiniteSet(DOMAIN q)
  BY FS_Interval
<1>2. IsFiniteSet(Copies(q, x)) /\ Cardinality(Copies(q, x)) \in Nat
  BY <1>1, FS_Subset, FS_CardinalityType DEF Copies
<1>3. /\ DOMAIN Append(q, m) = DOMAIN q \cup {Len(q) + 1} /\ Len(q) + 1 \notin DOMAIN q
      /\ \A i \in DOMAIN q : Append(q, m)[i] = q[i]
      /\ Append(q, m)[Len(q) + 1] = m
  OBVIOUS
<1>4. CASE m = x
  <2>1. Copies(Append(q, m), x) = Copies(q, x) \cup {Len(q) + 1} /\ Len(q) + 1 \notin Copies(q, x)
    BY <1>3, <1>4 DEF Copies
  <2>2. Cardinality(Copies(q, x) \cup {Len(q) + 1}) = Cardinality(Copies(q, x)) + 1
    BY <1>2, <2>1, FS_AddElement
  <2> QED  BY <1>2, <1>4, <2>1, <2>2
<1>5. CASE m # x
  <2>1. Copies(Append(q, m), x) = Copies(q, x)
    BY <1>3, <1>5 DEF Copies
  <2> QED  BY <1>2, <1>5, <2>1
<1> QED  BY <1>4, <1>5

LEMMA CopiesTail ==
  ASSUME NEW q \in Seq(TimerMessage), q # <<>>, NEW x
  PROVE  /\ Cardinality(Copies(Tail(q), x)) \in Nat
         /\ Cardinality(Copies(q, x)) = Cardinality(Copies(Tail(q), x)) + (IF Head(q) = x THEN 1 ELSE 0)
<1> DEFINE rest == Copies(q, x) \ {1}
           f == [i \in Copies(Tail(q), x) |-> i + 1]
<1>1. IsFiniteSet(DOMAIN q) /\ IsFiniteSet(DOMAIN Tail(q))
  BY FS_Interval
<1>2. IsFiniteSet(Copies(q, x)) /\ IsFiniteSet(Copies(Tail(q), x))
  BY <1>1, FS_Subset DEF Copies
<1>3. /\ DOMAIN q = 1..Len(q) /\ DOMAIN Tail(q) = 1..Len(q) - 1 /\ Len(q) \in Nat \ {0}
      /\ \A i \in DOMAIN Tail(q) : Tail(q)[i] = q[i + 1]
  OBVIOUS
<1>4. f \in Bijection(Copies(Tail(q), x), rest)
  <2>1. \A i \in Copies(Tail(q), x) : i + 1 \in rest
    BY <1>3 DEF Copies
  <2>2. \A j \in rest : j - 1 \in Copies(Tail(q), x) /\ j = (j - 1) + 1
    BY <1>3 DEF Copies
  <2>3. \A i, j \in Copies(Tail(q), x) : i + 1 = j + 1 => i = j
    BY <1>3 DEF Copies
  <2> QED  BY <2>1, <2>2, <2>3 DEF Bijection, Injection, Surjection, IsInjective
<1>5. Cardinality(Copies(Tail(q), x)) = Cardinality(rest)
  BY <1>2, <1>4, FS_Bijection DEF ExistsBijection
<1>6. 1 \in Copies(q, x) <=> Head(q) = x
  BY <1>3 DEF Copies
<1> HIDE DEF f
<1>7. /\ Cardinality(Copies(q, x)) \in Nat /\ Cardinality(Copies(Tail(q), x)) \in Nat
      /\ Cardinality(rest) = IF 1 \in Copies(q, x) THEN Cardinality(Copies(q, x)) - 1
                             ELSE Cardinality(Copies(q, x))
  BY <1>2, FS_CardinalityType, FS_RemoveElement
<1> QED  BY <1>5, <1>6, <1>7

\* FreedOnce in terms of Removals, before and after a step.
LEMMA FreedOnceCounts ==
  /\ FreedOnce <=> \A d \in Delegates :
       /\ d \in freed => d \notin mTree \cup mClient /\ ~InQueue(Push(d)) /\ task.timer # d
       /\ mFutureTime[d] # None /\ d \notin mClient => Removals(d) = IF d \in freed THEN 0 ELSE 1
  /\ FreedOnce' <=> \A d \in Delegates :
       /\ d \in freed' => d \notin mTree' \cup mClient' /\ ~InQueue(Push(d))' /\ task'.timer # d
       /\ mFutureTime'[d] # None /\ d \notin mClient' =>
            Cardinality(Copies(taskQueue', Remove(d))) = IF d \in freed' THEN 0 ELSE 1
BY Zenon DEF FreedOnce, Removals, Copies, Remove

\* A queue without a message holds no copy of it.
LEMMA NoCopies ==
  ASSUME NEW x, ~InQueue(x)
  PROVE  Cardinality(Copies(taskQueue, x)) = 0
<1>1. Copies(taskQueue, x) = {}
  BY DEF Copies, InQueue
<1> QED  BY <1>1, FS_EmptySet

LEMMA PushFirstAppend ==
  ASSUME PushFirst, taskQueue \in Seq(TimerMessage), NEW m \in TimerMessage, taskQueue' = Append(taskQueue, m),
         \A d \in Delegates : m = Push(d) => ~InQueue(Remove(d))
  PROVE  PushFirst'
<1> SUFFICES ASSUME NEW d \in Delegates, NEW i \in DOMAIN taskQueue', NEW j \in DOMAIN taskQueue',
                    taskQueue'[i] = Push(d), taskQueue'[j] = Remove(d)
             PROVE  i < j
  BY DEF PushFirst, Push, Remove
<1>1. /\ DOMAIN taskQueue = 1..Len(taskQueue) /\ Len(taskQueue) \in Nat
      /\ \A k \in DOMAIN taskQueue' : k \in Nat /\ (k \in DOMAIN taskQueue \/ k = Len(taskQueue) + 1)
      /\ \A k \in DOMAIN taskQueue : taskQueue'[k] = taskQueue[k]
      /\ taskQueue'[Len(taskQueue) + 1] = m
  OBVIOUS
<1>2. CASE i \in DOMAIN taskQueue /\ j \in DOMAIN taskQueue
  BY <1>1, <1>2 DEF PushFirst
<1>3. CASE i \in DOMAIN taskQueue /\ j = Len(taskQueue) + 1
  BY <1>1, <1>3
<1>4. CASE i = Len(taskQueue) + 1
  <2>1. m = Push(d) /\ m # Remove(d)
    BY <1>1, <1>4, Messages
  <2>2. j \in DOMAIN taskQueue /\ taskQueue[j] = Remove(d)
    BY <1>1, <2>1
  <2> QED  BY <2>1, <2>2 DEF InQueue
<1> QED  BY <1>1, <1>2, <1>3, <1>4

LEMMA PushFirstTail ==
  ASSUME PushFirst, taskQueue \in Seq(TimerMessage), taskQueue # <<>>, taskQueue' = Tail(taskQueue)
  PROVE  PushFirst'
<1> SUFFICES ASSUME NEW d \in Delegates, NEW i \in DOMAIN taskQueue', NEW j \in DOMAIN taskQueue',
                    taskQueue'[i] = Push(d), taskQueue'[j] = Remove(d)
             PROVE  i < j
  BY DEF PushFirst, Push, Remove
<1>1. \A k \in DOMAIN taskQueue' : k \in Nat /\ k + 1 \in DOMAIN taskQueue /\ taskQueue'[k] = taskQueue[k + 1]
  OBVIOUS
<1>2. i + 1 < j + 1
  BY <1>1 DEF PushFirst
<1> QED  BY <1>1, <1>2

\* A step that deletes nothing and adds neither a Push nor a Remove keeps the invariant.
LEMMA DeletedStutter ==
  ASSUME DeletedInv, UNCHANGED <<freed, mFutureTime, mClient>>, mTree' \subseteq mTree,
         task'.timer \in mTree \cup {None, task.timer},
         PushFirst',
         \A d \in Delegates : /\ InQueue(Push(d))' => InQueue(Push(d))
                              /\ Cardinality(Copies(taskQueue', Remove(d))) = Removals(d)
  PROVE  FreedBorn' /\ FreedOnce'
<1>1. FreedBorn'
  BY DEF FreedBorn, DeletedInv
<1>2. ASSUME NEW d \in Delegates, d \in freed
      PROVE  d \notin mTree' \cup mClient' /\ ~InQueue(Push(d))' /\ task'.timer # d
  <2>1. d \notin mTree \cup mClient /\ ~InQueue(Push(d)) /\ task.timer # d
    BY <1>2 DEF DeletedInv, FreedOnce
  <2> QED  BY <2>1, NoneAssumption DEF Delegates
<1>3. ASSUME NEW d \in Delegates, mFutureTime[d] # None, d \notin mClient
      PROVE  Cardinality(Copies(taskQueue', Remove(d))) = IF d \in freed THEN 0 ELSE 1
  BY <1>3, FreedOnceCounts DEF DeletedInv
<1> QED  BY <1>1, <1>2, <1>3, FreedOnceCounts

\* A message that is no Remove of a delegate leaves the number of its removals.
LEMMA SameRemovals ==
  ASSUME TimerTypeOK, NEW d \in Delegates, NEW m \in TimerMessage, m # Remove(d),
         taskQueue' = Append(taskQueue, m) \/ (taskQueue # <<>> /\ Head(taskQueue) = m /\ taskQueue' = Tail(taskQueue))
  PROVE  Cardinality(Copies(taskQueue', Remove(d))) = Removals(d)
<1>1. taskQueue \in Seq(TimerMessage)
  BY DEF TimerTypeOK
<1>2. CASE taskQueue' = Append(taskQueue, m)
  BY <1>1, <1>2, CopiesAppend DEF Removals
<1>3. CASE taskQueue # <<>> /\ Head(taskQueue) = m /\ taskQueue' = Tail(taskQueue)
  BY <1>1, <1>3, CopiesTail DEF Removals
<1> QED  BY <1>2, <1>3

\* A stopped timer loses its delegate, of which one Remove is queued.
LEMMA DestroyDeletes ==
  ASSUME DeletedInv, NEW t \in Timers, mTimer[t] # None, destroyLocked(mTimer[t]),
         UNCHANGED <<mTree, freed>>, task'.timer \in {None, task.timer}
  PROVE  PushFirst' /\ FreedBorn' /\ FreedOnce'
<1> DEFINE gone == mTimer[t]
<1>1. /\ TimerTypeOK /\ taskQueue \in Seq(TimerMessage)
      /\ gone \in Delegates /\ gone \in mClient
  BY DEF DeletedInv, DelegatesInv, OwnTimers, TimerTypeOK
<1>2. /\ mClient' = mClient \ {gone} /\ taskQueue' = Append(taskQueue, Remove(gone))
      /\ mFutureTime' = mFutureTime /\ Remove(gone) \in TimerMessage
  BY <1>1, Messages DEF destroyLocked
<1> HIDE DEF gone
<1>3. PushFirst'
  BY <1>1, <1>2, Messages, PushFirstAppend DEF DeletedInv
<1>4. FreedBorn'
  BY <1>2 DEF FreedBorn, DeletedInv
<1>5. ASSUME NEW d \in Delegates, d \in freed
      PROVE  d \notin mTree' \cup mClient' /\ ~InQueue(Push(d))' /\ task'.timer # d
  <2>1. d \notin mTree \cup mClient /\ ~InQueue(Push(d)) /\ task.timer # d
    BY <1>5 DEF DeletedInv, FreedOnce
  <2>2. ~InQueue(Push(d))'
    BY <1>1, <1>2, <2>1, Appended, Messages
  <2> QED  BY <1>2, <2>1, <2>2, NoneAssumption DEF Delegates
<1>6. ASSUME NEW d \in Delegates, mFutureTime[d] # None, d \notin mClient'
      PROVE  Cardinality(Copies(taskQueue', Remove(d))) = IF d \in freed THEN 0 ELSE 1
  <2>1. CASE d = gone
    <3>1. ~InQueue(Remove(d)) /\ d \notin freed
      BY <1>1, <2>1 DEF DeletedInv, DelegatesInv, RemovedHaveNoClient, FreedOnce
    <3>2. Cardinality(Copies(taskQueue, Remove(d))) = 0
      BY <3>1, NoCopies
    <3> QED  BY <1>1, <1>2, <2>1, <3>1, <3>2, CopiesAppend
  <2>2. CASE d # gone
    <3>1. Cardinality(Copies(taskQueue', Remove(d))) = Removals(d)
      BY <1>1, <1>2, <2>2, SameRemovals, Messages
    <3> QED  BY <1>2, <1>6, <2>2, <3>1, FreedOnceCounts DEF DeletedInv
  <2> QED  BY <2>1, <2>2
<1> QED  BY <1>2, <1>3, <1>4, <1>5, <1>6, FreedOnceCounts

LEMMA StepDeletes ==
  ASSUME DeletedInv, [TimerNext]_timerVars
  PROVE  PushFirst' /\ FreedBorn' /\ FreedOnce'
<1> DEFINE Rest == PushFirst /\ FreedBorn /\ FreedOnce
<1>0. /\ TimerTypeOK /\ taskQueue \in Seq(TimerMessage) /\ PushFirst /\ DelegatesInv
  BY DEF DeletedInv, DelegatesInv, TimerTypeOK
<1>1. ASSUME NEW t \in Timers, Stop(t) PROVE Rest'
  BY <1>1, DestroyDeletes DEF Stop, heap
<1>2. ASSUME NEW t \in Timers, NEW delay \in Delays, Start(t, delay) PROVE Rest'
  <2>1. PICK n \in 1..MaxStarts :
          /\ mFutureTime[<<t, n>>] = None
          /\ mFutureTime' = [mFutureTime EXCEPT ![<<t, n>>] = now + delay]
          /\ mClient' = mClient \cup {<<t, n>>}
          /\ taskQueue' = Append(taskQueue, Push(<<t, n>>))
    BY <1>2 DEF Start
  <2> DEFINE new == <<t, n>>
  <2>2. new \in Delegates /\ Push(new) \in TimerMessage
    BY Messages DEF Delegates
  <2>3. UNCHANGED <<mTree, freed, task>>
    BY <1>2 DEF Start, heap
  <2>4. mFutureTime[new] = None /\ new \notin freed /\ ~InQueue(Remove(new))
    BY <1>0, <2>1, <2>2 DEF DeletedInv, FreedBorn, DelegatesInv, KnownDelegates
  <2>5. \A d \in Delegates : d # new => mFutureTime'[d] = mFutureTime[d]
    BY <1>0, <2>1 DEF TimerTypeOK
  <2>6. mClient' = mClient \cup {new} /\ taskQueue' = Append(taskQueue, Push(new))
    BY <2>1
  <2> HIDE DEF new
  <2>7. PushFirst'
    BY <1>0, <2>2, <2>4, <2>6, PushFirstAppend, Messages
  <2>8. FreedBorn'
    BY <2>3, <2>4, <2>5 DEF FreedBorn, DeletedInv
  <2>9. ASSUME NEW d \in Delegates, d \in freed
        PROVE  d \notin mTree' \cup mClient' /\ ~InQueue(Push(d))' /\ task'.timer # d
    <3>1. d # new /\ d \notin mTree \cup mClient /\ ~InQueue(Push(d)) /\ task.timer # d
      BY <2>4, <2>9 DEF DeletedInv, FreedOnce
    <3>2. ~InQueue(Push(d))'
      BY <1>0, <2>2, <2>6, <3>1, Appended, Messages
    <3> QED  BY <2>3, <2>6, <3>1, <3>2
  <2>10. ASSUME NEW d \in Delegates, mFutureTime'[d] # None, d \notin mClient'
         PROVE  Cardinality(Copies(taskQueue', Remove(d))) = IF d \in freed THEN 0 ELSE 1
    <3>1. d # new /\ d \notin mClient /\ mFutureTime[d] # None
      BY <2>5, <2>6, <2>10
    <3>2. Cardinality(Copies(taskQueue', Remove(d))) = Removals(d)
      BY <1>0, <2>2, <2>6, SameRemovals, Messages
    <3> QED  BY <3>1, <3>2, FreedOnceCounts DEF DeletedInv
  <2> QED  BY <2>3, <2>7, <2>8, <2>9, <2>10, FreedOnceCounts
<1>3. ASSUME NEW d \in Delegates, ProcessPush(d) PROVE Rest'
  <2>1. /\ taskQueue # <<>> /\ Head(taskQueue) = Push(d) /\ taskQueue' = Tail(taskQueue) /\ Push(d) \in TimerMessage
        /\ mTree' = mTree \cup {d} /\ UNCHANGED <<freed, mFutureTime, mClient>>
        /\ task'.timer = None
    BY <1>3, Messages DEF ProcessPush, TakeMsg, updateSoonestTime, delegates, SettingTime, Idle
  <2>2. PushFirst'
    BY <1>0, <2>1, PushFirstTail
  <2>3. \A e \in Delegates : InQueue(Push(e))' => InQueue(Push(e))
    BY <1>0, <1>3, Consumed DEF ProcessPush
  <2>4. InQueue(Push(d))
    BY <1>0, <1>3, Consumed DEF ProcessPush
  <2>5. FreedBorn'
    BY <2>1 DEF FreedBorn, DeletedInv
  <2>6. ASSUME NEW e \in Delegates, e \in freed
        PROVE  e \notin mTree' \cup mClient' /\ ~InQueue(Push(e))' /\ task'.timer # e
    <3>1. e \notin mTree \cup mClient /\ ~InQueue(Push(e))
      BY <2>6 DEF DeletedInv, FreedOnce
    <3>2. e # d /\ e # None
      BY <2>4, <3>1, NoneAssumption DEF Delegates
    <3> QED  BY <2>1, <2>3, <3>1, <3>2
  <2>7. ASSUME NEW e \in Delegates, mFutureTime[e] # None, e \notin mClient
        PROVE  Cardinality(Copies(taskQueue', Remove(e))) = IF e \in freed THEN 0 ELSE 1
    <3>1. Cardinality(Copies(taskQueue', Remove(e))) = Removals(e)
      BY <1>0, <2>1, SameRemovals, Messages
    <3> QED  BY <2>7, <3>1, FreedOnceCounts DEF DeletedInv
  <2> QED  BY <2>1, <2>2, <2>5, <2>6, <2>7, FreedOnceCounts
<1>4. ASSUME NEW d \in Delegates, ProcessRemove(d) PROVE Rest'
  <2>1. /\ taskQueue # <<>> /\ Head(taskQueue) = Remove(d) /\ taskQueue' = Tail(taskQueue) /\ Remove(d) \in TimerMessage
        /\ mTree' = mTree \ {d} /\ freed' = freed \cup {d} /\ UNCHANGED <<mFutureTime, mClient>>
        /\ task'.timer = None
    BY <1>4, Messages
    DEF ProcessRemove, TakeMsg, updateSoonestTime, delegates, SettingTime, Idle, remove
  <2>2. PushFirst'
    BY <1>0, <2>1, PushFirstTail
  <2>3. \A e \in Delegates : InQueue(Push(e))' => InQueue(Push(e))
    BY <1>0, <1>4, Consumed DEF ProcessRemove
  <2>4. InQueue(Remove(d))
    BY <1>0, <1>4, Consumed DEF ProcessRemove
  <2>5. d \notin mClient /\ mFutureTime[d] # None
    BY <1>0, <2>4 DEF DelegatesInv, RemovedHaveNoClient, KnownDelegates
  <2>6. ~InQueue(Push(d))'
    <3> SUFFICES ASSUME NEW i \in DOMAIN taskQueue', taskQueue'[i] = Push(d) PROVE FALSE
      BY DEF InQueue, Push
    <3>1. i \in Nat \ {0} /\ i + 1 \in DOMAIN taskQueue /\ taskQueue[i + 1] = Push(d)
      BY <1>0, <2>1
    <3>2. 1 \in DOMAIN taskQueue /\ taskQueue[1] = Remove(d)
      BY <1>0, <2>1
    <3>3. i + 1 < 1
      BY <1>0, <3>1, <3>2 DEF PushFirst
    <3> QED  BY <3>1, <3>3
  <2>7. FreedBorn'
    BY <2>1, <2>5 DEF FreedBorn, DeletedInv
  <2>8. ASSUME NEW e \in Delegates, e \in freed'
        PROVE  e \notin mTree' \cup mClient' /\ ~InQueue(Push(e))' /\ task'.timer # e
    <3>1. CASE e = d
      BY <2>1, <2>5, <2>6, <3>1, NoneAssumption DEF Delegates
    <3>2. CASE e # d
      <4>1. e \notin mTree \cup mClient /\ ~InQueue(Push(e))
        BY <2>1, <2>8, <3>2 DEF DeletedInv, FreedOnce
      <4> QED  BY <2>1, <2>3, <4>1, NoneAssumption DEF Delegates
    <3> QED  BY <3>1, <3>2
  <2>9. ASSUME NEW e \in Delegates, mFutureTime[e] # None, e \notin mClient
        PROVE  Cardinality(Copies(taskQueue', Remove(e))) = IF e \in freed' THEN 0 ELSE 1
    <3>1. Removals(e) = IF e \in freed THEN 0 ELSE 1
      BY <2>9, FreedOnceCounts DEF DeletedInv
    <3>2. CASE e = d
      <4>1. /\ Cardinality(Copies(taskQueue', Remove(d))) \in Nat
            /\ Cardinality(Copies(taskQueue, Remove(d))) = Cardinality(Copies(taskQueue', Remove(d))) + 1
        BY <1>0, <2>1, CopiesTail
      <4> QED  BY <2>1, <3>1, <3>2, <4>1 DEF Removals
    <3>3. CASE e # d
      <4>1. Cardinality(Copies(taskQueue', Remove(e))) = Removals(e)
        BY <1>0, <2>1, <3>3, SameRemovals, Messages
      <4> QED  BY <2>1, <3>1, <3>3, <4>1
    <3> QED  BY <3>2, <3>3
  <2> QED  BY <2>1, <2>2, <2>7, <2>8, <2>9, FreedOnceCounts
<1>5. ASSUME UNCHANGED <<taskQueue, freed, mFutureTime, mClient>>, mTree' \subseteq mTree,
             task'.timer \in mTree \cup {None, task.timer}
      PROVE  Rest'
  <2>1. PushFirst'
    BY <1>0, <1>5 DEF PushFirst, Push, Remove
  <2>2. \A d \in Delegates : /\ InQueue(Push(d))' => InQueue(Push(d))
                             /\ Cardinality(Copies(taskQueue', Remove(d))) = Removals(d)
    BY <1>5, Unqueued DEF Removals
  <2> QED  BY <1>5, <2>1, <2>2, DeletedStutter
<1>6. ASSUME NEW from, pop(from) PROVE mTree' \subseteq mTree /\ task'.timer \in mTree \cup {None}
  BY <1>6 DEF pop, Soonest
<1>7. CASE ProcessExpire
  <2>1. /\ taskQueue # <<>> /\ Head(taskQueue) = Expire /\ taskQueue' = Tail(taskQueue) /\ Expire \in TimerMessage
        /\ UNCHANGED <<freed, mFutureTime, mClient>>
    BY <1>7 DEF ProcessExpire, TakeMsg, delegates, Expire, TimerMessage
  <2>2. mTree' \subseteq mTree /\ task'.timer \in mTree \cup {None, task.timer}
    BY <1>6, <1>7 DEF ProcessExpire
  <2>3. PushFirst'
    BY <1>0, <2>1, PushFirstTail
  <2>4. \A d \in Delegates : InQueue(Push(d))' => InQueue(Push(d))
    BY <1>0, <1>7, Consumed DEF ProcessExpire
  <2>5. \A d \in Delegates : Cardinality(Copies(taskQueue', Remove(d))) = Removals(d)
    BY <1>0, <2>1, SameRemovals, Messages
  <2> QED  BY <2>1, <2>2, <2>3, <2>4, <2>5, DeletedStutter
<1>8. CASE StopClient
  <2> DEFINE t == clientOf(task.timer)
  <2>1. t \in Timers /\ UNCHANGED <<mTree, freed>> /\ task'.timer = None
    BY <1>0, <1>8 DEF StopClient, heap, TimerTypeOK, Task, Delegates, clientOf
  <2>2. CASE mTimer[t] = None
    BY <1>5, <1>8, <2>1, <2>2 DEF StopClient, delegates
  <2>3. CASE mTimer[t] # None
    <3>1. destroyLocked(mTimer[t])
      BY <1>8, <2>3 DEF StopClient
    <3> HIDE DEF t
    <3> QED  BY <2>1, <2>3, <3>1, DestroyDeletes
  <2> QED  BY <2>2, <2>3
<1>9. CASE popIfOutRanks
  BY <1>5, <1>6, <1>9 DEF popIfOutRanks, delegates
<1>10. CASE EndExpire \/ SetTime
  BY <1>5, <1>10
  DEF EndExpire, SetTime, updateSoonestTime, SettingTime, Idle, delegates, heap
<1>11. CASE SendExpire
  <2>1. /\ taskQueue' = Append(taskQueue, Expire) /\ Expire \in TimerMessage
        /\ UNCHANGED <<freed, mFutureTime, mClient, mTree, task>>
    BY <1>11 DEF SendExpire, delegates, heap, Expire, TimerMessage
  <2>2. PushFirst'
    BY <1>0, <2>1, PushFirstAppend, Messages
  <2>3. \A d \in Delegates : InQueue(Push(d))' => InQueue(Push(d))
    BY <1>0, <2>1, Appended, Messages
  <2>4. \A d \in Delegates : Cardinality(Copies(taskQueue', Remove(d))) = Removals(d)
    BY <1>0, <2>1, SameRemovals, Messages
  <2> QED  BY <2>1, <2>2, <2>3, <2>4, DeletedStutter
<1>12. CASE WakeUp \/ Disarm \/ removePoll \/ Tick \/ UNCHANGED timerVars
  BY <1>5, <1>12 DEF WakeUp, Disarm, removePoll, Tick, timerVars, delegates, heap
<1> QED
  BY <1>1, <1>2, <1>3, <1>4, <1>7, <1>8, <1>9, <1>10, <1>11, <1>12 DEF TimerNext, MsgTask, PollTask

\* No delegate is deleted while anything still refers to it, and none that lost its timer is
\* deleted twice or never: stops, starts and expirations queue exactly one removal for each,
\* behind its push, in every interleaving of the client, the message task and the poll thread.
THEOREM DeletedOnce == TimerSpec => []FreedOnce
<1>1. TimerInit => PushFirst /\ FreedBorn /\ FreedOnce
  BY DEF TimerInit, PushFirst, FreedBorn, FreedOnce
<1>2. DelegatesInv /\ PushFirst /\ FreedBorn /\ FreedOnce /\ [TimerNext]_timerVars
        => PushFirst' /\ FreedBorn' /\ FreedOnce'
  BY StepDeletes DEF DeletedInv
<1> QED  BY <1>1, <1>2, InitDelegates, StepDelegates, PTL DEF TimerSpec
=============================================================================
