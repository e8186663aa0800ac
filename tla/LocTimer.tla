------------------------------ MODULE LocTimer ------------------------------
(***************************************************************************)
(* The timer service, gps/utils/LocTimer.cpp.                              *)
(*                                                                         *)
(* A LocTimer that is started owns a LocTimerDelegate, which goes into the *)
(* heap of a LocTimerContainer.  One timerfd is armed for the delegate that*)
(* expires the soonest.  Three kinds of threads take part:                 *)
(*   - clients start and stop their timers, under the timer's lock;        *)
(*   - the message task owns the heap: it handles the messages that push,  *)
(*     remove and expire delegates, and makes the clients' callbacks;      *)
(*   - the poll thread waits for the timerfd and asks for an expiration.   *)
(* Every system call on the timerfd and the epoll set is a step of its own.*)
(*                                                                         *)
(* There is one container.  A delegate is the timer it was born for and the*)
(* number of its start; equal times are popped in any order.  The timers   *)
(* are never destroyed: those of the repository live as long as the        *)
(* adapter, or end in their own callback (LocTimerWrapper).                *)
(***************************************************************************)
EXTENDS Integers, Sequences, FiniteSets

CONSTANTS
  Timers,     \* LocTimer objects
  Delays,     \* the timeouts they are started with
  MaxStarts,  \* bound: starts of each timer
  MaxTime,    \* bound: the clock
  None        \* NULL

ASSUME DelaysAssumption == Delays \subseteq Nat \ {0}
ASSUME TimerBounds == MaxStarts \in Nat /\ MaxTime \in Nat
ASSUME NoneAssumption == None \notin Nat /\ None \notin Timers \X (1..MaxStarts)

Time == 0..MaxTime
Delegates == Timers \X (1..MaxStarts)
clientOf(d) == d[1]

VARIABLES
  now,          \* CLOCK_BOOTTIME
  mTimer,       \* LocTimer::mTimer, the running delegate of each timer
  mFutureTime,  \* of each delegate that was born
  mClient,      \* the delegates whose mClient is set
  mTree,        \* the heap, as the set of its delegates
  freed,        \* the delegates that were deleted
  taskQueue,    \* messages of the message task
  task,         \* what the message task is in the middle of
  armed,        \* the time the timerfd is set to
  polled,       \* whether the timerfd is in the epoll set
  poller        \* what the poll thread does next

heap == <<mTree, freed>>
fd == <<armed, polled>>
delegates == <<mTimer, mFutureTime, mClient>>
timerVars == <<now, mTimer, mFutureTime, mClient, mTree, freed, taskQueue, task, armed, polled, poller>>

Push(d) == [msg |-> "Push", timer |-> d]
Remove(d) == [msg |-> "Remove", timer |-> d]
Expire == [msg |-> "Expire", timer |-> None]
TimerMessage == [msg : {"Push", "Remove"}, timer : Delegates] \cup {Expire}

Idle == [at |-> "idle", timer |-> None, now |-> None]
SettingTime == [at |-> "setTime", timer |-> None, now |-> None]

Soonest(S) == {d \in S : \A e \in S : mFutureTime[d] <= mFutureTime[e]}

(***************************************************************************)
(* Clients.  start() of a running timer and stop() of one that is not      *)
(* running do nothing.                                                     *)
(***************************************************************************)
Start(t, delay) ==
  /\ mTimer[t] = None
  /\ now + delay <= MaxTime
  /\ \E n \in 1..MaxStarts :
       LET d == <<t, n>> IN
         /\ mFutureTime[d] = None
         /\ \A k \in 1..(n - 1) : mFutureTime[<<t, k>>] # None
         /\ mTimer' = [mTimer EXCEPT ![t] = d]
         /\ mFutureTime' = [mFutureTime EXCEPT ![d] = now + delay]
         /\ mClient' = mClient \cup {d}
         /\ taskQueue' = Append(taskQueue, Push(d))
  /\ UNCHANGED <<now, heap, task, fd, poller>>

destroyLocked(d) ==
  /\ mTimer' = [mTimer EXCEPT ![clientOf(d)] = None]
  /\ mClient' = mClient \ {d}
  /\ taskQueue' = Append(taskQueue, Remove(d))
  /\ UNCHANGED mFutureTime

Stop(t) ==
  /\ mTimer[t] # None
  /\ destroyLocked(mTimer[t])
  /\ UNCHANGED <<now, heap, task, fd, poller>>

(***************************************************************************)
(* The message task.                                                       *)
(***************************************************************************)
TakeMsg(m) == task = Idle /\ taskQueue # <<>> /\ Head(taskQueue) = m /\ taskQueue' = Tail(taskQueue)

\* Mutant: a soonest timer is not set again while the timerfd is in the epoll set.
updateOnce(changed) ==
  /\ task' = IF changed /\ ~polled THEN SettingTime ELSE Idle
  /\ polled' = (polled \/ changed)
  /\ UNCHANGED armed

\* The timerfd goes into the epoll set here and is set to the soonest time in SetTime.
updateSoonestTime(changed) ==
  /\ task' = IF changed THEN SettingTime ELSE Idle
  /\ polled' = (polled \/ changed)
  /\ UNCHANGED armed

SetTime ==
  /\ task = SettingTime
  /\ \E d \in Soonest(mTree) : armed' = mFutureTime[d]
  /\ task' = Idle
  /\ UNCHANGED <<now, delegates, heap, taskQueue, polled, poller>>

ProcessPush(d) ==
  /\ TakeMsg(Push(d))
  /\ mTree' = mTree \cup {d}
  /\ updateSoonestTime(\A e \in mTree : mFutureTime[d] < mFutureTime[e])
  /\ UNCHANGED <<now, delegates, freed, poller>>

\* Mutant: the delegate is deleted but left in the heap.
removeNothing(d) == mTree

remove(d) == mTree \ {d}

\* Which of several delegates of the soonest time is the top is left open.
ProcessRemove(d) ==
  /\ TakeMsg(Remove(d))
  /\ mTree' = remove(d)
  /\ \E isTop \in BOOLEAN :
       /\ isTop => d \in Soonest(mTree)
       /\ Soonest(mTree) = {d} => isTop
       /\ updateSoonestTime(isTop /\ mTree' # {})
  /\ freed' = freed \cup {d}
  /\ UNCHANGED <<now, delegates, poller>>

\* Mutant: a delegate that is popped before its time is put off, and forgotten.
popOnTime(from) ==
  \E d \in Soonest(mTree) :
    /\ mTree' = mTree \ {d}
    /\ task' = IF d \in mClient /\ mFutureTime[d] <= from
                THEN [at |-> "expire", timer |-> d, now |-> from]
                ELSE [at |-> "loop", timer |-> None, now |-> from]

\* Pops the soonest delegate; expire() reads its client here, and stops it in StopClient.
pop(from) ==
  \E d \in Soonest(mTree) :
    /\ mTree' = mTree \ {d}
    /\ task' = IF d \in mClient THEN [at |-> "expire", timer |-> d, now |-> from]
                                ELSE [at |-> "loop", timer |-> None, now |-> from]

\* The first delegate is popped whatever its time.
ProcessExpire ==
  /\ TakeMsg(Expire)
  /\ IF mTree = {} THEN UNCHANGED <<mTree, task>> ELSE pop(now)
  /\ UNCHANGED <<now, delegates, freed, fd, poller>>

\* LocTimerDelegate::expire(): the client is stopped, whichever delegate it has by now,
\* and called back if it was running.
StopClient ==
  /\ task.at = "expire"
  /\ LET t == clientOf(task.timer) IN
       IF mTimer[t] # None THEN destroyLocked(mTimer[t]) ELSE UNCHANGED <<delegates, taskQueue>>
  /\ task' = [at |-> "loop", timer |-> None, now |-> task.now]
  /\ UNCHANGED <<now, heap, fd, poller>>

Due == \E d \in Soonest(mTree) : mFutureTime[d] <= task.now

popIfOutRanks ==
  /\ task.at = "loop" /\ Due
  /\ pop(task.now)
  /\ UNCHANGED <<now, delegates, freed, taskQueue, fd, poller>>

\* Mutant: the timerfd is left disarmed after an expiration.
EndUnarmed ==
  /\ task.at = "loop" /\ ~Due
  /\ updateSoonestTime(FALSE)
  /\ UNCHANGED <<now, delegates, heap, taskQueue, poller>>

EndExpire ==
  /\ task.at = "loop" /\ ~Due
  /\ updateSoonestTime(mTree # {})
  /\ UNCHANGED <<now, delegates, heap, taskQueue, poller>>

MsgTask ==
  \/ \E d \in Delegates : ProcessPush(d) \/ ProcessRemove(d)
  \/ ProcessExpire \/ StopClient \/ popIfOutRanks \/ EndExpire \/ SetTime

(***************************************************************************)
(* The poll thread: epoll_wait(), then LocTimerContainer::expire().        *)
(***************************************************************************)
WakeUp ==
  /\ poller = "wait"
  /\ polled /\ armed # None /\ armed <= now
  /\ poller' = "disarm"
  /\ UNCHANGED <<now, delegates, heap, taskQueue, task, fd>>

Disarm ==
  /\ poller = "disarm"
  /\ armed' = None
  /\ poller' = "removePoll"
  /\ UNCHANGED <<now, delegates, heap, taskQueue, task, polled>>

removePoll ==
  /\ poller = "removePoll"
  /\ polled' = FALSE
  /\ poller' = "send"
  /\ UNCHANGED <<now, delegates, heap, taskQueue, task, armed>>

SendExpire ==
  /\ poller = "send"
  /\ taskQueue' = Append(taskQueue, Expire)
  /\ poller' = "wait"
  /\ UNCHANGED <<now, delegates, heap, task, fd>>

PollTask == WakeUp \/ Disarm \/ removePoll \/ SendExpire

Tick ==
  /\ now < MaxTime
  /\ now' = now + 1
  /\ UNCHANGED <<delegates, heap, taskQueue, task, fd, poller>>

TimerInit ==
  /\ now = 0
  /\ mTimer = [t \in Timers |-> None]
  /\ mFutureTime = [d \in Delegates |-> None]
  /\ mClient = {} /\ mTree = {} /\ freed = {}
  /\ taskQueue = <<>> /\ task = Idle
  /\ armed = None /\ polled = FALSE /\ poller = "wait"

TimerNext ==
  \/ \E t \in Timers : Stop(t) \/ \E delay \in Delays : Start(t, delay)
  \/ MsgTask
  \/ PollTask
  \/ Tick

TimerSpec == TimerInit /\ [][TimerNext]_timerVars

\* The clock goes on and both threads are scheduled; clients need not do anything.
FairTimer == TimerSpec /\ WF_timerVars(MsgTask) /\ WF_timerVars(PollTask) /\ WF_timerVars(Tick)

(***************************************************************************)
(* Properties.                                                             *)
(***************************************************************************)
Task ==
  [at : {"idle", "setTime"}, timer : {None}, now : {None}] \cup
  [at : {"loop"}, timer : {None}, now : Time] \cup
  [at : {"expire"}, timer : Delegates, now : Time]

\* Type correctness.
TimerTypeOK ==
  /\ now \in Time
  /\ mTimer \in [Timers -> Delegates \cup {None}]
  /\ mFutureTime \in [Delegates -> Time \cup {None}]
  /\ mClient \subseteq Delegates /\ mTree \subseteq Delegates /\ freed \subseteq Delegates
  /\ taskQueue \in Seq(TimerMessage)
  /\ task \in Task
  /\ armed \in Time \cup {None} /\ polled \in BOOLEAN
  /\ poller \in {"wait", "disarm", "removePoll", "send"}

InQueue(m) == \E i \in DOMAIN taskQueue : taskQueue[i] = m

\* A running timer is on its way to its callback: its delegate is in the heap, or about
\* to be pushed, or being expired; wherever start, stop and expiration interleave.
NoTimerForgotten ==
  \A t \in Timers :
    LET d == mTimer[t] IN
      d # None => d \in mTree \/ InQueue(Push(d)) \/ (task.at = "expire" /\ task.timer = d)

\* Unless an expiration is on its way, the timerfd is polled and set to the soonest time
\* of the heap, although two threads set it without a lock.
SoonestIsArmed ==
  mTree # {} /\ task = Idle /\ poller = "wait" /\ ~InQueue(Expire) =>
    polled /\ \A d \in Soonest(mTree) : armed = mFutureTime[d]

\* A deleted delegate is not reachable any more, and one that has lost its timer is
\* deleted once: it is deleted already or exactly one Remove of it is queued
\* (LocTimer.cpp: "all timers are deleted here, and only here").
FreedOnce ==
  \A d \in Delegates :
    /\ d \in freed => d \notin mTree \cup mClient /\ ~InQueue(Push(d)) /\ task.timer # d
    /\ mFutureTime[d] # None /\ d \notin mClient =>
         Cardinality({i \in DOMAIN taskQueue : taskQueue[i] = Remove(d)}) = IF d \in freed THEN 0 ELSE 1

\* A started timer is stopped or called back in the end, through lost, late and doubled
\* expirations of the timerfd: time and again it has no delegate.
EveryTimerEnds == \A t \in Timers : []<>(mTimer[t] = None)

\* No timer is called back before its time (LocTimer.cpp: "pop everything in the heap
\* that outRanks now, i.e. has time older than now and then call expire() on that timer").
NeverEarly ==
  [][StopClient => \A d \in mClient \ mClient' : mFutureTime[d] <= now]_timerVars
=============================================================================
