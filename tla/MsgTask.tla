------------------------------- MODULE MsgTask -------------------------------
(***************************************************************************)
(* A message task (gps/utils/MsgTask.cpp): a queue (msg_q.c) and the       *)
(* thread (LocThread.cpp) that handles its messages one by one, from the   *)
(* creation of both to their end.                                          *)
(*                                                                         *)
(* The threads are the worker, which runs threadMain and deletes the task  *)
(* when it ends; the owner, which calls destroy(); and clients that send.  *)
(* Worker and owner share the LocThreadDelegate; the last one frees it.    *)
(* A call of msg_q holds list_mutex and is one step, but for the wait in   *)
(* msg_q_rcv.                                                              *)
(***************************************************************************)
EXTENDS Naturals, Sequences, SequencesExt

CONSTANTS MaxMsgs,   \* bound: messages sent
          None

MaxMsgsAssumption == MaxMsgs \in Nat

\* Messages are numbers: none of them is mistaken for no message.
NoneAssumption == None \notin Nat

VARIABLES
  \* msg_q and the MsgTask
  queue,        \* messages, oldest first
  unblocked,
  taskAlive,    \* the MsgTask and its queue are not freed
  mThread,      \* the MsgTask has its LocThread
  \* LocThreadDelegate
  mRunnable,    \* not NULL
  mJoinable,
  mRefCount,
  delegateAlive,
  \* threads
  worker,       \* where the worker is
  owner,        \* where the owner is
  msg,          \* the message the worker has received
  \* ghosts
  accepted,     \* messages that were queued
  handled,      \* messages whose proc() has run
  flushed       \* messages freed with the queue

msgQ == <<queue, unblocked, taskAlive, accepted>>
delegate == <<mRunnable, mJoinable, mRefCount, delegateAlive>>
vars == <<msgQ, mThread, delegate, worker, owner, msg, handled, flushed>>

(***************************************************************************)
(* msg_q.                                                                  *)
(***************************************************************************)
\* pthread_cond_signal, pthread_cond_broadcast: the worker is the only one that waits.
WakeUp == worker' = IF worker = "wait" THEN "woken" ELSE worker

\* Mutant: the worker sleeps on.
SleepOn == UNCHANGED worker

msg_q_snd(m) ==
  /\ taskAlive
  /\ IF unblocked THEN UNCHANGED <<queue, accepted, worker>>
     ELSE queue' = Append(queue, m) /\ accepted' = Append(accepted, m) /\ WakeUp
  /\ UNCHANGED <<unblocked, taskAlive>>

wakeAll == WakeUp

msg_q_unblock ==
  /\ unblocked' = TRUE
  /\ IF unblocked THEN UNCHANGED worker ELSE wakeAll
  /\ UNCHANGED <<queue, taskAlive, accepted>>

\* Mutant: the queue is freed with the messages in it.
freeQueue == queue' = <<>> /\ UNCHANGED flushed

msg_q_flush == queue' = <<>> /\ flushed' = flushed \cup ToSet(queue)

\* ~MsgTask
deleteTask == msg_q_flush /\ taskAlive' = FALSE /\ UNCHANGED <<unblocked, accepted>>

(***************************************************************************)
(* LocThreadDelegate::destroy().                                           *)
(***************************************************************************)
\* Mutant: the first one to leave frees it.
deleteAtOnce == mRefCount' = 0 /\ delegateAlive' = FALSE /\ UNCHANGED <<mRunnable, mJoinable>>

destroyDelegate ==
  /\ mRefCount' = IF mRefCount > 0 THEN mRefCount - 1 ELSE mRefCount
  /\ delegateAlive' = (delegateAlive /\ mRefCount # 1)
  /\ UNCHANGED <<mRunnable, mJoinable>>

-----------------------------------------------------------------------------
(***************************************************************************)
(* Clients, and the handlers of messages, send.                            *)
(***************************************************************************)
Send ==
  /\ owner = "idle" \/ worker = "proc"
  /\ Len(accepted) < MaxMsgs
  /\ msg_q_snd(Len(accepted) + 1)
  /\ UNCHANGED <<mThread, delegate, owner, msg, handled, flushed>>

(***************************************************************************)
(* The worker: threadMain and MsgTask::run().                              *)
(***************************************************************************)
At(pc, next) == worker = pc /\ worker' = next

\* A thread that finds it was stopped already leaves, and does not delete the task.
Begin ==
  /\ worker = "begin"
  /\ worker' = IF mRunnable THEN "loop" ELSE "never"
  /\ UNCHANGED <<msgQ, mThread, delegate, owner, msg, handled, flushed>>

Loop ==
  /\ worker = "loop"
  /\ worker' = IF mRunnable THEN "rcv" ELSE "end"
  /\ UNCHANGED <<msgQ, mThread, delegate, owner, msg, handled, flushed>>

Receive ==
  /\ queue # <<>>
  /\ msg' = Head(queue) /\ queue' = Tail(queue)
  /\ worker' = "proc"

\* An unblocked queue gives nothing to a new call, but its messages to one that waits.
msg_q_rcv ==
  /\ \/ worker = "rcv" /\ unblocked /\ worker' = "end" /\ UNCHANGED <<queue, msg>>
     \/ worker = "rcv" /\ ~unblocked /\ Receive
     \/ worker = "woken" /\ Receive
     \/ worker = "woken" /\ queue = <<>> /\ unblocked /\ worker' = "end" /\ UNCHANGED <<queue, msg>>
     \/ worker \in {"rcv", "woken"} /\ queue = <<>> /\ ~unblocked /\ worker' = "wait" /\ UNCHANGED <<queue, msg>>
  /\ UNCHANGED <<unblocked, taskAlive, accepted, mThread, delegate, owner, handled, flushed>>

WakeSpuriously ==
  /\ At("wait", "woken")
  /\ UNCHANGED <<msgQ, mThread, delegate, owner, msg, handled, flushed>>

Proc ==
  /\ At("proc", "loop")
  /\ handled' = Append(handled, msg) /\ msg' = None
  /\ UNCHANGED <<msgQ, mThread, delegate, owner, flushed>>

End ==
  /\ At("end", "bye")
  /\ mRunnable' = FALSE
  /\ deleteTask
  /\ UNCHANGED <<mThread, mJoinable, mRefCount, delegateAlive, owner, msg, handled>>

\* "done" has run, "gone" has not.
Bye ==
  /\ At("bye", "done") \/ At("never", "gone")
  /\ destroyDelegate
  /\ UNCHANGED <<msgQ, mThread, owner, msg, handled, flushed>>

Worker == Begin \/ Loop \/ msg_q_rcv \/ Proc \/ End \/ Bye

(***************************************************************************)
(* The owner: MsgTask::destroy().                                          *)
(***************************************************************************)
destroy ==
  /\ owner = "idle" /\ owner' = "unblocked"
  /\ msg_q_unblock
  /\ UNCHANGED <<mThread, delegate, msg, handled, flushed>>

\* Mutant: the owner deletes the task under the worker.
deleteToo == deleteTask

leaveTask == UNCHANGED <<msgQ, flushed>>

\* mThread is set in a task that the worker may have deleted since.
releaseThread ==
  /\ owner = "unblocked"
  /\ IF mThread
     THEN /\ owner' = IF mJoinable THEN "stop" ELSE "destroy"
          /\ leaveTask
     ELSE owner' = "done" /\ deleteTask
  /\ mThread' = FALSE
  /\ UNCHANGED <<delegate, worker, msg, handled>>

stop ==
  /\ owner = "stop" /\ owner' = "join"
  /\ mRunnable' = FALSE /\ mJoinable' = FALSE
  /\ UNCHANGED <<msgQ, mThread, mRefCount, delegateAlive, worker, msg, handled, flushed>>

join ==
  /\ owner = "join" /\ worker \in {"done", "gone"} /\ owner' = "destroy"
  /\ UNCHANGED <<msgQ, mThread, delegate, worker, msg, handled, flushed>>

leave ==
  /\ owner = "destroy" /\ owner' = "done"
  /\ destroyDelegate
  /\ UNCHANGED <<msgQ, mThread, worker, msg, handled, flushed>>

Owner == releaseThread \/ stop \/ join \/ leave

\* The thread may be joinable, and may not have been created.
Init ==
  /\ queue = <<>> /\ unblocked = FALSE /\ taskAlive = TRUE
  /\ mThread \in BOOLEAN /\ mJoinable \in BOOLEAN
  /\ IF mThread THEN mRefCount = 2 /\ delegateAlive = TRUE /\ mRunnable = TRUE /\ worker = "begin"
     ELSE mRefCount = 0 /\ delegateAlive = FALSE /\ mRunnable = FALSE /\ mJoinable = FALSE /\ worker = "done"
  /\ owner = "idle" /\ msg = None
  /\ accepted = <<>> /\ handled = <<>> /\ flushed = {}

Next == Send \/ Worker \/ WakeSpuriously \/ destroy \/ Owner

Spec == Init /\ [][Next]_vars

\* Both threads are scheduled, and handlers return; nobody has to send or to destroy.
Fairness == WF_vars(Worker) /\ WF_vars(Owner)
FairSpec == Spec /\ Fairness

-----------------------------------------------------------------------------
\* The messages in the hands of the task: handled ones first, then the one received.
received == IF msg = None THEN handled ELSE Append(handled, msg)

\* Messages are handled in the order they were accepted, and of those accepted none gets lost
\* and none is both handled and freed with the queue, however the task ends.
AcceptedOnce ==
  /\ IsPrefix(received \o queue, accepted)
  /\ flushed = ToSet(accepted) \ ToSet(received \o queue)
  /\ flushed # {} => ~taskAlive

\* The worker has returned from threadMain, or was never created.
WorkerLeft == worker \in {"done", "gone"}

\* LocThreadDelegate::destroy() frees the delegate with the last of the two threads: neither
\* finds it freed, and it does not stay behind when both have left.
DelegateFreedLast ==
  /\ ~WorkerLeft \/ owner \in {"stop", "join", "destroy"} => delegateAlive
  /\ WorkerLeft /\ owner = "done" => ~delegateAlive

\* The worker waits, receives and handles with a queue that exists; so does who unblocks it.
QueueUsedAlive == worker \in {"rcv", "wait", "woken", "proc", "end"} \/ owner = "idle" => taskAlive

\* When both threads have left, the task and its queue are freed; or the thread was stopped
\* before it began, and then they stay behind as they were, with every message still in the queue.
TaskFreedUnlessUnbegun ==
  /\ worker = "done" /\ owner = "done" => ~taskAlive
  /\ worker = "gone" => taskAlive /\ handled = <<>> /\ queue = accepted

\* A task is freed once its threads have left (MsgTask.h: "this obj will be deleted once thread is
\* deleted").  A joinable thread that is stopped before it begins leaves it behind (LocThread.cpp:181).
DeletedWithThread == WorkerLeft /\ owner = "done" => ~taskAlive

\* destroy() returns: a worker that waits is woken, and one that is busy comes to its end.
DestroyReturns == owner = "unblocked" ~> owner = "done"

\* At the end of a task no accepted message is lost, and nothing that the two threads share stays behind
\* but the task and the queue of a thread that never began.  Nothing of the delegate and of the queue is
\* used after it was freed; destroy() itself may write mThread to a task the worker has deleted
\* (MsgTask.cpp:69), which is not part of this.
EndsCleanly == AcceptedOnce /\ DelegateFreedLast /\ QueueUsedAlive /\ TaskFreedUnlessUnbegun
=============================================================================
