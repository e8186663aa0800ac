----------------------------- MODULE AgpsProofs -----------------------------
(***************************************************************************)
(* Theorems about Agps, for every set of handles and every bound:          *)
(*   TypeCorrect             the type invariant;                           *)
(*   MachinesStayConsistent  each machine's state fits its list;           *)
(*   DataCallNeverLeaks      the emergency call is down when DS is;        *)
(* when no request goes to the DS machine:                                 *)
(*   ModemIsToldTheState     the modem was told what the machines say;     *)
(*   ImplementsService       the safety part of AtlService;                *)
(* and when the modem asks for no emergency connection:                    *)
(*   NoHandleIsForgotten     no handle is dropped without its answer.      *)
(***************************************************************************)
EXTENDS Agps, FiniteSetTheorems, TLAPS

USE DEF Nifs, BaseNifs

\* What the queue holds, message by message.
LEMMA MessageShape ==
  ASSUME NEW m \in Message
  PROVE  /\ m.msg = "RequestATL" => m.handle \in Handles /\ m.type \in AtlTypes
         /\ m.msg = "ReleaseATL" => m.handle \in Handles
         /\ m.msg \in {"GRANTED", "RELEASED", "DENIED"} => m.nif \in Nifs
  BY DEF Message, AtlMessage, NifMessage

LEMMA NifOfType == ASSUME NEW t \in AtlTypes PROVE nifFor(t) \in Nifs
  BY PdnAssumption DEF nifFor, AtlTypes

LEMMA OwnerIsNif == ASSUME NEW h, ownerOf(h) # "none"
                    PROVE ownerOf(h) \in Nifs /\ h \in mSubscriberList[ownerOf(h)]
  BY DEF ownerOf

LEMMA StatusTypes == /\ Opened \in [AtlStates -> AtlStates]
                     /\ OpenFailed \in [AtlStates -> AtlStates]
                     /\ Closed \in [AtlStates -> AtlStates]
                     /\ CloseFailed \in [AtlStates -> AtlStates]
  BY DEF Opened, OpenFailed, Closed, CloseFailed, AtlStates

\* A non-empty queue splits into its head, a message, and the rest.
LEMMA QueueHead ==
  ASSUME TypeOK, queue # <<>>
  PROVE  Head(queue) \in Message /\ Tail(queue) \in Seq(Message)
  BY DEF TypeOK

LEMMA TellType ==
  ASSUME TypeOK, NEW S, NEW status \in [AtlStates -> AtlStates], Tell(S, status)
  PROVE  atl' \in [Handles -> AtlStates]
  BY DEF TypeOK, Tell

ListsTyped == /\ mSubscriberList \in [Nifs -> SUBSET Handles]
              /\ mIsInactive \in [Nifs -> SUBSET Handles]
              /\ mWaitForCloseComplete \in [Nifs -> SUBSET Handles]

LEMMA AddType ==
  ASSUME TypeOK, NEW n \in Nifs, NEW h \in Handles, NEW w, addSubscriber(n, h, w)
  PROVE  ListsTyped'
  BY DEF TypeOK, addSubscriber, ListsTyped, lists

LEMMA DeleteType ==
  ASSUME TypeOK, NEW n \in Nifs, NEW S, deleteSubscribers(n, S)
  PROVE  ListsTyped'
  BY DEF TypeOK, deleteSubscribers, ListsTyped

LEMMA DeactivateType ==
  ASSUME TypeOK, NEW n \in Nifs, NEW h \in Handles, deactivate(n, h)
  PROVE  ListsTyped'
  BY DEF TypeOK, deactivate, ListsTyped

\* The part of the state that asking for a connection may change.
RequestTyped == /\ queue' \in Seq(Message)
                /\ mRetries' \in 0..MaxRetries
                /\ timers' \in Nat
                /\ dsCall' \in DsCallStates
                /\ fw' \in [BaseNifs -> Seq({"REQUEST", "RELEASE"})]

LEMMA FallbackType ==
  ASSUME TypeOK, queue # <<>>, NEW k \in Nat, NEW o \in [1..k -> Handles], FallbackToSupl(o)
  PROVE  queue' \in Seq(Message) /\ mRetries' \in 0..MaxRetries
<1> DEFINE f == [i \in DOMAIN o |-> RequestATL(o[i], "SUPL")]
<1>1. \A h \in Handles : RequestATL(h, "SUPL") \in Message
  BY DEF RequestATL, Message, AtlMessage, AtlTypes
<1>2. f \in [1..k -> Message]
  BY <1>1
<1>3. f \in Seq(Message)
  BY <1>2
<1>4. Tail(queue) \o f \in Seq(Message)
  BY <1>3, QueueHead
<1>5. mRetries' \in 0..MaxRetries
  BY BoundsAssumption DEF FallbackToSupl, TypeOK
<1> QED BY <1>4, <1>5 DEF FallbackToSupl

LEMMA CommandType ==
  ASSUME TypeOK, NEW n \in BaseNifs, NEW c \in {"REQUEST", "RELEASE"}, Command(n, c)
  PROVE  fw' \in [BaseNifs -> Seq({"REQUEST", "RELEASE"})]
<1>1. Append(fw[n], c) \in Seq({"REQUEST", "RELEASE"})
  BY DEF TypeOK
<1> QED BY <1>1 DEF Command, TypeOK

LEMMA RequestType ==
  ASSUME TypeOK, queue # <<>>, NEW n \in Nifs, NEW active \in SUBSET Handles,
         NEW ok, requestDataConn(n, active, ok)
  PROVE  RequestTyped
<1>1. CASE n \in BaseNifs
  <2>1. Command(n, "REQUEST") /\ Consume /\ UNCHANGED ds
    BY <1>1 DEF requestDataConn
  <2> QED BY <1>1, <2>1, CommandType, QueueHead DEF RequestTyped, Consume, ds, TypeOK
<1>2. CASE n = "DS"
  <2>1. openAndStartDataCall(active, ok) /\ UNCHANGED fw
    BY <1>2 DEF requestDataConn
  <2>2. ASSUME NEW h \in active, FallbackToSupl(<<h>>)
        PROVE  queue' \in Seq(Message) /\ mRetries' \in 0..MaxRetries
    <3>1. <<h>> \in [1..1 -> Handles]
      OBVIOUS
    <3> QED BY <2>2, <3>1, FallbackType
  <2>3. fw' \in [BaseNifs -> Seq({"REQUEST", "RELEASE"})]
    BY <2>1 DEF TypeOK
  <2>4. Tail(queue) \in Seq(Message)
    BY QueueHead
  <2>5. ~Exhausted => mRetries + 1 \in 0..MaxRetries
    BY BoundsAssumption DEF TypeOK, Exhausted
  <2>6. PICK r \in DsResults : openAndStartDataCall(active, ok)!(r)
    BY <2>1 DEF openAndStartDataCall
  <2>7. CASE dsCall' = "starting" /\ Consume /\ UNCHANGED <<mRetries, timers>>
    BY <2>7, <2>3, <2>4 DEF Consume, RequestTyped, TypeOK, DsCallStates
  <2>8. CASE (\E h \in active : FallbackToSupl(<<h>>)) /\ UNCHANGED <<timers, dsCall>>
    BY <2>8, <2>2, <2>3 DEF RequestTyped, TypeOK
  <2>9. CASE ~Exhausted /\ mRetries' = mRetries + 1 /\ timers' = timers + 1 /\ Consume /\ UNCHANGED dsCall
    BY <2>9, <2>3, <2>4, <2>5 DEF Consume, RequestTyped, TypeOK
  <2>10. CASE Consume /\ UNCHANGED ds
    BY <2>10, <2>3, <2>4 DEF Consume, RequestTyped, TypeOK, ds
  <2> QED BY <2>6, <2>7, <2>8, <2>9, <2>10
<1> QED BY <1>1, <1>2

-----------------------------------------------------------------------------
\* Type correctness of each event of a state machine.
LEMMA SubscribeType ==
  ASSUME TypeOK, queue # <<>>, mDsNif' \in BOOLEAN,
         NEW n \in Nifs, NEW h \in Handles, NEW w, Subscribe(n, h, w)
  PROVE  TypeOK'
<1>1. ListsTyped'
  BY AddType DEF Subscribe
<1>2. CASE mState[n] = "RELEASED"
  <2>1. PICK ok \in BOOLEAN :
          /\ requestDataConn(n, Active(n) \cup {h}, ok)
          /\ transitionState(n, IF ok THEN "PENDING" ELSE "RELEASED")
    BY <1>2 DEF Subscribe
  <2>2. Active(n) \cup {h} \in SUBSET Handles
    BY DEF Active, TypeOK
  <2>3. RequestTyped
    BY <2>1, <2>2, RequestType
  <2>4. mState' \in [Nifs -> AgpsStates]
    BY <2>1 DEF transitionState, TypeOK, AgpsStates
  <2>5. UNCHANGED <<atl, conn>>
    BY <1>2 DEF Subscribe
  <2> QED BY <1>1, <2>3, <2>4, <2>5 DEF TypeOK, ListsTyped, RequestTyped
<1>3. CASE mState[n] # "RELEASED"
  <2>1. atl' \in [Handles -> AtlStates]
    BY <1>3, TellType, StatusTypes DEF Subscribe, TypeOK
  <2>2. Consume /\ UNCHANGED <<mState, ds, fw, conn>>
    BY <1>3 DEF Subscribe
  <2> QED BY <1>1, <2>1, <2>2, QueueHead DEF TypeOK, ListsTyped, Consume, ds
<1> QED BY <1>2, <1>3

LEMMA UnsubscribeType ==
  ASSUME TypeOK, queue # <<>>, mDsNif' = mDsNif,
         NEW n \in Nifs, NEW h \in Handles, Unsubscribe(n, h)
  PROVE  TypeOK'
<1>1. ListsTyped'
  BY DeleteType, DeactivateType DEF Unsubscribe, ListsTyped, TypeOK, lists
<1>2. atl' \in [Handles -> AtlStates]
  BY TellType, StatusTypes DEF Unsubscribe, TypeOK
<1>3. mState' \in [Nifs -> AgpsStates]
  BY DEF Unsubscribe, transitionState, TypeOK, AgpsStates
<1>4. /\ dsCall' \in DsCallStates
      /\ fw' \in [BaseNifs -> Seq({"REQUEST", "RELEASE"})]
  <2>1. ASSUME releaseDataConn(n) PROVE <1>4!1 /\ <1>4!2
    <3>1. CASE n \in BaseNifs
      BY <2>1, <3>1, CommandType DEF releaseDataConn, TypeOK
    <3>2. CASE n \notin BaseNifs
      BY <2>1, <3>2 DEF releaseDataConn, TypeOK, DsCallStates
    <3> QED BY <3>1, <3>2
  <2> QED BY <2>1 DEF Unsubscribe, TypeOK
<1>5. Consume /\ UNCHANGED <<mRetries, timers, conn>>
  BY DEF Unsubscribe
<1> QED BY <1>1, <1>2, <1>3, <1>4, <1>5, QueueHead DEF TypeOK, ListsTyped, Consume

LEMMA IgnoreType == ASSUME TypeOK, queue # <<>>, mDsNif' = mDsNif, Ignore PROVE TypeOK'
  BY QueueHead DEF TypeOK, Ignore, Consume, lists, ds

LEMMA GrantedType ==
  ASSUME TypeOK, queue # <<>>, mDsNif' = mDsNif, NEW n \in Nifs, Granted(n)
  PROVE  TypeOK'
<1>1. CASE mState[n] = "PENDING"
  <2>1. atl' \in [Handles -> AtlStates]
    BY <1>1, TellType, StatusTypes DEF Granted
  <2>2. mState' \in [Nifs -> AgpsStates]
    BY <1>1 DEF Granted, transitionState, TypeOK, AgpsStates
  <2> QED BY <1>1, <2>1, <2>2, QueueHead DEF Granted, TypeOK, Consume, lists, ds
<1>2. CASE mState[n] # "PENDING"
  BY <1>2, IgnoreType DEF Granted
<1> QED BY <1>1, <1>2

LEMMA CloseCompleteType ==
  ASSUME TypeOK, queue # <<>>, mDsNif' = mDsNif, NEW n \in Nifs, CloseComplete(n)
  PROVE  TypeOK'
<1>1. ListsTyped'
  BY DeleteType DEF CloseComplete
<1>2. atl' \in [Handles -> AtlStates]
  BY TellType, StatusTypes DEF CloseComplete
<1>3. mState' \in [Nifs -> AgpsStates]
  BY DEF CloseComplete, transitionState, TypeOK, AgpsStates
<1>4. RequestTyped
  <2>1. Active(n) \in SUBSET Handles
    BY DEF Active, TypeOK
  <2>2. CASE Active(n) # {}
    BY <2>1, <2>2, RequestType DEF CloseComplete
  <2>3. CASE Active(n) = {}
    BY <2>3, QueueHead DEF CloseComplete, RequestTyped, TypeOK, Consume, ds
  <2> QED BY <2>2, <2>3
<1> QED BY <1>1, <1>2, <1>3, <1>4 DEF CloseComplete, TypeOK, ListsTyped, RequestTyped

LEMMA DeniedType ==
  ASSUME TypeOK, queue # <<>>, mDsNif' = mDsNif, NEW n \in Nifs, Denied(n)
  PROVE  TypeOK'
<1>1. CASE mState[n] \in {"RELEASED", "ACQUIRED"} /\ Ignore
  BY <1>1, IgnoreType
<1>2. CASE CloseComplete(n)
  BY <1>2, CloseCompleteType
<1>3. CASE mState[n] = "PENDING" /\ ~CloseComplete(n)
  <2>1. /\ transitionState(n, "RELEASED")
        /\ deleteSubscribers(n, mSubscriberList[n])
        /\ UNCHANGED <<timers, dsCall, fw, conn>>
        /\ \/ /\ n \in BaseNifs
              /\ Tell(mSubscriberList[n], OpenFailed)
              /\ Consume
              /\ UNCHANGED mRetries
           \/ /\ n = "DS"
              /\ \E order \in Orders(mSubscriberList[n]) : FallbackToSupl(order)
              /\ UNCHANGED atl
    BY <1>3 DEF Denied
  <2>2. ListsTyped'
    BY <2>1, DeleteType
  <2>3. mState' \in [Nifs -> AgpsStates]
    BY <2>1 DEF transitionState, TypeOK, AgpsStates
  <2>4. /\ queue' \in Seq(Message)
        /\ mRetries' \in 0..MaxRetries
        /\ atl' \in [Handles -> AtlStates]
    <3>1. CASE n \in BaseNifs
      BY <2>1, <3>1, TellType, StatusTypes, QueueHead DEF Consume, TypeOK
    <3>2. CASE n = "DS"
      <4>1. PICK order \in Orders(mSubscriberList[n]) : FallbackToSupl(order)
        BY <2>1, <3>2
      <4>2. mSubscriberList[n] \subseteq Handles
        BY DEF TypeOK
      <4>3. Cardinality(mSubscriberList[n]) \in Nat
        BY <4>2, HandlesAssumption, FS_Subset, FS_CardinalityType
      <4>4. order \in [1..Cardinality(mSubscriberList[n]) -> Handles]
        BY <4>1, <4>2 DEF Orders
      <4>5. UNCHANGED atl
        BY <2>1, <3>2
      <4> QED BY <4>1, <4>3, <4>4, <4>5, FallbackType DEF TypeOK
    <3> QED BY <3>1, <3>2
  <2> QED BY <2>1, <2>2, <2>3, <2>4 DEF TypeOK, ListsTyped
<1> QED BY <1>1, <1>2, <1>3 DEF Denied

LEMMA ReleasedType ==
  ASSUME TypeOK, queue # <<>>, mDsNif' = mDsNif, NEW n \in Nifs, Released(n)
  PROVE  TypeOK'
<1>1. CASE mState[n] = "ACQUIRED" /\ ~CloseComplete(n)
  <2>1. ListsTyped'
    BY <1>1, DeleteType DEF Released
  <2>2. atl' \in [Handles -> AtlStates]
    BY <1>1, TellType, StatusTypes DEF Released
  <2>3. mState' \in [Nifs -> AgpsStates]
    BY <1>1 DEF Released, transitionState, TypeOK, AgpsStates
  <2> QED BY <1>1, <2>1, <2>2, <2>3, QueueHead DEF Released, TypeOK, ListsTyped, Consume, ds
<1>2. CASE Ignore \/ CloseComplete(n) \/ Denied(n)
  BY <1>2, IgnoreType, CloseCompleteType, DeniedType
<1> QED BY <1>1, <1>2 DEF Released

-----------------------------------------------------------------------------
\* The environment's steps keep the type.
LEMMA PostType ==
  ASSUME TypeOK, NEW m \in Message, Post(m)
  PROVE  queue' \in Seq(Message)
  BY DEF TypeOK, Post

LEMMA Messages ==
  /\ \A h \in Handles, t \in AtlTypes : RequestATL(h, t) \in Message
  /\ \A h \in Handles : ReleaseATL(h) \in Message
  /\ \A n \in Nifs : NifEvent("GRANTED", n) \in Message
  /\ \A n \in Nifs : NifEvent("RELEASED", n) \in Message
  /\ \A n \in Nifs : NifEvent("DENIED", n) \in Message
  BY DEF RequestATL, ReleaseATL, NifEvent, Message, AtlMessage, NifMessage

LEMMA ProcessType == ASSUME TypeOK, ProcessMessage PROVE TypeOK'
<1> DEFINE m == Head(queue)
<1>1. queue # <<>> /\ m \in Message
  BY QueueHead DEF ProcessMessage, ProcessRequestATL, ProcessReleaseATL, ProcessGranted,
       ProcessDenied, ProcessReleased, Next1
<1>2. CASE ProcessRequestATL
  <2>1. m.handle \in Handles /\ m.type \in AtlTypes
    BY <1>1, <1>2, MessageShape DEF ProcessRequestATL, Next1
  <2>2. CASE /\ Tell({m.handle}, OpenFailed)
             /\ Consume
             /\ UNCHANGED <<mState, lists, mDsNif, ds, fw, conn>>
    <3>1. atl' \in [Handles -> AtlStates]
      BY <2>2, TellType, StatusTypes
    <3> QED BY <1>1, <2>2, <3>1, QueueHead DEF TypeOK, Consume, lists, ds
  <2>3. CASE /\ mDsNif' = (mDsNif \/ nifFor(m.type) = "DS")
             /\ Subscribe(nifFor(m.type), m.handle, m.type = "SUPL_ES")
    <3>1. mDsNif' \in BOOLEAN
      BY <2>3 DEF TypeOK
    <3> QED BY <1>1, <2>1, <2>3, <3>1, NifOfType, SubscribeType
  <2> QED BY <1>2, <2>2, <2>3 DEF ProcessRequestATL
<1>3. CASE ProcessReleaseATL
  <2>1. m.handle \in Handles
    BY <1>1, <1>3, MessageShape DEF ProcessReleaseATL, Next1
  <2>2. CASE /\ Tell({m.handle}, CloseFailed)
             /\ Consume
             /\ UNCHANGED <<mState, lists, mDsNif, ds, fw, conn>>
    <3>1. atl' \in [Handles -> AtlStates]
      BY <2>2, TellType, StatusTypes
    <3> QED BY <1>1, <2>2, <3>1, QueueHead DEF TypeOK, Consume, lists, ds
  <2>3. CASE /\ ownerOf(m.handle) # "none"
             /\ Unsubscribe(ownerOf(m.handle), m.handle)
             /\ UNCHANGED mDsNif
    BY <1>1, <2>1, <2>3, OwnerIsNif, UnsubscribeType
  <2> QED BY <1>3, <2>2, <2>3 DEF ProcessReleaseATL
<1>4. CASE ProcessGranted
  BY <1>1, <1>4, MessageShape, GrantedType DEF ProcessGranted, Next1
<1>5. CASE ProcessDenied
  BY <1>1, <1>5, MessageShape, DeniedType DEF ProcessDenied, Next1
<1>6. CASE ProcessReleased
  BY <1>1, <1>6, MessageShape, ReleasedType DEF ProcessReleased, Next1
<1> QED BY <1>2, <1>3, <1>4, <1>5, <1>6 DEF ProcessMessage

LEMMA EnvironmentType ==
  ASSUME TypeOK, Next, ~ProcessMessage
  PROVE  TypeOK'
<1>1. CASE RetryTimeout
  <2>1. Active("DS") \subseteq Handles
    BY DEF Active, TypeOK
  <2>2. queue' \in Seq(Message)
    <3>1. CASE UNCHANGED queue
      BY <3>1 DEF TypeOK
    <3>2. ASSUME NEW h \in Active("DS"), queue' = Append(queue, RequestATL(h, "SUPL_ES"))
          PROVE  queue' \in Seq(Message)
      <4>1. RequestATL(h, "SUPL_ES") \in Message
        BY <2>1, Messages DEF AtlTypes
      <4> QED BY <3>2, <4>1 DEF TypeOK
    <3> QED BY <1>1, <3>1, <3>2 DEF RetryTimeout
  <2>3. timers' \in Nat
    BY <1>1 DEF RetryTimeout, TypeOK
  <2> QED BY <1>1, <2>2, <2>3 DEF RetryTimeout, TypeOK, lists
<1>2. ASSUME NEW h \in Handles, NEW t \in Types, ModemRequest(h, t) PROVE TypeOK'
  <2>1. queue' \in Seq(Message)
    BY <1>2, Messages, PostType, TypesAssumption DEF ModemRequest
  <2> QED BY <1>2, <2>1 DEF ModemRequest, TypeOK, untouched, lists, AtlStates
<1>3. ASSUME NEW h \in Handles, ModemRelease(h) PROVE TypeOK'
  <2>1. queue' \in Seq(Message)
    BY <1>3, Messages, PostType DEF ModemRelease
  <2> QED BY <1>3, <2>1 DEF ModemRelease, TypeOK, untouched, lists, AtlStates
<1>4. ASSUME NEW n \in BaseNifs, FrameworkCommand(n) PROVE TypeOK'
  <2>1. queue' \in Seq(Message)
    BY <1>4, Messages, PostType DEF FrameworkCommand, TypeOK
  <2>2. fw[n] \in Seq({"REQUEST", "RELEASE"}) /\ fw[n] # <<>>
    BY <1>4 DEF FrameworkCommand, TypeOK
  <2>3. Tail(fw[n]) \in Seq({"REQUEST", "RELEASE"})
    BY <2>2
  <2>4. fw' \in [BaseNifs -> Seq({"REQUEST", "RELEASE"})]
    BY <1>4, <2>3 DEF FrameworkCommand, TypeOK
  <2>5. conn' \in [BaseNifs -> {"closed", "opening", "open"}]
    BY <1>4 DEF FrameworkCommand, TypeOK
  <2> QED BY <1>4, <2>1, <2>4, <2>5 DEF FrameworkCommand, TypeOK, untouched, lists
<1>5. ASSUME NEW n \in BaseNifs, FrameworkAnswer(n) \/ FrameworkLost(n) PROVE TypeOK'
  <2>1. queue' \in Seq(Message)
    BY <1>5, Messages, PostType DEF FrameworkAnswer, FrameworkLost
  <2> QED BY <1>5, <2>1 DEF FrameworkAnswer, FrameworkLost, TypeOK, untouched, lists
<1>6. CASE DsAnswer \/ DsLost
  <2>1. queue' \in Seq(Message)
    BY <1>6, Messages, PostType DEF DsAnswer, DsLost
  <2> QED BY <1>6, <2>1 DEF DsAnswer, DsLost, TypeOK, untouched, lists, DsCallStates
<1>7. ASSUME NEW h \in Handles, (\E t \in Types : ModemRequest(h, t)) \/ ModemRelease(h)
      PROVE  TypeOK'
  BY <1>2, <1>3, <1>7
<1>8. ASSUME NEW n \in BaseNifs, FrameworkCommand(n) \/ FrameworkAnswer(n) \/ FrameworkLost(n)
      PROVE  TypeOK'
  BY <1>4, <1>5, <1>8
<1> QED BY <1>1, <1>6, <1>7, <1>8 DEF Next

LEMMA TypeInit == Init => TypeOK
<1> SUFFICES ASSUME Init PROVE TypeOK
  OBVIOUS
<1>1. mDsNif \in BOOLEAN
  BY PdnAssumption DEF Init
<1>2. queue \in Seq(Message) /\ fw \in [BaseNifs -> Seq({"REQUEST", "RELEASE"})]
  BY DEF Init
<1>3. /\ mSubscriberList \in [Nifs -> SUBSET Handles]
      /\ mIsInactive \in [Nifs -> SUBSET Handles]
      /\ mWaitForCloseComplete \in [Nifs -> SUBSET Handles]
  BY DEF Init
<1>4. mRetries \in 0..MaxRetries /\ timers \in Nat
  BY BoundsAssumption DEF Init
<1>5. /\ mState \in [Nifs -> AgpsStates]
      /\ conn \in [BaseNifs -> {"closed", "opening", "open"}]
      /\ dsCall \in DsCallStates
      /\ atl \in [Handles -> AtlStates]
  BY DEF Init, AgpsStates, DsCallStates, AtlStates
<1> QED BY <1>1, <1>2, <1>3, <1>4, <1>5 DEF TypeOK

LEMMA TypeStep == TypeOK /\ [Next]_vars => TypeOK'
<1> SUFFICES ASSUME TypeOK, [Next]_vars PROVE TypeOK'
  OBVIOUS
<1>1. CASE ProcessMessage
  BY <1>1, ProcessType
<1>2. CASE UNCHANGED vars
  BY <1>2 DEF vars, lists, ds, TypeOK
<1> QED BY <1>1, <1>2, EnvironmentType DEF Next

\* Every value the manager, the modem and the framework keep stays of its type, and the
\* retry counter within MAX_START_DATA_CALL_RETRIES, for every number of handles.
THEOREM TypeCorrect == Spec => []TypeOK
  BY TypeInit, TypeStep, PTL DEF Spec

-----------------------------------------------------------------------------
(***************************************************************************)
(* MachinesConsistent is inductive given TypeOK: each event re-establishes *)
(* it for its own machine and leaves the others alone.                     *)
(***************************************************************************)
Consistent(n) == ListsNested(n) /\ StateFitsList(n)

\* Only machine n changes state or list.
OnlyMachine(n) ==
  \A k \in Nifs \ {n} :
    /\ mState'[k] = mState[k]
    /\ mSubscriberList'[k] = mSubscriberList[k]
    /\ mIsInactive'[k] = mIsInactive[k]
    /\ mWaitForCloseComplete'[k] = mWaitForCloseComplete[k]

LEMMA OneByOne ==
  ASSUME MachinesConsistent, NEW n \in Nifs, OnlyMachine(n), Consistent(n)'
  PROVE  MachinesConsistent'
  BY DEF MachinesConsistent, OnlyMachine, Consistent, ListsNested, StateFitsList, Active

LEMMA SameMachines ==
  ASSUME MachinesConsistent, UNCHANGED <<mState, lists>>
  PROVE  MachinesConsistent'
  BY DEF MachinesConsistent, ListsNested, StateFitsList, Active, lists

LEMMA SubscribeConsistent ==
  ASSUME TypeOK, MachinesConsistent, NEW n \in Nifs, NEW h \in Handles, NEW w \in BOOLEAN,
         Subscribe(n, h, w)
  PROVE  MachinesConsistent'
<1> USE DEF Consistent, ListsNested, StateFitsList, Active
<1>1. Consistent(n)
  BY DEF MachinesConsistent
<1>2. /\ mSubscriberList'[n] = mSubscriberList[n] \cup {h}
      /\ mIsInactive'[n] = mIsInactive[n]
      /\ mWaitForCloseComplete'[n] \in {mWaitForCloseComplete[n], mWaitForCloseComplete[n] \cup {h}}
      /\ \A k \in Nifs \ {n} : /\ mSubscriberList'[k] = mSubscriberList[k]
                               /\ mIsInactive'[k] = mIsInactive[k]
                               /\ mWaitForCloseComplete'[k] = mWaitForCloseComplete[k]
  BY DEF Subscribe, addSubscriber, lists, TypeOK
<1>3. CASE mState[n] = "RELEASED"
  <2>1. PICK ok \in BOOLEAN :
          /\ requestDataConn(n, Active(n) \cup {h}, ok)
          /\ transitionState(n, IF ok THEN "PENDING" ELSE "RELEASED")
    BY <1>3 DEF Subscribe
  <2>2. mState'[n] = IF ok THEN "PENDING" ELSE "RELEASED"
    BY <2>1 DEF transitionState, TypeOK
  <2>3. ~ok => n = "DS"
    BY <2>1 DEF requestDataConn
  <2>4. Consistent(n)'
    BY <1>1, <1>2, <1>3, <2>2, <2>3
  <2>5. OnlyMachine(n)
    BY <1>2, <2>1 DEF OnlyMachine, transitionState, TypeOK
  <2> QED BY <2>4, <2>5, OneByOne
<1>4. CASE mState[n] # "RELEASED"
  <2>1. UNCHANGED mState
    BY <1>4 DEF Subscribe
  <2>2. Consistent(n)'
    BY <1>1, <1>2, <1>4, <2>1
  <2>3. OnlyMachine(n)
    BY <1>2, <2>1 DEF OnlyMachine
  <2> QED BY <2>2, <2>3, OneByOne
<1> QED BY <1>3, <1>4

LEMMA DeletedLists ==
  ASSUME TypeOK, NEW n \in Nifs, NEW S, deleteSubscribers(n, S)
  PROVE  /\ mSubscriberList'[n] = mSubscriberList[n] \ S
         /\ mIsInactive'[n] = mIsInactive[n] \ S
         /\ mWaitForCloseComplete'[n] = mWaitForCloseComplete[n] \ S
         /\ \A k \in Nifs \ {n} : /\ mSubscriberList'[k] = mSubscriberList[k]
                                  /\ mIsInactive'[k] = mIsInactive[k]
                                  /\ mWaitForCloseComplete'[k] = mWaitForCloseComplete[k]
  BY DEF deleteSubscribers, TypeOK

LEMMA Transition ==
  ASSUME TypeOK, NEW n \in Nifs, NEW s, transitionState(n, s)
  PROVE  mState'[n] = s /\ \A k \in Nifs \ {n} : mState'[k] = mState[k]
  BY DEF transitionState, TypeOK

LEMMA UnsubscribeConsistent ==
  ASSUME TypeOK, MachinesConsistent, NEW n \in Nifs, NEW h \in mSubscriberList[n],
         Unsubscribe(n, h)
  PROVE  MachinesConsistent'
<1> USE DEF Consistent, ListsNested, StateFitsList, Active
<1>1. Consistent(n)
  BY DEF MachinesConsistent
<1>2. CASE mState[n] = "RELEASED"
  BY <1>2, SameMachines DEF Unsubscribe
<1>3. CASE mState[n] # "RELEASED"
  <2> DEFINE empty == mSubscriberList'[n] = {}
             idle == mSubscriberList'[n] = mIsInactive'[n]
  <2>1. /\ IF h \in mWaitForCloseComplete[n]
           THEN deactivate(n, h) /\ UNCHANGED atl
           ELSE deleteSubscribers(n, {h}) /\ Tell({h}, Closed)
        /\ \/ /\ mState[n] # "RELEASING" /\ idle
              /\ transitionState(n, IF empty THEN "RELEASED" ELSE "RELEASING")
           \/ /\ mState[n] # "RELEASING" /\ ~idle
              /\ UNCHANGED mState
           \/ /\ mState[n] = "RELEASING"
              /\ transitionState(n, IF empty THEN "RELEASED" ELSE "RELEASING")
    BY <1>3 DEF Unsubscribe
  <2>2. CASE h \in mWaitForCloseComplete[n]
    <3>1. /\ mSubscriberList'[n] = mSubscriberList[n]
          /\ mWaitForCloseComplete'[n] = mWaitForCloseComplete[n]
          /\ mIsInactive'[n] = mIsInactive[n] \cup {h}
      BY <2>1, <2>2 DEF deactivate, TypeOK
    <3>2. mState'[n] = IF mState[n] = "RELEASING" \/ idle THEN "RELEASING" ELSE mState[n]
      BY <2>1, <3>1, Transition
    <3>3. OnlyMachine(n)
      BY <2>1, <2>2, Transition DEF OnlyMachine, deactivate, TypeOK
    <3>4. Consistent(n)'
      BY <1>1, <1>3, <2>2, <3>1, <3>2
    <3> QED BY <3>3, <3>4, OneByOne
  <2>3. CASE h \notin mWaitForCloseComplete[n]
    <3>1. /\ mSubscriberList'[n] = mSubscriberList[n] \ {h}
          /\ mIsInactive'[n] = mIsInactive[n] \ {h}
          /\ mWaitForCloseComplete'[n] = mWaitForCloseComplete[n] \ {h}
      BY <2>1, <2>3, DeletedLists
    <3>2. mIsInactive'[n] = mIsInactive[n]
      BY <1>1, <2>3, <3>1
    <3>3. mState'[n] = IF mState[n] = "RELEASING" \/ idle
                       THEN IF empty THEN "RELEASED" ELSE "RELEASING" ELSE mState[n]
      BY <2>1, Transition
    <3>4. OnlyMachine(n)
      BY <2>1, <2>3, Transition, DeletedLists DEF OnlyMachine
    <3>5. Consistent(n)'
      BY <1>1, <1>3, <3>1, <3>2, <3>3
    <3> QED BY <3>4, <3>5, OneByOne
  <2> QED BY <2>2, <2>3
<1> QED BY <1>2, <1>3

LEMMA CloseCompleteConsistent ==
  ASSUME TypeOK, MachinesConsistent, NEW n \in Nifs, CloseComplete(n)
  PROVE  MachinesConsistent'
<1> USE DEF Consistent, ListsNested, StateFitsList, Active
<1>1. Consistent(n)
  BY DEF MachinesConsistent
<1>2. deleteSubscribers(n, mIsInactive[n])
  BY DEF CloseComplete
<1>3. transitionState(n, IF Active(n) # {} THEN "PENDING" ELSE "RELEASED")
  BY DEF CloseComplete
<1>4. Consistent(n)'
  BY <1>1, <1>2, <1>3, DeletedLists, Transition
<1>5. OnlyMachine(n)
  BY <1>2, <1>3, DeletedLists, Transition DEF OnlyMachine
<1> QED BY <1>4, <1>5, OneByOne

LEMMA EmptiedConsistent ==
  ASSUME TypeOK, MachinesConsistent, NEW n \in Nifs, transitionState(n, "RELEASED"),
         deleteSubscribers(n, mSubscriberList[n])
  PROVE  MachinesConsistent'
<1>1. Consistent(n)'
  BY DeletedLists, Transition
  DEF MachinesConsistent, Consistent, ListsNested, StateFitsList, Active
<1>2. OnlyMachine(n)
  BY DeletedLists, Transition DEF OnlyMachine
<1> QED BY <1>1, <1>2, OneByOne

LEMMA GrantedConsistent ==
  ASSUME TypeOK, MachinesConsistent, NEW n \in Nifs, Granted(n)
  PROVE  MachinesConsistent'
<1>1. CASE mState[n] # "PENDING"
  BY <1>1, SameMachines DEF Granted, Ignore
<1>2. CASE mState[n] = "PENDING"
  <2>1. transitionState(n, "ACQUIRED") /\ UNCHANGED lists
    BY <1>2 DEF Granted
  <2>2. Consistent(n)'
    BY <1>2, <2>1, Transition
    DEF MachinesConsistent, Consistent, ListsNested, StateFitsList, Active, lists
  <2>3. OnlyMachine(n)
    BY <2>1, Transition DEF OnlyMachine, lists
  <2> QED BY <2>2, <2>3, OneByOne
<1> QED BY <1>1, <1>2

LEMMA DeniedConsistent ==
  ASSUME TypeOK, MachinesConsistent, NEW n \in Nifs, Denied(n)
  PROVE  MachinesConsistent'
  BY SameMachines, CloseCompleteConsistent, EmptiedConsistent DEF Denied, Ignore

LEMMA ReleasedConsistent ==
  ASSUME TypeOK, MachinesConsistent, NEW n \in Nifs, Released(n)
  PROVE  MachinesConsistent'
  BY SameMachines, CloseCompleteConsistent, EmptiedConsistent, DeniedConsistent
  DEF Released, Ignore

LEMMA ProcessConsistent ==
  ASSUME TypeOK, MachinesConsistent, ProcessMessage
  PROVE  MachinesConsistent'
<1> DEFINE m == Head(queue)
<1>1. queue # <<>> /\ m \in Message
  BY QueueHead DEF ProcessMessage, ProcessRequestATL, ProcessReleaseATL, ProcessGranted,
       ProcessDenied, ProcessReleased, Next1
<1>2. CASE ProcessRequestATL
  <2>1. m.handle \in Handles /\ nifFor(m.type) \in Nifs
    BY <1>1, <1>2, MessageShape, NifOfType DEF ProcessRequestATL, Next1
  <2> QED BY <1>2, <2>1, SubscribeConsistent, SameMachines DEF ProcessRequestATL
<1>3. CASE ProcessReleaseATL
  BY <1>3, OwnerIsNif, UnsubscribeConsistent, SameMachines DEF ProcessReleaseATL
<1>4. CASE ProcessGranted
  BY <1>1, <1>4, MessageShape, GrantedConsistent DEF ProcessGranted, Next1
<1>5. CASE ProcessDenied
  BY <1>1, <1>5, MessageShape, DeniedConsistent DEF ProcessDenied, Next1
<1>6. CASE ProcessReleased
  BY <1>1, <1>6, MessageShape, ReleasedConsistent DEF ProcessReleased, Next1
<1> QED BY <1>2, <1>3, <1>4, <1>5, <1>6 DEF ProcessMessage

LEMMA ConsistentInit == Init => MachinesConsistent
  BY DEF Init, MachinesConsistent, ListsNested, StateFitsList, Active

LEMMA ConsistentStep == TypeOK /\ MachinesConsistent /\ [Next]_vars => MachinesConsistent'
<1> SUFFICES ASSUME TypeOK, MachinesConsistent, [Next]_vars PROVE MachinesConsistent'
  OBVIOUS
<1>1. CASE ProcessMessage
  BY <1>1, ProcessConsistent
<1>2. CASE UNCHANGED <<mState, lists>>
  BY <1>2, SameMachines
<1>3. ProcessMessage \/ UNCHANGED <<mState, lists>>
  BY DEF Next, vars, RetryTimeout, ModemRequest, ModemRelease, FrameworkCommand,
         FrameworkAnswer, FrameworkLost, DsAnswer, DsLost, untouched
<1> QED BY <1>1, <1>2, <1>3

\* For any number of handles and whatever the environment does, the state of a machine
\* fits its list after every message: no machine is PENDING or ACQUIRED for nobody, waits
\* for a close nobody waits for, or (framework NIFs) is RELEASED with subscribers left.
THEOREM MachinesStayConsistent == Spec => []MachinesConsistent
<1>1. TypeOK /\ MachinesConsistent /\ [Next]_vars => (TypeOK /\ MachinesConsistent)'
  BY TypeStep, ConsistentStep
<1>2. Init => TypeOK /\ MachinesConsistent
  BY TypeInit, ConsistentInit
<1> QED BY <1>1, <1>2, PTL DEF Spec

-----------------------------------------------------------------------------
(***************************************************************************)
(* The emergency data call.  Its last report, RELEASED, is the last thing  *)
(* the queue holds about it and says that the call is down; whoever is     *)
(* subscribed to the DS machine waits for the close to complete.           *)
(***************************************************************************)
DsGranted == NifEvent("GRANTED", "DS")
DsReleased == NifEvent("RELEASED", "DS")

DataCallReports ==
  /\ \A i, j \in DOMAIN queue :
       queue[i] = DsReleased /\ queue[j] \in {DsGranted, DsReleased} => j <= i
  /\ \A i \in DOMAIN queue : queue[i] = DsReleased => dsCall = "idle"
  /\ \A i \in DOMAIN queue : queue[i] # NifEvent("DENIED", "DS")

DsAllWait == mWaitForCloseComplete["DS"] = mSubscriberList["DS"]

DataCallInv == DataCallReports /\ DsAllWait /\ NoLeakedDataCall

\* The three reports of the data call, and no message of the modem, are DS events.
LEMMA DsReports ==
  /\ \A m \in {DsGranted, DsReleased, NifEvent("DENIED", "DS")} :
       m.msg \in {"GRANTED", "RELEASED", "DENIED"} /\ m.nif = "DS"
  /\ DsGranted.msg = "GRANTED" /\ DsReleased.msg = "RELEASED" /\ NifEvent("DENIED", "DS").msg = "DENIED"
  /\ \A m \in Message : m.msg = "GRANTED" /\ m.nif = "DS" => m = DsGranted
  /\ \A m \in Message : m.msg = "RELEASED" /\ m.nif = "DS" => m = DsReleased
  /\ \A m \in Message : m.msg = "DENIED" /\ m.nif = "DS" => m = NifEvent("DENIED", "DS")
  BY DEF DsGranted, DsReleased, NifEvent, Message, AtlMessage, NifMessage

\* Consuming a message moves the others one place forward.
LEMMA Consumed ==
  ASSUME TypeOK, queue # <<>>, Consume
  PROVE  /\ Len(queue) \in Nat \ {0} /\ DOMAIN queue = 1..Len(queue) /\ Head(queue) = queue[1]
         /\ DOMAIN queue' = 1..(Len(queue) - 1)
         /\ \A i \in DOMAIN queue' : i + 1 \in DOMAIN queue /\ queue'[i] = queue[i + 1]
<1>1. queue \in Seq(Message) /\ queue # <<>> /\ queue' = Tail(queue)
  BY DEF TypeOK, Consume
<1>2. Len(queue) \in Nat \ {0} /\ DOMAIN queue = 1..Len(queue) /\ Head(queue) = queue[1]
  BY <1>1
<1>3. DOMAIN queue' = 1..(Len(queue) - 1)
  BY <1>1, <1>2
<1>4. \A i \in DOMAIN queue' : queue'[i] = queue[i + 1]
  BY <1>1, <1>2, <1>3
<1>5. \A i \in DOMAIN queue' : i + 1 \in DOMAIN queue
  BY <1>2, <1>3
<1> QED  BY <1>2, <1>3, <1>4, <1>5

\* Posting a message leaves the others where they are.
LEMMA Posted ==
  ASSUME TypeOK, NEW m \in Message, Post(m)
  PROVE  /\ Len(queue) \in Nat /\ DOMAIN queue = 1..Len(queue)
         /\ DOMAIN queue' = 1..(Len(queue) + 1)
         /\ queue'[Len(queue) + 1] = m
         /\ \A i \in DOMAIN queue : i \in DOMAIN queue' /\ queue'[i] = queue[i]
<1>1. queue \in Seq(Message) /\ queue' = Append(queue, m)
  BY DEF TypeOK, Post
<1> QED  BY <1>1

\* What a processed message leaves of the queue: the rest, one place forward, behind it
\* nothing but requests that DS passes on to SUPL.
MovesUp ==
  \A i \in DOMAIN queue' :
    queue'[i].msg # "RequestATL" => i + 1 \in DOMAIN queue /\ queue'[i] = queue[i + 1]

LEMMA ConsumeMovesUp == ASSUME TypeOK, queue # <<>>, Consume PROVE MovesUp
  BY Consumed DEF MovesUp

LEMMA Joined ==
  ASSUME NEW t \in Seq(Message), NEW f \in Seq(Message)
  PROVE  /\ Len(t) \in Nat /\ DOMAIN (t \o f) = 1..(Len(t) + Len(f))
         /\ \A i \in 1..(Len(t) + Len(f)) :
              (t \o f)[i] = IF i <= Len(t) THEN t[i] ELSE f[i - Len(t)]
  OBVIOUS

LEMMA FallbackMovesUp ==
  ASSUME TypeOK, queue # <<>>, NEW k \in Nat, NEW o \in [1..k -> Handles], FallbackToSupl(o)
  PROVE  MovesUp
<1> DEFINE f == [i \in DOMAIN o |-> RequestATL(o[i], "SUPL")]
           t == Tail(queue)
<1>1. \A h \in Handles : RequestATL(h, "SUPL") \in Message /\ RequestATL(h, "SUPL").msg = "RequestATL"
  BY DEF RequestATL, Message, AtlMessage, AtlTypes
<1>2. f \in Seq(Message) /\ Len(f) = k /\ \A i \in 1..k : f[i] = RequestATL(o[i], "SUPL")
  BY <1>1
<1>3. \A i \in 1..k : f[i].msg = "RequestATL"
  BY <1>1, <1>2
<1>4. queue \in Seq(Message) /\ queue # <<>>
  BY DEF TypeOK
<1>5. /\ t \in Seq(Message) /\ Len(queue) \in Nat \ {0} /\ Len(t) = Len(queue) - 1
      /\ DOMAIN queue = 1..Len(queue)
      /\ \A i \in 1..Len(t) : t[i] = queue[i + 1]
  BY <1>4
<1>6. queue' = t \o f
  BY DEF FallbackToSupl
<1> HIDE DEF f, t
<1>7. /\ DOMAIN queue' = 1..(Len(t) + k)
      /\ \A i \in 1..(Len(t) + k) : queue'[i] = IF i <= Len(t) THEN t[i] ELSE f[i - Len(t)]
  BY <1>2, <1>5, <1>6, Joined
<1> SUFFICES ASSUME NEW i \in DOMAIN queue', queue'[i].msg # "RequestATL"
             PROVE  i + 1 \in DOMAIN queue /\ queue'[i] = queue[i + 1]
  BY DEF MovesUp
<1>8. CASE i <= Len(t)
  BY <1>5, <1>7, <1>8
<1>9. CASE ~(i <= Len(t))
  <2>1. i - Len(t) \in 1..k /\ queue'[i] = f[i - Len(t)]
    BY <1>5, <1>7, <1>9
  <2> QED  BY <1>3, <2>1
<1> QED  BY <1>8, <1>9

LEMMA RequestMovesUp ==
  ASSUME TypeOK, queue # <<>>, NEW n \in Nifs, NEW active \in SUBSET Handles,
         NEW ok \in BOOLEAN, requestDataConn(n, active, ok)
  PROVE  /\ MovesUp
         /\ n # "DS" => Consume /\ UNCHANGED ds /\ ok
         /\ ~ok => dsCall' = dsCall
<1>1. CASE n \in BaseNifs
  BY <1>1, ConsumeMovesUp DEF requestDataConn, ds
<1>2. CASE n = "DS"
  <2>1. PICK r \in DsResults : openAndStartDataCall(active, ok)!(r)
    BY <1>2 DEF requestDataConn, openAndStartDataCall
  <2>2. MovesUp
    <3>1. CASE Consume
      BY <3>1, ConsumeMovesUp
    <3>2. ASSUME NEW h \in active, FallbackToSupl(<<h>>) PROVE MovesUp
      <4>1. <<h>> \in [1..1 -> Handles]
        OBVIOUS
      <4> QED  BY <3>2, <4>1, FallbackMovesUp
    <3> QED  BY <2>1, <3>1, <3>2
  <2>3. ~ok => dsCall' = dsCall
    BY <2>1 DEF ds
  <2> QED  BY <1>2, <2>2, <2>3
<1> QED  BY <1>1, <1>2

\* A step that moves the queue up keeps the reports in their order.  If it changes the data
\* call, no RELEASED may be left.
LEMMA ReportsKept ==
  ASSUME TypeOK, TypeOK', DataCallReports, MovesUp,
         dsCall' = dsCall \/ dsCall # "idle" \/ \A i \in DOMAIN queue' : queue'[i] # DsReleased
  PROVE  DataCallReports'
<1>0. /\ \A i \in DOMAIN queue : i \in Int
      /\ \A i \in DOMAIN queue' : i \in Int
  BY DEF TypeOK
<1>1. \A i \in DOMAIN queue' : queue'[i] \in {DsGranted, DsReleased, NifEvent("DENIED", "DS")} =>
        i + 1 \in DOMAIN queue /\ queue'[i] = queue[i + 1]
  BY DsReports DEF MovesUp
<1> QED  BY <1>0, <1>1 DEF DataCallReports

\* Nothing of the DS machine or of its data call changes.
DsUntouched ==
  /\ mState'["DS"] = mState["DS"]
  /\ mSubscriberList'["DS"] = mSubscriberList["DS"]
  /\ mWaitForCloseComplete'["DS"] = mWaitForCloseComplete["DS"]
  /\ dsCall' = dsCall

LEMMA UntouchedDataCall ==
  ASSUME TypeOK, TypeOK', DataCallInv, MovesUp, DsUntouched
  PROVE  DataCallInv'
<1>1. DataCallReports'
  BY ReportsKept DEF DataCallInv, DsUntouched
<1>2. DsAllWait'
  BY DEF DataCallInv, DsAllWait, DsUntouched
<1>3. NoLeakedDataCall'
  <2> SUFFICES ASSUME mState'["DS"] = "RELEASED" PROVE NoLeakedDataCall'
    BY DEF NoLeakedDataCall
  <2>1. \A i \in DOMAIN queue : queue[i] \notin {DsGranted, DsReleased}
    BY DEF DataCallInv, NoLeakedDataCall, DsUntouched, DsGranted, DsReleased
  <2>2. \A i \in DOMAIN queue' : queue'[i] \notin {DsGranted, DsReleased}
    BY <2>1, DsReports DEF MovesUp
  <2> QED  BY <2>2 DEF DataCallInv, NoLeakedDataCall, DsUntouched, DsGranted, DsReleased
<1> QED  BY <1>1, <1>2, <1>3 DEF DataCallInv

\* The RELEASED of the data call is the last report: nothing is left behind it.
LEMMA LastReport ==
  ASSUME TypeOK, TypeOK', DataCallReports, queue # <<>>, Head(queue) = DsReleased, MovesUp
  PROVE  dsCall = "idle" /\ \A i \in DOMAIN queue' : queue'[i] \notin {DsGranted, DsReleased}
<1>1. 1 \in DOMAIN queue /\ queue[1] = DsReleased
  BY DEF TypeOK
<1>2. \A i \in DOMAIN queue' : i \in Nat \ {0}
  BY DEF TypeOK
<1>3. \A i \in DOMAIN queue' : i + 1 > 1
  BY <1>2
<1>4. \A j \in DOMAIN queue : queue[j] \in {DsGranted, DsReleased} => j <= 1
  BY <1>1 DEF DataCallReports
<1>5. \A i \in DOMAIN queue' : queue'[i] \in {DsGranted, DsReleased} =>
        i + 1 \in DOMAIN queue /\ queue'[i] = queue[i + 1]
  BY DsReports DEF MovesUp
<1>6. \A i \in DOMAIN queue' : queue'[i] \in {DsGranted, DsReleased} => i + 1 <= 1
  BY <1>4, <1>5
<1>7. \A i \in DOMAIN queue' : queue'[i] \notin {DsGranted, DsReleased}
  BY <1>2, <1>6
<1> QED  BY <1>1, <1>7 DEF DataCallReports

LEMMA SubscribeDataCall ==
  ASSUME TypeOK, TypeOK', DataCallInv, queue # <<>>, NEW n \in Nifs, NEW h \in Handles,
         NEW w \in BOOLEAN, n = "DS" => w, Subscribe(n, h, w)
  PROVE  DataCallInv'
<1>1. /\ mSubscriberList'["DS"] = mWaitForCloseComplete'["DS"]
      /\ n # "DS" => /\ mSubscriberList'["DS"] = mSubscriberList["DS"]
                     /\ mWaitForCloseComplete'["DS"] = mWaitForCloseComplete["DS"]
  <2>1. addSubscriber(n, h, w) /\ "DS" \in Nifs
    BY DEF Subscribe
  <2>2. mWaitForCloseComplete["DS"] = mSubscriberList["DS"]
    BY DEF DataCallInv, DsAllWait
  <2>3. CASE h \in mSubscriberList[n]
    BY <2>1, <2>2, <2>3 DEF addSubscriber, lists
  <2>4. CASE h \notin mSubscriberList[n] /\ n = "DS"
    <3>1. /\ mSubscriberList' = [mSubscriberList EXCEPT ![n] = @ \cup {h}]
          /\ mWaitForCloseComplete' = [mWaitForCloseComplete EXCEPT ![n] = @ \cup {h}]
      BY <2>1, <2>4, Zenon DEF addSubscriber
    <3> QED  BY <2>1, <2>2, <2>4, <3>1 DEF TypeOK
  <2>5. CASE h \notin mSubscriberList[n] /\ n # "DS"
    BY <2>1, <2>2, <2>5 DEF addSubscriber, TypeOK
  <2> QED  BY <2>3, <2>4, <2>5
<1>2. CASE mState[n] = "RELEASED"
  <2>1. PICK ok \in BOOLEAN :
          /\ requestDataConn(n, Active(n) \cup {h}, ok)
          /\ transitionState(n, IF ok THEN "PENDING" ELSE "RELEASED")
    BY <1>2 DEF Subscribe
  <2>2. Active(n) \cup {h} \in SUBSET Handles
    BY DEF Active, TypeOK
  <2>3. /\ MovesUp
        /\ n # "DS" => dsCall' = dsCall
        /\ ~ok => dsCall' = dsCall
    BY <2>1, <2>2, RequestMovesUp DEF ds
  <2>4. CASE n # "DS"
    BY <1>1, <2>1, <2>3, <2>4, UntouchedDataCall DEF DsUntouched, transitionState, TypeOK
  <2>5. CASE n = "DS"
    <3>1. dsCall = "idle" /\ \A i \in DOMAIN queue : queue[i] \notin {DsGranted, DsReleased}
      BY <1>2, <2>5 DEF DataCallInv, NoLeakedDataCall, DsGranted, DsReleased
    <3>2. \A i \in DOMAIN queue' : queue'[i] \notin {DsGranted, DsReleased}
      BY <2>3, <3>1, DsReports DEF MovesUp
    <3>3. DataCallReports'
      BY <2>3, <3>2, ReportsKept DEF DataCallInv
    <3>4. mState'["DS"] = "RELEASED" => dsCall' = "idle"
      BY <2>1, <2>3, <2>5, <3>1 DEF transitionState, TypeOK
    <3> QED  BY <1>1, <3>2, <3>3, <3>4 
             DEF DataCallInv, NoLeakedDataCall, DsAllWait, DsGranted, DsReleased
  <2> QED  BY <2>4, <2>5
<1>3. CASE mState[n] # "RELEASED"
  <2>1. Consume /\ UNCHANGED <<mState, ds>>
    BY <1>3 DEF Subscribe
  <2>2. DataCallReports'
    BY <2>1, ConsumeMovesUp, ReportsKept DEF DataCallInv, ds
  <2>3. NoLeakedDataCall'
    <3>1. \A i \in DOMAIN queue' : i + 1 \in DOMAIN queue /\ queue'[i] = queue[i + 1]
      BY <2>1, Consumed
    <3> QED  BY <2>1, <3>1 DEF DataCallInv, NoLeakedDataCall, ds
  <2> QED  BY <1>1, <2>2, <2>3 DEF DataCallInv, DsAllWait
<1> QED  BY <1>2, <1>3

LEMMA UnsubscribeDataCall ==
  ASSUME TypeOK, TypeOK', DataCallInv, queue # <<>>, NEW n \in Nifs,
         NEW h \in mSubscriberList[n], Unsubscribe(n, h)
  PROVE  DataCallInv'
<1>1. Consume /\ MovesUp
  BY ConsumeMovesUp DEF Unsubscribe
<1>2. CASE n # "DS"
  <2>1. /\ mState'["DS"] = mState["DS"]
        /\ dsCall' = dsCall
    BY <1>2 DEF Unsubscribe, transitionState, releaseDataConn, TypeOK
  <2>2. /\ mSubscriberList'["DS"] = mSubscriberList["DS"]
        /\ mWaitForCloseComplete'["DS"] = mWaitForCloseComplete["DS"]
    BY <1>2 DEF Unsubscribe, deactivate, deleteSubscribers, lists, TypeOK
  <2> QED  BY <1>1, <2>1, <2>2, UntouchedDataCall DEF DsUntouched
<1>3. CASE n = "DS" /\ mState[n] = "RELEASED"
  BY <1>1, <1>3, UntouchedDataCall DEF Unsubscribe, DsUntouched, lists
<1>4. CASE n = "DS" /\ mState[n] # "RELEASED"
  <2>1. UNCHANGED <<mSubscriberList, mWaitForCloseComplete>>
    BY <1>4 DEF Unsubscribe, deactivate, DataCallInv, DsAllWait
  <2>2. mSubscriberList'[n] # {}
    BY <2>1
  <2>3. mState'["DS"] # "RELEASED"
    BY <1>4, <2>2 DEF Unsubscribe, transitionState, TypeOK
  <2>4. dsCall' = dsCall \/ dsCall # "idle"
    BY <1>4 DEF Unsubscribe, releaseDataConn
  <2>5. DataCallReports'
    BY <1>1, <2>4, ReportsKept DEF DataCallInv
  <2> QED  BY <2>1, <2>3, <2>5 DEF DataCallInv, DsAllWait, NoLeakedDataCall
<1> QED  BY <1>2, <1>3, <1>4

LEMMA IgnoreDataCall ==
  ASSUME TypeOK, TypeOK', DataCallInv, queue # <<>>, Ignore
  PROVE  DataCallInv'
  BY ConsumeMovesUp, UntouchedDataCall DEF Ignore, DsUntouched, lists, ds

LEMMA GrantedDataCall ==
  ASSUME TypeOK, TypeOK', DataCallInv, queue # <<>>, NEW n \in Nifs, Granted(n)
  PROVE  DataCallInv'
<1>1. CASE mState[n] # "PENDING"
  BY <1>1, IgnoreDataCall DEF Granted
<1>2. CASE mState[n] = "PENDING"
  <2>1. Consume /\ UNCHANGED <<lists, ds>> /\ transitionState(n, "ACQUIRED")
    BY <1>2 DEF Granted
  <2>2. CASE n # "DS"
    BY <2>1, <2>2, ConsumeMovesUp, UntouchedDataCall
    DEF DsUntouched, lists, ds, transitionState, TypeOK
  <2>3. CASE n = "DS"
    <3>1. DataCallReports'
      BY <2>1, ConsumeMovesUp, ReportsKept DEF DataCallInv, ds
    <3>2. mState'["DS"] # "RELEASED"
      BY <2>1, <2>3 DEF transitionState, TypeOK
    <3> QED  BY <2>1, <3>1, <3>2 DEF DataCallInv, DsAllWait, NoLeakedDataCall, lists
  <2> QED  BY <2>2, <2>3
<1> QED  BY <1>1, <1>2

\* The events of a framework machine do not touch the DS machine.
LEMMA BaseEventDataCall ==
  ASSUME TypeOK, TypeOK', DataCallInv, queue # <<>>, NEW n \in BaseNifs, Denied(n) \/ Released(n)
  PROVE  DataCallInv'
<1>1. ASSUME transitionState(n, mState'[n]), NEW S, deleteSubscribers(n, S), Consume, dsCall' = dsCall
      PROVE  DataCallInv'
  BY <1>1, ConsumeMovesUp, UntouchedDataCall DEF DsUntouched, transitionState, deleteSubscribers, TypeOK
<1>2. ASSUME NEW s, transitionState(n, s) PROVE transitionState(n, mState'[n])
  BY <1>2 DEF transitionState, TypeOK
<1>3. CASE CloseComplete(n)
  <2>1. Consume /\ dsCall' = dsCall
    <3>1. CASE Active(n) = {}
      BY <1>3, <3>1 DEF CloseComplete, ds
    <3>2. CASE Active(n) # {}
      BY <1>3, <3>2 DEF CloseComplete, requestDataConn, ds
    <3> QED  BY <3>1, <3>2
  <2>2. transitionState(n, mState'[n]) /\ deleteSubscribers(n, mIsInactive[n])
    BY <1>2, <1>3 DEF CloseComplete
  <2> QED  BY <1>1, <2>1, <2>2
<1>4. CASE Ignore
  BY <1>4, IgnoreDataCall
<1>5. CASE /\ transitionState(n, "RELEASED")
           /\ deleteSubscribers(n, mSubscriberList[n])
           /\ Consume
           /\ dsCall' = dsCall
  BY <1>1, <1>2, <1>5
<1>6. CASE Denied(n)
  BY <1>3, <1>4, <1>5, <1>6 DEF Denied
<1>7. CASE Released(n)
  BY <1>3, <1>4, <1>5, <1>7 DEF Released, ds
<1> QED  BY <1>6, <1>7

\* The last report of the data call: whatever the DS machine does with it, the call is down
\* and nothing more about it is on its way.
LEMMA LastReportDataCall ==
  ASSUME TypeOK, TypeOK', DataCallInv, queue # <<>>, Head(queue) = DsReleased, Released("DS")
  PROVE  DataCallInv'
<1>0. "DS" \in Nifs /\ "DS" \notin BaseNifs
  OBVIOUS
<1>1. CASE mState["DS"] = "RELEASED" \/ Ignore
  BY <1>1, IgnoreDataCall DEF Released, Denied, CloseComplete
<1>2. ASSUME MovesUp, mState'["DS"] = "RELEASED" => dsCall' = dsCall,
             NEW S, deleteSubscribers("DS", S)
      PROVE  DataCallInv'
  <2>1. dsCall = "idle" /\ \A i \in DOMAIN queue' : queue'[i] \notin {DsGranted, DsReleased}
    BY <1>2, LastReport DEF DataCallInv
  <2>2. DataCallReports'
    BY <1>2, <2>1, ReportsKept DEF DataCallInv
  <2>3. DsAllWait'
    BY <1>2 DEF DataCallInv, DsAllWait, deleteSubscribers, TypeOK
  <2> QED  BY <1>2, <2>1, <2>2, <2>3 DEF DataCallInv, NoLeakedDataCall, DsGranted, DsReleased
<1>3. CASE mState["DS"] = "ACQUIRED"
  <2>1. Consume /\ UNCHANGED ds /\ deleteSubscribers("DS", mSubscriberList["DS"])
    BY <1>3 DEF Released, CloseComplete
  <2> QED  BY <1>2, <2>1, ConsumeMovesUp DEF ds
<1>4. CASE CloseComplete("DS")
  <2>1. deleteSubscribers("DS", mIsInactive["DS"])
    BY <1>4 DEF CloseComplete
  <2>2. MovesUp /\ (mState'["DS"] = "RELEASED" => dsCall' = dsCall)
    <3>1. CASE Active("DS") = {}
      BY <1>4, <3>1, ConsumeMovesUp DEF CloseComplete, ds
    <3>2. CASE Active("DS") # {}
      <4>1. transitionState("DS", "PENDING") /\ \E ok \in BOOLEAN : requestDataConn("DS", Active("DS"), ok)
        BY <1>4, <3>2 DEF CloseComplete
      <4>2. Active("DS") \in SUBSET Handles
        BY <1>0 DEF Active, TypeOK
      <4> QED  BY <1>0, <4>1, <4>2, RequestMovesUp DEF transitionState, TypeOK
    <3> QED  BY <3>1, <3>2
  <2> QED  BY <1>2, <2>1, <2>2
<1>5. CASE mState["DS"] = "PENDING"
  <2>1. /\ deleteSubscribers("DS", mSubscriberList["DS"])
        /\ \E order \in Orders(mSubscriberList["DS"]) : FallbackToSupl(order)
        /\ dsCall' = dsCall
    BY <1>0, <1>5 DEF Released, Denied, CloseComplete
  <2>2. PICK order \in Orders(mSubscriberList["DS"]) : FallbackToSupl(order)
    BY <2>1
  <2>3. mSubscriberList["DS"] \subseteq Handles
    BY <1>0 DEF TypeOK
  <2>4. Cardinality(mSubscriberList["DS"]) \in Nat
    BY <2>3, HandlesAssumption, FS_Subset, FS_CardinalityType
  <2>5. order \in [1..Cardinality(mSubscriberList["DS"]) -> Handles]
    BY <2>2, <2>3 DEF Orders
  <2>6. MovesUp
    BY <2>2, <2>4, <2>5, FallbackMovesUp
  <2> QED  BY <1>2, <2>1, <2>6
<1> QED  BY <1>1, <1>3, <1>4, <1>5 DEF Released

LEMMA ProcessDataCall ==
  ASSUME TypeOK, TypeOK', DataCallInv, ProcessMessage
  PROVE  DataCallInv'
<1> DEFINE m == Head(queue)
<1>1. queue # <<>> /\ m \in Message
  BY QueueHead DEF ProcessMessage, ProcessRequestATL, ProcessReleaseATL, ProcessGranted,
       ProcessDenied, ProcessReleased, Next1
<1>2. CASE ProcessRequestATL
  <2>1. m.handle \in Handles /\ m.type \in AtlTypes /\ nifFor(m.type) \in Nifs
    BY <1>1, <1>2, MessageShape, NifOfType DEF ProcessRequestATL, Next1
  <2>2. CASE Consume /\ UNCHANGED <<mState, lists, ds>>
    BY <1>1, <2>2, ConsumeMovesUp, UntouchedDataCall DEF DsUntouched, lists, ds
  <2>3. CASE Subscribe(nifFor(m.type), m.handle, m.type = "SUPL_ES")
    <3>1. nifFor(m.type) = "DS" => m.type = "SUPL_ES"
      BY <2>1 DEF nifFor, AtlTypes
    <3> QED  BY <1>1, <2>1, <2>3, <3>1, SubscribeDataCall
  <2> QED  BY <1>2, <2>2, <2>3 DEF ProcessRequestATL
<1>3. CASE ProcessReleaseATL
  <2>1. CASE Consume /\ UNCHANGED <<mState, lists, ds>>
    BY <1>1, <2>1, ConsumeMovesUp, UntouchedDataCall DEF DsUntouched, lists, ds
  <2>2. CASE ownerOf(m.handle) # "none" /\ Unsubscribe(ownerOf(m.handle), m.handle)
    BY <1>1, <2>2, OwnerIsNif, UnsubscribeDataCall
  <2> QED  BY <1>3, <2>1, <2>2 DEF ProcessReleaseATL
<1>4. CASE ProcessGranted
  BY <1>1, <1>4, MessageShape, GrantedDataCall DEF ProcessGranted, Next1
<1>5. CASE ProcessDenied
  <2>1. m.nif \in Nifs /\ m.msg = "DENIED" /\ Denied(m.nif)
    BY <1>1, <1>5, MessageShape DEF ProcessDenied, Next1
  <2>2. 1 \in DOMAIN queue /\ queue[1] = m
    BY <1>1 DEF TypeOK
  <2>3. m.nif # "DS"
    BY <1>1, <2>1, <2>2, DsReports DEF DataCallInv, DataCallReports
  <2> QED  BY <1>1, <2>1, <2>3, BaseEventDataCall
<1>6. CASE ProcessReleased
  <2>1. m.nif \in Nifs /\ m.msg = "RELEASED" /\ Released(m.nif)
    BY <1>1, <1>6, MessageShape DEF ProcessReleased, Next1
  <2>2. CASE m.nif = "DS"
    BY <1>1, <2>1, <2>2, DsReports, LastReportDataCall
  <2>3. CASE m.nif # "DS"
    BY <1>1, <2>1, <2>3, BaseEventDataCall
  <2> QED  BY <2>2, <2>3
<1> QED  BY <1>2, <1>3, <1>4, <1>5, <1>6 DEF ProcessMessage

\* Posting a message that is no report of the data call.
LEMMA PostDataCall ==
  ASSUME TypeOK, TypeOK', DataCallInv, NEW m \in Message, Post(m),
         m \notin {DsGranted, DsReleased, NifEvent("DENIED", "DS")},
         UNCHANGED <<mState, lists, dsCall>>
  PROVE  DataCallInv'
<1>1. \A i \in DOMAIN queue' :
        queue'[i] \in {DsGranted, DsReleased, NifEvent("DENIED", "DS")} =>
          i \in DOMAIN queue /\ queue[i] = queue'[i]
  <2>1. \A i \in DOMAIN queue' : i \in DOMAIN queue \/ queue'[i] = m
    BY Posted
  <2> QED  BY <2>1, Posted
<1>2. DataCallReports'
  BY <1>1 DEF DataCallInv, DataCallReports
<1>3. NoLeakedDataCall'
  BY <1>1 DEF DataCallInv, NoLeakedDataCall, DsGranted, DsReleased
<1> QED  BY <1>2, <1>3 DEF DataCallInv, DsAllWait, lists

LEMMA SameDataCall ==
  ASSUME DataCallInv, UNCHANGED <<mState, lists, dsCall, queue>>
  PROVE  DataCallInv'
  BY DEF DataCallInv, DataCallReports, DsAllWait, NoLeakedDataCall, lists

\* The data call is reported up once and down last.
LEMMA DsDataCall ==
  ASSUME TypeOK, TypeOK', DataCallInv, DsAnswer \/ DsLost
  PROVE  DataCallInv'
<1>1. PICK m \in {DsGranted, DsReleased} : Post(m) /\ (m = DsReleased => dsCall' = "idle")
  <2>1. Post(DsGranted) \/ (Post(DsReleased) /\ dsCall' = "idle")
    BY DEF DsAnswer, DsLost, DsGranted, DsReleased
  <2>2. DsGranted # DsReleased
    BY DsReports
  <2> QED  BY <2>1, <2>2
<1>2. m \in Message
  BY Messages DEF DsGranted, DsReleased
<1>3. dsCall # "idle" /\ UNCHANGED <<mState, lists>>
  BY DEF DsAnswer, DsLost, untouched
<1>4. \A i \in DOMAIN queue : queue[i] # DsReleased
  BY <1>3 DEF DataCallInv, DataCallReports
<1>5. /\ \A i \in DOMAIN queue' : queue'[i] = DsReleased => i = Len(queue) + 1 /\ m = DsReleased
      /\ \A i \in DOMAIN queue' : i <= Len(queue) + 1
  <2>1. \A i \in DOMAIN queue' : i \in DOMAIN queue \/ i = Len(queue) + 1
    BY <1>1, <1>2, Posted
  <2>2. \A i \in DOMAIN queue' : i <= Len(queue) + 1
    BY <1>1, <1>2, Posted
  <2> QED  BY <1>1, <1>2, <1>4, <2>1, <2>2, Posted
<1>6. \A i \in DOMAIN queue' : queue'[i] # NifEvent("DENIED", "DS")
  <2>1. \A i \in DOMAIN queue' : (i \in DOMAIN queue /\ queue'[i] = queue[i]) \/ queue'[i] = m
    BY <1>1, <1>2, Posted
  <2>2. m # NifEvent("DENIED", "DS")
    BY DEF NifEvent, DsGranted, DsReleased
  <2> QED  BY <2>1, <2>2 DEF DataCallInv, DataCallReports
<1>7. DataCallReports'
  BY <1>1, <1>5, <1>6 DEF DataCallReports
<1>8. mState["DS"] # "RELEASED"
  BY <1>3 DEF DataCallInv, NoLeakedDataCall
<1> QED  BY <1>3, <1>7, <1>8 DEF DataCallInv, DsAllWait, NoLeakedDataCall, lists

LEMMA DataCallInit == Init => DataCallInv
<1> SUFFICES ASSUME Init PROVE DataCallInv
  OBVIOUS
<1>1. DOMAIN queue = {}
  BY DEF Init
<1>2. mWaitForCloseComplete["DS"] = mSubscriberList["DS"] /\ dsCall = "idle"
  BY DEF Init
<1> QED  BY <1>1, <1>2 DEF DataCallInv, DataCallReports, DsAllWait, NoLeakedDataCall

LEMMA DataCallStep == TypeOK /\ DataCallInv /\ [Next]_vars => DataCallInv'
<1> SUFFICES ASSUME TypeOK, TypeOK', DataCallInv, [Next]_vars PROVE DataCallInv'
  BY TypeStep
<1>1. CASE ProcessMessage
  BY <1>1, ProcessDataCall
<1>2. CASE UNCHANGED <<mState, lists, dsCall, queue>>
  BY <1>2, SameDataCall
<1>3. CASE RetryTimeout
  <2>1. CASE UNCHANGED queue
    BY <1>2, <1>3, <2>1 DEF RetryTimeout
  <2>2. ASSUME NEW h \in Active("DS"), queue' = Append(queue, RequestATL(h, "SUPL_ES"))
        PROVE  DataCallInv'
    <3>1. h \in Handles
      BY DEF Active, TypeOK
    <3>2. RequestATL(h, "SUPL_ES") \in Message
      BY <3>1, Messages DEF AtlTypes
    <3>3. RequestATL(h, "SUPL_ES") \notin {DsGranted, DsReleased, NifEvent("DENIED", "DS")}
      BY DsReports DEF RequestATL
    <3> QED  BY <1>3, <2>2, <3>2, <3>3, PostDataCall DEF RetryTimeout, Post
  <2> QED  BY <1>3, <2>1, <2>2 DEF RetryTimeout
<1>4. ASSUME NEW h \in Handles, NEW t \in Types, ModemRequest(h, t) PROVE DataCallInv'
  <2>1. RequestATL(h, t) \in Message
    BY Messages, TypesAssumption
  <2>2. RequestATL(h, t) \notin {DsGranted, DsReleased, NifEvent("DENIED", "DS")}
    BY DsReports DEF RequestATL
  <2> QED  BY <1>4, <2>1, <2>2, PostDataCall DEF ModemRequest, untouched
<1>5. ASSUME NEW h \in Handles, ModemRelease(h) PROVE DataCallInv'
  <2>1. ReleaseATL(h) \in Message /\ ReleaseATL(h) \notin {DsGranted, DsReleased, NifEvent("DENIED", "DS")}
    BY Messages, DsReports DEF ReleaseATL
  <2> QED  BY <1>5, <2>1, PostDataCall DEF ModemRelease, untouched
<1>6. ASSUME NEW n \in BaseNifs, FrameworkCommand(n) \/ FrameworkAnswer(n) \/ FrameworkLost(n)
      PROVE  DataCallInv'
  <2>1. UNCHANGED <<mState, lists, dsCall>>
    BY <1>6 DEF FrameworkCommand, FrameworkAnswer, FrameworkLost, untouched
  <2>2. CASE UNCHANGED queue
    BY <1>2, <2>1, <2>2
  <2>3. ASSUME NEW e \in {"GRANTED", "RELEASED", "DENIED"}, Post(NifEvent(e, n)) PROVE DataCallInv'
    <3>1. NifEvent(e, n) \in Message
      BY Messages
    <3>2. NifEvent(e, n) \notin {DsGranted, DsReleased, NifEvent("DENIED", "DS")}
      BY DsReports DEF NifEvent
    <3> QED  BY <2>1, <2>3, <3>1, <3>2, PostDataCall
  <2>4. UNCHANGED queue \/ \E e \in {"GRANTED", "RELEASED", "DENIED"} : Post(NifEvent(e, n))
    BY <1>6 DEF FrameworkCommand, FrameworkAnswer, FrameworkLost
  <2> QED  BY <2>2, <2>3, <2>4
<1>7. CASE DsAnswer \/ DsLost
  BY <1>7, DsDataCall
<1>8. CASE UNCHANGED vars
  BY <1>2, <1>8 DEF vars, ds
<1> QED  BY <1>1, <1>3, <1>4, <1>5, <1>6, <1>7, <1>8 DEF Next

\* However the retries, the fallbacks, the lost calls and the late reports interleave, for any
\* number of handles and every configuration, the DS machine is RELEASED only when its data
\* call is down and no report of it is left that the next call could be given instead.
THEOREM DataCallNeverLeaks == Spec => []NoLeakedDataCall
<1>1. TypeOK /\ DataCallInv /\ [Next]_vars => (TypeOK /\ DataCallInv)'
  BY TypeStep, DataCallStep
<1>2. Init => TypeOK /\ DataCallInv
  BY TypeInit, DataCallInit
<1>3. DataCallInv => NoLeakedDataCall
  BY DEF DataCallInv
<1> QED  BY <1>1, <1>2, <1>3, PTL DEF Spec

-----------------------------------------------------------------------------
(***************************************************************************)
(* The handles, when no request goes to the DS machine: the emergency PDN  *)
(* is not used, or the modem asks for no emergency connection.  (With DS   *)
(* the fallback puts a handle in two machines: see the module's runs.)     *)
(*                                                                         *)
(* For each handle the queue holds at most a request and, behind it, a     *)
(* release; a handle whose request is queued is subscribed nowhere, and    *)
(* one that is subscribed is believed to be what its machine says.         *)
(***************************************************************************)
DsIsNotAsked == \A t \in Types : nifFor(t) # "DS"

IsAtl(m) == m.msg \in {"RequestATL", "ReleaseATL"}

DsUnused ==
  /\ mSubscriberList["DS"] = {}
  /\ \A i \in DOMAIN queue : queue[i].msg = "RequestATL" => nifFor(queue[i].type) # "DS"

HandleQueue ==
  \A i, j \in DOMAIN queue :
    i < j /\ IsAtl(queue[i]) /\ IsAtl(queue[j]) /\ queue[i].handle = queue[j].handle =>
      queue[i].msg = "RequestATL" /\ queue[j].msg = "ReleaseATL"

Subscribed(h) == \E n \in Nifs : h \in mSubscriberList[n]

HandleFits(h) ==
  /\ atl[h] # "ghost"
  /\ RequestQueued(h) =>
       ~Subscribed(h) /\ atl[h] = IF ReleaseQueued(h) THEN "releasing" ELSE "requested"
  /\ ReleaseQueued(h) => atl[h] \in {"idle", "releasing"}
  /\ \A n \in Nifs : h \in mSubscriberList[n] => atl[h] = Expected(n, h)
  /\ \A m, n \in Nifs : h \in mSubscriberList[m] /\ h \in mSubscriberList[n] => m = n

HandleInv == DsUnused /\ HandleQueue /\ \A h \in Handles : HandleFits(h)

\* As in NoForgottenHandle, and nobody waits for a close.
NotForgotten(h) == atl[h] # "idle" => ReleaseQueued(h) \/ RequestQueued(h) \/ Subscribed(h)
NoneWaits == \A n \in Nifs : mWaitForCloseComplete[n] = {}

LEMMA HandleInvImplies == HandleInv => ModemAgrees
  BY DEF HandleInv, HandleFits, ModemAgrees

\* What a queue says of a handle, by the kinds and handles of its messages.
LEMMA QueueSays ==
  ASSUME NEW q \in Seq(Message), NEW h
  PROVE  /\ (\E i \in DOMAIN q, t \in AtlTypes : q[i] = RequestATL(h, t)) <=>
              \E i \in DOMAIN q : q[i].msg = "RequestATL" /\ q[i].handle = h
         /\ (\E i \in DOMAIN q : q[i] = ReleaseATL(h)) <=>
              \E i \in DOMAIN q : q[i].msg = "ReleaseATL" /\ q[i].handle = h
<1>1. \A i \in DOMAIN q : q[i] \in Message
  OBVIOUS
<1>2. \A t : RequestATL(h, t).msg = "RequestATL" /\ RequestATL(h, t).handle = h
  BY DEF RequestATL
<1>3. ReleaseATL(h).msg = "ReleaseATL" /\ ReleaseATL(h).handle = h
  BY DEF ReleaseATL
<1>4. \A m \in Message : m.msg = "RequestATL" /\ m.handle = h =>
        m.type \in AtlTypes /\ m = RequestATL(h, m.type)
  BY DEF Message, AtlMessage, NifMessage, RequestATL
<1>5. \A m \in Message : m.msg = "ReleaseATL" /\ m.handle = h => m = ReleaseATL(h)
  BY DEF Message, AtlMessage, NifMessage, ReleaseATL
<1> QED  BY <1>1, <1>2, <1>3, <1>4, <1>5

About(k, h) == \E i \in DOMAIN queue : queue[i].msg = k /\ queue[i].handle = h

LEMMA QueuedAbout ==
  ASSUME TypeOK, TypeOK', NEW h
  PROVE  /\ RequestQueued(h) <=> About("RequestATL", h)
         /\ ReleaseQueued(h) <=> About("ReleaseATL", h)
         /\ RequestQueued(h)' <=> About("RequestATL", h)'
         /\ ReleaseQueued(h)' <=> About("ReleaseATL", h)'
<1>1. queue \in Seq(Message) /\ queue' \in Seq(Message)
  BY DEF TypeOK
<1>2. /\ RequestQueued(h) <=> About("RequestATL", h)
      /\ ReleaseQueued(h) <=> About("ReleaseATL", h)
  BY <1>1, QueueSays DEF RequestQueued, ReleaseQueued, About
<1> DEFINE q == queue'
<1>3. /\ RequestQueued(h)' <=> \E i \in DOMAIN q, t \in AtlTypes : q[i] = RequestATL(h, t)
      /\ ReleaseQueued(h)' <=> \E i \in DOMAIN q : q[i] = ReleaseATL(h)
  BY DEF RequestQueued, ReleaseQueued, RequestATL, ReleaseATL
<1>4. \A k : About(k, h)' <=> \E i \in DOMAIN q : q[i].msg = k /\ q[i].handle = h
  BY DEF About
<1> HIDE DEF q
<1>5. q \in Seq(Message)
  BY <1>1 DEF q
<1> QED  BY <1>2, <1>3, <1>4, <1>5, QueueSays

\* What the queue says of a handle is as before.
SameQueued(h) == (RequestQueued(h)' <=> RequestQueued(h)) /\ (ReleaseQueued(h)' <=> ReleaseQueued(h))

\* Consuming a message keeps the queue's part of the invariant; it changes what the queue
\* says of the message's own handle only: it held its request, and then no other, or its
\* release, and then nothing else about it.
LEMMA ConsumeQueued ==
  ASSUME TypeOK, TypeOK', HandleQueue, queue # <<>>, Consume
  PROVE  /\ HandleQueue'
         /\ \A h \in Handles : (~IsAtl(Head(queue)) \/ Head(queue).handle # h) => SameQueued(h)
         /\ \A h \in Handles : Head(queue).msg = "RequestATL" /\ Head(queue).handle = h =>
              RequestQueued(h) /\ ~RequestQueued(h)' /\ (ReleaseQueued(h)' <=> ReleaseQueued(h))
         /\ \A h \in Handles : Head(queue).msg = "ReleaseATL" /\ Head(queue).handle = h =>
              ReleaseQueued(h) /\ ~RequestQueued(h) /\ ~RequestQueued(h)' /\ ~ReleaseQueued(h)'
         /\ \A i \in DOMAIN queue' : i + 1 \in DOMAIN queue /\ queue'[i] = queue[i + 1]
<1> DEFINE m == Head(queue)
           q == queue'
<1>1. /\ Len(queue) \in Nat \ {0} /\ DOMAIN queue = 1..Len(queue) /\ m = queue[1]
      /\ DOMAIN q = 1..(Len(queue) - 1)
      /\ \A i \in DOMAIN q : i + 1 \in DOMAIN queue /\ q[i] = queue[i + 1]
  BY Consumed
<1>2. \A i \in DOMAIN queue : i = 1 \/ (i - 1 \in DOMAIN q /\ q[i - 1] = queue[i] /\ 1 < i)
  BY <1>1
<1>3. 1 \in DOMAIN queue /\ \A i \in DOMAIN q : 1 < i + 1
  BY <1>1
<1>4. \A i, j \in DOMAIN q : i < j => i + 1 < j + 1
  BY <1>1
<1> HIDE DEF m, q
<1>5. HandleQueue'
  <2>1. \A i, j \in DOMAIN q :
          i < j /\ IsAtl(q[i]) /\ IsAtl(q[j]) /\ q[i].handle = q[j].handle =>
            q[i].msg = "RequestATL" /\ q[j].msg = "ReleaseATL"
    BY <1>1, <1>4 DEF HandleQueue
  <2> QED  BY <2>1 DEF HandleQueue, IsAtl, q
<1>6. \A k, h : About(k, h) <=> About(k, h)' \/ (m.msg = k /\ m.handle = h)
  <2>1. \A k, h : About(k, h)' <=> \E i \in DOMAIN q : q[i].msg = k /\ q[i].handle = h
    BY DEF About, q
  <2> QED  BY <1>1, <1>2, <1>3, <2>1 DEF About
<1>7. \A k, h : About(k, h)' => \E i \in DOMAIN q : q[i].msg = k /\ q[i].handle = h
  BY DEF About, q
<1>8. \A i \in DOMAIN q : IsAtl(m) /\ IsAtl(q[i]) /\ q[i].handle = m.handle =>
        m.msg = "RequestATL" /\ q[i].msg = "ReleaseATL"
  BY <1>1, <1>3 DEF HandleQueue
<1>9. ASSUME NEW h \in Handles, ~IsAtl(m) \/ m.handle # h PROVE SameQueued(h)
  BY <1>6, <1>9, QueuedAbout DEF SameQueued, IsAtl
<1>10. ASSUME NEW h \in Handles, m.msg = "RequestATL", m.handle = h
       PROVE  RequestQueued(h) /\ ~RequestQueued(h)' /\ (ReleaseQueued(h)' <=> ReleaseQueued(h))
  BY <1>6, <1>7, <1>8, <1>10, QueuedAbout DEF IsAtl
<1>11. ASSUME NEW h \in Handles, m.msg = "ReleaseATL", m.handle = h
       PROVE  ReleaseQueued(h) /\ ~RequestQueued(h) /\ ~RequestQueued(h)' /\ ~ReleaseQueued(h)'
  BY <1>6, <1>7, <1>8, <1>11, QueuedAbout DEF IsAtl
<1> QED  BY <1>1, <1>5, <1>9, <1>10, <1>11 DEF m, q

\* Posting a message: it may be about no handle, about one the queue says nothing of, or be
\* the release of one that has none queued.
LEMMA PostQueued ==
  ASSUME TypeOK, TypeOK', HandleQueue, NEW m \in Message, Post(m),
         m.msg = "RequestATL" => ~RequestQueued(m.handle) /\ ~ReleaseQueued(m.handle),
         m.msg = "ReleaseATL" => ~ReleaseQueued(m.handle)
  PROVE  /\ HandleQueue'
         /\ \A h : (RequestQueued(h)' <=> RequestQueued(h) \/ (m.msg = "RequestATL" /\ m.handle = h))
         /\ \A h : (ReleaseQueued(h)' <=> ReleaseQueued(h) \/ (m.msg = "ReleaseATL" /\ m.handle = h))
         /\ \A i \in DOMAIN queue' : queue'[i] = m \/ (i \in DOMAIN queue /\ queue'[i] = queue[i])
<1> DEFINE q == queue'
<1>1. /\ Len(queue) \in Nat /\ DOMAIN queue = 1..Len(queue)
      /\ DOMAIN q = 1..(Len(queue) + 1)
      /\ q[Len(queue) + 1] = m
      /\ \A i \in DOMAIN queue : i \in DOMAIN q /\ q[i] = queue[i]
  BY Posted
<1>2. /\ Len(queue) + 1 \in DOMAIN q
      /\ \A i \in DOMAIN q : i \in DOMAIN queue \/ i = Len(queue) + 1
      /\ \A i \in DOMAIN q : ~(Len(queue) + 1 < i)
  BY <1>1
<1>3. \A k, h : About(k, h)' <=> \E i \in DOMAIN q : q[i].msg = k /\ q[i].handle = h
  BY DEF About
<1> HIDE DEF q
<1>4. \A k, h : About(k, h)' <=> About(k, h) \/ (m.msg = k /\ m.handle = h)
  <2> SUFFICES ASSUME NEW k, NEW h
               PROVE  About(k, h)' <=> About(k, h) \/ (m.msg = k /\ m.handle = h)
    OBVIOUS
  <2>1. ASSUME NEW i \in DOMAIN q, q[i].msg = k, q[i].handle = h
        PROVE  About(k, h) \/ (m.msg = k /\ m.handle = h)
    <3>1. CASE i \in DOMAIN queue
      BY <1>1, <2>1, <3>1 DEF About
    <3>2. CASE i = Len(queue) + 1
      BY <1>1, <2>1, <3>2
    <3> QED  BY <1>2, <3>1, <3>2
  <2>2. ASSUME NEW i \in DOMAIN queue, queue[i].msg = k, queue[i].handle = h
        PROVE  \E j \in DOMAIN q : q[j].msg = k /\ q[j].handle = h
    BY <1>1, <2>2
  <2>3. ASSUME m.msg = k, m.handle = h
        PROVE  \E j \in DOMAIN q : q[j].msg = k /\ q[j].handle = h
    BY <1>1, <1>2, <2>3
  <2>4. About(k, h)' => About(k, h) \/ (m.msg = k /\ m.handle = h)
    BY <1>3, <2>1
  <2>5. About(k, h) => About(k, h)'
    BY <1>3, <2>2 DEF About
  <2> QED  BY <1>3, <2>3, <2>4, <2>5
<1>5. \A i \in DOMAIN queue : IsAtl(m) /\ IsAtl(queue[i]) /\ queue[i].handle = m.handle =>
        queue[i].msg = "RequestATL" /\ m.msg = "ReleaseATL"
  BY QueuedAbout DEF IsAtl, About
<1>6. \A i, j \in DOMAIN q :
        i < j /\ IsAtl(q[i]) /\ IsAtl(q[j]) /\ q[i].handle = q[j].handle =>
          q[i].msg = "RequestATL" /\ q[j].msg = "ReleaseATL"
  <2> SUFFICES ASSUME NEW i \in DOMAIN q, NEW j \in DOMAIN q,
                      i < j, IsAtl(q[i]), IsAtl(q[j]), q[i].handle = q[j].handle
               PROVE  q[i].msg = "RequestATL" /\ q[j].msg = "ReleaseATL"
    OBVIOUS
  <2>1. i \in DOMAIN queue /\ q[i] = queue[i]
    BY <1>1, <1>2
  <2>2. CASE j \in DOMAIN queue
    BY <1>1, <2>1, <2>2 DEF HandleQueue
  <2>3. CASE j = Len(queue) + 1
    BY <1>1, <1>5, <2>1, <2>3
  <2> QED  BY <1>2, <2>2, <2>3
<1>7. HandleQueue'
  BY <1>6 DEF HandleQueue, IsAtl, q
<1>8. \A i \in DOMAIN q : q[i] = m \/ (i \in DOMAIN queue /\ q[i] = queue[i])
  BY <1>1, <1>2
<1> QED  BY <1>4, <1>7, <1>8, QueuedAbout DEF q

LEMMA ExpectedIs ==
  ASSUME NEW n, NEW h
  PROVE  /\ Expected(n, h) = IF h \in mIsInactive[n] \/ ReleaseQueued(h) THEN "releasing"
                             ELSE IF mState[n] = "ACQUIRED" THEN "open" ELSE "requested"
         /\ Expected(n, h)' = IF h \in mIsInactive'[n] \/ ReleaseQueued(h)' THEN "releasing"
                              ELSE IF mState'[n] = "ACQUIRED" THEN "open" ELSE "requested"
  BY DEF Expected

LEMMA StatusValues ==
  /\ Opened["requested"] = "open" /\ Opened["releasing"] = "releasing"
  /\ OpenFailed["requested"] = "idle" /\ OpenFailed["releasing"] = "releasing"
  /\ OpenFailed["idle"] = "idle"
  /\ \A s \in AtlStates : Closed[s] = "idle"
  /\ CloseFailed["releasing"] = "idle" /\ CloseFailed["idle"] = "idle"
  BY DEF Opened, OpenFailed, Closed, CloseFailed, AtlStates

LEMMA Told ==
  ASSUME TypeOK, NEW S, NEW status, Tell(S, status)
  PROVE  /\ \A k \in Handles : atl'[k] = IF k \in S THEN status[atl[k]] ELSE atl[k]
         /\ \A k \in Handles : atl[k] \in AtlStates
  BY DEF Tell, TypeOK

\* What a step of the manager does for the handles: each still fits, none is forgotten while
\* nobody waits for a close, and the modem sees a step of AtlService.
HandleStep ==
  /\ \A k \in Handles : HandleFits(k)'
  /\ NoneWaits => \A k \in Handles : NotForgotten(k) => NotForgotten(k)'
  /\ [Service!Next]_atl

\* The modem's view of the handles as AtlService's steps change it.
LEMMA GrantStep ==
  ASSUME NEW S \in SUBSET Handles, \A h \in S : atl[h] = "requested",
         atl' = [h \in Handles |-> IF h \in S THEN "open" ELSE atl[h]]
  PROVE  [Service!Next]_atl
  BY DEF Service!Next, Service!Grant

LEMMA EndStep ==
  ASSUME NEW S \in SUBSET Handles, \A h \in S : atl[h] # "idle",
         atl' = [h \in Handles |-> IF h \in S THEN "idle" ELSE atl[h]]
  PROVE  [Service!Next]_atl
  BY DEF Service!Next, Service!End

\* Notifications are steps of AtlService when those told open have a request or a release
\* under way, and those told that it failed or closed are not idle, or stay as they are.
LEMMA OpenedStep ==
  ASSUME TypeOK, NEW S \in SUBSET Handles, Tell(S, Opened),
         \A h \in S : atl[h] \in {"requested", "releasing"}
  PROVE  [Service!Next]_atl
<1> DEFINE G == {h \in S : atl[h] = "requested"}
<1>1. atl' = [h \in Handles |-> IF h \in G THEN "open" ELSE atl[h]]
  BY StatusValues DEF Tell
<1> QED  BY <1>1, GrantStep

LEMMA EndedStep ==
  ASSUME TypeOK, NEW S \in SUBSET Handles, NEW status, Tell(S, status),
         \A h \in S : status[atl[h]] = "idle" \/ status[atl[h]] = atl[h]
  PROVE  [Service!Next]_atl
<1> DEFINE E == {h \in S : atl[h] # "idle" /\ status[atl[h]] = "idle"}
<1>1. atl' = [h \in Handles |-> IF h \in E THEN "idle" ELSE atl[h]]
  BY DEF Tell
<1>2. E \in SUBSET Handles /\ \A h \in E : atl[h] # "idle"
  OBVIOUS
<1> HIDE DEF E
<1> QED  BY <1>1, <1>2, EndStep

LEMMA SameAtl == ASSUME UNCHANGED atl PROVE [Service!Next]_atl
  OBVIOUS

\* A handle none of whose queue entries, subscriptions and expectations changes.
LEMMA Unaffected ==
  ASSUME NEW k \in Handles, HandleFits(k), SameQueued(k), atl'[k] = atl[k],
         \A m \in Nifs : k \in mSubscriberList'[m] <=> k \in mSubscriberList[m],
         \A m \in Nifs : k \in mSubscriberList[m] => Expected(m, k)' = Expected(m, k)
  PROVE  HandleFits(k)' /\ (NotForgotten(k) => NotForgotten(k)')
<1>1. Subscribed(k)' <=> Subscribed(k)
  BY DEF Subscribed
<1>2. NotForgotten(k) => NotForgotten(k)'
  BY <1>1 DEF NotForgotten, SameQueued
<1>3. /\ RequestQueued(k)' =>
           ~Subscribed(k)' /\ atl'[k] = IF ReleaseQueued(k)' THEN "releasing" ELSE "requested"
      /\ ReleaseQueued(k)' => atl'[k] \in {"idle", "releasing"}
      /\ atl'[k] # "ghost"
  BY <1>1 DEF HandleFits, SameQueued
<1>4. /\ \A n \in Nifs : k \in mSubscriberList'[n] => atl'[k] = Expected(n, k)'
      /\ \A m, n \in Nifs : k \in mSubscriberList'[m] /\ k \in mSubscriberList'[n] => m = n
  BY DEF HandleFits
<1> QED  BY <1>2, <1>3, <1>4 DEF HandleFits

\* A handle subscribed nowhere.
LEMMA Unsubscribed ==
  ASSUME NEW k \in Handles, \A m \in Nifs : k \notin mSubscriberList'[m],
         ~RequestQueued(k)', atl'[k] # "ghost",
         ReleaseQueued(k)' => atl'[k] \in {"idle", "releasing"}
  PROVE  HandleFits(k)'
<1>1. ~Subscribed(k)'
  BY DEF Subscribed
<1> QED  BY <1>1 DEF HandleFits

\* A handle subscribed to one machine.
LEMMA SubscribedOnce ==
  ASSUME NEW k \in Handles, NEW n \in Nifs, k \in mSubscriberList'[n],
         \A m \in Nifs \ {n} : k \notin mSubscriberList'[m],
         ~RequestQueued(k)', atl'[k] = Expected(n, k)', ReleaseQueued(k)' => atl'[k] = "releasing"
  PROVE  HandleFits(k)' /\ NotForgotten(k)'
<1>1. Subscribed(k)'
  BY DEF Subscribed
<1>2. atl'[k] # "ghost"
  BY ExpectedIs
<1> QED  BY <1>1, <1>2 DEF HandleFits, NotForgotten

LEMMA SubscribeFits ==
  ASSUME TypeOK, TypeOK', MachinesConsistent, HandleInv, queue # <<>>,
         NEW n \in BaseNifs, NEW h \in Handles, NEW w \in BOOLEAN,
         Head(queue).msg = "RequestATL", Head(queue).handle = h, Subscribe(n, h, w)
  PROVE  Consume /\ HandleStep
<1> DEFINE newState == IF mState[n] = "RELEASED" THEN "PENDING" ELSE mState[n]
<1>1. /\ Consume
      /\ mState' = [mState EXCEPT ![n] = newState]
      /\ mState[n] # "ACQUIRED" => UNCHANGED atl
      /\ mState[n] = "ACQUIRED" => Tell({h}, Opened)
  <2>1. CASE mState[n] = "RELEASED"
    <3>1. PICK ok \in BOOLEAN :
            /\ requestDataConn(n, Active(n) \cup {h}, ok)
            /\ transitionState(n, IF ok THEN "PENDING" ELSE "RELEASED")
      BY <2>1 DEF Subscribe
    <3>2. Consume /\ ok
      BY <3>1 DEF requestDataConn
    <3> QED  BY <2>1, <3>1, <3>2 DEF Subscribe, transitionState
  <2>2. CASE mState[n] # "RELEASED"
    <3>1. Consume /\ UNCHANGED mState /\ (mState[n] # "ACQUIRED" => UNCHANGED atl)
          /\ (mState[n] = "ACQUIRED" => Tell({h}, Opened))
      BY <2>2 DEF Subscribe
    <3> QED  BY <2>2, <3>1 DEF TypeOK
  <2> QED  BY <2>1, <2>2
<1>2. /\ RequestQueued(h) /\ ~RequestQueued(h)' /\ (ReleaseQueued(h)' <=> ReleaseQueued(h))
      /\ \A k \in Handles : k # h => SameQueued(k)
  BY <1>1, ConsumeQueued DEF HandleInv
<1>3. HandleFits(h) /\ (\A m \in Nifs : h \notin mSubscriberList[m] /\ h \notin mIsInactive[m])
  BY <1>2 DEF HandleInv, HandleFits, Subscribed, MachinesConsistent, ListsNested
<1>4. /\ mSubscriberList' = [mSubscriberList EXCEPT ![n] = @ \cup {h}]
      /\ UNCHANGED mIsInactive
  BY <1>3 DEF Subscribe, addSubscriber
<1>5. atl[h] = IF ReleaseQueued(h) THEN "releasing" ELSE "requested"
  BY <1>2, <1>3 DEF HandleFits
<1>6. atl'[h] = IF mState[n] = "ACQUIRED" /\ ~ReleaseQueued(h) THEN "open" ELSE atl[h]
  BY <1>1, <1>5, Told, StatusValues
<1>7. \A k \in Handles : k # h => atl'[k] = atl[k]
  BY <1>1, Told
<1>8. HandleFits(h)' /\ NotForgotten(h)'
  <2>1. /\ h \in mSubscriberList'[n]
        /\ \A m \in Nifs \ {n} : h \notin mSubscriberList'[m]
    BY <1>3, <1>4 DEF TypeOK
  <2>2. mState'[n] = newState
    BY <1>1 DEF TypeOK
  <2>3. atl'[h] = Expected(n, h)'
    BY <1>2, <1>3, <1>4, <1>5, <1>6, <2>2, ExpectedIs
  <2>4. ReleaseQueued(h)' => atl'[h] = "releasing"
    BY <1>2, <1>5, <1>6
  <2> QED  BY <1>2, <2>1, <2>3, <2>4, SubscribedOnce
<1>9. ASSUME NEW k \in Handles, k # h PROVE HandleFits(k)' /\ (NotForgotten(k) => NotForgotten(k)')
  <2>1. \A m \in Nifs : k \in mSubscriberList'[m] <=> k \in mSubscriberList[m]
    BY <1>4, <1>9 DEF TypeOK
  <2>2. \A m \in Nifs : mState'[m] = "ACQUIRED" <=> mState[m] = "ACQUIRED"
    BY <1>1 DEF TypeOK
  <2>3. \A m \in Nifs : Expected(m, k)' = Expected(m, k)
    BY <1>2, <1>4, <1>9, <2>2, ExpectedIs DEF SameQueued
  <2> QED  BY <1>2, <1>7, <1>9, <2>1, <2>3, Unaffected DEF HandleInv
<1>10. [Service!Next]_atl
  BY <1>1, <1>5, OpenedStep, SameAtl
<1> QED  BY <1>1, <1>8, <1>9, <1>10 DEF HandleStep

LEMMA UnsubscribeFits ==
  ASSUME TypeOK, TypeOK', MachinesConsistent, HandleInv, queue # <<>>,
         NEW n \in BaseNifs, NEW h \in mSubscriberList[n],
         Head(queue).msg = "ReleaseATL", Head(queue).handle = h, Unsubscribe(n, h)
  PROVE  Consume /\ HandleStep
<1>0. h \in Handles /\ n \in Nifs /\ Consume
  BY DEF TypeOK, Unsubscribe
<1>1. /\ ReleaseQueued(h) /\ ~RequestQueued(h) /\ ~RequestQueued(h)' /\ ~ReleaseQueued(h)'
      /\ \A k \in Handles : k # h => SameQueued(k)
  BY <1>0, ConsumeQueued DEF HandleInv
<1>2. mState[n] # "RELEASED"
  BY <1>0 DEF MachinesConsistent, StateFitsList
<1>3. HandleFits(h) /\ atl[h] = "releasing" /\ \A m \in Nifs \ {n} : h \notin mSubscriberList[m]
  BY <1>0, <1>1, ExpectedIs DEF HandleInv, HandleFits
<1>4. mIsInactive[n] \subseteq mWaitForCloseComplete[n] /\ mIsInactive[n] \subseteq mSubscriberList[n]
  BY <1>0 DEF MachinesConsistent, ListsNested
<1>5. /\ IF h \in mWaitForCloseComplete[n]
         THEN deactivate(n, h) /\ UNCHANGED atl
         ELSE deleteSubscribers(n, {h}) /\ Tell({h}, Closed)
      /\ \/ UNCHANGED mState
         \/ /\ mState[n] # "RELEASING" => mSubscriberList'[n] = mIsInactive'[n]
            /\ \E s \in {"RELEASED", "RELEASING"} : transitionState(n, s)
  BY <1>2 DEF Unsubscribe
<1>6. ASSUME NEW k \in Handles, k # h,
             \A m \in Nifs : k \in mSubscriberList'[m] <=> k \in mSubscriberList[m],
             \A m \in Nifs : k \in mIsInactive'[m] <=> k \in mIsInactive[m],
             atl'[k] = atl[k]
      PROVE  HandleFits(k)' /\ (NotForgotten(k) => NotForgotten(k)')
  <2>1. SameQueued(k)
    BY <1>1, <1>6
  <2>2. ASSUME NEW m \in Nifs, k \in mSubscriberList[m] PROVE Expected(m, k)' = Expected(m, k)
    <3>1. CASE mState'[m] = mState[m]
      BY <1>6, <2>1, <3>1, ExpectedIs DEF SameQueued
    <3>2. CASE mState'[m] # mState[m]
      <4>1. /\ m = n /\ mState'[m] # "ACQUIRED"
            /\ mState[n] # "RELEASING" => mSubscriberList'[n] = mIsInactive'[n]
        BY <1>5, <3>2 DEF transitionState, TypeOK
      <4>2. CASE mState[n] = "RELEASING"
        BY <1>6, <2>1, <4>1, <4>2, ExpectedIs DEF SameQueued
      <4>3. CASE mState[n] # "RELEASING"
        <5>1. k \in mIsInactive[m] /\ k \in mIsInactive'[m]
          BY <1>6, <2>2, <4>1, <4>3
        <5> QED  BY <5>1, ExpectedIs
      <4> QED  BY <4>2, <4>3
    <3> QED  BY <3>1, <3>2
  <2> QED  BY <1>6, <2>1, <2>2, Unaffected DEF HandleInv
<1>7. CASE h \in mWaitForCloseComplete[n]
  <2>1. UNCHANGED <<atl, mSubscriberList, mWaitForCloseComplete>>
        /\ mIsInactive' = [mIsInactive EXCEPT ![n] = @ \cup {h}]
    BY <1>5, <1>7 DEF deactivate
  <2>2. HandleFits(h)' /\ NotForgotten(h)'
    <3>1. atl'[h] = Expected(n, h)'
      BY <1>0, <1>3, <2>1, ExpectedIs DEF TypeOK
    <3> QED  BY <1>0, <1>1, <1>3, <2>1, <3>1, SubscribedOnce
  <2>3. ASSUME NEW k \in Handles, k # h PROVE HandleFits(k)' /\ (NotForgotten(k) => NotForgotten(k)')
    BY <1>6, <2>1, <2>3 DEF TypeOK
  <2> QED  BY <1>0, <2>1, <2>2, <2>3, SameAtl DEF HandleStep
<1>8. CASE h \notin mWaitForCloseComplete[n]
  <2>1. deleteSubscribers(n, {h}) /\ Tell({h}, Closed)
    BY <1>5, <1>8
  <2>2. atl'[h] = "idle" /\ \A k \in Handles : k # h => atl'[k] = atl[k]
    BY <1>0, <2>1, Told, StatusValues
  <2>3. /\ \A m \in Nifs : \A k \in Handles : k # h =>
             /\ k \in mSubscriberList'[m] <=> k \in mSubscriberList[m]
             /\ k \in mIsInactive'[m] <=> k \in mIsInactive[m]
        /\ \A m \in Nifs : h \notin mSubscriberList'[m]
    BY <1>0, <1>3, <2>1 DEF deleteSubscribers, TypeOK
  <2>4. HandleFits(h)' /\ NotForgotten(h)'
    BY <1>0, <1>1, <2>2, <2>3, Unsubscribed DEF NotForgotten
  <2>5. ASSUME NEW k \in Handles, k # h PROVE HandleFits(k)' /\ (NotForgotten(k) => NotForgotten(k)')
    BY <1>6, <2>2, <2>3, <2>5
  <2>6. [Service!Next]_atl
    BY <1>0, <1>3, <2>1, EndedStep, StatusValues DEF AtlStates
  <2> QED  BY <1>0, <2>4, <2>5, <2>6 DEF HandleStep
<1> QED  BY <1>7, <1>8

\* A message about no handle is consumed: the queue says the same of every handle.
LEMMA EventQueued ==
  ASSUME TypeOK, TypeOK', HandleInv, queue # <<>>, ~IsAtl(Head(queue)), Consume
  PROVE  \A k \in Handles : SameQueued(k)
  BY ConsumeQueued DEF HandleInv

LEMMA NothingFits ==
  ASSUME HandleInv, \A k \in Handles : SameQueued(k), UNCHANGED <<mState, lists, atl>>
  PROVE  HandleStep
<1>1. ASSUME NEW k \in Handles PROVE HandleFits(k)' /\ (NotForgotten(k) => NotForgotten(k)')
  <2>1. \A m \in Nifs : Expected(m, k)' = Expected(m, k)
    BY ExpectedIs DEF SameQueued, lists
  <2> QED  BY <2>1, Unaffected DEF HandleInv, lists
<1> QED  BY <1>1 DEF HandleStep

LEMMA GrantedFits ==
  ASSUME TypeOK, TypeOK', MachinesConsistent, HandleInv, queue # <<>>, ~IsAtl(Head(queue)),
         NEW n \in Nifs, Granted(n)
  PROVE  Consume /\ HandleStep
<1>0. Consume /\ \A k \in Handles : SameQueued(k)
  BY EventQueued DEF Granted, Ignore
<1>1. CASE mState[n] # "PENDING"
  BY <1>0, <1>1, NothingFits DEF Granted, Ignore
<1>2. CASE mState[n] = "PENDING"
  <2>1. transitionState(n, "ACQUIRED") /\ Tell(Active(n), Opened) /\ UNCHANGED lists
    BY <1>2 DEF Granted
  <2>2. Active(n) \in SUBSET Handles /\ \A h \in Active(n) : h \in mSubscriberList[n] /\ h \notin mIsInactive[n]
    BY DEF Active, TypeOK
  <2>3. \A h \in Active(n) : atl[h] = IF ReleaseQueued(h) THEN "releasing" ELSE "requested"
    BY <1>2, <2>2, ExpectedIs DEF HandleInv, HandleFits
  <2>4. mState'[n] = "ACQUIRED" /\ \A m \in Nifs \ {n} : mState'[m] = mState[m]
    BY <2>1, Transition
  <2>5. ASSUME NEW k \in Handles PROVE HandleFits(k)' /\ (NotForgotten(k) => NotForgotten(k)')
    <3>1. CASE k \in mSubscriberList[n] /\ k \notin mIsInactive[n]
      <4>1. k \in Active(n)
        BY <3>1 DEF Active
      <4>2. atl'[k] = IF ReleaseQueued(k) THEN "releasing" ELSE "open"
        BY <2>1, <2>3, <4>1, Told, StatusValues
      <4>3. atl'[k] = Expected(n, k)'
        BY <1>0, <2>1, <2>4, <3>1, <4>2, ExpectedIs DEF SameQueued, lists
      <4>4. ~RequestQueued(k)' /\ \A m \in Nifs \ {n} : k \notin mSubscriberList'[m]
        BY <1>0, <2>1, <3>1 DEF HandleInv, HandleFits, Subscribed, SameQueued, lists
      <4> QED  BY <1>0, <2>1, <3>1, <4>2, <4>3, <4>4, SubscribedOnce DEF SameQueued, lists
    <3>2. CASE k \notin mSubscriberList[n] \/ k \in mIsInactive[n]
      <4>1. atl'[k] = atl[k]
        BY <2>1, <2>2, <3>2, Told
      <4>2. \A m \in Nifs : k \in mSubscriberList[m] => Expected(m, k)' = Expected(m, k)
        BY <1>0, <2>1, <2>4, <3>2, ExpectedIs DEF SameQueued, lists
      <4> QED  BY <1>0, <2>1, <4>1, <4>2, Unaffected DEF HandleInv, lists
    <3> QED  BY <3>1, <3>2
  <2>6. [Service!Next]_atl
    BY <2>1, <2>2, <2>3, OpenedStep
  <2> QED  BY <1>0, <2>5, <2>6 DEF HandleStep
<1> QED  BY <1>1, <1>2

\* Machine n deletes the handles of S, all of them its subscribers, and tells them: those it
\* keeps are to expect what they did before.
LEMMA DeletedFits ==
  ASSUME TypeOK, TypeOK', MachinesConsistent, HandleInv, \A k \in Handles : SameQueued(k),
         NEW n \in Nifs, NEW S \in SUBSET mSubscriberList[n], deleteSubscribers(n, S),
         NEW status \in {OpenFailed, Closed}, Tell(S, status),
         status = OpenFailed => mState[n] = "PENDING",
         NEW s, transitionState(n, s),
         \A k \in mSubscriberList[n] \ S : Expected(n, k)' = Expected(n, k)
  PROVE  HandleStep
<1>0. \A k \in S : k \in Handles
  BY DEF TypeOK
<1>1. \A k \in S : /\ atl[k] = Expected(n, k) /\ ~RequestQueued(k)
                   /\ \A m \in Nifs \ {n} : k \notin mSubscriberList[m]
  BY <1>0 DEF HandleInv, HandleFits, Subscribed
<1>2. \A k \in S : status = OpenFailed => atl[k] \in {"requested", "releasing"}
  BY <1>1, ExpectedIs
<1>3. \A k \in S : status[atl[k]] = "idle" \/ (status[atl[k]] = atl[k] /\ atl[k] = "releasing")
  <2>1. \A k \in S : atl[k] \in AtlStates
    BY <1>0, Told
  <2> QED  BY <1>2, <2>1, StatusValues
<1>4. \A k \in Handles : atl'[k] = IF k \in S THEN status[atl[k]] ELSE atl[k]
  BY Told
<1>5. /\ \A m \in Nifs \ {n} : /\ mSubscriberList'[m] = mSubscriberList[m]
                               /\ mIsInactive'[m] = mIsInactive[m]
                               /\ mState'[m] = mState[m]
      /\ mSubscriberList'[n] = mSubscriberList[n] \ S
  BY DeletedLists, Transition
<1>6. ASSUME NEW k \in S, k \in Handles
      PROVE  HandleFits(k)' /\ (NoneWaits /\ NotForgotten(k) => NotForgotten(k)')
  <2>1. \A m \in Nifs : k \notin mSubscriberList'[m]
    BY <1>1, <1>5
  <2>2. atl'[k] \in {"idle", "releasing"} /\ ~RequestQueued(k)'
    BY <1>1, <1>3, <1>4, <1>6 DEF SameQueued
  <2>3. HandleFits(k)'
    BY <1>6, <2>1, <2>2, Unsubscribed
  <2>4. ASSUME NoneWaits, atl'[k] = "releasing" PROVE ReleaseQueued(k)'
    <3>1. atl[k] = "releasing"
      BY <1>3, <1>4, <1>6, <2>4
    <3>2. k \notin mIsInactive[n]
      BY <2>4 DEF NoneWaits, MachinesConsistent, ListsNested
    <3> QED  BY <1>1, <1>6, <3>1, <3>2, ExpectedIs DEF SameQueued
  <2> QED  BY <2>2, <2>3, <2>4 DEF NotForgotten
<1>7. ASSUME NEW k \in Handles, k \notin S PROVE HandleFits(k)' /\ (NotForgotten(k) => NotForgotten(k)')
  <2>1. \A m \in Nifs : k \in mSubscriberList'[m] <=> k \in mSubscriberList[m]
    BY <1>5, <1>7
  <2>2. \A m \in Nifs : k \in mSubscriberList[m] => Expected(m, k)' = Expected(m, k)
    <3>1. ASSUME NEW m \in Nifs \ {n} PROVE Expected(m, k)' = Expected(m, k)
      BY <1>5, ExpectedIs DEF SameQueued
    <3> QED  BY <1>7, <3>1
  <2> QED  BY <1>4, <1>7, <2>1, <2>2, Unaffected DEF HandleInv
<1>8. [Service!Next]_atl
  BY <1>0, <1>3, EndedStep
<1> QED  BY <1>0, <1>6, <1>7, <1>8 DEF HandleStep

LEMMA ClosedIsNotOpenFailed == Closed # OpenFailed
<1>1. Closed["open"] # OpenFailed["open"]
  BY DEF Closed, OpenFailed, AtlStates
<1> QED  BY <1>1

LEMMA CloseCompleteFits ==
  ASSUME TypeOK, TypeOK', MachinesConsistent, HandleInv, queue # <<>>, ~IsAtl(Head(queue)),
         NEW n \in BaseNifs, CloseComplete(n)
  PROVE  Consume /\ HandleStep
<1>1. Consume
  <2>1. CASE Active(n) = {}
    BY <2>1 DEF CloseComplete
  <2>2. CASE Active(n) # {}
    BY <2>2 DEF CloseComplete, requestDataConn
  <2> QED  BY <2>1, <2>2
<1>2. \A k \in Handles : SameQueued(k)
  BY <1>1, EventQueued
<1>3. PICK s \in {"PENDING", "RELEASED"} : transitionState(n, s)
  BY DEF CloseComplete
<1>4. /\ mState[n] = "RELEASING" /\ mIsInactive[n] \in SUBSET mSubscriberList[n]
      /\ deleteSubscribers(n, mIsInactive[n]) /\ Tell(mIsInactive[n], Closed)
  BY DEF CloseComplete, MachinesConsistent, ListsNested
<1>5. ASSUME NEW k \in mSubscriberList[n] \ mIsInactive[n] PROVE Expected(n, k)' = Expected(n, k)
  <2>1. k \in Handles /\ SameQueued(k)
    BY <1>2 DEF TypeOK
  <2>2. mState'[n] # "ACQUIRED"
    BY <1>3, Transition
  <2>3. k \notin mIsInactive'[n]
    BY <1>4, DeletedLists
  <2> QED  BY <1>4, <2>1, <2>2, <2>3, ExpectedIs DEF SameQueued
<1>6. HandleStep
  <2>1. Closed # OpenFailed
    BY ClosedIsNotOpenFailed
  <2> QED  BY <1>2, <1>3, <1>4, <1>5, <2>1, DeletedFits
<1> QED  BY <1>1, <1>6

LEMMA EmptiedFits ==
  ASSUME TypeOK, TypeOK', MachinesConsistent, HandleInv, queue # <<>>, ~IsAtl(Head(queue)),
         NEW n \in Nifs, Consume, transitionState(n, "RELEASED"),
         deleteSubscribers(n, mSubscriberList[n]),
         \/ Tell(mSubscriberList[n], Closed)
         \/ mState[n] = "PENDING" /\ Tell(mSubscriberList[n], OpenFailed)
  PROVE  HandleStep
<1>1. \A k \in Handles : SameQueued(k)
  BY EventQueued
<1>2. CASE Tell(mSubscriberList[n], Closed)
  <2>1. Closed # OpenFailed
    BY ClosedIsNotOpenFailed
  <2> QED  BY <1>1, <1>2, <2>1, DeletedFits
<1>3. CASE mState[n] = "PENDING" /\ Tell(mSubscriberList[n], OpenFailed)
  BY <1>1, <1>3, DeletedFits
<1> QED  BY <1>2, <1>3

LEMMA DeniedFits ==
  ASSUME TypeOK, TypeOK', MachinesConsistent, HandleInv, queue # <<>>, ~IsAtl(Head(queue)),
         NEW n \in BaseNifs, Denied(n)
  PROVE  Consume /\ HandleStep
<1>1. CASE Ignore
  BY <1>1, EventQueued, NothingFits DEF Ignore
<1>2. CASE CloseComplete(n)
  BY <1>2, CloseCompleteFits
<1>3. CASE /\ mState[n] = "PENDING"
           /\ transitionState(n, "RELEASED")
           /\ deleteSubscribers(n, mSubscriberList[n])
           /\ Tell(mSubscriberList[n], OpenFailed)
           /\ Consume
  BY <1>3, EmptiedFits
<1> QED  BY <1>1, <1>2, <1>3 DEF Denied

LEMMA ReleasedFits ==
  ASSUME TypeOK, TypeOK', MachinesConsistent, HandleInv, queue # <<>>, ~IsAtl(Head(queue)),
         NEW n \in BaseNifs, Released(n)
  PROVE  Consume /\ HandleStep
<1>1. CASE Ignore
  BY <1>1, EventQueued, NothingFits DEF Ignore
<1>2. CASE CloseComplete(n)
  BY <1>2, CloseCompleteFits
<1>3. CASE /\ transitionState(n, "RELEASED")
           /\ deleteSubscribers(n, mSubscriberList[n])
           /\ Tell(mSubscriberList[n], Closed)
           /\ Consume
  BY <1>3, EmptiedFits
<1> QED  BY <1>1, <1>2, <1>3 DEF Released

\* Events of the DS machine, which stays RELEASED, change nothing.
LEMMA DsEventFits ==
  ASSUME TypeOK, TypeOK', MachinesConsistent, HandleInv, queue # <<>>, ~IsAtl(Head(queue)),
         Granted("DS") \/ Denied("DS") \/ Released("DS")
  PROVE  Ignore /\ HandleStep
<1>1. mSubscriberList["DS"] = {} /\ mIsInactive["DS"] = {}
  BY DEF HandleInv, DsUnused, MachinesConsistent, ListsNested
<1>2. mState["DS"] \in AgpsStates
  BY DEF TypeOK
<1>3. mState["DS"] = "RELEASED"
  BY <1>1, <1>2 DEF MachinesConsistent, StateFitsList, Active, AgpsStates
<1>4. Ignore
  BY <1>3 DEF Granted, Denied, Released, CloseComplete
<1> QED  BY <1>4, EventQueued, NothingFits DEF Ignore

\* A release of a handle no machine knows.
LEMMA UnknownFits ==
  ASSUME TypeOK, TypeOK', HandleInv, queue # <<>>, NEW h \in Handles,
         Head(queue).msg = "ReleaseATL", Head(queue).handle = h, ownerOf(h) = "none",
         Consume, Tell({h}, CloseFailed), UNCHANGED <<mState, lists>>
  PROVE  HandleStep
<1>1. /\ ReleaseQueued(h) /\ ~RequestQueued(h)' /\ ~ReleaseQueued(h)'
      /\ \A k \in Handles : k # h => SameQueued(k)
  BY ConsumeQueued DEF HandleInv
<1>2. atl[h] \in {"idle", "releasing"}
  BY <1>1 DEF HandleInv, HandleFits
<1>3. atl'[h] = "idle" /\ \A k \in Handles : k # h => atl'[k] = atl[k]
  BY <1>2, Told, StatusValues
<1>4. HandleFits(h)' /\ NotForgotten(h)'
  <2>1. \A m \in Nifs : h \notin mSubscriberList'[m]
    BY DEF ownerOf, lists
  <2> QED  BY <1>1, <1>3, <2>1, Unsubscribed DEF NotForgotten
<1>5. ASSUME NEW k \in Handles, k # h PROVE HandleFits(k)' /\ (NotForgotten(k) => NotForgotten(k)')
  <2>1. \A m \in Nifs : Expected(m, k)' = Expected(m, k)
    BY <1>1, <1>5, ExpectedIs DEF SameQueued, lists
  <2> QED  BY <1>1, <1>3, <1>5, <2>1, Unaffected DEF HandleInv, lists
<1>6. [Service!Next]_atl
  BY <1>2, StatusValues, EndedStep
<1> QED  BY <1>4, <1>5, <1>6 DEF HandleStep

\* A step that does not touch the DS list, and adds no request that would go there.
LEMMA StillUnused ==
  ASSUME DsUnused, mSubscriberList'["DS"] = {},
         \A i \in DOMAIN queue' : queue'[i].msg = "RequestATL" =>
           \/ \E j \in DOMAIN queue : queue'[i] = queue[j]
           \/ nifFor(queue'[i].type) # "DS"
  PROVE  DsUnused'
  BY DEF DsUnused, nifFor

LEMMA ProcessFits ==
  ASSUME TypeOK, TypeOK', MachinesConsistent, HandleInv, ProcessMessage
  PROVE  Consume /\ HandleStep /\ HandleInv'
<1> DEFINE m == Head(queue)
<1>1. queue # <<>> /\ m \in Message
  BY QueueHead DEF ProcessMessage, ProcessRequestATL, ProcessReleaseATL, ProcessGranted,
       ProcessDenied, ProcessReleased, Next1
<1>2. CASE ProcessRequestATL
  <2> DEFINE n == nifFor(m.type)
  <2>1. m.msg = "RequestATL" /\ m.handle \in Handles /\ m.type \in AtlTypes
    BY <1>1, <1>2, MessageShape DEF ProcessRequestATL, Next1
  <2>2. n \in Nifs /\ n # "DS"
    <3>1. 1 \in DOMAIN queue /\ queue[1] = m
      BY <1>1 DEF TypeOK
    <3> QED  BY <2>1, <3>1, NifOfType DEF HandleInv, DsUnused
  <2>3. Subscribe(n, m.handle, m.type = "SUPL_ES")
    BY <1>2, <2>2 DEF ProcessRequestATL
  <2>4. Consume /\ HandleStep
    BY <1>1, <2>1, <2>2, <2>3, SubscribeFits
  <2>5. mSubscriberList'["DS"] = mSubscriberList["DS"]
    BY <2>2, <2>3 DEF Subscribe, addSubscriber, lists, TypeOK
  <2> QED  BY <1>1, <2>4, <2>5, ConsumeQueued, StillUnused DEF HandleStep, HandleInv, DsUnused
<1>3. CASE ProcessReleaseATL
  <2>1. m.msg = "ReleaseATL" /\ m.handle \in Handles
    BY <1>1, <1>3, MessageShape DEF ProcessReleaseATL, Next1
  <2>2. Consume /\ HandleStep /\ mSubscriberList'["DS"] = mSubscriberList["DS"]
    <3>1. CASE ownerOf(m.handle) = "none"
      <4>1. Consume /\ Tell({m.handle}, CloseFailed) /\ UNCHANGED <<mState, lists>>
        BY <1>3, <3>1 DEF ProcessReleaseATL
      <4> QED  BY <1>1, <2>1, <3>1, <4>1, UnknownFits DEF lists
    <3>2. CASE ownerOf(m.handle) # "none"
      <4> DEFINE n == ownerOf(m.handle)
      <4>1. Unsubscribe(n, m.handle)
        BY <1>3, <3>2 DEF ProcessReleaseATL
      <4>2. n \in BaseNifs /\ m.handle \in mSubscriberList[n]
        BY <3>2, OwnerIsNif DEF HandleInv, DsUnused
      <4>3. mSubscriberList'["DS"] = mSubscriberList["DS"]
        BY <4>1, <4>2 DEF Unsubscribe, deactivate, deleteSubscribers, lists, TypeOK
      <4> QED  BY <1>1, <2>1, <4>1, <4>2, <4>3, UnsubscribeFits
    <3> QED  BY <3>1, <3>2
  <2> QED  BY <1>1, <2>2, ConsumeQueued, StillUnused DEF HandleStep, HandleInv, DsUnused
<1>4. CASE ProcessGranted \/ ProcessDenied \/ ProcessReleased
  <2>1. ~IsAtl(m) /\ m.nif \in Nifs
    BY <1>1, <1>4, MessageShape DEF ProcessGranted, ProcessDenied, ProcessReleased, Next1, IsAtl
  <2>2. Granted(m.nif) \/ Denied(m.nif) \/ Released(m.nif)
    BY <1>4 DEF ProcessGranted, ProcessDenied, ProcessReleased
  <2>3. Consume /\ HandleStep /\ mSubscriberList'["DS"] = {}
    <3>1. CASE m.nif = "DS"
      BY <1>1, <2>1, <2>2, <3>1, DsEventFits DEF Ignore, lists, HandleInv, DsUnused
    <3>2. CASE m.nif \in BaseNifs
      <4>1. mSubscriberList'["DS"] = mSubscriberList["DS"]
        BY <2>2, <3>2
        DEF Granted, Denied, Released, CloseComplete, Ignore, deleteSubscribers, lists, TypeOK
      <4>2. mSubscriberList["DS"] = {} /\ queue # <<>> /\ ~IsAtl(Head(queue))
        BY <1>1, <2>1 DEF HandleInv, DsUnused
      <4> DEFINE n == m.nif
      <4>3. n \in Nifs /\ n \in BaseNifs /\ (Granted(n) \/ Denied(n) \/ Released(n))
        BY <2>1, <2>2, <3>2
      <4> HIDE DEF m, n
      <4>4. Consume /\ HandleStep
        <5>1. CASE Granted(n)
          BY <4>2, <4>3, <5>1, GrantedFits
        <5>2. CASE Denied(n)
          BY <4>2, <4>3, <5>2, DeniedFits
        <5>3. CASE Released(n)
          BY <4>2, <4>3, <5>3, ReleasedFits
        <5> QED  BY <4>3, <5>1, <5>2, <5>3
      <4> QED  BY <4>1, <4>2, <4>4
    <3> QED  BY <2>1, <3>1, <3>2
  <2> QED  BY <1>1, <2>3, ConsumeQueued, StillUnused DEF HandleStep, HandleInv
<1> QED  BY <1>2, <1>3, <1>4 DEF ProcessMessage

\* A message about no handle is posted.
LEMMA EventPosted ==
  ASSUME TypeOK, TypeOK', HandleInv, NEW m \in Message, ~IsAtl(m), Post(m),
         UNCHANGED <<mState, lists, atl>>
  PROVE  HandleStep /\ HandleInv'
<1>1. /\ HandleQueue' /\ \A k \in Handles : SameQueued(k)
      /\ \A i \in DOMAIN queue' : queue'[i] = m \/ (i \in DOMAIN queue /\ queue'[i] = queue[i])
  BY PostQueued DEF HandleInv, SameQueued, IsAtl
<1>2. DsUnused'
  BY <1>1, StillUnused DEF HandleInv, DsUnused, lists, IsAtl
<1> QED  BY <1>1, <1>2, NothingFits DEF HandleStep, HandleInv

LEMMA ModemRequestFits ==
  ASSUME TypeOK, TypeOK', HandleInv, DsIsNotAsked, NEW h \in Handles, NEW t \in Types,
         ModemRequest(h, t)
  PROVE  HandleStep /\ HandleInv'
<1> DEFINE m == RequestATL(h, t)
<1>1. m \in Message /\ m.msg = "RequestATL" /\ m.handle = h /\ m.type = t
  BY Messages, TypesAssumption DEF RequestATL
<1>2. /\ Post(m) /\ UNCHANGED <<mState, lists>> /\ atl[h] = "idle"
      /\ ~RequestQueued(h) /\ ~ReleaseQueued(h)
      /\ atl' = [atl EXCEPT ![h] = "requested"]
  BY QueuedAbout DEF ModemRequest, untouched, About
<1> HIDE DEF m
<1>3. /\ HandleQueue'
      /\ \A k : RequestQueued(k)' <=> RequestQueued(k) \/ k = h
      /\ \A k : ReleaseQueued(k)' <=> ReleaseQueued(k)
      /\ \A i \in DOMAIN queue' : queue'[i] = m \/ (i \in DOMAIN queue /\ queue'[i] = queue[i])
  BY <1>1, <1>2, PostQueued DEF HandleInv
<1>4. DsUnused'
  BY <1>1, <1>2, <1>3, StillUnused DEF HandleInv, DsUnused, DsIsNotAsked, lists
<1>5. atl'[h] = "requested" /\ \A k \in Handles : k # h => atl'[k] = atl[k]
  BY <1>2 DEF TypeOK
<1>6. \A n \in Nifs : h \notin mSubscriberList[n]
  BY <1>2, ExpectedIs DEF HandleInv, HandleFits
<1>7. HandleFits(h)' /\ NotForgotten(h)'
  <2>1. \A n \in Nifs : h \notin mSubscriberList'[n]
    BY <1>2, <1>6 DEF lists
  <2>2. ~Subscribed(h)' /\ RequestQueued(h)' /\ ~ReleaseQueued(h)'
    BY <1>2, <1>3, <2>1 DEF Subscribed
  <2> QED  BY <1>5, <2>1, <2>2 DEF HandleFits, NotForgotten
<1>8. ASSUME NEW k \in Handles, k # h PROVE HandleFits(k)' /\ (NotForgotten(k) => NotForgotten(k)')
  <2>1. SameQueued(k)
    BY <1>3, <1>8 DEF SameQueued
  <2>2. \A n \in Nifs : Expected(n, k)' = Expected(n, k)
    BY <1>2, <2>1, ExpectedIs DEF SameQueued, lists
  <2> QED  BY <1>2, <1>5, <1>8, <2>1, <2>2, Unaffected DEF HandleInv, lists
<1>9. [Service!Next]_atl
  BY <1>2 DEF Service!Next, Service!Request
<1> QED  BY <1>3, <1>4, <1>7, <1>8, <1>9 DEF HandleStep, HandleInv

LEMMA ModemReleaseFits ==
  ASSUME TypeOK, TypeOK', HandleInv, NEW h \in Handles, ModemRelease(h)
  PROVE  HandleStep /\ HandleInv'
<1> DEFINE m == ReleaseATL(h)
<1>1. m \in Message /\ m.msg = "ReleaseATL" /\ m.handle = h
  BY Messages DEF ReleaseATL
<1>2. /\ Post(m) /\ UNCHANGED <<mState, lists>> /\ atl[h] \in {"requested", "open"}
      /\ atl' = [atl EXCEPT ![h] = "releasing"]
  BY DEF ModemRelease, untouched, HandleInv, HandleFits
<1>3. ~ReleaseQueued(h)
  BY <1>2 DEF HandleInv, HandleFits
<1> HIDE DEF m
<1>4. /\ HandleQueue'
      /\ \A k : RequestQueued(k)' <=> RequestQueued(k)
      /\ \A k : ReleaseQueued(k)' <=> ReleaseQueued(k) \/ k = h
      /\ \A i \in DOMAIN queue' : queue'[i] = m \/ (i \in DOMAIN queue /\ queue'[i] = queue[i])
  BY <1>1, <1>2, <1>3, PostQueued DEF HandleInv
<1>5. DsUnused'
  BY <1>1, <1>2, <1>4, StillUnused DEF HandleInv, DsUnused, lists
<1>6. atl'[h] = "releasing" /\ \A k \in Handles : k # h => atl'[k] = atl[k]
  BY <1>2 DEF TypeOK
<1>7. HandleFits(h)' /\ NotForgotten(h)'
  <2>1. ReleaseQueued(h)' /\ (Subscribed(h)' <=> Subscribed(h))
    BY <1>2, <1>4 DEF Subscribed, lists
  <2>2. \A n \in Nifs : Expected(n, h)' = "releasing"
    BY <2>1, ExpectedIs
  <2> QED  BY <1>2, <1>4, <1>6, <2>1, <2>2 DEF HandleInv, HandleFits, NotForgotten, lists
<1>8. ASSUME NEW k \in Handles, k # h PROVE HandleFits(k)' /\ (NotForgotten(k) => NotForgotten(k)')
  <2>1. SameQueued(k)
    BY <1>4, <1>8 DEF SameQueued
  <2>2. \A n \in Nifs : Expected(n, k)' = Expected(n, k)
    BY <1>2, <2>1, ExpectedIs DEF SameQueued, lists
  <2> QED  BY <1>2, <1>6, <1>8, <2>1, <2>2, Unaffected DEF HandleInv, lists
<1>9. [Service!Next]_atl
  BY <1>2 DEF Service!Next, Service!Release
<1> QED  BY <1>4, <1>5, <1>7, <1>8, <1>9 DEF HandleStep, HandleInv

LEMMA SameHandles ==
  ASSUME TypeOK, TypeOK', HandleInv, UNCHANGED <<mState, lists, queue, atl>>
  PROVE  HandleStep /\ HandleInv'
<1>1. \A k \in Handles : SameQueued(k)
  BY DEF SameQueued, RequestQueued, ReleaseQueued, RequestATL, ReleaseATL
<1>2. HandleQueue' /\ DsUnused'
  BY DEF HandleInv, HandleQueue, IsAtl, DsUnused, nifFor, lists
<1> QED  BY <1>1, <1>2, NothingFits DEF HandleStep, HandleInv

LEMMA HandleInvStep ==
  ASSUME TypeOK, TypeOK', MachinesConsistent, HandleInv, DsIsNotAsked, [Next]_vars
  PROVE  HandleStep /\ HandleInv'
<1>1. CASE ProcessMessage
  BY <1>1, ProcessFits
<1>2. CASE RetryTimeout
  <2>1. Active("DS") = {}
    BY DEF Active, HandleInv, DsUnused
  <2> QED  BY <1>2, <2>1, SameHandles DEF RetryTimeout
<1>3. ASSUME NEW h \in Handles, NEW t \in Types, ModemRequest(h, t) PROVE HandleStep /\ HandleInv'
  BY <1>3, ModemRequestFits
<1>4. ASSUME NEW h \in Handles, ModemRelease(h) PROVE HandleStep /\ HandleInv'
  BY <1>4, ModemReleaseFits
<1>5. ASSUME UNCHANGED <<mState, lists, atl>>,
             NEW n \in Nifs, NEW e \in {"GRANTED", "RELEASED", "DENIED"}, Post(NifEvent(e, n))
      PROVE  HandleStep /\ HandleInv'
  <2>1. NifEvent(e, n) \in Message /\ ~IsAtl(NifEvent(e, n))
    BY Messages DEF NifEvent, IsAtl
  <2> QED  BY <1>5, <2>1, EventPosted
<1>6. ASSUME NEW n \in BaseNifs, FrameworkCommand(n) \/ FrameworkAnswer(n) \/ FrameworkLost(n)
      PROVE  HandleStep /\ HandleInv'
  <2>1. UNCHANGED <<mState, lists, atl>>
    BY <1>6 DEF FrameworkCommand, FrameworkAnswer, FrameworkLost, untouched
  <2>2. UNCHANGED queue \/ \E e \in {"GRANTED", "RELEASED", "DENIED"} : Post(NifEvent(e, n))
    BY <1>6 DEF FrameworkCommand, FrameworkAnswer, FrameworkLost
  <2> QED  BY <1>5, <2>1, <2>2, SameHandles
<1>7. CASE DsAnswer \/ DsLost
  <2>1. UNCHANGED <<mState, lists, atl>>
    BY <1>7 DEF DsAnswer, DsLost, untouched
  <2>2. \E e \in {"GRANTED", "RELEASED", "DENIED"} : Post(NifEvent(e, "DS"))
    BY <1>7 DEF DsAnswer, DsLost
  <2> QED  BY <1>5, <2>1, <2>2
<1>8. CASE UNCHANGED vars
  BY <1>8, SameHandles DEF vars
<1> QED  BY <1>1, <1>2, <1>3, <1>4, <1>6, <1>7, <1>8 DEF Next

LEMMA HandleInvInit == Init => HandleInv /\ \A h \in Handles : NotForgotten(h)
<1> SUFFICES ASSUME Init PROVE HandleInv /\ \A h \in Handles : NotForgotten(h)
  OBVIOUS
<1>1. DOMAIN queue = {} /\ \A n \in Nifs : mSubscriberList[n] = {}
  BY DEF Init
<1>2. \A h \in Handles : atl[h] = "idle"
  BY DEF Init
<1>3. DsUnused /\ HandleQueue
  BY <1>1 DEF DsUnused, HandleQueue
<1>4. \A h \in Handles : HandleFits(h) /\ NotForgotten(h)
  BY <1>1, <1>2 DEF HandleFits, NotForgotten, RequestQueued, ReleaseQueued
<1> QED  BY <1>3, <1>4 DEF HandleInv

AgreementInv == TypeOK /\ MachinesConsistent /\ HandleInv

LEMMA AgreementStep ==
  ASSUME DsIsNotAsked
  PROVE  AgreementInv /\ [Next]_vars => AgreementInv' /\ [Service!Next]_atl
<1> SUFFICES ASSUME AgreementInv, [Next]_vars PROVE AgreementInv' /\ [Service!Next]_atl
  OBVIOUS
<1>1. TypeOK' /\ MachinesConsistent'
  BY TypeStep, ConsistentStep DEF AgreementInv
<1> QED  BY <1>1, HandleInvStep DEF AgreementInv, HandleStep

LEMMA AgreementInit == Init => AgreementInv
  BY TypeInit, ConsistentInit, HandleInvInit DEF AgreementInv

\* As long as no request goes to the DS machine (its fallback puts a handle into two machines,
\* Agps.cpp:672): whichever of subscribe, grant, denial, loss
\* and release comes first, the modem was told of each subscribed handle what its machine's
\* state says, for any number of handles sharing a connection.
THEOREM ModemIsToldTheState == ASSUME DsIsNotAsked PROVE Spec => []ModemAgrees
<1>1. AgreementInv /\ [Next]_vars => AgreementInv'
  BY AgreementStep
<1>2. AgreementInv => ModemAgrees
  BY HandleInvImplies DEF AgreementInv
<1> QED  BY <1>1, <1>2, AgreementInit, PTL DEF Spec

\* And the manager implements the safety part of AtlService: every notification opens only
\* handles that asked, and ends only handles that are not idle.
THEOREM ImplementsService == ASSUME DsIsNotAsked PROVE Spec => Service!Spec
<1>1. Init => Service!Init
  BY DEF Init, Service!Init
<1>2. AgreementInv /\ [Next]_vars => AgreementInv' /\ [Service!Next]_atl
  BY AgreementStep
<1> QED  BY <1>1, <1>2, AgreementInit, PTL DEF Spec, Service!Spec

-----------------------------------------------------------------------------
(***************************************************************************)
(* No handle is forgotten when the modem asks for no emergency connection: *)
(* then nobody waits for a close to complete.  (With an emergency request  *)
(* the denial of a shared connection forgets a handle that waits.)         *)
(***************************************************************************)
NoEmergency == "SUPL_ES" \notin Types

NoWaiter ==
  /\ NoneWaits
  /\ \A i \in DOMAIN queue : queue[i].msg = "RequestATL" => queue[i].type # "SUPL_ES"

LEMMA EmergencyOnlyDs == ASSUME NoEmergency PROVE DsIsNotAsked
  BY TypesAssumption DEF NoEmergency, DsIsNotAsked, nifFor, AtlTypes

\* The lists of those who wait do not grow, unless an emergency request is subscribed.
LEMMA WaitersStep ==
  ASSUME TypeOK, NoWaiter, ProcessMessage
  PROVE  NoneWaits'
<1>1. \A n \in Nifs : mWaitForCloseComplete[n] = {}
  BY DEF NoWaiter, NoneWaits
<1>2. ASSUME UNCHANGED mWaitForCloseComplete PROVE NoneWaits'
  BY <1>1, <1>2 DEF NoneWaits
<1>3. ASSUME NEW n \in Nifs, NEW S, deleteSubscribers(n, S) PROVE NoneWaits'
  BY <1>1, <1>3, DeletedLists DEF NoneWaits
<1>4. queue # <<>> /\ Head(queue) \in Message
  BY QueueHead DEF ProcessMessage, ProcessRequestATL, ProcessReleaseATL, ProcessGranted,
       ProcessDenied, ProcessReleased, Next1
<1>5. CASE ProcessRequestATL
  <2>1. 1 \in DOMAIN queue /\ queue[1] = Head(queue)
    BY <1>4 DEF TypeOK
  <2>2. Head(queue).type # "SUPL_ES"
    BY <1>5, <2>1 DEF ProcessRequestATL, Next1, NoWaiter
  <2>3. CASE UNCHANGED lists
    BY <1>2, <2>3 DEF lists
  <2>4. ASSUME NEW n, NEW h, addSubscriber(n, h, Head(queue).type = "SUPL_ES")
        PROVE  UNCHANGED mWaitForCloseComplete
    BY <2>2, <2>4 DEF addSubscriber, lists
  <2> QED  BY <1>2, <1>5, <2>3, <2>4 DEF ProcessRequestATL, Subscribe
<1>6. CASE ProcessReleaseATL
  <2>1. CASE UNCHANGED lists
    BY <1>2, <2>1 DEF lists
  <2>2. ASSUME NEW n \in Nifs, NEW h, Unsubscribe(n, h) PROVE NoneWaits'
    BY <1>2, <1>3, <2>2 DEF Unsubscribe, deactivate, lists
  <2> QED  BY <1>6, <2>1, <2>2, OwnerIsNif DEF ProcessReleaseATL
<1>7. CASE ProcessGranted
  BY <1>2, <1>7 DEF ProcessGranted, Granted, Ignore, lists
<1>8. ASSUME NEW n \in Nifs, Denied(n) PROVE NoneWaits'
  BY <1>2, <1>3, <1>8 DEF Denied, CloseComplete, Ignore, lists
<1>9. ASSUME NEW n \in Nifs, Released(n) PROVE NoneWaits'
  BY <1>2, <1>3, <1>8, <1>9 DEF Released, CloseComplete, Ignore, lists
<1>10. CASE ProcessDenied \/ ProcessReleased
  <2>1. Head(queue).nif \in Nifs
    BY <1>4, <1>10, MessageShape DEF ProcessDenied, ProcessReleased, Next1
  <2> QED  BY <1>8, <1>9, <1>10, <2>1 DEF ProcessDenied, ProcessReleased
<1> QED  BY <1>5, <1>6, <1>7, <1>10 DEF ProcessMessage

LEMMA NoWaiterStep ==
  ASSUME NoEmergency, AgreementInv, NoWaiter, [Next]_vars
  PROVE  NoWaiter'
<1>1. ASSUME NEW m \in Message, m.msg = "RequestATL" => m.type # "SUPL_ES", Post(m), UNCHANGED lists
      PROVE  NoWaiter'
  <2>1. \A i \in DOMAIN queue' : queue'[i] = m \/ (i \in DOMAIN queue /\ queue'[i] = queue[i])
    <3>1. \A i \in DOMAIN queue' : i \in DOMAIN queue \/ i = Len(queue) + 1
      BY <1>1, Posted DEF AgreementInv
    <3> QED  BY <1>1, <3>1, Posted DEF AgreementInv
  <2> QED  BY <1>1, <2>1 DEF NoWaiter, NoneWaits, lists
<1>2. CASE UNCHANGED <<lists, queue>>
  BY <1>2 DEF NoWaiter, NoneWaits, lists
<1>3. CASE ProcessMessage
  <2>1. queue # <<>>
    BY <1>3 DEF ProcessMessage, ProcessRequestATL, ProcessReleaseATL, ProcessGranted,
       ProcessDenied, ProcessReleased, Next1
  <2>2. TypeOK /\ TypeOK' /\ Consume
    BY <1>3, TypeStep, ProcessFits DEF AgreementInv
  <2> QED  BY <1>3, <2>1, <2>2, Consumed, WaitersStep DEF NoWaiter
<1>4. CASE RetryTimeout
  <2>1. Active("DS") = {}
    BY DEF Active, AgreementInv, HandleInv, DsUnused
  <2> QED  BY <1>2, <1>4, <2>1 DEF RetryTimeout
<1>5. ASSUME NEW h \in Handles, NEW t \in Types, ModemRequest(h, t) PROVE NoWaiter'
  <2>1. RequestATL(h, t) \in Message /\ RequestATL(h, t).type # "SUPL_ES"
    BY Messages, TypesAssumption DEF RequestATL, NoEmergency
  <2> QED  BY <1>1, <1>5, <2>1 DEF ModemRequest, untouched
<1>6. ASSUME NEW h \in Handles, ModemRelease(h) PROVE NoWaiter'
  <2>1. ReleaseATL(h) \in Message /\ ReleaseATL(h).msg # "RequestATL"
    BY Messages DEF ReleaseATL
  <2> QED  BY <1>1, <1>6, <2>1 DEF ModemRelease, untouched
<1>7. ASSUME UNCHANGED lists, NEW n \in Nifs, NEW e \in {"GRANTED", "RELEASED", "DENIED"},
             Post(NifEvent(e, n))
      PROVE  NoWaiter'
  <2>1. NifEvent(e, n) \in Message /\ NifEvent(e, n).msg # "RequestATL"
    BY Messages DEF NifEvent
  <2> QED  BY <1>1, <1>7, <2>1
<1>8. ASSUME NEW n \in BaseNifs, FrameworkCommand(n) \/ FrameworkAnswer(n) \/ FrameworkLost(n)
      PROVE  NoWaiter'
  <2>1. /\ UNCHANGED lists
        /\ UNCHANGED queue \/ \E e \in {"GRANTED", "RELEASED", "DENIED"} : Post(NifEvent(e, n))
    BY <1>8 DEF FrameworkCommand, FrameworkAnswer, FrameworkLost, untouched
  <2> QED  BY <1>2, <1>7, <2>1
<1>9. CASE DsAnswer \/ DsLost
  <2>1. UNCHANGED lists /\ \E e \in {"GRANTED", "RELEASED", "DENIED"} : Post(NifEvent(e, "DS"))
    BY <1>9 DEF DsAnswer, DsLost, untouched
  <2> QED  BY <1>7, <2>1
<1>10. CASE UNCHANGED vars
  BY <1>2, <1>10 DEF vars
<1> QED  BY <1>3, <1>4, <1>5, <1>6, <1>8, <1>9, <1>10 DEF Next

KeptInv == AgreementInv /\ NoWaiter /\ \A h \in Handles : NotForgotten(h)

\* As long as the modem asks for no emergency connection, every handle it still waits for is
\* subscribed or has a message in the queue: none is dropped without its final answer.
THEOREM NoHandleIsForgotten == ASSUME NoEmergency PROVE Spec => []NoForgottenHandle
<1>1. Init => KeptInv
  <2>1. Init => NoWaiter
    <3> SUFFICES ASSUME Init PROVE NoWaiter
      OBVIOUS
    <3>1. DOMAIN queue = {} /\ \A n \in Nifs : mWaitForCloseComplete[n] = {}
      BY DEF Init
    <3> QED  BY <3>1 DEF NoWaiter, NoneWaits
  <2> QED  BY <2>1, AgreementInit, HandleInvInit DEF KeptInv
<1>2. KeptInv /\ [Next]_vars => KeptInv'
  <2> SUFFICES ASSUME KeptInv, [Next]_vars PROVE KeptInv'
    OBVIOUS
  <2>1. AgreementInv /\ NoWaiter /\ NoneWaits /\ DsIsNotAsked
    BY EmergencyOnlyDs DEF KeptInv, NoWaiter
  <2>2. AgreementInv' /\ NoWaiter'
    BY <2>1, AgreementStep, NoWaiterStep
  <2>3. HandleStep
    BY <2>1, <2>2, HandleInvStep DEF AgreementInv
  <2> QED  BY <2>1, <2>2, <2>3 DEF KeptInv, HandleStep
<1>3. KeptInv => NoForgottenHandle
  BY DEF KeptInv, NotForgotten, Subscribed, NoForgottenHandle
<1> QED  BY <1>1, <1>2, <1>3, PTL DEF Spec
=============================================================================
