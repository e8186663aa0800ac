---------------------------- MODULE AdapterEvents ----------------------------
(***************************************************************************)
(* What the engine is asked to report (gps/core/LocApiBase.cpp,            *)
(* LocAdapterBase, and the client data of gps/gnss/GnssAdapter.cpp).       *)
(*                                                                         *)
(* Adapters stand in the array of the LocApiBase; each has a mask of the   *)
(* events it needs, and the engine is opened with the union of the masks.  *)
(* The mask of the GnssAdapter follows from the callbacks of its clients,  *)
(* the AGPS and ODCPI callbacks and the NMEA mask of the configuration.    *)
(*                                                                         *)
(* Three threads meet: adapters come and go on the framework's, the engine *)
(* goes down and up on the modem's, and the message thread handles the     *)
(* messages of both.  The engine itself is not in the repository: opening  *)
(* it replaces the mask, and a restart loses it.                           *)
(***************************************************************************)
EXTENDS Naturals, FiniteSets, Sequences, SequencesExt

CONSTANTS Gnss,           \* the GnssAdapter
          Others,         \* other adapters (batching, geofences)
          Clients,        \* LocationAPI objects
          MAX_ADAPTERS,
          Excluded,       \* mExcludedMask of the context
          NmeaByModem,    \* NMEA_PROVIDER is NMEA_PROVIDER_MP
          LateFeatures,   \* the feature list arrives after the adapter is configured
          CallbackSets,   \* the sets of callbacks clients register, a subset of Callbacks each
          MaxMsgs         \* bound: messages under way

MaxAssumption == MAX_ADAPTERS \in Nat \ {0} /\ MaxMsgs \in Nat

VARIABLES mLocAdapters,   \* the array up to its first NULL
          mEvtMask,       \* the mask of each adapter
          mClientData,    \* the callbacks of each saved client
          mAgpsCbInfo,    \* priority of the AGPS callbacks, 0 is none
          odcpiRequestCb,
          mNmeaMask,      \* not 0
          features,       \* the engine has said it supports debug NMEA
          engine,         \* down, closed, or the mask it was opened with
          msgs,           \* messages to the message thread
          alive           \* ghost: adapters that are constructed

vars == <<mLocAdapters, mEvtMask, mClientData, mAgpsCbInfo, odcpiRequestCb, mNmeaMask, features, engine, msgs, alive>>
gnssState == <<mClientData, mAgpsCbInfo, odcpiRequestCb, mNmeaMask>>

Adapters == Others \union {Gnss}

(***************************************************************************)
(* Masks.                                                                  *)
(***************************************************************************)
EventOf == [trackingCb |-> "PARSED_POSITION_REPORT", gnssNiCb |-> "NI_NOTIFY_VERIFY_REQUEST",
            gnssSvCb |-> "SATELLITE_REPORT", gnssNmeaCb |-> "NMEA_1HZ_REPORT",
            gnssMeasurementsCb |-> "GNSS_MEASUREMENT"]

Callbacks == DOMAIN EventOf
NoClient == {}  \* a client that is not saved has no callbacks

NeedsAssumption ==
  /\ Gnss \notin Others /\ CallbackSets \subseteq SUBSET Callbacks
  /\ NmeaByModem \in BOOLEAN /\ LateFeatures \in BOOLEAN

getEvtMask(adapters, mask) == (UNION {mask[a] : a \in Range(adapters)}) \ Excluded

\* GnssAdapter::updateClientsEventMask, the part that it computes; EXTERNAL_DR_ENABLED of gps.conf is 0.
clientsEventMask(data, nmea, agps, odcpi) ==
  {EventOf[cb] : cb \in {x \in UNION {data[c] : c \in Clients} : x = "gnssNmeaCb" => nmea}}
    \union (IF agps > 0 THEN {"LOCATION_SERVER_REQUEST"} ELSE {})
    \union (IF odcpi THEN {"REQUEST_WIFI"} ELSE {})

Configured(known) == NmeaByModem \/ known

(***************************************************************************)
(* The engine.                                                             *)
(***************************************************************************)
Down == [state |-> "down", mask |-> {}]
Closed == [state |-> "closed", mask |-> {}]
Opened(mask) == [state |-> "open", mask |-> mask]

open(mask) == engine' = IF engine.state = "down" THEN engine ELSE Opened(mask)
close == engine' = IF engine.state = "down" THEN engine ELSE Closed

send(m) == Len(msgs) < MaxMsgs /\ msgs' = Append(msgs, m)

\* LocAdapterBase::updateEvtMask, called on the message thread by the GnssAdapter.
updateEvtMask(mask) ==
  /\ mEvtMask' = [mEvtMask EXCEPT ![Gnss] = mask]
  /\ open(getEvtMask(mLocAdapters, mEvtMask'))

\* Mutant: the event replaces the others.
EnabledAlone(event) == {event}

\* The bits with the registration mask status ENABLED.
Enabled(event) == mEvtMask[Gnss] \union {event}

(***************************************************************************)
(* Adapters come and go.                                                   *)
(***************************************************************************)
\* Mutant: the end of the array is not looked at.
roomAlways == TRUE

hasRoom == Len(mLocAdapters) < MAX_ADAPTERS

\* LocAdapterBase's constructor with LocApiBase::addAdapter; a full array takes no more.
AddAdapter(a, mask) ==
  /\ a \notin alive /\ alive' = alive \union {a}
  /\ mEvtMask' = [mEvtMask EXCEPT ![a] = mask]
  /\ IF hasRoom
     THEN mLocAdapters' = Append(mLocAdapters, a) /\ send([type |-> "LocOpenMsg"])
     ELSE UNCHANGED <<mLocAdapters, msgs>>
  /\ UNCHANGED <<gnssState, features, engine>>

\* Mutant: the last place is cleared and the hole is not filled.
withoutLast(adapters, a) == Front(adapters)

\* The last adapter moves into the place of the one removed.
without(adapters, a) ==
  [i \in 1 .. Len(adapters) - 1 |-> IF adapters[i] = a THEN Last(adapters) ELSE adapters[i]]

\* ~LocAdapterBase with LocApiBase::removeAdapter.
RemoveAdapter(a) ==
  /\ a \in alive /\ alive' = alive \ {a}
  /\ \/ a \notin Range(mLocAdapters) /\ UNCHANGED <<mLocAdapters, msgs, engine>>
     \/ /\ a \in Range(mLocAdapters)
        /\ mLocAdapters' = without(mLocAdapters, a)
        /\ IF mLocAdapters' = <<>> THEN close /\ UNCHANGED msgs
           ELSE send([type |-> "LocOpenMsg"]) /\ UNCHANGED engine
  /\ UNCHANGED <<mEvtMask, gnssState, features>>

(***************************************************************************)
(* The engine stops and starts.                                            *)
(***************************************************************************)
\* LocApiBase::handleEngineDownEvent; the adapters do nothing.
EngineDown ==
  /\ engine.state # "down"
  /\ engine' = Down
  /\ UNCHANGED <<mLocAdapters, mEvtMask, gnssState, features, msgs, alive>>

\* Mutant: the mask is not negotiated again.
upMsgsNoSsr == IF Gnss \in Range(mLocAdapters) THEN <<[type |-> "MsgSetConfig"]>> ELSE <<>>

\* The messages of an engine that is up again: renegotiate, then the GnssAdapter's configuration.
upMsgs == <<[type |-> "LocSsrMsg"]>>
            \o (IF Gnss \in Range(mLocAdapters) THEN <<[type |-> "MsgSetConfig"]>> ELSE <<>>)

\* LocApiBase::handleEngineUpEvent with GnssAdapter::handleEngineUpEvent.
EngineUp ==
  /\ engine.state = "down" /\ Len(msgs) + 1 < MaxMsgs
  /\ engine' = Closed
  /\ features' \in {features, features \/ LateFeatures}
  /\ msgs' = msgs \o upMsgs
  /\ UNCHANGED <<mLocAdapters, mEvtMask, gnssState, alive>>

(***************************************************************************)
(* Commands to the GnssAdapter.                                            *)
(***************************************************************************)
Commands == [type : {"MsgAddClient"}, client : Clients, callbacks : CallbackSets]
              \union [type : {"MsgRemoveClient"}, client : Clients]
              \union [type : {"AgpsMsgInit"}, priority : 1 .. 2]
              \union [type : {"MsgInitOdcpi"}]

Command(m) ==
  /\ Gnss \in Range(mLocAdapters)
  /\ send(m)
  /\ UNCHANGED <<mLocAdapters, mEvtMask, gnssState, features, engine, alive>>

\* GnssAdapter::saveClient, eraseClient.
setClient(client, callbacks) ==
  /\ mClientData' = [mClientData EXCEPT ![client] = callbacks]
  /\ updateEvtMask(clientsEventMask(mClientData', mNmeaMask, mAgpsCbInfo, odcpiRequestCb))
  /\ UNCHANGED <<mAgpsCbInfo, odcpiRequestCb, mNmeaMask>>

\* GnssAdapter::initAgps with a CAPABILITIES mask that has MSA or MSB.
initAgps(priority) ==
  /\ IF mAgpsCbInfo > priority THEN UNCHANGED <<mAgpsCbInfo, mEvtMask, engine>>
     ELSE mAgpsCbInfo' = priority /\ updateEvtMask(Enabled("LOCATION_SERVER_REQUEST"))
  /\ UNCHANGED <<mClientData, odcpiRequestCb, mNmeaMask>>

initOdcpi ==
  /\ odcpiRequestCb' = TRUE
  /\ updateEvtMask(Enabled("REQUEST_WIFI"))
  /\ UNCHANGED <<mClientData, mAgpsCbInfo, mNmeaMask>>

\* MsgSetConfig::proc, the NMEA mask; the rest is in the module Configuration.
setConfig ==
  /\ mNmeaMask' = Configured(features)
  /\ UNCHANGED <<mClientData, mAgpsCbInfo, odcpiRequestCb, mEvtMask, engine>>

\* LocOpenMsg::proc, LocSsrMsg::proc: the mask is the one of now, not of when the message was sent.
reopen == open(getEvtMask(mLocAdapters, mEvtMask)) /\ UNCHANGED <<mEvtMask, gnssState>>

Handle(m) ==
  \/ m.type \in {"LocOpenMsg", "LocSsrMsg"} /\ reopen
  \/ m.type = "MsgAddClient" /\ setClient(m.client, m.callbacks)
  \/ m.type = "MsgRemoveClient" /\ setClient(m.client, NoClient)
  \/ m.type = "AgpsMsgInit" /\ initAgps(m.priority)
  \/ m.type = "MsgInitOdcpi" /\ initOdcpi
  \/ m.type = "MsgSetConfig" /\ setConfig

HandleMsg ==
  /\ msgs # <<>>
  /\ Handle(Head(msgs))
  /\ msgs' = Tail(msgs)
  /\ UNCHANGED <<mLocAdapters, features, alive>>

\* The GnssAdapter's constructor: it is added first, and its first message configures the engine.
Init ==
  /\ mLocAdapters = <<Gnss>> /\ alive = {Gnss} /\ mEvtMask = [a \in Adapters |-> {}]
  /\ mClientData = [c \in Clients |-> NoClient]
  /\ mAgpsCbInfo = 0 /\ odcpiRequestCb = FALSE /\ mNmeaMask = FALSE
  /\ features = ~LateFeatures
  /\ engine = Closed /\ msgs = <<[type |-> "LocOpenMsg"], [type |-> "MsgSetConfig"]>>

\* The GnssAdapter is never destroyed.
Next ==
  \/ \E a \in Others : AddAdapter(a, {"FLP_REPORT"}) \/ RemoveAdapter(a)
  \/ \E m \in Commands : Command(m)
  \/ EngineDown \/ EngineUp \/ HandleMsg

Spec == Init /\ [][Next]_vars

(***************************************************************************)
(* Properties.                                                             *)
(***************************************************************************)
Renegotiating == \E i \in 1 .. Len(msgs) : msgs[i].type \in {"LocOpenMsg", "LocSsrMsg"}

\* The engine reports what the adapters ask for: when it is up and no message about it is under way it is
\* open with exactly the events the adapters in the array need, whatever came between: a restart, an
\* adapter that came or went, a client (LocApiBase.cpp:158-219).
EngineFollowsAdapters ==
  (engine.state # "down" /\ ~Renegotiating /\ mLocAdapters # <<>>)
    => engine = Opened(getEvtMask(mLocAdapters, mEvtMask))

\* No need is lost from the mask of the GnssAdapter, and none is kept for a client that has left: whatever
\* sets or adds to the mask, it is the one the callbacks ask for (GnssAdapter.cpp:1159-1202).  The bit of
\* NMEA is left out where the feature list is late (LateFeatures): its change does not update the mask.
GnssMaskFollowsNeeds ==
  LET needs == clientsEventMask(mClientData, mNmeaMask, mAgpsCbInfo, odcpiRequestCb)
      late == IF LateFeatures THEN {"NMEA_1HZ_REPORT"} ELSE {}
  IN mEvtMask[Gnss] \ late = needs \ late

\* The array holds no adapter twice and none that is gone, even where a removal moved others or the array
\* was full when one was added (LocApiBase.cpp:158-203).  This is about the array between two changes of
\* it: the code changes it without a lock, and a loop of another thread that meets a change is not modelled.
NoDanglingAdapter ==
  Len(mLocAdapters) <= MAX_ADAPTERS /\ IsInjective(mLocAdapters) /\ Range(mLocAdapters) \subseteq alive

\* Every adapter in the array is there and gets what it needs.
AdaptersServed == NoDanglingAdapter /\ EngineFollowsAdapters /\ GnssMaskFollowsNeeds
=============================================================================
