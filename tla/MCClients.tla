------------------------------- MODULE MCClients -------------------------------
(***************************************************************************)
(* Model checking of the way from the framework to the adapters: the       *)
(* client base with its sessions, geofences, the registry of clients, the  *)
(* configuration, and the event masks that clients and adapters ask for.   *)
(*                                                                         *)
(* Each part has the state of another object or of other requests, so they *)
(* are checked side by side: Init chooses the part that runs, and the      *)
(* others stay as they were made.                                          *)
(***************************************************************************)
EXTENDS LocationClient, Integers, TLC

CONSTANTS FenceIds, Breaches, MaxFences, MaxFenceCommands,
          LocationApis, ApiCallbacks, MaxId, MaxApiMsgs, MaxUpdates,
          Settings, File, MaxControlSessions, MaxControlMsgs,
          Gnss, Others, EventClients, EventCallbacks, MAX_ADAPTERS, Excluded, NmeaByModem, LateFeatures, MaxEventMsgs,
          MaxFrameworks, MaxHalSessions, MaxHalMsgs

VARIABLES part,
          mRequestQueue, mGeofenceBiDict, fenceCommands, fences, next, fenceResponse, breach, fenceHasty, wanted,
          interface, clientData, installed, adapterQueues, registered, sessions, lastId, begun, answers, caps, shrunk,
          mApi, mPendingConfig, mConfig, mEnabled, controlQueues, generated, settings, mGps_conf, mPowerVoteId,
          mServerUrl, configured, power, lockStatus, told, asked,
          mLocAdapters, mEvtMask, mClientData, mAgpsCbInfo, odcpiRequestCb, mNmeaMask, features, engine, msgs, alive,
          framework, born, hal, api, base, halSessions, binder, thread, halMsgs, adapter, want, halTold, overtaken

Fence == INSTANCE Geofences WITH
  Ids <- FenceIds, MaxCommands <- MaxFenceCommands, MaxSession <- MaxFences,
  commands <- fenceCommands, response <- fenceResponse, hasty <- fenceHasty

Registry == INSTANCE ClientRegistry WITH
  Clients <- LocationApis, CallbackSets <- ApiCallbacks, MaxMsgs <- MaxApiMsgs,
  queues <- adapterQueues, mClientData <- registered, started <- begun

MCApiCallbacks == {{"trackingCb", "gnssSvCb"}, {"batchingCb", "geofenceBreachCb"}}

Control == INSTANCE Configuration WITH
  MaxSessions <- MaxControlSessions, MaxMsgs <- MaxControlMsgs,
  queues <- controlQueues, sessions <- generated, msgs <- settings, engine <- configured

\* One setting of each way there is to convert and to pass on; gps.conf has some of them too.
MCSettings ==
  {[GPS_LOCK |-> "NI"], [SUPL_VER |-> "V2_0_2"], [SERVER |-> "fw"], [PDE |-> "pde"],
   [LPPE_CP_TECHNOLOGY |-> {"SRN_AP"}], [SUPL_MODE |-> {"MSA"}]}
MCFile == [GPS_LOCK |-> 3, SUPL_HOST |-> "file", LPPE_CP_TECHNOLOGY |-> {0, 3}]

\* Two adapters fit in beside the GnssAdapter, three may come.
Events == INSTANCE AdapterEvents WITH
  Clients <- EventClients, CallbackSets <- EventCallbacks, MaxMsgs <- MaxEventMsgs

MCEventCallbacks == {{"trackingCb", "gnssNmeaCb"}}

\* A framework that dies and its successor.
Hal == INSTANCE HalClient WITH
  MaxSession <- MaxHalSessions, MaxMsgs <- MaxHalMsgs, sessions <- halSessions, msgs <- halMsgs, told <- halTold

ASSUME ClientsAssumption ==
  /\ Fence!IdAssumption /\ Fence!BoundAssumption /\ Registry!BoundAssumption /\ Registry!NoneAssumption
  /\ Control!BoundsAssumption /\ Control!SettingsAssumption /\ Events!MaxAssumption /\ Events!NeedsAssumption /\ Hal!HalAssumption

fenceVars == <<mRequestQueue, mGeofenceBiDict, fenceCommands, fences, next, fenceResponse, breach, fenceHasty, wanted>>
registryVars == <<interface, clientData, installed, adapterQueues, registered, sessions, lastId, begun, answers,
                  caps, shrunk>>
controlVars == <<mApi, mPendingConfig, mConfig, mEnabled, controlQueues, generated, settings, mGps_conf,
                 mPowerVoteId, mServerUrl, configured, power, lockStatus, told, asked>>
eventsVars == <<mLocAdapters, mEvtMask, mClientData, mAgpsCbInfo, odcpiRequestCb, mNmeaMask, features, engine,
                msgs, alive>>
halVars == <<framework, born, hal, api, base, halSessions, binder, thread, halMsgs, adapter, want, halTold, overtaken>>
allVars == <<part, vars, fenceVars, registryVars, controlVars, eventsVars, halVars>>

-----------------------------------------------------------------------------
\* One role of the client, one set of libraries and one agent are enough for the other parts.
ClientsInit ==
  /\ part \in {"client", "fences", "registry", "control", "events", "hal"}
  /\ Init /\ Fence!Init /\ Registry!Init /\ Control!Init /\ Events!Init /\ Hal!Init
  /\ part # "client" => role = "gnss"
  /\ part # "registry" => installed = {}
  /\ part # "hal" => ~hal.extended

ClientsNext ==
  \/ part = "client" /\ Next /\ UNCHANGED <<part, fenceVars, registryVars, controlVars, eventsVars, halVars>>
  \/ part = "fences" /\ Fence!Next /\ UNCHANGED <<part, vars, registryVars, controlVars, eventsVars, halVars>>
  \/ part = "registry" /\ Registry!Next /\ UNCHANGED <<part, vars, fenceVars, controlVars, eventsVars, halVars>>
  \/ part = "control" /\ Control!Next /\ UNCHANGED <<part, vars, fenceVars, registryVars, eventsVars, halVars>>
  \/ part = "events" /\ Events!Next /\ UNCHANGED <<part, vars, fenceVars, registryVars, controlVars, halVars>>
  \/ part = "hal" /\ Hal!Next /\ UNCHANGED <<part, vars, fenceVars, registryVars, controlVars, eventsVars>>

ClientsSpec == ClientsInit /\ [][ClientsNext]_allVars

-----------------------------------------------------------------------------
(***************************************************************************)
(* The properties of the parts, stated where their modules state them.     *)
(***************************************************************************)
\* LocationAPIClientBase: answers and breaches are about the geofence the framework means.
GeofencesNamed == part = "fences" => Fence!GeofencesNamed
\* LocationAPI: starts by a client with a trackingCb and the stops of their sessions are answered, each
\* once, and a new client is told the capabilities.  The stop of a session that does not run is not.
RequestsAnswered == part = "registry" => Registry!RequestsAnswered
\* LocationAPI: a stop or a destroyed client is forgotten in every adapter.
NothingLeftBehind == part = "registry" => Registry!NothingLeftBehind
\* GnssAdapter: the engine has the configuration and the lock that the adapter has, and the server if it took it.
EngineConfigured == part = "control" => Control!EngineConfigured
\* Gnss, LocationAPIControlClient, GnssAdapter: what the framework configured, early or late, is in force.
ConfigurationInForce == part = "control" => Control!ConfigurationInForce
\* LocApiBase, GnssAdapter: every adapter in the array is alive and gets the events it needs.
AdaptersServed == part = "events" => Events!AdaptersServed
\* Gnss, GnssMeasurement: the adapter works for the framework there is, and for no dead one.
FrameworkServed == part = "hal" => Hal!FrameworkServed
=============================================================================
