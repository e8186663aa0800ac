---------------------------- MODULE Configuration ----------------------------
(***************************************************************************)
(* Configuration and power of the engine: from the framework through       *)
(* gps/android (Gnss, GnssConfiguration, GnssAPIClient), the control client*)
(* (LocationAPIClientBase), the control API (LocationAPI) and the message  *)
(* thread (gps/gnss/GnssAdapter.cpp) to the engine.                        *)
(*                                                                         *)
(* A setting of the framework goes three ways: to mGps_conf, from where the*)
(* engine gets it again when it has restarted; to the engine; and, when no *)
(* API object exists yet, to mPendingConfig.  Calls come on binder threads *)
(* and post messages; the engine goes down and up under them.              *)
(*                                                                         *)
(* The engine is not in the repository: it takes what it is given while it *)
(* is up, fails what it is given while it is down, and loses with a restart*)
(* all that setConfigCommand gives it again.  What setConfigCommand does   *)
(* not give, or may skip (the lock, the servers), it keeps.                *)
(***************************************************************************)
EXTENDS Integers, FiniteSets, Sequences

CONSTANTS Settings,      \* what the framework configures: each is [item |-> value]
          File,          \* gps.conf: the items it has, as mGps_conf holds them
          MaxSessions,   \* bound: sessions generated
          MaxMsgs        \* bound: messages under way when one more is caused

BoundsAssumption == MaxSessions \in Nat /\ MaxMsgs \in Nat

VARIABLES mApi,            \* Gnss::mApi exists
          mPendingConfig,  \* its flagged items
          mConfig,         \* of the control client: what it passed on last
          mEnabled,
          queues,          \* mRequestQueues: the session and the requests of each
          sessions,        \* generateSessionId
          msgs,            \* to the message thread
          mGps_conf, mPowerVoteId, mServerUrl,
          engine,          \* up, what it has, and the items whose last setting failed
          power,           \* the modem power vote
          lockStatus,      \* what mXtraObserver was told of the lock
          told,            \* capabilities: of the client, and those the ULP knows
          asked            \* ghost: what the framework configured last

vars == <<mApi, mPendingConfig, mConfig, mEnabled, queues, sessions, msgs, mGps_conf, mPowerVoteId, mServerUrl,
          engine, power, lockStatus, told, asked>>
client == <<mApi, mPendingConfig, mConfig, mEnabled, queues, sessions, power, asked>>
adapter == <<mGps_conf, mPowerVoteId, mServerUrl, lockStatus>>

(***************************************************************************)
(* Settings, as LocationAPI.h names them and as mGps_conf numbers them: a  *)
(* mask is the set of its bits.                                            *)
(***************************************************************************)
Code ==
  [GPS_LOCK |-> [NONE |-> 0, MO |-> 1, NI |-> 2, MO_AND_NI |-> 3],
   SUPL_VER |-> [V1_0_0 |-> 65536, V2_0_0 |-> 131072, V2_0_2 |-> 131074],
   LPP_PROFILE |-> [RRLP_ON_LTE |-> 0, USER_PLANE |-> 1, CONTROL_PLANE |-> 2, USER_PLANE_AND_CONTROL_PLANE |-> 3],
   LPPE_CP_TECHNOLOGY |-> [DBH |-> 0, WLAN_AP |-> 1, SRN_AP |-> 2, SENSOR_BARO |-> 3],
   LPPE_UP_TECHNOLOGY |-> [DBH |-> 0, WLAN_AP |-> 1, SRN_AP |-> 2, SENSOR_BARO |-> 3],
   A_GLONASS_POS_PROTOCOL_SELECT |-> [RRC_CP |-> 0, RRLP_UP |-> 1, LLP_UP |-> 2, LLP_CP |-> 3],
   USE_EMERGENCY_PDN |-> [NO |-> 0, YES |-> 1],
   SUPL_ES |-> [NO |-> 0, YES |-> 1],
   SUPL_MODE |-> [MSB |-> 0, MSA |-> 1]]

Masks == {"LPPE_CP_TECHNOLOGY", "LPPE_UP_TECHNOLOGY", "A_GLONASS_POS_PROTOCOL_SELECT", "SUPL_MODE"}

\* A setting is about these items and the two servers, and has values of LocationAPI.h.
SettingsAssumption ==
  \A config \in Settings :
    /\ config = [i \in DOMAIN config |-> config[i]]
    /\ DOMAIN config \subseteq DOMAIN Code \union {"SERVER", "PDE"}
    /\ \A i \in DOMAIN config \ {"SERVER", "PDE"} :
         config[i] \in IF i \in Masks THEN SUBSET DOMAIN Code[i] ELSE DOMAIN Code[i]

convert(i, v) == IF i \in Masks THEN {Code[i][b] : b \in v} ELSE Code[i][v]

\* The other direction; an unknown number is the first value.
revert(i, n) ==
  IF i \in Masks THEN {b \in DOMAIN Code[i] : Code[i][b] \in n}
  ELSE LET known == {v \in DOMAIN Code[i] : Code[i][v] = n}
           least == CHOOSE v \in DOMAIN Code[i] : \A w \in DOMAIN Code[i] : Code[i][v] <= Code[i][w]
       IN IF known = {} THEN least ELSE CHOOSE v \in known : TRUE

\* The engine gets these of mGps_conf when it starts, the first three only if AGPS_CONFIG_INJECT.
Injected == {"SUPL_VER", "LPP_PROFILE", "A_GLONASS_POS_PROTOCOL_SELECT"}
Technologies == {"LPPE_CP_TECHNOLOGY", "LPPE_UP_TECHNOLOGY"}

Defaults ==
  [GPS_LOCK |-> 0, SUPL_VER |-> 65536, LPP_PROFILE |-> 0, LPPE_CP_TECHNOLOGY |-> {}, LPPE_UP_TECHNOLOGY |-> {},
   A_GLONASS_POS_PROTOCOL_SELECT |-> {}, USE_EMERGENCY_PDN |-> 1, SUPL_ES |-> 1, SUPL_MODE |-> {0},
   SUPL_HOST |-> "", CAPABILITIES |-> {"SCHEDULING", "MSB", "MSA"}, AGPS_CONFIG_INJECT |-> TRUE]

Zeroes ==
  [Defaults EXCEPT !.SUPL_VER = 0, !.USE_EMERGENCY_PDN = 0, !.SUPL_ES = 0, !.SUPL_MODE = {}, !.CAPABILITIES = {},
                   !.AGPS_CONFIG_INJECT = FALSE]

getCarrierCapabilities(conf) ==
  conf.CAPABILITIES \ ((IF 1 \in conf.SUPL_MODE THEN {} ELSE {"MSA"})
                         \union (IF 0 \in conf.SUPL_MODE THEN {} ELSE {"MSB"}))

\* The items of new, and those of old that new does not have.
over(new, old) == [i \in DOMAIN new \union DOMAIN old |-> IF i \in DOMAIN new THEN new[i] ELSE old[i]]

\* The engine is given values.
giveAll(e, values) ==
  IF e.up THEN [e EXCEPT !.has = over(values, @), !.failed = @ \ DOMAIN values]
  ELSE [e EXCEPT !.failed = @ \union DOMAIN values]
give(e, i, v) == giveAll(e, [j \in {i} |-> v])

(***************************************************************************)
(* The message thread.  setSuplHostServer remembers the URL it gave, and   *)
(* an URL it remembers is not given again.  "" stands for no host, "bad"   *)
(* for an assistance server without a usable port.                         *)
(***************************************************************************)
Gives(host) == mGps_conf.AGPS_CONFIG_INJECT /\ host # "bad" /\ host # mServerUrl

\* Mutant: the first URL is remembered for good.
rememberFirst(host) == IF Gives(host) /\ mServerUrl = ":" THEN host ELSE mServerUrl

\* setServerUrl.
rememberServer(host) == IF Gives(host) THEN host ELSE mServerUrl

restartValues(conf) ==
  [i \in Technologies \union (IF conf.AGPS_CONFIG_INJECT THEN Injected ELSE {}) |-> revert(i, conf[i])]

readConfig ==
  /\ mGps_conf' = over(File, Defaults)
  /\ UNCHANGED <<mPowerVoteId, mServerUrl, engine, lockStatus, told>>

setConfig ==
  LET host == mGps_conf.SUPL_HOST
      given == giveAll(engine, restartValues(mGps_conf)) IN
  /\ engine' = IF Gives(host) THEN give(given, "SERVER", host) ELSE given
  /\ mServerUrl' = rememberServer(host)
  /\ UNCHANGED <<mGps_conf, mPowerVoteId, lockStatus, told>>

\* Mutant: the lock is given whoever votes.
lockFreeAlways == TRUE

\* getPowerVoteId is 0: the lock of gps.conf is in force.
lockFree == mPowerVoteId = 0

\* What an update gives the engine: items that changed, the lock unless somebody votes for power.
Given(config) ==
  {i \in DOMAIN config \intersect (Injected \union Technologies) :
     convert(i, config[i]) # mGps_conf[i] /\ (i \in Injected => mGps_conf.AGPS_CONFIG_INJECT)}
    \union (IF lockFree THEN {"GPS_LOCK"} \intersect DOMAIN config ELSE {})

Stored(config) ==
  {i \in DOMAIN config \ {"SERVER", "PDE"} : i \in Injected => mGps_conf.AGPS_CONFIG_INJECT}

serverGiven(e, config) ==
  IF "SERVER" \in DOMAIN config /\ Gives(config["SERVER"]) THEN give(e, "SERVER", config["SERVER"])
  ELSE IF "PDE" \in DOMAIN config /\ mGps_conf.AGPS_CONFIG_INJECT /\ config["PDE"] # "bad"
       THEN give(e, "PDE", config["PDE"]) ELSE e

\* Mutant: a new SUPL mode is kept to oneself.
broadcastNone(conf) == told

\* broadcastCapabilities, and setCapabilities of the ULP, when the SUPL mode changes.
broadcast(conf) ==
  IF conf.SUPL_MODE = mGps_conf.SUPL_MODE THEN told
  ELSE [c \in DOMAIN told |-> IF told[c].known THEN [known |-> TRUE, caps |-> getCarrierCapabilities(conf)] ELSE told[c]]

updateConfig(config) ==
  LET conf == over([i \in Stored(config) |-> convert(i, config[i])], mGps_conf) IN
  /\ mGps_conf' = conf
  /\ engine' = serverGiven(giveAll(engine, [i \in Given(config) |-> config[i]]), config)
  /\ mServerUrl' = IF "SERVER" \in DOMAIN config THEN rememberServer(config["SERVER"]) ELSE mServerUrl
  /\ told' = broadcast(conf)
  /\ UNCHANGED <<mPowerVoteId, lockStatus>>

enable(id) ==
  /\ IF mPowerVoteId > 0 THEN UNCHANGED <<mPowerVoteId, engine, lockStatus>>
     ELSE /\ mPowerVoteId' = id
          /\ engine' = give(engine, "GPS_LOCK", "NONE")
          /\ lockStatus' = convert("GPS_LOCK", "NONE")
  /\ UNCHANGED <<mGps_conf, mServerUrl, told>>

disable(id) ==
  /\ IF mPowerVoteId # id THEN UNCHANGED <<mPowerVoteId, engine, lockStatus>>
     ELSE /\ mPowerVoteId' = 0
          /\ engine' = give(engine, "GPS_LOCK", revert("GPS_LOCK", mGps_conf.GPS_LOCK))
          /\ lockStatus' = convert("GPS_LOCK", revert("GPS_LOCK", mGps_conf.GPS_LOCK))
  /\ UNCHANGED <<mGps_conf, mServerUrl, told>>

\* capabilitiesCb to a client that is added, or setCapabilities to a ULP that is loaded.
tellCapabilities(who) ==
  /\ told' = [told EXCEPT ![who] = [known |-> TRUE, caps |-> getCarrierCapabilities(mGps_conf)]]
  /\ UNCHANGED <<adapter, engine>>

(***************************************************************************)
(* The requests of the control client: the answer to a session finds the   *)
(* queue of that session, a collective answer the queue of configurations. *)
(***************************************************************************)
QueueTypes == {"CONTROL", "DELETEAIDINGDATA", "CONFIG"}
CONFIG_SESSION_ID == -1
reset(q, type, session) == [q EXCEPT ![type] = [session |-> session, requests |-> <<>>]]
pushRequest(q, type, r) == [q EXCEPT ![type].requests = Append(@, r)]

queueOf(id) == {t \in QueueTypes \ {"CONFIG"} : queues[t].session = id}
popped(types) ==
  [t \in QueueTypes |-> IF t \in types /\ queues[t].requests # <<>> THEN [queues[t] EXCEPT !.requests = Tail(@)]
                        ELSE queues[t]]

Empty == [i \in {} |-> 0]
msg(kind, id, config) == [kind |-> kind, id |-> id, config |-> config]

answered(m) ==
  queues' = CASE m.kind = "updateConfig" -> popped({"CONFIG"})
              [] m.kind \in {"enable", "disable", "deleteAidingData"} -> popped(queueOf(m.id))
              [] OTHER -> queues

Handle ==
  /\ msgs # <<>>
  /\ LET m == Head(msgs) IN
     /\ \/ m.kind = "readConfig" /\ readConfig
        \/ m.kind = "setConfig" /\ setConfig
        \/ m.kind = "updateConfig" /\ updateConfig(m.config)
        \/ m.kind = "enable" /\ enable(m.id)
        \/ m.kind = "disable" /\ disable(m.id)
        \/ m.kind = "deleteAidingData" /\ UNCHANGED <<adapter, engine, told>>
        \/ m.kind = "requestCapabilities" /\ tellCapabilities("client")
        \/ m.kind = "setUlpProxy" /\ tellCapabilities("ulp")
     /\ answered(m)
  /\ msgs' = Tail(msgs)
  /\ UNCHANGED <<mApi, mPendingConfig, mConfig, mEnabled, sessions, power, asked>>

(***************************************************************************)
(* Calls of the framework.  locAPI... hold mMutex throughout.              *)
(***************************************************************************)
Room == Len(msgs) < MaxMsgs /\ sessions < MaxSessions

\* locAPIGnssUpdateConfig: the queues, the messages and the sessions after it.
passOn(q, m, config) ==
  IF config = mConfig THEN [queues |-> q, msgs |-> m, sessions |-> sessions]
  ELSE [queues |-> pushRequest(IF q["CONFIG"].session = CONFIG_SESSION_ID THEN q
                               ELSE reset(q, "CONFIG", CONFIG_SESSION_ID), "CONFIG", "GnssUpdateConfig"),
        msgs |-> Append(m, msg("updateConfig", 0, config)),
        sessions |-> sessions + Cardinality(DOMAIN config)]

\* Mutant: locAPIEnable does not look.
enabledNever == FALSE

\* locAPIEnable just returns if it has enabled already.
alreadyEnabled == mEnabled

\* Gnss::setCallback with a callback: getApi creates the API object, which gets what is pending.
setCallback ==
  LET new == IF mApi THEN [queues |-> queues, msgs |-> msgs, sessions |-> sessions]
             ELSE passOn(queues, Append(msgs, msg("requestCapabilities", 0, Empty)),
                         IF mPendingConfig = Empty THEN mConfig ELSE mPendingConfig)
      id == new.sessions + 1 IN
  /\ Room
  /\ mApi' = TRUE
  /\ mConfig' = IF mApi \/ mPendingConfig = Empty THEN mConfig ELSE mPendingConfig
  /\ mEnabled' = TRUE
  /\ IF alreadyEnabled THEN queues' = new.queues /\ msgs' = new.msgs /\ sessions' = new.sessions /\ UNCHANGED power
     ELSE /\ queues' = pushRequest(reset(new.queues, "CONTROL", id), "CONTROL", "enable")
          /\ msgs' = Append(new.msgs, msg("enable", id, Empty))
          /\ sessions' = id
          /\ power' = TRUE
  /\ UNCHANGED <<mPendingConfig, adapter, engine, told, asked>>

\* Mutant: what was pending is replaced.
pendingReplaced(config) == config

\* mPendingConfig with the items that are flagged.
pendingWith(config) == over(config, mPendingConfig)

\* Gnss::updateConfiguration, as GnssConfiguration and AGnss call it: one item.  The host name of a
\* pending server is copied only in place of an earlier one, and there is none.
updateConfiguration(config) ==
  LET kept == [i \in DOMAIN config |-> IF i \in {"SERVER", "PDE"} THEN "" ELSE config[i]]
      passed == passOn(queues, msgs, config) IN
  /\ Room
  /\ asked' = over(config, asked)
  /\ IF mApi THEN /\ queues' = passed.queues /\ msgs' = passed.msgs /\ sessions' = passed.sessions
                  /\ mConfig' = config
                  /\ UNCHANGED mPendingConfig
     ELSE mPendingConfig' = pendingWith(kept) /\ UNCHANGED <<queues, msgs, sessions, mConfig>>
  /\ UNCHANGED <<mApi, mEnabled, power, adapter, engine, told>>

\* Gnss::cleanup, called by the framework and when it dies.
cleanup ==
  /\ Room /\ mApi /\ mEnabled /\ queues["CONTROL"].session > 0
  /\ queues' = pushRequest(queues, "CONTROL", "disable")
  /\ msgs' = Append(msgs, msg("disable", queues["CONTROL"].session, Empty))
  /\ mEnabled' = FALSE
  /\ power' = FALSE
  /\ UNCHANGED <<mApi, mPendingConfig, mConfig, sessions, adapter, engine, told, asked>>

\* The queue is for the last deletion.
queueForDeletion(q, id) == pushRequest(reset(q, "DELETEAIDINGDATA", id), "DELETEAIDINGDATA", "deleteAidingData")

deleteAidingData ==
  LET id == sessions + 1 IN
  /\ Room /\ mApi
  /\ queues' = queueForDeletion(queues, id)
  /\ msgs' = Append(msgs, msg("deleteAidingData", id, Empty))
  /\ sessions' = id
  /\ UNCHANGED <<mApi, mPendingConfig, mConfig, mEnabled, power, adapter, engine, told, asked>>

\* External: the library of the ULP has loaded it.
loadUlp ==
  /\ Len(msgs) < MaxMsgs /\ ~told["ulp"].known
  /\ msgs' = Append(msgs, msg("setUlpProxy", 0, Empty))
  /\ UNCHANGED <<client, adapter, engine, told>>

\* Mutant: the engine is not configured again.
upMessagesNone(m) == m

\* GnssAdapter::handleEngineUpEvent.
upMessages(m) == Append(m, msg("setConfig", 0, Empty))

\* The engine goes down, and comes up with what it keeps; handleEngineUpEvent follows.
engineDown ==
  /\ engine.up /\ Len(msgs) < MaxMsgs
  /\ engine' = [engine EXCEPT !.up = FALSE,
                              !.has = [i \in DOMAIN @ \intersect {"GPS_LOCK", "SERVER", "PDE"} |-> @[i]]]
  /\ UNCHANGED <<client, adapter, msgs, told>>

handleEngineUp ==
  /\ ~engine.up
  /\ engine' = [engine EXCEPT !.up = TRUE]
  /\ msgs' = upMessages(msgs)
  /\ UNCHANGED <<client, adapter, told>>

Init ==
  /\ mApi = FALSE /\ mPendingConfig = Empty /\ mConfig = Empty /\ mEnabled = FALSE
  /\ queues = [t \in QueueTypes |-> [session |-> 0, requests |-> <<>>]]
  /\ sessions = 0
  /\ msgs = <<msg("readConfig", 0, Empty), msg("setConfig", 0, Empty)>>
  /\ mGps_conf = Zeroes /\ mPowerVoteId = 0 /\ mServerUrl = ":" /\ lockStatus = -1
  /\ engine = [up |-> TRUE, has |-> Empty, failed |-> {}]
  /\ power = FALSE
  /\ told = [c \in {"client", "ulp"} |-> [known |-> FALSE, caps |-> {}]]
  /\ asked = Empty

Next ==
  \/ Handle
  \/ setCallback \/ cleanup \/ deleteAidingData \/ \E config \in Settings : updateConfiguration(config)
  \/ loadUlp \/ engineDown \/ handleEngineUp

Spec == Init /\ [][Next]_vars

(***************************************************************************)
(* Properties.  The state counts when every message has been handled.      *)
(***************************************************************************)
Settled == msgs = <<>> /\ engine.up

\* The engine has what mGps_conf says, whether it was set by an update or after a restart, and
\* whichever of the two came first.
EngineAgrees ==
  Settled => \A i \in Technologies \union (IF mGps_conf.AGPS_CONFIG_INJECT THEN Injected ELSE {}) :
               i \in DOMAIN engine.has /\ engine.has[i] = revert(i, mGps_conf[i])

\* The engine is locked as gps.conf or the framework says while nobody votes for power, and unlocked
\* otherwise, if the engine took the last lock it was given.
LockFollowsVote ==
  Settled /\ "GPS_LOCK" \in DOMAIN engine.has /\ "GPS_LOCK" \notin engine.failed =>
    engine.has["GPS_LOCK"] = IF mPowerVoteId > 0 THEN "NONE" ELSE revert("GPS_LOCK", mGps_conf.GPS_LOCK)

\* The modem has the power vote of the client iff the adapter has its session.
VoteAgrees == msgs = <<>> => (power <=> mPowerVoteId > 0)

\* What the framework configured before there was an API object, and since, is what mGps_conf has,
\* but for the servers.
ConfigNotLost ==
  mApi /\ msgs = <<>> =>
    \A i \in DOMAIN asked \ {"SERVER", "PDE"} :
      (i \in Injected => mGps_conf.AGPS_CONFIG_INJECT) => mGps_conf[i] = convert(i, asked[i])

\* The engine has the SUPL server that setSuplHostServer remembers, if it took it.  A server that the engine
\* refused, or was too down to take, is remembered all the same and never given again (GnssAdapter.cpp:613):
\* of such a one nothing is said.
ServerAgrees ==
  Settled /\ "SERVER" \notin engine.failed /\ mServerUrl # ":" =>
    "SERVER" \in DOMAIN engine.has /\ engine.has["SERVER"] = mServerUrl

\* Clients and ULP know the capabilities of the SUPL mode in force.
CapabilitiesCurrent ==
  msgs = <<>> => \A c \in DOMAIN told : told[c].known => told[c].caps = getCarrierCapabilities(mGps_conf)

\* The engine works with what the adapter holds, through updates, restarts and power votes.
EngineConfigured == EngineAgrees /\ LockFollowsVote /\ ServerAgrees

\* What was asked for is in force: the configuration, the power vote and what depends on them.
ConfigurationInForce == ConfigNotLost /\ VoteAgrees /\ CapabilitiesCurrent
=============================================================================
