---------------------------- MODULE SystemStatus ----------------------------
(***************************************************************************)
(* What is known of the system (gps/core/SystemStatus.cpp) and the debug   *)
(* report made of it (gps/gnss/GnssAdapter.cpp).                           *)
(*                                                                         *)
(* The engine's debug sentences, its positions and the data items of the   *)
(* operating system are recorded in one report each: the last maxItem      *)
(* entries, of which a repeated one only moves its time stamp.  Deleting   *)
(* the aiding data records a default in every report of the engine.        *)
(*                                                                         *)
(* Every operation runs under the one mutex and is one step.  A sentence   *)
(* is its talker, the number of its fields and one value standing for what *)
(* the fields say; an entry is what equals() compares and what it leaves   *)
(* out.                                                                    *)
(***************************************************************************)
EXTENDS Naturals, Sequences

CONSTANTS Values,     \* what a report can say; 0 is the default
          Talkers,    \* the sentences that come
          Items,      \* the data items that come
          Networks,   \* network types of the framework
          NoItem,     \* what a report was told before it was told anything
          maxItem,
          MaxEvents   \* bound: events recorded

ValuesAssumption == 0 \in Values /\ NoItem \notin Values
TalkersAssumption ==
  Talkers \subseteq {"PQWM1", "PQWP1", "PQWP2", "PQWP3", "PQWP4", "PQWP5", "PQWP6", "PQWP7", "PQWS1"}
MaxItemAssumption == maxItem \in Nat \ {0} /\ MaxEvents \in Nat

VARIABLES mCache,     \* report -> its entries, the newest last
          seen,       \* ghost: what each report was last told, NoItem before
          connected,  \* ghost: the networks that are up
          downFirst,  \* ghost: the first network event was one going down
          epoch,      \* ghost: how often the aiding data were deleted
          events      \* events so far

vars == <<mCache, seen, connected, downFirst, epoch, events>>

(***************************************************************************)
(* Sentences: what the parsers return.  All but PQWM1 return the record    *)
(* without setting it when fields are missing: any value.                  *)
(***************************************************************************)
\* Number of fields; the last comma ends at the checksum's star.
Sizes == {3, 22, 23, 25, 31, 404}

Contents(main, leap, amp) == [main |-> main, leap |-> leap, amp |-> amp]
Tokens(s, eMax) ==
  IF s.size < eMax THEN {Contents(v, 0, 0) : v \in Values} ELSE {Contents(s.val, 0, 0)}

PQWM1parser(s) ==
  IF s.size <= 22 THEN {Contents(0, 0, 0)}
  ELSE {Contents(s.val, IF s.size > 24 THEN s.val ELSE 0, IF s.size > 30 THEN s.val ELSE 0)}
PQWP1parser(s) == Tokens(s, 9)
PQWP2parser(s) == Tokens(s, 7)
PQWP3parser(s) == Tokens(s, 13)
PQWP4parser(s) == Tokens(s, 7)
PQWP5parser(s) == Tokens(s, 17)
PQWP6parser(s) == Tokens(s, 3)
PQWP7parser(s) == Tokens(s, 2 + 134 * 3)
PQWS1parser(s) == Tokens(s, 4)

(***************************************************************************)
(* Entries: cmp is what equals() looks at.                                 *)
(***************************************************************************)
Entry(cmp, mValid) == [cmp |-> cmp, mValid |-> mValid, epoch |-> epoch]

TimeAndClock(p) == Entry(<<p.main, p.leap>>, TRUE)
XoState(p) == Entry(p.main, TRUE)
RfAndParams(p) == Entry(<<p.main, p.amp>>, TRUE)
ErrRecovery(p) == Entry(p.main, TRUE)
InjectedPosition(p) == Entry(p.main, TRUE)
BestPosition(p) == Entry(p.main, TRUE)
Xtra(p) == Entry(p.main, TRUE)
Ephemeris(p) == Entry(p.main, TRUE)
SvHealth(p) == Entry(p.main, TRUE)
Pdr(p) == Entry(p.main, TRUE)
NavData(p) == Entry(p.main, TRUE)
PositionFailure(p) == Entry(p.main, TRUE)
Location(v) == Entry(v, TRUE)  \* latitude, longitude and altitude; not the rest

Sentence(talker, p) ==
  CASE talker = "PQWM1" -> [mTimeAndClock |-> TimeAndClock(p), mXoState |-> XoState(p),
                            mRfAndParams |-> RfAndParams(p), mErrRecovery |-> ErrRecovery(p)]
    [] talker = "PQWP1" -> [mInjectedPosition |-> InjectedPosition(p)]
    [] talker = "PQWP2" -> [mBestPosition |-> BestPosition(p)]
    [] talker = "PQWP3" -> [mXtra |-> Xtra(p)]
    [] talker = "PQWP4" -> [mEphemeris |-> Ephemeris(p)]
    [] talker = "PQWP5" -> [mSvHealth |-> SvHealth(p)]
    [] talker = "PQWP6" -> [mPdr |-> Pdr(p)]
    [] talker = "PQWP7" -> [mNavData |-> NavData(p)]
    [] talker = "PQWS1" -> [mPositionFailure |-> PositionFailure(p)]

Parser(s) ==
  CASE s.talker = "PQWM1" -> PQWM1parser(s)
    [] s.talker = "PQWP1" -> PQWP1parser(s)
    [] s.talker = "PQWP2" -> PQWP2parser(s)
    [] s.talker = "PQWP3" -> PQWP3parser(s)
    [] s.talker = "PQWP4" -> PQWP4parser(s)
    [] s.talker = "PQWP5" -> PQWP5parser(s)
    [] s.talker = "PQWP6" -> PQWP6parser(s)
    [] s.talker = "PQWP7" -> PQWP7parser(s)
    [] s.talker = "PQWS1" -> PQWS1parser(s)

\* What the constructors without arguments make, for setDefaultGnssEngineStates().
zero == Contents(0, 0, 0)
StateDefaults ==
  [mLocation |-> Entry(0, FALSE), mTimeAndClock |-> TimeAndClock(zero), mXoState |-> XoState(zero),
   mRfAndParams |-> RfAndParams(zero), mErrRecovery |-> ErrRecovery(zero),
   mInjectedPosition |-> InjectedPosition(zero), mBestPosition |-> Entry(0, FALSE)]
HealthDefaults ==
  [mXtra |-> Xtra(zero), mEphemeris |-> Ephemeris(zero), mSvHealth |-> SvHealth(zero),
   mPdr |-> Pdr(zero), mNavData |-> NavData(zero), mPositionFailure |-> PositionFailure(zero)]
EngineReports ==
  {"mLocation", "mTimeAndClock", "mXoState", "mRfAndParams", "mErrRecovery", "mInjectedPosition",
   "mBestPosition", "mXtra", "mEphemeris", "mSvHealth", "mPdr", "mNavData", "mPositionFailure"}

EngineDefaults ==
  [r \in EngineReports |-> IF r \in DOMAIN StateDefaults THEN StateDefaults[r] ELSE HealthDefaults[r]]

(***************************************************************************)
(* Data items.  The two Bluetooth scans are stored in one another's        *)
(* reports and always count as equal; the access point's address is not    *)
(* compared.                                                               *)
(***************************************************************************)
ReportOf ==
  [AIRPLANEMODE |-> "mAirplaneMode", ENH |-> "mENH", GPSSTATE |-> "mGPSState",
   NLPSTATUS |-> "mNLPStatus", WIFIHARDWARESTATE |-> "mWifiHardwareState",
   NETWORKINFO |-> "mNetworkInfo", RILSERVICEINFO |-> "mRilServiceInfo",
   RILCELLINFO |-> "mRilCellInfo", SERVICESTATUS |-> "mServiceStatus", MODEL |-> "mModel",
   MANUFACTURER |-> "mManufacturer", ASSISTED_GPS |-> "mAssistedGps",
   SCREEN_STATE |-> "mScreenState", POWER_CONNECTED_STATE |-> "mPowerConnectState",
   TIMEZONE_CHANGE |-> "mTimeZoneChange", TIME_CHANGE |-> "mTimeChange",
   WIFI_SUPPLICANT_STATUS |-> "mWifiSupplicantStatus", SHUTDOWN_STATE |-> "mShutdownState",
   TAC |-> "mTac", MCCMNC |-> "mMccMnc", BTLE_SCAN |-> "mBtDeviceScanDetail",
   BT_SCAN |-> "mBtLeDeviceScanDetail"]
ItemsAssumption == Items \subseteq DOMAIN ReportOf
SimpleItems == DOMAIN ReportOf \ {"NETWORKINFO", "BTLE_SCAN", "BT_SCAN"}
Flags == {"AIRPLANEMODE", "ENH", "GPSSTATE", "NLPSTATUS", "WIFIHARDWARESTATE"}
Changes == {"TIMEZONE_CHANGE", "TIME_CHANGE", "WIFI_SUPPLICANT_STATUS", "SHUTDOWN_STATE", "TAC", "MCCMNC"}
ItemReports == {ReportOf[id] : id \in DOMAIN ReportOf}
Reports == EngineReports \union ItemReports

BtDeviceScanDetail == Entry(NoItem, TRUE)
FlagItem(v) == Entry(v, TRUE)      \* on or off
TextItem(v) == Entry(v, TRUE)      \* radio service, cell, model, manufacturer, power, screen
ChangeItem(v) == Entry(v, TRUE)    \* time, zone, access point, shutdown, area and network codes
SimpleItem(id, v) ==
  CASE id \in Flags   -> FlagItem(v)
    [] id \in Changes -> ChangeItem(v)
    [] id \notin Flags \union Changes -> TextItem(v)

\* The bit mask of types, as the set of its bits; 9 is TYPE_UNKNOWN.
typeToAllTypes(type) == IF type >= 9 THEN {} ELSE {type}

\* Mutant: a network that goes down takes the others along.
collateAlone(up, types, current) == IF up THEN types \union current ELSE {}

collate(up, types, current) ==
  IF up THEN types \union current
  ELSE IF types # {} THEN current \ types ELSE {}

(***************************************************************************)
(* Recording.                                                              *)
(***************************************************************************)
Append5(entries, s) == LET longer == Append(entries, s) IN
  IF Len(longer) > maxItem THEN Tail(longer) ELSE longer

\* Mutant: compares with the oldest entry.
setAgainstFirst(entries, s) ==
  IF entries # <<>> /\ Head(entries).cmp = s.cmp THEN entries ELSE Append5(entries, s)

setIteminReport(entries, s) ==
  IF entries # <<>> /\ entries[Len(entries)].cmp = s.cmp THEN entries ELSE Append5(entries, s)

setDefaultIteminReport(entries, s) == Append5(entries, s)

\* news maps some reports to entries.
record(news) ==
  /\ mCache' = [r \in Reports |-> IF r \in DOMAIN news THEN setIteminReport(mCache[r], news[r])
                                  ELSE mCache[r]]
  /\ seen' = [r \in Reports |-> IF r \in DOMAIN news THEN news[r].cmp ELSE seen[r]]

Event == events < MaxEvents /\ events' = events + 1

setNmeaString ==
  /\ Event
  /\ \E talker \in Talkers, size \in Sizes, val \in Values :
       \E p \in Parser([talker |-> talker, size |-> size, val |-> val]) :
         record(Sentence(talker, p))
  /\ UNCHANGED <<connected, downFirst, epoch>>

eventPosition ==
  /\ Event
  /\ \E v \in Values : record([mLocation |-> Location(v)])
  /\ UNCHANGED <<connected, downFirst, epoch>>

\* A network event is collated with the newest entry, when there is one.
eventNetwork(type, up) ==
  LET types   == typeToAllTypes(type)
      entries == mCache["mNetworkInfo"]
      all     == IF entries = <<>> THEN types ELSE collate(up, types, entries[Len(entries)].cmp) IN
  /\ record([mNetworkInfo |-> Entry(all, TRUE)])
  /\ connected' = CASE up -> connected \union types
                    [] ~up /\ types = {} -> {}
                    [] ~up /\ types # {} -> connected \ types
  /\ downFirst' = (downFirst \/ (entries = <<>> /\ ~up /\ types # {}))

eventDataItemNotify ==
  /\ Event
  /\ \/ /\ "NETWORKINFO" \in Items
        /\ \E type \in Networks, up \in BOOLEAN : eventNetwork(type, up)
     \/ /\ \E id \in Items \ {"NETWORKINFO"} :
             \/ id \in SimpleItems /\ \E v \in Values : record([r \in {ReportOf[id]} |-> SimpleItem(id, v)])
             \/ id \notin SimpleItems /\ record([r \in {ReportOf[id]} |-> BtDeviceScanDetail])
        /\ UNCHANGED <<connected, downFirst>>
  /\ UNCHANGED epoch

\* Mutants: a report is forgotten.
defaultsButBest == mCache' = [r \in Reports |->
  IF r \in EngineReports \ {"mBestPosition"}
  THEN setDefaultIteminReport(mCache[r], [EngineDefaults[r] EXCEPT !.epoch = epoch']) ELSE mCache[r]]

defaultsButRf == mCache' = [r \in Reports |->
  IF r \in EngineReports \ {"mRfAndParams"}
  THEN setDefaultIteminReport(mCache[r], [EngineDefaults[r] EXCEPT !.epoch = epoch']) ELSE mCache[r]]

setDefaults == mCache' = [r \in Reports |->
  IF r \in EngineReports
  THEN setDefaultIteminReport(mCache[r], [EngineDefaults[r] EXCEPT !.epoch = epoch']) ELSE mCache[r]]

setDefaultGnssEngineStates ==
  /\ Event
  /\ epoch' = epoch + 1
  /\ setDefaults
  /\ seen' = [r \in Reports |-> IF r \in EngineReports THEN EngineDefaults[r].cmp ELSE seen[r]]
  /\ UNCHANGED <<connected, downFirst>>

-----------------------------------------------------------------------------
(***************************************************************************)
(* Reading.                                                                *)
(***************************************************************************)
getReport(cache) == [r \in {x \in Reports : cache[x] # <<>>} |-> cache[r][Len(cache[r])]]

Valid(reports, r) == r \in DOMAIN reports /\ reports[r].mValid

\* The reports that say something of the satellites: navigation data, health, predictions.
convertSatelliteInfo(reports) ==
  {r \in {"mNavData", "mSvHealth", "mXtra"} \cap DOMAIN reports : reports[r].cmp # 0}

\* The reports that getDebugReport() shows: a location or none, a time or none, satellites.
getDebugReport(reports) ==
  LET place == CASE Valid(reports, "mLocation") -> {"mLocation"}
                 [] ~Valid(reports, "mLocation") /\ Valid(reports, "mBestPosition") -> {"mBestPosition"}
                 [] ~Valid(reports, "mLocation") /\ ~Valid(reports, "mBestPosition") -> {}
      time  == IF "mTimeAndClock" \in DOMAIN reports /\ reports["mTimeAndClock"].cmp[1] # 0
               THEN {"mTimeAndClock"} ELSE {} IN
  place \union time \union convertSatelliteInfo(reports)

\* The gain of a measurement and the clock it is matched with.
getAgcInformation(reports) ==
  IF {"mRfAndParams", "mTimeAndClock"} \subseteq DOMAIN reports
  THEN <<reports["mRfAndParams"].cmp[1], reports["mTimeAndClock"].cmp[1]>> ELSE <<0, 0>>

-----------------------------------------------------------------------------
Init ==
  /\ mCache = [r \in Reports |-> <<>>]
  /\ seen = [r \in Reports |-> NoItem]
  /\ connected = {}
  /\ downFirst = FALSE
  /\ epoch = 0
  /\ events = 0

Next == setNmeaString \/ eventPosition \/ eventDataItemNotify \/ setDefaultGnssEngineStates

Spec == Init /\ [][Next]_vars

-----------------------------------------------------------------------------
(***************************************************************************)
(* Properties.                                                             *)
(***************************************************************************)
\* The newest entry of a report says what the report was told last, as far as equals() can
\* tell, however often a sentence was repeated and whatever was dropped from the front: the
\* readers (SystemStatus::getReport with isLatestOnly) look at nothing else.
LatestIsLastTold == \A r \in DOMAIN getReport(mCache) : getReport(mCache)[r].cmp = seen[r]

\* A report holds at most maxItem entries, and two neighbours differ unless the later one is
\* a default (SystemStatus::setIteminReport records changes only).
RecordsChanges ==
  \A r \in Reports :
    /\ Len(mCache[r]) <= maxItem
    /\ \A i \in 1..Len(mCache[r]) - 1 :
         \/ mCache[r][i].cmp # mCache[r][i+1].cmp
         \/ r \in EngineReports /\ mCache[r][i+1].epoch > mCache[r][i].epoch

\* The types of the newest network entry are the networks that are up: XTRA and the engine are
\* told that mask (SystemStatusNetworkInfo::collate).  Premise: the first event was a network
\* coming up; the first entry is not collated, and a network going down first counts as up.
NetworksFollow ==
  ~downFirst /\ mCache["mNetworkInfo"] # <<>> => mCache["mNetworkInfo"][Len(mCache["mNetworkInfo"])].cmp = connected

\* After the aiding data were deleted, the debug report shows nothing the engine said before
\* (GnssAdapter::deleteAidingData, getDebugReport).
DeletedDataGone ==
  LET reports == getReport(mCache) IN \A r \in getDebugReport(reports) : reports[r].epoch = epoch

\* The gain handed out with a measurement and the clock that decides whether it is recent come
\* from the same sentence (GnssAdapter::getAgcInformation, SystemStatus::setNmeaString).
GainMatchesClock == getAgcInformation(getReport(mCache))[1] = getAgcInformation(getReport(mCache))[2]

\* What the readers of the history rely on, and what the framework is shown of the engine's state.
StatusTruthful == LatestIsLastTold /\ RecordsChanges /\ NetworksFollow /\ DeletedDataGone /\ GainMatchesClock
=============================================================================
