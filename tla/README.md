# Verification of the GNSS HAL of android_device_razer_aura

The repository is the device tree of the Razer Phone 2. Most of it is data for other programs (makefiles, policies, audio
and Wi-Fi configuration). Its own program code is the Qualcomm GNSS HAL under `src/gps/` (C++), the fingerprint HAL under
`src/fingerprint/` and the doze settings app under `src/parts/`. The development here models the GNSS HAL, where the
concurrency, the timers and the long-lived state are.

Contents: [the system](#1-the-system), [the modules](#2-the-modules), [the runs](#3-the-runs),
[the proofs](#4-the-proofs), [what the code does otherwise](#5-where-the-code-departs-from-what-it-says),
[what is not modelled](#6-what-is-not-modelled), [the plan](#7-the-plan).

## 1. The system

### 1.1 How the parts work together

```
 framework (Java)                                     modem
   | HIDL (binder threads)                              ^ | LocApiBase subclass (vendor, external)
   v                                                    | v
 android/Gnss*.cpp, location_api/*Client            core/LocApiBase, LocAdapterBase
   | LocationAPIClientBase (mutex, request queues)      ^ |  reports to every adapter
   v                                                    | v
 location/LocationAPI  --- location_gnss.cpp --->   gnss/GnssAdapter --------> gnss/Agps (AgpsManager)
   (mutex, client table)                              (one message thread)       retry timer thread
                                                      |  NI threads, OdcpiTimer
                                                      v
                                                    core/SystemStatus, SystemStatusOsObserver, XtraSystemStatusObserver
                                                    utils/MsgTask, msg_q, LocThread, LocTimer, LocHeap, LocIpc
```

`GnssAdapter` is a monitor by convention: everything that changes it is a `LocMsg` handled by the one thread of its
`MsgTask`. What makes the code hard is what happens around that thread: commands of clients that wait in the queue while the
client goes away; events of the modem and of the framework that answer a request which is no longer the current one; timers
and NI threads that run beside the message thread; records that both sides touch with a lock, or without one.

### 1.2 Inventory

For each part: the state it keeps, its operations, what is hard about it, and what makes it correct.

| part | state | operations | hard | correct when |
|---|---|---|---|---|
| AGPS connection manager (`gnss/Agps`) | per NIF: state, subscriber list with the flags *inactive* and *wait for close*; retries and retry timer of the DS machine | requestATL, releaseATL, data connection open / failed / closed, DS call reports, retry timeout | answers carry no request identity; shared connections; a close that must be awaited; fallback from DS to SUPL through the queue | each handle gets open and close once and in order; no connection for nobody; no handle forgotten |
| Network-initiated requests (`GnssAdapter` 1842-1937, 2321-2481) | two `NiSession` records, id counter, a thread per request | requestNiNotify, gnssNiResponse (user), niThreadProc, gnssNiResponse (modem) | records shared with NI threads, half locked; the timeout races with the answer; the emergency request silences the other | one answer per request, the user's own; emergencies never dropped; payload freed once |
| Tracking sessions (`GnssAdapter` 1069-1245, 1451-1790) | client table, session table, the engine | register, remove, start, update, stop, restart of the engine | several sessions multiplexed over one engine; commands that fail; clients that leave with sessions | engine runs iff there is a session, at the smallest interval; no session outlives its client |
| ODCPI (`GnssAdapter` 2539-2694) | active flag, last request, timer | reportOdcpiRequest, timer expiration, restart, odcpiInit | the expiration waits in the queue while the timer is restarted | repeated while active; emergencies at once; the framework not flooded |
| Configuration and power (`android/Gnss`, `LocationAPIControlClient`, `GnssAdapter` 701-923, 1940-2028) | pending configuration, `mGps_conf`, SUPL server, vote, lock | updateConfiguration, enable, disable, deleteAidingData, engine up | each setting goes three ways; the engine restarts between them | the engine has what the adapter has, the adapter what the framework asked for |
| Reports (`GnssAdapter` 2031-2315, `loc_nmea`) | satellites used in the last fix, tracking sessions | reportPosition, reportSv, NMEA | two handlers share a flag and a mask; a ULP delays reports; sentences count the same satellites separately | each report handled once, satellites flagged truthfully, sentences agree |
| OS observer (`core/SystemStatusOsObserver`) | two maps, cache, subscription object, reference counts of framework modules | subscribe, updateSubscription, requestData, unsubscribe(All), notify, turnOn, turnOff | two maps that are inverse of each other, each updated from the result of the other | no client misses the latest value; the framework follows exactly what is wanted |
| Timers (`utils/LocTimer`) | per timer its delegate; the heap; timerfd and epoll set | start, stop, push / remove / expire messages, poll | client threads, message task and poll thread touch one timerfd; messages overtaken by stop and start | every timer ends by stop or callback, not before its time, freed once |
| Timer heap (`utils/LocHeap`) | binary tree with subtree sizes | push, peek, pop, remove | removal from the middle keeps order and sizes | a priority queue |
| Message task, queue, thread (`utils/MsgTask`, `msg_q`, `LocThread`) | FIFO, condition variable, thread with reference-counted delegate | sendMsg, run, destroy, stop | the consumer that blocks while the queue is torn down; a thread that destroys itself | every message handled once and in order; no use after the end |
| Location API client base (`location/LocationAPIClientBase`) | request queues, dictionaries of session and geofence ids, flags | locAPI* commands, response and event callbacks | responses matched with requests in FIFO order, with a mutex that is not held in callbacks | each response reaches the request it answers |
| Location API (`location/LocationAPI`) | client table, the three interfaces | createInstance, destroy, updateCallbacks, routing of commands | callbacks replaced while sessions run | each command reaches the interface that has the session |
| Geofences (`GeofenceAPIClient`, `LocationAPIClientBase`) | request queue, dictionary of ids and sessions | add, pause, resume, remove, collective answers, breaches | one queue for all geofences; answers translated after the dictionary has changed | answers and breaches name the geofence the framework means |
| Android HAL (`android/`) | framework callbacks, API clients, cached capabilities | setCallback, start, stop, cleanup, close, serviceDied | obituaries between the calls of a successor; capabilities cached on one thread, told on another | the adapter works for the framework there is and for no dead one |
| Engine interface (`core/LocApiBase`, `LocAdapterBase`, `ContextBase`), client event masks | table of ten adapters, event masks | addAdapter, removeAdapter, updateEvtMask, updateClientsEventMask, engine up / down | table at its limit; a mask that is the union over adapters, set from several sources, renegotiated by messages | every adapter hears every event it asked for |
| System status (`core/SystemStatus`) | history of each item | setNmeaString, eventPosition, eventDataItemNotify, setDefaultGnssEngineStates, getReport | duplicates, bounded history, networks merged, defaults report by report | the newest entry is what was told last; deleted data are gone |
| XTRA observer (`gnss/XtraSystemStatusObserver`, `utils/LocIpc`) | last status, *requested* flag, listener, timer | updates, onStatusRequested, halinit | withheld until requested; datagrams; two processes that restart | a daemon that runs is answered and believes the latest |
| ULP proxy (`core/UlpProxyBase.h`) | notes of the last session | default answers | nothing in the repository sets another proxy | |
| Data items, declarations, configuration files, logging, `location_gnss.cpp` | none that outlives a call, or start-up data | conversions | | |
| Fingerprint HAL (`fingerprint/`) | vendor device, callback | the HIDL operations | the device may be missing | an error instead of a crash |
| Doze settings app (`parts/`) | sensors registered while the display is off | display on / off | | registered iff display off |

`PROJECT.json` lists the same parts with their files under "components", the status of each, and the hazards with the lines
where they bite.

### 1.3 The hazards

Seven kinds recur, and the properties are aimed at them.

* *An answer without an identity* (Agps.cpp:190, 284; LocationAPIClientBase.cpp:909): the receiver takes it for the answer to
  its current request.
* *A message that is overtaken* (LocTimer.cpp:370; GnssAdapter.cpp:2681): an expiration waits in a queue while the timer is
  stopped or restarted.
* *A check without the lock* (GnssAdapter.cpp:1869, 2402; LocTimer.cpp:530): a record is looked up, the other thread resets it,
  the first one writes.
* *Two representations of one relation* (SystemStatusOsObserver.cpp:166; Agps.cpp:141): state and list, or map and inverse
  map, decided in several places.
* *One step of several fails* (GnssAdapter.cpp:1149, 2466; Agps.cpp:233): the result is ignored and the state moves on.
* *The same thing told in several places* (GnssAdapter.cpp:613, 762; LocApiBase.cpp:175; LocationAPIClientBase.cpp:116): a
  setting, a mask or a vote is kept by client, adapter and engine, each changed by messages of its own.
* *Somebody restarts* (GnssAdapter.cpp:1244; XtraSystemStatusObserver.cpp:126; Gnss.cpp:41): engine, HAL, daemon or framework
  come back and the others still have the state of before.

## 2. The modules

Names of operators are those of the functions they model; `PROJECT.json` "map" gives the lines of each. An operator that is
commented *Mutant* is a plausible bug that a run must detect; no specification uses it.

### 2.1 `Agps`, `AtlService`: the AGPS connection manager

*Code*: `gnss/Agps.{h,cpp}`, the messages of `GnssAdapter` that call it, the status callback of `android/AGnss.cpp`.

The modem asks for a connection with `requestATL(handle, type)`. The manager routes the handle to one of three NIF machines
(`nifFor`): AGNSS for SUPL, INTERNET for WWAN_ANY, and DS for emergency SUPL when the configuration says so. `mState`,
`mSubscriberList`, `mIsInactive`, `mWaitForCloseComplete`, `mRetries` are the fields of the C++ classes, one function per NIF.
The order of a subscriber list matters only for the fallback of DS, which takes any order.

| code | action |
|---|---|
| `requestATL` and `processAgpsEventSubscribe` | `ProcessRequestATL` (`Subscribe`) |
| `releaseATL` and `processAgpsEventUnsubscribe` | `ProcessReleaseATL` (`Unsubscribe`) |
| `reportAtlOpenSuccess`, `reportDataCallOpened` and `processAgpsEventGranted` | `ProcessGranted` |
| `reportAtlClosed`, `reportDataCallClosed` and `processAgpsEventReleased` | `ProcessReleased` |
| `reportAtlOpenFailed` and `processAgpsEventDenied` | `ProcessDenied` |
| `DSStateMachine::retryCallback` (timer thread) | `RetryTimeout` |

`requestOrReleaseDataConn` is `requestDataConn` / `releaseDataConn`: for the framework NIFs it sends a command that cannot
fail, for DS it calls the data service client, which may succeed, be busy (retry timer), be unsupported (fallback to SUPL
through the queue) or fail otherwise.

The environment is external. The start of the retry timer always succeeds in the model (Agps.cpp:629). The modem (`atl`) uses a handle again only when no message about its previous use is left. The
framework takes up commands in order and answers the connection that is opening; it may lose an open one. The DS client
reports a call it was asked to start or to stop. `FrameworkNifs` says for which NIFs the registered callback passes commands
on.

`AtlService` is the promise to the modem: per handle, opened only when asked for, closed once, nothing after the close; and
with fairness every open and close is answered.

### 2.2 `NiSession`: network-initiated requests

*Code*: `requestNiNotify`, `gnssNiResponseCommand` (two of them), `niThreadProc`, `NiSession` in `GnssAdapter`.

The message thread and the NI threads share the two records. A handler is split wherever it takes, lets go of or reads without
`tLock`: the look-up of the session (`LookUpSession`), the critical section that makes an accepted emergency ignore the ordinary
request (`IgnoreOther`), and the one that stores the answer (`SetResponse`). An NI thread waits (`Wake`, `TimeOut`: one critical
section each), resets `reqID` outside the lock (`ClearId`), and queues the answer (`SendResponse`). `pthread_cond_timedwait` may
report a timeout although the answer has just come, so `TimeOut` is always possible; the length of the wait is abstracted. The
user answers a prompt at most once, perhaps long after it timed out; the modem sends each request once.

### 2.3 `Tracking`: sessions over one engine

*Code*: the client table (1142-1202), session commands (1451-1790) and engine restart (1222-1245) of `GnssAdapter`.

Messages of clients wait in `messages`; `mTrackingSessions` maps a session id to its options; `engine` is what the modem runs with.
`startTrackingMultiplex`, `updateTrackingMultiplex` and `stopTrackingMultiplex` decide from the smallest interval of the *other*
sessions whether the engine changes. Options of the wrong size (`options.size == 0`) are answered and change nothing. Of several smallest sessions the code takes the first of a map ordered by client address:
any of them. Removal of a client stops its sessions one turn at a time (`stopClientSession`), with the message thread `Busy`.
With `EngineMayFail` each engine command may fail; a failed start is not saved, a failed stop not erased. `EngineRestarts` turns
the engine off and queues `restartSessions`, whose result the code ignores: ghost `missed`. Ghost `lost`: the sessions whose
stop failed while their client was removed; the code erases the client and nobody can stop them any more.

### 2.4 `OsObserver`: who wants which data item

*Code*: `core/SystemStatusOsObserver.{h,cpp}`, `utils/LocUnorderedSetMap.h`.

Every operation posts a message and returns nothing, and one thread runs each handler from beginning to end. So the threads of
the callers decide only which handlers run in which order, and each action is one handler with any arguments. The maps are total
functions; an absent entry is the empty set (an entry is removed with its last value). `add`, `trimOrRemove`, `newKeys`,
`goneKeys`, `goneVals` are the operators of `LocUnorderedSetMap`. `intersections` is what `removeAndReturnInterset` may return:
it increments an iterator to an element it has erased, which is undefined, so any non-empty part of the intersection may result.
Ghosts: `told` (last value each client heard), `updaters` (clients that called `updateSubscription`).

### 2.5 `LocTimer`: the timer service

*Code*: `utils/LocTimer.cpp`, `LocTimer.h`.

A started `LocTimer` owns a delegate; the delegate number *n* of timer *t* is `<<t, n>>`. Clients act under the timer's lock and
send messages; the message task owns the heap (`mTree`, as a set); the poll thread waits for the timerfd. Every system call on
the timerfd and on the epoll set is a step: `updateSoonestTime` puts the descriptor into the epoll set, `SetTime` arms it,
`Disarm`, `removePoll` and `SendExpire` are the poll thread's. `ProcessExpire` pops the first delegate whatever its time,
`StopClient` is `LocTimerDelegate::expire`, which stops whichever delegate the client has by now, `popIfOutRanks` is the loop.
A `Remove` frees its delegate.

### 2.6 `Odcpi`: coarse positions on demand

*Code*: `reportOdcpiRequest`, `odcpiTimerExpire`, `initOdcpi`, `OdcpiTimer`.

START and STOP of the modem, the timer's expiration, engine restarts and the registration of the callback are messages of one
queue, each handler an action; START has the code's three cases and the one that does nothing (`FirstRequest`,
`EmergencyRequest`, `RequestAgain`). `mActive` is the adapter's belief, `ticking` the timer itself. Ghost `burst` counts requests
to the framework each within ten seconds of the one before: the timer is started with every request, so the ten seconds are over
when it expires.

### 2.7 `LocationClient`: requests and answers of a client

*Code*: `location/LocationAPIClientBase.{h,cpp}` as its subclasses `GnssAPIClient` and `BatchingAPIClient` use it (`role`); the
adapter's side is `GnssAdapter` for tracking and NI, and what `LocationAPI.h` promises for batching, whose library is external.

A call sends a command and queues a request under `mMutex`; the answer comes on the adapter's thread, which takes the request
out under `mMutex` (`getRequestBySession`) and runs its `onResponse` without. So these are three steps (`HandleCommand`,
`getRequestBySession`, `onResponse`), and a call about a session already in the dictionary is three as well
(`askAboutSession`: `hasId`; `getExtById`; `askAdapter`), because `removeSession` may come in between. `getExtById` of an id that is gone enters
it with session 0, as `std::map::operator[]` does. A request in the model also says for which session it was made, which the
object in the code does not know: `AnswersMatch` compares. A stop or update of a tracking session that does not run is not
answered (`handleUnknown`), as in `GnssAdapter.cpp:1714`.

Ghosts: `refused` (the adapter failed to stop the session), `hasty`: a batching call was made while the answer to a start or a
stop had not been dealt with. Batching answers are told apart by their order only, and those of a session that is gone are
dropped while their requests stay in the queue; after a hasty call all but the types and the dictionary may go wrong, and the
other four properties say what holds without one. A tracking client needs no such premise; but NI notifications are counted from 1
on as sessions are (GnssAdapter.cpp:2454, LocAdapterBase.cpp:53), and an id that both have is answered for by the tracking queue. An
answer that names such an id (`Shared`) may reach either request; everything else is claimed in spite of it.

### 2.8 `Geofences`: the framework's geofences

*Code*: `android/GnssGeofencing.cpp`, `GeofenceAPIClient.cpp`, the geofence calls of `LocationAPIClientBase`.

The framework names a geofence, the adapter a session; `mGeofenceBiDict` translates. One queue holds the requests about all of
them. `onCollectiveResponseCb` takes the oldest request under `mMutex`, `onCollectiveResponse` translates the answer without; so
they are two steps, and calls come in between. `GeofenceAnswersMatch` compares the kind of call only; that the answer names the right
geofence is `AnswersNameTheirGeofence`. A removed geofence leaves the dictionary at once, its request takes the entry
along (`removed`). `hasty` is a ghost: the framework called again for a geofence without an answer, or added one twice.

### 2.9 `ClientRegistry`: clients and interfaces

*Code*: `location/LocationAPI.cpp`, the entry points of `gnss/location_gnss.cpp`.

`gData` has three interfaces, loaded when a client first needs one and perhaps missing for good (`installed`), and the callbacks of
each client. `createInstance`, `updateCallbacks`, `destroy`, `startTracking`, `startBatching`, `stop` post messages to adapters
with threads of their own (`queues`, `handle`). A start goes to one adapter, a stop to two, because nobody remembers which has
the session. Session ids come from one counter. An adapter that does not know the session it is to stop keeps silent
(GnssAdapter.cpp:1713), so the stop of a session that was never started is answered by nobody: `StopAnswered` is about the sessions
whose start is owed an answer, `EveryStopAnswered` about all, and the latter fails (section 5).

### 2.10 `Configuration`: from the framework to the engine

*Code*: `Gnss`, `GnssConfiguration`, `GnssAPIClient`, `LocationAPIControlClient`, `LocationControlAPI`, the configuration
commands, the power vote and the SUPL server of `GnssAdapter`.

A setting is pending while there is no API object (`pendingWith`), is skipped if it equals the last one, is written to `mGps_conf`,
and is given to the engine if that is up; when the engine comes back it is given what `mGps_conf` has (`handleEngineUp`). The lock
depends on the power vote, the server on what was set last. `convert` and `revert` are the conversions between the framework's,
`mGps_conf`'s and the engine's values, which are not inverse of each other. The engine is external: it fails what it is given
while it is down. `ServerAgrees` is about the server that the engine took; one that it refused or was too down to take is remembered and never
given again (section 5), and an engine that restarts by itself keeps lock and server by assumption.

### 2.11 `AdapterEvents`: the table of adapters and the event masks

*Code*: `core/LocApiBase.cpp`, `LocAdapterBase`, `GnssAdapter::updateClientsEventMask` and everything that calls it.

Adapters are added and removed on the framework's threads; opening the engine with the union of the masks is a message
(`LocOpenMsg`, `LocSsrMsg`) handled later. `Command` is any message that changes what the `GnssAdapter` needs: clients that come
and go, AGPS and ODCPI callbacks, the configuration, the feature list. Adding and removing are one step each; the loops of other threads
over the table, which is not locked, are not modelled, so `NoDanglingAdapter` is about what the table holds and not about a loop that
is under way. Events that come later with the features are checked for GNSS masks; the NMEA mask is claimed only if the features are
known from the start. EXTERNAL_DR_ENABLED builds, with two more masks, are left out.

### 2.12 `HalClient`: frameworks that die and come back

*Code*: `android/Gnss.cpp`, `GnssMeasurement.cpp`, `GnssAPIClient`, `MeasurementAPIClient`.

Frameworks are numbered; one lives at a time. Calls and obituaries are handled one after another on the one binder thread of
`service.cpp`, so the hazard is the order: an obituary may come after calls of the successor (ghost `overtaken`). The adapter's
thread calls back with the capabilities, which two threads then cache and tell; `requestCapabilities` and `onCapabilitiesCb` are
therefore split at the callback they read. Whether anybody asks for the capabilities is decided once, when the first call makes the
API object: `requests`, from whether it is a GNSS client (`isGnssClient`, LocationAPI.cpp:61), which it is not if `setGnssNiCb` came first
and the extended agent answers NI requests (`extended`). `CapabilitiesTold` has as its premise that they were requested;
`EveryFrameworkTold` has not, and fails (section 5).

### 2.13 `Reports`, `Nmea`: from the engine to the clients

*Code*: `reportPositionEvent`, `reportPosition`, `reportSvEvent`, `reportSv` of `GnssAdapter`; `utils/loc_nmea.cpp`.

A report is posted by the engine's thread or taken by a ULP, which hands it back later. The handler of positions leaves the
satellites used in the fix for the handler of satellites. `Nmea` has the sentences as functions of a report; a mask is a set of
bit numbers, and a sentence is a record of the fields that depend on one another. `selected` is the loop over a mask or over the
satellites that keeps some of them in their order. `int` shifts beyond the width are left open
(satellite numbers above 31). `UsedInFixTruthful` allows the flag also where the engine set it, since the code never clears it, as its
comment says it does: that is `MarkedOnlyIfUsed`, which fails (section 5).

### 2.14 `SystemStatus`: histories

*Code*: `core/SystemStatus.cpp`, the readers in `GnssAdapter`.

`mCache` maps each report to its last `maxItem` entries; an entry is what `equals()` compares (`cmp`) and what it leaves out. Every
operation holds the one mutex. `setIteminReport` moves the time stamp of an equal last entry instead of adding one; `collate` merges
a network event with the last entry first; `setDefaults` is the deletion of aiding data.

### 2.15 `XtraObserver`: the observer and its daemon

*Code*: `gnss/XtraSystemStatusObserver.{h,cpp}`, `utils/LocIpc.cpp`.

The HAL's side is a message thread (`handle`), a listener (`listener`) and a timer; the daemon is external and believes what it
hears. Sockets hold `MaxDatagrams`; `sendto` waits while the receiver's is full; a datagram to an unbound socket is lost. Either
process restarts. `late` is a ghost: the timer's "halinit" came before the listener had bound its socket.

### 2.16 `MsgTask`: the message task

*Code*: `utils/MsgTask.cpp`, `msg_q.c`, `LocThread.cpp`.

Three kinds of threads: the worker, the owner that calls `destroy()`, and senders. A call of `msg_q` is one step but for the wait in
`msg_q_rcv`, which may wake for no reason. The delegate is shared by worker and owner, with a counter.
`EndsCleanly` leaves out two things the code does (section 5): a joinable thread stopped before it begins leaves task and queue
undeleted, and `destroy()` writes `mThread` to a task that may have been deleted, a write the model does not have.

### 2.17 Data structures and their abstract specifications

* `LocHeap` has the binary tree of `utils/LocHeap.cpp`, node by node, and implements `PriorityQueue`: a set from which `pop` takes an
  element that no other outranks and `remove` the one it is given. A node is known by its place, the sequence of sides to take from the
  top: `mTree` is a function from places, and the recursion of an operation is along the prefixes of the place at which it ends
  (`newPlace` for `push`, the leaf `popped` for `pop` and `remove`). The refinement maps the tree to the set of its data; `lastCall` is
  the operation with argument and result, so that results are refined too.
* `LinkedList` has the memory of `utils/linked_list.c`, with heads, tails and pointers in both directions, and implements
  `FifoList`. The mapping walks the list from the tail, and a search from the head; a walk is a function of the number of steps, so
  that it can be proved about.

`LocTimer` and `MsgTask` use what these two promise: a set whose soonest element is taken, and a sequence.

### 2.18 Composites

`MCServices` (AGPS manager, tracking sessions, timers), `MCModem` (AGPS manager with DS, NI requests), `MCPlatform` (observer,
heap, linked list), `MCAdapter` (ODCPI, reports, message task, system status, XTRA observer) and `MCClients` (client base,
geofences, registry, configuration, event masks, framework) check several modules in one run. No part reads a variable of another;
each has variables of its own. The parts of `MCServices` and `MCModem` are extended, so their modules have names of their own for
what every module has (`TrackingNext`, `niVars`, `TimerTypeOK`); the others are instances. `Init` chooses the part that runs and the
others stay as they were made. So the reachable states are those of each part by itself, and a property of a part, stated under the
premise that the part runs, is checked on all of them; a property without the premise is also checked where its part stays as it
was made. Where parts do interact, the module of one has what it needs of the other as an action or as an assumption that is named
there (for example the adapter's answers in `LocationClient`).

## 3. The runs

All runs are exhaustive. Numbers are distinct states.

| run | question | instance | states |
|---|---|---|---|
| `services` | `MCServices`. AGPS: does what the modem was told fit the machines (`ModemAgrees`, `MachinesConsistent`), is no handle dropped (`NoForgottenHandle`), and does the manager implement `AtlService` with its liveness (`ImplementsFairService`)? Tracking: does the engine run iff there is a session, at the smallest interval (`EngineAtSmallest`), does no session outlive its client (`NoOrphanSession`), and does the engine stop with the last one (`EngineStopsAtLast`)? Timers: is none forgotten (`NoTimerForgotten`), does the timerfd follow the heap (`SoonestIsArmed`), are delegates freed once (`FreedOnce`), and does every timer end (`EveryTimerEnds`)? | 2 handles, SUPL and WWAN_ANY, late, lost and crossing framework events, queue of 2; 2 clients, 2 sessions, 2 intervals, failing commands, 1 restart; 2 timers, each started twice, clock to 2 | 1 237 665 |
| `modem` | `MCModem`. DS: is the emergency call down, with no late report on its way, whenever the DS machine is RELEASED (`NoLeakedDataCall`)? NI: exactly one waiter per pending request (`OneWaiter`), each payload owned once (`PayloadOwnedOnce`), emergencies never dropped (`EsNeverDropped`), answers never cross sessions (`AnswersStayInSession`) | 2 handles, every result of the data call start; 2 ordinary and 1 emergency request, the client may leave | 1 788 898 |
| `agps_leak` | *finding*: `NoLeakedConnection` is violated | SUPL only | |
| `ni_stale` | *finding*: `AnswerIsForRequest` is violated | 2 ordinary requests | |
| `observer_update` | *finding*: `EveryoneUpToDate` is violated | 3 items | |
| `timer_early` | *finding*: `NeverEarly` is violated | the timers of `services` | |
| `platform` | `MCPlatform`: do framework and clients follow the observer, is the heap a priority queue, and the list under the message queues a FIFO? | see 3.2 | 39 309 |
| `adapter` | `MCAdapter`: are coarse positions repeated and not in floods, reports handled once and truthful, sentences consistent; does the message task end cleanly; do histories tell the truth; does the XTRA daemon learn the latest? | see 3.2 | 219 646 |
| `clients` | `MCClients`: do answers reach their requests, do both sides agree on sessions and geofences, is nobody left behind in an adapter, is the configuration in force, are adapters and frameworks served? | see 3.2 | 1 938 671 |
| `reports_used` | *finding*: `MarkedOnlyIfUsed` is violated | that of `adapter` | |
| `stop_unanswered` | *finding*: `EveryStopAnswered` is violated | `ClientRegistry` by itself: 1 client, which registers NI notifications only | |
| `capabilities_untold` | *finding*: `EveryFrameworkTold` is violated | `HalClient` by itself: 2 frameworks | |

### 3.1 Properties with parts

A property of the composites often is a conjunction of named parts, each with its own comment in its module.

| property | parts |
|---|---|
| `SessionsAgree` (`LocationClient`) | no session runs that the client does not know, none is known that does not run, the dictionary's maps are inverse, no request is left over |
| `GeofencesNamed` | `GeofenceAnswersMatch`, `AnswersNameTheirGeofence`, `GeofenceReachable`, `BreachKnown` |
| `RequestsAnswered` | `AnsweredOnce`, `StartAnswered`, `StopAnswered`, `ToldCapabilitiesOnce` |
| `NothingLeftBehind` | `NoStoppedSession`, `NoGhostClient` |
| `EngineConfigured` | `EngineAgrees`, `LockFollowsVote`, `ServerAgrees` |
| `ConfigurationInForce` | `ConfigNotLost`, `VoteAgrees`, `CapabilitiesCurrent` |
| `AdaptersServed` | `NoDanglingAdapter`, `EngineFollowsAdapters`, `GnssMaskFollowsNeeds` |
| `FrameworkServed` | `CapabilitiesTold`, `NothingForTheDead`, `WishesGranted` |
| `ReportsTruthful` | `UsedInFixTruthful`, `HandledOnce`, `OnlyGoodFixes` |
| `SentencesAgree` | `GsvListsAll`, `GgaCountsGsa`, `TalkerSaysCombined` |
| `EndsCleanly` | `AcceptedOnce`, `DelegateFreedLast`, `QueueUsedAlive` |
| `StatusTruthful` | `LatestIsLastTold`, `RecordsChanges`, `NetworksFollow`, `DeletedDataGone`, `GainMatchesClock` |
| `ImplementsQueue`, `ImplementsFifo` | the refinement of the abstract specification, and the well-formedness of tree and list |

### 3.2 Bounds, and why they are enough

* *Agps*. `Handles`: two are needed for sharing (one leaves, the other stays) and no rule compares three. `MaxQueue`,
  `MaxBacklog` limit what the modem may add while messages or framework commands are outstanding; the answers of the framework
  are not limited. Two allow a complete request-release-request behind an unanswered one. `MaxRetries = 1` (4 in the code): the
  code distinguishes only *below* and *at* the maximum. `MaxTimers = 1`: timers armed at once.
* *NiSession*. Two ordinary requests follow each other in one record, with the thread of the first still leaving; the emergency
  request runs in the other record. Each request is sent once, which bounds everything else.
* *Tracking*. Two sessions, of one client or of two: one that is changed and one that remains; two intervals give *smaller*,
  *equal* and *larger*. `MaxMessages` is what clients may add: a command of a client can wait behind its removal, and the engine's
  restart comes in addition. For more sessions the three safety properties are theorems.
* *OsObserver*. No bound but the sets: every state of the observer is finite. Two clients share an item; two values make news
  that is missed and caught up.
* *LocTimer*. Two timers compete for the timerfd; two starts are what a stale expiration needs; the clock goes to 2 with delays
  of 1 and 2, so that timers expire together, in order, and while another is started.
* The bounds of the composites' parts are constants of the MC modules where theorems are about them, and otherwise are written in the
  `INSTANCE`.
* *LocationClient*. Three sessions: the answers to the first may meet the second, and the third shows what is left of both.
  Three requests: start, stop and one in between, or behind. One id, the only one `BatchingAPIClient` uses. `NiIds` holds a number
  that is also a session's and one that is not: both are counted from small numbers.
* *Odcpi*. A queue of three holds an expiration with a START and a STOP around it; `MaxBurst` is the ceiling of the ghost.
* *LocHeap*. Five elements with ranks 1, 1, 2, 2, 3: trees of three levels with a missing child, removal from the middle, equal
  ranks on both sides. *LinkedList*: four elements of two values, so that a search has several to find and there is one in the
  middle to remove.
* *SystemStatus*. Histories of two entries, so that the front is dropped after three events; five events; a sentence of each kind of
  record the readers combine; networks 0, 1 and 9.
* *Reports*. Three reports: a position, one that replaces it and the satellites, in every order, possibly through the ULP. Six
  satellites need two GSV sentences; the positions use one or two constellations, or none.
* *MsgTask*. Three messages: one handled, one received, one in the queue when the task ends.
* *XtraObserver*. One item that answers contain and one that they do not, two updates, two restarts (of either process or both),
  sockets of two datagrams.
* *Geofences*. Two ids, two sessions, two commands under way: an answer for one geofence while the other changes.
* *ClientRegistry*. Two clients, two sessions, one update of callbacks, every set of installed libraries; three messages, which a
  destruction with its two removals beside a start needs.
* *Configuration*. Six settings, one of each way to convert and to pass on; two messages under way; three sessions, which is three
  rounds of the control client.
* *AdapterEvents*. Two adapters beside the `GnssAdapter` fit into the table, three may come, so that it is full and an entry in the
  middle is removed (`MAX_ADAPTERS` is 10 in the code).
* *HalClient*. A framework and its successor, three sessions, two messages under way when the framework calls. Three frameworks and
  four sessions (647 418 states) gave nothing new.

Symmetry is used where no liveness is checked: handles, requests of one kind, clients and values of the observer, timers; of the
composites `platform` has it, over the observer's sets (its refinement is a safety property of other variables), and `modem`, over
handles and requests.
`CHECK_DEADLOCK FALSE` stands where the system may stop: all NI requests answered, the clock of the timers at its end, DS
results that leave nothing to do, and in the composites parts that come to their bounds. (`services` has it because of its timers;
the AGPS manager and the tracking sessions never stop.)

### 3.3 Fairness, and why the code justifies it

* `Agps!Fairness`: the message thread takes messages as long as there are any; an armed timer expires; the framework takes up
  commands and answers, the DS client reports. The modem and the network owe nothing. The last two are assumptions about the
  other side: without them nobody could promise an answer.
* `Tracking!FairTracking`: the message thread only. Clients and the engine owe nothing.
* `LocTimer!FairTimer`: the clock goes on, the message task and the poll thread are scheduled. Clients owe nothing.
* `MCServices!ServicesFairness`: the three above, each for the part that runs.
* `MCAdapter!AdapterFairness`: for the part that runs, the message thread and the timer thread of ODCPI; worker and owner of the
  message task; listener, message thread and timer of the XTRA observer, and the daemon while it has something to do. Nobody has to
  send, to destroy or to restart.

All are weak fairness of a whole thread, never of single messages.

## 4. The proofs

The eight `*Proofs` modules hold theorems of the specifications for every value of the constants, checked by TLAPS: any number of
handles, requests, sessions, clients, timers, items and messages, and queues of any length. They assume the named `ASSUME`s of
the modules (types, non-emptiness, and that the value for "nothing" is none of the others), which the runs evaluate, and where the
table says so one hypothesis about the constants.

| theorem | states | inductive invariant |
|---|---|---|
| `AgpsProofs!TypeCorrect`, `MachinesStayConsistent` | `TypeOK`, `MachinesConsistent` | `TypeOK /\ MachinesConsistent` |
| `AgpsProofs!DataCallNeverLeaks` | `NoLeakedDataCall` | the former, `DataCallReports /\ DsAllWait` |
| `AgpsProofs!ModemIsToldTheState` | `DsIsNotAsked`: `ModemAgrees` | `TypeOK /\ MachinesConsistent /\ HandleInv` |
| `AgpsProofs!ImplementsService` | `DsIsNotAsked`: every step is a step of `AtlService` or a stutter | the same |
| `AgpsProofs!NoHandleIsForgotten` | `NoEmergency`: `NoForgottenHandle` | the same, `NoWaiter` |
| `NiSessionProofs!TypeCorrect` | `NiTypeOK` | `NiTypeOK` |
| `NiSessionProofs!OneThreadPerRequest` | `ThreadMayFail = FALSE`: `OneWaiter` | `NiTypeOK /\ OneWaiter` |
| `NiSessionProofs!RequestOwnedOnce`, `EsRequestKept`, `AnswersNeverCross` | `PayloadOwnedOnce`, `EsNeverDropped`, `AnswersStayInSession` | who owns each payload, and what the threads hold of it |
| `TrackingProofs!TypeCorrect` | `TrackingTypeOK` | `TrackingTypeOK` |
| `TrackingProofs!EngineStaysAtSmallest` | `EngineAtSmallest`, with failures and restarts | `TrackingTypeOK /\ FreshStarts /\ OffWithoutSessions /\ EngineAtSmallest` |
| `TrackingProofs!NoSessionIsOrphan` | `NoOrphanSession` | `TrackingTypeOK /\ NoOrphanSession /\ AllBeingStopped` |
| `PlatformProofs!TypeCorrect`, `MapsStayInverse` | `TypeOK`, `MapsInverse` | `TypeOK /\ MapsInverse` |
| `PlatformProofs!ClientsStayUpToDate` | `UpToDate` | the former, `ToldWasCached` |
| `PlatformProofs!FrameworkAlwaysFollows` | `FrameworkFollows` | `TypeOK /\ FrameworkFollows` |
| `PlatformProofs!HeapIsPriorityQueue` | `ImplementsQueue`: every step of the heap is a step of `PriorityQueue`, and `TreeConsistent` holds | `Tree(mTree)`: `Typed /\ Bounded /\ Reached /\ Distinct /\ Ordered /\ Sized` |
| `PlatformProofs!ListIsFifo` | `ImplementsFifo`: every step of the list is a step of `FifoList`, and its pointers agree | `ListInv`: the addresses in use form one sequence that both pointers follow |
| `LocTimerProofs!TypeCorrect` | `TimerTypeOK` | `TimerTypeOK` |
| `LocTimerProofs!NoTimerIsForgotten` | `NoTimerForgotten` | `TimerTypeOK /\ OwnTimers /\ KnownDelegates /\ RemovedHaveNoClient /\ NoTimerForgotten` |
| `LocTimerProofs!SoonestStaysArmed` | `SoonestIsArmed` | the former, and `ArmedInv` |
| `LocTimerProofs!DeletedOnce` | `FreedOnce` | `DelegatesInv /\ PushFirst /\ FreedBorn /\ FreedOnce` |
| `AdapterProofs!ActiveStaysTimed`, `EmergencyAlwaysAsked`, `NeverSpams` | `ActiveIsTimed`, `EmergencyAsked`, `NoSpam` | `TypeOK /\ ActiveIsTimed /\ EmergencyAsked /\ CalmInv` |
| `AdapterProofs!ReportsStayTruthful` | `ReportsTruthful` of the reports | `Accounted /\ UsedRemembered /\ OnlyGoodFixes /\ UsedInFixTruthful` |
| `AdapterProofs!TaskEndsCleanly` | `EndsCleanly` of the message task | `Threads /\ Messages` |
| `AdapterProofs!XtraIsTruthful` | `XtraAgrees` of the XTRA observer | `DownIsDeaf /\ AskedBefore /\ Stored /\ Spoken` |
| `AdapterProofs!StatusStaysTruthful` | `StatusTruthful` of the system status | `StatusInv`: `History` and `EndsWith` of each report, `Networked`, `Together` |
| `AdapterProofs!SentencesAlwaysAgree` | `SentencesAgree` of the reports | `NmeaInv` |
| `ClientsProofs!AnswersFindTheirRequest`, `ClientFollowsAdapter` | `AnswersMatch`, `SessionsAgree` | `DictionaryKept /\ CallKept /\ GnssInv /\ BatchInv` |
| `FrameworkProofs!AdaptersStayServed` | `AdaptersServed` | `EventInv`: `EngineFollows`, `ConfiguredFirst` and what they need |
| `FrameworkProofs!FrameworkIsServed` | `FrameworkServed` | `HalInv`: `SessionsApart /\ Arrives /\ CapabilitiesCome /\ Links /\ Granted` |
| `ClientsProofs!GeofencesStayNamed` | `GeofencesNamed` | `FenceInv`: `RequestsFit /\ FenceDictAgrees /\ FencesKnown` |
| `FrameworkProofs!RequestsStayAnswered`, `NothingStaysBehind` | `RequestsAnswered`, `NothingLeftBehind` | `RegInv`: `InOrder` of each queue, `Membership /\ Departure`, `CapsOnce /\ CapsCome`, `IdsGiven /\ StopsArrive /\ StartedOnce /\ AnswersCounted`, and `StopInv`: `TrackersKnown /\ OwedOfClients /\ Settled` |
| `FrameworkProofs!EngineStaysConfigured`, `ConfigurationStaysInForce` | `EngineConfigured`, `ConfigurationInForce` | `ControlInv`: `ReadFirst /\ EngineHas /\ LockHeld /\ ServerHeld /\ CapsHeld`, `VotesInTurn` with `VoteOpen` or `VotesClosed`, `Arrive` |

The three hypotheses, and what happens without them:

* `DsIsNotAsked` (no type of request is routed to the DS machine): the modem asks for no emergency connection, or emergency SUPL uses
  the regular PDN (`USE_EMERGENCY_PDN_FOR_EMERGENCY_SUPL = 0`; the default is 1, ContextBase.cpp:113, and the framework sets it,
  GnssConfiguration.cpp:206). Otherwise a closed subscriber may be opened again, and the fallback puts a handle in two machines
  (section 5). `DataCallNeverLeaks`, which is about DS, holds for every configuration.
* `NoEmergency` (the modem makes no request of type `SUPL_ES`): with one, a handle may be forgotten (section 5).
* `ThreadMayFail = FALSE`: without a thread nobody waits (section 5). The three other theorems about requests do not need it.

### 4.1 The arguments

* *Agps*. For `NoLeakedDataCall`: a report of the data call on its way tells which state the call is in (`DataCallReports`), and in
  RELEASED all subscribers of DS wait for the retry (`DsAllWait`), so nothing that is still open is lost sight of. For the agreement with
  the modem, `HandleInv` has for each handle what the modem believes, what is queued for it, and which machine has a subscriber for
  it, in the few combinations that can occur: a release that is queued comes after its request, and a subscriber is inactive iff
  its release was handled and its answer was not. The refinement of `AtlService` follows from the same combinations: a granted
  or a released event may tell several handles at once, and each of them is in the state where the service allows it.
* *NiSession*. `OneWaiter` ties each record to one thread; ownership adds that a thread which has left the wait holds the payload
  until it has been queued and that no record shows it any more. That needs no thread to exist, so the theorems hold if
  `pthread_create` fails.
* *Tracking*. `EngineAtSmallest` alone is not inductive. A start message in the queue must carry an id that no session has
  (`FreshStarts`), or saving it would replace a session whose interval the engine relies on. When the last session ends while a
  restart is pending or missed, the engine must be off by itself (`OffWithoutSessions`), or the excuse would end with the engine
  running for nobody.
  For `NoOrphanSession`, while the message thread is `Busy` with a removal, all sessions left of that client are among those to
  be stopped (`AllBeingStopped`).
* *OsObserver*. A client that comes back to an item hears the cached value only if there is one; `ToldWasCached` says that a
  client that was told something was told it by the cache, so an empty cache means nothing to catch up.
* *LocHeap*. An operation follows one path. What it does to a tree is stated of any two trees: data sinks along the way to a new place
  (`Pushed`), or rises along the way down to a leaf (`Taken`). On the way of a push, of the data that comes and the data that is there one
  stays and the other sinks on (`SinkingStep`), so nothing is lost, nothing is there twice, and what stays outranks what is below. A
  removal takes the data of each place below the one that is emptied from one place further down (`Sources`), always from the side that
  is not outranked. The search for data in the middle may stop above what it outranks, since ranks do not rise along a way (`RanksFall`).
  `Tree` needs two parts that `TreeConsistent` does not have: no two nodes hold the same data (`Distinct`), or a removal would leave a
  copy behind, and every place is reached from the top, not deeper than some depth (`Reached`, `Bounded`), so that a path ends.
* *LocTimer*. A running delegate could vanish if another timer's stop removed it (`OwnTimers`: `mTimer[t]` is a delegate of
  *t*), if a delegate not yet born were in the queue (`KnownDelegates`), or if a `Remove` was queued for a delegate still
  running (`RemovedHaveNoClient`). For the timerfd the invariant follows each stage of the poll thread and of the message task
  (`ArmedInv`): in between, the descriptor is out of the epoll set or disarmed, and an `Expire` or a `SetTime` is on its way.
  For `FreedOnce`, the `Push` of a delegate is before its `Remove` in the queue (`PushFirst`), so one that is freed is in neither.
* *Odcpi*. `CalmInv` relates the burst to the timer: as long as no emergency has replaced a request, a burst of one means the
  timer is running, and a queued expiration means the burst is over.
* *Reports*. Each report is in one place: with the ULP, in the queue, told or dropped (`Accounted`). The mask of used satellites that the
  adapter keeps is that of the newest position that no satellite report has followed yet (`UsedRemembered`).
* *MsgTask*. `mRefCount` is the number of those, worker and owner, that still hold the delegate (`Threads`); what was accepted is what
  was handled, the one in hand and the queue, in this order, and the rest is freed with the queue (`Messages`).
* *LinkedList*. There is a sequence of addresses, none twice, that is all the memory in use; `p_tail` is its first, `p_head` its last,
  and *prev* and *next* lead along it in both directions (`ListInv`). So a walk from either end finds that sequence, the data along it
  are the FIFO's items, and each operation changes the sequence as the FIFO changes its own. Walks are recursive functions: that a walk is
  what it should be follows from the uniqueness of such a function, which is shown with a least place where two would differ (no
  induction over data is needed for it, and none is available).
* *SystemStatus*. In a history neighbours differ, or the aiding data were deleted between them; it ends with what the report was told
  last, and its epochs do not exceed the present one (`History`, `EndsWith`). The networks recorded last are those that are up, as long as
  the first event was not a disconnection (`Networked`). Gain and clock are recorded by the same sentences, so both have none or both end
  with the same clock (`Together`): neither is shown without the other.
* *Nmea*. The sentences there are were made of the report handled last (`NmeaInv`); the rest is about the functions that make them. What
  is selected from a report and what many sentences list together are recursive functions again, shown to be what they should be by
  uniqueness. GSV: cutting the satellites of a constellation into fours and joining them gives them back (`ChunksFlatten`), and the
  sentences of other constellations have other talkers. GGA: each GSA sentence that is added adds to the count what it lists
  (`GsaJoined`), over the five constellations in their order.
* *XtraObserver*. The last update on its way to the observer, or else what it has stored, is the latest (`Stored`); once the daemon has
  an answer or one is on its way, the last datagram about an item, or else what the daemon believes, is what the observer has stored
  (`Spoken`). That needs two facts about restarts: a daemon that is down hears nothing (`DownIsDeaf`), and an observer that has not
  been asked yet has answered nobody (`AskedBefore`).
* *LocationClient*. A tracking client may send start, stop, start while no answer has come. Its queue of requests is matched with the
  commands and answers that carry the same session, in their order (`Matches`); a start comes before everything else of its session
  (`StartsFirst`), and what follows a stop can only be answered with an error (`StopsFollow`). An answer that names an id shared with an NI
  notification is the only one that may reach another request (`FoundUnlessShared`). For batching, as long as no call was
  hasty, the whole queue is in the order of commands (`InOrder`), the last thing asked of a session is its start or its stop
  (`EndsLast`), and a session in the dictionary is not one that is gone (`NotPhantom`).
* *AdapterEvents*. The engine is down, or about to be opened again, or open with the union of the adapters' masks (`EngineFollows`). If
  the features are known from the start, the NMEA mask is set before a client comes (`ConfiguredFirst`). The theorem covers tables of
  any size and both values of `LateFeatures`; the run has one size, and features that come late.
* *HalClient*. The last message under way about each session and about the vote says what will be in force (`Arrives`), and that is what
  the client base and the API object hold. Who is served is among those whose death is listened to (`Links`), so an obituary that was
  handled leaves nothing behind; `CapabilitiesCome` ties a callback that was set to the answer on its way, if
  the capabilities were requested.
* *Geofences*. The queue of requests has the length of the queue of commands and fits it place by place (`RequestsFit`), so a collective
  answer takes the right one. An id in the dictionary and its session name each other with the breach types asked for last, and a session
  whose removal is under way has no entry (`FenceDictAgrees`). As long as no call was hasty, every call under way and every geofence that is
  monitored and not about to leave has an entry (`FencesKnown`).
* *ClientRegistry*. Three things travel in the queues. Clients: an interface that the callbacks need knows the client or is about to
  (`Membership`), and after the destructor it is about to forget it (`Departure`). Questions: in its queue the client comes before the
  capabilities that are asked for it and before a start that is owed an answer, its removal is last, and the stop of a stopped session is
  behind its start (`InOrder`). Sessions: an id is started in one adapter only, which is one of those a stop goes to, since an interface
  that is loaded stays loaded (`StopsArrive`, `StartedOnce`); so it is answered at most once by a start and once by a stop
  (`AnswersCounted`). That the stop is answered at all needs more (`StopInv`): the adapter that is to start the session still knows a client
  with a tracking callback when it does, the start succeeds, and the session stays there until the stop behind it in the same queue
  comes (`TrackersKnown`, `OwedOfClients`, `Settled`). The invariant holds for any set of callbacks, although the run has two.
* *Configuration*. An engine that is up has what `mGps_conf` says, or a `setConfig` is on its way to it (`EngineHas`); as long
  as `gps.conf` is not read, reading it is the first message and a `setConfig` follows (`ReadFirst`). The votes for the power that are in force or under way have
  ids of their own, and each is withdrawn once before the next is cast; only the last one may still be held, and then it is the
  session the control client knows (`VotesInTurn`, with `VoteOpen` or `VotesClosed`), so the lock ends as the last vote wants it. The
  last update under way about an item carries what the framework asked for last, or none is under way and `mGps_conf` has it
  (`Arrive`). Nothing is assumed about `gps.conf` beyond being a table of items; of the settings, that they are values LocationAPI.h
  has (`SettingsAssumption`), since only those come back from the conversion to `mGps_conf` unchanged (`ConvertBack`).

Two definitions of `Agps` (`Expected` and `ownerOf`) were `CASE`s with guards that overlap. TLC takes the first that holds, TLA+
promises nothing, and the proof of `ModemAgrees` failed at that place; they now are `IF`s in the order meant.

### 4.2 Only model-checked

* Liveness (`ImplementsFairService`, `EngineStopsAtLast`, `EveryTimerEnds`, `Repeated`, `DestroyReturns`, `DaemonIsAnswered`) and `ENABLED`
  are out of the prover's reach.
* The agreement of the modem with the machines outside `DsIsNotAsked`, and `OneWaiter` if threads fail (it is then false).
* All other properties of the runs are theorems, those of `Agps` and `NiSession` under the hypotheses above.

## 5. Where the code departs from what it says

Each of the seven has a run whose counterexample is a behaviour of the code.

1. `agps_leak`: request, release, request. The late failure of the first request is taken for the second one's; the connection
   the second one then opens is ignored in RELEASED and stays open for nobody (Agps.cpp:140 promises its release).
2. `ni_stale`: the user's answer loses the race with the timeout between the look-up and the lock; the flag stays set and the
   next request of that session is answered with it (GnssAdapter.cpp:2379 promises the reset).
3. `observer_update`: `LocUnorderedSetMap::update` returns the values that are *kept* instead of those removed, so a client that
   updates its subscription is unsubscribed from what it keeps, and not from what it gives up.
4. `timer_early`: the first `pop()` of `MsgTimerExpire::proc` compares nothing, so an expiration that was sent for a timer
   stopped meanwhile calls back the soonest timer left, before its time.
5. `reports_used`: GnssAdapter.cpp:2228 says the flag USED_IN_FIX is set for the satellites that the previous fix used, "else clear the
   USED_IN_FIX flag". The code never clears it: a satellite that the engine flags as used keeps the flag.
6. `stop_unanswered`: LocationAPI.h:664 says the response callback is called for every tracking call, and 801 gives `stopTracking` of an
   unknown id the answer ID_UNKNOWN. A client that registers no `trackingCb` starts and is answered with an error; its stop is answered
   by nobody, since the adapter keeps silent about sessions it does not know, deliberately (GnssAdapter.cpp:1713).
7. `capabilities_untold`: GnssAPIClient.cpp:279 relies on the capabilities being sent when LocationAPI is first initialized. If
   `setGnssNiCb` is the framework's first call and the extended agent answers NI requests (115), the object is made for no GNSS client
   (LocationAPI.cpp:61), nothing is requested, and the framework that sets its callback next hears nothing until the capabilities
   change.

Further observations. No run of their own is given to them: but for the one about `MsgTask.h` no sentence of the repository denies
them. The models behave in the same way unless section 6 says otherwise, and where a property would fail its comment names the premise.

*AGPS, NI, tracking, ODCPI*

* `NoForgottenHandle` fails once emergency and ordinary SUPL share the AGNSS machine (`EmergencyPdn = FALSE`): the denial of the
  connection while one handle's release is under way deletes both subscribers, and no close status is sent.
* A DS subscriber that releases in RELEASED, between two retries, is told closed and stays in the list; the retry asks for it
  again. On the way from RELEASING to PENDING the result of the data call start is ignored, so DS waits for a call nobody starts.
* The fallback from DS queues a SUPL request for a handle that stays in the list of DS (Agps.cpp:672), so it is in two machines. This is
  the way of the default configuration; nothing is claimed about it but `NoLeakedDataCall`. The handle that `loc_timer_start` returns
  is taken for an error (629), so the request counts as refused although the retry comes.
* The status callback of `AGnss.cpp` drops the INTERNET type, so such a request is never answered where that callback is
  registered (`FrameworkNifs = {"AGNSS"}`).
* An NI thread that leaves late resets the id of the *next* request, whose answer is then unknown. An ordinary answer that comes
  between the acceptance of the emergency and the wake-up of the ordinary thread overwrites IGNORE. A failed `pthread_create` leaves
  the request pending for ever, and every later one is refused.
* Among sessions of equal interval and different modes the engine may keep the mode of one that has stopped.
* An ordinary ODCPI request downgrades an emergency that is pending, and an expiration that was queued before an emergency replaced
  the request lets the framework be asked again at once (hence the premise of `NoSpam`).

*Clients*

* `AnswersMatch` without its premise: stop and start again at once, and a request whose answer was dropped is taken for the next
  session's; the dictionary then holds a session that does not run, and starts are refused as ALREADY_STARTED, or loses one that
  runs. An NI notification and a session may have the same id: the answer to the NI response then takes a request out of the tracking
  queue, which is searched first, and the answer to that request finds none. A call about a session whose start has just failed may
  enter its id with session 0, for good.
* `locAPIStartTracking` sets `mTracking` when it sends the command; after an error answer later starts do nothing until a stop.
* `Geofences`: a failed removal leaves a geofence that is monitored and cannot be named; an answer about a geofence removed meanwhile
  names id 0; adding an id twice orphans the first session; the framework's death removes nothing. `locAPIRemoveAllGeofences`
  passes session ids where client ids are expected (LocationAPIClientBase.cpp:762), and the modification of unknown geofences shifts
  the options (675); nobody calls either.
* `ClientRegistry`: callbacks that no longer need an interface leave the client in its adapter when it is destroyed; a client made at
  the same address inherits its sessions. A start that is routed to an interface that only another client needs is never answered.
* `HalClient`: a framework that calls before its predecessor's obituary was handled inherits the running session, and is refused
  measurements. `onCapabilitiesCb` on the binder thread writes back the mask it was called with and may overwrite a newer one.
  `GnssBatching::init` deletes its client while the adapter's thread may be in a callback of it (LocationAPIClientBase.cpp:858).

*Configuration*

* The lock is not told to the XTRA observer when it is configured while nobody votes for power (GnssAdapter.cpp:762). A server set
  while the engine is down is remembered (613) and therefore not given again, and after a restart the engine has the one of gps.conf
  although the framework set another.
* The host of a pending SUPL server is copied only over an earlier host: the first one is lost, the port is kept (Gnss.cpp:164).
* A configuration equal to the last is skipped even if that one failed (LocationAPIClientBase.cpp:145), and the comparison reads
  `mConfig` before the lock is taken.

*Reports, status, XTRA, threads*

* Satellite numbers above 31 shift beyond an `int`. The masks of QZSS and BeiDou are swapped where GSA is made (loc_nmea.cpp:508).
* `SystemStatus`: the first network event is not merged, so a network that goes down first counts as up; BT and BTLE scan details are
  recorded in each other's place; short PQWPn sentences return records whose fields were never set; equality of locations ignores
  accuracy and time.
* `XtraObserver`: `xtrathrottle` is not part of the answer to a request; "halinit" before the listener has bound its socket loses the
  request it causes; `sendto` blocks the message thread while the daemon's socket is full; stopping the listener before it has bound
  loses the message that ends it, and both threads may close the descriptor.
* `MsgTask`: a thread that is stopped before it begins leaves the task undeleted (MsgTask.h says the object is deleted once
  its thread is); `destroy()` writes to its own object after the worker
  may have deleted it (MsgTask.cpp:69). `EndsCleanly` speaks of neither.
* `SystemStatusOsObserver::turnOn` posts `HandleTurnOnMsg` with the observer itself, so the framework's object is never reached.
* `LocTimerDelegate::expire` reads its client without the client's lock and stops whichever delegate the client has by then.
* `niThreadProc` has a comment about a restart of the engine that does not happen.

## 6. What is not modelled

* Inside modelled parts: a retry timer of DS that fails to start (Agps.cpp:629), the write of `destroy()` to `mThread` (MsgTask.cpp:69),
  loops over the unlocked table of adapters while it changes (LocApiBase.cpp:173), masks of EXTERNAL_DR_ENABLED builds, APN and bearer data, message texts and encodings, the length of NI waits (any wait may time out), the
  swap of the ULP proxy, the commands of a ULP, `handleModemSSR`, `turnOn` / `turnOff` of the observer, modification and removal of all
  geofences (none of these has a caller in the repository), the observer's backhaul requests (another build), creation of timer
  containers, destruction of a `LocTimer` while it expires and of a client while an answer comes, `injectOdcpi` (changes no state),
  fragments of long datagrams, `GnssBatching` itself.
* The parsers of debug sentences and of configuration files, printing of NMEA, logging, detection of the board: text without state
  that outlives a call, for which unit tests are the better tool.
* The reports of `LocApiBase` to every adapter, which go over the table that `AdapterEvents` keeps.
* Fingerprint HAL: one call of the vendor's library per operation, with a callback that is set once. (Read: `setNotify` and the others
  use `mDevice` although opening it may have failed, BiometricsFingerprint.cpp:159.)
* Doze settings app: Java, one thread. (Read: sensors are unregistered by the settings of the moment, so a setting switched off while
  the display is off leaves a sensor registered, DozeService.java:69.)
* Declarations, board configuration, and the vendor's LocApi, libflp, libgeofence and data item factory, which are not in the
  repository.

## 7. The plan

The models are complete as far as sections 1 and 6 say. Every safety property of the runs is a theorem. What is left:

* Liveness stays with TLC.
* The theorems that have a hypothesis (section 4) say what the code does while it holds; outside, the runs show what happens (section 5).
