# ORB in TLA+

ORB is an HbbTV runtime for television sets: it receives the Application
Information Table (AIT) a broadcast service carries, decides which interactive
application runs, tells a browser what to load, and offers companion devices
network services (App2App, CSS media synchronisation, JSON-RPC). This directory
holds TLA+ models of its core logic, translated from the C++ sources, the TLC
configurations that check them and the TLAPS proofs about them.

`PROJECT.json` is the machine-readable index: components, runs, the map from
definitions to source lines, findings, hazards, theorems.

## 1. Inventory

Paths are relative to the repository root.

| Component | State it keeps | Operations | Talks to |
|---|---|---|---|
| **ApplicationManager** (`components/application_manager/application_manager.cpp`) | running applications by id, the HbbTV slot and the OpApp slot, selected and previous service, the table in use, its PID, "first AIT received", network flag, AIT timer | CreateApplication, DestroyApplication, Show/Hide, key sets, ProcessAitSection, ProcessXmlAit, RunTeletextApplication, OnBroadcastStopped, OnChannelChanged, OnNetworkAvailabilityChanged, OnLoadApplicationFailed, OnApplicationPageChanged, the timeout | called by the platform, the browser and the applications, on their threads, under one recursive mutex; calls the browser and the broadcast stack back through `ApplicationSessionCallback` |
| **HbbTVApp / OpApp** (`hbbtv_app.cpp`, `opapp.cpp`) | descriptor, protocol, entry/base/loaded URL, broadcast relation, state, key set, activation | constructors, Update, TransitionToBroadcastRelated/Independent, SetState, SetKeySetMask, InKeySet | owned by ApplicationManager |
| **Ait** (`ait.cpp`) | the table being collected, the sections received, the table in use | ProcessSection, ApplyAitTable, Clear; queries AutoStartApp, FindApp, TeletextApp, transports | owned by ApplicationManager |
| **XML AIT parser** (`xml_parser.cpp`) | none | ParseAit | ApplicationManager |
| **Utils::Timeout** (`utils.cpp`) | a thread, a condition variable, `m_stopped` | start, stop, elapsed, remaining | ApplicationManager (AIT wait), OpApp (countdown) |
| **ServiceManager, WebSocketService, UdpSocketService** (`components/network_services`) | services by id, connections, one looper thread per service | Start*Service, StopService, OnServiceStopped, connection events | JavaScript bridge, libwebsockets |
| **App2App** (`app2app/`) | waiting and paired connections per endpoint | OnConnection, OnDisconnected, OnFragmentReceived, Stop | the local and the remote WebSocketService, each on its thread |
| **MediaSynchroniser and CSS services** (`media_synchroniser/`) | timelines, correlated clocks, the three services of inter-device synchronisation, selector use counts | enable/disableInterDeviceSync, add/removeTimeline, setTimelineAvailability, deleteLater | ServiceManager, sockets |
| **JsonRpcService** (`json_rpc/`) | companion connections, negotiated methods, open intents | request/response handlers | WebSocketService, session callback |
| **Sessions** (`rdk/ORB`, `android/orblibrary`, `orblibrary`) | little | forwarding, tokens | all of the above |
| **JavaScript polyfill** (`src/`) | object state in the page: play state, active state and stream event listeners of `video/broadcast`, media objects of the page's MediaSynchroniser | HbbTV object APIs | the bridge, the page's event listeners |
| **Browsers, DIAL server** (`rdk/ORBBrowser`, `components/mock_dial_service`) | third-party | | |

What is hard here:

* *Callbacks under a lock.* The manager calls the platform while it is changing
  its own state, and the platform may call straight back (`StopBroadcast` →
  `OnBroadcastStopped`): the mutex is recursive, so the second method sees a
  half-done first one.
* *A timer with its own thread and mutex*, stopped by methods that hold the
  manager's mutex.
* *Sequences.* Channel changes, first tables, table updates, load failures,
  network and parental control changes and application calls come in any order,
  and each decides from state an earlier one left.
* *Reentrancy in the page.* A `video/broadcast` method dispatches events to the
  page before it is done, and the listener may call the object again.
* *Services with their own threads* that remove themselves while others look
  them up, and lock orders across three classes.

What makes each part correct, in short: the manager's slots, its map and the
browser agree; a broadcast-related application is one the table of the selected
service signals; no application runs on without broadcast relation while tuned;
a service is not left without its autostart application; the timer fires at
most once and never late; App2App pairs each connection once and forwards only
between pairs; the media synchroniser's service counts match the services that
run, its sources and clocks the watchers that remain; what the JSON-RPC service
sends a connection is what it asked for; a playing `video/broadcast` object hears
the platform and is the only one.

## 2. Modules

| Module | Models | State and actions |
|---|---|---|
| `Ait` | the queries on a parsed table (`ait.cpp`) | operators only; a table is a sequence, a position in it is the C++ pointer, 0 is `nullptr` |
| `ApplicationManager` | `ApplicationManager` with its `HbbTVApp`/`OpApp` objects | the record `m` (fields named after the members), `parental` (the device setting), `returned` (outcome of CreateApplication), `crashed`; one action per public method and per outcome of CreateApplication |
| `MCApplicationManager` | small tables and services for TLC | |
| `AitTimeout` | `Utils::Timeout` under the manager's mutex | both mutexes, `m_stopped`, the program counters of the platform's threads and of the timer's; one action per lock operation, wait, notify, join |
| `AitSections` | how `Ait` collects sections into a table | `m_ait` (`collecting`), `m_aitCompleted` (`completed`), selected service and PID, and the sub-table each service carries (external); one action per method of the manager that touches them, and the carousel's |
| `AitInUse` | abstract: the table `Ait::Get()` returns | Select, Deselect, Partial, Complete, ApplyXml |
| `MCAitSections` | instance | |
| `Timer` | abstract: a one-shot timer | Arm, Disarm, Fire |
| `MCAitTimeout` | instance | |
| `App2App` | both WebSocket servers of App2App with their loopers and the thread that stops them | who waits and who is paired, each connection's life, write queues, where each thread is; one action per callback, cut where a thread waits for another's mutex |
| `CssServices` | a `MediaSynchroniser`, its three services and the `ServiceManager` | `m_runningServices`, `m_syncing`, the ids; services by id; the holders of `m_mutex` and `mutex_`; one action per lock-to-lock piece of enable, disable, destroy, and of the loopers' ends |
| `TimelineMonitoring` | timelines, sources, clocks and TS clients of one synchroniser, and the page's part in them | the record `m` (members of `MediaSynchroniser` and `TimelineSyncService`), the page's media objects and periods; one action per public method and page handler; step by step where `m_mutex` is not held throughout (`setTimelineAvailability`, the looper's callbacks, the update of the clients) |
| `JsonRpc` | `JsonRpcService` | `m_connectionData` by connection, the terminal's call, requests that wait; one action per message, and per read or write of a connection's data in the terminal's calls |
| `VideoBroadcast` | the `video/broadcast` objects of a page (`videobroadcast.js`) | private data of each object, `gActiveStateOwner`, the bridge's registrations, methods that wait for a listener to return; one action per method and event handler |
| `MCApp2App`, `MCCssServices`, `MCTimelineMonitoring`, `MCJsonRpc`, `MCVideoBroadcast` | instances | |
| `ApplicationManagerProofs`, `AitSectionsProofs`, `AitTimeoutProofs`, `App2AppProofs`, `CssServicesProofs`, `TimelineMonitoringProofs`, `JsonRpcProofs`, `VideoBroadcastProofs` | the theorems about each module (section 4) | |

**ApplicationManager.** Every public method runs under `m_lock`, so one method
is one step, its whole body included: the private methods are operators from
manager state to manager state, composed as the C++ composes them
(`DestroyApplication` = kill, then `OnRunningAppExited`, then the autostart).
What the manager told the browser is part of the state: `loaded` is the last
`LoadApplication`, `visible` the applications whose last word was
`ShowApplication`. `nextId` is `g_id`. Data is abstracted to what the control
flow compares: the pair (organisation, application) is one key, 0 when either
is 0; URLs are origins, with the `dvb:` URL and the empty URL that
`ExtractBaseURL` yields; profile and version checks are one Boolean; parental
ratings are one Boolean compared with whether an age is set. `m_aitDesc` of an
application created from a URL is never initialised in the C++
(`hbbtv_app.cpp:90`): the model lets it hold any key.

The environment is free: any service may be selected, any table of it may
arrive, sections of every service may arrive at any time (late ones too), the
browser may report failures and page changes for ids that run, ran or never
did, and `StopBroadcast` calls back or not, since the RDK platform does
and the Android session does not. `from` and `descFrom` are auxiliary: the
service a table or a descriptor came from, for the properties to speak of.

**AitSections** splits the other simplification of `ApplicationManager`, that a
section either completes a table of the service or only tells its PID. The
section mask is the set of its bits, tested byte by byte as the C++ does. An
application is its application id, the only field `ParseSection` compares. The
environment loses, repeats and delays sections at will; versions, PIDs and
services change up to `MaxChanges` times. Two assumptions on the broadcast are
named in the module: a version number names one sub-table per service and PID
(the number has 5 bits; a receiver that misses 31 versions in a row is outside
the model), and two sections signal the same ids or disjoint ones. The second is
needed because `ParseSection` skips 7 bytes instead of 1 for an id it already
has (`ait.cpp:1196`) and reads the rest of a mixed section at the wrong place.
The refinement `ImplementsAitInUse` is what links the two modules: the actions
of `AitInUse` are `OnChannelChanged`, `OnBroadcastStopped`, `RunApp`,
`ProcessAitSectionPartial`, `ProcessAitSectionLast` and `ProcessDvbiXmlAit` of
`ApplicationManager` as far as they touch the table.

**AitTimeout** splits what `ApplicationManager` takes as a flag. `Enter` is a
public method taking `m_lock`; `OnChannelChanged` goes through stop() and
start(), the completion of a first table through stop(). The timer's thread
holds `m_cvm` whenever it is not waiting, and through the callback. That the
flag is a sound abstraction is the refinement `ImplementsTimer`.

**App2App.** Three threads (the caller of `StopService`, one looper per server)
and four mutexes. A callback is one step as long as it needs no further mutex;
where it does, it ends in a state in which the thread waits. So the cycles of
threads that wait for each other are states, named by `Deadlocked`. The two
servers accept the connections of `Locals` and `Remotes`, each once;
`Faults` names what may fail: a server's start, or its `lws_service`. Fragments
are numbered by sender; assembling fragments into messages is left out.

**CssServices.** The application's thread (enable, disable, destroy) against one
looper per service. `mutex` and `mgr` hold the owner of `m_mutex` and of
`ServiceManager::mutex_`; a step ends where one of them has to be obtained.
`NewServiceId` hands out the lowest free id, so an id may come back as somebody
else's service. A port is taken as long as the looper that has it is in its loop.

**TimelineMonitoring.** Three threads: the application's, the platform's and the
looper of the TimelineSyncService. A method that holds `m_mutex` to its end is one
step up to its last call, the update of the clients. `setTimelineAvailability` takes
`m_mutex` only inside what it calls (`media_synchroniser.cpp:488`), so it is several
steps: the source's clock is set, then `addTimeline` and `setContentTimeAndSpeed`, or
one update. The callbacks of the looper (`ClientSetup`, `StartForClient`,
`UpdateNewClient`; `ClientDisconnects`, `StopForClient`, `ForgetClient`) run under
`connections_mutex_` and take `m_mutex` only to start or stop a timeline. `looper`
and `call` keep what is left of a callback and of a page's handler, which
may be overtaken between two of its calls. An update visits the clients one by
one, in any of the three threads (`update`), and reads what a client should have
(`ReadClient`) before it sends it (`SendClient`), with changes in between. Two
threads in `updateClient` at once race for the maps and for the timestamp a source
keeps: what each then sends is left open (`"either"`). The platform reports to a
synchroniser as long as the manager knows it. Clocks are kept as their parent only:
arithmetic on ticks is floating point. Content times, correlations and the DVB
URI are left out, and so is `MediaElementTsClient`'s own period handler.

**JsonRpc.** The looper handles a message in one step, under `connections_mutex_`.
The terminal's thread takes that mutex anew for every read and write of a
connection's data, so each is a step, and the looper runs in between. Intents
that differ only in their name are one. Texts are left out.

**VideoBroadcast.** JavaScript runs one turn at a time, so a method or a handler
is one step up to the point where it dispatches an event and still has something
to do: there the rest goes on `stack` and the page may call any object. An
event reaches the objects that listen to it one by one (`todo`), and the page may
act between two of them. Exceptions end a method where the code leaves it. The
platform answers a channel request at once or later, tunes away by itself,
reports errors and blocked presentation, and its events wait in a queue. Fixed
for a page is whether the application is a linked one (its play states take
other paths) and whether the page's elements look alike to
`JSON.stringify`, by which `acquireActiveState` compares them. Not kept: the hole
puncher, the presentation-suspended flag, the last channel set without QUIET
(`prevChannel` and `nextChannel` lead to any channel) and the AV control, which
delays a bind while broadband media are stopped.

## 3. Runs

The longest run (`json_rpc`) takes less than three minutes with two workers. Deadlock
checking is off: the bounds stop the instances (`MaxAppId`, the connections each
used once, the calls of the page), a crash ends those of `ApplicationManager`,
and the threads of `AitTimeout`, `App2App`, `CssServices` and `JsonRpc` really can
block each other: liveness properties speak of that.

| Run | What it checks |
|---|---|
| `core` | two services, tables in which a channel change meets the same application again, with fewer transports, killed, service-bound, or replaced by a rated one of higher priority, two origins, two PIDs, and the default `isInstanceInCurrentService`, which answers no; ten properties (below) |
| `xml` | XML AITs from applications and from DVB-I services, one of them with an OpApp that runs beside the HbbTV application |
| `ait_sections` | two services; nine sections (two bytes of mask), two versions on one PID, the first version again on another PID, the same PID and version on the other service |
| `ait_timeout` | two platform threads and the timer's |
| `app2app` | two local connections and a remote one, one endpoint, two fragments, every failure |
| `timelines` | two DASH periods and a broadcast TEMI timeline, one companion screen; the master stopped by the page, by force and by the client's disconnection |
| `ts_clients` | two companion screens that set up, set up again and leave, one period and a PTS timeline, the content id and its override; two watchers and two uses in all when one more comes |
| `css` | two synchronisers, the second one enabled while the first one's services still end; three ids, one failure, one client |
| `json_rpc` | two connections, one feature, pause and seek, two intents, one request |
| `video_broadcast` | an object of the page and one it creates and drops; two channels, two stream events (one fetched from a file), three and one calls, one event the platform raises by itself besides those the calls cause |
| `wait_ends`, `stop_others` | each states what a comment of the code says and is violated; see section 5 |

Properties of `ApplicationManager`:

* `BrowserAgrees`, `BrowserHoldsRunningApp`, `SlotsConsistent`: manager, slots
  and browser agree. `BrowserHoldsRunningApp` is checked without OpApps: killing
  an OpApp blanks the page the browser shares with the HbbTV application.
* `AitOfCurrentService`, `BroadcastAppIsSignalled`, `IndependentAppNotTuned`,
  `RunningTransportNotFailed`: application, table and
  service belong together through channel changes, updates and failed loads.
* `CreateReturnsTheApp`: the id an application gets back is the running one.
* `NeverLeftWithoutAutostart`, `RestrictedAppEnds`, `BoundAppStaysInService`:
  action properties on how applications end.

`TypeOK` and `TimerOnlyBeforeFirstAit` (the timer cannot kill what the table
admitted) are proved and not part of a run; so is the `TypeOK` of every module but the
timeout's and the section collector's, where it is part of what is proved.

Properties of `AitSections`: `CollectedFromOneSubTable` (no mixing, the table in
use is whole), `ImplementsAitInUse` (the old table is kept until the new one is
whole), `SettlesOnTheTable` (liveness: the table on air ends up in use).

Properties of the network services:

* `PairsAreMutual`, `NobodyWaitsForAWaiting`, `RelayedInOrder`: pairing is a
  matching per endpoint that two threads keep, without a pair missed, and a
  client is sent the pairing message and then its partner's fragments in order.
  The two invariants of pairing say nothing after a failing `lws_service`, which
  frees connections that others still point to (section 5).
  `DestroyedByTheLast`: the object both loopers use goes with the last of them.
  `StopEnds` (liveness): a stop ends, except for the three ways the threads can
  block each other and a remote server that never started.
* `RunningServicesCounted`, `FreedWithItsServices`, `StopsItsOwnServices`: count,
  owner and ids of the three services, with ids given again to a successor. A
  deleted synchroniser always has a service left that will free it, half-failed
  start or not. That the count is right and that the synchroniser is not freed too
  early are claimed only where no start failed half way (`partial`): after one, the
  code does neither (section 5).
  `UndisturbedStopStopsTheOthers` (liveness): one that ends takes the others along,
  unless a start failed half way, the manager's mutex was left locked, or the
  application's thread or a client interferes.
* `SourceIffWatched`, `FilterOfEntryRuns`, `SelectorWatched`: what exists is what is
  watched, through two counters, forced stops and announcements; a timeline the
  application stopped more often than it started (`abandoned`) is no longer promised
  to the clients that named it. `ParentsExist`: whoever removes the master timeline,
  no clock stays on it. It is silent while `m_masterTimeline` names a timeline without
  a source, when clocks do stay behind (section 5). `TsClientsUpToDate`: each client
  was last told what holds, or an update that will read it is on its way, between any
  two steps of the three threads; a client whose last update met another thread in
  `updateClient` is left out.
* `SentAsDeclared`, `SeekWithinRange`, `IntentIdsIncrease`: what a connection is
  sent fits what it declared, although it may declare something else between the
  terminal's look and the sending; a connection that declared another range since
  the call is exempt from `SeekWithinRange`. `RequestsAreAnswered` (liveness): unless the
  mutex was left locked.

Properties of `VideoBroadcast`: `ActiveObjectListens` (a connecting or presenting
object hears the platform; not promised for linked applications, section 5),
`OneActiveObject` (only the owner of the active state is realized, if the page's
objects can be told apart), `StreamEventMapsAgree` (the two maps and the bridge
agree), `ChannelFollows` (when everything has been handled, an active object's
channel is the platform's).

Bounds: `MaxAppId = 3` lets an application be created, replaced and replaced
again, which is what a stale id needs to meet a successor; two services are
enough for "left behind". Two PIDs
make a changed PID clear the table; in `xml` the PID of a DVB-I table is the
second one. Services are strings, because symmetry would be unsound for services with
different tables.

In `ait_sections`, `MaxChanges = 3` allows a service, PID or version to be left
half collected, met again and left once more.

In `app2app` a third connection competes for a partner, which is what unpaired and
re-paired connections need; each connects once, since a new connection is a new
object in the code too. `MaxServices = 3` (the code has 10) makes ids come back
after one life. In `ts_clients` two uses are what it takes for one client to leave a
timeline another one named, or to be counted twice and leave once; in `timelines` one
client's use, counted before the page stops the master by force and starts it
again, is enough for the client to remove the new master. In `json_rpc` two connections are what it takes for one to leave
while the other is served. In `video_broadcast` two events may be on their way, so
that an event names a channel that is no longer the platform's; symmetry of the
channels is sound, since no constant tells them apart and no property is
temporal.

Fairness is assumed in five specifications. `ait_sections` has weak fairness of the
delivery of every section of the sub-table on air: a broadcast carousel repeats
them, and `ProcessAitSection` handles each at once; it is an assumption on the
broadcast, not on the code's threads. `wait_ends` has strong fairness of each
thread's steps and of the timer's, that is, every thread is scheduled, time
passes and a mutex that is free again and again is obtained. The platform is not
obliged to call. Even so the wait may never end. `app2app` and `css`/`stop_others`
have weak fairness of each looper and of the calling thread: a thread that waits
for a mutex nobody holds gets it, and libwebsockets runs a callback that is due.
Clients are not obliged to do anything. `json_rpc` has weak fairness of the
answers: the looper goes on, and the terminal answers what it was passed.

## 4. Proofs

Every theorem holds for every value of the constants that meets the named
assumptions of the module it is about; where a theorem needs more, the
hypothesis stands in its statement. Each proof module has the same form: an
inductive invariant (`IInv`, checked by TLC on the instances first), a lemma for
each operator, a lemma for each action, one for the initial states and one for
the step, and the theorems at the end.

| Module | Theorems about |
|---|---|
| `ApplicationManager` | `TypeOK`, `SlotsConsistent`, `BrowserAgrees`, `TimerOnlyBeforeFirstAit`, `AitOfCurrentService`, `IndependentAppNotTuned`, `BroadcastAppIsSignalled`, `BrowserHoldsRunningApp`, `RunningTransportNotFailed`, `CreateReturnsTheApp`, `NeverLeftWithoutAutostart`, `RestrictedAppEnds`, `BoundAppStaysInService` |
| `AitSections` | `CollectedFromOneSubTable`, `ImplementsAitInUse` |
| `AitTimeout` | `LockInv`, `StopIsFinal`, `NoTimeoutAfterFirstAit`, `ImplementsTimer` |
| `App2App` | `TypeOK`, `PairsAreMutual`, `NobodyWaitsForAWaiting`, `DestroyedByTheLast`, `RelayedInOrder` |
| `CssServices` | `TypeOK`, `RunningServicesCounted`, `FreedWithItsServices`, `StopsItsOwnServices` |
| `TimelineMonitoring` | `TypeOK`, `SourceIffWatched`, `ParentsExist`, `FilterOfEntryRuns`, `TsClientsUpToDate`, `SelectorWatched` |
| `JsonRpc` | `TypeOK`, `SentAsDeclared`, `SeekWithinRange`, `IntentIdsIncrease` |
| `VideoBroadcast` | `TypeOK`, `ActiveObjectListens`, `OneActiveObject`, `StreamEventMapsAgree`, `ChannelFollows` |

**ApplicationManager** has two inductive invariants, one on top of the other.
`IInv` is the conjunction of the four properties named first (`Good`) and the
types of the other variables: `BrowserAgrees` and `SlotsConsistent` are not
inductive alone, since that a freshly drawn id is free needs "running ids are
at most `nextId`", and that a kill empties the right slot needs the slots' types.
Each private method has a lemma "good in, good out" (`KillGood`, `RunGood`,
`CreateGood`, `AutostartGood`, `ReceivedGood`, ...); the delicate one is
`RunGood`, where the callback from `StopBroadcast` acts on a state whose slot
names an erased application.

`UInv` adds `Uses(m)`, which relates applications to the table in use:
`TableFits` (the table is the selected service's, and the browser holds the
HbbTV application's page), `RelatedWhenTuned`, `InTable`, `AtHome` (a running
broadcast-related application is described by a table of the selected service, or
by none) and, where no OpApp is signalled, `Unfailed` (a running application's
transport is not marked failed in its entry). Its step lemma `NextOutcome` gives,
for any action, both the next `UInv` and how the HbbTV application may have
ended, from which `NeverLeftWithoutAutostart` and `RestrictedAppEnds` follow; the
lemma `NextStays` gives what becomes of an application that survives the step,
from which `BoundAppStaysInService` follows. Five theorems carry a hypothesis on
the constants, because without it the code does not do what they say:

* `AitOfCurrentService` under `OneServicePerId`: `ProcessAitSection` compares
  the service_id alone.
* `BrowserHoldsRunningApp` and `RestrictedAppEnds` under `NoOpAppSignalled`:
  killing an OpApp blanks the page of the HbbTV application and starts the
  autostart application over it.
* `RunningTransportNotFailed` under `NoOpAppSignalled` and `OneEntryPerKey`:
  where a table signals an application twice, the failure is marked in the
  first entry and the next start may take the second.
* `CreateReturnsTheApp` under `XmlAits = {}`: `ProcessXmlAit` keeps the id in a
  `bool`.
* `BoundAppStaysInService` under `OneServicePerId` and `Instances = {}`: where
  `isInstanceInCurrentService` answers yes for some of three services, two quick
  channel changes let an application survive (`m_previousService` is overwritten).
  The session of the RDK port always answers no.

**AitSections.** `CollectedFromOneSubTable` with the types is
inductive, for any sub-tables of up to 256 sections: it relates the table in use
as well as the one being collected to the
service and the PID, which is why a section of the same version number can only
belong to the sub-table already being collected. It rests on `MarkCorrect`, that
the byte-wise test of the section mask holds exactly when every section from 0
to the last is marked, at byte boundaries too.

**AitTimeout.** `LockInv` is inductive as stated, for any set of platform
threads; its core is that `m_stopped` cannot change between the timer's decision
to call back and the end of the callback, because `stop()` needs `m_cvm` for it.

**App2App**, for any connections, endpoints and failures. The pairing is right
at every moment only because of what each thread is in the middle of: `IInv`
adds to the two pairing invariants that a looper's callback fits its place
(`CallbackFits`), that a connection on its way in is in no map yet
(`NewIsUnknown`), and in which order the two loopers end, unless the local server is the one that
failed (`Ends`).
`RelayedInOrder` has an invariant of its own on top, `QueuesFit`: a connection that
is new or waits was told nothing, and the last thing a paired one was told is the
pairing or the last fragment its partner's looper has relayed (`Relayed`: one less
than were sent while one is being received). Closes come and go in the queue
without telling anything; `SameTold` relates two sequences that differ in closes
only, and cutting the queue at its first close (`CloseCut`) is the one place
where positions shift.

**CssServices**, for any synchronisers, services and ids. The count
is right between two locks only up to the call that is under way, and only if no
start failed half way. `IInv` says
whom the mutexes belong to (`MutexHeld`), that a call of enable is made on an
active synchroniser (`EnabledWhileActive`, `CallFits`), and which services it owns while
it is syncing, stopping and half-way through enabling (`SyncingOwns`,
`StoppingOwns`, `EnablingOwns`). `DeletedCounts` carries the half of
`FreedWithItsServices` that half-failed starts do not spoil: the count never
exceeds the services there are, and is positive once the synchroniser is deleted,
so a service is left to bring it to 0. The lemmas count sets of services; the only new
assumption is that the value for "no service" is none (`NoneAssumption`).

**TimelineMonitoring**, for any timelines, clients and pages. A method is a
composition of operators on the record `m`, so there is a lemma per operator
about any record that fits, not only a reachable one. `IInv` is the types,
`StateFits` (sources, filters and selectors agree), `ClocksFit` (if the master has a
source, every clock runs on the system clock or on the master's, which runs on the
system clock), `CountFits` and `UsesCover` (the watchers and uses counted cover
the page's periods and media objects and the clients), `LooperFits` and `CallFits`
(what an unfinished callback or handler still has to do fits the state), and
`UpdateFits` and `ToldFits`: what an update has read for a client is what holds, or
what changed it is followed by an update that has not read it yet. The last is where
the interleavings matter: it must hold between the change of a clock and
the lock that `setTimelineAvailability` takes next. `KindAssumption` says that the system clock is a clock and the
clients are finitely many.

**JsonRpc**, for any media, methods and connections. `IInv` is `TypeOK` and, for
the terminal's unfinished call (`CallFits`) and each connection (`Fits`), that
what was read before the looper ran agrees with what had been declared by
then. `JsonRpcAssumption` names what the code takes for granted of its tables.

**VideoBroadcast**, for any objects, channels, stream events and
bounds. An active object keeps listening only because an
event reaches no object that has stopped listening meanwhile, because only a
linked page's bind goes on to presenting after its listener returned, and because
only a linked page's object waits for a confirmation, which a blocked
presentation turns into connecting. These three facts, the types and
`OneActiveObject` are the inductive invariant `IInv`. `Effect(o)` is what a step
on one object must satisfy to preserve it (`EffectGood`), `Handled(o)` the
narrower form for event handlers and returning methods. The stream event
operations touch none of the fields it speaks of (`EventsOnly`); they have an
invariant of their own, `MapInv`, for `StreamEventMapsAgree`. `ChannelFollows`
speaks of quiet states alone; `FollowInv` says what holds before: unless the
platform has no channel, owes an answer or has the channel's event on its way
(`Coming`), an object that is behind is still to be told by the event being
dispatched or is in the middle of a bind, and every unfinished bind will record
the current channel.

**Only model-checked.** Liveness (`SettlesOnTheTable`, `StopEnds`,
`UndisturbedStopStopsTheOthers`, `RequestsAreAnswered`), which the prover does not
cover. Every other property of a passing run is stated by a theorem.

## 5. What the violated runs show

* `wait_ends`: `stop()` joins under `m_lock`; the callback waits for `m_lock`.
* `stop_others`: `OnStopped` takes `m_mutex` while its thread holds the manager's
  `mutex_`, `disableInterDeviceSync` takes them the other way round.

Also met while modelling, without a run. In the application manager:

* `ProcessXmlAit` keeps the new id in a `bool` (`application_manager.cpp:382`); the
  caller gets 1.
* Starting a broadcast-independent application deselects the service and leaves
  the AIT timer running; its expiry kills the application. It also leaves the
  table in use when `StopBroadcast` does not call back (`:971`); the table can then
  start broadcast-related applications with no service.
* An OpApp that exits makes the manager start the autostart application over the
  HbbTV application that is running.
* The failed load of an OpApp the broadcast table does not signal dereferences a
  null descriptor (`:654`, the `crashed` of the model).
* Two quick channel changes let a service-bound application survive (`:607`).
* `ParseSection` compares application ids without the organisation, and loses its
  place in a section that mixes known and new ids (see `AitSections` above); it
  does not look at current_next_indicator.
* `CreateApplication(INVALID_APP_ID, ...)` is always refused although
  `application_manager.cpp:57` describes it.
* An OpApp can never leave the background state, because `CanTransitionToState`
  has no transition out of it (`opapp.cpp:108`): its countdown is unreachable.
* The exit key destroys application 0, that is, none (`OrbSession.java:413`).
* `AutoStartApp` counts HTTP as a viable transport without looking at the network
  (`ait.cpp:187`): the application starts with protocol 0 and an empty base URL.
* Only the service_id of the triplet is compared (`application_manager.cpp:325`),
  so a late section of a namesake in another transport stream is taken for the
  current service's. `core` gives its services distinct ids.
* A third transport protocol is parsed into the slot after the last
  (`ait.cpp:665`).

In the network services:

* App2App: the stopping thread and a looper can wait for each other in the three
  ways of `Deadlocked`; the constructor ignores that the remote server did not
  start (`app2app_local_service.cpp:36`).
* `SetConnectionData` returns with `connections_mutex_` locked when the connection
  has gone (`JsonRpcService.cpp:1744`), `StartTimelineSyncService` with `mutex_`
  when the content identification service has (`service_manager.cpp:149`).
* An intent's parameters adjusted for one connection are the ones the next
  connection gets (`JsonRpcService.cpp:1499`); results are sent without a look at
  what was negotiated.
* After a half-failed start (`media_synchroniser.cpp:323`) `m_syncing` stays false, so
  nothing stops the services that did start; as they end they count
  `m_runningServices` below what is left, and below 0, and a deleted synchroniser is
  freed with services registered that point to it.
* A looper's callback takes `m_mutex` under `connections_mutex_` (a client's setup or
  disconnection starts or stops a timeline); `disableInterDeviceSync` takes
  `connections_mutex_`, in `Stop`, under `m_mutex`: the two can wait for each other.
* `lws_service` that fails in one App2App server frees its connections without
  `OnDisconnected` (`websocket_service.cpp:151`): connections of the other server stay
  paired with destroyed ones.
* When the remote App2App server did not start, a stop never ends: nobody
  reports that server's stop.
* Start and end of a connection's range are read under two locks
  (`JsonRpcService.cpp:1499`) and may belong to two declarations.
* A master timeline that is named but has no source yet (a period that has just
  been started and is not available) leaves the clocks on the master before. If that
  one is removed then, they stay on a destroyed clock: `removeTimeline` resets the
  parents only for the timeline `m_masterTimeline` names
  (`media_synchroniser.cpp:828`, `:836`).
* `updateAllClients` and the looper's `updateClient` (`TimelineSyncService.cpp:501`,
  `:602`) share `connections_`, the clients' data and the last timestamps without a
  common mutex: a client may last be sent what no longer holds, and the maps are
  iterated while they change.
* `setTimelineAvailability` and `updateAllTSClients` look up a source or the service
  without `m_mutex`; the source may be destroyed by a client's disconnection, the
  service by its end, before it is used.
* `startTimelineMonitoring` answers false when it counted one more watcher, which
  `mediasynchroniser.js:396` takes for a failure; the branch of
  `stopTimelineMonitoring` marked "should never end up" is reachable.

In `video/broadcast`:

* `setChannel`'s error path calls `releaseActiveState()` without its receiver, so
  the object stays the owner; a permanent error leaves the owner, too.
* The finalizer calls `setVideoRectangle`, which is not in its scope: it throws, and
  a collected object stays the owner for good.
* `acquireActiveState` compares `JSON.stringify` of two elements: objects that look
  alike take the active state from each other.
* An object of a linked application that is released by the listener of
  `bindToCurrentChannel` becomes presenting without bridge listeners; a
  confirmation still awaited makes a blocked presentation revive an object that
  was stopped or unrealized meanwhile.
* A failed `setChannel` leaves an object that was stopped without its listeners.
* `nextChannel` after `release` and `bindToCurrentChannel` reads the ccid of null.

## 6. Not modelled

String work (URL parsing and merging, JSON, XML), logging, clock arithmetic in
floating point, key sets and the read-only queries of the manager, the assembly
of web socket fragments, UDP packets, the text of CSS messages, most object APIs
of the polyfill (they pass values on to the bridge), and the components listed as
`not_modelled` in `PROJECT.json` with the reason for each. Vendored code
(nlohmann's JSON library, mongoose, the DIAL server, the WebKit plugin) makes up a large
part of the repository's lines and is outside.

## 7. Plan

1. The AV control's use of `notifyBroadbandAvInUse` with its delayed bind, composed
   with `VideoBroadcast`.
2. `KeySets`: `SetKeySetMask`, `InKeySet`, activation and its reset by `Update`.
3. An abstract pairing (a partial matching per endpoint) that `App2App` implements.
