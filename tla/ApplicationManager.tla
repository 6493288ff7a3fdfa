-------------------------- MODULE ApplicationManager --------------------------
(***************************************************************************)
(* ApplicationManager (components/application_manager/application_manager.cpp)
   with the HbbTVApp and OpApp objects it owns (hbbtv_app.cpp, opapp.cpp).

   Every public method runs under the recursive mutex m_lock, so one method
   is one step.  The private state is one record `m' whose fields carry the
   names of the C++ members; a private method that the public ones compose
   (RunApp, KillRunningApp, OnPerformBroadcastAutostart...) is an operator
   from a manager state to a manager state.  What the manager tells the
   browser through ApplicationSessionCallback is part of the record too:
   `loaded' is the application of the last LoadApplication call and
   `visible' the applications for which ShowApplication was the last word.

   The locks and the thread of m_aitTimeout are the subject of module
   AitTimeout; here the timer is a flag and its expiry an action.          *)
(***************************************************************************)
EXTENDS Ait

CONSTANTS Services,       \* DVB services (triplets) that can be selected
          NoService,      \* the invalid triplet
          ServiceId,      \* ServiceId[s]: the service_id of the triplet s
          Instances,      \* <<t, s>>: triplet t is an instance of service s
          NoAit,          \* m_ait.Get() == nullptr
          NoApp,          \* the id is not a key of m_apps
          BroadcastAits,  \* BroadcastAits[s]: the tables service s may carry
          XmlAits,        \* the tables an XML AIT may hold
          Pids,           \* PIDs an AIT is broadcast on, 0 excluded
          MaxAppId        \* bound on the applications created in a run

INVALID_APP_ID == 0
XML_AIT_PID == 65535      \* UINT16_MAX, the PID of a DVB-I XML AIT

ASSUME ServicesAssumption ==
    /\ NoService \notin Services
    /\ ServiceId \in [Services -> Nat]
    /\ Instances \subseteq (Services \cup {NoService}) \X Services
ASSUME TablesAssumption ==
    /\ BroadcastAits \in [Services -> SUBSET Table]
    /\ XmlAits \subseteq Table
    /\ \A t \in XmlAits : t # << >>
ASSUME PidsAssumption == Pids \subseteq Nat \ {0, XML_AIT_PID}
ASSUME MaxAppIdAssumption == MaxAppId \in Nat

VARIABLES
    m,          \* the manager
    parental,   \* external: a parental control age is set on the device
    returned,   \* outcome of the last CreateApplication call
    crashed     \* a null descriptor was dereferenced: the process is gone

vars == <<m, parental, returned, crashed>>

(* m_ait.Get(): a table and, for the properties only, the service whose    *)
(* sections it was collected from (NoService for an XML AIT).              *)
AitTable == [from : Services \cup {NoService}, apps : Table]

PageOrigins == Origins \cup {"dvb:", "empty"}

(* An application object.  descFrom is auxiliary: the service whose table  *)
(* aitDesc was read from, NoService if it was not a broadcast table.       *)
App ==
    [type : {"hbbtv", "opapp"}, isBroadcast : BOOLEAN, aitDesc : AppDesc,
     descFrom : Services \cup {NoService},
     protocolId : Protocols, baseUrl : PageOrigins, loadedUrl : PageOrigins,
     state : {"FOREGROUND", "BACKGROUND"}]

ASSUME ModelValuesAssumption == NoAit \notin AitTable /\ NoApp \notin App

AppIds == 1..MaxAppId

Manager ==
    [ait : AitTable \cup {NoAit}, apps : [AppIds -> App \cup {NoApp}],
     hbbtvAppId : AppIds \cup {INVALID_APP_ID},
     opAppId : AppIds \cup {INVALID_APP_ID}, nextId : 0..MaxAppId,
     currentService : Services \cup {NoService},
     previousService : Services \cup {NoService},
     receivedFirstAit : BOOLEAN, aitPid : Pids \cup {0, XML_AIT_PID},
     networkAvailable : BOOLEAN, aitTimer : BOOLEAN,
     loaded : AppIds \cup {INVALID_APP_ID}, visible : SUBSET AppIds]

NothingReturned == [id |-> INVALID_APP_ID, loadError |-> FALSE]
-----------------------------------------------------------------------------
(* The map m_apps: NoApp marks the ids that are not keys of it.            *)
Running(mm, id) == id \in AppIds /\ mm.apps[id] # NoApp
RunningApps(mm) == {id \in AppIds : mm.apps[id] # NoApp}
Erase(apps, id) == [x \in AppIds |-> IF x = id THEN NoApp ELSE apps[x]]
-----------------------------------------------------------------------------
(* HbbTVApp and OpApp.                                                     *)

(* HbbTVApp::Update, for a descriptor parental control admits.             *)
Update(app, d, from, network) ==
    [app EXCEPT !.aitDesc = d,
                !.descFrom = from,
                !.protocolId = ExtractProtocolId(d, network),
                !.loadedUrl = IF d.lloc THEN app.baseUrl ELSE @]

(* The constructor from a descriptor.  An OpApp is always broadcast.       *)
NewAppFromDesc(d, from, network, isBroadcast, asOpApp) ==
    LET url == ExtractBaseURL(d, network)
    IN  [type |-> IF asOpApp THEN "opapp" ELSE "hbbtv",
         isBroadcast |-> isBroadcast \/ asOpApp,
         aitDesc |-> d,
         descFrom |-> from,
         protocolId |-> ExtractProtocolId(d, network),
         baseUrl |-> url,
         loadedUrl |-> url,
         state |-> IF isBroadcast \/ asOpApp THEN "BACKGROUND" ELSE "FOREGROUND"]

(* The constructor from a URL leaves m_aitDesc uninitialised: whatever ids *)
(* the memory held are read as the application's.                          *)
NewAppFromUrl(origin, asOpApp, garbage) ==
    [type |-> IF asOpApp THEN "opapp" ELSE "hbbtv",
     isBroadcast |-> FALSE,
     aitDesc |-> garbage,
     descFrom |-> NoService,
     protocolId |-> 0,
     baseUrl |-> origin,
     loadedUrl |-> origin,
     state |-> IF asOpApp THEN "BACKGROUND" ELSE "FOREGROUND"]

(* CompareUrls: an empty origin is like none, not even another empty one.  *)
CheckBoundaries(url, appUrl, boundaries) ==
    url # "empty" /\ url \in boundaries \cup {appUrl}

(* HbbTVApp::TransitionToBroadcastRelated on an updated application.  Its   *)
(* m_entryUrl is m_baseUrl and a path, set with it: it has the same origin. *)
CanBecomeBroadcastRelated(app) ==
    /\ app.aitDesc.controlCode \in {"AUTOSTART", "PRESENT"}
    /\ app.protocolId = AIT_PROTOCOL_HTTP
    /\ \A url \in {app.baseUrl, app.loadedUrl} :
           CheckBoundaries(url, app.baseUrl, app.aitDesc.boundaries)

(* OpApp::CanTransitionToState: no state is reachable from background.     *)
CanTransitionToState(app, state) ==
    app.type = "hbbtv" \/ state = app.state \/ app.state = "FOREGROUND"
-----------------------------------------------------------------------------
(* Private methods, each a function from manager state to manager state.   *)

(* Mutant: the OpApp's slot keeps the id of the application erased.        *)
KillRunningAppKeepsSlot(mm, id) ==
    IF id \in {mm.hbbtvAppId, mm.opAppId} /\ Running(mm, id)
    THEN [mm EXCEPT
            !.apps = Erase(@, id),
            !.visible = @ \ {id},
            !.loaded = INVALID_APP_ID,
            !.hbbtvAppId = IF @ = id THEN INVALID_APP_ID ELSE @]
    ELSE mm

(* Mutant: the page is blanked although nothing was erased.                *)
KillRunningAppBlanks(mm, id) ==
    IF id \in {mm.hbbtvAppId, mm.opAppId}
    THEN [mm EXCEPT
            !.apps = Erase(@, id),
            !.visible = @ \ {id},
            !.loaded = INVALID_APP_ID,
            !.hbbtvAppId = IF @ = id THEN INVALID_APP_ID ELSE @,
            !.opAppId = IF @ = id /\ mm.hbbtvAppId # id
                        THEN INVALID_APP_ID ELSE @]
    ELSE mm

KillRunningApp(mm, id) ==
    IF id \in {mm.hbbtvAppId, mm.opAppId} /\ Running(mm, id)
    THEN [mm EXCEPT
            !.apps = Erase(@, id),
            !.visible = @ \ {id},
            !.loaded = INVALID_APP_ID,
            !.hbbtvAppId = IF @ = id THEN INVALID_APP_ID ELSE @,
            !.opAppId = IF @ = id /\ mm.hbbtvAppId # id
                        THEN INVALID_APP_ID ELSE @]
    ELSE mm

(* Mutant: the table collected so far survives.                            *)
ClearAitKeepsTable(mm) == [mm EXCEPT !.receivedFirstAit = FALSE, !.aitPid = 0]

ClearAit(mm) ==
    [mm EXCEPT !.receivedFirstAit = FALSE, !.aitPid = 0, !.ait = NoAit]

TransitionToBroadcastIndependent(mm) ==
    IF Running(mm, mm.hbbtvAppId)
    THEN [mm EXCEPT !.apps[mm.hbbtvAppId].isBroadcast = FALSE]
    ELSE mm

BroadcastStopped(mm) ==
    TransitionToBroadcastIndependent(
        [ClearAit(mm) EXCEPT !.currentService = NoService,
                             !.previousService = NoService])

(* StopBroadcast may call OnBroadcastStopped back before it returns (the   *)
(* RDK mock platform does) or not at all (the Android session does not).   *)
StopBroadcast(mm, callsBack) == IF callsBack THEN BroadcastStopped(mm) ELSE mm

(* Mutant: the service stays selected under a broadcast-independent app.   *)
RunAppTuned(mm, app, callsBack) ==
    LET id == mm.nextId
        slot == IF app.type = "opapp" THEN mm.opAppId ELSE mm.hbbtvAppId
    IN  [mm EXCEPT
            !.loaded = id,
            !.hbbtvAppId = IF app.type = "hbbtv" THEN id ELSE @,
            !.opAppId = IF app.type = "opapp" THEN id ELSE @,
            !.apps = [Erase(@, slot) EXCEPT ![id] = app],
            !.visible = IF app.state # "BACKGROUND" THEN @ \cup {id} ELSE @ \ {id}]

(* The application gets the id its constructor drew from g_id.             *)
RunApp(mm, app, callsBack) ==
    LET id == mm.nextId
        slot == IF app.type = "opapp" THEN mm.opAppId ELSE mm.hbbtvAppId
        erased == [mm EXCEPT !.apps = Erase(@, slot)]
        stopped ==
            IF ~app.isBroadcast /\ mm.currentService # NoService
            THEN [StopBroadcast(erased, callsBack) EXCEPT
                    !.currentService = NoService, !.previousService = NoService]
            ELSE erased
    IN  [stopped EXCEPT
            !.loaded = id,
            !.hbbtvAppId = IF app.type = "hbbtv" THEN id ELSE @,
            !.opAppId = IF app.type = "opapp" THEN id ELSE @,
            !.apps = [@ EXCEPT ![id] = app],
            !.visible = IF app.state # "BACKGROUND" THEN @ \cup {id} ELSE @ \ {id}]

(* CreateAndRunApp from a descriptor; g_id is spent even if the            *)
(* constructor throws because parental control forbids the application.    *)
CreateAndRunApp(mm, d, from, pc, isBroadcast, runAsOpApp, callsBack) ==
    LET drawn == [mm EXCEPT !.nextId = @ + 1]
    IN  IF IsAgeRestricted(d, pc) THEN drawn
        ELSE RunApp(drawn,
                    NewAppFromDesc(d, from, mm.networkAvailable, isBroadcast,
                                   runAsOpApp \/ d.opApp),
                    callsBack)

OnPerformBroadcastAutostart(mm, pc) ==
    IF ~mm.receivedFirstAit \/ mm.ait = NoAit THEN mm
    ELSE LET i == AutoStartApp(mm.ait.apps, pc)
         IN  IF i = 0 THEN mm
             ELSE CreateAndRunApp(mm, mm.ait.apps[i], mm.ait.from, pc,
                                  TRUE, FALSE, FALSE)

(* Mutant: nothing is started in the place of the application that left.   *)
OnRunningAppExitedIdle(mm, pc) == mm

OnRunningAppExited(mm, pc) ==
    IF mm.currentService # NoService
    THEN OnPerformBroadcastAutostart(mm, pc) ELSE mm

HbbtvApp(mm) == mm.apps[mm.hbbtvAppId]

(* Where the table in use signals the running HbbTV application.           *)
Signalled(mm) == FindApp(mm.ait.apps, HbbtvApp(mm).aitDesc.key)

UpdateRunningApp(mm) ==
    [mm EXCEPT !.apps[mm.hbbtvAppId] =
        Update(@, mm.ait.apps[Signalled(mm)], mm.ait.from, mm.networkAvailable)]

(* Mutant: parental control is only consulted when an application starts.  *)
MayContinueAnyAge(mm, pc) ==
    LET i == Signalled(mm)
        d == mm.ait.apps[i]
    IN  /\ i # 0
        /\ d.controlCode # "KILL"
        /\ AppHasTransport(d, HbbtvApp(mm).protocolId)

(* The tests a running broadcast-related application has to pass to        *)
(* survive a new table, UpdateRunningApp's parental control included.      *)
MayContinue(mm, pc) ==
    LET i == Signalled(mm)
        d == mm.ait.apps[i]
    IN  /\ i # 0
        /\ d.controlCode # "KILL"
        /\ AppHasTransport(d, HbbtvApp(mm).protocolId)
        /\ ~IsAgeRestricted(d, pc)

(* TransitionRunningAppToBroadcastRelated succeeds.                        *)
MayTransition(mm, pc) ==
    LET i == Signalled(mm)
    IN  /\ HbbtvApp(mm).aitDesc.key # 0
        /\ i # 0
        /\ ~IsAgeRestricted(mm.ait.apps[i], pc)
        /\ CanBecomeBroadcastRelated(HbbtvApp(UpdateRunningApp(mm)))

TransitionToBroadcastRelated(mm) ==
    [UpdateRunningApp(mm) EXCEPT !.apps[mm.hbbtvAppId].isBroadcast = TRUE]

(* Mutant: an application the table does not signal is left alone.         *)
ContinueOrKillUnsignalled(mm, pc) ==
    IF Signalled(mm) = 0 THEN mm
    ELSE IF MayContinue(mm, pc) THEN UpdateRunningApp(mm)
    ELSE KillRunningApp(mm, mm.hbbtvAppId)

(* The running application updates from the table or is killed.            *)
ContinueOrKill(mm, pc) ==
    IF MayContinue(mm, pc) THEN UpdateRunningApp(mm)
    ELSE KillRunningApp(mm, mm.hbbtvAppId)

(* The check the C++ repeats at the end of OnSelectedServiceAitReceived.   *)
UpdateAgain(mm, pc) ==
    IF Signalled(mm) = 0 THEN mm
    ELSE IF IsAgeRestricted(mm.ait.apps[Signalled(mm)], pc)
    THEN KillRunningApp(mm, mm.hbbtvAppId)
    ELSE UpdateRunningApp(mm)

(* Mutant: the service_bound flag is not looked at.                        *)
LeftItsServiceNever(mm) == FALSE

(* A service-bound application whose service was left.                     *)
LeftItsService(mm) ==
    /\ HbbtvApp(mm).aitDesc.serviceBound
    /\ <<mm.previousService, mm.currentService>> \notin Instances

OnSelectedServiceAitReceived(mm, pc) ==
    LET checked ==
            IF ~Running(mm, mm.hbbtvAppId) THEN mm
            ELSE IF HbbtvApp(mm).isBroadcast
            THEN IF LeftItsService(mm) THEN KillRunningApp(mm, mm.hbbtvAppId)
                 ELSE ContinueOrKill(mm, pc)
            ELSE IF MayTransition(mm, pc) THEN TransitionToBroadcastRelated(mm)
            ELSE KillRunningApp(mm, mm.hbbtvAppId)
    IN  IF Running(checked, checked.hbbtvAppId)
        THEN UpdateAgain(checked, pc)
        ELSE OnPerformBroadcastAutostart(checked, pc)

OnSelectedServiceAitUpdated(mm, pc) ==
    IF Running(mm, mm.hbbtvAppId) /\ ~HbbtvApp(mm).isBroadcast THEN mm
    ELSE LET checked == IF Running(mm, mm.hbbtvAppId)
                        THEN ContinueOrKill(mm, pc) ELSE mm
         IN  IF Running(checked, checked.hbbtvAppId) THEN checked
             ELSE OnPerformBroadcastAutostart(checked, pc)

(* A complete table is in use: the tail of ProcessAitSection and of        *)
(* ProcessXmlAit.                                                          *)
AitCompleted(mm, table, pc) ==
    LET used == [mm EXCEPT !.ait = table]
    IN  IF mm.receivedFirstAit THEN OnSelectedServiceAitUpdated(used, pc)
        ELSE OnSelectedServiceAitReceived(
                [used EXCEPT !.aitTimer = FALSE, !.receivedFirstAit = TRUE], pc)
-----------------------------------------------------------------------------
(* The public methods.  A method that returns nothing to an application    *)
(* leaves `returned' at NothingReturned.                                   *)

Init ==
    /\ m = [ait |-> NoAit, apps |-> [id \in AppIds |-> NoApp],
            hbbtvAppId |-> INVALID_APP_ID,
            opAppId |-> INVALID_APP_ID, nextId |-> 0,
            currentService |-> NoService, previousService |-> NoService,
            receivedFirstAit |-> FALSE, aitPid |-> 0,
            networkAvailable |-> FALSE, aitTimer |-> FALSE,
            loaded |-> INVALID_APP_ID, visible |-> {}]
    /\ parental = FALSE
    /\ returned = NothingReturned
    /\ crashed = FALSE

(* Ids a call may carry: of an application that runs, ran or never did.    *)
CallerIds == AppIds \cup {INVALID_APP_ID}

(* An application may be created: the bound on the model.                  *)
MayCreate == m.nextId < MaxAppId

Step(next) ==
    /\ ~crashed
    /\ m' = next
    /\ returned' = NothingReturned
    /\ UNCHANGED <<parental, crashed>>

(* CreateApplication returns id, or fails and dispatches the error event.  *)
CreateReturns(next, id) ==
    /\ ~crashed
    /\ m' = next
    /\ returned' = [id |-> id, loadError |-> id = INVALID_APP_ID]
    /\ UNCHANGED <<parental, crashed>>

MayCallCreate(callingAppId, runAsOpApp) ==
    /\ Running(m, callingAppId)
    /\ runAsOpApp => m.apps[callingAppId].type = "opapp"

(* The early outs of CreateApplication: the caller does not run, or it     *)
(* asks for an OpApp without being one.  No error event is dispatched.     *)
CreateApplicationRefused(callingAppId, runAsOpApp) ==
    /\ ~MayCallCreate(callingAppId, runAsOpApp)
    /\ Step(m)

(* An empty URL, whatever runAsOpApp says, or one that is no locator.      *)
CreateApplicationUnknown(callingAppId) ==
    /\ Running(m, callingAppId)
    /\ CreateReturns(m, INVALID_APP_ID)

(* Mutant: the id drawn is returned although the constructor threw.        *)
CreatedIdAlways(d) == m.nextId + 1

(* The id CreateAndRunApp returns for a descriptor.                        *)
CreatedId(d) ==
    IF IsAgeRestricted(d, parental) THEN INVALID_APP_ID ELSE m.nextId + 1

(* dvb://current.ait/<orgId>.<appId>, or the triplet of the current        *)
(* service in the place of "current": the application is looked up in the  *)
(* table in use, whether or not a service is selected.                     *)
CreateApplicationFromAit(callingAppId, key, runAsOpApp) ==
    /\ MayCallCreate(callingAppId, runAsOpApp)
    /\ MayCreate
    /\ IF m.ait = NoAit \/ FindApp(m.ait.apps, key) = 0
       THEN CreateReturns(m, INVALID_APP_ID)
       ELSE LET d == m.ait.apps[FindApp(m.ait.apps, key)]
            IN  CreateReturns(
                    CreateAndRunApp(m, d, m.ait.from, parental, TRUE,
                                    runAsOpApp, FALSE),
                    CreatedId(d))

BlankDesc(key, origin) ==
    [key |-> key, controlCode |-> "DISABLED", transports |-> << >>,
     origin |-> origin, boundaries |-> {}, priority |-> 0,
     supported |-> FALSE, rated |-> FALSE, serviceBound |-> FALSE,
     teletext |-> FALSE, opApp |-> FALSE, lloc |-> FALSE]

(* A HTTP URL that GetXmlAitContents finds no XML AIT at: an entry page.   *)
CreateApplicationFromPage(callingAppId, origin, runAsOpApp) ==
    /\ MayCallCreate(callingAppId, runAsOpApp)
    /\ MayCreate
    /\ \E key \in Keys \cup {0}, callsBack \in BOOLEAN :
        CreateReturns(
            RunApp([m EXCEPT !.nextId = @ + 1],
                   NewAppFromUrl(origin, runAsOpApp, BlankDesc(key, origin)),
                   callsBack),
            m.nextId + 1)

(* ProcessXmlAit for an XML AIT that is not a DVB-I service's: its         *)
(* autostart application runs broadcast-independent.                       *)
XmlAitApp(table, callsBack) ==
    LET i == AutoStartApp(table, parental)
    IN  IF i = 0 THEN m
        ELSE CreateAndRunApp(m, table[i], NoService, parental, FALSE, FALSE,
                             callsBack)

(* ProcessXmlAit keeps its result in a bool: 1, whatever the id was.       *)
XmlAitResult(table) ==
    LET i == AutoStartApp(table, parental)
    IN  IF i = 0 THEN INVALID_APP_ID
        ELSE IF CreatedId(table[i]) = INVALID_APP_ID THEN INVALID_APP_ID ELSE 1

(* The linked-application scheme of the call, empty when an application    *)
(* makes it, is written to every entry.                                    *)
WithScheme(table, lloc) ==
    [i \in DOMAIN table |-> [table[i] EXCEPT !.lloc = lloc]]

CreateApplicationFromXmlAit(callingAppId, table, runAsOpApp) ==
    /\ MayCallCreate(callingAppId, runAsOpApp)
    /\ MayCreate
    /\ \E callsBack \in BOOLEAN :
        CreateReturns(XmlAitApp(WithScheme(table, FALSE), callsBack),
                      XmlAitResult(WithScheme(table, FALSE)))

ProcessXmlAit(table, lloc) ==
    /\ MayCreate
    /\ \E callsBack \in BOOLEAN :
        Step(XmlAitApp(WithScheme(table, lloc), callsBack))

ProcessDvbiXmlAit(table, lloc) ==
    /\ MayCreate
    /\ Step(AitCompleted([m EXCEPT !.aitPid = XML_AIT_PID],
                         [from |-> NoService, apps |-> WithScheme(table, lloc)],
                         parental))

(* A section of a service's table is told from another service's by the    *)
(* service_id alone.                                                       *)
ForCurrentService(service) ==
    /\ m.currentService # NoService
    /\ ServiceId[service] = ServiceId[m.currentService]

(* A section that completes no table still may bring a new PID.            *)
NewPid(pid) ==
    [m EXCEPT !.aitPid = pid,
              !.ait = IF m.aitPid \notin {0, pid} THEN NoAit ELSE @]

ProcessAitSectionPartial(pid, service) ==
    /\ ForCurrentService(service)
    /\ Step(NewPid(pid))

ProcessAitSectionLast(pid, service, table) ==
    /\ MayCreate
    /\ ForCurrentService(service)
    /\ Step(AitCompleted(NewPid(pid), [from |-> service, apps |-> table],
                         parental))

OnSelectedServiceAitTimeout ==
    /\ m.aitTimer
    /\ Step(KillRunningApp([m EXCEPT !.aitTimer = FALSE], m.hbbtvAppId))

(* With INVALID_APP_ID nothing is killed and the autostart is performed.   *)
DestroyApplication(callingAppId) ==
    /\ MayCreate
    /\ callingAppId = INVALID_APP_ID \/ Running(m, callingAppId)
    /\ Step(OnRunningAppExited(KillRunningApp(m, callingAppId), parental))

(* Mutant: the browser is not told.                                        *)
SetStateSilent(callingAppId, state) ==
    /\ Running(m, callingAppId)
    /\ CanTransitionToState(m.apps[callingAppId], state)
    /\ Step([m EXCEPT !.apps[callingAppId].state = state])

SetState(callingAppId, state) ==
    /\ Running(m, callingAppId)
    /\ CanTransitionToState(m.apps[callingAppId], state)
    /\ Step(IF m.apps[callingAppId].state = state THEN m
            ELSE [m EXCEPT
                    !.apps[callingAppId].state = state,
                    !.visible = IF state = "BACKGROUND" THEN @ \ {callingAppId}
                                ELSE @ \cup {callingAppId}])

ShowApplication(callingAppId) == SetState(callingAppId, "FOREGROUND")

HideApplication(callingAppId) == SetState(callingAppId, "BACKGROUND")

RunTeletextApplication ==
    /\ MayCreate
    /\ m.ait # NoAit
    /\ TeletextApp(m.ait.apps) # 0
    /\ Step(CreateAndRunApp(m, m.ait.apps[TeletextApp(m.ait.apps)], m.ait.from,
                            parental, TRUE, FALSE, FALSE))

OnBroadcastStopped == Step(BroadcastStopped(m))

OnChannelChanged(service) ==
    Step([ClearAit(m) EXCEPT !.aitTimer = TRUE,
                             !.previousService = m.currentService,
                             !.currentService = service])

OnNetworkAvailabilityChanged(available) ==
    /\ available # m.networkAvailable
    /\ Step([m EXCEPT !.networkAvailable = available])

OnLoadApplicationFailed(appId) ==
    LET app == m.apps[appId]
        signalled == FindApp(m.ait.apps, app.aitDesc.key)
        marks == m.ait # NoAit /\ app.aitDesc.key # 0
        marked == IF marks
                  THEN [m EXCEPT !.ait.apps =
                          AppSetTransportFailedToLoad(@, signalled, app.protocolId)]
                  ELSE m
    IN  /\ MayCreate
        /\ m.currentService # NoService
        /\ Running(m, appId)
        /\ IF marks /\ signalled = 0
           THEN ~crashed /\ crashed' = TRUE /\ UNCHANGED <<m, parental, returned>>
           ELSE Step(OnPerformBroadcastAutostart(
                        KillRunningApp(marked, appId), parental))

OnApplicationPageChanged(appId, origin) ==
    /\ Running(m, appId)
    /\ Step([m EXCEPT !.apps[appId].loadedUrl = origin])

(* External: the user changes the parental control settings.               *)
ParentalControlChanged ==
    /\ ~crashed
    /\ parental' = ~parental
    /\ returned' = NothingReturned
    /\ UNCHANGED <<m, crashed>>

AppCalls ==
    \E id \in CallerIds :
        \/ \E op \in BOOLEAN :
            \/ CreateApplicationRefused(id, op)
            \/ \E key \in Keys : CreateApplicationFromAit(id, key, op)
            \/ \E o \in Origins : CreateApplicationFromPage(id, o, op)
            \/ \E t \in XmlAits : CreateApplicationFromXmlAit(id, t, op)
        \/ CreateApplicationUnknown(id)
        \/ DestroyApplication(id)
        \/ ShowApplication(id)
        \/ HideApplication(id)

BrowserCalls ==
    \E id \in CallerIds :
        \/ OnLoadApplicationFailed(id)
        \/ \E o \in Origins : OnApplicationPageChanged(id, o)

PlatformCalls ==
    \/ \E t \in XmlAits, lloc \in BOOLEAN : ProcessXmlAit(t, lloc)
    \/ \E t \in XmlAits, lloc \in BOOLEAN : ProcessDvbiXmlAit(t, lloc)
    \/ \E pid \in Pids, s \in Services :
        \/ ProcessAitSectionPartial(pid, s)
        \/ \E t \in BroadcastAits[s] : ProcessAitSectionLast(pid, s, t)
    \/ RunTeletextApplication
    \/ OnBroadcastStopped
    \/ \E s \in Services : OnChannelChanged(s)
    \/ \E available \in BOOLEAN : OnNetworkAvailabilityChanged(available)

Next ==
    \/ AppCalls
    \/ BrowserCalls
    \/ PlatformCalls
    \/ OnSelectedServiceAitTimeout
    \/ ParentalControlChanged

Spec == Init /\ [][Next]_vars
-----------------------------------------------------------------------------
(* Properties.                                                             *)

(* Every field of the manager keeps its type.                              *)
TypeOK ==
    /\ m \in Manager
    /\ parental \in BOOLEAN
    /\ returned \in [id : AppIds \cup {INVALID_APP_ID}, loadError : BOOLEAN]
    /\ crashed \in BOOLEAN

(* SlotsConsistent of a manager state.                                     *)
SlotsOk(mm) ==
    /\ RunningApps(mm) = {mm.hbbtvAppId, mm.opAppId} \ {INVALID_APP_ID}
    /\ \A id \in RunningApps(mm) :
        mm.apps[id].type = IF id = mm.hbbtvAppId THEN "hbbtv" ELSE "opapp"
    /\ mm.hbbtvAppId = mm.opAppId => mm.hbbtvAppId = INVALID_APP_ID
    /\ \A id \in RunningApps(mm) : id <= mm.nextId

(* The map m_apps holds exactly the applications m_hbbtvAppId and m_opAppId
   name, each in the slot of its type: no path through RunApp, KillRunningApp
   or a callback made from inside them leaves an application no slot names,
   which nothing could ever kill.                                          *)
SlotsConsistent == SlotsOk(m)

(* BrowserAgrees of a manager state.                                       *)
BrowserOk(mm) ==
    /\ mm.loaded \in RunningApps(mm) \cup {INVALID_APP_ID}
    /\ \A id \in RunningApps(mm) :
        id \in mm.visible <=> mm.apps[id].state # "BACKGROUND"

(* What the browser was last told agrees with the manager: the page it
   holds is about:blank or that of a running application, and it shows a
   running application exactly when the application's state says so.       *)
BrowserAgrees == BrowserOk(m)

(* While no OpApp shares the browser with it, the running HbbTV application
   is the page the browser holds: no kill of an application already replaced
   blanks the page of its successor.                                       *)
BrowserHoldsRunningApp == m.loaded = m.hbbtvAppId

(* A table in use while a service is selected was collected from the
   sections of that service: sections of the service left behind, delivered
   late, are never taken for the new one's.                                *)
AitOfCurrentService ==
    m.ait # NoAit /\ m.currentService # NoService =>
        m.ait.from \in {m.currentService, NoService}

(* The running HbbTV application, broadcast-related, on a selected service
   whose table is known: the table signals it.  Whatever its loading fails
   with afterwards finds the descriptor to mark.                           *)
BroadcastAppIsSignalled ==
    Running(m, m.hbbtvAppId) /\ m.ait # NoAit /\ m.currentService # NoService
        /\ HbbtvApp(m).isBroadcast => Signalled(m) # 0

(* "If the running app is not broadcast-related, we should not be tuned to
   broadcast": once the table of the selected service has been seen, the
   running HbbTV application is broadcast-related.                         *)
IndependentAppNotTuned ==
    Running(m, m.hbbtvAppId) /\ m.currentService # NoService
        /\ m.receivedFirstAit => HbbtvApp(m).isBroadcast

(* The running HbbTV application does not use a transport that already
   failed for it since the table was received: a failed load is never
   answered by loading the same thing again.                               *)
RunningTransportNotFailed ==
    Running(m, m.hbbtvAppId) /\ m.ait # NoAit /\ m.currentService # NoService
        /\ HbbtvApp(m).isBroadcast /\ HbbtvApp(m).protocolId # 0 =>
            \E j \in DOMAIN m.ait.apps[Signalled(m)].transports :
                LET tr == m.ait.apps[Signalled(m)].transports[j]
                IN  tr.protocolId = HbbtvApp(m).protocolId /\ ~tr.failedToLoad

(* The AIT timer never outlives the first table of the service it waits
   for: it cannot kill an application the table admitted.                  *)
TimerOnlyBeforeFirstAit == m.aitTimer => ~m.receivedFirstAit

(* On a service whose table has an autostart application, whichever way the
   running HbbTV application ends (killed by the table, destroyed, failed to
   load, timed out), a HbbTV application runs afterwards.                  *)
NeverLeftWithoutAutostart ==
    [][LET i == AutoStartApp(m'.ait.apps, parental)
       IN  Running(m, m.hbbtvAppId) /\ m'.currentService # NoService
            /\ m'.receivedFirstAit /\ m'.ait # NoAit /\ ~crashed'
            /\ i # 0 /\ ~m'.ait.apps[i].opApp
            => Running(m', m'.hbbtvAppId)]_vars

(* A complete table under parental control ends a running broadcast-related
   application the table rates above the age set on the device, however long
   it had been running: HbbTVApp::Update throws and the application dies.  *)
RestrictedAppEnds ==
    [][Running(m', m'.hbbtvAppId) /\ m'.ait \notin {m.ait, NoAit}
        /\ m'.receivedFirstAit /\ HbbtvApp(m').isBroadcast
        => ~IsAgeRestricted(HbbtvApp(m').aitDesc, parental)]_vars

(* A service-bound application stays with its service: when it survives the
   first table of a newly selected service, that service and the one which
   signalled it as bound are instances of one service.                     *)
BoundAppStaysInService ==
    [][LET id == m.hbbtvAppId
       IN  Running(m, id) /\ Running(m', id) /\ m.apps[id].isBroadcast
            /\ m.apps[id].aitDesc.serviceBound
            /\ m.apps[id].descFrom # NoService
            /\ m'.apps[id].descFrom \notin {m.apps[id].descFrom, NoService}
            => <<m.apps[id].descFrom, m'.currentService>> \in Instances]_vars

(* "@return The id of the newly created application": what CreateApplication
   returns other than INVALID_APP_ID is the id of the application the
   browser was told to load.                                               *)
CreateReturnsTheApp ==
    returned.id # INVALID_APP_ID =>
        /\ returned.id \in RunningApps(m)
        /\ returned.id = m.loaded
=============================================================================
