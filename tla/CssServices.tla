----------------------------- MODULE CssServices -----------------------------
(***************************************************************************)
(* The life of a MediaSynchroniser and of its three services, wall clock,  *)
(* content identification and timeline synchronisation, which the          *)
(* ServiceManager starts on one port each, registers under the lowest free *)
(* id and erases when their looper thread ends.  The application's thread  *)
(* and the loopers take three kinds of locks, all recursive: m_mutex of    *)
(* the synchroniser, mutex_ of the ServiceManager, connections_mutex_ of a *)
(* service.  A service may stop by itself (lws_service fails), and one of  *)
(* the three may fail to start, as when a predecessor still has the port.  *)
(***************************************************************************)
EXTENDS Integers, FiniteSets

CONSTANTS
    Syncs,         \* MediaSynchroniser objects
    MaxServices,   \* MAX_SERVICES
    MaxUnderrun,   \* bound: m_runningServices does not fall below its negative
    MaxFaults,     \* bound: failures of lws_service, of a start with a free port
    MaxClients,    \* bound: services with a client at the same time
    None, App      \* no thread, no object; the application's thread

ASSUME CssAssumption ==
    /\ MaxServices \in Nat /\ MaxClients \in Nat /\ MaxFaults \in Nat
    /\ MaxUnderrun \in Nat
    /\ None \notin Syncs
    /\ {None, App} \cap Nat = {} /\ None # App

Kinds == {"wc", "cii", "ts"}
Ids == 0..(MaxServices - 1)
Threads == {App} \cup Ids     \* a looper has the id of its service

VARIABLES
    sync,     \* the synchronisers
    service,  \* id -> services_ and callbacks_, with the looper's state
    mutex,    \* synchroniser -> the thread that holds m_mutex
    mgr,      \* the thread that holds ServiceManager::mutex_
    leaked,   \* the application's thread locked mutex_ once too often
    op,       \* the call the application's thread is in
    faults    \* failures so far

vars == <<sync, service, mutex, mgr, leaked, op, faults>>

Service ==
    [owner : Syncs, kind : Kinds,
     pc : {"loop", "ended", "manager", "owner"},  \* of the looper
     stop : BOOLEAN,                              \* stop_
     client : {"no", "yes", "closing"},           \* connections_
     busy : BOOLEAN]        \* in a callback that holds connections_mutex_

ASSUME NoneAssumption == None \notin Service

Sync ==
    [state : {"new", "active", "deleted", "freed"},
     running : (-MaxUnderrun)..Cardinality(Kinds),    \* m_runningServices
     syncing : BOOLEAN,
     id : [Kinds -> Ids \cup {-1}],  \* m_wcService, m_ciiService, m_tsService
     partial : BOOLEAN]              \* history: a start failed half way

Idle == [call |-> "none", of |-> None, step |-> "none", kind |-> None,
         next |-> None]
Op ==
    [call : {"enable", "disable", "delete"}, of : Syncs,
     step : {"lock", "start", "stop", "stopping", "unlock"},
     kind : Kinds \cup {None},       \* the service a step is about
     next : Syncs \cup {None}] \cup {Idle}

TypeOK ==
    /\ sync \in [Syncs -> Sync]
    /\ service \in [Ids -> Service \cup {None}]
    /\ mutex \in [Syncs -> Threads \cup {None}]
    /\ mgr \in Threads \cup {None}
    /\ leaked \in BOOLEAN
    /\ op \in Op
    /\ faults \in 0..MaxFaults

Init ==
    /\ sync = [s \in Syncs |-> [state |-> "new", running |-> 0, syncing |-> FALSE,
                                id |-> [k \in Kinds |-> -1], partial |-> FALSE]]
    /\ service = [i \in Ids |-> None]
    /\ mutex = [s \in Syncs |-> None]
    /\ mgr = None
    /\ leaked = FALSE
    /\ op = Idle
    /\ faults = 0
-----------------------------------------------------------------------------
Registered == {i \in Ids : service[i] # None}
ServicesOf(s) == {i \in Registered : service[i].owner = s}

(* FindService<...>(id).                                                   *)
Found(i, k) == i \in Registered /\ service[i].kind = k

(* ServiceManager::NewServiceId.                                           *)
NewServiceId ==
    IF Registered = Ids THEN -1
    ELSE CHOOSE i \in Ids \ Registered : \A j \in Ids \ Registered : i <= j

(* The port is taken while a looper of that kind has its context; two UDP
   sockets may share theirs.                                               *)
PortTaken(k) == k # "wc" /\ \E i \in Registered :
                   service[i].kind = k /\ service[i].pc = "loop"

(* WebSocketService::Stop and UdpSocketService::Stop.                      *)
Stopped(v) == [v EXCEPT !.stop = TRUE,
                        !.client = IF @ = "yes" THEN "closing" ELSE @]

(* A start fails if the port is taken, and otherwise may.                  *)
MayStart(k, ok) ==
    /\ mgr \in {None, App}
    /\ ok => ~PortTaken(k)
    /\ faults' = IF ok \/ PortTaken(k) THEN faults ELSE faults + 1
    /\ faults' <= MaxFaults

Release == mgr' = IF leaked THEN App ELSE None
-----------------------------------------------------------------------------
(* The application's thread.  MediaSynchroniserManager: initialising one
   synchroniser destroys the active one.                                   *)
InitMediaSynchroniser(s) ==
    LET active == {t \in Syncs : sync[t].state = "active"}
    IN  /\ op = Idle /\ sync[s].state = "new"
        /\ IF active = {}
           THEN /\ sync' = [sync EXCEPT ![s].state = "active"]
                /\ op' = Idle
           ELSE /\ op' = [call |-> "delete", of |-> CHOOSE t \in active : TRUE,
                          step |-> "lock", kind |-> None, next |-> s]
                /\ sync' = sync
        /\ UNCHANGED <<service, mutex, mgr, leaked, faults>>

Call(call, s) ==
    /\ op = Idle /\ sync[s].state = "active"
    /\ op' = [call |-> call, of |-> s, step |-> "lock", kind |-> None,
               next |-> None]
    /\ UNCHANGED <<sync, service, mutex, mgr, leaked, faults>>

EnableInterDeviceSync(s) == Call("enable", s)
DisableInterDeviceSync(s) == Call("disable", s)
DestroyMediaSynchroniser(s) == Call("delete", s)

At(step, k) == [op EXCEPT !.step = step, !.kind = k]

(* m_mutex is locked and what the call finds decides where it goes on: not
   enabled while services run, disabled only while syncing, deleted at once
   only if no service runs.                                                *)
Lock ==
    LET s == op.of
        stops == sync[s].syncing /\ op.call # "enable"
        frees == op.call = "delete" /\ sync[s].running <= 0
    IN  /\ op.step = "lock" /\ mutex[s] = None
        /\ mutex' = [mutex EXCEPT ![s] = App]
        /\ sync' = [sync EXCEPT
                      ![s].state = IF frees THEN "freed"
                                   ELSE IF op.call = "delete" THEN "deleted" ELSE @,
                      ![s].syncing = @ /\ ~(stops /\ ~frees)]
        /\ op' = IF op.call = "enable" /\ sync[s].running <= 0 THEN At("start", "wc")
                 ELSE IF stops /\ ~frees THEN At("stop", "ts")
                 ELSE At("unlock", None)
        /\ UNCHANGED <<service, mgr, leaked, faults>>

Started(k) == [owner |-> op.of, kind |-> k, pc |-> "loop", stop |-> FALSE,
               client |-> "no", busy |-> FALSE]

(* Mutant: where a service did not start, the id of the last one is kept.  *)
StartService_NotCleared(k, ok) ==
    LET id == IF ok THEN NewServiceId ELSE -1
    IN  /\ op.step = "start" /\ op.kind = k /\ k # "ts"
        /\ MayStart(k, ok)
        /\ service' = IF id = -1 THEN service ELSE [service EXCEPT ![id] = Started(k)]
        /\ sync' = IF id = -1 THEN sync ELSE [sync EXCEPT ![op.of].id[k] = id]
        /\ op' = At("start", IF k = "wc" THEN "cii" ELSE "ts")
        /\ UNCHANGED <<mutex, mgr, leaked>>

(* StartWallClockService and StartContentIdentificationService.            *)
StartService(k, ok) ==
    LET id == IF ok THEN NewServiceId ELSE -1
    IN  /\ op.step = "start" /\ op.kind = k /\ k # "ts"
        /\ MayStart(k, ok)
        /\ service' = IF id = -1 THEN service ELSE [service EXCEPT ![id] = Started(k)]
        /\ sync' = [sync EXCEPT ![op.of].id[k] = id]
        /\ op' = At("start", IF k = "wc" THEN "cii" ELSE "ts")
        /\ UNCHANGED <<mutex, mgr, leaked>>

(* StartTimelineSyncService and the rest of enableInterDeviceSync.  Without
   a content identification service it returns with mutex_ locked.  If one
   of the three did not start, disableInterDeviceSync finds nothing to do.  *)
StartTimelineSyncService(ok) ==
    LET s == op.of
        cii == Found(sync[s].id["cii"], "cii")
        id == IF cii /\ ok THEN NewServiceId ELSE -1
        ids == [sync[s].id EXCEPT !["ts"] = id]
        all == \A k \in Kinds : ids[k] > -1
    IN  /\ op.step = "start" /\ op.kind = "ts"
        /\ MayStart("ts", ok)
        /\ service' = IF id = -1 THEN service ELSE [service EXCEPT ![id] = Started("ts")]
        /\ leaked' = (leaked \/ ~cii)
        /\ mgr' = IF cii THEN mgr ELSE App
        /\ sync' = [sync EXCEPT
                      ![s].id = ids, ![s].syncing = all,
                      ![s].running = IF all THEN Cardinality(Kinds) ELSE @,
                      ![s].partial = @ \/ (~all /\ \E k \in Kinds : ids[k] > -1)]
        /\ op' = At("unlock", None)
        /\ UNCHANGED mutex

(* StopService: mutex_, then the service's connections_mutex_.             *)
StopService(k) ==
    /\ op.step = "stop" /\ op.kind = k /\ mgr \in {None, App}
    /\ mgr' = App
    /\ op' = At("stopping", k)
    /\ UNCHANGED <<sync, service, mutex, leaked, faults>>

StopFound(k) ==
    LET i == sync[op.of].id[k]
    IN  /\ op.step = "stopping" /\ op.kind = k
        /\ i \in Registered => ~service[i].busy
        /\ service' = IF i \in Registered
                      THEN [service EXCEPT ![i] = Stopped(@)] ELSE service
        /\ Release
        /\ op' = CASE k = "ts" -> At("stop", "cii")
                   [] k = "cii" -> At("stop", "wc")
                   [] k = "wc" -> At("unlock", None)
        /\ UNCHANGED <<sync, mutex, leaked, faults>>

Unlock ==
    /\ op.step = "unlock"
    /\ mutex' = [mutex EXCEPT ![op.of] = None]
    /\ sync' = IF op.next = None THEN sync
               ELSE [sync EXCEPT ![op.next].state = "active"]
    /\ op' = Idle
    /\ UNCHANGED <<service, mgr, leaked, faults>>
-----------------------------------------------------------------------------
(* Clients come while the looper serves, stopping or not; those Stop found
   are closed.  A TS client's setup and disconnection start and stop a
   timeline: the callback holds connections_mutex_ and waits for m_mutex.  *)
WithClient == {i \in Registered : service[i].client # "no"}

ClientConnects(i) ==
    /\ i \in Registered /\ service[i].pc = "loop" /\ ~service[i].busy
    /\ service[i].kind # "wc" /\ service[i].client = "no"
    /\ Cardinality(WithClient) < MaxClients
    /\ service' = [service EXCEPT ![i].client = "yes"]
    /\ UNCHANGED <<sync, mutex, mgr, leaked, op, faults>>

ClientCloses(i) ==
    /\ i \in WithClient /\ service[i].kind = "cii"
    /\ service' = [service EXCEPT ![i].client = "no"]
    /\ UNCHANGED <<sync, mutex, mgr, leaked, op, faults>>

TsCallback(i) ==
    /\ i \in WithClient /\ service[i].kind = "ts" /\ ~service[i].busy
    /\ service' = [service EXCEPT ![i].busy = TRUE]
    /\ UNCHANGED <<sync, mutex, mgr, leaked, op, faults>>

TsCallbackEnds(i, client) ==
    /\ i \in Registered /\ service[i].busy
    /\ mutex[service[i].owner] = None
    /\ client = service[i].client \/ client = "no"
    /\ service' = [service EXCEPT ![i].busy = FALSE, ![i].client = client]
    /\ UNCHANGED <<sync, mutex, mgr, leaked, op, faults>>

(* MainLooper ends, asked to and without connections, or because
   lws_service failed: the context goes and with it the port.              *)
LooperEnds(i) ==
    /\ i \in Registered /\ service[i].pc = "loop"
    /\ service[i].stop /\ service[i].client = "no" /\ ~service[i].busy
    /\ service' = [service EXCEPT ![i].pc = "ended"]
    /\ UNCHANGED <<sync, mutex, mgr, leaked, op, faults>>

LwsServiceFails(i) ==
    /\ i \in Registered /\ service[i].pc = "loop" /\ ~service[i].busy
    /\ sync[service[i].owner].running > -MaxUnderrun
    /\ faults < MaxFaults
    /\ faults' = faults + 1
    /\ service' = [service EXCEPT ![i].pc = "ended", ![i].stop = TRUE,
                                  ![i].client = "no"]
    /\ UNCHANGED <<sync, mutex, mgr, leaked, op>>

(* ServiceManager::OnServiceStopped and MediaSyncServiceCallback::OnStopped:
   mutex_, then the owner's m_mutex.                                       *)
OnServiceStopped(i) ==
    /\ i \in Registered /\ service[i].pc = "ended" /\ mgr = None
    /\ mgr' = i
    /\ service' = [service EXCEPT ![i].pc = "manager"]
    /\ UNCHANGED <<sync, mutex, leaked, op, faults>>

OnStopped(i) ==
    /\ i \in Registered /\ service[i].pc = "manager"
    /\ mutex[service[i].owner] = None
    /\ mutex' = [mutex EXCEPT ![service[i].owner] = i]
    /\ service' = [service EXCEPT ![i].pc = "owner"]
    /\ UNCHANGED <<sync, mgr, leaked, op, faults>>

(* The service is erased and the locks are released; the services of
   "stops" are stopped; one service less is running, and the last one takes
   the ids and a deleted synchroniser with it.  What this does to a
   synchroniser that was freed is undefined; here, nothing.                *)
EraseStopping(i, stops, syncing, last) ==
    LET s == service[i].owner
    IN  /\ i \in Registered /\ service[i].pc = "owner"
        /\ \A j \in stops : ~service[j].busy
        /\ service' = [j \in Ids |-> IF j = i THEN None
                                     ELSE IF j \in stops THEN Stopped(service[j])
                                     ELSE service[j]]
        /\ sync' = IF sync[s].state = "freed" THEN sync
                   ELSE [sync EXCEPT
                           ![s].syncing = syncing,
                           ![s].running = IF @ > -MaxUnderrun THEN @ - 1 ELSE @,
                           ![s].id = IF last THEN [@ EXCEPT !["ts"] = -1, !["cii"] = -1]
                                     ELSE @,
                           ![s].state = IF last /\ @ = "deleted" THEN "freed" ELSE @]
        /\ mutex' = [mutex EXCEPT ![s] = None]
        /\ Release
        /\ UNCHANGED <<leaked, op, faults>>

(* disableInterDeviceSync as the looper runs it: it stops the services the
   synchroniser has ids of, its own included.                              *)
Disabled(s) ==
    IF sync[s].syncing
    THEN {j \in Registered : \E k \in Kinds : sync[s].id[k] = j}
    ELSE {}

(* Mutants: the last but one frees; the synchroniser goes on syncing; the
   others are left running.                                                *)
Erase_LastButOne(i) ==
    LET s == service[i].owner
    IN  EraseStopping(i, Disabled(s), FALSE, sync[s].running - 1 <= 1)

Erase_StillSyncing(i) ==
    LET s == service[i].owner
    IN  EraseStopping(i, Disabled(s), sync[s].syncing, sync[s].running - 1 <= 0)

Erase_LeavesOthers(i) ==
    LET s == service[i].owner
    IN  EraseStopping(i, {}, FALSE, sync[s].running - 1 <= 0)

Erase(i) ==
    LET s == service[i].owner
    IN  EraseStopping(i, Disabled(s), FALSE, sync[s].running - 1 <= 0)
-----------------------------------------------------------------------------
AppStep ==
    \/ Lock
    \/ \E k \in Kinds, ok \in BOOLEAN : StartService(k, ok)
    \/ \E ok \in BOOLEAN : StartTimelineSyncService(ok)
    \/ \E k \in Kinds : StopService(k) \/ StopFound(k)
    \/ Unlock

LooperStep(i) ==
    \/ \E client \in {"no", "yes", "closing"} : TsCallbackEnds(i, client)
    \/ LooperEnds(i)
    \/ OnServiceStopped(i)
    \/ OnStopped(i)
    \/ Erase(i)

Next ==
    \/ \E s \in Syncs : \/ InitMediaSynchroniser(s)
                        \/ EnableInterDeviceSync(s)
                        \/ DisableInterDeviceSync(s)
                        \/ DestroyMediaSynchroniser(s)
    \/ AppStep
    \/ \E i \in Ids : \/ LooperStep(i)
                      \/ ClientConnects(i)
                      \/ ClientCloses(i)
                      \/ TsCallback(i)
                      \/ LwsServiceFails(i)

Spec == Init /\ [][Next]_vars

(* A thread that can go on does, and a connection that is to be closed is. *)
FairSpec ==
    /\ Spec
    /\ WF_vars(AppStep)
    /\ \A i \in Ids : WF_vars(LooperStep(i))
-----------------------------------------------------------------------------
Enabling(s) == op.call = "enable" /\ op.of = s /\ op.step = "start"

(* m_runningServices is the number of the synchroniser's services that have
   not called back, unless a start failed half way: enableInterDeviceSync
   sets it, and three loopers count it down in any order.                  *)
RunningServicesCounted ==
    \A s \in Syncs : ~sync[s].partial /\ ~Enabling(s) =>
        sync[s].running = Cardinality(ServicesOf(s))

(* A deleted synchroniser is freed with the last of its services, which point
   to it: not later, whatever start failed, and not earlier unless one failed
   half way.  After a half-failed start the services left over count down
   m_runningServices as well, and the code frees it with services running.  *)
FreedWithItsServices ==
    \A s \in Syncs :
        /\ sync[s].state = "deleted" => ServicesOf(s) # {}
        /\ sync[s].state = "freed" /\ ~sync[s].partial => ServicesOf(s) = {}

(* While it is syncing, and while it is being disabled, the ids a
   synchroniser keeps are those of its own services: no id it is about to
   stop has been given to somebody else's service in between.              *)
StopsItsOwnServices ==
    \A s \in Syncs, k \in Kinds :
        LET i == sync[s].id[k]
        IN  /\ sync[s].syncing => i \in ServicesOf(s) /\ service[i].kind = k
            /\ /\ op.of = s /\ op.step \in {"stop", "stopping"} /\ op.kind = k
               /\ i \in Registered
               => i \in ServicesOf(s)

Syncing(s) == sync[s].syncing /\ \E i \in ServicesOf(s) : service[i].pc = "ended"

(* "if one of the media synchroniser services is stopped abtruptly, stop the
   others as well" (OnStopped): then none is left.                         *)
AbruptStopStopsTheOthers ==
    \A s \in Syncs : Syncing(s) ~> ServicesOf(s) = {}

(* The same as long as the application's thread stays out of it, holding
   neither mutex, and no client is connected.                              *)
UndisturbedStopStopsTheOthers ==
    \A s \in Syncs : Syncing(s) ~>
        (ServicesOf(s) = {} \/ sync[s].partial \/ op # Idle \/ leaked \/ WithClient # {})
=============================================================================
