-------------------------- MODULE TimelineMonitoring --------------------------
(***************************************************************************)
(* The timelines of one MediaSynchroniser and the TimelineSyncService (TS) *)
(* that serves them to companion screens.  Three parties use them: the     *)
(* application, which starts, stops and announces timelines, the platform, *)
(* whose TEMI filters report, and the TS clients, each of which names the  *)
(* timeline it wants.  Each works on a thread of its own.                  *)
(*                                                                         *)
(* What holds m_mutex to its end is one step, up to its last call, the     *)
(* update of the clients.  setTimelineAvailability takes m_mutex only in   *)
(* what it calls, and the TS looper only in startTimelineMonitoring and    *)
(* stopTimelineMonitoring: these go step by step.  An update reads what a  *)
(* client should have and sends it in two steps, in any thread.            *)
(*                                                                         *)
(* A timeline is first awaited (pendingWatchers), and its watchers count   *)
(* (numWatchers) once it is available; a TimelineSource with its clock     *)
(* exists from then on until the last watcher stops.                       *)
(***************************************************************************)
EXTENDS Integers, FiniteSets

CONSTANTS
    Selectors,     \* timeline selectors
    Kind,          \* selector -> "pts", "temi", "other" or "invalid"
    Clients,       \* companion screens
    ContentIds, NoContentId,
    None,          \* no selector, no message
    Sys,           \* m_sysClock, the clock without a parent
    Stems,         \* content id stems the clients ask for
    MaxMedia,      \* bound: media objects, each of another selector
    MaxWatchers,   \* bound: watchers of all timelines, when one more comes
    MaxUses,       \* bound: uses of all timelines, when a client sets up
    MaxFilters     \* bound: TEMI filters opened for one selector

ASSUME KindAssumption ==
    /\ Kind \in [Selectors -> {"pts", "temi", "other", "invalid"}]
    /\ None \notin Selectors /\ Sys \notin Selectors /\ Sys # None
    /\ IsFiniteSet(Clients) /\ None \notin Clients
    /\ NoContentId \notin ContentIds
    /\ MaxMedia \in Nat /\ MaxUses \in Nat /\ MaxWatchers \in Nat
    /\ Stems \subseteq ContentIds \cup {NoContentId}
    /\ MaxFilters \in Nat

VARIABLES
    m,         \* the MediaSynchroniser and its TimelineSyncService
    media,     \* selectors of the media objects the application has added
    period,    \* selectors of the master's periods (timelines)
    current,   \* selector of the master's current period (curPeriod), or None
    call,      \* the next call of the handler the application is in
    abandoned, \* selectors the application stopped more often than it started
    looper,    \* what the TS looper's callback does next
    update,    \* thread -> the update of the clients it is in
    told       \* client -> m_connectionPreviousControlTimestamp, last sent

page == <<media, period, current, abandoned>>
service == <<looper, update, told>>
vars == <<m, page, call, service>>
-----------------------------------------------------------------------------
(* A TimelineWrapper of m_timelines; filter n > 0 is the n-th TEMI filter
   opened for the selector, 0 is -1.                                       *)
NewEntry == [num |-> 0, pending |-> 0, filter |-> 0]
NoEntry == [num |-> -1, pending |-> -1, filter |-> -1]
Entry == [num : Nat, pending : Nat, filter : 0..MaxFilters] \cup {NoEntry}

(* A TimelineSource and its CorrelatedClock.                               *)
NoSource == [available |-> FALSE, parent |-> None]
Source == [available : BOOLEAN, parent : Selectors \cup {Sys}] \cup {NoSource}

MediaSync ==
    [entry : [Selectors -> Entry],            \* m_timelines
     source : [Selectors -> Source],          \* m_timelineSources
     master : Selectors \cup {None},          \* m_masterTimeline
     cii : SUBSET Selectors,                  \* "timelines" of m_ciiProps
     opened : [Selectors -> 0..MaxFilters],   \* filters opened so far
     running : SUBSET (Selectors \X (1..MaxFilters)),  \* and not stopped
     contentId : ContentIds \cup {NoContentId},
     override : ContentIds \cup {NoContentId},
     deleted : BOOLEAN,                       \* m_delete
     ts : {"none", "up", "stopping"},         \* the TimelineSyncService
     attached : SUBSET Selectors,             \* its m_timelineSources
     uses : [Selectors -> Nat],               \* its m_timelineSelectors
     setup : [Clients -> Selectors \cup {None}],
     stem : [Clients -> ContentIds \cup {NoContentId}]]

(* "either": whatever two threads that race in updateClient make of it.     *)
Timestamps == {"available", "unavailable", "either"}
Threads == {"application", "platform", "looper"}

(* An update: the clients left, the one updateClient is at and what it read
   for it, and whether m_mutex is held.                                    *)
Update == [todo : SUBSET Clients, at : Clients \cup {None},
           ct : Timestamps \cup {None}, locked : BOOLEAN]
NoUpdate == [todo |-> {}, at |-> None, ct |-> None, locked |-> FALSE]

(* A handler of the page: its next call, the selector of the
   setTimelineAvailability it is in, and what it calls after that.         *)
Call == [at : {"none", "start", "announce", "add", "speed", "unavailable"},
         selector : Selectors \cup {None}, after : {"none", "start", "announce"}]
NoCall == [at |-> "none", selector |-> None, after |-> "none"]

(* A callback of the looper.                                               *)
Work == [at : {"idle", "start", "update", "stop", "forget"},
         client : Clients \cup {None}, selector : Selectors \cup {None}]
NoWork == [at |-> "idle", client |-> None, selector |-> None]

TypeOK ==
    /\ m \in MediaSync
    /\ media \subseteq Selectors
    /\ period \subseteq Selectors
    /\ current \in Selectors \cup {None}
    /\ call \in Call
    /\ abandoned \subseteq Selectors
    /\ looper \in Work
    /\ update \in [Threads -> Update]
    /\ told \in [Clients -> Timestamps \cup {None}]

Init ==
    /\ m = [entry |-> [s \in Selectors |-> NoEntry],
            source |-> [s \in Selectors |-> NoSource],
            master |-> None, cii |-> {},
            opened |-> [s \in Selectors |-> 0], running |-> {},
            contentId |-> NoContentId, override |-> NoContentId,
            deleted |-> FALSE, ts |-> "none", attached |-> {},
            uses |-> [s \in Selectors |-> 0],
            setup |-> [c \in Clients |-> None],
            stem |-> [c \in Clients |-> NoContentId]]
    /\ media = {}
    /\ period = {}
    /\ current = None
    /\ call = NoCall
    /\ abandoned = {}
    /\ looper = NoWork
    /\ update = [t \in Threads |-> NoUpdate]
    /\ told = [c \in Clients |-> None]
-----------------------------------------------------------------------------
(* The entry operator[] yields: a new one if there was none.               *)
At(mm, s) == IF mm.entry[s] = NoEntry THEN NewEntry ELSE mm.entry[s]
HasSource(mm, s) == mm.source[s] # NoSource

(* ClockBase::isAvailable.                                                 *)
IsAvailable(mm, s) ==
    LET p == mm.source[s].parent
    IN  mm.source[s].available /\ (p = Sys \/ mm.source[p].available)

(* TimelineSyncService::getContentId and ciMatchesStem.                    *)
ContentId(mm) == IF mm.override = NoContentId THEN mm.contentId ELSE mm.override
MatchesStem(mm, c) ==
    /\ ContentId(mm) # NoContentId
    /\ mm.stem[c] \in {ContentId(mm), NoContentId}

(* TimelineSyncService::updateClient: the control timestamp a client should
   have.                                                                   *)
ControlTimestamp(mm, c) ==
    LET s == mm.setup[c]
    IN  IF MatchesStem(mm, c) /\ s \in mm.attached /\ IsAvailable(mm, s)
        THEN "available" ELSE "unavailable"

(* CorrelatedClock::setParent for every source.                            *)
SetParents(mm, p) ==
    [mm EXCEPT !.source = [s \in Selectors |->
        IF HasSource(mm, s) THEN [mm.source[s] EXCEPT !.parent = p]
        ELSE NoSource]]

SetAvailability(mm, s, isAvailable) ==
    IF HasSource(mm, s) THEN [mm EXCEPT !.source[s].available = isAvailable] ELSE mm
-----------------------------------------------------------------------------
(* addTimeline of a selector with an entry or without.  The new source's
   clock runs on m_sysClock; if it is the master's, the others run on it.  *)
CreateSource(mm, s) ==
    LET parents == IF mm.master = s THEN SetParents(mm, s) ELSE mm
    IN  [parents EXCEPT !.source[s] = [available |-> TRUE, parent |-> Sys],
                        !.cii = @ \cup {s},
                        !.attached = IF mm.ts = "none" THEN @ ELSE @ \cup {s}]

AddTimeline(mm, s) ==
    LET e == At(mm, s)
        flushed == [e EXCEPT !.num = @ + e.pending, !.pending = 0]
        watched == [mm EXCEPT !.entry[s] = flushed]
    IN  IF mm.entry[s] = NoEntry \/ flushed.num = 0
        THEN [mm EXCEPT !.entry[s] = NoEntry]
        ELSE IF e.num > 0 \/ HasSource(mm, s) THEN watched
        ELSE CreateSource(watched, s)

(* Mutant: the clocks stay on the master's when it is destroyed.           *)
RemoveTimeline_KeepsParents(mm, s) ==
    LET orphaned == IF mm.master = s THEN [mm EXCEPT !.master = None] ELSE mm
        removed == [orphaned EXCEPT
                      !.source[s] = NoSource, !.cii = @ \ {s},
                      !.attached = @ \ {s}]
        gone == IF HasSource(mm, s) THEN removed ELSE mm
    IN  [gone EXCEPT !.entry[s] = NoEntry]

(* removeTimeline: the source goes, its entry with it.                     *)
RemoveTimeline(mm, s) ==
    LET orphaned == IF mm.master = s
                    THEN [SetParents(mm, Sys) EXCEPT !.master = None] ELSE mm
        removed == [orphaned EXCEPT
                      !.source[s] = NoSource, !.cii = @ \ {s},
                      !.attached = @ \ {s}]
        gone == IF HasSource(mm, s) THEN removed ELSE mm
    IN  [gone EXCEPT !.entry[s] = NoEntry]

(* startTEMITimelineMonitoring of the platform, which may fail.            *)
OpenFilter(mm, s, ok) ==
    LET n == mm.opened[s] + 1
    IN  IF ok /\ n <= MaxFilters
        THEN [mm EXCEPT !.opened[s] = n, !.running = @ \cup {<<s, n>>},
                        !.entry[s].filter = n]
        ELSE mm

StartTimelineMonitoring(mm, s, isMaster, ok) ==
    LET e == At(mm, s)
        awaited == [mm EXCEPT !.entry[s] = [e EXCEPT !.pending = 1],
                              !.master = IF isMaster THEN s ELSE @]
    IN  IF e.num > 0 THEN [mm EXCEPT !.entry[s].num = @ + 1]
        ELSE IF e.pending > 0 THEN [mm EXCEPT !.entry[s].pending = @ + 1]
        ELSE IF Kind[s] = "invalid" THEN [mm EXCEPT !.entry[s] = NoEntry]
        ELSE IF Kind[s] = "temi" THEN OpenFilter(awaited, s, ok)
        ELSE IF Kind[s] = "pts" THEN AddTimeline(awaited, s)
        ELSE awaited

(* What it returns: false also when it only counted one more watcher.      *)
StartReturns(mm, s) ==
    At(mm, s).num = 0 /\ At(mm, s).pending = 0 /\ Kind[s] # "invalid"

CloseFilter(mm, s) == [mm EXCEPT !.running = @ \ {<<s, At(mm, s).filter>>}]

(* Mutant: the last watcher is only counted off.                           *)
StopTimelineMonitoring_KeepsSource(mm, s, forceStop) ==
    LET e == At(mm, s)
    IN  IF forceStop THEN RemoveTimeline(CloseFilter(mm, s), s)
        ELSE IF e.pending > 0 THEN [mm EXCEPT !.entry[s].pending = @ - 1]
        ELSE IF e.num > 0 THEN [mm EXCEPT !.entry[s].num = @ - 1]
        ELSE [mm EXCEPT !.entry[s] = NoEntry]

StopTimelineMonitoring(mm, s, forceStop) ==
    LET e == At(mm, s)
    IN  IF forceStop \/ (e.num = 1 /\ e.pending = 0)
        THEN RemoveTimeline(CloseFilter(mm, s), s)
        ELSE IF e.pending > 0 THEN [mm EXCEPT !.entry[s].pending = @ - 1]
        ELSE IF e.num > 1 THEN [mm EXCEPT !.entry[s].num = @ - 1]
        ELSE [mm EXCEPT !.entry[s] = NoEntry]

(* The threads.  An update holds m_mutex if the method it ends does; addTimeline
   and removeTimeline make one if they create or destroy a source.         *)
InUpdate(t) == update[t].todo # {}
MutexFree == \A t \in Threads : ~(InUpdate(t) /\ update[t].locked)

UpdateAllTSClients(t, locked) ==
    update' = [update EXCEPT ![t] =
                  IF m'.ts = "none" THEN NoUpdate
                  ELSE [NoUpdate EXCEPT !.todo = Clients, !.locked = locked]]

UpdateIfSourcesChange(t) ==
    IF \E s \in Selectors : HasSource(m, s) # HasSource(m', s)
    THEN UpdateAllTSClients(t, TRUE) ELSE UNCHANGED update

(* updateClient reads what the client should have; a client that sent no setup
   data is passed over.  Two threads in updateClient race for the maps and
   for the timestamp a source keeps (m_changed): both may get either.      *)
Finished(t, c) ==
    IF update[t].todo = {c} THEN NoUpdate
    ELSE [NoUpdate EXCEPT !.todo = update[t].todo \ {c}, !.locked = update[t].locked]

ReadClient(t, c) ==
    LET others == {u \in Threads \ {t} : update[u].at # None}
        ct == IF others = {} THEN ControlTimestamp(m, c) ELSE "either"
    IN  /\ c \in update[t].todo /\ update[t].at = None /\ m.setup[c] # None
        /\ update' = [u \in Threads |->
               IF u = t THEN [update[t] EXCEPT !.at = c, !.ct = ct]
               ELSE IF u \in others THEN [update[u] EXCEPT !.ct = "either"]
               ELSE update[u]]
        /\ UNCHANGED <<m, page, call, looper, told>>

PassOver(t, c) ==
    /\ c \in update[t].todo /\ update[t].at = None /\ m.setup[c] = None
    /\ update' = [update EXCEPT ![t] = Finished(t, c)]
    /\ UNCHANGED <<m, page, call, looper, told>>

(* It stores and sends it, if it changed and the client is still there.    *)
SendClient(t, c) ==
    /\ c = update[t].at
    /\ update' = [update EXCEPT ![t] = Finished(t, c)]
    /\ told' = IF m.setup[c] = None THEN told ELSE [told EXCEPT ![c] = update[t].ct]
    /\ UNCHANGED <<m, page, call, looper>>
-----------------------------------------------------------------------------
(* The application runs one handler at a time, on one thread; it is between
   two of them, and the master has been initialised.                       *)
Between == ~m.deleted /\ call = NoCall /\ ~InUpdate("application")
Idle == Between /\ MutexFree
Ready == Idle /\ current # None

RoomForWatcher ==
    Cardinality({w \in Selectors \X (1..MaxWatchers) :
                   w[2] <= m.entry[w[1]].num + m.entry[w[1]].pending}) < MaxWatchers

RoomForUse ==
    Cardinality({u \in Selectors \X (1..MaxUses) : u[2] <= m.uses[u[1]]}) < MaxUses

(* setTimelineAvailability, which holds m_mutex nowhere itself: the source's
   clock is set; then addTimeline and setContentTimeAndSpeed, or one update. *)
SetTimelineAvailability(s, isAvailable, after) ==
    /\ m' = SetAvailability(m, s, isAvailable)
    /\ call' = [at |-> IF isAvailable THEN "add" ELSE "unavailable",
                selector |-> s, after |-> after]

AddAvailable ==
    /\ call.at = "add" /\ MutexFree
    /\ m' = AddTimeline(m, call.selector)
    /\ UpdateIfSourcesChange("application")
    /\ call' = [call EXCEPT !.at = "speed"]
    /\ UNCHANGED <<page, looper, told>>

SetContentTimeAndSpeed ==
    /\ call.at = "speed" /\ ~InUpdate("application") /\ MutexFree
    /\ UNCHANGED m
    /\ UpdateAllTSClients("application", TRUE)
    /\ call' = [NoCall EXCEPT !.at = call.after]
    /\ UNCHANGED <<page, looper, told>>

(* Mutant: the clients hear of a timeline that comes, not of one that goes. *)
UpdateUnavailable_Silent ==
    /\ call.at = "unavailable" /\ ~InUpdate("application")
    /\ call' = [NoCall EXCEPT !.at = call.after]
    /\ UNCHANGED <<m, page, service>>

UpdateUnavailable ==
    /\ call.at = "unavailable" /\ ~InUpdate("application")
    /\ UNCHANGED m
    /\ UpdateAllTSClients("application", FALSE)
    /\ call' = [NoCall EXCEPT !.at = call.after]
    /\ UNCHANGED <<page, looper, told>>

InitMediaSynchroniser(s, ok) ==
    /\ Idle /\ current = None /\ StartReturns(m, s)
    /\ m' = StartTimelineMonitoring(m, s, TRUE, ok)
    /\ UpdateIfSourcesChange("application")
    /\ current' = s
    /\ period' = {s}
    /\ UNCHANGED <<media, call, abandoned, looper, told>>

(* onPeriodChangedHandler: the old period's timeline becomes unavailable,
   the new one is started unless it has been, and becomes available.       *)
PeriodChanged(s) ==
    LET after == IF s \in period THEN "announce" ELSE "start"
    IN  /\ Between /\ current # None
        /\ RoomForWatcher /\ s # current /\ Kind[s] = "other" /\ Kind[current] = "other"
        /\ IF current \in period THEN SetTimelineAvailability(current, FALSE, after)
           ELSE UNCHANGED m /\ call' = [NoCall EXCEPT !.at = after]
        /\ current' = s
        /\ UNCHANGED <<media, period, abandoned, service>>

StartPeriod ==
    /\ call.at = "start" /\ ~InUpdate("application") /\ MutexFree
    /\ m' = StartTimelineMonitoring(m, current, TRUE, TRUE)
    /\ UpdateIfSourcesChange("application")
    /\ period' = period \cup {current}
    /\ call' = [NoCall EXCEPT !.at = "announce"]
    /\ UNCHANGED <<media, current, abandoned, looper, told>>

AnnouncePeriod ==
    /\ call.at = "announce" /\ ~InUpdate("application")
    /\ SetTimelineAvailability(current, TRUE, "none")
    /\ UNCHANGED <<page, service>>

(* onStreamUpdatedHandler: a period that left the stream is stopped for
   every watcher; so is the first one if another is being presented.       *)
PeriodGone(s) ==
    /\ Idle /\ s \in period /\ Kind[s] = "other"
    /\ m' = StopTimelineMonitoring(m, s, TRUE)
    /\ UpdateIfSourcesChange("application")
    /\ period' = period \ {s}
    /\ abandoned' = abandoned \cup {s}
    /\ UNCHANGED <<media, current, call, looper, told>>

(* addMediaObject keeps the object only if startTimelineMonitoring returns
   true; removeMediaObject stops once for each one kept.                   *)
AddMediaObject(s, ok) ==
    /\ Ready /\ s \notin media /\ Cardinality(media) < MaxMedia
    /\ RoomForWatcher
    /\ m' = StartTimelineMonitoring(m, s, FALSE, ok)
    /\ UpdateIfSourcesChange("application")
    /\ media' = IF StartReturns(m, s) THEN media \cup {s} ELSE media
    /\ UNCHANGED <<period, current, call, abandoned, looper, told>>

RemoveMediaObject(s) ==
    /\ Ready /\ s \in media
    /\ m' = StopTimelineMonitoring(m, s, FALSE)
    /\ UpdateIfSourcesChange("application")
    /\ media' = media \ {s}
    /\ UNCHANGED <<period, current, call, abandoned, looper, told>>

(* MediaElementTsClient stops a period of its media that left the stream;
   removeMediaObject will stop the same selector again.                    *)
MediaPeriodGone(s) ==
    /\ Ready /\ s \in media /\ Kind[s] = "other" /\ s \notin abandoned
    /\ m' = StopTimelineMonitoring(m, s, FALSE)
    /\ UpdateIfSourcesChange("application")
    /\ abandoned' = abandoned \cup {s}
    /\ UNCHANGED <<media, period, current, call, looper, told>>

(* The timeline of the master or of a media object is there, or it goes.   *)
AnnounceTimeline(s, isAvailable) ==
    /\ Between /\ current # None /\ Kind[s] = "other"
    /\ (s = current /\ s \in period /\ isAvailable) \/ s \in media
    /\ SetTimelineAvailability(s, isAvailable, "none")
    /\ UNCHANGED <<page, service>>

UpdateCssCiiProperties(id) ==
    /\ Idle
    /\ m' = [m EXCEPT !.contentId = id]
    /\ UpdateAllTSClients("application", TRUE)
    /\ UNCHANGED <<page, call, looper, told>>

SetContentIdOverride(id) ==
    /\ Idle
    /\ m' = [m EXCEPT !.override = id]
    /\ IF id # m.override THEN UpdateAllTSClients("application", TRUE)
       ELSE UNCHANGED update
    /\ UNCHANGED <<page, call, looper, told>>

(* The looper's callbacks run under its connections_mutex_, which stopping
   the service takes as well.                                              *)
LooperFree == looper = NoWork /\ ~InUpdate("looper")

(* Mutant: the entries of the stopped filters are kept.                    *)
DeleteLater_KeepsEntries ==
    /\ Idle /\ (m.ts = "up" => LooperFree)
    /\ m' = [m EXCEPT !.deleted = TRUE,
                      !.running = @ \ {<<s, m.entry[s].filter>> : s \in Selectors},
                      !.ts = IF @ = "up" THEN "stopping" ELSE @]
    /\ UNCHANGED <<page, call, service>>

(* deleteLater: the filters are stopped, the sources stay until the object
   is deleted.                                                             *)
DeleteLater ==
    /\ Idle /\ (m.ts = "up" => LooperFree)
    /\ m' = [m EXCEPT !.deleted = TRUE,
                      !.running = @ \ {<<s, m.entry[s].filter>> : s \in Selectors},
                      !.entry = [s \in Selectors |-> NoEntry],
                      !.ts = IF @ = "up" THEN "stopping" ELSE @]
    /\ UNCHANGED <<page, call, service>>
-----------------------------------------------------------------------------
(* The platform: a filter reports, to a synchroniser the manager still
   knows, or the broadcast is presented again and the filters that could not
   be opened are retried.                                                  *)
SetTEMITimelineAvailability(s, n, isAvailable) ==
    /\ ~m.deleted /\ MutexFree
    /\ <<s, n>> \in m.running /\ m.entry[s].filter = n
    /\ m' = LET set == SetAvailability(m, s, isAvailable)
            IN  IF isAvailable THEN AddTimeline(set, s) ELSE set
    /\ UpdateAllTSClients("platform", TRUE)
    /\ UNCHANGED <<page, call, looper, told>>

UpdateBroadcastContentStatus(opens) ==
    LET retried == {s \in opens : /\ Kind[s] = "temi" /\ m.entry[s].filter = 0
                                  /\ m.opened[s] < MaxFilters}
    IN  /\ ~m.deleted /\ MutexFree /\ retried # {}
        /\ m' = [m EXCEPT
                   !.opened = [s \in Selectors |->
                                 IF s \in retried THEN @[s] + 1 ELSE @[s]],
                   !.running = @ \cup {<<s, m.opened[s] + 1>> : s \in retried},
                   !.entry = [s \in Selectors |->
                                IF s \in retried
                                THEN [@[s] EXCEPT !.filter = m.opened[s] + 1]
                                ELSE @[s]]]
        /\ UNCHANGED <<page, call, service>>
-----------------------------------------------------------------------------
(* The TimelineSyncService is started with every source attached, stopped,
   and gone once its connections are closed.                               *)
EnableInterDeviceSync ==
    /\ Idle /\ m.ts = "none"
    /\ m' = [m EXCEPT !.ts = "up",
                      !.attached = {s \in Selectors : HasSource(m, s)},
                      !.uses = [s \in Selectors |-> 0]]
    /\ UNCHANGED <<page, call, service>>

DisableInterDeviceSync ==
    /\ Idle /\ m.ts = "up" /\ LooperFree
    /\ m' = [m EXCEPT !.ts = "stopping"]
    /\ UNCHANGED <<page, call, service>>

(* OnStopped; an update that holds no mutex is cut short with the service. *)
ServiceGone ==
    /\ m.ts = "stopping" /\ LooperFree /\ MutexFree
    /\ \A c \in Clients : m.setup[c] = None
    /\ m' = [m EXCEPT !.ts = "none", !.attached = {},
                      !.uses = [s \in Selectors |-> 0]]
    /\ update' = [t \in Threads |-> NoUpdate]
    /\ UNCHANGED <<page, call, looper, told>>

(* configureConnectionWithSetupData: the setup data, which a client may send
   again without being counted off its old selector, the count with the start
   of the first use, the client's update.                                  *)
ClientSetup(c, s, stem) ==
    /\ m.ts # "none" /\ LooperFree
    /\ RoomForUse /\ (m.uses[s] = 0 => RoomForWatcher)
    /\ m' = [m EXCEPT !.setup[c] = s, !.stem[c] = stem]
    /\ looper' = [at |-> "start", client |-> c, selector |-> s]
    /\ UNCHANGED <<page, call, update, told>>

StartForClient(ok) ==
    LET s == looper.selector
        counted == [m EXCEPT !.uses[s] = @ + 1]
    IN  /\ looper.at = "start"
        /\ IF m.uses[s] = 0
           THEN /\ MutexFree
                /\ m' = StartTimelineMonitoring(counted, s, FALSE, ok)
                /\ UpdateIfSourcesChange("looper")
           ELSE m' = counted /\ UNCHANGED update
        /\ looper' = [looper EXCEPT !.at = "update"]
        /\ UNCHANGED <<page, call, told>>

UpdateNewClient ==
    /\ looper.at = "update" /\ ~InUpdate("looper")
    /\ update' = [update EXCEPT !["looper"].todo = {looper.client}]
    /\ looper' = NoWork
    /\ UNCHANGED <<m, page, call, told>>

(* Mutant: the timeline is stopped whoever else asked for it.              *)
ClientDisconnects_StopsAnyway(c) ==
    LET s == m.setup[c]
    IN  /\ m.ts # "none" /\ LooperFree /\ s # None
        /\ m' = [m EXCEPT !.uses[s] = @ - 1]
        /\ looper' = [at |-> "stop", client |-> c, selector |-> s]
        /\ UNCHANGED <<page, call, update, told>>

(* TimelineSyncService::OnDisconnected: the count, the stop after the last
   use, the client's data.                                                 *)
ClientDisconnects(c) ==
    LET s == m.setup[c]
    IN  /\ m.ts # "none" /\ LooperFree /\ s # None
        /\ m' = [m EXCEPT !.uses[s] = @ - 1]
        /\ looper' = [at |-> IF m.uses[s] = 1 THEN "stop" ELSE "forget",
                      client |-> c, selector |-> s]
        /\ UNCHANGED <<page, call, update, told>>

StopForClient ==
    /\ looper.at = "stop" /\ MutexFree
    /\ m' = StopTimelineMonitoring(m, looper.selector, FALSE)
    /\ UpdateIfSourcesChange("looper")
    /\ looper' = [looper EXCEPT !.at = "forget"]
    /\ UNCHANGED <<page, call, told>>

ForgetClient ==
    LET c == looper.client
    IN  /\ looper.at = "forget" /\ ~InUpdate("looper")
        /\ m' = [m EXCEPT !.setup[c] = None, !.stem[c] = NoContentId]
        /\ told' = [told EXCEPT ![c] = None]
        /\ looper' = NoWork
        /\ UNCHANGED <<page, call, update>>
-----------------------------------------------------------------------------
Application ==
    \/ \E s \in Selectors, ok \in BOOLEAN :
           InitMediaSynchroniser(s, ok) \/ AddMediaObject(s, ok)
    \/ \E s \in Selectors : PeriodChanged(s) \/ PeriodGone(s)
    \/ StartPeriod
    \/ AnnouncePeriod
    \/ \E s \in Selectors : RemoveMediaObject(s) \/ MediaPeriodGone(s)
    \/ \E s \in Selectors, isAvailable \in BOOLEAN : AnnounceTimeline(s, isAvailable)
    \/ AddAvailable
    \/ SetContentTimeAndSpeed
    \/ UpdateUnavailable
    \/ \E id \in ContentIds : UpdateCssCiiProperties(id)
    \/ \E id \in ContentIds \cup {NoContentId} : SetContentIdOverride(id)
    \/ DeleteLater
    \/ EnableInterDeviceSync
    \/ DisableInterDeviceSync

Platform ==
    \/ \E s \in Selectors, n \in 1..MaxFilters, isAvailable \in BOOLEAN :
           SetTEMITimelineAvailability(s, n, isAvailable)
    \/ \E opens \in SUBSET Selectors : UpdateBroadcastContentStatus(opens)

Looper ==
    \/ \E c \in Clients, s \in Selectors, stem \in Stems : ClientSetup(c, s, stem)
    \/ \E ok \in BOOLEAN : StartForClient(ok)
    \/ UpdateNewClient
    \/ \E c \in Clients : ClientDisconnects(c)
    \/ StopForClient
    \/ ForgetClient
    \/ ServiceGone

Next ==
    \/ Application
    \/ Platform
    \/ Looper
    \/ \E t \in Threads, c \in Clients :
           ReadClient(t, c) \/ PassOver(t, c) \/ SendClient(t, c)

Spec == Init /\ [][Next]_vars
-----------------------------------------------------------------------------
(* A timeline source exists exactly while the timeline has watchers, and
   the content identification lists exactly those: startTimelineMonitoring,
   stopTimelineMonitoring and addTimeline count in two counters, and none of
   their orders creates a source nobody watches or drops one that is.      *)
SourceIffWatched ==
    ~m.deleted =>
        /\ \A s \in Selectors : HasSource(m, s) <=> m.entry[s].num > 0
        /\ m.cii = {s \in Selectors : HasSource(m, s)}

(* A clock runs on m_sysClock or on the master's, and that one exists and
   runs on m_sysClock itself: no removal of the master timeline, by the page,
   a media object or a client, leaves a clock on one that was destroyed.  It
   says nothing while m_masterTimeline names a timeline that has no source
   (yet): the clocks are still on the master before, if there was one.     *)
ParentsExist ==
    (m.master = None \/ HasSource(m, m.master)) =>
        \A s \in Selectors : HasSource(m, s) =>
            \/ m.source[s].parent = Sys
            \/ /\ m.source[s].parent = m.master
               /\ m.source[m.master].parent = Sys

(* Every client of the TimelineSyncService was last told what holds now, or
   an update is on its way to it: whatever changes a source, a clock's parent,
   the content id or its override, on any thread and between any two steps of
   another, is followed by an update that reads the new state.  It says
   nothing of a client whose last update ran while another thread was in
   updateClient.                                                           *)
Due(c) ==
    \/ \E t \in Threads : c \in update[t].todo
    \/ call.at \in {"add", "speed", "unavailable"}
    \/ looper.client = c

TsClientsUpToDate ==
    \A c \in Clients : m.setup[c] # None =>
        told[c] \in {ControlTimestamp(m, c), "either"} \/ Due(c)

(* A timeline a TS client named has a watcher, counted or awaited, until the
   application stops it for everybody: one client's disconnection never
   takes the timeline from another.                                        *)
SelectorWatched ==
    \A c \in Clients \ {looper.client} :
        LET s == m.setup[c]
        IN  s # None /\ ~m.deleted /\ Kind[s] # "invalid" /\ s \notin abandoned
            => /\ m.uses[s] >= Cardinality({d \in Clients \ {looper.client} : m.setup[d] = s})
               /\ At(m, s).num + At(m, s).pending > 0

(* The TEMI filter an entry names is one the platform still runs: no stop
   leaves its entry behind, and a stopped filter is never read.            *)
FilterOfEntryRuns ==
    \A s \in Selectors : m.entry[s].filter > 0 => <<s, m.entry[s].filter>> \in m.running
=============================================================================
