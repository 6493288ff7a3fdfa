----------------------- MODULE ApplicationManagerProofs -----------------------
(***************************************************************************)
(* Proofs about ApplicationManager, for any services, tables, applications *)
(* and bound on the ids.                                                   *)
(***************************************************************************)
EXTENDS ApplicationManager, NaturalsInduction, SequenceTheorems,
        WellFoundedInduction, TLAPS

Ids == AppIds \cup {INVALID_APP_ID}
AppMap == [AppIds -> App \cup {NoApp}]
Triplets == Services \cup {NoService}
-----------------------------------------------------------------------------
(* Tables.                                                                 *)

(* PointerTo returns a member of its argument, or 0.                       *)
LEMMA PointerToType ==
    ASSUME NEW I
    PROVE  PointerTo(I) = 0 \/ PointerTo(I) \in I
  BY DEF PointerTo

(* FindApp returns 0 or a position of the table that has the key.          *)
LEMMA FindAppType ==
    ASSUME NEW t \in Table, NEW key
    PROVE  \/ FindApp(t, key) = 0
           \/ /\ FindApp(t, key) \in DOMAIN t
              /\ t[FindApp(t, key)] \in AppDesc
              /\ t[FindApp(t, key)].key = key
  <1> DEFINE K == {i \in DOMAIN t : t[i].key = key}
  <1>1. FindApp(t, key) = 0 \/ FindApp(t, key) \in First(K)
    BY PointerToType DEF FindApp
  <1>2. First(K) \subseteq K
    BY DEF First
  <1>3. \A i \in DOMAIN t : t[i] \in AppDesc
    BY DEF Table
  <1> QED
    BY <1>1, <1>2, <1>3

(* AutoStartApp returns 0 or a position of a candidate.                    *)
LEMMA AutoStartAppType ==
    ASSUME NEW t \in Table, NEW pc
    PROVE  \/ AutoStartApp(t, pc) = 0
           \/ /\ AutoStartApp(t, pc) \in DOMAIN t
              /\ t[AutoStartApp(t, pc)] \in AppDesc
              /\ AutoStartCandidate(t[AutoStartApp(t, pc)], pc)
  <1> DEFINE C == {i \in DOMAIN t : AutoStartCandidate(t[i], pc)}
             B == {i \in C : \A j \in C :
                      \/ t[j].priority < t[i].priority
                      \/ t[j].priority = t[i].priority /\ i <= j}
  <1>1. AutoStartApp(t, pc) = 0 \/ AutoStartApp(t, pc) \in B
    BY PointerToType DEF AutoStartApp
  <1>2. \A i \in DOMAIN t : t[i] \in AppDesc
    BY DEF Table
  <1> HIDE DEF C
  <1>3. B \subseteq C
    OBVIOUS
  <1>4. \A i \in C : i \in DOMAIN t /\ AutoStartCandidate(t[i], pc)
    BY DEF C
  <1> QED
    BY <1>1, <1>2, <1>3, <1>4

(* TeletextApp returns 0 or a position of the table.                       *)
LEMMA TeletextAppType ==
    ASSUME NEW t \in Table
    PROVE  \/ TeletextApp(t) = 0
           \/ t[TeletextApp(t)] \in AppDesc
  <1> DEFINE K == {i \in DOMAIN t : t[i].teletext}
  <1>1. TeletextApp(t) = 0 \/ TeletextApp(t) \in First(K)
    BY PointerToType DEF TeletextApp
  <1>2. First(K) \subseteq K
    BY DEF First
  <1>3. \A i \in DOMAIN t : t[i] \in AppDesc
    BY DEF Table
  <1> QED
    BY <1>1, <1>2, <1>3

(* The protocol and the URL extracted from a descriptor.                   *)
LEMMA ProtocolType ==
    ASSUME NEW d \in AppDesc, NEW network
    PROVE  /\ ExtractProtocolId(d, network) \in Protocols
           /\ ExtractBaseURL(d, network) \in PageOrigins
  <1> DEFINE U == {j \in DOMAIN d.transports : Usable(d.transports[j], network)}
             i == PointerTo(First(U))
  <1>1. i = 0 \/ i \in DOMAIN d.transports
    BY PointerToType DEF First
  <1>2. d.transports \in Seq(Transport) /\ d.origin \in Origins
    BY DEF AppDesc
  <1>3. \A j \in DOMAIN d.transports : d.transports[j] \in Transport
    BY <1>2
  <1>4. \A tr \in Transport : tr.protocolId \in Protocols
    BY DEF Transport
  <1>5. ExtractProtocolId(d, network) = IF i = 0 THEN 0 ELSE d.transports[i].protocolId
    BY DEF ExtractProtocolId
  <1>6. ExtractProtocolId(d, network) \in Protocols
    BY <1>1, <1>3, <1>4, <1>5 DEF Protocols
  <1> QED
    BY <1>2, <1>6 DEF ExtractBaseURL, PageOrigins

(* A failed load leaves a table.                                           *)
LEMMA MarkFailedType ==
    ASSUME NEW t \in Table, NEW i \in DOMAIN t, NEW p
    PROVE  AppSetTransportFailedToLoad(t, i, p) \in Table
  <1> DEFINE trs == [j \in DOMAIN t[i].transports |->
                        MarkFailed(t[i].transports[j], p)]
  <1>1. t[i] \in AppDesc
    BY DEF Table
  <1>2. t[i].transports \in Seq(Transport)
    BY <1>1 DEF AppDesc
  <1>3. \A tr \in Transport : MarkFailed(tr, p) \in Transport
    BY DEF MarkFailed, Transport
  <1>4. trs \in Seq(Transport)
    <2>1. trs \in [1..Len(t[i].transports) -> Transport]
      BY <1>2, <1>3
    <2>2. Len(t[i].transports) \in Nat
      BY <1>2
    <2> QED
      BY <2>1, <2>2, SeqDef
  <1>5. [t[i] EXCEPT !.transports = trs] \in AppDesc
    BY <1>1, <1>4 DEF AppDesc
  <1>6. AppSetTransportFailedToLoad(t, i, p)
            = [t EXCEPT ![i] = [t[i] EXCEPT !.transports = trs]]
    BY DEF AppSetTransportFailedToLoad, Table
  <1> QED
    BY <1>5, <1>6 DEF Table
-----------------------------------------------------------------------------
(* Applications.                                                           *)

(* The constructors and Update return applications of the right type.      *)
LEMMA NewAppFromDescType ==
    ASSUME NEW d \in AppDesc, NEW from \in Triplets, NEW network,
           NEW isBroadcast \in BOOLEAN, NEW asOpApp \in BOOLEAN
    PROVE  /\ NewAppFromDesc(d, from, network, isBroadcast, asOpApp) \in App
           /\ NewAppFromDesc(d, from, network, isBroadcast, asOpApp).type
                = IF asOpApp THEN "opapp" ELSE "hbbtv"
  BY ProtocolType DEF NewAppFromDesc, App, Triplets

LEMMA NewAppFromUrlType ==
    ASSUME NEW origin \in Origins, NEW asOpApp \in BOOLEAN, NEW key \in Keys \cup {0}
    PROVE  NewAppFromUrl(origin, asOpApp, BlankDesc(key, origin)) \in App
  <1>1. BlankDesc(key, origin) \in AppDesc
    BY DEF BlankDesc, AppDesc, ControlCodes
  <1> QED
    BY <1>1 DEF NewAppFromUrl, App, PageOrigins, Protocols

LEMMA UpdateType ==
    ASSUME NEW app \in App, NEW d \in AppDesc, NEW from \in Triplets, NEW network
    PROVE  /\ Update(app, d, from, network) \in App
           /\ Update(app, d, from, network).type = app.type
           /\ Update(app, d, from, network).state = app.state
  <1> DEFINE p == ExtractProtocolId(d, network)
             u == IF d.lloc THEN app.baseUrl ELSE app.loadedUrl
  <1>1. p \in Protocols
    BY ProtocolType
  <1>2. u \in PageOrigins
    BY DEF App
  <1>3. Update(app, d, from, network)
            = [app EXCEPT !.aitDesc = d, !.descFrom = from, !.protocolId = p,
                          !.loadedUrl = u]
    BY DEF Update
  <1> HIDE DEF p, u
  <1> QED
    BY <1>1, <1>2, <1>3 DEF App, Triplets
-----------------------------------------------------------------------------
(* Manager states.                                                         *)

(* What every method keeps true of the manager.                            *)
Good(mm) ==
    /\ mm \in Manager
    /\ SlotsOk(mm)
    /\ BrowserOk(mm)
    /\ mm.aitTimer => ~mm.receivedFirstAit

(* The table in use is a table.                                            *)
LEMMA AitType ==
    ASSUME NEW mm \in Manager, mm.ait # NoAit
    PROVE  mm.ait.apps \in Table /\ mm.ait.from \in Triplets
  BY DEF Manager, AitTable, Triplets

(* mm and nn have the same applications in the same slots and states, and
   tell the browser the same.                                              *)
SameSlots(mm, nn) ==
    /\ nn.hbbtvAppId = mm.hbbtvAppId
    /\ nn.opAppId = mm.opAppId
    /\ nn.nextId = mm.nextId
    /\ nn.loaded = mm.loaded
    /\ nn.visible = mm.visible
    /\ \A id \in AppIds :
        \/ nn.apps[id] = mm.apps[id]
        \/ /\ nn.apps[id] # NoApp /\ mm.apps[id] # NoApp
           /\ nn.apps[id].type = mm.apps[id].type
           /\ nn.apps[id].state = mm.apps[id].state

(* nn is a manager state like mm as far as the invariants go.              *)
Keeps(mm, nn) ==
    /\ nn \in Manager
    /\ SameSlots(mm, nn)
    /\ nn.aitTimer = mm.aitTimer
    /\ nn.receivedFirstAit => mm.receivedFirstAit

LEMMA SlotsFrame ==
    ASSUME NEW mm, NEW nn, SameSlots(mm, nn), SlotsOk(mm), BrowserOk(mm)
    PROVE  SlotsOk(nn) /\ BrowserOk(nn)
  <1>1. RunningApps(nn) = RunningApps(mm)
    BY DEF SameSlots, RunningApps
  <1>2. \A id \in RunningApps(mm) :
            /\ nn.apps[id].type = mm.apps[id].type
            /\ nn.apps[id].state = mm.apps[id].state
    BY DEF SameSlots, RunningApps
  <1> QED
    BY <1>1, <1>2 DEF SlotsOk, BrowserOk, SameSlots

LEMMA KeepsGood ==
    ASSUME NEW mm, NEW nn, Good(mm), Keeps(mm, nn)
    PROVE  Good(nn) /\ nn.nextId = mm.nextId
  BY SlotsFrame DEF Good, Keeps, SameSlots

LEMMA KeepsTransitive ==
    ASSUME NEW mm, NEW nn, NEW oo, Keeps(mm, nn), Keeps(nn, oo)
    PROVE  Keeps(mm, oo)
  BY DEF Keeps, SameSlots

(* KillRunningApp erases the application and empties its slot together.    *)
LEMMA KillFields ==
    ASSUME NEW mm \in Manager, NEW id, id \in {mm.hbbtvAppId, mm.opAppId},
           Running(mm, id)
    PROVE  LET kk == KillRunningApp(mm, id)
           IN  /\ kk \in Manager
               /\ kk.apps = Erase(mm.apps, id)
               /\ kk.visible = mm.visible \ {id}
               /\ kk.loaded = INVALID_APP_ID
               /\ kk.hbbtvAppId = IF mm.hbbtvAppId = id THEN INVALID_APP_ID
                                  ELSE mm.hbbtvAppId
               /\ kk.opAppId = IF mm.opAppId = id /\ mm.hbbtvAppId # id
                               THEN INVALID_APP_ID ELSE mm.opAppId
               /\ kk.nextId = mm.nextId
               /\ kk.aitTimer = mm.aitTimer
               /\ kk.receivedFirstAit = mm.receivedFirstAit
               /\ kk.ait = mm.ait
  <1> DEFINE a == Erase(mm.apps, id)
             v == mm.visible \ {id}
             h == IF mm.hbbtvAppId = id THEN INVALID_APP_ID ELSE mm.hbbtvAppId
             o == IF mm.opAppId = id /\ mm.hbbtvAppId # id THEN INVALID_APP_ID
                  ELSE mm.opAppId
  <1>1. a \in AppMap
    BY DEF Manager, AppMap, Erase
  <1>2. v \in SUBSET AppIds /\ h \in Ids /\ o \in Ids
    BY DEF Manager, Ids
  <1>3. KillRunningApp(mm, id)
            = [mm EXCEPT !.apps = a, !.visible = v, !.loaded = INVALID_APP_ID,
                         !.hbbtvAppId = h, !.opAppId = o]
    BY DEF KillRunningApp
  <1> HIDE DEF a, v, h, o
  <1>4. [mm EXCEPT !.apps = a, !.visible = v, !.loaded = INVALID_APP_ID,
                   !.hbbtvAppId = h, !.opAppId = o] \in Manager
    BY <1>1, <1>2 DEF Manager, Ids, AppMap
  <1> USE <1>3, <1>4
  <1>5. /\ KillRunningApp(mm, id).apps = a
        /\ KillRunningApp(mm, id).visible = v
        /\ KillRunningApp(mm, id).loaded = INVALID_APP_ID
        /\ KillRunningApp(mm, id).hbbtvAppId = h
        /\ KillRunningApp(mm, id).opAppId = o
        /\ KillRunningApp(mm, id).nextId = mm.nextId
        /\ KillRunningApp(mm, id).aitTimer = mm.aitTimer
        /\ KillRunningApp(mm, id).receivedFirstAit = mm.receivedFirstAit
        /\ KillRunningApp(mm, id).ait = mm.ait
    BY DEF Manager
  <1> QED
    BY <1>5 DEF a, v, h, o

LEMMA KillGood ==
    ASSUME NEW mm, Good(mm), NEW id
    PROVE  LET kk == KillRunningApp(mm, id)
           IN  /\ Good(kk)
               /\ kk.nextId = mm.nextId
               /\ kk.ait = mm.ait
               /\ kk.receivedFirstAit = mm.receivedFirstAit
               /\ kk.aitTimer = mm.aitTimer
  <1> DEFINE kk == KillRunningApp(mm, id)
  <1>1. CASE ~(id \in {mm.hbbtvAppId, mm.opAppId} /\ Running(mm, id))
    BY <1>1 DEF KillRunningApp
  <1>2. CASE id \in {mm.hbbtvAppId, mm.opAppId} /\ Running(mm, id)
    <2>1. mm \in Manager
      BY DEF Good
    <2>a. kk.apps = Erase(mm.apps, id)
      BY <1>2, <2>1, KillFields
    <2>2. \A x \in AppIds : kk.apps[x] = IF x = id THEN NoApp ELSE mm.apps[x]
      BY <2>a DEF Erase
    <2>3. SlotsOk(kk)
      BY <1>2, <2>1, <2>2, KillFields
         DEF Good, SlotsOk, RunningApps, Running, INVALID_APP_ID, AppIds
    <2>4. BrowserOk(kk)
      BY <1>2, <2>1, <2>2, KillFields DEF Good, BrowserOk, RunningApps
    <2> QED
      BY <1>2, <2>1, <2>3, <2>4, KillFields DEF Good
  <1> QED
    BY <1>1, <1>2

(* Forgetting the table, selecting a service, replacing an application
   object by one of the same type and state: the applications stay.        *)
LEMMA ClearAitKeeps ==
    ASSUME NEW mm \in Manager
    PROVE  Keeps(mm, ClearAit(mm)) /\ ~ClearAit(mm).receivedFirstAit
  <1>1. ClearAit(mm) \in Manager
    BY DEF ClearAit, Manager
  <1> QED
    BY <1>1 DEF ClearAit, Manager, SameSlots, Keeps

LEMMA SelectKeeps ==
    ASSUME NEW mm \in Manager, NEW c \in Triplets, NEW p \in Triplets
    PROVE  Keeps(mm, [mm EXCEPT !.currentService = c, !.previousService = p])
  <1> DEFINE ss == [mm EXCEPT !.currentService = c, !.previousService = p]
  <1>1. ss \in Manager
    BY DEF Manager, Triplets
  <1> QED
    BY <1>1 DEF Manager, SameSlots, Keeps

LEMMA ReplaceAppKeeps ==
    ASSUME NEW mm \in Manager, NEW id, Running(mm, id),
           NEW app \in App, app.type = mm.apps[id].type,
           app.state = mm.apps[id].state
    PROVE  Keeps(mm, [mm EXCEPT !.apps = [mm.apps EXCEPT ![id] = app]])
  <1> DEFINE a == [mm.apps EXCEPT ![id] = app]
             rr == [mm EXCEPT !.apps = a]
  <1>1. mm.apps \in AppMap /\ id \in AppIds
    BY DEF Manager, AppMap, Running
  <1>2. a \in AppMap /\ \A x \in AppIds : a[x] = IF x = id THEN app ELSE mm.apps[x]
    BY <1>1 DEF AppMap
  <1> HIDE DEF a
  <1>3. rr \in Manager
    BY <1>1, <1>2 DEF Manager, AppMap
  <1>4. /\ rr.apps = a
        /\ rr.hbbtvAppId = mm.hbbtvAppId
        /\ rr.opAppId = mm.opAppId
        /\ rr.nextId = mm.nextId
        /\ rr.loaded = mm.loaded
        /\ rr.visible = mm.visible
        /\ rr.aitTimer = mm.aitTimer
        /\ rr.receivedFirstAit = mm.receivedFirstAit
    BY DEF Manager
  <1>5. SameSlots(mm, rr)
    BY <1>2, <1>4, ModelValuesAssumption DEF SameSlots, Running
  <1> QED
    BY <1>3, <1>4, <1>5 DEF a, Keeps

LEMMA RunningType ==
    ASSUME NEW mm \in Manager, NEW id, Running(mm, id)
    PROVE  id \in AppIds /\ mm.apps[id] \in App
  BY DEF Manager, Running

LEMMA IndependentKeeps ==
    ASSUME NEW mm \in Manager
    PROVE  Keeps(mm, TransitionToBroadcastIndependent(mm))
  <1> DEFINE id == mm.hbbtvAppId
  <1>1. CASE ~Running(mm, id)
    BY <1>1 DEF TransitionToBroadcastIndependent, SameSlots, Keeps
  <1>2. CASE Running(mm, id)
    <2> DEFINE app == [mm.apps[id] EXCEPT !.isBroadcast = FALSE]
    <2>1. id \in AppIds /\ mm.apps[id] \in App
      BY <1>2, RunningType
    <2>2. app \in App /\ app.type = mm.apps[id].type /\ app.state = mm.apps[id].state
      BY <2>1 DEF App
    <2>3. TransitionToBroadcastIndependent(mm)
            = [mm EXCEPT !.apps = [mm.apps EXCEPT ![id] = app]]
      BY <1>2, <2>1 DEF TransitionToBroadcastIndependent
    <2> HIDE DEF app, id
    <2>4. Keeps(mm, [mm EXCEPT !.apps = [mm.apps EXCEPT ![id] = app]])
      BY <1>2, <2>1, <2>2, ReplaceAppKeeps
    <2> QED
      BY <2>3, <2>4
  <1> QED
    BY <1>1, <1>2

LEMMA BroadcastStoppedKeeps ==
    ASSUME NEW mm \in Manager
    PROVE  Keeps(mm, BroadcastStopped(mm)) /\ ~BroadcastStopped(mm).receivedFirstAit
  <1> DEFINE cc == ClearAit(mm)
             ss == [cc EXCEPT !.currentService = NoService, !.previousService = NoService]
             tt == TransitionToBroadcastIndependent(ss)
  <1>1. Keeps(mm, cc) /\ ~cc.receivedFirstAit /\ cc \in Manager
    BY ClearAitKeeps DEF Keeps
  <1>2. Keeps(cc, ss) /\ ss \in Manager
    <2> HIDE DEF cc
    <2>1. Keeps(cc, ss)
      BY <1>1, SelectKeeps DEF Triplets
    <2> QED
      BY <2>1 DEF Keeps
  <1>3. Keeps(ss, tt)
    <2> HIDE DEF ss
    <2> QED
      BY <1>2, IndependentKeeps
  <1>4. BroadcastStopped(mm) = tt
    BY DEF BroadcastStopped
  <1> HIDE DEF cc, ss, tt
  <1>5. Keeps(mm, tt)
    BY <1>1, <1>2, <1>3, KeepsTransitive
  <1>6. ~tt.receivedFirstAit
    BY <1>1, <1>2, <1>3 DEF Keeps
  <1> QED
    BY <1>4, <1>5, <1>6

(* The state in which RunApp installs the application: the old one erased
   from the map, its slot not yet overwritten, broadcast stopped or not.   *)
RunAppSlot(mm, app) == IF app.type = "opapp" THEN mm.opAppId ELSE mm.hbbtvAppId
RunAppErased(mm, app) == [mm EXCEPT !.apps = Erase(mm.apps, RunAppSlot(mm, app))]
RunAppStopped(mm, app, callsBack) ==
    IF ~app.isBroadcast /\ mm.currentService # NoService
    THEN [StopBroadcast(RunAppErased(mm, app), callsBack) EXCEPT
            !.currentService = NoService, !.previousService = NoService]
    ELSE RunAppErased(mm, app)

LEMMA RunAppErasedFields ==
    ASSUME NEW mm \in Manager, NEW app
    PROVE  LET ee == RunAppErased(mm, app)
           IN  /\ ee \in Manager
               /\ ee.apps = Erase(mm.apps, RunAppSlot(mm, app))
               /\ ee.hbbtvAppId = mm.hbbtvAppId
               /\ ee.opAppId = mm.opAppId
               /\ ee.nextId = mm.nextId
               /\ ee.visible = mm.visible
               /\ ee.aitTimer = mm.aitTimer
               /\ ee.receivedFirstAit = mm.receivedFirstAit
  <1> DEFINE a == Erase(mm.apps, RunAppSlot(mm, app))
  <1>1. a \in AppMap
    BY DEF Manager, AppMap, Erase
  <1>2. RunAppErased(mm, app) = [mm EXCEPT !.apps = a]
    BY DEF RunAppErased
  <1> HIDE DEF a
  <1>3. [mm EXCEPT !.apps = a] \in Manager
    BY <1>1 DEF Manager, AppMap
  <1>4. LET ee == [mm EXCEPT !.apps = a]
        IN  /\ ee.apps = a
            /\ ee.hbbtvAppId = mm.hbbtvAppId
            /\ ee.opAppId = mm.opAppId
            /\ ee.nextId = mm.nextId
            /\ ee.visible = mm.visible
            /\ ee.aitTimer = mm.aitTimer
            /\ ee.receivedFirstAit = mm.receivedFirstAit
    BY DEF Manager
  <1> QED
    BY <1>2, <1>3, <1>4 DEF a

LEMMA RunAppStoppedKeeps ==
    ASSUME NEW mm \in Manager, NEW app, NEW callsBack
    PROVE  Keeps(RunAppErased(mm, app), RunAppStopped(mm, app, callsBack))
  <1> DEFINE ee == RunAppErased(mm, app)
             bb == StopBroadcast(ee, callsBack)
             ss == [bb EXCEPT !.currentService = NoService, !.previousService = NoService]
  <1>1. ee \in Manager
    BY RunAppErasedFields
  <1> HIDE DEF ee
  <1>2. Keeps(ee, ee)
    BY <1>1 DEF Keeps, SameSlots
  <1>3. Keeps(ee, bb) /\ bb \in Manager
    BY <1>1, <1>2, BroadcastStoppedKeeps DEF StopBroadcast, Keeps
  <1> HIDE DEF bb
  <1>4. Keeps(ee, ss)
    <2>1. Keeps(bb, ss)
      BY <1>3, SelectKeeps DEF Triplets
    <2> QED
      BY <1>3, <2>1, KeepsTransitive
  <1>5. RunAppStopped(mm, app, callsBack)
            = IF ~app.isBroadcast /\ mm.currentService # NoService THEN ss ELSE ee
    BY DEF RunAppStopped, ee, bb
  <1> HIDE DEF ss
  <1> QED
    BY <1>2, <1>4, <1>5 DEF ee

(* rr is st with app installed under the id mm drew.                       *)
Installed(mm, app, st, rr) ==
    /\ rr \in Manager
    /\ \A x \in AppIds : rr.apps[x] = IF x = mm.nextId THEN app ELSE st.apps[x]
    /\ rr.hbbtvAppId = IF app.type = "hbbtv" THEN mm.nextId ELSE st.hbbtvAppId
    /\ rr.opAppId = IF app.type = "opapp" THEN mm.nextId ELSE st.opAppId
    /\ rr.nextId = st.nextId
    /\ rr.loaded = mm.nextId
    /\ rr.visible = IF app.state # "BACKGROUND" THEN st.visible \cup {mm.nextId}
                    ELSE st.visible \ {mm.nextId}
    /\ rr.aitTimer = st.aitTimer
    /\ rr.receivedFirstAit = st.receivedFirstAit

LEMMA RunAppFields ==
    ASSUME NEW mm \in Manager, NEW app \in App, NEW callsBack,
           mm.nextId \in AppIds
    PROVE  Installed(mm, app, RunAppStopped(mm, app, callsBack),
                     RunApp(mm, app, callsBack))
  <1> DEFINE id == mm.nextId
             st == RunAppStopped(mm, app, callsBack)
             h == IF app.type = "hbbtv" THEN id ELSE st.hbbtvAppId
             o == IF app.type = "opapp" THEN id ELSE st.opAppId
             a == [st.apps EXCEPT ![id] = app]
             v == IF app.state # "BACKGROUND" THEN st.visible \cup {id}
                  ELSE st.visible \ {id}
             rr == [st EXCEPT !.loaded = id, !.hbbtvAppId = h, !.opAppId = o,
                              !.apps = a, !.visible = v]
  <1>1. st \in Manager
    BY RunAppStoppedKeeps DEF Keeps
  <1>2. RunApp(mm, app, callsBack) = rr
    BY DEF RunApp, RunAppStopped, RunAppErased, RunAppSlot
  <1> HIDE DEF st
  <1>3. /\ a \in AppMap
        /\ \A x \in AppIds : a[x] = IF x = id THEN app ELSE st.apps[x]
    BY <1>1 DEF Manager, AppMap
  <1>4. h \in Ids /\ o \in Ids /\ v \in SUBSET AppIds /\ id \in Ids
    BY <1>1 DEF Manager, Ids
  <1> HIDE DEF id, h, o, a, v
  <1>5. rr \in Manager
    <2> DEFINE r1 == [st EXCEPT !.loaded = id]
               r2 == [r1 EXCEPT !.hbbtvAppId = h]
               r3 == [r2 EXCEPT !.opAppId = o]
               r4 == [r3 EXCEPT !.apps = a]
               r5 == [r4 EXCEPT !.visible = v]
    <2>0. rr = r5
      OBVIOUS
    <2>1. r1 \in Manager
      BY ONLY <1>1, <1>4 DEF Manager, Ids
    <2> HIDE DEF r1
    <2>2. r2 \in Manager
      BY ONLY <1>4, <2>1 DEF Manager, Ids
    <2> HIDE DEF r2
    <2>3. r3 \in Manager
      BY ONLY <1>4, <2>2 DEF Manager, Ids
    <2> HIDE DEF r3
    <2>4. r4 \in Manager
      BY ONLY <1>3, <2>3 DEF Manager, AppMap
    <2> HIDE DEF r4
    <2>5. r5 \in Manager
      BY ONLY <1>4, <2>4 DEF Manager
    <2> QED
      BY <2>0, <2>5
  <1>6. /\ rr.apps = a
        /\ rr.hbbtvAppId = h
        /\ rr.opAppId = o
        /\ rr.nextId = st.nextId
        /\ rr.loaded = id
        /\ rr.visible = v
        /\ rr.aitTimer = st.aitTimer
        /\ rr.receivedFirstAit = st.receivedFirstAit
    BY <1>1 DEF Manager
  <1> HIDE DEF rr
  <1>7. Installed(mm, app, st, rr)
    BY <1>3, <1>5, <1>6 DEF Installed, h, o, v, id
  <1> QED
    BY <1>2, <1>7 DEF st

(* RunApp puts the new application in its slot, the old one gone.  Its id,
   drawn from g_id, is not one of a running application.                   *)
LEMMA RunGood ==
    ASSUME NEW mm, Good(mm), NEW app \in App, NEW callsBack,
           mm.nextId \in AppIds, ~Running(mm, mm.nextId)
    PROVE  Good(RunApp(mm, app, callsBack))
  <1> DEFINE id == mm.nextId
             slot == RunAppSlot(mm, app)
             ee == RunAppErased(mm, app)
             st == RunAppStopped(mm, app, callsBack)
             rr == RunApp(mm, app, callsBack)
  <1>1. mm \in Manager /\ id \in AppIds
    BY DEF Good
  <1>2. Keeps(ee, st)
    BY <1>1, RunAppStoppedKeeps
  <1>3. /\ ee.apps = Erase(mm.apps, slot)
        /\ ee.hbbtvAppId = mm.hbbtvAppId
        /\ ee.opAppId = mm.opAppId
        /\ ee.nextId = id
        /\ ee.visible = mm.visible
        /\ ee.aitTimer = mm.aitTimer
        /\ ee.receivedFirstAit = mm.receivedFirstAit
    BY <1>1, RunAppErasedFields
  <1>4. Installed(mm, app, st, rr)
    BY <1>1, RunAppFields
  <1>5. app.type \in {"hbbtv", "opapp"} /\ app # NoApp
    BY ModelValuesAssumption DEF App
  <1>6. slot = IF app.type = "opapp" THEN mm.opAppId ELSE mm.hbbtvAppId
    BY DEF RunAppSlot
  <1>7. ~Running(mm, id)
    OBVIOUS
  <1>8. \A x \in AppIds : ee.apps[x] = IF x = slot THEN NoApp ELSE mm.apps[x]
    BY <1>3 DEF Erase
  <1> HIDE DEF id, slot, ee, st, rr
  <1>9. /\ st.hbbtvAppId = mm.hbbtvAppId
        /\ st.opAppId = mm.opAppId
        /\ st.nextId = id
        /\ st.visible = mm.visible
        /\ st.aitTimer = mm.aitTimer
        /\ st.receivedFirstAit => mm.receivedFirstAit
        /\ \A x \in AppIds :
            /\ x = slot => st.apps[x] = NoApp
            /\ x # slot /\ mm.apps[x] = NoApp => st.apps[x] = NoApp
            /\ x # slot /\ mm.apps[x] # NoApp =>
                /\ st.apps[x] # NoApp
                /\ st.apps[x].type = mm.apps[x].type
                /\ st.apps[x].state = mm.apps[x].state
    BY <1>2, <1>3, <1>8 DEF Keeps, SameSlots
  <1>10. SlotsOk(mm) /\ BrowserOk(mm) /\ id = mm.nextId
    BY DEF Good, id
  <1> USE DEF Installed
  <1>11. RunningApps(rr) = (RunningApps(mm) \ {slot}) \cup {id}
    BY <1>1, <1>4, <1>5, <1>9, <1>10 DEF RunningApps
  <1>12. /\ id \in AppIds /\ id # INVALID_APP_ID
         /\ mm.hbbtvAppId # id /\ mm.opAppId # id
    BY <1>1, <1>7, <1>10
       DEF SlotsOk, RunningApps, Running, AppIds, INVALID_APP_ID
  <1>13. SlotsOk(rr)
    <2>1. RunningApps(rr) = {rr.hbbtvAppId, rr.opAppId} \ {INVALID_APP_ID}
      BY <1>4, <1>5, <1>6, <1>9, <1>10, <1>11, <1>12 DEF SlotsOk
    <2>2. \A x \in RunningApps(rr) :
            rr.apps[x].type = IF x = rr.hbbtvAppId THEN "hbbtv" ELSE "opapp"
      BY <1>4, <1>5, <1>6, <1>9, <1>10, <1>11, <1>12 DEF SlotsOk, RunningApps
    <2>3. rr.hbbtvAppId = rr.opAppId => rr.hbbtvAppId = INVALID_APP_ID
      BY <1>4, <1>5, <1>9, <1>10, <1>12 DEF SlotsOk
    <2>4. \A x \in RunningApps(rr) : x <= rr.nextId
      BY <1>4, <1>9, <1>10, <1>11, <1>12 DEF SlotsOk, AppIds
    <2> QED
      BY <2>1, <2>2, <2>3, <2>4 DEF SlotsOk
  <1>14. BrowserOk(rr)
    BY <1>4, <1>9, <1>10, <1>11, <1>12 DEF BrowserOk, RunningApps
  <1>15. rr.aitTimer => ~rr.receivedFirstAit
    BY <1>4, <1>9 DEF Good
  <1>16. Good(rr)
    BY <1>4, <1>13, <1>14, <1>15 DEF Good
  <1> QED
    BY <1>16 DEF rr

(* Drawing an id: the next one is free.                                    *)
LEMMA DrawGood ==
    ASSUME NEW mm, Good(mm), mm.nextId < MaxAppId
    PROVE  LET dd == [mm EXCEPT !.nextId = mm.nextId + 1]
           IN  /\ Good(dd)
               /\ dd.nextId \in AppIds
               /\ ~Running(dd, dd.nextId)
  <1> DEFINE n == mm.nextId + 1
             dd == [mm EXCEPT !.nextId = n]
  <1>1. mm \in Manager
    BY DEF Good
  <1>2. mm.nextId \in 0..MaxAppId
    BY <1>1 DEF Manager
  <1>3. n \in 0..MaxAppId /\ n \in AppIds /\ mm.nextId < n
    BY <1>2, MaxAppIdAssumption DEF AppIds
  <1> HIDE DEF n
  <1>4. dd \in Manager
    BY <1>1, <1>3 DEF Manager
  <1>5. /\ dd.apps = mm.apps /\ dd.nextId = n
        /\ dd.hbbtvAppId = mm.hbbtvAppId
        /\ dd.opAppId = mm.opAppId
        /\ dd.loaded = mm.loaded
        /\ dd.visible = mm.visible
        /\ dd.aitTimer = mm.aitTimer
        /\ dd.receivedFirstAit = mm.receivedFirstAit
    BY <1>1 DEF Manager
  <1>6. RunningApps(dd) = RunningApps(mm)
    BY <1>5 DEF RunningApps
  <1>7. ~Running(dd, n)
    BY <1>2, <1>3, <1>5 DEF Good, SlotsOk, RunningApps, Running, AppIds
  <1>8. SlotsOk(dd)
    BY <1>2, <1>3, <1>5, <1>6 DEF Good, SlotsOk, RunningApps, AppIds
  <1>9. BrowserOk(dd)
    BY <1>5, <1>6 DEF Good, BrowserOk
  <1>10. Good(dd)
    BY <1>4, <1>5, <1>8, <1>9 DEF Good
  <1> QED
    BY <1>3, <1>5, <1>7, <1>10 DEF n
-----------------------------------------------------------------------------
(* The private methods.                                                    *)

LEMMA CreateGood ==
    ASSUME NEW mm, Good(mm), mm.nextId < MaxAppId, NEW d \in AppDesc,
           NEW from \in Triplets, NEW pc, NEW isBroadcast \in BOOLEAN,
           NEW asOpApp \in BOOLEAN, NEW callsBack
    PROVE  Good(CreateAndRunApp(mm, d, from, pc, isBroadcast, asOpApp, callsBack))
  <1> DEFINE dd == [mm EXCEPT !.nextId = mm.nextId + 1]
             app == NewAppFromDesc(d, from, mm.networkAvailable, isBroadcast,
                                   asOpApp \/ d.opApp)
  <1>1. Good(dd) /\ dd.nextId \in AppIds /\ ~Running(dd, dd.nextId)
    BY DrawGood
  <1>2. (asOpApp \/ d.opApp) \in BOOLEAN
    OBVIOUS
  <1>3. app \in App
    BY <1>2, NewAppFromDescType
  <1>4. CreateAndRunApp(mm, d, from, pc, isBroadcast, asOpApp, callsBack)
            = IF IsAgeRestricted(d, pc) THEN dd ELSE RunApp(dd, app, callsBack)
    BY DEF CreateAndRunApp
  <1> HIDE DEF dd, app
  <1>5. Good(RunApp(dd, app, callsBack))
    BY <1>1, <1>3, RunGood
  <1> QED
    BY <1>1, <1>4, <1>5

LEMMA AutostartGood ==
    ASSUME NEW mm, Good(mm), mm.nextId < MaxAppId, NEW pc
    PROVE  Good(OnPerformBroadcastAutostart(mm, pc))
  <1>1. CASE ~mm.receivedFirstAit \/ mm.ait = NoAit
    BY <1>1 DEF OnPerformBroadcastAutostart
  <1>2. CASE ~(~mm.receivedFirstAit \/ mm.ait = NoAit)
    <2> DEFINE i == AutoStartApp(mm.ait.apps, pc)
               cc == CreateAndRunApp(mm, mm.ait.apps[i], mm.ait.from, pc,
                                     TRUE, FALSE, FALSE)
    <2>1. mm.ait.apps \in Table /\ mm.ait.from \in Triplets
      BY <1>2, AitType DEF Good
    <2>2. i = 0 \/ mm.ait.apps[i] \in AppDesc
      BY <2>1, AutoStartAppType
    <2>3. i # 0 => Good(cc)
      <3> HIDE DEF i
      <3> QED
        BY <2>1, <2>2, CreateGood
    <2>4. OnPerformBroadcastAutostart(mm, pc) = IF i = 0 THEN mm ELSE cc
      BY <1>2 DEF OnPerformBroadcastAutostart
    <2> QED
      BY <2>3, <2>4
  <1> QED
    BY <1>1, <1>2

LEMMA ExitedGood ==
    ASSUME NEW mm, Good(mm), mm.nextId < MaxAppId, NEW pc
    PROVE  Good(OnRunningAppExited(mm, pc))
  BY AutostartGood DEF OnRunningAppExited

(* The table in use replaced by another.                                   *)
LEMMA SetAitKeeps ==
    ASSUME NEW mm \in Manager, NEW t \in AitTable \cup {NoAit}
    PROVE  Keeps(mm, [mm EXCEPT !.ait = t])
  <1> DEFINE ss == [mm EXCEPT !.ait = t]
  <1>1. ss \in Manager
    BY DEF Manager
  <1> QED
    BY <1>1 DEF Manager, SameSlots, Keeps

(* UpdateRunningApp and the transition to broadcast-related act on an
   application the table in use signals.                                   *)
LEMMA UpdateKeeps ==
    ASSUME NEW mm, Good(mm), mm.ait # NoAit, Running(mm, mm.hbbtvAppId),
           Signalled(mm) # 0
    PROVE  /\ Keeps(mm, UpdateRunningApp(mm))
           /\ Keeps(mm, TransitionToBroadcastRelated(mm))
  <1> DEFINE id == mm.hbbtvAppId
             d == mm.ait.apps[Signalled(mm)]
             app == Update(mm.apps[id], d, mm.ait.from, mm.networkAvailable)
             bapp == [app EXCEPT !.isBroadcast = TRUE]
  <1>1. mm \in Manager /\ mm.ait.apps \in Table /\ mm.ait.from \in Triplets
    BY AitType DEF Good
  <1>2. d \in AppDesc
    BY <1>1, FindAppType DEF Signalled
  <1>3. id \in AppIds /\ mm.apps[id] \in App
    BY <1>1, RunningType
  <1>4. app \in App /\ app.type = mm.apps[id].type /\ app.state = mm.apps[id].state
    <2> HIDE DEF d, id
    <2> QED
      BY <1>1, <1>2, <1>3, UpdateType
  <1>5. UpdateRunningApp(mm) = [mm EXCEPT !.apps = [mm.apps EXCEPT ![id] = app]]
    BY <1>3 DEF UpdateRunningApp
  <1>6. mm.apps \in AppMap
    BY <1>1 DEF Manager, AppMap
  <1> HIDE DEF app, d
  <1>7. /\ bapp \in App /\ bapp.type = mm.apps[id].type
        /\ bapp.state = mm.apps[id].state
    BY <1>4 DEF App
  <1>8. TransitionToBroadcastRelated(mm)
            = [mm EXCEPT !.apps = [mm.apps EXCEPT ![id] = bapp]]
    <2> DEFINE a == [mm.apps EXCEPT ![id] = app]
               uu == [mm EXCEPT !.apps = a]
    <2>1. uu.apps = a
      BY <1>1 DEF Manager
    <2>2. TransitionToBroadcastRelated(mm)
            = [uu EXCEPT !.apps = [uu.apps EXCEPT ![id] =
                    [uu.apps[id] EXCEPT !.isBroadcast = TRUE]]]
      BY <1>5 DEF TransitionToBroadcastRelated
    <2>3. a[id] = app /\ [a EXCEPT ![id] = bapp] = [mm.apps EXCEPT ![id] = bapp]
      BY <1>3, <1>6 DEF AppMap
    <2>4. [uu EXCEPT !.apps = [uu.apps EXCEPT ![id] =
                    [uu.apps[id] EXCEPT !.isBroadcast = TRUE]]]
            = [uu EXCEPT !.apps = [a EXCEPT ![id] = bapp]]
      BY <2>1, <2>3
    <2>5. \A b : [uu EXCEPT !.apps = b] = [mm EXCEPT !.apps = b]
      BY <1>1 DEF Manager
    <2> QED
      BY <2>2, <2>3, <2>4, <2>5
  <1> HIDE DEF bapp, id
  <1>9. id = mm.hbbtvAppId
    BY DEF id
  <1>10. Keeps(mm, [mm EXCEPT !.apps = [mm.apps EXCEPT ![id] = app]])
    BY <1>1, <1>3, <1>4, <1>9, ReplaceAppKeeps
  <1>11. Keeps(mm, [mm EXCEPT !.apps = [mm.apps EXCEPT ![id] = bapp]])
    BY <1>1, <1>3, <1>7, <1>9, ReplaceAppKeeps
  <1> QED
    BY <1>5, <1>8, <1>10, <1>11

(* nn is a good manager state that can still draw the id mm could.         *)
Follows(mm, nn) == Good(nn) /\ nn.nextId = mm.nextId

LEMMA KeepsFollows ==
    ASSUME NEW mm, NEW nn, Good(mm), Keeps(mm, nn)
    PROVE  Follows(mm, nn)
  BY KeepsGood DEF Follows

LEMMA KillFollows ==
    ASSUME NEW mm, Good(mm), NEW id
    PROVE  Follows(mm, KillRunningApp(mm, id))
  BY KillGood DEF Follows

LEMMA ContinueOrKillFollows ==
    ASSUME NEW mm, Good(mm), mm.ait # NoAit, Running(mm, mm.hbbtvAppId), NEW pc
    PROVE  Follows(mm, ContinueOrKill(mm, pc))
  <1>1. MayContinue(mm, pc) => Signalled(mm) # 0
    BY DEF MayContinue
  <1>2. MayContinue(mm, pc) => Follows(mm, UpdateRunningApp(mm))
    BY <1>1, UpdateKeeps, KeepsFollows
  <1>3. Follows(mm, KillRunningApp(mm, mm.hbbtvAppId))
    BY KillFollows
  <1> QED
    BY <1>2, <1>3 DEF ContinueOrKill

LEMMA UpdateAgainFollows ==
    ASSUME NEW mm, Good(mm), mm.ait # NoAit, Running(mm, mm.hbbtvAppId), NEW pc
    PROVE  Good(UpdateAgain(mm, pc))
  <1>1. Signalled(mm) # 0 => Good(UpdateRunningApp(mm))
    BY UpdateKeeps, KeepsGood
  <1>2. Good(KillRunningApp(mm, mm.hbbtvAppId))
    BY KillGood
  <1> QED
    BY <1>1, <1>2 DEF UpdateAgain

(* None of the steps the checks of a new table take forgets the table.     *)
LEMMA UpdateAit ==
    ASSUME NEW mm \in Manager
    PROVE  /\ UpdateRunningApp(mm).ait = mm.ait
           /\ TransitionToBroadcastRelated(mm).ait = mm.ait
  <1>1. \A a : [mm EXCEPT !.apps = a].ait = mm.ait
    BY DEF Manager
  <1>2. \A a, b : [[mm EXCEPT !.apps = a] EXCEPT !.apps = b].ait = mm.ait
    BY DEF Manager
  <1> QED
    BY <1>1, <1>2 DEF UpdateRunningApp, TransitionToBroadcastRelated

(* The running application, if any, checked against the first table of a
   service.                                                                *)
CheckedFirst(mm, pc) ==
    IF ~Running(mm, mm.hbbtvAppId) THEN mm
    ELSE IF HbbtvApp(mm).isBroadcast
    THEN IF LeftItsService(mm) THEN KillRunningApp(mm, mm.hbbtvAppId)
         ELSE ContinueOrKill(mm, pc)
    ELSE IF MayTransition(mm, pc) THEN TransitionToBroadcastRelated(mm)
    ELSE KillRunningApp(mm, mm.hbbtvAppId)

LEMMA CheckedFirstFollows ==
    ASSUME NEW mm, Good(mm), mm.ait # NoAit, NEW pc
    PROVE  Follows(mm, CheckedFirst(mm, pc)) /\ CheckedFirst(mm, pc).ait = mm.ait
  <1> DEFINE id == mm.hbbtvAppId
             kk == KillRunningApp(mm, id)
  <1>1. Follows(mm, mm) /\ mm \in Manager
    BY DEF Follows, Good
  <1>2. Follows(mm, kk) /\ kk.ait = mm.ait
    BY KillGood DEF Follows
  <1>3. UpdateRunningApp(mm).ait = mm.ait /\ TransitionToBroadcastRelated(mm).ait = mm.ait
    BY <1>1, UpdateAit
  <1>4. Running(mm, id) => Follows(mm, ContinueOrKill(mm, pc))
    BY ContinueOrKillFollows
  <1>5. ContinueOrKill(mm, pc).ait = mm.ait
    BY <1>2, <1>3 DEF ContinueOrKill
  <1>6. Running(mm, id) /\ MayTransition(mm, pc)
            => Follows(mm, TransitionToBroadcastRelated(mm))
    <2>1. MayTransition(mm, pc) => Signalled(mm) # 0
      BY DEF MayTransition
    <2> QED
      BY <2>1, UpdateKeeps, KeepsFollows
  <1> QED
    BY <1>1, <1>2, <1>3, <1>4, <1>5, <1>6 DEF CheckedFirst

LEMMA ReceivedGood ==
    ASSUME NEW mm, Good(mm), mm.ait # NoAit, mm.nextId < MaxAppId, NEW pc
    PROVE  Good(OnSelectedServiceAitReceived(mm, pc))
  <1> DEFINE cc == CheckedFirst(mm, pc)
  <1>1. Good(cc) /\ cc.ait # NoAit /\ cc.nextId < MaxAppId
    BY CheckedFirstFollows DEF Follows
  <1>2. OnSelectedServiceAitReceived(mm, pc)
            = IF Running(cc, cc.hbbtvAppId) THEN UpdateAgain(cc, pc)
              ELSE OnPerformBroadcastAutostart(cc, pc)
    BY DEF OnSelectedServiceAitReceived, CheckedFirst
  <1> HIDE DEF cc
  <1>3. Running(cc, cc.hbbtvAppId) => Good(UpdateAgain(cc, pc))
    BY <1>1, UpdateAgainFollows
  <1>4. Good(OnPerformBroadcastAutostart(cc, pc))
    BY <1>1, AutostartGood
  <1> QED
    BY <1>2, <1>3, <1>4

LEMMA UpdatedGood ==
    ASSUME NEW mm, Good(mm), mm.ait # NoAit, mm.nextId < MaxAppId, NEW pc
    PROVE  Good(OnSelectedServiceAitUpdated(mm, pc))
  <1> DEFINE cc == IF Running(mm, mm.hbbtvAppId)
                   THEN ContinueOrKill(mm, pc) ELSE mm
  <1>1. Good(cc) /\ cc.nextId < MaxAppId
    BY ContinueOrKillFollows DEF Follows
  <1>2. OnSelectedServiceAitUpdated(mm, pc)
            = IF Running(mm, mm.hbbtvAppId) /\ ~HbbtvApp(mm).isBroadcast THEN mm
              ELSE IF Running(cc, cc.hbbtvAppId) THEN cc
              ELSE OnPerformBroadcastAutostart(cc, pc)
    BY DEF OnSelectedServiceAitUpdated
  <1> HIDE DEF cc
  <1>3. Good(OnPerformBroadcastAutostart(cc, pc))
    BY <1>1, AutostartGood
  <1> QED
    BY <1>1, <1>2, <1>3

LEMMA AitCompletedGood ==
    ASSUME NEW mm, Good(mm), mm.nextId < MaxAppId, NEW t \in AitTable, NEW pc
    PROVE  Good(AitCompleted(mm, t, pc))
  <1> DEFINE uu == [mm EXCEPT !.ait = t]
             ff == [uu EXCEPT !.aitTimer = FALSE, !.receivedFirstAit = TRUE]
  <1>1. mm \in Manager /\ t # NoAit
    BY ModelValuesAssumption DEF Good
  <1>2. Good(uu) /\ uu.nextId = mm.nextId
    <2>1. Keeps(mm, uu)
      BY <1>1, SetAitKeeps
    <2> HIDE DEF uu
    <2> QED
      BY <2>1, KeepsGood
  <1>3. uu.ait = t
    BY <1>1 DEF Manager
  <1>4. AitCompleted(mm, t, pc)
            = IF mm.receivedFirstAit THEN OnSelectedServiceAitUpdated(uu, pc)
              ELSE OnSelectedServiceAitReceived(ff, pc)
    BY DEF AitCompleted
  <1> HIDE DEF uu
  <1>5. ff \in Manager /\ uu \in Manager
    <2> DEFINE kk == [uu EXCEPT !.aitTimer = FALSE]
    <2>1. uu \in Manager
      BY <1>2 DEF Good
    <2>2. kk \in Manager
      BY ONLY <2>1 DEF Manager
    <2>3. ff = [kk EXCEPT !.receivedFirstAit = TRUE]
      OBVIOUS
    <2> HIDE DEF kk
    <2>4. [kk EXCEPT !.receivedFirstAit = TRUE] \in Manager
      BY ONLY <2>2 DEF Manager
    <2> QED
      BY <2>1, <2>3, <2>4
  <1>6. /\ SameSlots(uu, ff) /\ ff.ait = uu.ait /\ ff.nextId = uu.nextId
        /\ ~ff.aitTimer
    BY <1>5 DEF Manager, SameSlots
  <1> HIDE DEF ff
  <1>7. Good(ff)
    BY <1>2, <1>5, <1>6, SlotsFrame DEF Good
  <1>8. Good(OnSelectedServiceAitReceived(ff, pc))
    BY <1>1, <1>2, <1>3, <1>6, <1>7, ReceivedGood
  <1>9. Good(OnSelectedServiceAitUpdated(uu, pc))
    BY <1>1, <1>2, <1>3, UpdatedGood
  <1> QED
    BY <1>4, <1>8, <1>9
-----------------------------------------------------------------------------
(* The public methods.                                                     *)

(* The inductive invariant: TypeOK, SlotsConsistent, BrowserAgrees and
   TimerOnlyBeforeFirstAit together.                                       *)
IInv ==
    /\ Good(m)
    /\ parental \in BOOLEAN
    /\ returned \in [id : Ids, loadError : BOOLEAN]
    /\ crashed \in BOOLEAN

LEMMA StepIInv ==
    ASSUME IInv, NEW next, Good(next), Step(next)
    PROVE  IInv'
  <1>1. NothingReturned \in [id : Ids, loadError : BOOLEAN]
    BY DEF NothingReturned, Ids
  <1>2. Good(m')
    BY DEF Step
  <1> QED
    BY <1>1, <1>2 DEF Step, IInv

LEMMA CreateReturnsIInv ==
    ASSUME IInv, NEW next, Good(next), NEW id \in Ids, CreateReturns(next, id)
    PROVE  IInv'
  <1>1. [id |-> id, loadError |-> id = INVALID_APP_ID] \in [id : Ids, loadError : BOOLEAN]
    OBVIOUS
  <1>2. Good(m')
    BY DEF CreateReturns
  <1> QED
    BY <1>1, <1>2 DEF CreateReturns, IInv

(* The ids CreateApplication returns.                                      *)
LEMMA NextIdType ==
    ASSUME IInv, MayCreate
    PROVE  m.nextId + 1 \in Ids /\ 1 \in Ids /\ INVALID_APP_ID \in Ids
  BY MaxAppIdAssumption DEF IInv, Good, Manager, MayCreate, Ids, AppIds

LEMMA CreateFromAitIInv ==
    ASSUME IInv, NEW id, NEW key, NEW op \in BOOLEAN,
           CreateApplicationFromAit(id, key, op)
    PROVE  IInv'
  <1> DEFINE i == FindApp(m.ait.apps, key)
             d == m.ait.apps[i]
             next == CreateAndRunApp(m, d, m.ait.from, parental, TRUE, op, FALSE)
  <1>1. Good(m) /\ m \in Manager /\ m.nextId < MaxAppId /\ MayCreate
    BY DEF CreateApplicationFromAit, MayCreate, IInv, Good
  <1>2. CASE m.ait = NoAit \/ i = 0
    <2>1. CreateReturns(m, INVALID_APP_ID)
      BY <1>2 DEF CreateApplicationFromAit
    <2> QED
      BY <1>1, <2>1, CreateReturnsIInv, NextIdType
  <1>3. CASE ~(m.ait = NoAit \/ i = 0)
    <2>1. CreateReturns(next, CreatedId(d))
      BY <1>3 DEF CreateApplicationFromAit
    <2>2. m.ait.apps \in Table /\ m.ait.from \in Triplets
      BY <1>1, <1>3, AitType
    <2>3. d \in AppDesc
      BY <1>3, <2>2, FindAppType
    <2> HIDE DEF d
    <2>4. Good(next)
      BY <1>1, <2>2, <2>3, CreateGood
    <2>5. CreatedId(d) \in Ids
      BY <1>1, NextIdType DEF CreatedId
    <2> HIDE DEF next
    <2> QED
      BY <2>1, <2>4, <2>5, CreateReturnsIInv
  <1> QED
    BY <1>2, <1>3

LEMMA CreateFromPageIInv ==
    ASSUME IInv, NEW id, NEW origin \in Origins, NEW op \in BOOLEAN,
           CreateApplicationFromPage(id, origin, op)
    PROVE  IInv'
  <1>1. PICK key \in Keys \cup {0}, callsBack \in BOOLEAN :
            CreateReturns(
                RunApp([m EXCEPT !.nextId = m.nextId + 1],
                       NewAppFromUrl(origin, op, BlankDesc(key, origin)),
                       callsBack),
                m.nextId + 1)
    BY DEF CreateApplicationFromPage
  <1> DEFINE dd == [m EXCEPT !.nextId = m.nextId + 1]
             app == NewAppFromUrl(origin, op, BlankDesc(key, origin))
             next == RunApp(dd, app, callsBack)
  <1>2. Good(m) /\ m.nextId < MaxAppId /\ MayCreate
    BY DEF CreateApplicationFromPage, MayCreate, IInv
  <1>3. Good(dd) /\ dd.nextId \in AppIds /\ ~Running(dd, dd.nextId)
    BY <1>2, DrawGood
  <1>4. app \in App
    BY NewAppFromUrlType
  <1>5. CreateReturns(next, m.nextId + 1)
    BY <1>1
  <1> HIDE DEF dd, app
  <1>6. Good(next)
    BY <1>3, <1>4, RunGood
  <1> HIDE DEF next
  <1> QED
    BY <1>2, <1>5, <1>6, CreateReturnsIInv, NextIdType

(* ProcessXmlAit starts the autostart application of the XML AIT.          *)
LEMMA XmlAitAppGood ==
    ASSUME IInv, MayCreate, NEW t \in Table, NEW callsBack
    PROVE  Good(XmlAitApp(t, callsBack)) /\ XmlAitResult(t) \in Ids
  <1> DEFINE i == AutoStartApp(t, parental)
             next == CreateAndRunApp(m, t[i], NoService, parental, FALSE, FALSE,
                                     callsBack)
  <1>1. Good(m) /\ m.nextId < MaxAppId
    BY DEF MayCreate, IInv
  <1>2. i = 0 \/ t[i] \in AppDesc
    BY AutoStartAppType
  <1>3. XmlAitApp(t, callsBack) = IF i = 0 THEN m ELSE next
    BY DEF XmlAitApp
  <1>4. XmlAitResult(t) \in Ids
    BY NextIdType DEF XmlAitResult
  <1>5. i # 0 => Good(next)
    <2> HIDE DEF i
    <2>1. NoService \in Triplets
      BY DEF Triplets
    <2> QED
      BY <1>1, <1>2, <2>1, CreateGood
  <1> QED
    BY <1>1, <1>3, <1>4, <1>5

LEMMA WithSchemeType ==
    ASSUME NEW t \in Table, NEW lloc \in BOOLEAN
    PROVE  WithScheme(t, lloc) \in Table
  <1> DEFINE w == [i \in DOMAIN t |-> [t[i] EXCEPT !.lloc = lloc]]
  <1>1. \A d \in AppDesc : [d EXCEPT !.lloc = lloc] \in AppDesc
    BY DEF AppDesc
  <1>2. w \in [1..Len(t) -> AppDesc] /\ Len(t) \in Nat
    BY <1>1 DEF Table
  <1> QED
    BY <1>2, SeqDef DEF WithScheme, Table

LEMMA XmlAitIInv ==
    ASSUME IInv, NEW t \in XmlAits, NEW lloc \in BOOLEAN,
           ProcessXmlAit(t, lloc) \/ ProcessDvbiXmlAit(t, lloc)
    PROVE  IInv'
  <1> DEFINE w == WithScheme(t, lloc)
  <1>1. w \in Table
    BY TablesAssumption, WithSchemeType
  <1>2. Good(m) /\ m \in Manager
    BY DEF IInv, Good
  <1>3. CASE ProcessXmlAit(t, lloc)
    <2>1. PICK callsBack \in BOOLEAN : Step(XmlAitApp(w, callsBack))
      BY <1>3 DEF ProcessXmlAit
    <2>2. MayCreate
      BY <1>3 DEF ProcessXmlAit
    <2> HIDE DEF w
    <2> QED
      BY <1>1, <2>1, <2>2, XmlAitAppGood, StepIInv
  <1>4. CASE ProcessDvbiXmlAit(t, lloc)
    <2> DEFINE pp == [m EXCEPT !.aitPid = XML_AIT_PID]
               tt == [from |-> NoService, apps |-> w]
    <2>1. Step(AitCompleted(pp, tt, parental)) /\ m.nextId < MaxAppId
      BY <1>4 DEF ProcessDvbiXmlAit, MayCreate
    <2>2. Keeps(m, pp)
      <3>1. pp \in Manager
        BY <1>2 DEF Manager
      <3> QED
        BY <1>2, <3>1 DEF Manager, Keeps, SameSlots
    <2>3. tt \in AitTable
      BY <1>1 DEF AitTable
    <2> HIDE DEF pp, tt
    <2>4. Good(pp) /\ pp.nextId < MaxAppId
      BY <1>2, <2>1, <2>2, KeepsGood
    <2>5. Good(AitCompleted(pp, tt, parental))
      BY <2>3, <2>4, AitCompletedGood
    <2> QED
      BY <2>1, <2>5, StepIInv
  <1> QED
    BY <1>3, <1>4

LEMMA AitSectionIInv ==
    ASSUME IInv, NEW pid \in Pids, NEW s \in Services,
           \/ ProcessAitSectionPartial(pid, s)
           \/ \E t \in BroadcastAits[s] : ProcessAitSectionLast(pid, s, t)
    PROVE  IInv'
  <1> DEFINE nn == NewPid(pid)
  <1>1. Good(m) /\ m \in Manager
    BY DEF IInv, Good
  <1>2. Keeps(m, nn)
    <2> DEFINE a == IF m.aitPid \notin {0, pid} THEN NoAit ELSE m.ait
               pp == [m EXCEPT !.aitPid = pid, !.ait = a]
    <2>1. a \in AitTable \cup {NoAit}
      BY <1>1 DEF Manager
    <2>2. nn = pp
      BY DEF NewPid
    <2> HIDE DEF a, nn
    <2>3. pp \in Manager
      BY <1>1, <2>1 DEF Manager
    <2>4. Keeps(m, pp)
      BY <1>1, <2>3 DEF Manager, Keeps, SameSlots
    <2> QED
      BY <2>2, <2>4
  <1> HIDE DEF nn
  <1>3. Good(nn) /\ nn.nextId = m.nextId
    BY <1>1, <1>2, KeepsGood
  <1>4. CASE ProcessAitSectionPartial(pid, s)
    <2>1. Step(nn)
      BY <1>4 DEF ProcessAitSectionPartial, nn
    <2> QED
      BY <1>3, <2>1, StepIInv
  <1>5. CASE \E t \in BroadcastAits[s] : ProcessAitSectionLast(pid, s, t)
    <2>1. PICK t \in BroadcastAits[s] : ProcessAitSectionLast(pid, s, t)
      BY <1>5
    <2> DEFINE tt == [from |-> s, apps |-> t]
    <2>2. tt \in AitTable
      BY TablesAssumption DEF AitTable
    <2>3. Step(AitCompleted(nn, tt, parental)) /\ m.nextId < MaxAppId
      BY <2>1 DEF ProcessAitSectionLast, MayCreate, nn
    <2> HIDE DEF tt
    <2>4. Good(AitCompleted(nn, tt, parental))
      BY <1>3, <2>2, <2>3, AitCompletedGood
    <2> QED
      BY <2>3, <2>4, StepIInv
  <1> QED
    BY <1>4, <1>5

LEMMA TimeoutIInv ==
    ASSUME IInv, OnSelectedServiceAitTimeout
    PROVE  IInv'
  <1> DEFINE tt == [m EXCEPT !.aitTimer = FALSE]
             kk == KillRunningApp(tt, m.hbbtvAppId)
  <1>1. Good(m) /\ m \in Manager
    BY DEF IInv, Good
  <1>2. tt \in Manager
    BY <1>1 DEF Manager
  <1>3. SameSlots(m, tt) /\ ~tt.aitTimer
    BY <1>1 DEF Manager, SameSlots
  <1>4. Step(kk)
    BY DEF OnSelectedServiceAitTimeout
  <1> HIDE DEF tt
  <1>5. Good(tt)
    BY <1>1, <1>2, <1>3, SlotsFrame DEF Good
  <1>6. Good(kk)
    BY <1>5, KillGood
  <1> HIDE DEF kk
  <1> QED
    BY <1>4, <1>6, StepIInv

LEMMA DestroyIInv ==
    ASSUME IInv, NEW id, DestroyApplication(id)
    PROVE  IInv'
  <1> DEFINE kk == KillRunningApp(m, id)
             next == OnRunningAppExited(kk, parental)
  <1>1. Good(m) /\ m.nextId < MaxAppId /\ Step(next)
    BY DEF IInv, DestroyApplication, MayCreate
  <1>2. Good(kk) /\ kk.nextId = m.nextId
    BY <1>1, KillGood
  <1> HIDE DEF kk
  <1>3. Good(next)
    BY <1>1, <1>2, ExitedGood
  <1> HIDE DEF next
  <1> QED
    BY <1>1, <1>3, StepIInv

(* Show and Hide: the state of the application and the browser's view of it
   change together.                                                        *)
LEMMA SetStateIInv ==
    ASSUME IInv, NEW id, NEW state \in {"FOREGROUND", "BACKGROUND"},
           SetState(id, state)
    PROVE  IInv'
  <1> DEFINE app == [m.apps[id] EXCEPT !.state = state]
             a == [m.apps EXCEPT ![id] = app]
             v == IF state = "BACKGROUND" THEN m.visible \ {id}
                  ELSE m.visible \cup {id}
             next == [m EXCEPT !.apps = a, !.visible = v]
  <1>1. Good(m) /\ m \in Manager /\ Running(m, id)
    BY DEF IInv, Good, SetState
  <1>2. id \in AppIds /\ m.apps[id] \in App
    BY <1>1, RunningType
  <1>3. Step(IF m.apps[id].state = state THEN m ELSE next)
    BY DEF SetState
  <1>4. app \in App /\ app.type = m.apps[id].type /\ app.state = state
    BY <1>2 DEF App
  <1> HIDE DEF app
  <1>5. /\ a \in AppMap
        /\ \A x \in AppIds : a[x] = IF x = id THEN app ELSE m.apps[x]
    BY <1>1, <1>2, <1>4 DEF Manager, AppMap
  <1>6. v \in SUBSET AppIds
    BY <1>1, <1>2 DEF Manager
  <1> HIDE DEF a, v
  <1>7. next \in Manager
    BY <1>1, <1>5, <1>6 DEF Manager, AppMap
  <1>8. /\ next.apps = a /\ next.visible = v
        /\ next.hbbtvAppId = m.hbbtvAppId
        /\ next.opAppId = m.opAppId
        /\ next.nextId = m.nextId
        /\ next.loaded = m.loaded
        /\ next.aitTimer = m.aitTimer
        /\ next.receivedFirstAit = m.receivedFirstAit
    BY <1>1 DEF Manager
  <1> HIDE DEF next
  <1>9. app # NoApp /\ m.apps[id] # NoApp
    BY <1>1, <1>4, ModelValuesAssumption DEF Running
  <1>10. RunningApps(next) = RunningApps(m)
    BY <1>5, <1>8, <1>9 DEF RunningApps
  <1>11. SlotsOk(next)
    BY <1>1, <1>4, <1>5, <1>8, <1>10 DEF Good, SlotsOk, RunningApps
  <1>12. BrowserOk(next)
    BY <1>1, <1>4, <1>5, <1>8, <1>10 DEF Good, BrowserOk, RunningApps, v
  <1>13. Good(next)
    BY <1>1, <1>7, <1>8, <1>11, <1>12 DEF Good
  <1> QED
    BY <1>1, <1>3, <1>13, StepIInv

LEMMA TeletextIInv ==
    ASSUME IInv, RunTeletextApplication
    PROVE  IInv'
  <1> DEFINE d == m.ait.apps[TeletextApp(m.ait.apps)]
             next == CreateAndRunApp(m, d, m.ait.from, parental, TRUE, FALSE, FALSE)
  <1>1. Good(m) /\ m \in Manager /\ m.nextId < MaxAppId /\ Step(next)
    BY DEF IInv, Good, RunTeletextApplication, MayCreate
  <1>2. m.ait.apps \in Table /\ m.ait.from \in Triplets
    BY <1>1, AitType DEF RunTeletextApplication
  <1>3. d \in AppDesc
    BY <1>2, TeletextAppType DEF RunTeletextApplication
  <1> HIDE DEF d
  <1>4. Good(next)
    BY <1>1, <1>2, <1>3, CreateGood
  <1> HIDE DEF next
  <1> QED
    BY <1>1, <1>4, StepIInv

LEMMA BroadcastIInv ==
    ASSUME IInv,
           \/ OnBroadcastStopped
           \/ \E s \in Services : OnChannelChanged(s)
           \/ \E b \in BOOLEAN : OnNetworkAvailabilityChanged(b)
    PROVE  IInv'
  <1>1. Good(m) /\ m \in Manager
    BY DEF IInv, Good
  <1>2. CASE OnBroadcastStopped
    <2>1. Good(BroadcastStopped(m)) /\ Step(BroadcastStopped(m))
      BY <1>1, <1>2, BroadcastStoppedKeeps, KeepsGood DEF OnBroadcastStopped
    <2> QED
      BY <2>1, StepIInv
  <1>3. ASSUME NEW s \in Services, OnChannelChanged(s)
        PROVE  IInv'
    <2> DEFINE cc == ClearAit(m)
               next == [cc EXCEPT !.aitTimer = TRUE,
                                  !.previousService = m.currentService,
                                  !.currentService = s]
    <2>1. Keeps(m, cc) /\ ~cc.receivedFirstAit /\ cc \in Manager
      BY <1>1, ClearAitKeeps DEF Keeps
    <2>2. Step(next)
      BY <1>3 DEF OnChannelChanged
    <2>3. m.currentService \in Triplets
      BY <1>1 DEF Manager, Triplets
    <2> HIDE DEF cc
    <2>4. Good(cc)
      BY <1>1, <2>1, KeepsGood
    <2>5. next \in Manager
      BY <2>1, <2>3 DEF Manager, Triplets
    <2>6. SameSlots(cc, next) /\ next.receivedFirstAit = cc.receivedFirstAit
      BY <2>1 DEF Manager, SameSlots
    <2> HIDE DEF next
    <2>7. Good(next)
      BY <2>1, <2>4, <2>5, <2>6, SlotsFrame DEF Good
    <2> QED
      BY <2>2, <2>7, StepIInv
  <1>4. ASSUME NEW b \in BOOLEAN, OnNetworkAvailabilityChanged(b)
        PROVE  IInv'
    <2> DEFINE next == [m EXCEPT !.networkAvailable = b]
    <2>1. next \in Manager
      BY <1>1 DEF Manager
    <2>2. Keeps(m, next)
      BY <1>1, <2>1 DEF Manager, Keeps, SameSlots
    <2>3. Step(next)
      BY <1>4 DEF OnNetworkAvailabilityChanged
    <2> HIDE DEF next
    <2> QED
      BY <1>1, <2>2, <2>3, KeepsGood, StepIInv
  <1> QED
    BY <1>2, <1>3, <1>4

LEMMA LoadFailedIInv ==
    ASSUME IInv, NEW id, OnLoadApplicationFailed(id)
    PROVE  IInv'
  <1> DEFINE app == m.apps[id]
             i == FindApp(m.ait.apps, app.aitDesc.key)
             marks == m.ait # NoAit /\ app.aitDesc.key # 0
             t == AppSetTransportFailedToLoad(m.ait.apps, i, app.protocolId)
             tt == [m.ait EXCEPT !.apps = t]
             marked == [m EXCEPT !.ait = tt]
             mm == IF marks THEN marked ELSE m
             kk == KillRunningApp(mm, id)
             next == OnPerformBroadcastAutostart(kk, parental)
  <1>1. Good(m) /\ m \in Manager /\ m.nextId < MaxAppId
    BY DEF IInv, Good, OnLoadApplicationFailed, MayCreate
  <1>2. CASE marks /\ i = 0
    <2>1. crashed' = TRUE /\ UNCHANGED <<m, parental, returned>>
      BY <1>2 DEF OnLoadApplicationFailed
    <2> QED
      BY <2>1 DEF IInv
  <1>3. CASE ~(marks /\ i = 0)
    <2>1. Step(next)
      BY <1>3 DEF OnLoadApplicationFailed
    <2>2. marks => tt \in AitTable
      <3> SUFFICES ASSUME marks PROVE tt \in AitTable
        OBVIOUS
      <3>1. m.ait.apps \in Table /\ m.ait \in AitTable
        BY <1>1, AitType DEF Manager
      <3>2. i \in DOMAIN m.ait.apps
        BY <1>3, <3>1, FindAppType
      <3>3. t \in Table
        <4> HIDE DEF i
        <4> QED
          BY <3>1, <3>2, MarkFailedType
      <3> HIDE DEF t
      <3> QED
        BY <3>1, <3>3 DEF AitTable
    <2>3. mm.nextId = m.nextId /\ Good(mm)
      <3> HIDE DEF tt, marks
      <3>1. CASE marks
        <4>1. Keeps(m, marked)
          BY <1>1, <2>2, <3>1, SetAitKeeps
        <4> HIDE DEF marked
        <4> QED
          BY <1>1, <3>1, <4>1, KeepsGood
      <3>2. CASE ~marks
        BY <1>1, <3>2
      <3> QED
        BY <3>1, <3>2
    <2> HIDE DEF mm
    <2>4. Good(kk) /\ kk.nextId < MaxAppId
      BY <1>1, <2>3, KillGood
    <2> HIDE DEF kk
    <2>5. Good(next)
      BY <2>4, AutostartGood
    <2> HIDE DEF next
    <2> QED
      BY <2>1, <2>5, StepIInv
  <1> QED
    BY <1>2, <1>3

LEMMA PageChangedIInv ==
    ASSUME IInv, NEW id, NEW origin \in Origins,
           OnApplicationPageChanged(id, origin)
    PROVE  IInv'
  <1> DEFINE app == [m.apps[id] EXCEPT !.loadedUrl = origin]
             next == [m EXCEPT !.apps = [m.apps EXCEPT ![id] = app]]
  <1>1. Good(m) /\ m \in Manager /\ Running(m, id) /\ Step(next)
    BY DEF IInv, Good, OnApplicationPageChanged
  <1>2. m.apps[id] \in App
    BY <1>1, RunningType
  <1>3. /\ app \in App /\ app.type = m.apps[id].type
        /\ app.state = m.apps[id].state
    BY <1>2 DEF App, PageOrigins
  <1> HIDE DEF app
  <1>4. Good(next)
    BY <1>1, <1>3, ReplaceAppKeeps, KeepsGood
  <1> HIDE DEF next
  <1> QED
    BY <1>1, <1>4, StepIInv
-----------------------------------------------------------------------------
LEMMA InitIInv == Init => IInv
  <1> SUFFICES ASSUME Init PROVE IInv
    OBVIOUS
  <1>1. m \in Manager
    BY MaxAppIdAssumption DEF Init, Manager
  <1>2. RunningApps(m) = {}
    BY DEF Init, RunningApps
  <1>3. m.hbbtvAppId = INVALID_APP_ID /\ m.opAppId = INVALID_APP_ID
        /\ m.loaded = INVALID_APP_ID /\ ~m.aitTimer
    BY DEF Init
  <1>4. Good(m)
    BY <1>1, <1>2, <1>3 DEF Good, SlotsOk, BrowserOk
  <1> QED
    BY <1>4 DEF Init, IInv, NothingReturned, Ids

LEMMA AppCallsIInv ==
    ASSUME IInv, AppCalls
    PROVE  IInv'
  <1>1. PICK id \in CallerIds :
            \/ \E op \in BOOLEAN :
                \/ CreateApplicationRefused(id, op)
                \/ \E key \in Keys : CreateApplicationFromAit(id, key, op)
                \/ \E o \in Origins : CreateApplicationFromPage(id, o, op)
                \/ \E t \in XmlAits : CreateApplicationFromXmlAit(id, t, op)
            \/ CreateApplicationUnknown(id)
            \/ DestroyApplication(id)
            \/ ShowApplication(id)
            \/ HideApplication(id)
    BY DEF AppCalls
  <1>2. Good(m) /\ INVALID_APP_ID \in Ids
    BY DEF IInv, Ids
  <1>3. ASSUME NEW op \in BOOLEAN, CreateApplicationRefused(id, op)
        PROVE  IInv'
    BY <1>2, <1>3, StepIInv DEF CreateApplicationRefused
  <1>4. ASSUME NEW op \in BOOLEAN, NEW key \in Keys,
               CreateApplicationFromAit(id, key, op)
        PROVE  IInv'
    BY <1>4, CreateFromAitIInv
  <1>5. ASSUME NEW op \in BOOLEAN, NEW o \in Origins,
               CreateApplicationFromPage(id, o, op)
        PROVE  IInv'
    BY <1>5, CreateFromPageIInv
  <1>6. ASSUME NEW op \in BOOLEAN, NEW t \in XmlAits,
               CreateApplicationFromXmlAit(id, t, op)
        PROVE  IInv'
    <2> DEFINE w == WithScheme(t, FALSE)
    <2>1. MayCreate /\ w \in Table
      BY <1>6, TablesAssumption, WithSchemeType DEF CreateApplicationFromXmlAit
    <2>2. PICK callsBack \in BOOLEAN :
            CreateReturns(XmlAitApp(w, callsBack), XmlAitResult(w))
      BY <1>6 DEF CreateApplicationFromXmlAit
    <2> HIDE DEF w
    <2> QED
      BY <2>1, <2>2, XmlAitAppGood, CreateReturnsIInv
  <1>7. CASE CreateApplicationUnknown(id)
    BY <1>2, <1>7, CreateReturnsIInv DEF CreateApplicationUnknown
  <1>8. CASE DestroyApplication(id)
    BY <1>8, DestroyIInv
  <1>9. CASE ShowApplication(id) \/ HideApplication(id)
    BY <1>9, SetStateIInv DEF ShowApplication, HideApplication
  <1> QED
    BY <1>1, <1>3, <1>4, <1>5, <1>6, <1>7, <1>8, <1>9

LEMMA PlatformCallsIInv ==
    ASSUME IInv, PlatformCalls
    PROVE  IInv'
  <1>1. ASSUME NEW t \in XmlAits, NEW lloc \in BOOLEAN,
               ProcessXmlAit(t, lloc) \/ ProcessDvbiXmlAit(t, lloc)
        PROVE  IInv'
    BY <1>1, XmlAitIInv
  <1>2. ASSUME NEW pid \in Pids, NEW s \in Services,
               \/ ProcessAitSectionPartial(pid, s)
               \/ \E t \in BroadcastAits[s] : ProcessAitSectionLast(pid, s, t)
        PROVE  IInv'
    BY <1>2, AitSectionIInv
  <1>3. CASE RunTeletextApplication
    BY <1>3, TeletextIInv
  <1>4. CASE \/ OnBroadcastStopped
             \/ \E s \in Services : OnChannelChanged(s)
             \/ \E b \in BOOLEAN : OnNetworkAvailabilityChanged(b)
    BY <1>4, BroadcastIInv
  <1> QED
    BY <1>1, <1>2, <1>3, <1>4 DEF PlatformCalls

LEMMA NextIInv == IInv /\ [Next]_vars => IInv'
  <1> SUFFICES ASSUME IInv, [Next]_vars
               PROVE  IInv'
    OBVIOUS
  <1>1. CASE AppCalls
    BY <1>1, AppCallsIInv
  <1>2. CASE BrowserCalls
    BY <1>2, LoadFailedIInv, PageChangedIInv DEF BrowserCalls
  <1>3. CASE PlatformCalls
    BY <1>3, PlatformCallsIInv
  <1>4. CASE OnSelectedServiceAitTimeout
    BY <1>4, TimeoutIInv
  <1>5. CASE ParentalControlChanged
    <2>1. m' = m /\ crashed' = crashed /\ parental' \in BOOLEAN
      BY <1>5 DEF ParentalControlChanged
    <2>2. returned' \in [id : Ids, loadError : BOOLEAN]
      BY <1>5 DEF ParentalControlChanged, NothingReturned, Ids
    <2> QED
      BY <2>1, <2>2 DEF IInv
  <1>6. CASE UNCHANGED vars
    BY <1>6 DEF IInv, vars
  <1> QED
    BY <1>1, <1>2, <1>3, <1>4, <1>5, <1>6 DEF Next

LEMMA Invariance == Spec => []IInv
  BY InitIInv, NextIInv, PTL DEF Spec

(* Whatever tables the services carry and however the calls of applications,
   browser and platform interleave, every member of the manager keeps its
   type; in particular no method runs past the ids it may draw, and a failed
   load leaves a well-formed table.                                        *)
THEOREM TypeCorrect == Spec => []TypeOK
  <1>1. IInv => TypeOK
    BY DEF IInv, Good, TypeOK, Ids
  <1> QED
    BY <1>1, Invariance, PTL

(* m_apps, m_hbbtvAppId and m_opAppId never disagree: RunApp, KillRunningApp
   and the OnBroadcastStopped callback made from inside RunApp leave every
   running application in exactly the slot of its type.                    *)
THEOREM SlotsCorrect == Spec => []SlotsConsistent
  <1>1. IInv => SlotsConsistent
    BY DEF IInv, Good, SlotsConsistent
  <1> QED
    BY <1>1, Invariance, PTL

(* What ApplicationSessionCallback told the browser to load, show and hide
   agrees with the manager's applications after every method.              *)
THEOREM BrowserCorrect == Spec => []BrowserAgrees
  <1>1. IInv => BrowserAgrees
    BY DEF IInv, Good, BrowserAgrees
  <1> QED
    BY <1>1, Invariance, PTL

(* The AIT timer runs only while the first table of the service is awaited:
   the tail of ProcessAitSection and of ProcessXmlAit stops it.            *)
THEOREM TimerCorrect == Spec => []TimerOnlyBeforeFirstAit
  <1>1. IInv => TimerOnlyBeforeFirstAit
    BY DEF IInv, Good, TimerOnlyBeforeFirstAit
  <1> QED
    BY <1>1, Invariance, PTL
-----------------------------------------------------------------------------
(* Which application a table signals.                                      *)

(* A set of positions that is not empty has a first one.                   *)
LEMMA FirstExists ==
    ASSUME NEW K \in SUBSET Nat, K # {}
    PROVE  First(K) # {}
  <1> DEFINE R == {ss \in Nat \X Nat : ss[1] < ss[2]}
  <1>1. IsWellFoundedOn(R, Nat)
    BY NatLessThanWellFounded DEF OpToRel
  <1> HIDE DEF R
  <1>2. PICK i \in K : \A j \in K : <<j, i>> \notin R
    BY <1>1, WFMin
  <1>3. \A j \in K : ~(j < i)
    BY <1>2 DEF R
  <1> QED
    BY <1>3 DEF First

(* FindApp finds the key of every descriptor of the table.                 *)
LEMMA FindAppFinds ==
    ASSUME NEW t \in Table, NEW i \in DOMAIN t
    PROVE  FindApp(t, t[i].key) # 0
  <1> DEFINE K == {j \in DOMAIN t : t[j].key = t[i].key}
  <1>1. K \in SUBSET (Nat \ {0}) /\ K # {}
    BY DEF Table
  <1>2. First(K) # {} /\ First(K) \subseteq K
    BY <1>1, FirstExists DEF First
  <1>3. FindApp(t, t[i].key) = PointerTo(First(K))
    BY DEF FindApp
  <1> HIDE DEF K
  <1>4. PointerTo(First(K)) \in First(K)
    BY <1>2 DEF PointerTo
  <1> QED
    BY <1>1, <1>2, <1>3, <1>4

(* No two entries of a table have the same key.                            *)
OnePerKey(t) == \A i, j \in DOMAIN t : t[i].key = t[j].key => i = j

(* What is looked up is found: the first entry of the key or the only one. *)
LEMMA FindAppAgain ==
    ASSUME NEW t \in Table, NEW i \in DOMAIN t
    PROVE  LET k == FindApp(t, t[i].key)
           IN  /\ k \in DOMAIN t
               /\ t[k].key = t[i].key
               /\ OnePerKey(t) => k = i
  BY FindAppFinds, FindAppType DEF OnePerKey

(* The protocol extracted is that of a transport which has not failed.     *)
HasUnfailed(d, p) ==
    \E j \in DOMAIN d.transports :
        d.transports[j].protocolId = p /\ ~d.transports[j].failedToLoad

LEMMA ProtocolUnfailed ==
    ASSUME NEW d, NEW network, ExtractProtocolId(d, network) # 0
    PROVE  HasUnfailed(d, ExtractProtocolId(d, network))
  <1> DEFINE U == {j \in DOMAIN d.transports : Usable(d.transports[j], network)}
             i == PointerTo(First(U))
  <1>1. i = 0 \/ i \in U
    BY PointerToType DEF First
  <1>2. ExtractProtocolId(d, network) = IF i = 0 THEN 0 ELSE d.transports[i].protocolId
    BY DEF ExtractProtocolId
  <1> HIDE DEF i
  <1>3. i \in DOMAIN d.transports /\ ~d.transports[i].failedToLoad
    BY <1>1, <1>2 DEF Usable
  <1> QED
    BY <1>2, <1>3 DEF HasUnfailed

(* Marking a transport as failed changes nothing a table is searched by.   *)
LEMMA MarkFailedKeeps ==
    ASSUME NEW t \in Table, NEW i \in DOMAIN t, NEW p
    PROVE  LET u == AppSetTransportFailedToLoad(t, i, p)
           IN  /\ DOMAIN u = DOMAIN t
               /\ \A j \in DOMAIN t : u[j].key = t[j].key /\ u[j].opApp = t[j].opApp
  <1> DEFINE trs == [j \in DOMAIN t[i].transports |->
                        MarkFailed(t[i].transports[j], p)]
             d == [t[i] EXCEPT !.transports = trs]
  <1>1. AppSetTransportFailedToLoad(t, i, p) = [t EXCEPT ![i] = d]
    BY DEF AppSetTransportFailedToLoad, Table
  <1>2. t[i] \in AppDesc
    BY DEF Table
  <1> HIDE DEF trs
  <1>3. d.key = t[i].key /\ d.opApp = t[i].opApp
    BY <1>2 DEF AppDesc
  <1> HIDE DEF d
  <1> QED
    BY <1>1, <1>3 DEF Table
-----------------------------------------------------------------------------
(* The table in use and the application that runs from it.                 *)

SameTable(mm, nn) ==
    /\ nn.ait = mm.ait
    /\ nn.currentService = mm.currentService
    /\ nn.receivedFirstAit = mm.receivedFirstAit

(* The HbbTV application of nn, if one runs, is the one of mm.             *)
SameHbbtv(mm, nn) ==
    Running(nn, nn.hbbtvAppId) =>
        /\ Running(mm, mm.hbbtvAppId)
        /\ HbbtvApp(nn).isBroadcast = HbbtvApp(mm).isBroadcast
        /\ HbbtvApp(nn).aitDesc = HbbtvApp(mm).aitDesc
        /\ HbbtvApp(nn).descFrom = HbbtvApp(mm).descFrom
        /\ HbbtvApp(nn).protocolId = HbbtvApp(mm).protocolId

(* From mm to nn the table may be forgotten, the service and the
   application left, and nothing else happens to them.                     *)
Narrows(mm, nn) ==
    /\ nn.ait \in {mm.ait, NoAit}
    /\ nn.receivedFirstAit => mm.receivedFirstAit
    /\ nn.currentService # NoService =>
        nn.currentService = mm.currentService /\ SameHbbtv(mm, nn)

(* An HbbTV application that ran is there still, or another in its place.  *)
StillRuns(mm, nn) == Running(mm, mm.hbbtvAppId) => Running(nn, nn.hbbtvAppId)

(* No OpApp runs and the browser holds the page of the HbbTV application.  *)
Alone(mm) == mm.opAppId = INVALID_APP_ID /\ mm.loaded = mm.hbbtvAppId

(* nn runs a broadcast-related HbbTV application read from d in a table of
   the service from.                                                       *)
Started(mm, nn, d, from) ==
    /\ SameTable(mm, nn)
    /\ Running(nn, nn.hbbtvAppId)
    /\ HbbtvApp(nn).isBroadcast
    /\ HbbtvApp(nn).aitDesc = d
    /\ HbbtvApp(nn).descFrom = from
    /\ HbbtvApp(nn).protocolId = ExtractProtocolId(d, mm.networkAvailable)

LEMMA KillTable ==
    ASSUME NEW mm, Good(mm), NEW id
    PROVE  LET kk == KillRunningApp(mm, id)
           IN  /\ SameTable(mm, kk)
               /\ SameHbbtv(mm, kk)
               /\ Alone(mm) => Alone(kk)
               /\ id = mm.hbbtvAppId => ~Running(kk, kk.hbbtvAppId)
  <1> DEFINE kk == KillRunningApp(mm, id)
  <1>1. CASE ~(id \in {mm.hbbtvAppId, mm.opAppId} /\ Running(mm, id))
    BY <1>1 DEF KillRunningApp, SameTable, SameHbbtv
  <1>2. CASE id \in {mm.hbbtvAppId, mm.opAppId} /\ Running(mm, id)
    <2>1. mm \in Manager /\ SlotsOk(mm)
      BY DEF Good
    <2>2. kk.apps = Erase(mm.apps, id)
      BY <1>2, <2>1, KillFields
    <2>3. \A x \in AppIds : kk.apps[x] = IF x = id THEN NoApp ELSE mm.apps[x]
      BY <2>2 DEF Erase
    <2>4. kk.hbbtvAppId = IF mm.hbbtvAppId = id THEN INVALID_APP_ID ELSE mm.hbbtvAppId
      BY <1>2, <2>1, KillFields
    <2>5. kk.ait = mm.ait /\ kk.receivedFirstAit = mm.receivedFirstAit
      BY <1>2, <2>1, KillFields
    <2>6. kk.currentService = mm.currentService
      BY <1>2, <2>1 DEF KillRunningApp, Manager
    <2>7. SameHbbtv(mm, kk)
      BY <2>3, <2>4 DEF SameHbbtv, Running, HbbtvApp, AppIds, INVALID_APP_ID
    <2>8. Alone(mm) => Alone(kk)
      <3>1. kk.loaded = INVALID_APP_ID
        BY <1>2, <2>1, KillFields
      <3>2. kk.opAppId = IF mm.opAppId = id /\ mm.hbbtvAppId # id
                         THEN INVALID_APP_ID ELSE mm.opAppId
        BY <1>2, <2>1, KillFields
      <3>3. id # INVALID_APP_ID
        BY <1>2 DEF Running, AppIds, INVALID_APP_ID
      <3> QED
        BY <1>2, <2>4, <3>1, <3>2, <3>3 DEF Alone
    <2>9. id = mm.hbbtvAppId => ~Running(kk, kk.hbbtvAppId)
      BY <2>4 DEF Running, AppIds, INVALID_APP_ID
    <2> QED
      BY <2>5, <2>6, <2>7, <2>8, <2>9 DEF SameTable
  <1> QED
    BY <1>1, <1>2

(* Methods that keep the slots and the descriptors keep what matters here. *)
SameApps(mm, nn) ==
    \A id \in AppIds :
        \/ nn.apps[id] = mm.apps[id]
        \/ /\ nn.apps[id].isBroadcast = mm.apps[id].isBroadcast
           /\ nn.apps[id].aitDesc = mm.apps[id].aitDesc
           /\ nn.apps[id].descFrom = mm.apps[id].descFrom
           /\ nn.apps[id].protocolId = mm.apps[id].protocolId

LEMMA SameSlotsRuns ==
    ASSUME NEW mm, NEW nn, SameSlots(mm, nn)
    PROVE  /\ StillRuns(mm, nn)
           /\ Running(nn, nn.hbbtvAppId) => Running(mm, mm.hbbtvAppId)
           /\ Alone(mm) => Alone(nn)
           /\ SameApps(mm, nn) => SameHbbtv(mm, nn)
  BY DEF SameSlots, SameApps, StillRuns, Alone, SameHbbtv, Running, HbbtvApp

LEMMA DrawTable ==
    ASSUME NEW mm \in Manager
    PROVE  LET dd == [mm EXCEPT !.nextId = mm.nextId + 1]
           IN  /\ SameTable(mm, dd)
               /\ SameHbbtv(mm, dd)
               /\ StillRuns(mm, dd)
               /\ Alone(mm) => Alone(dd)
               /\ dd.nextId = mm.nextId + 1
               /\ dd.networkAvailable = mm.networkAvailable
  BY DEF Manager, SameTable, SameHbbtv, StillRuns, Alone, Running, HbbtvApp

(* RunApp stops broadcast under an independent application only; otherwise
   the table, and the application of the other slot, stay.                 *)
LEMMA RunAppStoppedTable ==
    ASSUME NEW mm \in Manager, NEW app, NEW callsBack
    PROVE  LET ee == RunAppErased(mm, app)
               st == RunAppStopped(mm, app, callsBack)
           IN  /\ app.isBroadcast => st = ee
               /\ SameTable(mm, ee)
               /\ st.ait \in {mm.ait, NoAit}
               /\ st.receivedFirstAit => mm.receivedFirstAit
               /\ ~app.isBroadcast => st.currentService = NoService
  <1> DEFINE ee == RunAppErased(mm, app)
             bb == StopBroadcast(ee, callsBack)
             ss == [bb EXCEPT !.currentService = NoService, !.previousService = NoService]
             st == RunAppStopped(mm, app, callsBack)
  <1>1. ee \in Manager /\ ee.receivedFirstAit = mm.receivedFirstAit
    BY RunAppErasedFields
  <1>2. ee.ait = mm.ait /\ ee.currentService = mm.currentService
    BY DEF RunAppErased, Manager
  <1>3. st = IF ~app.isBroadcast /\ mm.currentService # NoService THEN ss ELSE ee
    BY DEF RunAppStopped
  <1> HIDE DEF ee, st
  <1>4. bb \in Manager /\ (bb.receivedFirstAit => ee.receivedFirstAit)
    BY <1>1, BroadcastStoppedKeeps DEF StopBroadcast, Keeps
  <1>5. bb.ait \in {ee.ait, NoAit}
    <2>1. TransitionToBroadcastIndependent(
            [ClearAit(ee) EXCEPT !.currentService = NoService,
                                 !.previousService = NoService]).ait = NoAit
      <3> DEFINE cc == ClearAit(ee)
                 tt == [cc EXCEPT !.currentService = NoService,
                                  !.previousService = NoService]
      <3>1. cc \in Manager /\ cc.ait = NoAit
        <4>1. cc \in Manager
          BY <1>1, ClearAitKeeps DEF Keeps
        <4>2. cc.ait = NoAit
          BY <1>1 DEF ClearAit, Manager
        <4> QED
          BY <4>1, <4>2
      <3> HIDE DEF cc
      <3>2. tt \in Manager /\ tt.ait = NoAit
        <4>1. tt \in Manager
          BY <3>1, SelectKeeps DEF Keeps, Triplets
        <4> QED
          BY <3>1, <4>1 DEF Manager
      <3> HIDE DEF tt
      <3>3. TransitionToBroadcastIndependent(tt).ait = NoAit
        <4>1. \A a : [tt EXCEPT !.apps = a].ait = tt.ait
          BY <3>2 DEF Manager
        <4> QED
          BY <3>2, <4>1 DEF TransitionToBroadcastIndependent
      <3> QED
        BY <3>3 DEF tt, cc
    <2> QED
      BY <2>1 DEF StopBroadcast, BroadcastStopped
  <1> HIDE DEF bb
  <1>6. ss.ait = bb.ait /\ ss.currentService = NoService
        /\ ss.receivedFirstAit = bb.receivedFirstAit
    BY <1>4 DEF Manager
  <1> HIDE DEF ss
  <1>7. /\ app.isBroadcast => st = ee
        /\ SameTable(mm, ee)
        /\ st.ait \in {mm.ait, NoAit}
        /\ st.receivedFirstAit => mm.receivedFirstAit
        /\ ~app.isBroadcast => st.currentService = NoService
    BY <1>1, <1>2, <1>3, <1>4, <1>5, <1>6 DEF SameTable
  <1> QED
    BY <1>7 DEF ee, st

LEMMA RunTable ==
    ASSUME NEW mm, Good(mm), NEW app \in App, NEW callsBack,
           mm.nextId \in AppIds, ~Running(mm, mm.nextId)
    PROVE  LET rr == RunApp(mm, app, callsBack)
           IN  /\ rr.loaded = mm.nextId
               /\ Running(rr, mm.nextId)
               /\ StillRuns(mm, rr)
               /\ app.isBroadcast => SameTable(mm, rr)
               /\ ~app.isBroadcast => Narrows(mm, rr)
               /\ app.type = "opapp" /\ app.isBroadcast => SameHbbtv(mm, rr)
               /\ app.type = "hbbtv" =>
                    /\ Running(rr, rr.hbbtvAppId)
                    /\ HbbtvApp(rr) = app
                    /\ Alone(mm) => Alone(rr)
  <1> DEFINE id == mm.nextId
             slot == RunAppSlot(mm, app)
             ee == RunAppErased(mm, app)
             st == RunAppStopped(mm, app, callsBack)
             rr == RunApp(mm, app, callsBack)
  <1>1. mm \in Manager /\ SlotsOk(mm) /\ id \in AppIds
    BY DEF Good
  <1>2. /\ Keeps(ee, st)
        /\ Installed(mm, app, st, rr)
    BY <1>1, RunAppStoppedKeeps, RunAppFields
  <1>3. ee.apps = Erase(mm.apps, slot) /\ ee.hbbtvAppId = mm.hbbtvAppId
        /\ ee.opAppId = mm.opAppId
    BY <1>1, RunAppErasedFields
  <1>4. /\ app.isBroadcast => st = ee
        /\ SameTable(mm, ee)
        /\ st.ait \in {mm.ait, NoAit}
        /\ st.receivedFirstAit => mm.receivedFirstAit
        /\ ~app.isBroadcast => st.currentService = NoService
    BY <1>1, RunAppStoppedTable
  <1>5. rr.ait = st.ait /\ rr.currentService = st.currentService
    <2>1. st \in Manager
      BY <1>2 DEF Keeps
    <2>2. \A l, h, o, a, v : LET r == [st EXCEPT !.loaded = l, !.hbbtvAppId = h,
                                        !.opAppId = o, !.apps = a, !.visible = v]
                             IN  r.ait = st.ait /\ r.currentService = st.currentService
      BY <2>1 DEF Manager
    <2>3. rr = [st EXCEPT
                !.loaded = id,
                !.hbbtvAppId = IF app.type = "hbbtv" THEN id ELSE st.hbbtvAppId,
                !.opAppId = IF app.type = "opapp" THEN id ELSE st.opAppId,
                !.apps = [st.apps EXCEPT ![id] = app],
                !.visible = IF app.state # "BACKGROUND" THEN st.visible \cup {id}
                            ELSE st.visible \ {id}]
      BY DEF RunApp, RunAppStopped, RunAppErased, RunAppSlot
    <2> HIDE DEF st, rr, id
    <2> QED
      BY <2>2, <2>3
  <1>6. \A x \in AppIds : ee.apps[x] = IF x = slot THEN NoApp ELSE mm.apps[x]
    BY <1>3 DEF Erase
  <1>7. slot = IF app.type = "opapp" THEN mm.opAppId ELSE mm.hbbtvAppId
    BY DEF RunAppSlot
  <1>8. app.type \in {"hbbtv", "opapp"} /\ app # NoApp /\ app.isBroadcast \in BOOLEAN
    BY ModelValuesAssumption DEF App
  <1>9. ~Running(mm, id)
    OBVIOUS
  <1>10. id = mm.nextId
    OBVIOUS
  <1> HIDE DEF id, slot, ee, st, rr
  <1>11. rr.loaded = id /\ Running(rr, id)
    BY <1>1, <1>2, <1>8, <1>10 DEF Installed, Running
  <1>12. rr.receivedFirstAit = st.receivedFirstAit
    BY <1>2 DEF Installed
  <1>13. app.isBroadcast => SameTable(mm, rr)
    BY <1>4, <1>5, <1>12 DEF SameTable
  <1>14. ~app.isBroadcast => Narrows(mm, rr)
    BY <1>4, <1>5, <1>12 DEF Narrows
  <1>15. CASE app.type = "hbbtv"
    <2>1. Running(rr, rr.hbbtvAppId) /\ HbbtvApp(rr) = app
      BY <1>1, <1>2, <1>8, <1>10, <1>15 DEF Installed, Running, HbbtvApp
    <2>2. Alone(mm) => Alone(rr)
      BY <1>2, <1>3, <1>10, <1>15 DEF Alone, Installed, Keeps, SameSlots
    <2>3. StillRuns(mm, rr)
      BY <2>1 DEF StillRuns
    <2> QED
      BY <1>10, <1>11, <1>13, <1>14, <1>15, <2>1, <2>2, <2>3 DEF rr
  <1>16. CASE app.type = "opapp"
    <2>1. rr.hbbtvAppId = mm.hbbtvAppId
      BY <1>2, <1>3, <1>16 DEF Installed, Keeps, SameSlots
    <2>2. \A x \in AppIds : rr.apps[x] = IF x = id THEN app ELSE st.apps[x]
      BY <1>2, <1>10 DEF Installed
    <2>3. Running(mm, mm.hbbtvAppId) => mm.hbbtvAppId # slot /\ mm.hbbtvAppId # id
      BY <1>1, <1>7, <1>9, <1>16 DEF SlotsOk, Running, AppIds, INVALID_APP_ID
    <2>4. StillRuns(mm, rr)
      <3> SUFFICES ASSUME Running(mm, mm.hbbtvAppId)
                   PROVE  Running(rr, rr.hbbtvAppId)
        BY DEF StillRuns
      <3>1. mm.hbbtvAppId \in AppIds /\ mm.apps[mm.hbbtvAppId] # NoApp
        BY DEF Running
      <3>2. st.apps[mm.hbbtvAppId] # NoApp
        BY <1>2, <1>6, <2>3, <3>1 DEF Keeps, SameSlots
      <3> QED
        BY <2>1, <2>2, <2>3, <3>1, <3>2 DEF Running
    <2>5. app.isBroadcast => SameHbbtv(mm, rr)
      <3> SUFFICES ASSUME app.isBroadcast, Running(rr, rr.hbbtvAppId)
                   PROVE  /\ Running(mm, mm.hbbtvAppId)
                          /\ HbbtvApp(rr) = HbbtvApp(mm)
        BY DEF SameHbbtv
      <3>1. mm.hbbtvAppId \in AppIds /\ rr.apps[mm.hbbtvAppId] # NoApp
        BY <2>1 DEF Running
      <3>2. mm.hbbtvAppId # id
        BY <1>1, <1>9, <1>10, <3>1
           DEF SlotsOk, RunningApps, Running, AppIds, INVALID_APP_ID
      <3>3. rr.apps[mm.hbbtvAppId] = mm.apps[mm.hbbtvAppId]
        BY <1>4, <1>6, <2>2, <3>1, <3>2
      <3> QED
        BY <2>1, <3>1, <3>3 DEF Running, HbbtvApp
    <2> QED
      BY <1>10, <1>11, <1>13, <1>14, <1>16, <2>4, <2>5 DEF rr
  <1> QED
    BY <1>8, <1>15, <1>16

(* CreateAndRunApp starts the application its descriptor asks for, or only
   spends an id.                                                           *)
LEMMA CreateTable ==
    ASSUME NEW mm, Good(mm), mm.nextId < MaxAppId, NEW d \in AppDesc,
           NEW from \in Triplets, NEW pc, NEW isBroadcast \in BOOLEAN,
           NEW asOpApp \in BOOLEAN, NEW callsBack
    PROVE  LET nn == CreateAndRunApp(mm, d, from, pc, isBroadcast, asOpApp, callsBack)
               asHbbtv == ~asOpApp /\ ~d.opApp
               admitted == ~IsAgeRestricted(d, pc)
           IN  /\ StillRuns(mm, nn)
               /\ isBroadcast => SameTable(mm, nn)
               /\ \/ Narrows(mm, nn) /\ (isBroadcast => SameHbbtv(mm, nn))
                  \/ isBroadcast /\ admitted /\ Started(mm, nn, d, from)
               /\ asHbbtv /\ Alone(mm) => Alone(nn)
               /\ asHbbtv /\ admitted => Running(nn, nn.hbbtvAppId)
               /\ admitted => /\ Running(nn, mm.nextId + 1)
                              /\ nn.loaded = mm.nextId + 1
  <1> DEFINE dd == [mm EXCEPT !.nextId = mm.nextId + 1]
             asOp == asOpApp \/ d.opApp
             app == NewAppFromDesc(d, from, mm.networkAvailable, isBroadcast, asOp)
             rr == RunApp(dd, app, callsBack)
             nn == CreateAndRunApp(mm, d, from, pc, isBroadcast, asOpApp, callsBack)
  <1>1. Good(dd) /\ dd.nextId \in AppIds /\ ~Running(dd, dd.nextId)
    BY DrawGood
  <1>2. mm \in Manager /\ asOp \in BOOLEAN /\ d.opApp \in BOOLEAN
    BY DEF Good, AppDesc
  <1>3. /\ SameTable(mm, dd)
        /\ SameHbbtv(mm, dd)
        /\ StillRuns(mm, dd)
        /\ Alone(mm) => Alone(dd)
        /\ dd.nextId = mm.nextId + 1
    BY <1>2, DrawTable
  <1>4. app \in App /\ app.type = IF asOp THEN "opapp" ELSE "hbbtv"
    BY <1>2, NewAppFromDescType
  <1>5. /\ app.isBroadcast = (isBroadcast \/ asOp)
        /\ app.aitDesc = d
        /\ app.descFrom = from
        /\ app.protocolId = ExtractProtocolId(d, mm.networkAvailable)
    BY DEF NewAppFromDesc
  <1>6. nn = IF IsAgeRestricted(d, pc) THEN dd ELSE rr
    BY DEF CreateAndRunApp
  <1> HIDE DEF dd, app, nn
  <1>7. /\ rr.loaded = dd.nextId
        /\ Running(rr, dd.nextId)
        /\ StillRuns(dd, rr)
        /\ app.isBroadcast => SameTable(dd, rr)
        /\ ~app.isBroadcast => Narrows(dd, rr)
        /\ app.type = "opapp" /\ app.isBroadcast => SameHbbtv(dd, rr)
        /\ app.type = "hbbtv" =>
             /\ Running(rr, rr.hbbtvAppId)
             /\ HbbtvApp(rr) = app
             /\ Alone(dd) => Alone(rr)
    BY <1>1, <1>4, RunTable
  <1> HIDE DEF rr, asOp
  <1>8. StillRuns(mm, nn)
    BY <1>3, <1>6, <1>7 DEF StillRuns
  <1>9. isBroadcast => SameTable(mm, nn)
    BY <1>3, <1>5, <1>6, <1>7 DEF SameTable
  <1>10. \/ Narrows(mm, nn) /\ (isBroadcast => SameHbbtv(mm, nn))
         \/ isBroadcast /\ ~IsAgeRestricted(d, pc) /\ Started(mm, nn, d, from)
    <2>1. CASE IsAgeRestricted(d, pc)
      BY <1>3, <1>6, <2>1 DEF SameTable, Narrows
    <2>2. CASE ~IsAgeRestricted(d, pc) /\ ~asOp /\ isBroadcast
      BY <1>3, <1>4, <1>5, <1>6, <1>7, <2>2 DEF SameTable, Started
    <2>3. CASE ~IsAgeRestricted(d, pc) /\ ~asOp /\ ~isBroadcast
      <3>1. Narrows(dd, rr) /\ nn = rr
        BY <1>5, <1>6, <1>7, <2>3
      <3>2. SameHbbtv(dd, rr) => SameHbbtv(mm, rr)
        BY <1>3 DEF SameHbbtv
      <3> QED
        BY <1>3, <2>3, <3>1, <3>2 DEF SameTable, Narrows
    <2>4. CASE ~IsAgeRestricted(d, pc) /\ asOp
      <3>1. SameTable(dd, rr) /\ SameHbbtv(dd, rr) /\ nn = rr
        BY <1>4, <1>5, <1>6, <1>7, <2>4
      <3>2. SameHbbtv(mm, rr)
        BY <1>3, <3>1 DEF SameHbbtv
      <3> QED
        BY <1>3, <3>1, <3>2 DEF SameTable, Narrows
    <2> QED
      BY <2>1, <2>2, <2>3, <2>4
  <1>11. ~asOp => /\ Alone(mm) => Alone(nn)
                  /\ ~IsAgeRestricted(d, pc) => Running(nn, nn.hbbtvAppId)
    BY <1>3, <1>4, <1>6, <1>7
  <1>12. ~IsAgeRestricted(d, pc) => /\ Running(nn, mm.nextId + 1)
                                    /\ nn.loaded = mm.nextId + 1
    BY <1>3, <1>6, <1>7
  <1> QED
    BY <1>8, <1>9, <1>10, <1>11, <1>12 DEF nn, asOp
-----------------------------------------------------------------------------
(* The hypotheses some properties need about what is signalled.            *)

SignalledTables == XmlAits \cup UNION {BroadcastAits[s] : s \in Services}

OneServicePerId == \A s, u \in Services : ServiceId[s] = ServiceId[u] => s = u
NoOpAppSignalled == \A t \in SignalledTables : \A i \in DOMAIN t : ~t[i].opApp
OneEntryPerKey == \A t \in SignalledTables : OnePerKey(t)

FitTable(t) ==
    /\ NoOpAppSignalled => \A i \in DOMAIN t : ~t[i].opApp
    /\ OneEntryPerKey => OnePerKey(t)

(* AitOfCurrentService, IndependentAppNotTuned, BroadcastAppIsSignalled and
   RunningTransportNotFailed of a manager state.                           *)
FromItsService(mm) ==
    mm.ait # NoAit /\ mm.currentService # NoService =>
        mm.ait.from \in {mm.currentService, NoService}

RelatedWhenTuned(mm) ==
    Running(mm, mm.hbbtvAppId) /\ mm.currentService # NoService
        /\ mm.receivedFirstAit => HbbtvApp(mm).isBroadcast

RunsFromTable(mm) ==
    /\ Running(mm, mm.hbbtvAppId)
    /\ mm.ait # NoAit
    /\ mm.currentService # NoService
    /\ HbbtvApp(mm).isBroadcast

(* The descriptor of an application that runs on the selected service was
   read from a table of that service, or from no service's.                *)
AtHome(mm) ==
    Running(mm, mm.hbbtvAppId) /\ mm.currentService # NoService
        /\ mm.receivedFirstAit /\ HbbtvApp(mm).isBroadcast =>
            HbbtvApp(mm).descFrom \in {mm.currentService, NoService}

InTable(mm) == RunsFromTable(mm) => Signalled(mm) # 0

Unfailed(mm) ==
    RunsFromTable(mm) /\ HbbtvApp(mm).protocolId # 0 /\ OnePerKey(mm.ait.apps) =>
        HasUnfailed(mm.ait.apps[Signalled(mm)], HbbtvApp(mm).protocolId)

(* What joins the table in use and the service ...                         *)
TableFits(mm) ==
    /\ mm.ait # NoAit => FitTable(mm.ait.apps)
    /\ OneServicePerId => FromItsService(mm)
    /\ NoOpAppSignalled => Alone(mm)

(* ... and what joins them and the running application.                    *)
Uses(mm) ==
    /\ TableFits(mm)
    /\ RelatedWhenTuned(mm)
    /\ InTable(mm)
    /\ OneServicePerId => AtHome(mm)
    /\ NoOpAppSignalled => Unfailed(mm)

LEMMA NarrowsUses ==
    ASSUME NEW mm, NEW nn, Uses(mm), Narrows(mm, nn),
           NoOpAppSignalled /\ Alone(mm) => Alone(nn)
    PROVE  Uses(nn)
  <1>1. RelatedWhenTuned(nn)
    BY DEF Uses, Narrows, SameHbbtv, RelatedWhenTuned
  <1>2. RunsFromTable(nn) =>
            /\ RunsFromTable(mm)
            /\ nn.ait = mm.ait
            /\ HbbtvApp(nn).protocolId = HbbtvApp(mm).protocolId
            /\ Signalled(nn) = Signalled(mm)
    BY DEF Narrows, SameHbbtv, RunsFromTable, Signalled
  <1>3. InTable(nn)
    BY <1>2 DEF Uses, InTable
  <1>4. Unfailed(mm) => Unfailed(nn)
    BY <1>2 DEF Unfailed
  <1>5. FromItsService(mm) => FromItsService(nn)
    BY DEF Narrows, FromItsService
  <1>6. nn.ait # NoAit => FitTable(nn.ait.apps)
    BY DEF Uses, TableFits, Narrows
  <1>7. AtHome(mm) => AtHome(nn)
    BY DEF Narrows, SameHbbtv, AtHome
  <1> QED
    BY <1>1, <1>3, <1>4, <1>5, <1>6, <1>7 DEF Uses, TableFits

LEMMA SameNarrows ==
    ASSUME NEW mm, NEW nn, SameTable(mm, nn), SameHbbtv(mm, nn)
    PROVE  Narrows(mm, nn)
  BY DEF SameTable, Narrows

(* An application read from an entry of the table in use is signalled by it
   and, just started, uses a transport that has not failed.                *)
LEMMA StartedUses ==
    ASSUME NEW mm, Good(mm), TableFits(mm), NEW nn, mm.ait # NoAit,
           NEW i \in DOMAIN mm.ait.apps, Started(mm, nn, mm.ait.apps[i], mm.ait.from),
           NoOpAppSignalled /\ Alone(mm) => Alone(nn)
    PROVE  Uses(nn)
  <1> DEFINE t == mm.ait.apps
             d == t[i]
             k == FindApp(t, d.key)
  <1>1. t \in Table
    BY AitType DEF Good
  <1>2. k \in DOMAIN t /\ (OnePerKey(t) => k = i)
    BY <1>1, FindAppAgain
  <1>3. Signalled(nn) = k /\ nn.ait = mm.ait
    BY DEF Started, SameTable, Signalled
  <1>4. k # 0
    BY <1>1, <1>2 DEF Table
  <1>5. HbbtvApp(nn).protocolId # 0 => HasUnfailed(d, HbbtvApp(nn).protocolId)
    BY ProtocolUnfailed DEF Started
  <1> HIDE DEF k, d
  <1>6. InTable(nn)
    BY <1>3, <1>4 DEF InTable
  <1>7. Unfailed(nn)
    BY <1>2, <1>3, <1>5 DEF Unfailed, d
  <1>8. RelatedWhenTuned(nn)
    BY DEF RelatedWhenTuned, Started
  <1>9. FromItsService(mm) => FromItsService(nn) /\ AtHome(nn)
    BY DEF Started, SameTable, FromItsService, AtHome
  <1> QED
    BY <1>3, <1>6, <1>7, <1>8, <1>9 DEF Uses, TableFits

(* Where no HbbTV application runs nothing is asked of one.                *)
LEMMA StoppedUses ==
    ASSUME NEW mm, TableFits(mm), NEW nn, SameTable(mm, nn),
           NoOpAppSignalled /\ Alone(mm) => Alone(nn),
           ~Running(nn, nn.hbbtvAppId)
    PROVE  Uses(nn)
  BY DEF TableFits, SameTable, FromItsService, Uses, RelatedWhenTuned, InTable,
         AtHome, Unfailed, RunsFromTable

(* The application admitted by parental control when the table was read.   *)
Admitted(mm, pc) ==
    Running(mm, mm.hbbtvAppId) /\ HbbtvApp(mm).isBroadcast =>
        ~IsAgeRestricted(HbbtvApp(mm).aitDesc, pc)

(* An autostart application of the table in use, one that is no OpApp, has
   not been left unstarted.                                                *)
Served(mm, pc) ==
    LET i == AutoStartApp(mm.ait.apps, pc)
    IN  mm.ait # NoAit /\ mm.receivedFirstAit /\ i # 0 /\ ~mm.ait.apps[i].opApp
            => Running(mm, mm.hbbtvAppId)

LEMMA AutostartTable ==
    ASSUME NEW mm, Good(mm), mm.nextId < MaxAppId, NEW pc
    PROVE  LET nn == OnPerformBroadcastAutostart(mm, pc)
           IN  /\ SameTable(mm, nn)
               /\ StillRuns(mm, nn)
               /\ Served(nn, pc)
               /\ Uses(mm) => Uses(nn)
               /\ Admitted(mm, pc) => Admitted(nn, pc)
  <1> DEFINE nn == OnPerformBroadcastAutostart(mm, pc)
             i == AutoStartApp(mm.ait.apps, pc)
             d == mm.ait.apps[i]
             cc == CreateAndRunApp(mm, d, mm.ait.from, pc, TRUE, FALSE, FALSE)
  <1>1. CASE ~mm.receivedFirstAit \/ mm.ait = NoAit \/ i = 0
    <2>1. nn = mm
      BY <1>1 DEF OnPerformBroadcastAutostart
    <2> QED
      BY <1>1, <2>1 DEF SameTable, StillRuns, Served
  <1>2. CASE mm.receivedFirstAit /\ mm.ait # NoAit /\ i # 0
    <2>1. nn = cc
      BY <1>2 DEF OnPerformBroadcastAutostart
    <2>2. mm.ait.apps \in Table /\ mm.ait.from \in Triplets
      BY <1>2, AitType DEF Good
    <2>3. /\ i \in DOMAIN mm.ait.apps /\ d \in AppDesc
          /\ ~IsAgeRestricted(d, pc)
      BY <1>2, <2>2, AutoStartAppType DEF AutoStartCandidate
    <2> HIDE DEF nn, i
    <2>4. /\ StillRuns(mm, cc)
          /\ SameTable(mm, cc)
          /\ \/ Narrows(mm, cc) /\ SameHbbtv(mm, cc)
             \/ Started(mm, cc, d, mm.ait.from)
          /\ ~d.opApp /\ Alone(mm) => Alone(cc)
          /\ ~d.opApp => Running(cc, cc.hbbtvAppId)
      BY <2>2, <2>3, CreateTable
    <2> HIDE DEF cc
    <2>5. Served(cc, pc)
      BY <2>4 DEF Served, SameTable, i, d
    <2>6. Admitted(mm, pc) => Admitted(cc, pc)
      BY <2>3, <2>4 DEF Admitted, Started, SameHbbtv
    <2>7. Uses(mm) => Uses(cc)
      <3> SUFFICES ASSUME Uses(mm) PROVE Uses(cc)
        OBVIOUS
      <3>1. NoOpAppSignalled => ~d.opApp
        BY <1>2, <2>3 DEF Uses, TableFits, FitTable
      <3>2. CASE Narrows(mm, cc)
        BY <2>4, <3>1, <3>2, NarrowsUses
      <3>3. CASE Started(mm, cc, d, mm.ait.from)
        BY <1>2, <2>3, <2>4, <3>1, <3>3, StartedUses DEF Uses
      <3> QED
        BY <2>4, <3>2, <3>3
    <2> QED
      BY <2>1, <2>4, <2>5, <2>6, <2>7 DEF nn
  <1> QED
    BY <1>1, <1>2

(* UpdateRunningApp and the transition read the descriptor the table in use
   has for the running application.                                        *)
LEMMA UpdateTable ==
    ASSUME NEW mm, Good(mm), mm.ait # NoAit, Running(mm, mm.hbbtvAppId),
           Signalled(mm) # 0
    PROVE  LET d == mm.ait.apps[Signalled(mm)]
               uu == UpdateRunningApp(mm)
               tt == TransitionToBroadcastRelated(mm)
           IN  /\ Signalled(mm) \in DOMAIN mm.ait.apps
               /\ FindApp(mm.ait.apps, d.key) = Signalled(mm)
               /\ HbbtvApp(mm).isBroadcast => Started(mm, uu, d, mm.ait.from)
               /\ Started(mm, tt, d, mm.ait.from)
               /\ uu.hbbtvAppId = mm.hbbtvAppId
               /\ Alone(mm) => Alone(uu) /\ Alone(tt)
  <1> DEFINE id == mm.hbbtvAppId
             d == mm.ait.apps[Signalled(mm)]
             app == Update(mm.apps[id], d, mm.ait.from, mm.networkAvailable)
             bapp == [app EXCEPT !.isBroadcast = TRUE]
             uu == UpdateRunningApp(mm)
             tt == TransitionToBroadcastRelated(mm)
  <1>1. mm \in Manager /\ mm.ait.apps \in Table /\ mm.ait.from \in Triplets
    BY AitType DEF Good
  <1>2. /\ Signalled(mm) \in DOMAIN mm.ait.apps /\ d \in AppDesc
        /\ FindApp(mm.ait.apps, d.key) = Signalled(mm)
    BY <1>1, FindAppType DEF Signalled
  <1>3. id \in AppIds /\ mm.apps[id] \in App /\ mm.apps \in AppMap
    BY <1>1, RunningType DEF Manager, AppMap
  <1>4. /\ app.isBroadcast = mm.apps[id].isBroadcast
        /\ app.aitDesc = d
        /\ app.descFrom = mm.ait.from
        /\ app.protocolId = ExtractProtocolId(d, mm.networkAvailable)
    BY <1>3 DEF Update, App
  <1>5. app \in App
    <2> HIDE DEF d, id
    <2> QED
      BY <1>1, <1>2, <1>3, UpdateType
  <1>6. uu = [mm EXCEPT !.apps = [mm.apps EXCEPT ![id] = app]]
    BY <1>3 DEF UpdateRunningApp
  <1>7. tt = [uu EXCEPT !.apps = [uu.apps EXCEPT ![id] =
                [uu.apps[id] EXCEPT !.isBroadcast = TRUE]]]
    BY DEF TransitionToBroadcastRelated
  <1> HIDE DEF app, uu, tt, d
  <1>8. /\ bapp \in App /\ bapp.isBroadcast /\ bapp.aitDesc = app.aitDesc
        /\ bapp.descFrom = app.descFrom
        /\ bapp.protocolId = app.protocolId
    BY <1>5 DEF App
  <1>9. /\ SameTable(mm, uu) /\ uu.hbbtvAppId = id /\ uu.opAppId = mm.opAppId
        /\ uu.loaded = mm.loaded
        /\ uu.apps = [mm.apps EXCEPT ![id] = app]
        /\ uu \in Manager
    <2> DEFINE a == [mm.apps EXCEPT ![id] = app]
    <2>1. a \in AppMap
      BY <1>3, <1>5 DEF AppMap
    <2> HIDE DEF a
    <2> QED
      BY <1>1, <1>6, <2>1 DEF Manager, SameTable, AppMap, a
  <1>10. uu.apps[id] = app
    BY <1>3, <1>9 DEF AppMap
  <1> HIDE DEF bapp
  <1>11. tt = [uu EXCEPT !.apps = [uu.apps EXCEPT ![id] = bapp]]
    BY <1>7, <1>10 DEF bapp
  <1>12. /\ SameTable(mm, tt) /\ tt.hbbtvAppId = id /\ tt.opAppId = mm.opAppId
         /\ tt.loaded = mm.loaded
         /\ tt.apps = [uu.apps EXCEPT ![id] = bapp]
    BY <1>9, <1>11 DEF Manager, SameTable
  <1>13. tt.apps[id] = bapp
    BY <1>3, <1>9, <1>12 DEF AppMap
  <1>14. Running(uu, id) /\ Running(tt, id)
    BY <1>3, <1>5, <1>8, <1>10, <1>13, ModelValuesAssumption DEF Running
  <1>15. HbbtvApp(mm).isBroadcast => Started(mm, uu, d, mm.ait.from)
    BY <1>4, <1>9, <1>10, <1>14 DEF Started, HbbtvApp
  <1>16. Started(mm, tt, d, mm.ait.from)
    BY <1>4, <1>8, <1>12, <1>13, <1>14 DEF Started, HbbtvApp
  <1>17. Alone(mm) => Alone(uu) /\ Alone(tt)
    BY <1>9, <1>12 DEF Alone
  <1> QED
    BY <1>2, <1>9, <1>15, <1>16, <1>17 DEF d, uu, tt

(* What a check of the running application against the table leaves.       *)
Checked(mm, nn, pc) ==
    /\ SameTable(mm, nn)
    /\ Uses(nn)
    /\ Admitted(nn, pc)
    /\ Running(nn, nn.hbbtvAppId) =>
        /\ HbbtvApp(nn).isBroadcast
        /\ Signalled(nn) # 0
        /\ HbbtvApp(nn).aitDesc = nn.ait.apps[Signalled(nn)]

LEMMA StartedChecked ==
    ASSUME NEW mm, Good(mm), TableFits(mm), NEW nn, NEW pc, mm.ait # NoAit,
           NEW i \in DOMAIN mm.ait.apps, Started(mm, nn, mm.ait.apps[i], mm.ait.from),
           NoOpAppSignalled /\ Alone(mm) => Alone(nn),
           ~IsAgeRestricted(mm.ait.apps[i], pc),
           FindApp(mm.ait.apps, mm.ait.apps[i].key) = i
    PROVE  Checked(mm, nn, pc)
  <1>1. Uses(nn)
    BY StartedUses
  <1>2. nn.ait = mm.ait /\ HbbtvApp(nn).aitDesc = mm.ait.apps[i]
    BY DEF Started, SameTable
  <1>3. Signalled(nn) = i /\ i # 0
    BY <1>2, AitType DEF Signalled, Good, Table
  <1> QED
    BY <1>1, <1>2, <1>3 DEF Checked, Started, Admitted

LEMMA KillChecked ==
    ASSUME NEW mm, Good(mm), TableFits(mm), NEW pc
    PROVE  Checked(mm, KillRunningApp(mm, mm.hbbtvAppId), pc)
  <1> DEFINE kk == KillRunningApp(mm, mm.hbbtvAppId)
  <1>1. SameTable(mm, kk) /\ (Alone(mm) => Alone(kk)) /\ ~Running(kk, kk.hbbtvAppId)
    BY KillTable
  <1> HIDE DEF kk
  <1>2. Uses(kk)
    BY <1>1, StoppedUses
  <1>3. Checked(mm, kk, pc)
    BY <1>1, <1>2 DEF Checked, Admitted
  <1> QED
    BY <1>3 DEF kk

LEMMA ContinueOrKillChecked ==
    ASSUME NEW mm, Good(mm), TableFits(mm), mm.ait # NoAit, NEW pc,
           Running(mm, mm.hbbtvAppId), HbbtvApp(mm).isBroadcast
    PROVE  Checked(mm, ContinueOrKill(mm, pc), pc)
  <1>1. CASE ~MayContinue(mm, pc)
    BY <1>1, KillChecked DEF ContinueOrKill
  <1>2. CASE MayContinue(mm, pc)
    <2> DEFINE uu == UpdateRunningApp(mm)
    <2>1. Signalled(mm) # 0 /\ ~IsAgeRestricted(mm.ait.apps[Signalled(mm)], pc)
      BY <1>2 DEF MayContinue
    <2>2. /\ Signalled(mm) \in DOMAIN mm.ait.apps
          /\ FindApp(mm.ait.apps, mm.ait.apps[Signalled(mm)].key) = Signalled(mm)
          /\ Started(mm, uu, mm.ait.apps[Signalled(mm)], mm.ait.from)
          /\ Alone(mm) => Alone(uu)
      BY <2>1, UpdateTable
    <2> HIDE DEF uu
    <2>3. Checked(mm, uu, pc)
      BY <2>1, <2>2, StartedChecked
    <2> QED
      BY <1>2, <2>3 DEF ContinueOrKill, uu
  <1> QED
    BY <1>1, <1>2

LEMMA CheckedFirstChecked ==
    ASSUME NEW mm, Good(mm), TableFits(mm), mm.ait # NoAit, NEW pc
    PROVE  Checked(mm, CheckedFirst(mm, pc), pc)
  <1>1. CASE ~Running(mm, mm.hbbtvAppId)
    <2>1. SameTable(mm, mm)
      BY DEF SameTable
    <2>2. Uses(mm)
      BY <1>1, <2>1, StoppedUses
    <2> QED
      BY <1>1, <2>1, <2>2 DEF CheckedFirst, Checked, Admitted
  <1>2. CASE Running(mm, mm.hbbtvAppId) /\ HbbtvApp(mm).isBroadcast
    BY <1>2, KillChecked, ContinueOrKillChecked DEF CheckedFirst
  <1>3. CASE Running(mm, mm.hbbtvAppId) /\ ~HbbtvApp(mm).isBroadcast
                /\ ~MayTransition(mm, pc)
    BY <1>3, KillChecked DEF CheckedFirst
  <1>4. CASE Running(mm, mm.hbbtvAppId) /\ ~HbbtvApp(mm).isBroadcast
                /\ MayTransition(mm, pc)
    <2> DEFINE tt == TransitionToBroadcastRelated(mm)
    <2>1. Signalled(mm) # 0 /\ ~IsAgeRestricted(mm.ait.apps[Signalled(mm)], pc)
      BY <1>4 DEF MayTransition
    <2>2. /\ Signalled(mm) \in DOMAIN mm.ait.apps
          /\ FindApp(mm.ait.apps, mm.ait.apps[Signalled(mm)].key) = Signalled(mm)
          /\ Started(mm, tt, mm.ait.apps[Signalled(mm)], mm.ait.from)
          /\ Alone(mm) => Alone(tt)
      BY <1>4, <2>1, UpdateTable
    <2>3. CheckedFirst(mm, pc) = tt
      BY <1>4 DEF CheckedFirst
    <2> HIDE DEF tt
    <2> QED
      BY <2>1, <2>2, <2>3, StartedChecked
  <1> QED
    BY <1>1, <1>2, <1>3, <1>4

(* The second look at the table finds what the first found: the application
   that passed stays.                                                      *)
LEMMA UpdateAgainChecked ==
    ASSUME NEW mm, NEW cc, NEW pc, Checked(mm, cc, pc), Good(cc),
           cc.ait # NoAit, Running(cc, cc.hbbtvAppId)
    PROVE  LET uu == UpdateAgain(cc, pc)
           IN  /\ SameTable(mm, uu)
               /\ Uses(uu)
               /\ Admitted(uu, pc)
               /\ Running(uu, uu.hbbtvAppId)
  <1> DEFINE d == cc.ait.apps[Signalled(cc)]
             uu == UpdateRunningApp(cc)
  <1>1. /\ TableFits(cc) /\ HbbtvApp(cc).isBroadcast
        /\ Signalled(cc) # 0
        /\ ~IsAgeRestricted(d, pc)
    BY DEF Checked, Uses, Admitted
  <1>2. /\ Signalled(cc) \in DOMAIN cc.ait.apps
        /\ FindApp(cc.ait.apps, d.key) = Signalled(cc)
        /\ Started(cc, uu, d, cc.ait.from)
        /\ Alone(cc) => Alone(uu)
    BY <1>1, UpdateTable
  <1>3. UpdateAgain(cc, pc) = uu
    BY <1>1 DEF UpdateAgain
  <1> HIDE DEF uu
  <1>4. Checked(cc, uu, pc)
    BY <1>1, <1>2, StartedChecked
  <1>5. Running(uu, uu.hbbtvAppId)
    BY <1>2 DEF Started
  <1> QED
    BY <1>3, <1>4, <1>5 DEF Checked, SameTable

(* A table that has been completed: what OnSelectedServiceAitReceived and
   OnSelectedServiceAitUpdated establish.                                  *)
Settled(mm, nn, pc) ==
    SameTable(mm, nn) /\ Uses(nn) /\ Admitted(nn, pc) /\ Served(nn, pc)

LEMMA RunningServed ==
    ASSUME NEW mm, Running(mm, mm.hbbtvAppId), NEW pc
    PROVE  Served(mm, pc)
  BY DEF Served

(* The autostart that follows a check.                                     *)
LEMMA AutostartSettled ==
    ASSUME NEW mm, NEW cc, NEW pc, SameTable(mm, cc), Uses(cc),
           Admitted(cc, pc), Good(cc), cc.nextId < MaxAppId
    PROVE  Settled(mm, OnPerformBroadcastAutostart(cc, pc), pc)
  <1> DEFINE nn == OnPerformBroadcastAutostart(cc, pc)
  <1>1. SameTable(cc, nn) /\ Served(nn, pc) /\ Uses(nn) /\ Admitted(nn, pc)
    BY AutostartTable
  <1> HIDE DEF nn
  <1>2. Settled(mm, nn, pc)
    BY <1>1 DEF Settled, SameTable
  <1> QED
    BY <1>2 DEF nn

LEMMA ReceivedSettled ==
    ASSUME NEW mm, Good(mm), TableFits(mm), mm.ait # NoAit,
           mm.nextId < MaxAppId, NEW pc
    PROVE  Settled(mm, OnSelectedServiceAitReceived(mm, pc), pc)
  <1> DEFINE cc == CheckedFirst(mm, pc)
             nn == OnSelectedServiceAitReceived(mm, pc)
             uu == UpdateAgain(cc, pc)
  <1>1. Good(cc) /\ cc.ait # NoAit /\ cc.nextId < MaxAppId
    BY CheckedFirstFollows DEF Follows
  <1>2. Checked(mm, cc, pc)
    BY CheckedFirstChecked
  <1>3. nn = IF Running(cc, cc.hbbtvAppId) THEN uu
             ELSE OnPerformBroadcastAutostart(cc, pc)
    BY DEF OnSelectedServiceAitReceived, CheckedFirst
  <1> HIDE DEF cc, nn, uu
  <1>4. CASE Running(cc, cc.hbbtvAppId)
    <2>1. SameTable(mm, uu) /\ Uses(uu) /\ Admitted(uu, pc)
          /\ Running(uu, uu.hbbtvAppId)
      BY <1>1, <1>2, <1>4, UpdateAgainChecked DEF uu
    <2>2. Settled(mm, uu, pc)
      BY <2>1, RunningServed DEF Settled
    <2> QED
      BY <1>3, <1>4, <2>2 DEF nn
  <1>5. CASE ~Running(cc, cc.hbbtvAppId)
    <2>1. Settled(mm, OnPerformBroadcastAutostart(cc, pc), pc)
      BY <1>1, <1>2, AutostartSettled DEF Checked
    <2> QED
      BY <1>3, <1>5, <2>1 DEF nn
  <1> QED
    BY <1>4, <1>5

(* A later table leaves a broadcast-independent application alone.         *)
LEMMA UpdatedSettled ==
    ASSUME NEW mm, Good(mm), TableFits(mm), RelatedWhenTuned(mm),
           mm.ait # NoAit, mm.nextId < MaxAppId, NEW pc
    PROVE  Settled(mm, OnSelectedServiceAitUpdated(mm, pc), pc)
  <1> DEFINE cc == IF Running(mm, mm.hbbtvAppId)
                   THEN ContinueOrKill(mm, pc) ELSE mm
             nn == OnSelectedServiceAitUpdated(mm, pc)
  <1>1. nn = IF Running(mm, mm.hbbtvAppId) /\ ~HbbtvApp(mm).isBroadcast THEN mm
              ELSE IF Running(cc, cc.hbbtvAppId) THEN cc
              ELSE OnPerformBroadcastAutostart(cc, pc)
    BY DEF OnSelectedServiceAitUpdated
  <1>2. CASE Running(mm, mm.hbbtvAppId) /\ ~HbbtvApp(mm).isBroadcast
    <2>1. nn = mm
      BY <1>1, <1>2
    <2>2. Uses(mm)
      BY <1>2 DEF Uses, InTable, AtHome, Unfailed, RunsFromTable
    <2>3. Settled(mm, mm, pc)
      BY <1>2, <2>2 DEF Settled, SameTable, Admitted, Served
    <2> QED
      BY <2>1, <2>3
  <1>3. CASE ~(Running(mm, mm.hbbtvAppId) /\ ~HbbtvApp(mm).isBroadcast)
    <2>1. Good(cc) /\ cc.nextId < MaxAppId
      BY ContinueOrKillFollows DEF Follows
    <2>2. SameTable(mm, cc) /\ Uses(cc) /\ Admitted(cc, pc)
      <3>1. CASE Running(mm, mm.hbbtvAppId)
        BY <1>3, <3>1, ContinueOrKillChecked DEF Checked
      <3>2. CASE ~Running(mm, mm.hbbtvAppId)
        <4>1. SameTable(mm, mm)
          BY DEF SameTable
        <4> QED
          BY <3>2, <4>1, StoppedUses DEF Admitted
      <3> QED
        BY <3>1, <3>2
    <2> HIDE DEF cc, nn
    <2>3. CASE Running(cc, cc.hbbtvAppId)
      BY <1>1, <1>3, <2>2, <2>3, RunningServed DEF Settled, nn
    <2>4. CASE ~Running(cc, cc.hbbtvAppId)
      BY <1>1, <1>3, <2>1, <2>2, <2>4, AutostartSettled DEF nn
    <2> QED
      BY <2>3, <2>4
  <1> QED
    BY <1>2, <1>3

(* The table of a section or of an XML AIT comes into use.                 *)
LEMMA AitCompletedSettled ==
    ASSUME NEW mm, Good(mm), Uses(mm), mm.nextId < MaxAppId, NEW t \in AitTable,
           FitTable(t.apps), NEW pc,
           OneServicePerId => t.from \in {mm.currentService, NoService}
    PROVE  LET nn == AitCompleted(mm, t, pc)
           IN  /\ nn.ait = t
               /\ Uses(nn)
               /\ Admitted(nn, pc)
               /\ Served(nn, pc)
  <1> DEFINE uu == [mm EXCEPT !.ait = t]
             ff == [uu EXCEPT !.aitTimer = FALSE, !.receivedFirstAit = TRUE]
             nn == AitCompleted(mm, t, pc)
  <1>1. mm \in Manager /\ t # NoAit
    BY ModelValuesAssumption DEF Good
  <1>2. Good(uu) /\ uu.nextId = mm.nextId
    <2>1. Keeps(mm, uu)
      BY <1>1, SetAitKeeps
    <2> HIDE DEF uu
    <2> QED
      BY <2>1, KeepsGood
  <1>3. /\ uu.ait = t
        /\ uu.apps = mm.apps
        /\ uu.hbbtvAppId = mm.hbbtvAppId
        /\ uu.opAppId = mm.opAppId
        /\ uu.loaded = mm.loaded
        /\ uu.currentService = mm.currentService
        /\ uu.receivedFirstAit = mm.receivedFirstAit
        /\ uu \in Manager
    BY <1>1, <1>2 DEF Manager, Good
  <1>4. nn = IF mm.receivedFirstAit THEN OnSelectedServiceAitUpdated(uu, pc)
             ELSE OnSelectedServiceAitReceived(ff, pc)
    BY DEF AitCompleted
  <1> HIDE DEF uu
  <1>5. /\ SameSlots(uu, ff) /\ ~ff.aitTimer /\ ff \in Manager
        /\ ff.ait = t
        /\ ff.currentService = mm.currentService
        /\ ff.nextId = uu.nextId
    BY <1>3 DEF Manager, SameSlots
  <1> HIDE DEF ff, nn
  <1>6. Good(ff)
    BY <1>2, <1>5, SlotsFrame DEF Good
  <1>7. TableFits(uu) /\ TableFits(ff)
    BY <1>1, <1>3, <1>5
       DEF Uses, TableFits, FromItsService, Alone, SameSlots
  <1>8. RelatedWhenTuned(uu)
    BY <1>3 DEF Uses, RelatedWhenTuned, HbbtvApp, Running
  <1>9. CASE mm.receivedFirstAit
    <2>1. Settled(uu, nn, pc)
      BY <1>1, <1>2, <1>3, <1>4, <1>7, <1>8, <1>9, UpdatedSettled
    <2> QED
      BY <1>3, <2>1 DEF Settled, SameTable, nn
  <1>10. CASE ~mm.receivedFirstAit
    <2>1. Settled(ff, nn, pc)
      BY <1>1, <1>2, <1>4, <1>5, <1>6, <1>7, <1>10, ReceivedSettled
    <2> QED
      BY <1>5, <2>1 DEF Settled, SameTable, nn
  <1> QED
    BY <1>9, <1>10
-----------------------------------------------------------------------------
(* The public methods.                                                     *)

(* The inductive invariant of the table in use.                            *)
UInv == IInv /\ Uses(m)

(* What a method leaves: the invariant; of a table that came into use, no
   application parental control forbids; and where the HbbTV application
   ended without another in its place, no autostart application waiting.   *)
Outcome(nn) ==
    /\ Uses(nn)
    /\ NoOpAppSignalled => nn.ait \in {m.ait, NoAit} \/ Admitted(nn, parental)
    /\ \/ StillRuns(m, nn)
       \/ nn.currentService # NoService => Served(nn, parental)

LEMMA NarrowsOutcome ==
    ASSUME UInv, NEW nn, Narrows(m, nn), StillRuns(m, nn),
           NoOpAppSignalled /\ Alone(m) => Alone(nn)
    PROVE  Outcome(nn)
  BY NarrowsUses DEF Outcome, UInv, Narrows

LEMMA SameOutcome ==
    ASSUME UInv
    PROVE  Outcome(m)
  BY DEF UInv, Outcome, StillRuns

(* Methods that touch no slot.                                             *)
LEMMA SlotsOutcome ==
    ASSUME UInv, NEW nn, SameSlots(m, nn), Narrows(m, nn)
    PROVE  Outcome(nn)
  BY SameSlotsRuns, NarrowsOutcome

(* Where no OpApp is signalled, none runs to ask for another.              *)
LEMMA OnlyHbbtvRuns ==
    ASSUME UInv, NoOpAppSignalled, NEW id, Running(m, id)
    PROVE  id = m.hbbtvAppId /\ m.apps[id].type # "opapp"
  BY DEF UInv, IInv, Good, SlotsOk, RunningApps, Running, Uses, TableFits, Alone,
         INVALID_APP_ID, AppIds

(* CreateAndRunApp on an entry of the table in use.                        *)
LEMMA CreateFromTableOutcome ==
    ASSUME UInv, m.nextId < MaxAppId, m.ait # NoAit, NEW i \in DOMAIN m.ait.apps,
           NEW op \in BOOLEAN, NoOpAppSignalled => ~op
    PROVE  Outcome(CreateAndRunApp(m, m.ait.apps[i], m.ait.from, parental, TRUE,
                                   op, FALSE))
  <1> DEFINE d == m.ait.apps[i]
             nn == CreateAndRunApp(m, d, m.ait.from, parental, TRUE, op, FALSE)
  <1>1. Good(m) /\ Uses(m)
    BY DEF UInv, IInv
  <1>2. m.ait.apps \in Table /\ m.ait.from \in Triplets
    BY <1>1, AitType DEF Good
  <1>3. d \in AppDesc
    BY <1>2 DEF Table
  <1> HIDE DEF d
  <1>4. /\ StillRuns(m, nn)
        /\ SameTable(m, nn)
        /\ Narrows(m, nn) \/ Started(m, nn, d, m.ait.from)
        /\ ~op /\ ~d.opApp /\ Alone(m) => Alone(nn)
    BY <1>1, <1>2, <1>3, CreateTable
  <1>5. NoOpAppSignalled => ~d.opApp
    BY <1>1 DEF Uses, TableFits, FitTable, d
  <1> HIDE DEF nn
  <1>6. CASE Narrows(m, nn)
    BY <1>4, <1>5, <1>6, NarrowsOutcome DEF nn, d
  <1>7. CASE Started(m, nn, d, m.ait.from)
    <2>1. Uses(nn)
      BY <1>1, <1>4, <1>5, <1>7, StartedUses DEF Uses, d
    <2> QED
      BY <1>4, <2>1 DEF Outcome, SameTable, nn, d
  <1> QED
    BY <1>4, <1>6, <1>7

LEMMA CreateFromAitOutcome ==
    ASSUME UInv, NEW id, NEW key, NEW op \in BOOLEAN,
           CreateApplicationFromAit(id, key, op)
    PROVE  Outcome(m')
  <1> DEFINE i == FindApp(m.ait.apps, key)
  <1>1. /\ Running(m, id) /\ (op => m.apps[id].type = "opapp")
        /\ m.nextId < MaxAppId
    BY DEF CreateApplicationFromAit, MayCallCreate, MayCreate
  <1>2. NoOpAppSignalled => ~op
    BY <1>1, OnlyHbbtvRuns
  <1>3. CASE m.ait = NoAit \/ i = 0
    BY <1>3, SameOutcome DEF CreateApplicationFromAit, CreateReturns
  <1>4. CASE ~(m.ait = NoAit \/ i = 0)
    <2>1. m' = CreateAndRunApp(m, m.ait.apps[i], m.ait.from, parental, TRUE,
                               op, FALSE)
      BY <1>4 DEF CreateApplicationFromAit, CreateReturns
    <2>2. i \in DOMAIN m.ait.apps
      BY <1>4, FindAppType, AitType DEF UInv, IInv, Good
    <2> HIDE DEF i
    <2> QED
      BY <1>1, <1>2, <1>4, <2>1, <2>2, CreateFromTableOutcome
  <1> QED
    BY <1>3, <1>4

LEMMA TeletextOutcome ==
    ASSUME UInv, RunTeletextApplication
    PROVE  Outcome(m')
  <1> DEFINE i == TeletextApp(m.ait.apps)
             K == {j \in DOMAIN m.ait.apps : m.ait.apps[j].teletext}
  <1>1. i = 0 \/ i \in First(K)
    BY PointerToType DEF TeletextApp
  <1>2. First(K) \subseteq K
    BY DEF First
  <1>3. /\ m.nextId < MaxAppId /\ m.ait # NoAit /\ i # 0
        /\ m' = CreateAndRunApp(m, m.ait.apps[i], m.ait.from, parental, TRUE,
                                FALSE, FALSE)
    BY DEF RunTeletextApplication, MayCreate, Step
  <1>4. i \in DOMAIN m.ait.apps
    BY <1>1, <1>2, <1>3
  <1> HIDE DEF i
  <1> QED
    BY <1>3, <1>4, CreateFromTableOutcome

LEMMA CreateFromPageOutcome ==
    ASSUME UInv, NEW id, NEW origin \in Origins, NEW op \in BOOLEAN,
           CreateApplicationFromPage(id, origin, op)
    PROVE  Outcome(m')
  <1>1. PICK key \in Keys \cup {0}, callsBack \in BOOLEAN :
            CreateReturns(
                RunApp([m EXCEPT !.nextId = m.nextId + 1],
                       NewAppFromUrl(origin, op, BlankDesc(key, origin)),
                       callsBack),
                m.nextId + 1)
    BY DEF CreateApplicationFromPage
  <1> DEFINE dd == [m EXCEPT !.nextId = m.nextId + 1]
             app == NewAppFromUrl(origin, op, BlankDesc(key, origin))
             rr == RunApp(dd, app, callsBack)
  <1>2. /\ Running(m, id) /\ (op => m.apps[id].type = "opapp")
        /\ m.nextId < MaxAppId
    BY DEF CreateApplicationFromPage, MayCallCreate, MayCreate
  <1>3. NoOpAppSignalled => ~op
    BY <1>2, OnlyHbbtvRuns
  <1>4. Good(m) /\ m \in Manager
    BY DEF UInv, IInv, Good
  <1>5. Good(dd) /\ dd.nextId \in AppIds /\ ~Running(dd, dd.nextId)
    BY <1>2, <1>4, DrawGood
  <1>6. SameTable(m, dd) /\ SameHbbtv(m, dd) /\ StillRuns(m, dd)
        /\ (Alone(m) => Alone(dd))
    BY <1>4, DrawTable
  <1>7. /\ app \in App /\ ~app.isBroadcast
        /\ app.type = IF op THEN "opapp" ELSE "hbbtv"
    BY NewAppFromUrlType DEF NewAppFromUrl
  <1>8. m' = rr
    BY <1>1 DEF CreateReturns
  <1> HIDE DEF dd, app
  <1>9. /\ Narrows(dd, rr) /\ StillRuns(dd, rr)
        /\ ~op => (Alone(dd) => Alone(rr))
    BY <1>5, <1>7, RunTable
  <1> HIDE DEF rr
  <1>10. Narrows(m, rr) /\ StillRuns(m, rr)
    BY <1>6, <1>9 DEF SameTable, SameHbbtv, Narrows, StillRuns
  <1> QED
    BY <1>3, <1>6, <1>8, <1>9, <1>10, NarrowsOutcome

(* WithScheme keeps what tables are searched by.                           *)
LEMMA WithSchemeFits ==
    ASSUME NEW t \in XmlAits, NEW lloc
    PROVE  FitTable(WithScheme(t, lloc))
  <1>1. t \in Table /\ t \in SignalledTables
    BY TablesAssumption DEF SignalledTables
  <1>2. \A i \in DOMAIN t : t[i] \in AppDesc
    BY <1>1 DEF Table
  <1>3. \A i \in DOMAIN t : /\ WithScheme(t, lloc)[i].key = t[i].key
                            /\ WithScheme(t, lloc)[i].opApp = t[i].opApp
    BY <1>2 DEF WithScheme, AppDesc
  <1>4. DOMAIN WithScheme(t, lloc) = DOMAIN t
    BY DEF WithScheme
  <1> QED
    BY <1>1, <1>3, <1>4 DEF FitTable, NoOpAppSignalled, OneEntryPerKey, OnePerKey

LEMMA XmlAitAppOutcome ==
    ASSUME UInv, MayCreate, NEW t \in XmlAits, NEW lloc \in BOOLEAN, NEW callsBack
    PROVE  Outcome(XmlAitApp(WithScheme(t, lloc), callsBack))
  <1> DEFINE w == WithScheme(t, lloc)
             i == AutoStartApp(w, parental)
             nn == CreateAndRunApp(m, w[i], NoService, parental, FALSE, FALSE,
                                   callsBack)
  <1>1. Good(m) /\ m.nextId < MaxAppId /\ NoService \in Triplets
    BY DEF UInv, IInv, MayCreate, Triplets
  <1>2. w \in Table /\ FitTable(w)
    BY TablesAssumption, WithSchemeType, WithSchemeFits
  <1> HIDE DEF w
  <1>3. i # 0 => i \in DOMAIN w /\ w[i] \in AppDesc
    BY <1>2, AutoStartAppType
  <1> HIDE DEF i
  <1>4. CASE i = 0
    BY <1>4, SameOutcome DEF XmlAitApp, i, w
  <1>5. CASE i # 0
    <2>1. /\ StillRuns(m, nn)
          /\ Narrows(m, nn)
          /\ ~w[i].opApp /\ Alone(m) => Alone(nn)
      BY <1>1, <1>3, <1>5, CreateTable
    <2>2. NoOpAppSignalled => ~w[i].opApp
      BY <1>2, <1>3, <1>5 DEF FitTable
    <2>3. XmlAitApp(w, callsBack) = nn
      BY <1>5 DEF XmlAitApp, i
    <2> HIDE DEF nn
    <2>4. Outcome(nn)
      BY <2>1, <2>2, NarrowsOutcome
    <2> QED
      BY <2>3, <2>4 DEF w
  <1> QED
    BY <1>4, <1>5

LEMMA DvbiOutcome ==
    ASSUME UInv, NEW t \in XmlAits, NEW lloc \in BOOLEAN,
           ProcessDvbiXmlAit(t, lloc)
    PROVE  Outcome(m')
  <1> DEFINE w == WithScheme(t, lloc)
             tt == [from |-> NoService, apps |-> w]
             pp == [m EXCEPT !.aitPid = XML_AIT_PID]
             nn == AitCompleted(pp, tt, parental)
  <1>1. w \in Table /\ FitTable(w)
    BY TablesAssumption, WithSchemeType, WithSchemeFits
  <1>2. m' = nn /\ m.nextId < MaxAppId
    BY DEF ProcessDvbiXmlAit, MayCreate, Step
  <1>3. Good(m) /\ m \in Manager /\ Uses(m)
    BY DEF UInv, IInv, Good
  <1>4. SameTable(m, pp) /\ SameSlots(m, pp) /\ pp.apps = m.apps /\ pp \in Manager
        /\ pp.aitTimer = m.aitTimer
    BY <1>3 DEF Manager, SameTable, SameSlots
  <1>5. tt \in AitTable /\ tt.from = NoService /\ tt.apps = w
    BY <1>1 DEF AitTable
  <1> HIDE DEF pp, tt, w
  <1>6. Keeps(m, pp)
    BY <1>4 DEF Keeps, SameTable
  <1>7. Good(pp) /\ pp.nextId = m.nextId
    BY <1>3, <1>6, KeepsGood
  <1>8. SameHbbtv(m, pp) /\ (Alone(m) => Alone(pp))
    BY <1>4, SameSlotsRuns DEF SameApps
  <1>9. Uses(pp)
    BY <1>3, <1>4, <1>8, SameNarrows, NarrowsUses
  <1>10. Uses(nn) /\ Admitted(nn, parental) /\ Served(nn, parental)
    BY <1>1, <1>2, <1>5, <1>7, <1>9, AitCompletedSettled
  <1> QED
    BY <1>2, <1>10 DEF Outcome

LEMMA NewPidNarrows ==
    ASSUME UInv, NEW pid \in Pids
    PROVE  /\ Keeps(m, NewPid(pid))
           /\ Narrows(m, NewPid(pid))
           /\ NewPid(pid).currentService = m.currentService
  <1> DEFINE a == IF m.aitPid \notin {0, pid} THEN NoAit ELSE m.ait
             pp == [m EXCEPT !.aitPid = pid, !.ait = a]
  <1>1. m \in Manager
    BY DEF UInv, IInv, Good
  <1>2. a \in AitTable \cup {NoAit} /\ a \in {m.ait, NoAit}
    BY <1>1 DEF Manager
  <1>3. NewPid(pid) = pp
    BY DEF NewPid
  <1> HIDE DEF a
  <1>4. pp \in Manager
    BY <1>1, <1>2 DEF Manager
  <1>5. /\ SameSlots(m, pp) /\ pp.apps = m.apps /\ pp.ait = a
        /\ pp.aitTimer = m.aitTimer
        /\ pp.currentService = m.currentService
        /\ pp.receivedFirstAit = m.receivedFirstAit
    BY <1>1, <1>4 DEF Manager, SameSlots
  <1> HIDE DEF pp
  <1>6. SameHbbtv(m, pp)
    BY <1>5, SameSlotsRuns DEF SameApps
  <1> QED
    BY <1>2, <1>3, <1>4, <1>5, <1>6 DEF Keeps, Narrows

LEMMA AitSectionOutcome ==
    ASSUME UInv, NEW pid \in Pids, NEW s \in Services,
           \/ ProcessAitSectionPartial(pid, s)
           \/ \E t \in BroadcastAits[s] : ProcessAitSectionLast(pid, s, t)
    PROVE  Outcome(m')
  <1> DEFINE pp == NewPid(pid)
  <1>1. Good(m) /\ Uses(m)
    BY DEF UInv, IInv
  <1>2. Keeps(m, pp) /\ Narrows(m, pp) /\ pp.currentService = m.currentService
    BY NewPidNarrows
  <1> HIDE DEF pp
  <1>3. CASE ProcessAitSectionPartial(pid, s)
    <2>1. m' = pp
      BY <1>3 DEF ProcessAitSectionPartial, Step, pp
    <2> QED
      BY <1>2, <2>1, SlotsOutcome DEF Keeps
  <1>4. CASE \E t \in BroadcastAits[s] : ProcessAitSectionLast(pid, s, t)
    <2>1. PICK t \in BroadcastAits[s] : ProcessAitSectionLast(pid, s, t)
      BY <1>4
    <2> DEFINE tt == [from |-> s, apps |-> t]
               nn == AitCompleted(pp, tt, parental)
    <2>2. m' = nn /\ m.nextId < MaxAppId /\ ForCurrentService(s)
      BY <2>1 DEF ProcessAitSectionLast, MayCreate, Step, pp
    <2>3. t \in Table /\ t \in SignalledTables
      BY TablesAssumption DEF SignalledTables
    <2>4. FitTable(t)
      BY <2>3 DEF FitTable, NoOpAppSignalled, OneEntryPerKey
    <2>5. tt \in AitTable /\ tt.from = s /\ tt.apps = t
      BY <2>3 DEF AitTable
    <2> HIDE DEF tt
    <2>6. Good(pp) /\ pp.nextId = m.nextId /\ (Alone(m) => Alone(pp))
      BY <1>1, <1>2, KeepsGood, SameSlotsRuns DEF Keeps
    <2>7. Uses(pp)
      BY <1>1, <1>2, <2>6, NarrowsUses
    <2>8. OneServicePerId => s = pp.currentService
      BY <1>1, <1>2, <2>2 DEF OneServicePerId, ForCurrentService, Good, Manager
    <2>9. Uses(nn) /\ Admitted(nn, parental) /\ Served(nn, parental)
      BY <2>2, <2>4, <2>5, <2>6, <2>7, <2>8, AitCompletedSettled
    <2> QED
      BY <2>2, <2>9 DEF Outcome
  <1> QED
    BY <1>3, <1>4

LEMMA TimeoutOutcome ==
    ASSUME UInv, OnSelectedServiceAitTimeout
    PROVE  Outcome(m')
  <1> DEFINE tt == [m EXCEPT !.aitTimer = FALSE]
             kk == KillRunningApp(tt, m.hbbtvAppId)
  <1>1. Good(m) /\ m \in Manager /\ m.aitTimer
    BY DEF UInv, IInv, Good, OnSelectedServiceAitTimeout
  <1>2. /\ tt \in Manager /\ SameSlots(m, tt) /\ tt.apps = m.apps
        /\ SameTable(m, tt) /\ ~tt.aitTimer
    <2>1. tt \in Manager
      BY <1>1 DEF Manager
    <2>2. tt.apps = m.apps /\ SameSlots(m, tt)
      BY <1>1 DEF Manager, SameSlots
    <2>3. SameTable(m, tt) /\ ~tt.aitTimer
      BY <1>1 DEF Manager, SameTable
    <2> QED
      BY <2>1, <2>2, <2>3
  <1>3. m' = kk
    BY DEF OnSelectedServiceAitTimeout, Step
  <1> HIDE DEF tt
  <1>4. Good(tt)
    BY <1>1, <1>2, SlotsFrame DEF Good
  <1>5. SameHbbtv(m, tt) /\ (Alone(m) => Alone(tt))
    BY <1>2, SameSlotsRuns DEF SameApps
  <1>6. SameTable(tt, kk) /\ SameHbbtv(tt, kk) /\ (Alone(tt) => Alone(kk))
    BY <1>4, KillTable
  <1> HIDE DEF kk
  <1>7. SameTable(m, kk) /\ SameHbbtv(m, kk) /\ (Alone(m) => Alone(kk))
    BY <1>2, <1>5, <1>6 DEF SameTable, SameHbbtv
  <1>8. Uses(kk)
    BY <1>7, SameNarrows, NarrowsUses DEF UInv
  <1>9. ~kk.receivedFirstAit
    BY <1>1, <1>7 DEF Good, SameTable
  <1> QED
    BY <1>3, <1>7, <1>8, <1>9 DEF Outcome, SameTable, Served

LEMMA DestroyOutcome ==
    ASSUME UInv, NEW id, DestroyApplication(id)
    PROVE  Outcome(m')
  <1> DEFINE kk == KillRunningApp(m, id)
             nn == OnPerformBroadcastAutostart(kk, parental)
  <1>1. Good(m) /\ Uses(m) /\ m.nextId < MaxAppId
    BY DEF UInv, IInv, DestroyApplication, MayCreate
  <1>2. m' = OnRunningAppExited(kk, parental)
    BY DEF DestroyApplication, Step
  <1>3. /\ SameTable(m, kk) /\ SameHbbtv(m, kk) /\ (Alone(m) => Alone(kk))
        /\ Good(kk) /\ kk.nextId = m.nextId
    BY <1>1, KillTable, KillGood
  <1> HIDE DEF kk
  <1>4. Uses(kk)
    BY <1>1, <1>3, SameNarrows, NarrowsUses
  <1>5. SameTable(kk, nn) /\ Served(nn, parental) /\ Uses(nn)
    BY <1>1, <1>3, <1>4, AutostartTable
  <1>6. m' = IF kk.currentService # NoService THEN nn ELSE kk
    BY <1>2 DEF OnRunningAppExited
  <1> HIDE DEF nn
  <1> QED
    BY <1>3, <1>4, <1>5, <1>6 DEF Outcome, SameTable

(* Show, Hide and a page change touch neither the descriptor nor the
   protocol of an application.                                             *)
LEMMA SetStateOutcome ==
    ASSUME UInv, NEW id, NEW state \in {"FOREGROUND", "BACKGROUND"},
           SetState(id, state)
    PROVE  Outcome(m')
  <1> DEFINE app == [m.apps[id] EXCEPT !.state = state]
             a == [m.apps EXCEPT ![id] = app]
             v == IF state = "BACKGROUND" THEN m.visible \ {id}
                  ELSE m.visible \cup {id}
             nn == [m EXCEPT !.apps = a, !.visible = v]
  <1>1. m \in Manager /\ Running(m, id)
    BY DEF UInv, IInv, Good, SetState
  <1>2. id \in AppIds /\ m.apps[id] \in App /\ m.apps \in AppMap
    BY <1>1, RunningType DEF Manager, AppMap
  <1>3. m' = m \/ m' = nn
    BY DEF SetState, Step
  <1>4. /\ app.isBroadcast = m.apps[id].isBroadcast
        /\ app.aitDesc = m.apps[id].aitDesc
        /\ app.descFrom = m.apps[id].descFrom
        /\ app.protocolId = m.apps[id].protocolId
        /\ app # NoApp
    BY <1>2, ModelValuesAssumption DEF App
  <1> HIDE DEF app
  <1>5. \A x \in AppIds : a[x] = IF x = id THEN app ELSE m.apps[x]
    BY <1>2 DEF AppMap
  <1> HIDE DEF a, v
  <1>6. /\ SameTable(m, nn) /\ nn.apps = a
        /\ nn.hbbtvAppId = m.hbbtvAppId
        /\ nn.opAppId = m.opAppId
        /\ nn.loaded = m.loaded
    BY <1>1 DEF Manager, SameTable
  <1> HIDE DEF nn
  <1>7. SameHbbtv(m, nn) /\ StillRuns(m, nn)
    BY <1>1, <1>4, <1>5, <1>6 DEF SameHbbtv, StillRuns, Running, HbbtvApp
  <1>8. Alone(m) => Alone(nn)
    BY <1>6 DEF Alone
  <1>9. Outcome(nn)
    BY <1>6, <1>7, <1>8, SameNarrows, NarrowsOutcome
  <1> QED
    BY <1>3, <1>9, SameOutcome

LEMMA PageChangedOutcome ==
    ASSUME UInv, NEW id, NEW origin \in Origins,
           OnApplicationPageChanged(id, origin)
    PROVE  Outcome(m')
  <1> DEFINE app == [m.apps[id] EXCEPT !.loadedUrl = origin]
             a == [m.apps EXCEPT ![id] = app]
             nn == [m EXCEPT !.apps = a]
  <1>1. m \in Manager /\ Running(m, id) /\ m' = nn
    BY DEF UInv, IInv, Good, OnApplicationPageChanged, Step
  <1>2. id \in AppIds /\ m.apps[id] \in App /\ m.apps \in AppMap
    BY <1>1, RunningType DEF Manager, AppMap
  <1>3. /\ app.isBroadcast = m.apps[id].isBroadcast
        /\ app.aitDesc = m.apps[id].aitDesc
        /\ app.descFrom = m.apps[id].descFrom
        /\ app.protocolId = m.apps[id].protocolId
        /\ app # NoApp
    <2>1. app \in App
      BY <1>2 DEF App, PageOrigins
    <2> QED
      BY <1>2, <2>1, ModelValuesAssumption DEF App
  <1> HIDE DEF app
  <1>4. \A x \in AppIds : a[x] = IF x = id THEN app ELSE m.apps[x]
    BY <1>2 DEF AppMap
  <1> HIDE DEF a
  <1>5. /\ SameTable(m, nn) /\ nn.apps = a
        /\ nn.hbbtvAppId = m.hbbtvAppId
        /\ nn.opAppId = m.opAppId
        /\ nn.loaded = m.loaded
    BY <1>1 DEF Manager, SameTable
  <1> HIDE DEF nn
  <1>6. SameHbbtv(m, nn) /\ StillRuns(m, nn)
    BY <1>1, <1>3, <1>4, <1>5 DEF SameHbbtv, StillRuns, Running, HbbtvApp
  <1>7. Alone(m) => Alone(nn)
    BY <1>5 DEF Alone
  <1>8. Outcome(nn)
    BY <1>5, <1>6, <1>7, SameNarrows, NarrowsOutcome
  <1> QED
    BY <1>1, <1>8

LEMMA BroadcastOutcome ==
    ASSUME UInv,
           \/ OnBroadcastStopped
           \/ \E s \in Services : OnChannelChanged(s)
           \/ \E b \in BOOLEAN : OnNetworkAvailabilityChanged(b)
    PROVE  Outcome(m')
  <1>1. Good(m) /\ m \in Manager /\ Uses(m)
    BY DEF UInv, IInv, Good
  <1>2. CASE OnBroadcastStopped
    <2> DEFINE cc == ClearAit(m)
               ss == [cc EXCEPT !.currentService = NoService,
                                !.previousService = NoService]
               nn == BroadcastStopped(m)
    <2>1. Keeps(m, nn) /\ ~nn.receivedFirstAit
      BY <1>1, BroadcastStoppedKeeps
    <2>2. cc \in Manager /\ cc.ait = NoAit
      <3>1. cc \in Manager
        BY <1>1, ClearAitKeeps DEF Keeps
      <3>2. cc.ait = NoAit
        BY <1>1 DEF ClearAit, Manager
      <3> QED
        BY <3>1, <3>2
    <2> HIDE DEF cc
    <2>3. ss \in Manager /\ ss.ait = NoAit /\ ss.currentService = NoService
      <3>1. ss \in Manager
        BY <2>2, SelectKeeps DEF Keeps, Triplets
      <3> QED
        BY <2>2, <3>1 DEF Manager
    <2>4. nn = TransitionToBroadcastIndependent(ss)
      BY DEF BroadcastStopped, cc
    <2> HIDE DEF ss, nn
    <2>5. nn.ait = NoAit /\ nn.currentService = NoService
      <3>1. \A a : LET r == [ss EXCEPT !.apps = a]
                   IN  r.ait = ss.ait /\ r.currentService = ss.currentService
        BY <2>3 DEF Manager
      <3> QED
        BY <2>3, <2>4, <3>1 DEF TransitionToBroadcastIndependent
    <2>6. Narrows(m, nn)
      BY <2>1, <2>5 DEF Narrows
    <2>7. Outcome(nn)
      BY <2>1, <2>6, SlotsOutcome DEF Keeps
    <2> QED
      BY <1>2, <2>7 DEF OnBroadcastStopped, Step, nn
  <1>3. ASSUME NEW s \in Services, OnChannelChanged(s)
        PROVE  Outcome(m')
    <2> DEFINE cc == ClearAit(m)
               nn == [cc EXCEPT !.aitTimer = TRUE,
                                !.previousService = m.currentService,
                                !.currentService = s]
    <2>1. Keeps(m, cc) /\ ~cc.receivedFirstAit /\ cc \in Manager
      BY <1>1, ClearAitKeeps DEF Keeps
    <2>2. cc.ait = NoAit
      BY <1>1 DEF ClearAit, Manager
    <2>3. m' = nn
      BY <1>3 DEF OnChannelChanged, Step
    <2> HIDE DEF cc
    <2>4. /\ SameSlots(cc, nn) /\ ~nn.receivedFirstAit /\ nn.ait = NoAit
      BY <2>1, <2>2 DEF Manager, SameSlots
    <2> HIDE DEF nn
    <2>5. SameSlots(m, nn)
      BY <2>1, <2>4 DEF Keeps, SameSlots
    <2>6. StillRuns(m, nn) /\ (Alone(m) => Alone(nn))
      BY <2>5, SameSlotsRuns
    <2>7. Uses(nn)
      BY <1>1, <2>4, <2>6 DEF Uses, TableFits, RelatedWhenTuned, InTable, AtHome,
                              Unfailed, RunsFromTable, FromItsService
    <2> QED
      BY <2>3, <2>4, <2>6, <2>7 DEF Outcome
  <1>4. ASSUME NEW b \in BOOLEAN, OnNetworkAvailabilityChanged(b)
        PROVE  Outcome(m')
    <2> DEFINE nn == [m EXCEPT !.networkAvailable = b]
    <2>1. SameSlots(m, nn) /\ SameTable(m, nn) /\ nn.apps = m.apps
      BY <1>1 DEF Manager, SameSlots, SameTable
    <2>2. m' = nn
      BY <1>4 DEF OnNetworkAvailabilityChanged, Step
    <2> HIDE DEF nn
    <2>3. SameHbbtv(m, nn)
      BY <2>1, SameSlotsRuns DEF SameApps
    <2> QED
      BY <2>1, <2>2, <2>3, SameNarrows, SlotsOutcome
  <1> QED
    BY <1>2, <1>3, <1>4

(* A failed load marks the transport in the table, ends the application and
   starts what the table now offers.                                       *)
LEMMA MarkedUses ==
    ASSUME UInv, NEW id, NEW p, m.ait # NoAit, NEW i \in DOMAIN m.ait.apps,
           NEW mm, mm = [m EXCEPT !.ait = [m.ait EXCEPT !.apps =
                            AppSetTransportFailedToLoad(m.ait.apps, i, p)]]
    PROVE  /\ TableFits(mm) /\ RelatedWhenTuned(mm) /\ InTable(mm)
           /\ OneServicePerId => AtHome(mm)
           /\ Good(mm) /\ mm.nextId = m.nextId
           /\ mm.hbbtvAppId = m.hbbtvAppId
  <1> DEFINE t == m.ait.apps
             u == AppSetTransportFailedToLoad(t, i, p)
             tt == [m.ait EXCEPT !.apps = u]
  <1>1. Good(m) /\ m \in Manager /\ Uses(m)
    BY DEF UInv, IInv, Good
  <1>2. m.ait \in AitTable /\ t \in Table
    BY <1>1, AitType DEF Manager
  <1>3. /\ u \in Table /\ DOMAIN u = DOMAIN t
        /\ \A j \in DOMAIN t : u[j].key = t[j].key /\ u[j].opApp = t[j].opApp
    BY <1>2, MarkFailedType, MarkFailedKeeps
  <1>4. mm = [m EXCEPT !.ait = tt]
    OBVIOUS
  <1> HIDE DEF u
  <1>5. tt \in AitTable /\ tt.apps = u /\ tt.from = m.ait.from
    BY <1>2, <1>3 DEF AitTable
  <1> HIDE DEF tt
  <1>6. Keeps(m, mm)
    BY <1>1, <1>4, <1>5, SetAitKeeps
  <1>7. /\ mm.ait = tt /\ mm.apps = m.apps
        /\ mm.currentService = m.currentService
        /\ mm.receivedFirstAit = m.receivedFirstAit
        /\ mm.hbbtvAppId = m.hbbtvAppId
        /\ mm.opAppId = m.opAppId
        /\ mm.loaded = m.loaded
    BY <1>1, <1>4 DEF Manager
  <1>8. FitTable(t) => FitTable(u)
    BY <1>3 DEF FitTable, OnePerKey
  <1>9. TableFits(mm)
    BY <1>1, <1>5, <1>7, <1>8 DEF Uses, TableFits, FromItsService, Alone
  <1>10. RelatedWhenTuned(mm)
    BY <1>1, <1>7 DEF Uses, RelatedWhenTuned, Running, HbbtvApp
  <1>11. InTable(mm)
    <2> SUFFICES ASSUME RunsFromTable(mm) PROVE Signalled(mm) # 0
      BY DEF InTable
    <2> DEFINE key == HbbtvApp(m).aitDesc.key
               k == FindApp(t, key)
    <2>1. RunsFromTable(m) /\ HbbtvApp(mm) = HbbtvApp(m)
      BY <1>7 DEF RunsFromTable, Running, HbbtvApp
    <2>2. k # 0
      BY <1>1, <2>1 DEF Uses, InTable, Signalled
    <2>3. k \in DOMAIN t /\ t[k].key = key
      BY <1>2, <2>2, FindAppType
    <2> HIDE DEF k, key
    <2>4. k \in DOMAIN u /\ u[k].key = key
      BY <1>3, <2>3
    <2>5. FindApp(u, key) # 0
      BY <1>3, <2>4, FindAppFinds
    <2> QED
      BY <1>5, <1>7, <2>1, <2>5 DEF Signalled, key
  <1>12. Good(mm) /\ mm.nextId = m.nextId
    BY <1>1, <1>6, KeepsGood
  <1>13. OneServicePerId => AtHome(mm)
    BY <1>1, <1>7 DEF Uses, AtHome, Running, HbbtvApp
  <1> QED
    BY <1>7, <1>9, <1>10, <1>11, <1>12, <1>13

LEMMA LoadFailedOutcome ==
    ASSUME UInv, NEW id, OnLoadApplicationFailed(id)
    PROVE  Outcome(m') \/ m' = m
  <1> DEFINE app == m.apps[id]
             i == FindApp(m.ait.apps, app.aitDesc.key)
             marks == m.ait # NoAit /\ app.aitDesc.key # 0
             marked == [m EXCEPT !.ait = [m.ait EXCEPT !.apps =
                            AppSetTransportFailedToLoad(m.ait.apps, i, app.protocolId)]]
             mm == IF marks THEN marked ELSE m
             kk == KillRunningApp(mm, id)
             nn == OnPerformBroadcastAutostart(kk, parental)
  <1>1. Good(m) /\ m \in Manager /\ m.nextId < MaxAppId /\ Uses(m)
        /\ Running(m, id)
    BY DEF UInv, IInv, Good, OnLoadApplicationFailed, MayCreate
  <1>2. CASE marks /\ i = 0
    BY <1>2 DEF OnLoadApplicationFailed
  <1>3. CASE ~(marks /\ i = 0)
    <2>1. m' = nn
      BY <1>3 DEF OnLoadApplicationFailed, Step
    <2>2. /\ TableFits(mm) /\ RelatedWhenTuned(mm) /\ InTable(mm)
          /\ OneServicePerId => AtHome(mm)
          /\ Good(mm) /\ mm.nextId = m.nextId
          /\ mm.hbbtvAppId = m.hbbtvAppId
      <3>1. CASE marks
        <4>1. i \in DOMAIN m.ait.apps
          BY <1>1, <1>3, <3>1, AitType, FindAppType
        <4> HIDE DEF i
        <4> QED
          BY <3>1, <4>1, MarkedUses
      <3>2. CASE ~marks
        BY <1>1, <3>2 DEF Uses
      <3> QED
        BY <3>1, <3>2
    <2> HIDE DEF mm
    <2>3. /\ SameTable(mm, kk) /\ SameHbbtv(mm, kk) /\ (Alone(mm) => Alone(kk))
          /\ id = mm.hbbtvAppId => ~Running(kk, kk.hbbtvAppId)
          /\ Good(kk) /\ kk.nextId = m.nextId
      BY <2>2, KillTable, KillGood
    <2> HIDE DEF kk
    <2>4. NoOpAppSignalled => ~Running(kk, kk.hbbtvAppId)
      BY <1>1, <2>2, <2>3, OnlyHbbtvRuns
    <2>5. Uses(kk)
      <3>1. CASE NoOpAppSignalled
        BY <2>2, <2>3, <2>4, <3>1, StoppedUses
      <3>2. CASE ~NoOpAppSignalled
        <4>1. Uses(mm)
          BY <2>2, <3>2 DEF Uses
        <4> QED
          BY <2>3, <4>1, SameNarrows, NarrowsUses
      <3> QED
        BY <3>1, <3>2
    <2>6. /\ Served(nn, parental) /\ Uses(nn)
          /\ Admitted(kk, parental) => Admitted(nn, parental)
      BY <1>1, <2>3, <2>5, AutostartTable
    <2>7. NoOpAppSignalled => Admitted(kk, parental)
      BY <2>4 DEF Admitted
    <2> HIDE DEF nn
    <2> QED
      BY <2>1, <2>6, <2>7 DEF Outcome
  <1> QED
    BY <1>2, <1>3
-----------------------------------------------------------------------------
LEMMA AppCallsOutcome ==
    ASSUME UInv, AppCalls
    PROVE  Outcome(m')
  <1>1. PICK id \in CallerIds :
            \/ \E op \in BOOLEAN :
                \/ CreateApplicationRefused(id, op)
                \/ \E key \in Keys : CreateApplicationFromAit(id, key, op)
                \/ \E o \in Origins : CreateApplicationFromPage(id, o, op)
                \/ \E t \in XmlAits : CreateApplicationFromXmlAit(id, t, op)
            \/ CreateApplicationUnknown(id)
            \/ DestroyApplication(id)
            \/ ShowApplication(id)
            \/ HideApplication(id)
    BY DEF AppCalls
  <1>2. ASSUME NEW op \in BOOLEAN, CreateApplicationRefused(id, op)
        PROVE  Outcome(m')
    BY <1>2, SameOutcome DEF CreateApplicationRefused, Step
  <1>3. ASSUME NEW op \in BOOLEAN, NEW key \in Keys,
               CreateApplicationFromAit(id, key, op)
        PROVE  Outcome(m')
    BY <1>3, CreateFromAitOutcome
  <1>4. ASSUME NEW op \in BOOLEAN, NEW o \in Origins,
               CreateApplicationFromPage(id, o, op)
        PROVE  Outcome(m')
    BY <1>4, CreateFromPageOutcome
  <1>5. ASSUME NEW op \in BOOLEAN, NEW t \in XmlAits,
               CreateApplicationFromXmlAit(id, t, op)
        PROVE  Outcome(m')
    <2>1. PICK callsBack \in BOOLEAN :
            m' = XmlAitApp(WithScheme(t, FALSE), callsBack)
      BY <1>5 DEF CreateApplicationFromXmlAit, CreateReturns
    <2>2. MayCreate
      BY <1>5 DEF CreateApplicationFromXmlAit
    <2> QED
      BY <2>1, <2>2, XmlAitAppOutcome
  <1>6. CASE CreateApplicationUnknown(id)
    BY <1>6, SameOutcome DEF CreateApplicationUnknown, CreateReturns
  <1>7. CASE DestroyApplication(id)
    BY <1>7, DestroyOutcome
  <1>8. CASE ShowApplication(id) \/ HideApplication(id)
    BY <1>8, SetStateOutcome DEF ShowApplication, HideApplication
  <1> QED
    BY <1>1, <1>2, <1>3, <1>4, <1>5, <1>6, <1>7, <1>8

LEMMA PlatformCallsOutcome ==
    ASSUME UInv, PlatformCalls
    PROVE  Outcome(m')
  <1>1. ASSUME NEW t \in XmlAits, NEW lloc \in BOOLEAN, ProcessXmlAit(t, lloc)
        PROVE  Outcome(m')
    <2>1. PICK callsBack \in BOOLEAN :
            m' = XmlAitApp(WithScheme(t, lloc), callsBack)
      BY <1>1 DEF ProcessXmlAit, Step
    <2>2. MayCreate
      BY <1>1 DEF ProcessXmlAit
    <2> QED
      BY <2>1, <2>2, XmlAitAppOutcome
  <1>2. ASSUME NEW t \in XmlAits, NEW lloc \in BOOLEAN, ProcessDvbiXmlAit(t, lloc)
        PROVE  Outcome(m')
    BY <1>2, DvbiOutcome
  <1>3. ASSUME NEW pid \in Pids, NEW s \in Services,
               \/ ProcessAitSectionPartial(pid, s)
               \/ \E t \in BroadcastAits[s] : ProcessAitSectionLast(pid, s, t)
        PROVE  Outcome(m')
    BY <1>3, AitSectionOutcome
  <1>4. CASE RunTeletextApplication
    BY <1>4, TeletextOutcome
  <1>5. CASE \/ OnBroadcastStopped
             \/ \E s \in Services : OnChannelChanged(s)
             \/ \E b \in BOOLEAN : OnNetworkAvailabilityChanged(b)
    BY <1>5, BroadcastOutcome
  <1> QED
    BY <1>1, <1>2, <1>3, <1>4, <1>5 DEF PlatformCalls

LEMMA NextOutcome ==
    ASSUME UInv, [Next]_vars
    PROVE  Outcome(m') \/ m' = m
  <1>1. CASE AppCalls
    BY <1>1, AppCallsOutcome
  <1>2. CASE BrowserCalls
    BY <1>2, LoadFailedOutcome, PageChangedOutcome DEF BrowserCalls
  <1>3. CASE PlatformCalls
    BY <1>3, PlatformCallsOutcome
  <1>4. CASE OnSelectedServiceAitTimeout
    BY <1>4, TimeoutOutcome
  <1>5. CASE ParentalControlChanged \/ UNCHANGED vars
    BY <1>5 DEF ParentalControlChanged, vars
  <1> QED
    BY <1>1, <1>2, <1>3, <1>4, <1>5 DEF Next

LEMMA UInvariance == Spec => []UInv
  <1>1. Init => Uses(m)
    <2> SUFFICES ASSUME Init PROVE Uses(m)
      OBVIOUS
    <2>1. /\ m.ait = NoAit /\ m.hbbtvAppId = INVALID_APP_ID
          /\ m.opAppId = INVALID_APP_ID /\ m.loaded = INVALID_APP_ID
      BY DEF Init
    <2>2. ~Running(m, m.hbbtvAppId)
      BY <2>1 DEF Running, AppIds, INVALID_APP_ID
    <2> QED
      BY <2>1, <2>2 DEF Uses, TableFits, FromItsService, Alone, RelatedWhenTuned,
                        InTable, AtHome, Unfailed, RunsFromTable
  <1>2. UInv /\ [Next]_vars => Uses(m)'
    <2> SUFFICES ASSUME UInv, [Next]_vars PROVE Uses(m')
      OBVIOUS
    <2> QED
      BY NextOutcome DEF Outcome, UInv
  <1>3. Init => UInv
    BY <1>1, InitIInv DEF UInv
  <1>4. UInv /\ [Next]_vars => UInv'
    BY <1>2, NextIInv DEF UInv
  <1> QED
    BY <1>3, <1>4, PTL DEF Spec

(* ProcessAitSection compares the service_id of a section alone.  Where no
   two services share one, a table in use was collected from the sections of
   the selected service, whatever order sections, channel changes and calls
   arrive in.                                                              *)
THEOREM AitFromSelectedService ==
    ASSUME OneServicePerId
    PROVE  Spec => []AitOfCurrentService
  <1>1. UInv => AitOfCurrentService
    BY DEF UInv, Uses, TableFits, FromItsService, AitOfCurrentService
  <1> QED
    BY <1>1, UInvariance, PTL

(* RunApp lets go of the service under an independent application and
   OnSelectedServiceAitReceived makes what it keeps broadcast-related: once
   the table of the selected service was seen, no independent HbbTV
   application runs on it.                                                 *)
THEOREM NoIndependentAppIsTuned == Spec => []IndependentAppNotTuned
  <1>1. UInv => IndependentAppNotTuned
    BY DEF UInv, Uses, RelatedWhenTuned, IndependentAppNotTuned
  <1> QED
    BY <1>1, UInvariance, PTL

(* The running broadcast-related application is in the table in use: every
   table that does not signal it ends it, and what is started comes from the
   table.                                                                  *)
THEOREM RunningAppIsSignalled == Spec => []BroadcastAppIsSignalled
  <1>1. UInv => BroadcastAppIsSignalled
    BY DEF UInv, Uses, InTable, RunsFromTable, BroadcastAppIsSignalled
  <1> QED
    BY <1>1, UInvariance, PTL

(* Where no table signals an OpApp, the browser holds the page of the
   running HbbTV application and of nothing else.                          *)
THEOREM BrowserHoldsIt ==
    ASSUME NoOpAppSignalled
    PROVE  Spec => []BrowserHoldsRunningApp
  <1>1. UInv => BrowserHoldsRunningApp
    BY DEF UInv, Uses, TableFits, Alone, BrowserHoldsRunningApp
  <1> QED
    BY <1>1, UInvariance, PTL

(* Where no table signals an OpApp nor an application twice, the running
   application does not use a transport OnLoadApplicationFailed marked since
   the table was received.                                                 *)
THEOREM NoFailedTransportInUse ==
    ASSUME NoOpAppSignalled, OneEntryPerKey
    PROVE  Spec => []RunningTransportNotFailed
  <1>1. UInv => RunningTransportNotFailed
    <2> SUFFICES ASSUME UInv, RunsFromTable(m), HbbtvApp(m).protocolId # 0
                 PROVE  HasUnfailed(m.ait.apps[Signalled(m)], HbbtvApp(m).protocolId)
      BY DEF RunningTransportNotFailed, RunsFromTable, HasUnfailed
    <2>1. OnePerKey(m.ait.apps)
      BY DEF UInv, Uses, TableFits, FitTable, RunsFromTable
    <2> QED
      BY <2>1 DEF UInv, Uses, Unfailed
  <1> QED
    BY <1>1, UInvariance, PTL

(* Whichever way the running HbbTV application ends, OnRunningAppExited, the
   tail of OnLoadApplicationFailed or that of a new table start the
   autostart application of the table in use; the timeout kills only before
   there is a table.                                                       *)
THEOREM AutostartFollows == Spec => NeverLeftWithoutAutostart
  <1> DEFINE Left ==
        LET i == AutoStartApp(m'.ait.apps, parental)
        IN  Running(m, m.hbbtvAppId) /\ m'.currentService # NoService
             /\ m'.receivedFirstAit /\ m'.ait # NoAit /\ ~crashed'
             /\ i # 0 /\ ~m'.ait.apps[i].opApp
             => Running(m', m'.hbbtvAppId)
  <1>1. UInv /\ [Next]_vars => [Left]_vars
    <2> SUFFICES ASSUME UInv, [Next]_vars PROVE Left
      OBVIOUS
    <2>1. CASE m' = m
      BY <2>1
    <2>2. CASE Outcome(m')
      BY <2>2 DEF Outcome, StillRuns, Served
    <2> QED
      BY <2>1, <2>2, NextOutcome
  <1>2. NeverLeftWithoutAutostart <=> [][Left]_vars
    BY DEF NeverLeftWithoutAutostart
  <1> HIDE DEF Left
  <1> QED
    BY <1>1, <1>2, UInvariance, PTL DEF Spec

(* Where no table signals an OpApp, a table that comes into use leaves no
   broadcast-related application running that it rates above the age set:
   every way through OnSelectedServiceAitReceived, OnSelectedServiceAitUpdated
   and the autostart consults parental control.                            *)
THEOREM RestrictedAppIsEnded ==
    ASSUME NoOpAppSignalled
    PROVE  Spec => RestrictedAppEnds
  <1> DEFINE Ended ==
        Running(m', m'.hbbtvAppId) /\ m'.ait \notin {m.ait, NoAit}
            /\ m'.receivedFirstAit /\ HbbtvApp(m').isBroadcast
            => ~IsAgeRestricted(HbbtvApp(m').aitDesc, parental)
  <1>1. UInv /\ [Next]_vars => [Ended]_vars
    <2> SUFFICES ASSUME UInv, [Next]_vars PROVE Ended
      OBVIOUS
    <2>1. CASE m' = m
      BY <2>1
    <2>2. CASE Outcome(m')
      BY <2>2 DEF Outcome, Admitted
    <2> QED
      BY <2>1, <2>2, NextOutcome
  <1>2. RestrictedAppEnds <=> [][Ended]_vars
    BY DEF RestrictedAppEnds
  <1> HIDE DEF Ended
  <1> QED
    BY <1>1, <1>2, UInvariance, PTL DEF Spec

(* An admitted application from an entry of a table is in the map and
   loaded.                                                                 *)
LEMMA CreatedIsLoaded ==
    ASSUME NEW mm, Good(mm), mm.nextId < MaxAppId, NEW d \in AppDesc,
           NEW from \in Triplets, NEW pc, ~IsAgeRestricted(d, pc),
           NEW asOpApp \in BOOLEAN
    PROVE  LET nn == CreateAndRunApp(mm, d, from, pc, TRUE, asOpApp, FALSE)
           IN  Running(nn, mm.nextId + 1) /\ nn.loaded = mm.nextId + 1
  BY CreateTable, ZenonT(60)

(* What CreateApplication returns: the id of the application just run.     *)
LEMMA CreateFromAitReturns ==
    ASSUME UInv, NEW id, NEW key, NEW op \in BOOLEAN,
           CreateApplicationFromAit(id, key, op)
    PROVE  CreateReturnsTheApp'
  <1> DEFINE i == FindApp(m.ait.apps, key)
             d == m.ait.apps[i]
             nn == CreateAndRunApp(m, d, m.ait.from, parental, TRUE, op, FALSE)
  <1>1. CASE m.ait = NoAit \/ i = 0
    <2>1. CreateReturns(m, INVALID_APP_ID)
      BY <1>1 DEF CreateApplicationFromAit
    <2>2. returned'.id = INVALID_APP_ID
      BY <2>1 DEF CreateReturns
    <2> QED
      BY <2>2 DEF CreateReturnsTheApp
  <1>2. CASE ~(m.ait = NoAit \/ i = 0)
    <2>1. m' = nn /\ returned'.id = CreatedId(d)
      BY <1>2 DEF CreateApplicationFromAit, CreateReturns
    <2>2. Good(m) /\ m.nextId < MaxAppId
      BY DEF UInv, IInv, CreateApplicationFromAit, MayCreate
    <2>3. m.ait.apps \in Table /\ m.ait.from \in Triplets
      BY <1>2, <2>2, AitType DEF Good
    <2>4. d \in AppDesc
      BY <1>2, <2>3, FindAppType
    <2> HIDE DEF d
    <2>5. ~IsAgeRestricted(d, parental) =>
            Running(nn, m.nextId + 1) /\ nn.loaded = m.nextId + 1
      BY <2>2, <2>3, <2>4, CreatedIsLoaded
    <2> HIDE DEF nn
    <2>6. returned'.id # INVALID_APP_ID =>
            /\ returned'.id = m.nextId + 1
            /\ Running(m', m.nextId + 1) /\ m'.loaded = m.nextId + 1
      BY <2>1, <2>5 DEF CreatedId
    <2> QED
      BY <2>6 DEF CreateReturnsTheApp, Running, RunningApps
  <1> QED
    BY <1>1, <1>2

LEMMA CreateFromPageReturns ==
    ASSUME UInv, NEW id, NEW origin \in Origins, NEW op \in BOOLEAN,
           CreateApplicationFromPage(id, origin, op)
    PROVE  CreateReturnsTheApp'
  <1>1. PICK key \in Keys \cup {0}, callsBack \in BOOLEAN :
            CreateReturns(
                RunApp([m EXCEPT !.nextId = m.nextId + 1],
                       NewAppFromUrl(origin, op, BlankDesc(key, origin)),
                       callsBack),
                m.nextId + 1)
    BY DEF CreateApplicationFromPage
  <1> DEFINE dd == [m EXCEPT !.nextId = m.nextId + 1]
             app == NewAppFromUrl(origin, op, BlankDesc(key, origin))
             rr == RunApp(dd, app, callsBack)
  <1>2. Good(m) /\ m \in Manager /\ m.nextId < MaxAppId
    BY DEF CreateApplicationFromPage, MayCreate, UInv, IInv, Good
  <1>3. Good(dd) /\ dd.nextId \in AppIds /\ ~Running(dd, dd.nextId)
        /\ dd.nextId = m.nextId + 1
    BY <1>2, DrawGood, DrawTable
  <1>4. app \in App
    BY NewAppFromUrlType
  <1>5. m' = rr /\ returned'.id = m.nextId + 1
    BY <1>1 DEF CreateReturns
  <1> HIDE DEF dd, app
  <1>6. rr.loaded = m.nextId + 1 /\ Running(rr, m.nextId + 1)
    BY <1>3, <1>4, RunTable
  <1> HIDE DEF rr
  <1> QED
    BY <1>5, <1>6 DEF CreateReturnsTheApp, Running, RunningApps

LEMMA StepReturnsNothing ==
    ASSUME NEW next, Step(next)
    PROVE  CreateReturnsTheApp'
  BY DEF Step, NothingReturned, CreateReturnsTheApp

(* CreateApplication returns the id of the application the browser was told
   to load, or INVALID_APP_ID.  That is so without XML AITs: for one of them
   ProcessXmlAit returns a bool, which is the id of no application but the
   first.                                                                  *)
THEOREM CreateReturnsTheId ==
    ASSUME XmlAits = {}
    PROVE  Spec => []CreateReturnsTheApp
  <1>1. Init => CreateReturnsTheApp
    BY DEF Init, NothingReturned, CreateReturnsTheApp
  <1>2. ASSUME UInv, CreateReturnsTheApp, [Next]_vars
        PROVE  CreateReturnsTheApp'
    <2> USE <1>2
    <2>1. CASE AppCalls
      <3>1. PICK id \in CallerIds :
              \/ \E op \in BOOLEAN :
                  \/ CreateApplicationRefused(id, op)
                  \/ \E key \in Keys : CreateApplicationFromAit(id, key, op)
                  \/ \E o \in Origins : CreateApplicationFromPage(id, o, op)
              \/ CreateApplicationUnknown(id)
              \/ DestroyApplication(id)
              \/ ShowApplication(id)
              \/ HideApplication(id)
        BY <2>1 DEF AppCalls
      <3>2. CASE \E op \in BOOLEAN :
                  \/ CreateApplicationRefused(id, op)
                  \/ \E key \in Keys : CreateApplicationFromAit(id, key, op)
                  \/ \E o \in Origins : CreateApplicationFromPage(id, o, op)
        <4>1. PICK op \in BOOLEAN :
                  \/ CreateApplicationRefused(id, op)
                  \/ \E key \in Keys : CreateApplicationFromAit(id, key, op)
                  \/ \E o \in Origins : CreateApplicationFromPage(id, o, op)
          BY <3>2
        <4>2. CASE CreateApplicationRefused(id, op)
          BY <4>2, StepReturnsNothing DEF CreateApplicationRefused
        <4>3. CASE \E key \in Keys : CreateApplicationFromAit(id, key, op)
          BY <4>3, CreateFromAitReturns
        <4>4. CASE \E o \in Origins : CreateApplicationFromPage(id, o, op)
          BY <4>4, CreateFromPageReturns
        <4> QED
          BY <4>1, <4>2, <4>3, <4>4
      <3>3. CASE CreateApplicationUnknown(id)
        <4>1. CreateReturns(m, INVALID_APP_ID)
          BY <3>3 DEF CreateApplicationUnknown
        <4>2. returned'.id = INVALID_APP_ID
          BY <4>1 DEF CreateReturns
        <4> QED
          BY <4>2 DEF CreateReturnsTheApp
      <3>4. CASE DestroyApplication(id)
        BY <3>4, StepReturnsNothing DEF DestroyApplication
      <3>5. CASE ShowApplication(id) \/ HideApplication(id)
        BY <3>5, StepReturnsNothing DEF ShowApplication, HideApplication, SetState
      <3> QED
        BY <3>1, <3>2, <3>3, <3>4, <3>5
    <2>2. CASE BrowserCalls
      <3>1. PICK id \in CallerIds :
              \/ OnLoadApplicationFailed(id)
              \/ \E o \in Origins : OnApplicationPageChanged(id, o)
        BY <2>2 DEF BrowserCalls
      <3>2. CASE OnLoadApplicationFailed(id)
        <4>1. \/ UNCHANGED <<m, parental, returned>>
              \/ returned' = NothingReturned
          BY <3>2 DEF OnLoadApplicationFailed, Step
        <4> QED
          BY <4>1 DEF NothingReturned, CreateReturnsTheApp
      <3>3. CASE \E o \in Origins : OnApplicationPageChanged(id, o)
        BY <3>3, StepReturnsNothing DEF OnApplicationPageChanged
      <3> QED
        BY <3>1, <3>2, <3>3
    <2>3. CASE PlatformCalls
      <3>1. \A next : Step(next) => returned' = NothingReturned
        BY DEF Step
      <3>2. returned' = NothingReturned
        BY <2>3, <3>1
           DEF PlatformCalls, ProcessXmlAit, ProcessDvbiXmlAit,
               ProcessAitSectionPartial, ProcessAitSectionLast,
               RunTeletextApplication, OnBroadcastStopped, OnChannelChanged,
               OnNetworkAvailabilityChanged
      <3> QED
        BY <3>2 DEF NothingReturned, CreateReturnsTheApp
    <2>4. CASE OnSelectedServiceAitTimeout
      BY <2>4, StepReturnsNothing DEF OnSelectedServiceAitTimeout
    <2>5. CASE ParentalControlChanged
      BY <2>5 DEF ParentalControlChanged, NothingReturned, CreateReturnsTheApp
    <2>6. CASE UNCHANGED vars
      BY <2>6 DEF vars, CreateReturnsTheApp
    <2> QED
      BY <1>2, <2>1, <2>2, <2>3, <2>4, <2>5, <2>6 DEF Next
  <1> QED
    BY <1>1, <1>2, UInvariance, PTL DEF Spec
-----------------------------------------------------------------------------
(* Where descriptors are read: an application that runs in nn and was
   created before ran in mm, with a descriptor from the same service.      *)
Kept(mm, nn) ==
    /\ mm.nextId <= nn.nextId
    /\ \A id \in AppIds : Running(nn, id) /\ id <= mm.nextId =>
        Running(mm, id) /\ nn.apps[id].descFrom = mm.apps[id].descFrom

LEMMA KeptTransitive ==
    ASSUME NEW mm \in Manager, NEW nn \in Manager, NEW oo \in Manager,
           Kept(mm, nn), Kept(nn, oo)
    PROVE  Kept(mm, oo)
  <1>1. mm.nextId \in Nat /\ nn.nextId \in Nat /\ oo.nextId \in Nat
    BY DEF Manager
  <1>2. \A id \in AppIds : id \in Nat
    BY MaxAppIdAssumption DEF AppIds
  <1> QED
    BY <1>1, <1>2 DEF Kept

LEMMA SameAppsKept ==
    ASSUME NEW mm \in Manager, NEW nn, SameSlots(mm, nn), SameApps(mm, nn)
    PROVE  Kept(mm, nn)
  <1>1. mm.nextId \in Nat
    BY DEF Manager
  <1> QED
    BY <1>1 DEF Kept, SameSlots, SameApps, Running

LEMMA KillKept ==
    ASSUME NEW mm, Good(mm), NEW id
    PROVE  /\ Kept(mm, KillRunningApp(mm, id))
           /\ id = mm.hbbtvAppId => ~Running(KillRunningApp(mm, id), id)
  <1> DEFINE kk == KillRunningApp(mm, id)
  <1>1. mm \in Manager /\ mm.nextId \in Nat
    BY DEF Good, Manager
  <1>2. CASE ~(id \in {mm.hbbtvAppId, mm.opAppId} /\ Running(mm, id))
    BY <1>1, <1>2 DEF KillRunningApp, Kept
  <1>3. CASE id \in {mm.hbbtvAppId, mm.opAppId} /\ Running(mm, id)
    <2>1. kk.apps = Erase(mm.apps, id) /\ kk.nextId = mm.nextId
      BY <1>1, <1>3, KillFields
    <2> HIDE DEF kk
    <2>2. \A x \in AppIds : kk.apps[x] = IF x = id THEN NoApp ELSE mm.apps[x]
      BY <2>1 DEF Erase
    <2>3. Kept(mm, kk) /\ ~Running(kk, id)
      BY <1>1, <2>1, <2>2 DEF Kept, Running
    <2> QED
      BY <2>3 DEF kk
  <1> QED
    BY <1>2, <1>3

(* The callback from StopBroadcast makes the HbbTV application independent
   and keeps its descriptor.                                               *)
LEMMA BroadcastStoppedKept ==
    ASSUME NEW mm \in Manager
    PROVE  \A x \in AppIds :
            BroadcastStopped(mm).apps[x].descFrom = mm.apps[x].descFrom
  <1> DEFINE cc == ClearAit(mm)
             ss == [cc EXCEPT !.currentService = NoService,
                              !.previousService = NoService]
             id == ss.hbbtvAppId
             app == [ss.apps[id] EXCEPT !.isBroadcast = FALSE]
             a == [ss.apps EXCEPT ![id] = app]
             tt == [ss EXCEPT !.apps = a]
  <1>1. cc \in Manager /\ cc.apps = mm.apps
    <2>1. cc \in Manager
      BY ClearAitKeeps DEF Keeps
    <2>2. cc.apps = mm.apps
      BY DEF ClearAit, Manager
    <2> QED
      BY <2>1, <2>2
  <1> HIDE DEF cc
  <1>2. ss \in Manager /\ ss.apps = mm.apps
    <2>1. ss \in Manager
      BY <1>1, SelectKeeps DEF Keeps, Triplets
    <2> QED
      BY <1>1, <2>1 DEF Manager
  <1>3. BroadcastStopped(mm) = IF Running(ss, id) THEN tt ELSE ss
    BY DEF BroadcastStopped, TransitionToBroadcastIndependent, cc
  <1> HIDE DEF ss
  <1>4. CASE Running(ss, id)
    <2>1. ss.apps[id] \in App /\ id \in AppIds /\ ss.apps \in AppMap
      BY <1>2, <1>4, RunningType DEF Manager, AppMap
    <2>2. app.descFrom = ss.apps[id].descFrom
      BY <2>1 DEF App
    <2> HIDE DEF app
    <2>3. \A x \in AppIds : a[x].descFrom = ss.apps[x].descFrom
      BY <2>1, <2>2 DEF AppMap
    <2> HIDE DEF a
    <2>4. tt.apps = a
      BY <1>2 DEF Manager
    <2> QED
      BY <1>2, <1>3, <1>4, <2>3, <2>4
  <1>5. CASE ~Running(ss, id)
    BY <1>2, <1>3, <1>5
  <1> QED
    BY <1>4, <1>5

LEMMA RunAppStoppedKept ==
    ASSUME NEW mm \in Manager, NEW app, NEW callsBack
    PROVE  LET ee == RunAppErased(mm, app)
               st == RunAppStopped(mm, app, callsBack)
           IN  \A x \in AppIds : st.apps[x].descFrom = ee.apps[x].descFrom
  <1> DEFINE ee == RunAppErased(mm, app)
             bb == StopBroadcast(ee, callsBack)
             ss == [bb EXCEPT !.currentService = NoService,
                              !.previousService = NoService]
             st == RunAppStopped(mm, app, callsBack)
  <1>1. ee \in Manager
    BY RunAppErasedFields
  <1>2. st = ss \/ st = ee
    BY DEF RunAppStopped
  <1> HIDE DEF ee, st
  <1>3. bb \in Manager
    BY <1>1, BroadcastStoppedKeeps DEF StopBroadcast, Keeps
  <1>4. \A x \in AppIds : bb.apps[x].descFrom = ee.apps[x].descFrom
    BY <1>1, BroadcastStoppedKept DEF StopBroadcast
  <1> HIDE DEF bb
  <1>5. ss.apps = bb.apps
    BY <1>3 DEF Manager
  <1> HIDE DEF ss
  <1>6. \A x \in AppIds : st.apps[x].descFrom = ee.apps[x].descFrom
    BY <1>2, <1>4, <1>5
  <1> QED
    BY <1>6 DEF ee, st

(* What a new application replaces is erased; it has an id of its own.     *)
LEMMA RunKept ==
    ASSUME NEW mm, Good(mm), mm.nextId < MaxAppId, NEW app \in App, NEW callsBack
    PROVE  Kept(mm, RunApp([mm EXCEPT !.nextId = mm.nextId + 1], app, callsBack))
  <1> DEFINE dd == [mm EXCEPT !.nextId = mm.nextId + 1]
             ee == RunAppErased(dd, app)
             st == RunAppStopped(dd, app, callsBack)
             rr == RunApp(dd, app, callsBack)
  <1>1. mm \in Manager /\ mm.nextId \in Nat
    BY DEF Good, Manager
  <1>2. dd \in Manager /\ dd.nextId \in AppIds
    BY DrawGood DEF Good
  <1>3. dd.apps = mm.apps /\ dd.nextId = mm.nextId + 1
    BY <1>1 DEF Manager
  <1> HIDE DEF dd
  <1>4. Installed(dd, app, st, rr) /\ Keeps(ee, st)
    BY <1>2, RunAppStoppedKeeps, RunAppFields
  <1>5. \A x \in AppIds : st.apps[x].descFrom = ee.apps[x].descFrom
    BY <1>2, RunAppStoppedKept
  <1>6. ee.apps = Erase(dd.apps, RunAppSlot(dd, app)) /\ ee.nextId = dd.nextId
    BY <1>2, RunAppErasedFields
  <1> HIDE DEF ee, st, rr
  <1>7. rr.nextId = mm.nextId + 1
    BY <1>3, <1>4, <1>6 DEF Installed, Keeps, SameSlots
  <1>8. ASSUME NEW x \in AppIds, Running(rr, x), x <= mm.nextId
        PROVE  Running(mm, x) /\ rr.apps[x].descFrom = mm.apps[x].descFrom
    <2>1. x \in Nat /\ x # dd.nextId
      BY <1>1, <1>3, <1>8, MaxAppIdAssumption DEF AppIds
    <2>2. rr.apps[x] = st.apps[x]
      BY <1>4, <2>1 DEF Installed
    <2>3. st.apps[x] # NoApp
      BY <1>8, <2>2 DEF Running
    <2>4. ee.apps[x] # NoApp
      BY <1>4, <2>3 DEF Keeps, SameSlots
    <2>5. ee.apps[x] = mm.apps[x]
      BY <1>3, <1>6, <2>4 DEF Erase
    <2> QED
      BY <1>5, <2>2, <2>4, <2>5 DEF Running
  <1>9. Kept(mm, rr)
    BY <1>1, <1>7, <1>8 DEF Kept
  <1> QED
    BY <1>9 DEF rr, dd

LEMMA CreateKept ==
    ASSUME NEW mm, Good(mm), mm.nextId < MaxAppId, NEW d \in AppDesc,
           NEW from \in Triplets, NEW pc, NEW isBroadcast \in BOOLEAN,
           NEW asOpApp \in BOOLEAN, NEW callsBack
    PROVE  Kept(mm, CreateAndRunApp(mm, d, from, pc, isBroadcast, asOpApp, callsBack))
  <1> DEFINE dd == [mm EXCEPT !.nextId = mm.nextId + 1]
             app == NewAppFromDesc(d, from, mm.networkAvailable, isBroadcast,
                                   asOpApp \/ d.opApp)
             rr == RunApp(dd, app, callsBack)
  <1>1. CreateAndRunApp(mm, d, from, pc, isBroadcast, asOpApp, callsBack)
            = IF IsAgeRestricted(d, pc) THEN dd ELSE rr
    BY DEF CreateAndRunApp
  <1>2. (asOpApp \/ d.opApp) \in BOOLEAN
    OBVIOUS
  <1>3. app \in App
    BY <1>2, NewAppFromDescType
  <1> HIDE DEF app
  <1>4. Kept(mm, rr)
    BY <1>3, RunKept
  <1>5. mm \in Manager /\ mm.nextId \in Nat
    BY DEF Good, Manager
  <1>6. dd.apps = mm.apps /\ dd.nextId = mm.nextId + 1
    BY <1>5 DEF Manager
  <1> HIDE DEF dd, rr
  <1>7. Kept(mm, dd)
    BY <1>5, <1>6 DEF Kept, Running
  <1> QED
    BY <1>1, <1>4, <1>7

LEMMA AutostartKept ==
    ASSUME NEW mm, Good(mm), mm.nextId < MaxAppId, NEW pc
    PROVE  Kept(mm, OnPerformBroadcastAutostart(mm, pc))
  <1> DEFINE i == AutoStartApp(mm.ait.apps, pc)
             cc == CreateAndRunApp(mm, mm.ait.apps[i], mm.ait.from, pc,
                                   TRUE, FALSE, FALSE)
  <1>1. mm.nextId \in Nat
    BY DEF Good, Manager
  <1>2. CASE ~mm.receivedFirstAit \/ mm.ait = NoAit \/ i = 0
    <2>1. OnPerformBroadcastAutostart(mm, pc) = mm
      BY <1>2 DEF OnPerformBroadcastAutostart
    <2> QED
      BY <1>1, <2>1 DEF Kept
  <1>3. CASE mm.receivedFirstAit /\ mm.ait # NoAit /\ i # 0
    <2>1. OnPerformBroadcastAutostart(mm, pc) = cc
      BY <1>3 DEF OnPerformBroadcastAutostart
    <2>2. mm.ait.apps \in Table /\ mm.ait.from \in Triplets
      BY <1>3, AitType DEF Good
    <2>3. mm.ait.apps[i] \in AppDesc
      BY <1>3, <2>2, AutoStartAppType
    <2> HIDE DEF i
    <2>4. Kept(mm, cc)
      BY <2>2, <2>3, CreateKept
    <2> QED
      BY <2>1, <2>4
  <1> QED
    BY <1>2, <1>3

(* A bound application that goes on running has its descriptor from the
   service it had it from, or from no service.                             *)
Stays(mm, nn) ==
    LET id == mm.hbbtvAppId
    IN  Running(mm, id) /\ Running(nn, id) /\ mm.apps[id].isBroadcast
         /\ mm.apps[id].aitDesc.serviceBound
         /\ mm.apps[id].descFrom # NoService
         => nn.apps[id].descFrom \in {mm.apps[id].descFrom, NoService}

LEMMA KeptStays ==
    ASSUME NEW mm, Good(mm), NEW nn, Kept(mm, nn)
    PROVE  Stays(mm, nn)
  BY DEF Good, SlotsOk, RunningApps, Running, Kept, Stays

(* The application has been ended: nothing gets its id again.              *)
LEMMA EndedStays ==
    ASSUME NEW mm, Good(mm), NEW cc, Kept(mm, cc), ~Running(cc, mm.hbbtvAppId),
           cc.nextId = mm.nextId, NEW nn, Kept(cc, nn)
    PROVE  Stays(mm, nn)
  BY DEF Good, SlotsOk, RunningApps, Running, Kept, Stays

(* The first table of a service ends a bound application.                  *)
LEMMA ReceivedStays ==
    ASSUME Instances = {}, NEW mm, Good(mm), mm.nextId < MaxAppId, NEW pc
    PROVE  Stays(mm, OnSelectedServiceAitReceived(mm, pc))
  <1> DEFINE id == mm.hbbtvAppId
             kk == KillRunningApp(mm, id)
             nn == OnPerformBroadcastAutostart(kk, pc)
  <1>1. CASE Running(mm, id) /\ mm.apps[id].isBroadcast
                /\ mm.apps[id].aitDesc.serviceBound
    <2>1. Kept(mm, kk) /\ ~Running(kk, id) /\ ~Running(kk, kk.hbbtvAppId)
      BY KillKept, KillTable
    <2>2. Good(kk) /\ kk.nextId = mm.nextId
      BY KillGood
    <2>3. LeftItsService(mm)
      BY <1>1 DEF LeftItsService, HbbtvApp
    <2>4. OnSelectedServiceAitReceived(mm, pc) = nn
      BY <1>1, <2>1, <2>3 DEF OnSelectedServiceAitReceived, HbbtvApp
    <2> HIDE DEF kk
    <2>5. Kept(kk, nn)
      BY <2>2, AutostartKept
    <2> QED
      BY <2>1, <2>2, <2>4, <2>5, EndedStays
  <1>2. CASE ~(Running(mm, id) /\ mm.apps[id].isBroadcast
                /\ mm.apps[id].aitDesc.serviceBound)
    BY <1>2 DEF Stays
  <1> QED
    BY <1>1, <1>2

(* A later table is one of the service the application belongs to.         *)
LEMMA UpdatedStays ==
    ASSUME NEW mm, Good(mm), mm.nextId < MaxAppId, NEW pc,
           mm.ait # NoAit, mm.receivedFirstAit, AtHome(mm),
           mm.ait.from \in {mm.currentService, NoService}
    PROVE  Stays(mm, OnSelectedServiceAitUpdated(mm, pc))
  <1> DEFINE id == mm.hbbtvAppId
             cc == ContinueOrKill(mm, pc)
             nn == OnSelectedServiceAitUpdated(mm, pc)
             aa == OnPerformBroadcastAutostart(cc, pc)
  <1>1. CASE ~(Running(mm, id) /\ mm.apps[id].isBroadcast)
    BY <1>1 DEF Stays
  <1>2. CASE Running(mm, id) /\ mm.apps[id].isBroadcast
    <2>1. nn = IF Running(cc, cc.hbbtvAppId) THEN cc ELSE aa
      BY <1>2 DEF OnSelectedServiceAitUpdated, HbbtvApp
    <2>2. Good(cc) /\ cc.nextId = mm.nextId
      BY <1>2, ContinueOrKillFollows DEF Follows
    <2> HIDE DEF nn
    <2>3. CASE MayContinue(mm, pc)
      <3>1. cc = UpdateRunningApp(mm) /\ Signalled(mm) # 0
        BY <2>3 DEF ContinueOrKill, MayContinue
      <3>2. /\ Running(cc, cc.hbbtvAppId)
            /\ HbbtvApp(cc).descFrom = mm.ait.from
            /\ cc.hbbtvAppId = id
        BY <1>2, <3>1, UpdateTable DEF Started, HbbtvApp
      <3>3. cc.apps[id].descFrom \in {mm.apps[id].descFrom, NoService}
                \/ mm.apps[id].descFrom = NoService
        BY <1>2, <3>2 DEF AtHome, HbbtvApp
      <3> HIDE DEF cc, id
      <3>4. Stays(mm, cc)
        BY <3>3 DEF Stays, id
      <3> QED
        BY <2>1, <3>2, <3>4 DEF nn
    <2>4. CASE ~MayContinue(mm, pc)
      <3>1. cc = KillRunningApp(mm, id)
        BY <2>4 DEF ContinueOrKill
      <3>2. Kept(mm, cc) /\ ~Running(cc, id) /\ ~Running(cc, cc.hbbtvAppId)
        BY <3>1, KillKept, KillTable
      <3> HIDE DEF cc
      <3>3. Kept(cc, aa)
        BY <2>2, AutostartKept
      <3>4. Stays(mm, aa)
        BY <2>2, <3>2, <3>3, EndedStays
      <3> QED
        BY <2>1, <3>2, <3>4 DEF nn, cc
    <2> QED
      BY <2>3, <2>4
  <1> QED
    BY <1>1, <1>2

LEMMA AitCompletedStays ==
    ASSUME Instances = {}, NEW mm, Good(mm), AtHome(mm), mm.nextId < MaxAppId,
           NEW t \in AitTable, NEW pc, t.from \in {mm.currentService, NoService}
    PROVE  Stays(mm, AitCompleted(mm, t, pc))
  <1> DEFINE uu == [mm EXCEPT !.ait = t]
             ff == [uu EXCEPT !.aitTimer = FALSE, !.receivedFirstAit = TRUE]
             nn == AitCompleted(mm, t, pc)
  <1>1. mm \in Manager /\ t # NoAit
    BY ModelValuesAssumption DEF Good
  <1>2. Good(uu) /\ uu.nextId = mm.nextId
    <2>1. Keeps(mm, uu)
      BY <1>1, SetAitKeeps
    <2> HIDE DEF uu
    <2> QED
      BY <2>1, KeepsGood
  <1>3. /\ uu.ait = t
        /\ uu.apps = mm.apps
        /\ uu.hbbtvAppId = mm.hbbtvAppId
        /\ uu.currentService = mm.currentService
        /\ uu.receivedFirstAit = mm.receivedFirstAit
        /\ uu \in Manager
    BY <1>1, <1>2 DEF Manager, Good
  <1>4. nn = IF mm.receivedFirstAit THEN OnSelectedServiceAitUpdated(uu, pc)
             ELSE OnSelectedServiceAitReceived(ff, pc)
    BY DEF AitCompleted
  <1> HIDE DEF uu
  <1>5. /\ SameSlots(uu, ff) /\ ~ff.aitTimer /\ ff \in Manager
        /\ ff.apps = mm.apps
        /\ ff.hbbtvAppId = mm.hbbtvAppId
        /\ ff.nextId = uu.nextId
    BY <1>3 DEF Manager, SameSlots
  <1> HIDE DEF ff, nn
  <1>6. CASE mm.receivedFirstAit
    <2>1. AtHome(uu)
      BY <1>3 DEF AtHome, Running, HbbtvApp
    <2>2. Stays(uu, nn)
      BY <1>1, <1>2, <1>3, <1>4, <1>6, <2>1, UpdatedStays
    <2> QED
      BY <1>3, <2>2 DEF Stays, Running, nn
  <1>7. CASE ~mm.receivedFirstAit
    <2>1. Good(ff)
      BY <1>2, <1>5, SlotsFrame DEF Good
    <2>2. Stays(ff, nn)
      BY <1>2, <1>4, <1>5, <1>7, <2>1, ReceivedStays
    <2> QED
      BY <1>5, <2>2 DEF Stays, Running, nn
  <1> QED
    BY <1>6, <1>7
-----------------------------------------------------------------------------
(* The public methods.                                                     *)
LEMMA SameStays ==
    ASSUME m' = m
    PROVE  Stays(m, m')
  BY DEF Stays

LEMMA CreateFromTableStays ==
    ASSUME UInv, m.nextId < MaxAppId, m.ait # NoAit, NEW i \in DOMAIN m.ait.apps,
           NEW op \in BOOLEAN
    PROVE  Stays(m, CreateAndRunApp(m, m.ait.apps[i], m.ait.from, parental, TRUE,
                                    op, FALSE))
  <1> DEFINE d == m.ait.apps[i]
             nn == CreateAndRunApp(m, d, m.ait.from, parental, TRUE, op, FALSE)
  <1>1. Good(m)
    BY DEF UInv, IInv
  <1>2. m.ait.apps \in Table /\ m.ait.from \in Triplets
    BY <1>1, AitType DEF Good
  <1>3. d \in AppDesc
    BY <1>2 DEF Table
  <1> HIDE DEF d
  <1>4. Kept(m, nn)
    BY <1>1, <1>2, <1>3, CreateKept
  <1> HIDE DEF nn
  <1>5. Stays(m, nn)
    BY <1>1, <1>4, KeptStays
  <1> QED
    BY <1>5 DEF nn, d

LEMMA CreateFromAitStays ==
    ASSUME UInv, NEW id, NEW key, NEW op \in BOOLEAN,
           CreateApplicationFromAit(id, key, op)
    PROVE  Stays(m, m')
  <1> DEFINE i == FindApp(m.ait.apps, key)
  <1>1. m.nextId < MaxAppId
    BY DEF CreateApplicationFromAit, MayCreate
  <1>2. CASE m.ait = NoAit \/ i = 0
    BY <1>2, SameStays DEF CreateApplicationFromAit, CreateReturns
  <1>3. CASE ~(m.ait = NoAit \/ i = 0)
    <2>1. m' = CreateAndRunApp(m, m.ait.apps[i], m.ait.from, parental, TRUE,
                               op, FALSE)
      BY <1>3 DEF CreateApplicationFromAit, CreateReturns
    <2>2. i \in DOMAIN m.ait.apps
      BY <1>3, FindAppType, AitType DEF UInv, IInv, Good
    <2> HIDE DEF i
    <2> QED
      BY <1>1, <1>3, <2>1, <2>2, CreateFromTableStays
  <1> QED
    BY <1>2, <1>3

LEMMA TeletextStays ==
    ASSUME UInv, RunTeletextApplication
    PROVE  Stays(m, m')
  <1> DEFINE i == TeletextApp(m.ait.apps)
             K == {j \in DOMAIN m.ait.apps : m.ait.apps[j].teletext}
  <1>1. i = 0 \/ i \in First(K)
    BY PointerToType DEF TeletextApp
  <1>2. First(K) \subseteq K
    BY DEF First
  <1>3. /\ m.nextId < MaxAppId /\ m.ait # NoAit /\ i # 0
        /\ m' = CreateAndRunApp(m, m.ait.apps[i], m.ait.from, parental, TRUE,
                                FALSE, FALSE)
    BY DEF RunTeletextApplication, MayCreate, Step
  <1>4. i \in DOMAIN m.ait.apps
    BY <1>1, <1>2, <1>3
  <1> HIDE DEF i
  <1> QED
    BY <1>3, <1>4, CreateFromTableStays

LEMMA CreateFromPageStays ==
    ASSUME UInv, NEW id, NEW origin \in Origins, NEW op \in BOOLEAN,
           CreateApplicationFromPage(id, origin, op)
    PROVE  Stays(m, m')
  <1>1. PICK key \in Keys \cup {0}, callsBack \in BOOLEAN :
            CreateReturns(
                RunApp([m EXCEPT !.nextId = m.nextId + 1],
                       NewAppFromUrl(origin, op, BlankDesc(key, origin)),
                       callsBack),
                m.nextId + 1)
    BY DEF CreateApplicationFromPage
  <1> DEFINE app == NewAppFromUrl(origin, op, BlankDesc(key, origin))
             rr == RunApp([m EXCEPT !.nextId = m.nextId + 1], app, callsBack)
  <1>2. Good(m) /\ m.nextId < MaxAppId
    BY DEF CreateApplicationFromPage, MayCreate, UInv, IInv
  <1>3. app \in App
    BY NewAppFromUrlType
  <1>4. m' = rr
    BY <1>1 DEF CreateReturns
  <1> HIDE DEF app
  <1>5. Kept(m, rr)
    BY <1>2, <1>3, RunKept
  <1> HIDE DEF rr
  <1> QED
    BY <1>2, <1>4, <1>5, KeptStays

LEMMA XmlAitAppStays ==
    ASSUME UInv, MayCreate, NEW t \in XmlAits, NEW lloc \in BOOLEAN, NEW callsBack
    PROVE  Stays(m, XmlAitApp(WithScheme(t, lloc), callsBack))
  <1> DEFINE w == WithScheme(t, lloc)
             i == AutoStartApp(w, parental)
             nn == CreateAndRunApp(m, w[i], NoService, parental, FALSE, FALSE,
                                   callsBack)
  <1>1. Good(m) /\ m.nextId < MaxAppId /\ NoService \in Triplets
    BY DEF UInv, IInv, MayCreate, Triplets
  <1>2. w \in Table
    BY TablesAssumption, WithSchemeType
  <1> HIDE DEF w
  <1>3. i # 0 => w[i] \in AppDesc
    BY <1>2, AutoStartAppType
  <1> HIDE DEF i
  <1>4. CASE i = 0
    BY <1>4 DEF XmlAitApp, Stays, i, w
  <1>5. CASE i # 0
    <2>1. Kept(m, nn)
      BY <1>1, <1>3, <1>5, CreateKept
    <2>2. XmlAitApp(w, callsBack) = nn
      BY <1>5 DEF XmlAitApp, i
    <2> HIDE DEF nn
    <2> QED
      BY <1>1, <2>1, <2>2, KeptStays DEF w
  <1> QED
    BY <1>4, <1>5

LEMMA DvbiStays ==
    ASSUME UInv, OneServicePerId, Instances = {}, NEW t \in XmlAits,
           NEW lloc \in BOOLEAN, ProcessDvbiXmlAit(t, lloc)
    PROVE  Stays(m, m')
  <1> DEFINE w == WithScheme(t, lloc)
             tt == [from |-> NoService, apps |-> w]
             pp == [m EXCEPT !.aitPid = XML_AIT_PID]
             nn == AitCompleted(pp, tt, parental)
  <1>1. w \in Table
    BY TablesAssumption, WithSchemeType
  <1>2. m' = nn /\ m.nextId < MaxAppId
    BY DEF ProcessDvbiXmlAit, MayCreate, Step
  <1>3. Good(m) /\ m \in Manager /\ AtHome(m)
    BY DEF UInv, IInv, Good, Uses
  <1>4. SameTable(m, pp) /\ SameSlots(m, pp) /\ pp.apps = m.apps /\ pp \in Manager
        /\ pp.aitTimer = m.aitTimer
    BY <1>3 DEF Manager, SameTable, SameSlots
  <1>5. tt \in AitTable /\ tt.from = NoService
    BY <1>1 DEF AitTable
  <1> HIDE DEF pp, tt
  <1>6. Keeps(m, pp)
    BY <1>4 DEF Keeps, SameTable
  <1>7. Good(pp) /\ pp.nextId = m.nextId
    BY <1>3, <1>6, KeepsGood
  <1>8. AtHome(pp)
    BY <1>3, <1>4 DEF AtHome, SameTable, SameSlots, Running, HbbtvApp
  <1>9. Stays(pp, nn)
    BY <1>2, <1>5, <1>7, <1>8, AitCompletedStays
  <1> HIDE DEF nn
  <1> QED
    BY <1>2, <1>4, <1>9 DEF Stays, SameSlots, Running

LEMMA AitSectionStays ==
    ASSUME UInv, OneServicePerId, Instances = {}, NEW pid \in Pids,
           NEW s \in Services,
           \/ ProcessAitSectionPartial(pid, s)
           \/ \E t \in BroadcastAits[s] : ProcessAitSectionLast(pid, s, t)
    PROVE  Stays(m, m')
  <1> DEFINE pp == NewPid(pid)
  <1>1. Good(m) /\ m \in Manager /\ AtHome(m)
    BY DEF UInv, IInv, Good, Uses
  <1>2. Keeps(m, pp) /\ Narrows(m, pp) /\ pp.currentService = m.currentService
    BY NewPidNarrows
  <1>3. pp.apps = m.apps /\ pp.hbbtvAppId = m.hbbtvAppId
        /\ pp.receivedFirstAit = m.receivedFirstAit
    BY <1>1 DEF NewPid, Manager
  <1> HIDE DEF pp
  <1>4. CASE ProcessAitSectionPartial(pid, s)
    <2>1. m' = pp
      BY <1>4 DEF ProcessAitSectionPartial, Step, pp
    <2> QED
      BY <1>3, <2>1 DEF Stays
  <1>5. CASE \E t \in BroadcastAits[s] : ProcessAitSectionLast(pid, s, t)
    <2>1. PICK t \in BroadcastAits[s] : ProcessAitSectionLast(pid, s, t)
      BY <1>5
    <2> DEFINE tt == [from |-> s, apps |-> t]
               nn == AitCompleted(pp, tt, parental)
    <2>2. m' = nn /\ m.nextId < MaxAppId /\ ForCurrentService(s)
      BY <2>1 DEF ProcessAitSectionLast, MayCreate, Step, pp
    <2>3. tt \in AitTable /\ tt.from = s
      BY TablesAssumption DEF AitTable
    <2> HIDE DEF tt
    <2>4. Good(pp) /\ pp.nextId = m.nextId
      BY <1>1, <1>2, KeepsGood
    <2>5. s = pp.currentService
      BY <1>1, <1>2, <2>2 DEF OneServicePerId, ForCurrentService, Manager
    <2>6. AtHome(pp)
      BY <1>1, <1>2, <1>3 DEF AtHome, Running, HbbtvApp
    <2>7. Stays(pp, nn)
      BY <2>2, <2>3, <2>4, <2>5, <2>6, AitCompletedStays
    <2> HIDE DEF nn
    <2> QED
      BY <1>3, <2>2, <2>7 DEF Stays, Running
  <1> QED
    BY <1>4, <1>5

LEMMA TimeoutStays ==
    ASSUME UInv, OnSelectedServiceAitTimeout
    PROVE  Stays(m, m')
  <1> DEFINE tt == [m EXCEPT !.aitTimer = FALSE]
             kk == KillRunningApp(tt, m.hbbtvAppId)
  <1>1. Good(m) /\ m \in Manager
    BY DEF UInv, IInv, Good
  <1>2. /\ tt \in Manager /\ SameSlots(m, tt) /\ tt.apps = m.apps /\ ~tt.aitTimer
        /\ tt.hbbtvAppId = m.hbbtvAppId
    <2>1. tt \in Manager
      BY <1>1 DEF Manager
    <2> QED
      BY <1>1, <2>1 DEF Manager, SameSlots
  <1>3. m' = kk
    BY DEF OnSelectedServiceAitTimeout, Step
  <1> HIDE DEF tt
  <1>4. Good(tt)
    BY <1>1, <1>2, SlotsFrame DEF Good
  <1>5. ~Running(kk, m.hbbtvAppId)
    BY <1>2, <1>4, KillKept
  <1> HIDE DEF kk
  <1> QED
    BY <1>3, <1>5 DEF Stays

LEMMA DestroyStays ==
    ASSUME UInv, NEW id, DestroyApplication(id)
    PROVE  Stays(m, m')
  <1> DEFINE kk == KillRunningApp(m, id)
             nn == OnPerformBroadcastAutostart(kk, parental)
  <1>1. Good(m) /\ m.nextId < MaxAppId
    BY DEF UInv, IInv, DestroyApplication, MayCreate
  <1>2. m' = OnRunningAppExited(kk, parental)
    BY DEF DestroyApplication, Step
  <1>3. Kept(m, kk) /\ Good(kk) /\ kk.nextId = m.nextId
    BY <1>1, KillKept, KillGood
  <1> HIDE DEF kk
  <1>4. Kept(kk, nn) /\ Good(nn)
    BY <1>1, <1>3, AutostartKept, AutostartGood
  <1>5. m' = nn \/ m' = kk
    BY <1>2 DEF OnRunningAppExited
  <1> HIDE DEF nn
  <1>6. Kept(m, nn)
    BY <1>1, <1>3, <1>4, KeptTransitive DEF Good
  <1> QED
    BY <1>1, <1>3, <1>5, <1>6, KeptStays

LEMMA SetStateStays ==
    ASSUME UInv, NEW id, NEW state \in {"FOREGROUND", "BACKGROUND"},
           SetState(id, state)
    PROVE  Stays(m, m')
  <1> DEFINE app == [m.apps[id] EXCEPT !.state = state]
             a == [m.apps EXCEPT ![id] = app]
             v == IF state = "BACKGROUND" THEN m.visible \ {id}
                  ELSE m.visible \cup {id}
             nn == [m EXCEPT !.apps = a, !.visible = v]
  <1>1. m \in Manager /\ Running(m, id)
    BY DEF UInv, IInv, Good, SetState
  <1>2. id \in AppIds /\ m.apps[id] \in App /\ m.apps \in AppMap
    BY <1>1, RunningType DEF Manager, AppMap
  <1>3. m' = m \/ m' = nn
    BY DEF SetState, Step
  <1>4. app.descFrom = m.apps[id].descFrom
    BY <1>2 DEF App
  <1> HIDE DEF app
  <1>5. \A x \in AppIds : a[x].descFrom = m.apps[x].descFrom
    BY <1>2, <1>4 DEF AppMap
  <1> HIDE DEF a, v
  <1>6. nn.apps = a
    BY <1>1 DEF Manager
  <1> HIDE DEF nn
  <1> QED
    BY <1>3, <1>5, <1>6 DEF Stays, Running

LEMMA PageChangedStays ==
    ASSUME UInv, NEW id, NEW origin \in Origins,
           OnApplicationPageChanged(id, origin)
    PROVE  Stays(m, m')
  <1> DEFINE app == [m.apps[id] EXCEPT !.loadedUrl = origin]
             a == [m.apps EXCEPT ![id] = app]
             nn == [m EXCEPT !.apps = a]
  <1>1. m \in Manager /\ Running(m, id) /\ m' = nn
    BY DEF UInv, IInv, Good, OnApplicationPageChanged, Step
  <1>2. id \in AppIds /\ m.apps[id] \in App /\ m.apps \in AppMap
    BY <1>1, RunningType DEF Manager, AppMap
  <1>3. app.descFrom = m.apps[id].descFrom
    BY <1>2 DEF App
  <1> HIDE DEF app
  <1>4. \A x \in AppIds : a[x].descFrom = m.apps[x].descFrom
    BY <1>2, <1>3 DEF AppMap
  <1> HIDE DEF a
  <1>5. nn.apps = a
    BY <1>1 DEF Manager
  <1> HIDE DEF nn
  <1> QED
    BY <1>1, <1>4, <1>5 DEF Stays, Running

LEMMA BroadcastStays ==
    ASSUME UInv,
           \/ OnBroadcastStopped
           \/ \E s \in Services : OnChannelChanged(s)
           \/ \E b \in BOOLEAN : OnNetworkAvailabilityChanged(b)
    PROVE  Stays(m, m')
  <1>1. m \in Manager
    BY DEF UInv, IInv, Good
  <1>2. \A x \in AppIds : m'.apps[x].descFrom = m.apps[x].descFrom
    <2>1. CASE OnBroadcastStopped
      BY <1>1, <2>1, BroadcastStoppedKept DEF OnBroadcastStopped, Step
    <2>2. ASSUME NEW s \in Services, OnChannelChanged(s)
          PROVE  m'.apps = m.apps
      <3> DEFINE cc == ClearAit(m)
      <3>1. cc \in Manager
        BY <1>1, ClearAitKeeps DEF Keeps
      <3>2. cc.apps = m.apps
        BY <1>1 DEF ClearAit, Manager
      <3>3. m' = [cc EXCEPT !.aitTimer = TRUE,
                            !.previousService = m.currentService,
                            !.currentService = s]
        BY <2>2 DEF OnChannelChanged, Step
      <3> HIDE DEF cc
      <3> QED
        BY <3>1, <3>2, <3>3 DEF Manager
    <2>3. ASSUME NEW b \in BOOLEAN, OnNetworkAvailabilityChanged(b)
          PROVE  m'.apps = m.apps
      BY <1>1, <2>3 DEF OnNetworkAvailabilityChanged, Step, Manager
    <2> QED
      BY <2>1, <2>2, <2>3
  <1> QED
    BY <1>2 DEF Stays, Running

LEMMA LoadFailedStays ==
    ASSUME UInv, NEW id, OnLoadApplicationFailed(id)
    PROVE  Stays(m, m')
  <1> DEFINE app == m.apps[id]
             i == FindApp(m.ait.apps, app.aitDesc.key)
             marks == m.ait # NoAit /\ app.aitDesc.key # 0
             u == AppSetTransportFailedToLoad(m.ait.apps, i, app.protocolId)
             marked == [m EXCEPT !.ait = [m.ait EXCEPT !.apps = u]]
             mm == IF marks THEN marked ELSE m
             kk == KillRunningApp(mm, id)
             nn == OnPerformBroadcastAutostart(kk, parental)
  <1>1. Good(m) /\ m \in Manager /\ m.nextId < MaxAppId /\ Running(m, id)
    BY DEF UInv, IInv, Good, OnLoadApplicationFailed, MayCreate
  <1>2. CASE marks /\ i = 0
    BY <1>2, SameStays DEF OnLoadApplicationFailed
  <1>3. CASE ~(marks /\ i = 0)
    <2>1. m' = nn
      BY <1>3 DEF OnLoadApplicationFailed, Step
    <2>2. Good(mm) /\ mm.nextId = m.nextId /\ mm.apps = m.apps
      <3>1. CASE marks
        <4>1. i \in DOMAIN m.ait.apps
          BY <1>1, <1>3, <3>1, AitType, FindAppType
        <4> HIDE DEF i
        <4>2. Good(marked) /\ marked.nextId = m.nextId
          BY <3>1, <4>1, MarkedUses
        <4>3. marked.apps = m.apps
          BY <1>1 DEF Manager
        <4> QED
          BY <3>1, <4>2, <4>3
      <3>2. CASE ~marks
        BY <1>1, <3>2
      <3> QED
        BY <3>1, <3>2
    <2> HIDE DEF mm
    <2>3. Kept(mm, kk) /\ Good(kk) /\ kk.nextId = mm.nextId
      BY <2>2, KillKept, KillGood
    <2> HIDE DEF kk
    <2>4. Kept(kk, nn) /\ Good(nn)
      BY <1>1, <2>2, <2>3, AutostartKept, AutostartGood
    <2> HIDE DEF nn
    <2>5. Kept(mm, nn)
      BY <2>2, <2>3, <2>4, KeptTransitive DEF Good
    <2>6. Kept(m, nn)
      BY <2>2, <2>5 DEF Kept, Running
    <2> QED
      BY <1>1, <2>1, <2>6, KeptStays
  <1> QED
    BY <1>2, <1>3

LEMMA AppCallsStay ==
    ASSUME UInv, AppCalls
    PROVE  Stays(m, m')
  <1>1. PICK id \in CallerIds :
            \/ \E op \in BOOLEAN :
                \/ CreateApplicationRefused(id, op)
                \/ \E key \in Keys : CreateApplicationFromAit(id, key, op)
                \/ \E o \in Origins : CreateApplicationFromPage(id, o, op)
                \/ \E t \in XmlAits : CreateApplicationFromXmlAit(id, t, op)
            \/ CreateApplicationUnknown(id)
            \/ DestroyApplication(id)
            \/ ShowApplication(id)
            \/ HideApplication(id)
    BY DEF AppCalls
  <1>2. ASSUME NEW op \in BOOLEAN, CreateApplicationRefused(id, op)
        PROVE  Stays(m, m')
    BY <1>2, SameStays DEF CreateApplicationRefused, Step
  <1>3. ASSUME NEW op \in BOOLEAN, NEW key \in Keys,
               CreateApplicationFromAit(id, key, op)
        PROVE  Stays(m, m')
    BY <1>3, CreateFromAitStays
  <1>4. ASSUME NEW op \in BOOLEAN, NEW o \in Origins,
               CreateApplicationFromPage(id, o, op)
        PROVE  Stays(m, m')
    BY <1>4, CreateFromPageStays
  <1>5. ASSUME NEW op \in BOOLEAN, NEW t \in XmlAits,
               CreateApplicationFromXmlAit(id, t, op)
        PROVE  Stays(m, m')
    <2>1. PICK callsBack \in BOOLEAN :
            m' = XmlAitApp(WithScheme(t, FALSE), callsBack)
      BY <1>5 DEF CreateApplicationFromXmlAit, CreateReturns
    <2>2. MayCreate
      BY <1>5 DEF CreateApplicationFromXmlAit
    <2> QED
      BY <2>1, <2>2, XmlAitAppStays
  <1>6. CASE CreateApplicationUnknown(id)
    BY <1>6, SameStays DEF CreateApplicationUnknown, CreateReturns
  <1>7. CASE DestroyApplication(id)
    BY <1>7, DestroyStays
  <1>8. CASE ShowApplication(id) \/ HideApplication(id)
    BY <1>8, SetStateStays DEF ShowApplication, HideApplication
  <1> QED
    BY <1>1, <1>2, <1>3, <1>4, <1>5, <1>6, <1>7, <1>8

LEMMA PlatformCallsStay ==
    ASSUME UInv, OneServicePerId, Instances = {}, PlatformCalls
    PROVE  Stays(m, m')
  <1>1. ASSUME NEW t \in XmlAits, NEW lloc \in BOOLEAN, ProcessXmlAit(t, lloc)
        PROVE  Stays(m, m')
    <2>1. PICK callsBack \in BOOLEAN :
            m' = XmlAitApp(WithScheme(t, lloc), callsBack)
      BY <1>1 DEF ProcessXmlAit, Step
    <2>2. MayCreate
      BY <1>1 DEF ProcessXmlAit
    <2> QED
      BY <2>1, <2>2, XmlAitAppStays
  <1>2. ASSUME NEW t \in XmlAits, NEW lloc \in BOOLEAN, ProcessDvbiXmlAit(t, lloc)
        PROVE  Stays(m, m')
    BY <1>2, DvbiStays
  <1>3. ASSUME NEW pid \in Pids, NEW s \in Services,
               \/ ProcessAitSectionPartial(pid, s)
               \/ \E t \in BroadcastAits[s] : ProcessAitSectionLast(pid, s, t)
        PROVE  Stays(m, m')
    BY <1>3, AitSectionStays
  <1>4. CASE RunTeletextApplication
    BY <1>4, TeletextStays
  <1>5. CASE \/ OnBroadcastStopped
             \/ \E s \in Services : OnChannelChanged(s)
             \/ \E b \in BOOLEAN : OnNetworkAvailabilityChanged(b)
    BY <1>5, BroadcastStays
  <1> QED
    BY <1>1, <1>2, <1>3, <1>4, <1>5 DEF PlatformCalls

LEMMA NextStays ==
    ASSUME UInv, OneServicePerId, Instances = {}, [Next]_vars
    PROVE  Stays(m, m')
  <1>1. CASE AppCalls
    BY <1>1, AppCallsStay
  <1>2. CASE BrowserCalls
    BY <1>2, LoadFailedStays, PageChangedStays DEF BrowserCalls
  <1>3. CASE PlatformCalls
    BY <1>3, PlatformCallsStay
  <1>4. CASE OnSelectedServiceAitTimeout
    BY <1>4, TimeoutStays
  <1>5. CASE ParentalControlChanged \/ UNCHANGED vars
    BY <1>5, SameStays DEF ParentalControlChanged, vars
  <1> QED
    BY <1>1, <1>2, <1>3, <1>4, <1>5 DEF Next

(* Where isInstanceInCurrentService answers no, as that of the RDK session
   always does, and no two services share an id, OnSelectedServiceAitReceived
   ends every application that was bound to the service left behind, and
   OnSelectedServiceAitUpdated reads tables of its own service alone.      *)
THEOREM BoundAppIsEnded ==
    ASSUME OneServicePerId, Instances = {}
    PROVE  Spec => BoundAppStaysInService
  <1> DEFINE Bound ==
        LET id == m.hbbtvAppId
        IN  Running(m, id) /\ Running(m', id) /\ m.apps[id].isBroadcast
             /\ m.apps[id].aitDesc.serviceBound
             /\ m.apps[id].descFrom # NoService
             /\ m'.apps[id].descFrom \notin {m.apps[id].descFrom, NoService}
             => <<m.apps[id].descFrom, m'.currentService>> \in Instances
  <1>1. UInv /\ [Next]_vars => [Bound]_vars
    <2> SUFFICES ASSUME UInv, [Next]_vars PROVE Bound
      OBVIOUS
    <2>1. Stays(m, m')
      BY NextStays
    <2> QED
      BY <2>1 DEF Stays
  <1>2. BoundAppStaysInService <=> [][Bound]_vars
    BY DEF BoundAppStaysInService
  <1> HIDE DEF Bound
  <1> QED
    BY <1>1, <1>2, UInvariance, PTL DEF Spec
=============================================================================
