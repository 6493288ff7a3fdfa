------------------------ MODULE VideoBroadcastProofs ------------------------
(***************************************************************************)
(* Theorems about VideoBroadcast: the types, that an active object hears   *)
(* the platform, that only one object is realized, that the maps of stream *)
(* event listeners agree with each other and with the bridge, and that an  *)
(* object's channel follows the platform's.                                *)
(***************************************************************************)
EXTENDS VideoBroadcast, SequenceTheorems, TLAPS

SharedType == [owner : Objects \cup {NoObject}, registered : SUBSET Ids, nextId : Nat \ {0}]
Event == [status : Statuses, channel : SomeChannel]
PlatformType == [tuned : SomeChannel, requested : SomeChannel, broadcastApp : BOOLEAN,
                 events : Seq(Event)]

\* The types of what a step on an object leaves alone or only moves on.
RestTypes ==
    /\ current \in [status : Statuses \cup {"none"}, channel : SomeChannel, begun : BOOLEAN]
    /\ xhrs \subseteq Objects \X Streams \X Listeners
    /\ platform \in PlatformType
    /\ page \in [linked : BOOLEAN, alike : BOOLEAN]
    /\ spent \in [calls : [Objects -> Nat], events : Nat]

\* An object's data in every state: before its creation it is deaf, and in a page
\* that is not linked it waits for no confirmation and is not active and deaf.
Sound(p, linked) ==
    /\ p.life = "unborn" => ~p.listening
    /\ ~linked => /\ ~p.waitingConfirm
                  /\ p.life = "live" /\ p.playState \in Active => p.listening

NonePresent(s) == \A i \in 1 .. Len(s) : ~s[i].present

\* The inductive invariant: an event only reaches objects that listen, and only
\* in a linked page a bind goes on to presenting.
IInv ==
    /\ TypeOK
    /\ \A o \in Objects : Sound(vb[o], page.linked)
    /\ \A o \in todo : vb[o].listening
    /\ ~page.linked => NonePresent(stack)
    /\ OneActiveObject

\* A step changes the data of object o and keeps what IInv says of the rest.
Effect(o) ==
    /\ vb' \in [Objects -> ObjectData]
    /\ \A x \in Objects \ {o} : vb'[x] = vb[x]
    /\ Sound(vb'[o], page.linked)
    /\ todo' \subseteq todo
    /\ o \in todo' => vb'[o].listening
    /\ shared' \in SharedType
    /\ stack' \in Seq(Waiting)
    /\ ~page.linked => NonePresent(stack')
    /\ ~page.linked /\ ~page.alike =>
          \A x \in Objects : vb'[x].playState # "unrealized" => shared'.owner = x

LEMMA EffectGood ==
    ASSUME IInv, NEW o \in Objects, Effect(o), page' = page, RestTypes'
    PROVE  IInv'
<1>1. TypeOK'
  BY DEF Effect, IInv, TypeOK, RestTypes, SharedType, PlatformType, Event
<1>2. \A x \in Objects : Sound(vb'[x], page'.linked)
  BY DEF Effect, IInv
<1>3. \A x \in todo' : vb'[x].listening
  BY DEF Effect, IInv, TypeOK
<1>4. OneActiveObject'
  BY DEF Effect, OneActiveObject
<1> QED BY <1>1, <1>2, <1>3, <1>4 DEF Effect, IInv

-----------------------------------------------------------------------------
(* The stack *)

LEMMA PushGood ==
    ASSUME stack \in Seq(Waiting), NEW k \in Waiting, Push(k)
    PROVE  /\ stack' \in Seq(Waiting)
           /\ NonePresent(stack) /\ ~k.present => NonePresent(stack')
BY DEF Push, NonePresent

LEMMA PopGood ==
    ASSUME stack \in Seq(Waiting), stack # <<>>
    PROVE  /\ stack[Len(stack)] \in Waiting
           /\ SubSeq(stack, 1, Len(stack) - 1) \in Seq(Waiting)
           /\ NonePresent(stack) => NonePresent(SubSeq(stack, 1, Len(stack) - 1))
           /\ NonePresent(stack) => ~stack[Len(stack)].present
BY DEF NonePresent

LEMMA WithoutEventsType ==
    ASSUME NEW p \in ObjectData
    PROVE  /\ WithoutStreamEvents(p) \in ObjectData
           /\ \A f \in {"life", "playState", "isBroadcastRelated", "isTransitioning",
                        "waitingConfirm", "channel", "listening"} :
                 WithoutStreamEvents(p)[f] = p[f]
BY DEF WithoutStreamEvents, ObjectData, NoIds, NoListeners

-----------------------------------------------------------------------------
(* The methods of an object                                                 *)

LEMMA UnrealizeGood ==
    ASSUME IInv, NEW o \in Objects, Unrealize(o)
    PROVE  /\ vb' \in [Objects -> ObjectData]
           /\ \A x \in Objects \ {o} : vb'[x] = vb[x]
           /\ \A f \in {"life", "isBroadcastRelated", "isTransitioning", "waitingConfirm",
                        "listening"} : vb'[o][f] = vb[o][f]
           /\ vb'[o].playState = "unrealized"
           /\ shared' \in SharedType /\ shared'.owner = shared.owner
<1> DEFINE p == WithoutStreamEvents(vb[o])
<1>1. vb \in [Objects -> ObjectData] /\ vb[o] \in ObjectData /\ shared \in SharedType
  BY DEF IInv, TypeOK, SharedType
<1>2. p \in ObjectData
      /\ \A f \in {"life", "isBroadcastRelated", "isTransitioning", "waitingConfirm",
                   "listening"} : p[f] = vb[o][f]
  BY <1>1, WithoutEventsType
<1>3. vb' = [vb EXCEPT ![o] = [p EXCEPT !.playState = "unrealized"]]
  BY DEF Unrealize
<1>4. [p EXCEPT !.playState = "unrealized"] \in ObjectData
  BY <1>2 DEF ObjectData, PlayStates, Active
<1>5. vb'[o] = [p EXCEPT !.playState = "unrealized"] /\ vb' \in [Objects -> ObjectData]
      /\ \A x \in Objects \ {o} : vb'[x] = vb[x]
  BY <1>1, <1>3, <1>4
<1>6. vb'[o].playState = "unrealized"
      /\ \A f \in {"life", "isBroadcastRelated", "isTransitioning", "waitingConfirm",
                   "listening"} : vb'[o][f] = p[f]
  BY <1>2, <1>5 DEF ObjectData
<1>7. shared' \in SharedType /\ shared'.owner = shared.owner
  BY <1>1 DEF Unrealize, SharedType
<1> QED BY <1>2, <1>5, <1>6, <1>7

\* What only the owner does leaves the others unrealized.
LEMMA OnlyOwner ==
    ASSUME IInv, NEW o \in Objects, CanAcquire(o), ~page.linked, ~page.alike,
           NEW x \in Objects \ {o}
    PROVE  vb[x].playState = "unrealized"
BY ConstantsAssumption DEF IInv, OneActiveObject, CanAcquire

LEMMA BindGood ==
    ASSUME IInv, NEW o \in Objects, Live(o), Bind(o), todo' = todo
    PROVE  Effect(o)
<1> DEFINE p == vb[o]
<1>1. /\ vb \in [Objects -> ObjectData] /\ p \in ObjectData /\ shared \in SharedType
      /\ stack \in Seq(Waiting) /\ platform.tuned \in SomeChannel
      /\ page.linked \in BOOLEAN /\ p.life = "live" /\ Sound(p, page.linked)
  BY DEF IInv, TypeOK, SharedType, Live
<1>2. CASE ~p.isBroadcastRelated \/ ~platform.broadcastApp \/ p.playState \in Active
  BY <1>1, <1>2 DEF Bind, Effect, IInv, OneActiveObject
<1>3. CASE /\ ~(~p.isBroadcastRelated \/ ~platform.broadcastApp \/ p.playState \in Active)
           /\ CanAcquire(o)
  <2> DEFINE k == BindDone(o, page.linked /\ p.playState = "stopped", platform.tuned)
  <2>1. /\ vb' = [vb EXCEPT ![o].listening = TRUE,
                            ![o].playState = IF p.playState = "unrealized" /\ page.linked
                                             THEN "presenting" ELSE "connecting"]
        /\ shared' = [shared EXCEPT !.owner = o]
        /\ Push(k)
    BY <1>3 DEF Bind
  <2>2. /\ vb' \in [Objects -> ObjectData] /\ vb'[o].listening
        /\ vb'[o].life = p.life /\ vb'[o].waitingConfirm = p.waitingConfirm
        /\ \A x \in Objects \ {o} : vb'[x] = vb[x]
    BY <1>1, <2>1 DEF ObjectData, PlayStates, Active
  <2>3. shared' \in SharedType /\ shared'.owner = o
    BY <1>1, <2>1 DEF SharedType
  <2>4. k \in Waiting /\ (~page.linked => ~k.present)
    BY <1>1 DEF BindDone, Waiting
  <2>5. stack' \in Seq(Waiting) /\ (~page.linked => NonePresent(stack'))
    BY <1>1, <2>1, <2>4, PushGood DEF IInv
  <2> QED BY <1>1, <1>3, <2>2, <2>3, <2>5, OnlyOwner DEF Effect, Sound
<1>4. CASE /\ ~(~p.isBroadcastRelated \/ ~platform.broadcastApp \/ p.playState \in Active)
           /\ ~CanAcquire(o)
  <2> DEFINE k == BindDone(o, FALSE, platform.tuned)
  <2>1. Push(k) /\ k \in Waiting /\ ~k.present
    BY <1>1, <1>4 DEF Bind, BindDone, Waiting
  <2>2. stack' \in Seq(Waiting) /\ (~page.linked => NonePresent(stack'))
    BY <1>1, <2>1, PushGood DEF IInv
  <2>3. CASE p.playState = "stopped"
    <3>1. UNCHANGED <<vb, shared>>
      BY <1>4, <2>3 DEF Bind
    <3> QED BY <1>1, <2>2, <3>1 DEF Effect, IInv, OneActiveObject
  <2>4. CASE p.playState # "stopped"
    <3>1. /\ vb' = [vb EXCEPT ![o] = WithoutStreamEvents(p)]
          /\ shared' = [shared EXCEPT !.registered = @ \ IdsOf(p)]
      BY <1>4, <2>4 DEF Bind
    <3>2. /\ vb' \in [Objects -> ObjectData] /\ vb'[o] = WithoutStreamEvents(p)
          /\ \A x \in Objects \ {o} : vb'[x] = vb[x]
      BY <1>1, <3>1, WithoutEventsType
    <3>3. \A f \in {"life", "playState", "waitingConfirm", "listening"} : vb'[o][f] = p[f]
      BY <1>1, <3>2, WithoutEventsType
    <3>4. shared' \in SharedType /\ shared'.owner = shared.owner
      BY <1>1, <3>1 DEF SharedType
    <3> QED BY <1>1, <2>2, <3>2, <3>3, <3>4 DEF Effect, IInv, OneActiveObject, Sound
  <2> QED BY <2>3, <2>4
<1> QED BY <1>2, <1>3, <1>4

LEMMA AppendEvent ==
    ASSUME platform \in PlatformType, NEW status \in Statuses, NEW c \in SomeChannel
    PROVE  Append(platform.events, [status |-> status, channel |-> c]) \in Seq(Event)
<1>1. [status |-> status, channel |-> c] \in Event
  BY DEF Event
<1>2. platform.events \in Seq(Event)
  BY DEF PlatformType
<1> QED BY <1>1, <1>2

LEMMA TunedType ==
    ASSUME platform \in PlatformType, NEW c \in Channels
    PROVE  Tuned(c) \in PlatformType
<1> DEFINE es == Append(platform.events, [status |-> "connecting", channel |-> c])
<1>1. es \in Seq(Event)
  BY AppendEvent DEF Statuses, SomeChannel
<1>2. Tuned(c) = [platform EXCEPT !.tuned = c, !.requested = NoChannel, !.events = es]
  BY DEF Tuned
<1> HIDE DEF es
<1> QED BY <1>1, <1>2 DEF PlatformType, SomeChannel

LEMMA ChangeChannelGood ==
    ASSUME IInv, NEW o \in Objects, Live(o), NEW c \in Channels, NEW quiet \in BOOLEAN,
           ChangeChannel(o, c, quiet)
    PROVE  Effect(o) /\ platform' \in PlatformType
<1> DEFINE p == vb[o]
           fresh == p.playState \notin Active
<1>1. /\ vb \in [Objects -> ObjectData] /\ p \in ObjectData /\ shared \in SharedType
      /\ stack \in Seq(Waiting) /\ platform \in PlatformType /\ todo \subseteq Objects
      /\ page.linked \in BOOLEAN /\ p.life = "live" /\ Sound(p, page.linked)
      /\ ~page.linked => NonePresent(stack)
      /\ o \in todo => p.listening
  BY DEF IInv, TypeOK, SharedType, PlatformType, Event, Live
<1>2. stack' = stack
  BY DEF ChangeChannel
<1>3. CASE fresh /\ ~CanAcquire(o)
  BY <1>1, <1>2, <1>3 DEF ChangeChannel, Effect, IInv, OneActiveObject
<1>4. ASSUME ~(fresh /\ ~CanAcquire(o)), NEW notInTs \in BOOLEAN,
             SetChannelFails(o, fresh, notInTs)
      PROVE  Effect(o) /\ platform' \in PlatformType
  <2>1. /\ vb' \in [Objects -> ObjectData]
        /\ \A x \in Objects \ {o} : vb'[x] = vb[x]
        /\ vb'[o].life = p.life /\ vb'[o].waitingConfirm = p.waitingConfirm
        /\ vb'[o].listening = (p.listening /\ ~fresh)
        /\ vb'[o].playState \in {p.playState, "unrealized"}
    BY <1>1, <1>4 DEF SetChannelFails, ObjectData, PlayStates, Active
  <2>2. shared' \in SharedType /\ (fresh => shared'.owner = o) /\ (~fresh => shared' = shared)
    BY <1>1, <1>4 DEF SetChannelFails, SharedType
  <2>3. todo' \subseteq todo /\ (o \in todo' => o \in todo /\ ~fresh)
    BY <1>4 DEF SetChannelFails
  <2>4. Sound(vb'[o], page.linked)
    BY <1>1, <2>1 DEF Sound, Active
  <2>5. ASSUME ~page.linked, ~page.alike, NEW x \in Objects, vb'[x].playState # "unrealized"
        PROVE  shared'.owner = x
    BY <1>1, <1>4, <2>1, <2>2, <2>5, OnlyOwner DEF IInv, OneActiveObject
  <2> QED BY <1>1, <1>2, <1>4, <2>1, <2>2, <2>3, <2>4, <2>5 DEF Effect, SetChannelFails
<1>5. ASSUME ~(fresh /\ ~CanAcquire(o)), SetChannelAccepted(o, fresh, quiet, c)
      PROVE  Effect(o) /\ platform' \in PlatformType
  <2> DEFINE q == [p EXCEPT !.isTransitioning = TRUE, !.listening = @ \/ fresh]
             r == WithoutStreamEvents(q)
             reads == p.isBroadcastRelated /\ ~quiet
             owner == IF fresh THEN o ELSE shared.owner
             changed == [r EXCEPT !.channel = IF reads THEN platform'.tuned ELSE @,
                                  !.playState = "connecting",
                                  !.waitingConfirm = page.linked]
  <2>1. platform' \in PlatformType
    <3>1. platform' \in Takes(c)
      BY <1>5 DEF SetChannelAccepted
    <3>2. [platform EXCEPT !.requested = c] \in PlatformType
      BY <1>1 DEF PlatformType, SomeChannel
    <3>3. Tuned(c) \in PlatformType
      BY <1>1, TunedType
    <3> QED BY <3>1, <3>2, <3>3 DEF Takes
  <2>2. q \in ObjectData /\ q.life = p.life /\ q.playState = p.playState
        /\ q.waitingConfirm = p.waitingConfirm /\ q.listening = (p.listening \/ fresh)
    BY <1>1 DEF ObjectData
  <2>3. r \in ObjectData /\ r.life = p.life /\ r.listening = q.listening
    BY <2>2, WithoutEventsType
  <2>4. /\ changed \in ObjectData /\ changed.life = p.life
        /\ changed.listening = q.listening
        /\ changed.waitingConfirm = page.linked
    <3> DEFINE ch == IF reads THEN platform'.tuned ELSE r.channel
               w == page.linked
    <3>1. ch \in SomeChannel /\ w \in BOOLEAN
      BY <1>1, <2>1, <2>3 DEF ObjectData, PlatformType
    <3>2. changed = [r EXCEPT !.channel = ch, !.playState = "connecting",
                              !.waitingConfirm = w]
      BY <2>3 DEF ObjectData
    <3> HIDE DEF r, ch, changed, q
    <3> SUFFICES /\ changed \in ObjectData /\ changed.life = r.life
                 /\ changed.listening = r.listening
                 /\ changed.waitingConfirm = w
      BY <2>3
    <3> HIDE DEF w
    <3> QED BY <2>3, <3>1, <3>2 DEF ObjectData, PlayStates, Active
  <2>5. vb' = [vb EXCEPT ![o] = q] \/ vb' = [vb EXCEPT ![o] = changed]
    BY <1>5 DEF SetChannelAccepted
  <2>6. /\ vb' \in [Objects -> ObjectData] /\ vb'[o] \in {q, changed}
        /\ \A x \in Objects \ {o} : vb'[x] = vb[x]
    BY <1>1, <2>2, <2>4, <2>5
  <2>7. /\ ~page.linked => q.listening
        /\ o \in todo => q.listening
        /\ vb'[o].life = p.life /\ vb'[o].listening = q.listening
        /\ ~page.linked => ~vb'[o].waitingConfirm
    <3>1. /\ ~page.linked => q.listening
          /\ o \in todo => q.listening
      BY <1>1, <2>2 DEF Sound
    <3>2. vb'[o].life = p.life /\ vb'[o].listening = q.listening
      BY <2>2, <2>4, <2>6
    <3>3. ~page.linked => ~q.waitingConfirm /\ ~changed.waitingConfirm
      BY <1>1, <2>2, <2>4 DEF Sound
    <3> QED BY <2>6, <3>1, <3>2, <3>3
  <2>8. shared' \in SharedType /\ shared'.owner = owner
    <3>1. \/ shared' = [shared EXCEPT !.owner = owner]
          \/ shared' = [shared EXCEPT !.owner = owner, !.registered = @ \ IdsOf(p)]
      BY <1>5 DEF SetChannelAccepted
    <3>2. owner \in Objects \cup {NoObject}
      BY <1>1 DEF SharedType
    <3> HIDE DEF owner
    <3>3. CASE shared' = [shared EXCEPT !.owner = owner]
      BY <1>1, <3>2, <3>3 DEF SharedType
    <3>4. CASE shared' = [shared EXCEPT !.owner = owner, !.registered = @ \ IdsOf(p)]
      BY <1>1, <3>2, <3>4 DEF SharedType
    <3> QED BY <3>1, <3>3, <3>4
  <2>9. todo' = todo
    BY <1>5 DEF SetChannelAccepted
  <2>10. Sound(vb'[o], page.linked)
    BY <1>1, <2>7 DEF Sound
  <2>11. ASSUME ~page.linked, ~page.alike, NEW x \in Objects, vb'[x].playState # "unrealized"
         PROVE  shared'.owner = x
    BY <1>1, <1>5, <2>6, <2>8, <2>11, OnlyOwner DEF IInv, OneActiveObject, Active
  <2> QED BY <1>1, <1>2, <2>1, <2>6, <2>7, <2>8, <2>9, <2>10, <2>11 DEF Effect
<1> QED BY <1>3, <1>4, <1>5 DEF ChangeChannel

LEMMA CycleChannelGood ==
    ASSUME IInv, NEW o \in Objects, CycleChannel(o)
    PROVE  Effect(o) /\ platform' \in PlatformType
<1>1. Live(o) /\ platform \in PlatformType
  BY DEF CycleChannel, Call, IInv, TypeOK, PlatformType, Event
<1>2. ASSUME NEW c \in Channels, ChangeChannel(o, c, FALSE)
      PROVE  Effect(o) /\ platform' \in PlatformType
  BY <1>1, <1>2, ChangeChannelGood
<1>3. ASSUME Unrealize(o), UNCHANGED <<stack, todo, platform>>
      PROVE  Effect(o) /\ platform' \in PlatformType
  <2>1. /\ vb' \in [Objects -> ObjectData]
        /\ \A x \in Objects \ {o} : vb'[x] = vb[x]
        /\ vb'[o].life = vb[o].life /\ vb'[o].waitingConfirm = vb[o].waitingConfirm
        /\ vb'[o].listening = vb[o].listening
        /\ vb'[o].playState = "unrealized"
        /\ shared' \in SharedType /\ shared'.owner = shared.owner
    BY <1>3, UnrealizeGood
  <2>2. Sound(vb'[o], page.linked)
    BY <2>1 DEF IInv, Sound, Active
  <2>3. ASSUME ~page.linked, ~page.alike, NEW x \in Objects, vb'[x].playState # "unrealized"
        PROVE  shared'.owner = x
    BY <2>1, <2>3 DEF IInv, OneActiveObject
  <2>4. o \in todo' => vb'[o].listening
    BY <1>3, <2>1 DEF IInv
  <2>5. stack' \in Seq(Waiting) /\ (~page.linked => NonePresent(stack')) /\ todo' \subseteq todo
    BY <1>3 DEF IInv, TypeOK
  <2> QED BY <1>1, <1>3, <2>1, <2>2, <2>3, <2>4, <2>5 DEF Effect
<1> QED BY <1>2, <1>3 DEF CycleChannel

LEMMA ReleaseGood ==
    ASSUME IInv, NEW o \in Objects, Live(o), ReleaseEffect(o),
           stack' \in Seq(Waiting), ~page.linked => NonePresent(stack')
    PROVE  Effect(o)
<1> DEFINE p == vb[o]
           r == WithoutStreamEvents(p)
           deaf == [p EXCEPT !.listening = FALSE]
           gone == [r EXCEPT !.listening = FALSE, !.playState = "unrealized",
                             !.channel = NoChannel]
<1>1. /\ vb \in [Objects -> ObjectData] /\ p \in ObjectData /\ shared \in SharedType
      /\ p.life = "live" /\ Sound(p, page.linked) /\ todo \subseteq Objects
      /\ o \in todo => p.listening
  BY DEF IInv, TypeOK, SharedType, Live
<1>2. CASE ~p.isBroadcastRelated
  BY <1>1, <1>2 DEF ReleaseEffect, Effect, IInv, OneActiveObject
<1>3. CASE p.isBroadcastRelated /\ p.playState = "unrealized"
  <2>1. /\ vb' = [vb EXCEPT ![o] = deaf]
        /\ shared' = shared /\ todo' = todo \ {o}
    BY <1>3 DEF ReleaseEffect
  <2>2. /\ deaf \in ObjectData /\ deaf.playState = "unrealized"
        /\ ~deaf.listening /\ deaf.waitingConfirm = p.waitingConfirm
    BY <1>1, <1>3 DEF ObjectData
  <2>3. /\ vb' \in [Objects -> ObjectData] /\ vb'[o] = deaf
        /\ \A x \in Objects \ {o} : vb'[x] = vb[x]
    BY <1>1, <2>1, <2>2
  <2> HIDE DEF deaf
  <2> QED BY <1>1, <2>1, <2>2, <2>3 DEF Effect, IInv, OneActiveObject, Sound, Active
<1>4. CASE p.isBroadcastRelated /\ p.playState # "unrealized"
  <2>1. /\ vb' = [vb EXCEPT ![o] = gone] /\ todo' = todo \ {o}
        /\ shared' = LET s == [shared EXCEPT !.registered = @ \ IdsOf(p)] IN
                     IF s.owner = o /\ CanSuspend THEN [s EXCEPT !.owner = NoObject] ELSE s
    BY <1>4 DEF ReleaseEffect
  <2>2. r \in ObjectData /\ r.life = p.life /\ r.waitingConfirm = p.waitingConfirm
    BY <1>1, WithoutEventsType
  <2>3. /\ gone \in ObjectData /\ gone.playState = "unrealized"
        /\ ~gone.listening /\ gone.waitingConfirm = p.waitingConfirm
    <3> HIDE DEF r
    <3> QED BY <2>2 DEF ObjectData, PlayStates, SomeChannel
  <2> HIDE DEF gone
  <2>4. /\ vb' \in [Objects -> ObjectData] /\ vb'[o] = gone
        /\ \A x \in Objects \ {o} : vb'[x] = vb[x]
    BY <1>1, <2>1, <2>3
  <2>5. shared' \in SharedType /\ shared'.owner \in {shared.owner, NoObject}
        /\ (shared'.owner # shared.owner => shared.owner = o)
    BY <1>1, <2>1 DEF SharedType
  <2>6. ASSUME ~page.linked, ~page.alike, NEW x \in Objects, vb'[x].playState # "unrealized"
        PROVE  shared'.owner = x
    BY <1>1, <2>3, <2>4, <2>5, <2>6 DEF IInv, OneActiveObject
  <2>7. Sound(vb'[o], page.linked)
    BY <1>1, <2>3, <2>4 DEF Sound, Active
  <2> QED BY <2>1, <2>4, <2>5, <2>6, <2>7 DEF Effect
<1> QED BY <1>2, <1>3, <1>4

LEMMA StopGood ==
    ASSUME IInv, NEW o \in Objects, Stop(o)
    PROVE  Effect(o)
<1> DEFINE q == [vb[o] EXCEPT !.playState = "stopped"]
<1>1. /\ vb \in [Objects -> ObjectData] /\ vb[o] \in ObjectData
      /\ vb[o].playState \in Active /\ vb[o].life = "live" /\ Sound(vb[o], page.linked)
      /\ shared' = shared /\ stack' = stack /\ todo' = todo
  BY DEF IInv, TypeOK, Stop, Call, Live
<1>2. q \in ObjectData /\ q.life = vb[o].life /\ q.playState = "stopped"
      /\ q.listening = vb[o].listening /\ q.waitingConfirm = vb[o].waitingConfirm
  BY <1>1 DEF ObjectData, PlayStates
<1>3. vb' = [vb EXCEPT ![o] = q]
  BY DEF Stop
<1>4. /\ vb' \in [Objects -> ObjectData] /\ vb'[o] = q
      /\ \A x \in Objects \ {o} : vb'[x] = vb[x]
  BY <1>1, <1>2, <1>3
<1> HIDE DEF q
<1> QED BY <1>1, <1>2, <1>4 DEF Effect, IInv, TypeOK, OneActiveObject, Sound, SharedType, Active

-----------------------------------------------------------------------------
(* Stream event listeners                                                   *)

Kept == {"life", "playState", "waitingConfirm", "listening", "channel"}

LEMMA EventsOnly ==
    ASSUME IInv, vb' \in [Objects -> ObjectData],
           \A x \in Objects : \A f \in Kept : vb'[x][f] = vb[x][f],
           shared' \in SharedType, shared'.owner = shared.owner,
           UNCHANGED <<stack, todo, page>>, RestTypes'
    PROVE  IInv'
<1>1. TypeOK'
  BY DEF IInv, TypeOK, RestTypes, SharedType, PlatformType, Event
<1>2. \A x \in Objects : /\ vb'[x].life = vb[x].life
                         /\ vb'[x].playState = vb[x].playState
                         /\ vb'[x].waitingConfirm = vb[x].waitingConfirm
                         /\ vb'[x].listening = vb[x].listening
  BY DEF Kept
<1>3. \A x \in Objects : Sound(vb'[x], page'.linked)
  BY <1>2 DEF IInv, Sound
<1>4. \A x \in todo' : vb'[x].listening
  BY <1>2 DEF IInv, TypeOK
<1>5. ~page'.linked => NonePresent(stack')
  BY DEF IInv
<1>6. OneActiveObject'
  BY <1>2 DEF IInv, OneActiveObject
<1> QED BY <1>1, <1>3, <1>4, <1>5, <1>6 DEF IInv

LEMMA RegisterGood ==
    ASSUME IInv, NEW o \in Objects, NEW s \in Streams, NEW l \in Listeners, Register(o, s, l)
    PROVE  /\ vb' \in [Objects -> ObjectData]
           /\ \A x \in Objects : \A f \in Kept : vb'[x][f] = vb[x][f]
           /\ shared' \in SharedType /\ shared'.owner = shared.owner
<1> DEFINE p == vb[o]
           more(i) == [p EXCEPT !.listenerMap[i] = @ \cup {l}]
           new(i) == [p EXCEPT !.idMap[s] = i, !.listenerMap[i] = {l}]
<1>1. vb \in [Objects -> ObjectData] /\ p \in ObjectData /\ shared \in SharedType
  BY DEF IInv, TypeOK, SharedType
<1>2. \A i \in Ids : /\ more(i) \in ObjectData
                     /\ \A f \in Kept : more(i)[f] = p[f]
  BY <1>1 DEF ObjectData, Kept
<1>3. \A i \in Ids : /\ new(i) \in ObjectData
                     /\ \A f \in Kept : new(i)[f] = p[f]
  BY <1>1 DEF ObjectData, Kept
<1>4. p.idMap[s] \in Ids \cup {0}
  BY <1>1 DEF ObjectData
<1>5. CASE UNCHANGED <<vb, shared>>
  BY <1>1, <1>5
<1>6. CASE p.idMap[s] # 0 /\ vb' = [vb EXCEPT ![o] = more(p.idMap[s])] /\ UNCHANGED shared
  <2> HIDE DEF more
  <2> QED BY <1>1, <1>2, <1>4, <1>6
<1>7. CASE /\ shared.nextId <= MaxIds
           /\ vb' = [vb EXCEPT ![o] = new(shared.nextId)]
           /\ shared' = [shared EXCEPT !.registered = @ \cup {shared.nextId}, !.nextId = @ + 1]
  <2>1. shared.nextId \in Ids
    BY <1>1, <1>7, ConstantsAssumption DEF SharedType, Ids
  <2>2. shared' \in SharedType /\ shared'.owner = shared.owner
    <3> DEFINE ids == shared.registered \cup {shared.nextId}
               n == shared.nextId + 1
    <3>1. ids \in SUBSET Ids /\ n \in Nat \ {0} /\ shared \in SharedType
      BY <1>1, <2>1 DEF SharedType
    <3>2. shared' = [shared EXCEPT !.registered = ids, !.nextId = n]
      BY <1>7
    <3> HIDE DEF ids, n
    <3> QED BY <3>1, <3>2 DEF SharedType
  <2> HIDE DEF new
  <2> QED BY <1>1, <1>3, <1>7, <2>1, <2>2
<1> QED BY <1>5, <1>6, <1>7 DEF Register

LEMMA RemoveGood ==
    ASSUME IInv, NEW o \in Objects, NEW s \in Streams, NEW l \in Listeners,
           RemoveStreamEventListener(o, s, l)
    PROVE  /\ vb' \in [Objects -> ObjectData]
           /\ \A x \in Objects : \A f \in Kept : vb'[x][f] = vb[x][f]
           /\ shared' \in SharedType /\ shared'.owner = shared.owner
<1> DEFINE p == vb[o]
           id == p.idMap[s]
           left == p.listenerMap[id] \ {l}
           q == [p EXCEPT !.listenerMap[id] = left, !.idMap[s] = IF left = {} THEN 0 ELSE @]
<1>1. vb \in [Objects -> ObjectData] /\ p \in ObjectData /\ shared \in SharedType
  BY DEF IInv, TypeOK, SharedType
<1>2. id \in Ids
  BY <1>1 DEF RemoveStreamEventListener, ObjectData
<1>3. q \in ObjectData /\ \A f \in Kept : q[f] = p[f]
  BY <1>1, <1>2 DEF ObjectData, Kept
<1>4. vb' = [vb EXCEPT ![o] = q]
  BY DEF RemoveStreamEventListener
<1>5. shared' \in SharedType /\ shared'.owner = shared.owner
  BY <1>1 DEF RemoveStreamEventListener, SharedType
<1> HIDE DEF q
<1> QED BY <1>1, <1>3, <1>4, <1>5

LEMMA StreamEventErrorGood ==
    ASSUME IInv, NEW id \in Ids, StreamEventError(id)
    PROVE  /\ vb' \in [Objects -> ObjectData]
           /\ \A x \in Objects : \A f \in Kept : vb'[x][f] = vb[x][f]
           /\ shared' \in SharedType /\ shared'.owner = shared.owner
<1> DEFINE q(o) == [vb[o] EXCEPT !.listenerMap[id] = {},
                                 !.idMap = [s \in Streams |-> IF @[s] = id THEN 0 ELSE @[s]]]
<1>1. vb \in [Objects -> ObjectData] /\ shared \in SharedType
  BY DEF IInv, TypeOK, SharedType
<1>2. \A o \in Objects : q(o) \in ObjectData /\ \A f \in Kept : q(o)[f] = vb[o][f]
  <2> SUFFICES ASSUME NEW o \in Objects
               PROVE  q(o) \in ObjectData /\ \A f \in Kept : q(o)[f] = vb[o][f]
    OBVIOUS
  <2> DEFINE ids == [s \in Streams |-> IF vb[o].idMap[s] = id THEN 0 ELSE vb[o].idMap[s]]
  <2>1. vb[o] \in ObjectData /\ ids \in [Streams -> Ids \cup {0}]
    BY <1>1 DEF ObjectData
  <2> DEFINE r == [vb[o] EXCEPT !.listenerMap[id] = {}, !.idMap = ids]
  <2>2. q(o) = r
    BY <2>1 DEF ObjectData
  <2> HIDE DEF q, ids
  <2>3. r \in ObjectData
    BY <2>1 DEF ObjectData
  <2>4. \A f \in Kept : r[f] = vb[o][f]
    BY <2>1 DEF ObjectData, Kept
  <2> HIDE DEF r
  <2> QED BY <2>2, <2>3, <2>4
<1>3. vb' = [o \in Objects |->
                IF vb[o].listening /\ vb[o].isBroadcastRelated /\ vb[o].listenerMap[id] # {}
                THEN q(o) ELSE vb[o]]
  BY DEF StreamEventError
<1>4. shared' \in SharedType /\ shared'.owner = shared.owner
  BY <1>1 DEF StreamEventError, SharedType
<1> HIDE DEF q
<1> QED BY <1>1, <1>2, <1>3, <1>4

-----------------------------------------------------------------------------
(* The handlers                                                             *)

\* What a handler does to its object: it never makes an object listen or stop
\* listening, and revives an unrealized one only in a linked page.
Handled(o) ==
    /\ vb' \in [Objects -> ObjectData]
    /\ \A x \in Objects \ {o} : vb'[x] = vb[x]
    /\ vb'[o].life = vb[o].life /\ vb'[o].listening = vb[o].listening
    /\ ~page.linked => ~vb'[o].waitingConfirm
    /\ vb'[o].playState # "unrealized" => vb[o].playState # "unrealized" \/ page.linked
    /\ shared' \in SharedType /\ shared'.owner = shared.owner
    /\ stack' \in Seq(Waiting)
    /\ ~page.linked => NonePresent(stack')

LEMMA HandledGood ==
    ASSUME IInv, NEW o \in Objects, Handled(o), todo' \subseteq todo,
           vb[o].listening \/ vb'[o].playState = vb[o].playState
    PROVE  Effect(o)
<1>0. o \in todo' => vb'[o].listening
  BY DEF Handled, IInv
<1>1. Sound(vb'[o], page.linked)
  BY DEF Handled, IInv, Sound
<1>2. ASSUME ~page.linked, ~page.alike, NEW x \in Objects, vb'[x].playState # "unrealized"
      PROVE  shared'.owner = x
  BY <1>2 DEF Handled, IInv, OneActiveObject
<1> QED BY <1>0, <1>1, <1>2 DEF Handled, Effect

LEMMA ConfirmDoneGood ==
    ASSUME IInv, NEW o \in Objects, ConfirmDone(o)
    PROVE  stack' \in Seq(Waiting) /\ (~page.linked => NonePresent(stack'))
<1> DEFINE k == [what |-> "confirm", obj |-> o, inPage |-> TRUE,
                 present |-> FALSE, channel |-> NoChannel]
<1>1. k \in Waiting /\ ~k.present /\ stack \in Seq(Waiting)
      /\ (~page.linked => NonePresent(stack))
  BY DEF Waiting, SomeChannel, IInv, TypeOK
<1>2. CASE Push(k)
  BY <1>1, <1>2, PushGood
<1>3. CASE UNCHANGED stack
  BY <1>1, <1>3
<1> QED BY <1>2, <1>3 DEF ConfirmDone

LEMMA DataChanges ==
    ASSUME IInv, NEW o \in Objects, NEW q \in ObjectData,
           vb' = [vb EXCEPT ![o] = q],
           q.life = vb[o].life, q.listening = vb[o].listening,
           q.waitingConfirm => vb[o].waitingConfirm,
           q.playState # "unrealized" => vb[o].playState # "unrealized" \/ page.linked,
           UNCHANGED shared,
           stack' \in Seq(Waiting), ~page.linked => NonePresent(stack')
    PROVE  Handled(o)
<1>1. vb \in [Objects -> ObjectData] /\ shared \in SharedType
      /\ (~page.linked => ~vb[o].waitingConfirm)
  BY DEF IInv, TypeOK, SharedType, Sound
<1>2. vb' \in [Objects -> ObjectData] /\ vb'[o] = q /\ \A x \in Objects \ {o} : vb'[x] = vb[x]
  BY <1>1
<1> QED BY <1>1, <1>2 DEF Handled

LEMMA NothingChanges ==
    ASSUME IInv, NEW o \in Objects, UNCHANGED <<vb, shared>>,
           stack' \in Seq(Waiting), ~page.linked => NonePresent(stack')
    PROVE  Handled(o)
BY DEF Handled, IInv, TypeOK, Sound, SharedType

LEMMA UnrealizeHandled ==
    ASSUME IInv, NEW o \in Objects, Unrealize(o),
           stack' \in Seq(Waiting), ~page.linked => NonePresent(stack')
    PROVE  Handled(o)
<1>1. ~page.linked => ~vb[o].waitingConfirm
  BY DEF IInv, Sound
<1> QED BY <1>1, UnrealizeGood DEF Handled

LEMMA SameStack ==
    ASSUME IInv, UNCHANGED stack
    PROVE  stack' \in Seq(Waiting) /\ (~page.linked => NonePresent(stack'))
BY DEF IInv, TypeOK

LEMMA WhileConnectingGood ==
    ASSUME IInv, NEW o \in Objects, NEW e, vb[o].playState = "connecting", WhileConnecting(o, e)
    PROVE  Handled(o)
<1> DEFINE p == vb[o]
           c == IF IsStale(p, e) THEN platform.tuned ELSE p.channel
<1>1. p \in ObjectData /\ c \in SomeChannel
  BY DEF IInv, TypeOK, ObjectData
<1>2. CASE vb' = [vb EXCEPT ![o].playState = "presenting"] /\ ConfirmDone(o) /\ UNCHANGED shared
  <2> DEFINE q == [p EXCEPT !.playState = "presenting"]
  <2>1. vb' = [vb EXCEPT ![o] = q]
    BY <1>2
  <2>2. /\ q \in ObjectData /\ q.life = p.life /\ q.listening = p.listening
        /\ q.waitingConfirm = p.waitingConfirm
    BY <1>1 DEF ObjectData, PlayStates, Active
  <2> HIDE DEF q
  <2> QED BY <1>2, <2>1, <2>2, ConfirmDoneGood, DataChanges
<1>3. CASE UNCHANGED <<vb, shared, stack>>
  BY <1>3, NothingChanges, SameStack
<1>4. CASE /\ vb' = [vb EXCEPT ![o].channel = c, ![o].waitingConfirm = FALSE]
           /\ UNCHANGED stack \/ ConfirmDone(o)
           /\ UNCHANGED shared
  <2> HIDE DEF c
  <2> DEFINE q == [p EXCEPT !.channel = c, !.waitingConfirm = FALSE]
  <2>1. vb' = [vb EXCEPT ![o] = q]
    BY <1>4
  <2>2. /\ q \in ObjectData /\ q.life = p.life /\ q.listening = p.listening
        /\ ~q.waitingConfirm
    BY <1>1 DEF ObjectData
  <2>3. stack' \in Seq(Waiting) /\ (~page.linked => NonePresent(stack'))
    BY <1>4, ConfirmDoneGood, SameStack
  <2> HIDE DEF q
  <2> QED BY <1>4, <2>1, <2>2, <2>3, DataChanges
<1>5. CASE Unrealize(o) /\ ConfirmDone(o)
  BY <1>5, UnrealizeHandled, ConfirmDoneGood
<1>6. CASE ConfirmDone(o) /\ UNCHANGED <<vb, shared>>
  BY <1>6, NothingChanges, ConfirmDoneGood
<1> QED BY <1>2, <1>3, <1>4, <1>5, <1>6 DEF WhileConnecting

LEMMA WhilePresentingGood ==
    ASSUME IInv, NEW o \in Objects, NEW e, vb[o].playState = "presenting", WhilePresenting(o, e)
    PROVE  Handled(o)
<1> DEFINE p == vb[o]
           renew == e.status = "connecting" /\ IsStale(p, e) /\ HasChannelForEvent
           c == IF renew THEN platform.tuned ELSE p.channel
<1>1. p \in ObjectData /\ c \in SomeChannel
  BY DEF IInv, TypeOK, ObjectData
<1>2. stack' \in Seq(Waiting) /\ (~page.linked => NonePresent(stack'))
  BY SameStack DEF WhilePresenting
<1>3. CASE Unrealize(o)
  BY <1>2, <1>3, UnrealizeHandled
<1>4. CASE vb' = [vb EXCEPT ![o].playState = "connecting", ![o].channel = c] /\ UNCHANGED shared
  <2> HIDE DEF c
  <2> DEFINE q == [p EXCEPT !.playState = "connecting", !.channel = c]
  <2>1. vb' = [vb EXCEPT ![o] = q]
    BY <1>1, <1>4 DEF ObjectData
  <2>2. /\ q \in ObjectData /\ q.life = p.life /\ q.listening = p.listening
        /\ q.waitingConfirm = p.waitingConfirm
    BY <1>1 DEF ObjectData, PlayStates, Active
  <2> HIDE DEF q
  <2> QED BY <1>2, <1>4, <2>1, <2>2, DataChanges
<1> QED BY <1>3, <1>4 DEF WhilePresenting

LEMMA WhileStoppedGood ==
    ASSUME IInv, NEW o \in Objects, NEW e, vb[o].playState = "stopped", WhileStopped(o, e)
    PROVE  Handled(o)
<1> DEFINE p == vb[o]
           c == platform.tuned
<1>1. p \in ObjectData /\ c \in SomeChannel
  BY DEF IInv, TypeOK
<1>2. stack' \in Seq(Waiting) /\ (~page.linked => NonePresent(stack'))
  BY SameStack DEF WhileStopped
<1>3. CASE Unrealize(o)
  BY <1>2, <1>3, UnrealizeHandled
<1>4. CASE vb' = [vb EXCEPT ![o].channel = c, ![o].playState = "connecting"] /\ UNCHANGED shared
  <2> DEFINE q == [p EXCEPT !.playState = "connecting", !.channel = c]
  <2>1. vb' = [vb EXCEPT ![o] = q]
    BY <1>1, <1>4 DEF ObjectData
  <2>2. /\ q \in ObjectData /\ q.life = p.life /\ q.listening = p.listening
        /\ q.waitingConfirm = p.waitingConfirm
    BY <1>1 DEF ObjectData, PlayStates, Active
  <2> HIDE DEF q
  <2> QED BY <1>2, <1>4, <2>1, <2>2, DataChanges
<1>5. CASE UNCHANGED <<vb, shared>>
  BY <1>2, <1>5, NothingChanges
<1> QED BY <1>3, <1>4, <1>5 DEF WhileStopped

LEMMA ParentalRatingGood ==
    ASSUME IInv, NEW o \in Objects, OnParentalRatingChange(o)
    PROVE  Handled(o)
<1>1. vb[o] \in ObjectData /\ (vb[o].waitingConfirm => page.linked)
  BY DEF IInv, TypeOK, Sound
<1>2. stack' \in Seq(Waiting) /\ (~page.linked => NonePresent(stack'))
  BY SameStack DEF OnParentalRatingChange
<1>3. CASE vb[o].waitingConfirm
  <2> DEFINE q == [vb[o] EXCEPT !.playState = "connecting"]
  <2>1. vb' = [vb EXCEPT ![o] = q] /\ UNCHANGED shared
    BY <1>3 DEF OnParentalRatingChange
  <2>2. /\ q \in ObjectData /\ q.life = vb[o].life /\ q.listening = vb[o].listening
        /\ q.waitingConfirm = vb[o].waitingConfirm
    BY <1>1 DEF ObjectData, PlayStates, Active
  <2> HIDE DEF q
  <2> QED BY <1>1, <1>2, <1>3, <2>1, <2>2, DataChanges
<1>4. CASE ~vb[o].waitingConfirm
  BY <1>2, <1>4, NothingChanges DEF OnParentalRatingChange
<1> QED BY <1>3, <1>4

LEMMA TransitionedGood ==
    ASSUME IInv, NEW o \in Objects, OnTransitionedToBroadcastRelated(o)
    PROVE  Handled(o)
<1> DEFINE p == vb[o]
           q == [p EXCEPT !.isTransitioning = FALSE, !.isBroadcastRelated = TRUE,
                          !.channel = IF platform.broadcastApp THEN platform.tuned ELSE @]
<1>1. /\ vb \in [Objects -> ObjectData] /\ p \in ObjectData /\ shared \in SharedType
      /\ platform.tuned \in SomeChannel /\ (~page.linked => ~p.waitingConfirm)
  BY DEF IInv, TypeOK, Sound, SharedType
<1>2. /\ stack' \in Seq(Waiting) /\ (~page.linked => NonePresent(stack'))
      /\ UNCHANGED shared
  BY SameStack DEF OnTransitionedToBroadcastRelated
<1>3. CASE ~p.isTransitioning
  BY <1>2, <1>3, NothingChanges DEF OnTransitionedToBroadcastRelated
<1>4. CASE p.isTransitioning
  <2>1. vb' = [vb EXCEPT ![o] = q]
    BY <1>4 DEF OnTransitionedToBroadcastRelated
  <2>2. /\ q \in ObjectData /\ q.life = p.life /\ q.listening = p.listening
        /\ q.waitingConfirm = p.waitingConfirm /\ q.playState = p.playState
    BY <1>1 DEF ObjectData
  <2> HIDE DEF q
  <2> QED BY <1>1, <1>2, <2>1, <2>2, DataChanges
<1> QED BY <1>3, <1>4

-----------------------------------------------------------------------------
(* The steps                                                                *)

LEMMA Types ==
    ASSUME IInv
    PROVE  /\ vb \in [Objects -> ObjectData]
           /\ shared \in SharedType
           /\ stack \in Seq(Waiting)
           /\ todo \subseteq Objects
           /\ RestTypes
           /\ \A o \in Objects : Sound(vb[o], page.linked)
           /\ \A o \in todo : vb[o].listening
           /\ ~page.linked => NonePresent(stack)
BY DEF IInv, TypeOK, RestTypes, SharedType, PlatformType, Event

LEMMA SpentType ==
    ASSUME IInv, NEW o \in Objects, Call(o)
    PROVE  spent' \in [calls : [Objects -> Nat], events : Nat]
<1>1. RestTypes
  BY Types
<1> QED BY <1>1 DEF Call, RestTypes

LEMMA CallRest ==
    ASSUME IInv, NEW o \in Objects, Call(o), UNCHANGED <<current, xhrs, page>>,
           platform' \in PlatformType
    PROVE  RestTypes' /\ Live(o)
<1>1. RestTypes
  BY Types
<1>2. spent' \in [calls : [Objects -> Nat], events : Nat]
  BY <1>1 DEF Call, RestTypes
<1> QED BY <1>1, <1>2 DEF Call, RestTypes

LEMMA HandleGood ==
    ASSUME IInv, NEW o \in Objects, Handle(o)
    PROVE  IInv'
<1>1. Handled(o)
  <2>1. CASE OnParentalRatingChange(o)
    BY <2>1, ParentalRatingGood
  <2>2. CASE OnTransitionedToBroadcastRelated(o)
    BY <2>2, TransitionedGood
  <2>3. CASE OnChannelStatusChanged(o, current)
    <3>1. CASE vb[o].playState = "unrealized" /\ UNCHANGED <<vb, shared, stack>>
      BY <3>1, NothingChanges, SameStack
    <3> QED BY <2>3, <3>1, WhileConnectingGood, WhilePresentingGood, WhileStoppedGood
               DEF OnChannelStatusChanged
  <2> QED BY <2>1, <2>2, <2>3 DEF Handle
<1>2. todo' \subseteq todo /\ page' = page /\ vb[o].listening
  BY Types DEF Handle
<1>3. Effect(o)
  BY <1>1, <1>2, HandledGood
<1>4. RestTypes'
  BY Types DEF Handle, RestTypes, NoEvent, SomeChannel
<1> QED BY <1>2, <1>3, <1>4, EffectGood

LEMMA BindReturnsGood ==
    ASSUME IInv, stack # <<>>, BindReturns(stack[Len(stack)]),
           UNCHANGED <<todo, current, xhrs, page, spent>>
    PROVE  IInv'
<1> DEFINE k == stack[Len(stack)]
           o == k.obj
           p == vb[o]
<1>1. k \in Waiting /\ (~page.linked => ~k.present)
  BY Types, PopGood
<1>2. o \in Objects /\ p \in ObjectData /\ k.channel \in SomeChannel
  BY <1>1, Types DEF Waiting
<1>3. RestTypes'
  BY Types DEF BindReturns, RestTypes
<1>4. CASE k.present
  <2> DEFINE q == [p EXCEPT !.playState = "presenting"]
  <2>1. /\ vb' = [vb EXCEPT ![o] = q] /\ UNCHANGED shared
        /\ stack' = [stack EXCEPT ![Len(stack)].present = FALSE]
    BY <1>4 DEF BindReturns
  <2>2. q \in ObjectData /\ q.life = p.life /\ q.listening = p.listening
    BY <1>2 DEF ObjectData, PlayStates, Active
  <2>3. page.linked
    BY <1>1, <1>4, Types DEF RestTypes
  <2>4. stack' \in Seq(Waiting)
    <3>1. [k EXCEPT !.present = FALSE] \in Waiting
      BY <1>1 DEF Waiting
    <3>2. stack' = [stack EXCEPT ![Len(stack)] = [k EXCEPT !.present = FALSE]]
      BY <2>1
    <3> QED BY <3>1, <3>2, Types
  <2>5. vb' \in [Objects -> ObjectData] /\ vb'[o] = q /\ \A x \in Objects \ {o} : vb'[x] = vb[x]
    BY <1>2, <2>1, <2>2, Types
  <2> HIDE DEF q
  <2>6. Effect(o)
    BY <1>2, <2>1, <2>2, <2>3, <2>4, <2>5, Types DEF Effect, Sound
  <2> QED BY <1>2, <1>3, <2>6, EffectGood
<1>5. CASE ~k.present
  <2> DEFINE q == [p EXCEPT !.channel = k.channel]
  <2>1. /\ vb' = [vb EXCEPT ![o] = q] /\ UNCHANGED shared
        /\ stack' = SubSeq(stack, 1, Len(stack) - 1)
    BY <1>5 DEF BindReturns
  <2>2. /\ q \in ObjectData /\ q.life = p.life /\ q.listening = p.listening
        /\ q.waitingConfirm = p.waitingConfirm /\ q.playState = p.playState
    BY <1>2 DEF ObjectData
  <2>3. stack' \in Seq(Waiting) /\ (~page.linked => NonePresent(stack'))
    BY <2>1, Types, PopGood
  <2> HIDE DEF q
  <2>4. Handled(o)
    BY <1>2, <2>1, <2>2, <2>3, DataChanges
  <2>5. vb'[o].playState = p.playState
    BY <1>2, <2>1, <2>2, Types
  <2>6. Effect(o)
    BY <1>2, <2>4, <2>5, HandledGood
  <2> QED BY <1>2, <1>3, <2>6, EffectGood
<1> QED BY <1>4, <1>5

LEMMA ConfirmReturnsGood ==
    ASSUME IInv, stack # <<>>, ConfirmReturns(stack[Len(stack)]),
           UNCHANGED <<todo, current, xhrs, page, spent>>
    PROVE  IInv'
<1> DEFINE k == stack[Len(stack)]
           o == k.obj
           q == [vb[o] EXCEPT !.waitingConfirm = FALSE]
<1>1. o \in Objects /\ vb[o] \in ObjectData
  BY Types, PopGood DEF Waiting
<1>2. RestTypes'
  BY Types DEF ConfirmReturns, RestTypes
<1>3. /\ vb' = [vb EXCEPT ![o] = q] /\ UNCHANGED shared
      /\ stack' = SubSeq(stack, 1, Len(stack) - 1)
  BY DEF ConfirmReturns
<1>4. /\ q \in ObjectData /\ q.life = vb[o].life /\ q.listening = vb[o].listening
      /\ ~q.waitingConfirm /\ q.playState = vb[o].playState
  BY <1>1 DEF ObjectData
<1>5. stack' \in Seq(Waiting) /\ (~page.linked => NonePresent(stack'))
  BY <1>3, Types, PopGood
<1> HIDE DEF q
<1>6. Handled(o)
  BY <1>1, <1>3, <1>4, <1>5, DataChanges
<1>7. vb'[o].playState = vb[o].playState
  BY <1>1, <1>3, <1>4, Types
<1>8. Effect(o)
  BY <1>1, <1>6, <1>7, HandledGood
<1> QED BY <1>1, <1>2, <1>8, EffectGood

LEMMA SetChannelNullReturnsGood ==
    ASSUME IInv, stack # <<>>, SetChannelNullReturns(stack[Len(stack)]),
           UNCHANGED <<todo, current, xhrs, page, spent>>
    PROVE  IInv'
<1> DEFINE k == stack[Len(stack)]
           o == k.obj
           q == [vb[o] EXCEPT !.isBroadcastRelated = FALSE]
<1>1. o \in Objects /\ vb[o] \in ObjectData
  BY Types, PopGood DEF Waiting
<1>2. RestTypes'
  <2>1. platform' \in PlatformType
    BY Types DEF SetChannelNullReturns, RestTypes, PlatformType, SomeChannel
  <2> QED BY <2>1, Types DEF RestTypes
<1>3. /\ vb' = [vb EXCEPT ![o] = q] /\ UNCHANGED shared
      /\ stack' = SubSeq(stack, 1, Len(stack) - 1)
  BY DEF SetChannelNullReturns
<1>4. /\ q \in ObjectData /\ q.life = vb[o].life /\ q.listening = vb[o].listening
      /\ q.waitingConfirm = vb[o].waitingConfirm /\ q.playState = vb[o].playState
  BY <1>1 DEF ObjectData
<1>5. stack' \in Seq(Waiting) /\ (~page.linked => NonePresent(stack'))
  BY <1>3, Types, PopGood
<1> HIDE DEF q
<1>6. Handled(o)
  BY <1>1, <1>3, <1>4, <1>5, DataChanges
<1>7. vb'[o].playState = vb[o].playState
  BY <1>1, <1>3, <1>4, Types
<1>8. Effect(o)
  BY <1>1, <1>6, <1>7, HandledGood
<1> QED BY <1>1, <1>2, <1>8, EffectGood

LEMMA CallGood ==
    ASSUME IInv, NEW o \in Objects, Call(o), UNCHANGED <<current, xhrs, page>>,
           Effect(o), platform' \in PlatformType
    PROVE  IInv'
BY CallRest, EffectGood

LEMMA PageStepGood ==
    ASSUME IInv, NEW o \in Objects,
           \/ BindToCurrentChannel(o) \/ SetChannel(o) \/ SetChannelNull(o)
           \/ Release(o) \/ Stop(o) \/ CycleChannel(o)
    PROVE  IInv'
<1>0. platform \in PlatformType
  BY Types DEF RestTypes
<1>1. ASSUME BindToCurrentChannel(o) PROVE IInv'
  <2>1. Live(o) /\ Call(o) /\ Bind(o) /\ UNCHANGED <<todo, current, xhrs, platform, page>>
    BY <1>1 DEF BindToCurrentChannel, Call
  <2>2. Effect(o)
    BY <2>1, BindGood
  <2> QED BY <1>0, <2>1, <2>2, CallGood
<1>2. ASSUME SetChannel(o) PROVE IInv'
  <2>1. Live(o) /\ Call(o) /\ UNCHANGED <<current, xhrs, page>>
    BY <1>2 DEF SetChannel, Call
  <2>2. Effect(o) /\ platform' \in PlatformType
    BY <1>2, <2>1, ChangeChannelGood DEF SetChannel
  <2> QED BY <2>1, <2>2, CallGood
<1>3. ASSUME CycleChannel(o) PROVE IInv'
  <2>1. Call(o) /\ UNCHANGED <<current, xhrs, page>>
    BY <1>3 DEF CycleChannel
  <2> QED BY <1>3, <2>1, CycleChannelGood, CallGood
<1>4. ASSUME Release(o) PROVE IInv'
  <2>1. Live(o) /\ Call(o) /\ ReleaseEffect(o) /\ UNCHANGED <<stack, current, xhrs, platform, page>>
    BY <1>4 DEF Release, Call
  <2>2. Effect(o)
    BY <2>1, SameStack, ReleaseGood
  <2> QED BY <1>0, <2>1, <2>2, CallGood
<1>5. ASSUME SetChannelNull(o) PROVE IInv'
  <2> DEFINE k == [what |-> "null", obj |-> o, inPage |-> ReleaseDispatches(o),
                   present |-> FALSE, channel |-> NoChannel]
  <2>1. Live(o) /\ Call(o) /\ ReleaseEffect(o) /\ UNCHANGED <<current, xhrs, platform, page>>
        /\ (UNCHANGED stack \/ Push(k))
    BY <1>5 DEF SetChannelNull, Call
  <2>2. ReleaseDispatches(o) \in BOOLEAN
    BY Types DEF ReleaseDispatches, ObjectData
  <2>3. k \in Waiting /\ ~k.present
    BY <2>2 DEF Waiting, SomeChannel
  <2> HIDE DEF k
  <2>4. stack' \in Seq(Waiting) /\ (~page.linked => NonePresent(stack'))
    BY <2>1, <2>3, SameStack, PushGood, Types
  <2>5. Effect(o)
    BY <2>1, <2>4, ReleaseGood
  <2> QED BY <1>0, <2>1, <2>5, CallGood
<1>6. ASSUME Stop(o) PROVE IInv'
  <2>1. Call(o) /\ UNCHANGED <<current, xhrs, platform, page>>
    BY <1>6 DEF Stop
  <2> QED BY <1>0, <1>6, <2>1, StopGood, CallGood
<1> QED BY <1>1, <1>2, <1>3, <1>4, <1>5, <1>6

LEMMA StreamEventGood ==
    ASSUME IInv,
           \/ \E o \in Objects, s \in Streams, l \in Listeners :
                 AddStreamEventListener(o, s, l) \/ RemoveStreamEventListener(o, s, l)
           \/ \E x \in xhrs : LoadEnd(x)
           \/ \E id \in Ids : StreamEventError(id)
    PROVE  IInv'
<1> DEFINE OnlyEvents ==
              /\ vb' \in [Objects -> ObjectData]
              /\ \A x \in Objects : \A f \in Kept : vb'[x][f] = vb[x][f]
              /\ shared' \in SharedType /\ shared'.owner = shared.owner
<1>0. UNCHANGED <<vb, shared>> => OnlyEvents
  BY Types
<1> HIDE DEF OnlyEvents
<1>1. ASSUME NEW o \in Objects, NEW s \in Streams, NEW l \in Listeners,
             AddStreamEventListener(o, s, l)
      PROVE  IInv'
  <2>1. OnlyEvents
    <3>1. CASE UNCHANGED <<vb, shared>>
      BY <1>0, <3>1
    <3>2. CASE Register(o, s, l)
      BY <3>2, RegisterGood DEF OnlyEvents
    <3> QED BY <1>1, <3>1, <3>2 DEF AddStreamEventListener
  <2>2. xhrs' \subseteq Objects \X Streams \X Listeners
    BY <1>1, Types DEF AddStreamEventListener, RestTypes
  <2>3. UNCHANGED <<stack, todo, current, platform, page>> /\ Call(o)
    BY <1>1 DEF AddStreamEventListener
  <2>4. RestTypes'
    BY <2>2, <2>3, SpentType, Types DEF RestTypes
  <2> QED BY <2>1, <2>3, <2>4, EventsOnly DEF OnlyEvents
<1>2. ASSUME NEW o \in Objects, NEW s \in Streams, NEW l \in Listeners,
             RemoveStreamEventListener(o, s, l)
      PROVE  IInv'
  <2>1. OnlyEvents
    BY <1>2, RemoveGood DEF OnlyEvents
  <2>2. UNCHANGED <<stack, todo, current, xhrs, platform, page>> /\ Call(o)
    BY <1>2 DEF RemoveStreamEventListener
  <2>3. RestTypes'
    BY <2>2, SpentType, Types DEF RestTypes
  <2> QED BY <2>1, <2>2, <2>3, EventsOnly DEF OnlyEvents
<1>3. ASSUME NEW x \in xhrs, LoadEnd(x)
      PROVE  IInv'
  <2>1. x[1] \in Objects /\ x[2] \in Streams /\ x[3] \in Listeners
    <3>1. x \in Objects \X Streams \X Listeners
      BY Types DEF RestTypes
    <3> QED BY <3>1
  <2>2. OnlyEvents
    BY <1>0, <1>3, <2>1, RegisterGood DEF LoadEnd, OnlyEvents
  <2>3. UNCHANGED <<stack, todo, current, platform, page, spent>> /\ xhrs' \subseteq xhrs
    BY <1>3 DEF LoadEnd
  <2>4. RestTypes'
    BY <2>3, Types DEF RestTypes
  <2> QED BY <2>2, <2>3, <2>4, EventsOnly DEF OnlyEvents
<1>4. ASSUME NEW id \in Ids, StreamEventError(id)
      PROVE  IInv'
  <2>1. OnlyEvents
    BY <1>4, StreamEventErrorGood DEF OnlyEvents
  <2>2. /\ UNCHANGED <<stack, todo, current, xhrs, platform, page>>
        /\ spent' = [spent EXCEPT !.events = @ + 1]
    BY <1>4 DEF StreamEventError
  <2>3. RestTypes
    BY Types
  <2>4. spent' \in [calls : [Objects -> Nat], events : Nat]
    BY <2>2, <2>3 DEF RestTypes
  <2>5. RestTypes'
    BY <2>2, <2>3, <2>4 DEF RestTypes
  <2> QED BY <2>1, <2>2, <2>5, EventsOnly DEF OnlyEvents
<1> QED BY <1>1, <1>2, <1>3, <1>4

LEMMA DispatchEventGood ==
    ASSUME IInv, DispatchEvent
    PROVE  IInv'
<1>1. /\ UNCHANGED <<vb, shared, stack, xhrs, page, spent>>
      /\ platform.events \in Seq(Event) /\ platform.events # <<>>
      /\ todo' = {o \in Objects : vb[o].listening}
      /\ platform \in PlatformType
  BY Types DEF DispatchEvent, RestTypes, PlatformType
<1>2. platform' \in PlatformType
  <2>1. Tail(platform.events) \in Seq(Event)
    BY <1>1
  <2>2. platform' = [platform EXCEPT !.events = Tail(platform.events)]
    BY DEF DispatchEvent
  <2> QED BY <1>1, <2>1, <2>2 DEF PlatformType
<1>3. current' \in [status : Statuses \cup {"none"}, channel : SomeChannel, begun : BOOLEAN]
  <2> DEFINE e == Head(platform.events)
  <2>1. e \in Event
    BY <1>1
  <2>2. \/ current' = NoEvent
        \/ current' = [status |-> e.status, channel |-> e.channel, begun |-> FALSE]
    BY DEF DispatchEvent
  <2> HIDE DEF e
  <2>3. e.status \in Statuses /\ e.channel \in SomeChannel
    BY <2>1 DEF Event
  <2>4. CASE current' = NoEvent
    BY <2>4 DEF NoEvent, SomeChannel
  <2>5. CASE current' = [status |-> e.status, channel |-> e.channel, begun |-> FALSE]
    BY <2>3, <2>5
  <2> QED BY <2>2, <2>4, <2>5
<1>4. RestTypes'
  BY <1>1, <1>2, <1>3, Types DEF RestTypes
<1>5. TypeOK'
  BY <1>1, <1>4, Types DEF TypeOK, RestTypes, SharedType, PlatformType, Event
<1> QED BY <1>1, <1>5 DEF IInv, OneActiveObject

\* What the platform does by itself leaves the page's objects alone.
LEMMA PlatformGood ==
    ASSUME IInv, UNCHANGED <<vb, shared, stack, todo, current, xhrs, page>>,
           platform' \in PlatformType, UNCHANGED spent \/ Spend
    PROVE  IInv'
<1>1. spent' \in [calls : [Objects -> Nat], events : Nat]
  <2>1. spent \in [calls : [Objects -> Nat], events : Nat]
    BY Types DEF RestTypes
  <2> QED BY <2>1 DEF Spend
<1>2. RestTypes'
  BY <1>1, Types DEF RestTypes
<1> QED BY <1>2, EventsOnly, Types

LEMMA PlatformStepGood ==
    ASSUME IInv,
           \/ TunesAsRequested \/ TransitionsToBroadcastRelated
           \/ \E c \in Channels : TunesForViewer(c)
           \/ \E st \in {"presenting", "transient", "permanent", "blocked"} : Reports(st)
    PROVE  IInv'
<1>0. platform \in PlatformType
  BY Types DEF RestTypes
<1>1. ASSUME TunesAsRequested PROVE IInv'
  <2>1. platform.requested \in Channels /\ platform' = Tuned(platform.requested)
    BY <1>0, <1>1 DEF TunesAsRequested, PlatformType, SomeChannel
  <2>2. platform' \in PlatformType
    BY <1>0, <2>1, TunedType
  <2> QED BY <1>1, <2>2, PlatformGood DEF TunesAsRequested, PlatformEvent
<1>2. ASSUME TransitionsToBroadcastRelated PROVE IInv'
  <2> DEFINE es == Append(platform.events,
                          [status |-> "transitioned", channel |-> platform.tuned])
  <2>1. es \in Seq(Event)
    BY <1>0, AppendEvent DEF Statuses, PlatformType
  <2>2. platform' = [platform EXCEPT !.broadcastApp = TRUE, !.events = es]
    BY <1>2 DEF TransitionsToBroadcastRelated
  <2> HIDE DEF es
  <2>3. platform' \in PlatformType
    BY <1>0, <2>1, <2>2 DEF PlatformType
  <2> QED BY <1>2, <2>3, PlatformGood DEF TransitionsToBroadcastRelated, PlatformEvent
<1>3. ASSUME NEW c \in Channels, TunesForViewer(c) PROVE IInv'
  <2>1. Tuned(c) \in PlatformType
    BY <1>0, TunedType
  <2>2. platform' \in PlatformType
    BY <1>0, <1>3, <2>1 DEF TunesForViewer, PlatformType
  <2> QED BY <1>3, <2>2, PlatformGood DEF TunesForViewer, PlatformEvent
<1>4. ASSUME NEW st \in {"presenting", "transient", "permanent", "blocked"}, Reports(st)
      PROVE  IInv'
  <2> DEFINE es == Append(platform.events, [status |-> st, channel |-> platform.tuned])
  <2>1. es \in Seq(Event)
    BY <1>0, AppendEvent DEF Statuses, PlatformType
  <2>2. platform' = [platform EXCEPT !.events = es]
    BY <1>4 DEF Reports
  <2> HIDE DEF es
  <2>3. platform' \in PlatformType
    BY <1>0, <2>1, <2>2 DEF PlatformType
  <2> QED BY <1>4, <2>3, PlatformGood DEF Reports, PlatformEvent
<1> QED BY <1>1, <1>2, <1>3, <1>4

LEMMA InitialisedType ==
    ASSUME NEW c \in SomeChannel, NEW b \in BOOLEAN
    PROVE  /\ Unborn \in ObjectData
           /\ Initialised(c, b) \in ObjectData
           /\ Initialised(c, b).playState = "unrealized" /\ ~Initialised(c, b).waitingConfirm
           /\ Initialised(c, b).life = "live"
<1>1. NoIds \in [Streams -> Ids \cup {0}] /\ NoListeners \in [Ids -> SUBSET Listeners]
  BY DEF NoIds, NoListeners
<1> QED BY <1>1 DEF Initialised, Unborn, ObjectData, PlayStates, SomeChannel

LEMMA InitialiseGood ==
    ASSUME IInv, NEW o \in Objects, Initialise(o)
    PROVE  IInv'
<1> DEFINE q == Initialised(platform.tuned, platform.broadcastApp)
<1>1. /\ q \in ObjectData /\ q.playState = "unrealized" /\ ~q.waitingConfirm
      /\ q.life = "live"
  BY InitialisedType, Types DEF RestTypes, PlatformType
<1>2. vb' = [vb EXCEPT ![o] = q] /\ ~vb[o].listening
      /\ UNCHANGED <<shared, stack, todo, current, xhrs, platform, page, spent>>
  BY Types DEF Initialise, Sound
<1> HIDE DEF q
<1>3. vb' \in [Objects -> ObjectData] /\ vb'[o] = q /\ \A x \in Objects \ {o} : vb'[x] = vb[x]
  BY <1>1, <1>2, Types
<1>4. o \notin todo
  BY <1>2, Types
<1>5. Sound(vb'[o], page.linked)
  BY <1>1, <1>3 DEF Sound, Active
<1>6. Effect(o)
  BY <1>1, <1>2, <1>3, <1>4, <1>5, Types DEF Effect, IInv, OneActiveObject
<1>7. RestTypes'
  BY <1>2, Types DEF RestTypes
<1> QED BY <1>2, <1>6, <1>7, EffectGood

LEMMA CollectGood ==
    ASSUME IInv, NEW o \in Objects, Collect(o)
    PROVE  IInv'
<1> DEFINE q == [vb[o] EXCEPT !.life = "collected", !.listening = FALSE]
<1>1. /\ vb' = [vb EXCEPT ![o] = q] /\ todo = {}
      /\ UNCHANGED <<shared, stack, todo, current, xhrs, platform, page, spent>>
  BY DEF Collect, Idle
<1>2. vb[o] \in ObjectData /\ Sound(vb[o], page.linked)
  BY Types
<1>3. /\ q \in ObjectData /\ q.life = "collected" /\ ~q.listening
      /\ q.waitingConfirm = vb[o].waitingConfirm /\ q.playState = vb[o].playState
  BY <1>2 DEF ObjectData
<1> HIDE DEF q
<1>4. vb' \in [Objects -> ObjectData] /\ vb'[o] = q /\ \A x \in Objects \ {o} : vb'[x] = vb[x]
  BY <1>1, <1>3, Types
<1>5. Sound(vb'[o], page.linked)
  BY <1>2, <1>3, <1>4 DEF Sound
<1>6. Effect(o)
  BY <1>1, <1>3, <1>4, <1>5, Types DEF Effect, IInv, OneActiveObject
<1>7. RestTypes'
  BY <1>1, Types DEF RestTypes
<1> QED BY <1>1, <1>6, <1>7, EffectGood

-----------------------------------------------------------------------------
(* The theorems                                                             *)

LEMMA InitGood == Init => IInv
<1> SUFFICES ASSUME Init PROVE IInv
  OBVIOUS
<1>1. PICK c \in Channels :
         /\ vb = [o \in Objects |-> IF o \in Transient THEN Unborn ELSE Initialised(c, TRUE)]
         /\ platform = [tuned |-> c, requested |-> NoChannel, broadcastApp |-> TRUE,
                        events |-> <<>>]
  BY DEF Init
<1>2. /\ Unborn \in ObjectData /\ Initialised(c, TRUE) \in ObjectData
      /\ Initialised(c, TRUE).playState = "unrealized" /\ ~Initialised(c, TRUE).waitingConfirm
      /\ Initialised(c, TRUE).life = "live"
  BY InitialisedType DEF SomeChannel
<1>3. Unborn.playState = "unrealized" /\ ~Unborn.waitingConfirm /\ Unborn.life = "unborn"
      /\ ~Unborn.listening
  BY DEF Unborn
<1>4. \A o \in Objects : vb[o] \in {Unborn, Initialised(c, TRUE)}
  BY <1>1
<1>5. vb \in [Objects -> ObjectData]
  BY <1>1, <1>2
<1>6. \A o \in Objects : Sound(vb[o], page.linked)
  BY <1>2, <1>3, <1>4 DEF Sound, Active
<1>7. OneActiveObject
  BY <1>2, <1>3, <1>4 DEF OneActiveObject
<1>8. /\ shared \in SharedType
      /\ current \in [status : Statuses \cup {"none"}, channel : SomeChannel, begun : BOOLEAN]
  BY DEF Init, SharedType, NoEvent, SomeChannel
<1>9. platform \in PlatformType
  BY <1>1 DEF PlatformType, SomeChannel
<1>10. spent \in [calls : [Objects -> Nat], events : Nat]
  BY DEF Init
<1>11. stack \in Seq(Waiting) /\ todo = {} /\ xhrs = {} /\ NonePresent(stack)
       /\ page \in [linked : BOOLEAN, alike : BOOLEAN]
  BY DEF Init, NonePresent
<1>12. TypeOK
  BY <1>5, <1>8, <1>9, <1>10, <1>11 DEF TypeOK, SharedType, PlatformType, Event
<1> QED BY <1>6, <1>7, <1>11, <1>12 DEF IInv

LEMMA ReturnGood ==
    ASSUME IInv, Return
    PROVE  IInv'
BY BindReturnsGood, SetChannelNullReturnsGood, ConfirmReturnsGood DEF Return

LEMMA StutterGood ==
    ASSUME IInv, UNCHANGED vars
    PROVE  IInv'
BY DEF vars, IInv, TypeOK, OneActiveObject

LEMMA StepGood == IInv /\ [Next]_vars => IInv'
<1> SUFFICES ASSUME IInv, [Next]_vars PROVE IInv'
  OBVIOUS
<1>1. CASE PageStep
  BY <1>1, InitialiseGood, PageStepGood, StreamEventGood DEF PageStep
<1>2. CASE LoopStep
  BY <1>2, DispatchEventGood, ReturnGood, HandleGood, CollectGood, StreamEventGood DEF LoopStep
<1>3. CASE PlatformStep
  BY <1>3, PlatformStepGood, StreamEventGood DEF PlatformStep
<1>4. CASE UNCHANGED vars
  BY <1>4, StutterGood
<1> QED BY <1>1, <1>2, <1>3, <1>4 DEF Next

LEMMA Invariance == Spec => []IInv
BY InitGood, StepGood, PTL DEF Spec

LEMMA IInvImplies == IInv => TypeOK /\ ActiveObjectListens /\ OneActiveObject
BY DEF IInv, ActiveObjectListens, Sound, Live

(* The private data of the objects, gActiveStateOwner, the waiting methods    *)
(* and the platform's answers always have their types: no sequence of calls,  *)
(* handlers and events of videobroadcast.js leaves a play state, a channel or *)
(* an id it does not know.                                                    *)
THEOREM TypeCorrect == Spec => []TypeOK
BY Invariance, IInvImplies, PTL

(* In a page that is not linked, a live object that is connecting or          *)
(* presenting always hears the bridge: addBridgeEventListeners has been       *)
(* called for it and removeBridgeEventListeners has not, for any number of    *)
(* objects and whatever the page's listeners call in the middle of a method.  *)
THEOREM ListensCorrect == Spec => []ActiveObjectListens
BY Invariance, IInvImplies, PTL

(* acquireActiveState and releaseActiveState keep one owner: of objects whose *)
(* JSON differs, at most the owner is connecting, presenting or stopped.      *)
THEOREM OneActiveCorrect == Spec => []OneActiveObject
BY Invariance, IInvImplies, PTL

-----------------------------------------------------------------------------
(* Stream event listeners                                                   *)

\* An object's two maps agree, and no id serves two of its events.
Agrees(p) ==
    /\ {i \in Ids : p.listenerMap[i] # {}} = IdsOf(p)
    /\ \A s, t \in Streams : s # t /\ p.idMap[s] # 0 => p.idMap[s] # p.idMap[t]

\* The ids the objects know were handed out; an object that is not there yet
\* knows none, and no file is fetched for it.
MapInv ==
    /\ StreamEventMapsAgree
    /\ \A o \in Objects : \A i \in IdsOf(vb[o]) : i < shared.nextId
    /\ \A o \in Objects : vb[o].life = "unborn" => IdsOf(vb[o]) = {}
    /\ \A x \in xhrs : vb[x[1]].life # "unborn"

LEMMA AgreeIs ==
    StreamEventMapsAgree <=>
        /\ \A o \in Objects : Agrees(vb[o])
        /\ \A o, q \in Objects : o # q => IdsOf(vb[o]) \cap IdsOf(vb[q]) = {}
        /\ shared.registered \subseteq UNION {IdsOf(vb[o]) : o \in Objects}
BY DEF StreamEventMapsAgree, Agrees

SameMaps(x) == vb'[x].idMap = vb[x].idMap /\ vb'[x].listenerMap = vb[x].listenerMap
SameLife(x) == vb'[x].life = "unborn" <=> vb[x].life = "unborn"

LEMMA SameIds ==
    ASSUME NEW x, SameMaps(x)
    PROVE  IdsOf(vb'[x]) = IdsOf(vb[x]) /\ (Agrees(vb[x]) => Agrees(vb'[x]))
BY DEF SameMaps, IdsOf, Agrees

LEMMA IdTypes ==
    ASSUME IInv
    PROVE  /\ \A o \in Objects : vb[o] \in ObjectData /\ IdsOf(vb[o]) \subseteq Ids
           /\ shared.nextId \in Nat \ {0} /\ Ids \subseteq Nat \ {0}
<1>1. vb \in [Objects -> ObjectData] /\ shared \in SharedType
  BY Types
<1>2. Ids \subseteq Nat \ {0}
  BY ConstantsAssumption DEF Ids
<1> QED BY <1>1, <1>2 DEF ObjectData, IdsOf, SharedType

\* A step that concerns no stream event.
LEMMA MapsKept ==
    ASSUME MapInv, \A x \in Objects : SameMaps(x) /\ SameLife(x),
           shared'.registered = shared.registered, shared'.nextId = shared.nextId,
           xhrs' \subseteq xhrs, xhrs \subseteq Objects \X Streams \X Listeners
    PROVE  MapInv'
<1>1. \A x \in Objects : /\ IdsOf(vb'[x]) = IdsOf(vb[x])
                         /\ Agrees(vb[x]) => Agrees(vb'[x])
                         /\ vb'[x].life = "unborn" <=> vb[x].life = "unborn"
  BY SameIds DEF SameLife
<1>2. /\ \A o \in Objects : Agrees(vb'[o])
      /\ \A o, q \in Objects : o # q => IdsOf(vb'[o]) \cap IdsOf(vb'[q]) = {}
      /\ shared'.registered \subseteq UNION {IdsOf(vb'[o]) : o \in Objects}
  <2>1. /\ \A o \in Objects : Agrees(vb[o])
        /\ \A o, q \in Objects : o # q => IdsOf(vb[o]) \cap IdsOf(vb[q]) = {}
        /\ shared.registered \subseteq UNION {IdsOf(vb[o]) : o \in Objects}
    BY AgreeIs DEF MapInv
  <2> QED BY <1>1, <2>1
<1>3. StreamEventMapsAgree'
  BY <1>2 DEF StreamEventMapsAgree, Agrees
<1>4. \A x \in xhrs' : x[1] \in Objects
  OBVIOUS
<1> QED BY <1>1, <1>3, <1>4 DEF MapInv

\* A step on the maps of one object: the ids it gets are new, the listeners of
\* those it loses are no longer registered with the bridge.
LEMMA MapsChange ==
    ASSUME IInv, MapInv, NEW o \in Objects,
           \A x \in Objects \ {o} : SameMaps(x) /\ SameLife(x),
           Agrees(vb'[o]),
           vb'[o].life = "unborn" => vb[o].life = "unborn" /\ IdsOf(vb'[o]) = {},
           shared'.nextId \in Nat, shared.nextId <= shared'.nextId,
           \A i \in IdsOf(vb'[o]) :
               i < shared'.nextId /\ (i \in IdsOf(vb[o]) \/ i >= shared.nextId),
           \A i \in shared'.registered :
               i \in IdsOf(vb'[o]) \/ i \in shared.registered \ IdsOf(vb[o]),
           xhrs' \subseteq xhrs
    PROVE  MapInv'
<1>1. \A x \in Objects \ {o} : /\ IdsOf(vb'[x]) = IdsOf(vb[x])
                               /\ Agrees(vb[x]) => Agrees(vb'[x])
                               /\ vb'[x].life = "unborn" <=> vb[x].life = "unborn"
  BY SameIds DEF SameLife
<1>2. /\ \A x \in Objects : Agrees(vb[x])
      /\ \A x, q \in Objects : x # q => IdsOf(vb[x]) \cap IdsOf(vb[q]) = {}
      /\ shared.registered \subseteq UNION {IdsOf(vb[x]) : x \in Objects}
  BY AgreeIs DEF MapInv
<1>3. \A x \in Objects : \A i \in IdsOf(vb[x]) : i \in Nat /\ i < shared.nextId
  BY IdTypes DEF MapInv
<1>4. \A x \in Objects : Agrees(vb'[x])
  BY <1>1, <1>2
<1>5. \A x \in Objects \ {o} : IdsOf(vb'[o]) \cap IdsOf(vb'[x]) = {}
  <2> SUFFICES ASSUME NEW x \in Objects \ {o}, NEW i \in IdsOf(vb'[o]),
                      i \in IdsOf(vb[x])
               PROVE  FALSE
    BY <1>1
  <2>1. i \in Nat /\ i < shared.nextId /\ shared.nextId \in Nat
    BY <1>3, IdTypes
  <2>2. i \in IdsOf(vb[o])
    BY <2>1
  <2> QED BY <1>2, <2>2
<1>6. \A x, q \in Objects : x # q => IdsOf(vb'[x]) \cap IdsOf(vb'[q]) = {}
  BY <1>1, <1>2, <1>5
<1>7. shared'.registered \subseteq UNION {IdsOf(vb'[x]) : x \in Objects}
  <2> SUFFICES ASSUME NEW i \in shared'.registered
               PROVE  \E x \in Objects : i \in IdsOf(vb'[x])
    OBVIOUS
  <2>1. CASE i \in IdsOf(vb'[o])
    BY <2>1
  <2>2. CASE i \in shared.registered \ IdsOf(vb[o])
    <3>1. PICK x \in Objects : i \in IdsOf(vb[x])
      BY <1>2, <2>2
    <3> QED BY <1>1, <2>2, <3>1
  <2> QED BY <2>1, <2>2
<1>8. StreamEventMapsAgree'
  BY <1>4, <1>6, <1>7 DEF StreamEventMapsAgree, Agrees
<1>9. \A x \in Objects : \A i \in IdsOf(vb'[x]) : i < shared'.nextId
  <2> SUFFICES ASSUME NEW x \in Objects \ {o}, NEW i \in IdsOf(vb[x])
               PROVE  i < shared'.nextId
    BY <1>1
  <2>1. i \in Nat /\ i < shared.nextId /\ shared.nextId \in Nat
    BY <1>3, IdTypes
  <2> QED BY <2>1
<1>10. \A x \in Objects : vb'[x].life = "unborn" => IdsOf(vb'[x]) = {}
  BY <1>1 DEF MapInv
<1>11. \A x \in xhrs' : vb'[x[1]].life # "unborn"
  <2> SUFFICES ASSUME NEW x \in xhrs' PROVE vb'[x[1]].life # "unborn"
    OBVIOUS
  <2>1. x \in Objects \X Streams \X Listeners
    BY Types DEF RestTypes
  <2>2. x[1] \in Objects /\ vb[x[1]].life # "unborn"
    BY <2>1 DEF MapInv
  <2> QED BY <1>1, <2>2
<1> QED BY <1>8, <1>9, <1>10, <1>11 DEF MapInv

\* A step that clears the maps of one object and its registrations.
LEMMA MapsCleared ==
    ASSUME IInv, MapInv, NEW o \in Objects,
           \A x \in Objects \ {o} : SameMaps(x) /\ SameLife(x),
           vb'[o].idMap = NoIds, vb'[o].listenerMap = NoListeners,
           vb'[o].life = "unborn" => vb[o].life = "unborn",
           shared'.nextId = shared.nextId,
           shared'.registered = shared.registered \ IdsOf(vb[o]),
           xhrs' \subseteq xhrs
    PROVE  MapInv'
<1>1. IdsOf(vb'[o]) = {}
  BY DEF IdsOf, NoIds
<1>2. {i \in Ids : vb'[o].listenerMap[i] # {}} = {}
  BY DEF NoListeners
<1>3. Agrees(vb'[o])
  BY <1>1, <1>2 DEF Agrees, NoIds
<1> QED BY <1>1, <1>3, MapsChange, IdTypes

\* What every step but those of the stream events does with the maps: nothing,
\* or it clears those of one object.
MapsAfter(o) ==
    /\ \A x \in Objects \ {o} : SameMaps(x)
    /\ \A x \in Objects : SameLife(x)
    /\ shared'.nextId = shared.nextId
    /\ \/ SameMaps(o) /\ shared'.registered = shared.registered
       \/ /\ vb'[o].idMap = NoIds /\ vb'[o].listenerMap = NoListeners
          /\ shared'.registered = shared.registered \ IdsOf(vb[o])

LEMMA MapsAfterGood ==
    ASSUME IInv, MapInv, NEW o \in Objects, MapsAfter(o), xhrs' \subseteq xhrs
    PROVE  MapInv'
<1>1. xhrs \subseteq Objects \X Streams \X Listeners
  BY Types DEF RestTypes
<1>2. CASE SameMaps(o) /\ shared'.registered = shared.registered
  BY <1>1, <1>2, MapsKept DEF MapsAfter
<1>3. CASE /\ vb'[o].idMap = NoIds /\ vb'[o].listenerMap = NoListeners
           /\ shared'.registered = shared.registered \ IdsOf(vb[o])
  BY <1>3, MapsCleared DEF MapsAfter, SameLife
<1> QED BY <1>2, <1>3 DEF MapsAfter

LEMMA NothingAfter ==
    ASSUME NEW o \in Objects, vb' = vb,
           shared'.nextId = shared.nextId, shared'.registered = shared.registered
    PROVE  MapsAfter(o)
BY DEF MapsAfter, SameMaps, SameLife

\* The maps of an object whose data is replaced.
LEMMA DataAfter ==
    ASSUME IInv, NEW o \in Objects, NEW q, vb' = [vb EXCEPT ![o] = q],
           q.life = "unborn" <=> vb[o].life = "unborn",
           shared'.nextId = shared.nextId,
           \/ /\ q.idMap = vb[o].idMap /\ q.listenerMap = vb[o].listenerMap
              /\ shared'.registered = shared.registered
           \/ /\ q.idMap = NoIds /\ q.listenerMap = NoListeners
              /\ shared'.registered = shared.registered \ IdsOf(vb[o])
    PROVE  MapsAfter(o)
<1>1. vb'[o] = q /\ \A x \in Objects \ {o} : vb'[x] = vb[x]
  BY Types
<1> QED BY <1>1 DEF MapsAfter, SameMaps, SameLife

LEMMA WithoutEventsMaps ==
    ASSUME NEW p \in ObjectData
    PROVE  /\ WithoutStreamEvents(p).idMap = NoIds
           /\ WithoutStreamEvents(p).listenerMap = NoListeners
           /\ WithoutStreamEvents(p).life = p.life
BY DEF WithoutStreamEvents, ObjectData

LEMMA UnrealizeMaps ==
    ASSUME IInv, NEW o \in Objects, Unrealize(o)
    PROVE  MapsAfter(o)
<1> DEFINE p == WithoutStreamEvents(vb[o])
           q == [p EXCEPT !.playState = "unrealized"]
<1>1. vb[o] \in ObjectData /\ shared \in SharedType
  BY Types
<1>2. p \in ObjectData /\ p.idMap = NoIds /\ p.listenerMap = NoListeners
      /\ p.life = vb[o].life
  BY <1>1, WithoutEventsMaps, WithoutEventsType
<1>3. q.idMap = NoIds /\ q.listenerMap = NoListeners /\ q.life = vb[o].life
  BY <1>2 DEF ObjectData
<1>4. /\ vb' = [vb EXCEPT ![o] = q]
      /\ shared' = [shared EXCEPT !.registered = @ \ IdsOf(vb[o])]
  BY DEF Unrealize
<1> HIDE DEF q
<1>5. shared'.nextId = shared.nextId
      /\ shared'.registered = shared.registered \ IdsOf(vb[o])
  BY <1>1, <1>4 DEF SharedType
<1> QED BY <1>3, <1>4, <1>5, DataAfter

LEMMA BindMaps ==
    ASSUME IInv, NEW o \in Objects, Bind(o)
    PROVE  MapsAfter(o)
<1> DEFINE p == vb[o]
           out == ~p.isBroadcastRelated \/ ~platform.broadcastApp \/ p.playState \in Active
<1>1. p \in ObjectData /\ shared \in SharedType
  BY Types
<1>2. CASE UNCHANGED <<vb, shared>>
  BY <1>2, NothingAfter
<1>3. CASE ~out /\ CanAcquire(o)
  <2> DEFINE q == [p EXCEPT !.listening = TRUE,
                            !.playState = IF p.playState = "unrealized" /\ page.linked
                                          THEN "presenting" ELSE "connecting"]
  <2>1. vb' = [vb EXCEPT ![o] = q] /\ shared' = [shared EXCEPT !.owner = o]
    BY <1>3 DEF Bind
  <2>2. q.idMap = p.idMap /\ q.listenerMap = p.listenerMap /\ q.life = p.life
    BY <1>1 DEF ObjectData
  <2> HIDE DEF q
  <2>3. shared'.nextId = shared.nextId /\ shared'.registered = shared.registered
    BY <1>1, <2>1 DEF SharedType
  <2> QED BY <2>1, <2>2, <2>3, DataAfter
<1>4. CASE ~out /\ ~CanAcquire(o) /\ p.playState # "stopped"
  <2>1. /\ vb' = [vb EXCEPT ![o] = WithoutStreamEvents(p)]
        /\ shared' = [shared EXCEPT !.registered = @ \ IdsOf(p)]
    BY <1>4 DEF Bind
  <2>2. shared'.nextId = shared.nextId /\ shared'.registered = shared.registered \ IdsOf(p)
    BY <1>1, <2>1 DEF SharedType
  <2> QED BY <1>1, <2>1, <2>2, WithoutEventsMaps, DataAfter
<1> QED BY <1>2, <1>3, <1>4 DEF Bind

LEMMA ChangeChannelMaps ==
    ASSUME IInv, NEW o \in Objects, NEW c, NEW quiet, ChangeChannel(o, c, quiet)
    PROVE  MapsAfter(o)
<1> DEFINE p == vb[o]
           fresh == p.playState \notin Active
<1>1. p \in ObjectData /\ shared \in SharedType
  BY Types
<1>2. CASE UNCHANGED <<vb, shared>>
  BY <1>2, NothingAfter
<1>3. ASSUME NEW notInTs \in BOOLEAN, SetChannelFails(o, fresh, notInTs)
      PROVE  MapsAfter(o)
  <2> DEFINE q == [p EXCEPT !.isTransitioning = FALSE, !.listening = @ /\ ~fresh,
                            !.playState = IF notInTs THEN "unrealized" ELSE @]
  <2>1. vb' = [vb EXCEPT ![o] = q] /\ shared' \in {shared, [shared EXCEPT !.owner = o]}
    BY <1>3 DEF SetChannelFails
  <2>2. q.idMap = p.idMap /\ q.listenerMap = p.listenerMap /\ q.life = p.life
    BY <1>1 DEF ObjectData
  <2> HIDE DEF q
  <2>3. shared'.nextId = shared.nextId /\ shared'.registered = shared.registered
    BY <1>1, <2>1 DEF SharedType
  <2> QED BY <2>1, <2>2, <2>3, DataAfter
<1>4. ASSUME SetChannelAccepted(o, fresh, quiet, c)
      PROVE  MapsAfter(o)
  <2> DEFINE q == [p EXCEPT !.isTransitioning = TRUE, !.listening = @ \/ fresh]
             r == WithoutStreamEvents(q)
             reads == p.isBroadcastRelated /\ ~quiet
             owner == IF fresh THEN o ELSE shared.owner
             changed == [r EXCEPT !.channel = IF reads THEN platform'.tuned ELSE @,
                                  !.playState = "connecting",
                                  !.waitingConfirm = page.linked]
  <2>1. q.idMap = p.idMap /\ q.listenerMap = p.listenerMap /\ q.life = p.life
        /\ q \in ObjectData
    BY <1>1 DEF ObjectData
  <2>2. \/ vb' = [vb EXCEPT ![o] = q] /\ shared' = [shared EXCEPT !.owner = owner]
        \/ /\ vb' = [vb EXCEPT ![o] = changed]
           /\ shared' = [shared EXCEPT !.owner = owner, !.registered = @ \ IdsOf(p)]
    BY <1>4 DEF SetChannelAccepted
  <2> HIDE DEF q, owner
  <2>3. r \in ObjectData /\ r.idMap = NoIds /\ r.listenerMap = NoListeners
        /\ r.life = p.life
    BY <2>1, WithoutEventsMaps, WithoutEventsType
  <2> HIDE DEF r
  <2>4. changed.idMap = NoIds /\ changed.listenerMap = NoListeners
        /\ changed.life = p.life
    BY <2>3 DEF ObjectData
  <2> HIDE DEF changed
  <2>5. CASE vb' = [vb EXCEPT ![o] = q] /\ shared' = [shared EXCEPT !.owner = owner]
    <3>1. shared'.nextId = shared.nextId /\ shared'.registered = shared.registered
      BY <1>1, <2>5 DEF SharedType
    <3> QED BY <2>1, <2>5, <3>1, DataAfter
  <2>6. CASE /\ vb' = [vb EXCEPT ![o] = changed]
             /\ shared' = [shared EXCEPT !.owner = owner, !.registered = @ \ IdsOf(p)]
    <3>1. shared'.nextId = shared.nextId /\ shared'.registered = shared.registered \ IdsOf(p)
      BY <1>1, <2>6 DEF SharedType
    <3> QED BY <2>4, <2>6, <3>1, DataAfter
  <2> QED BY <2>2, <2>5, <2>6
<1> QED BY <1>2, <1>3, <1>4 DEF ChangeChannel

LEMMA ReleaseMaps ==
    ASSUME IInv, NEW o \in Objects, ReleaseEffect(o)
    PROVE  MapsAfter(o)
<1> DEFINE p == vb[o]
<1>1. p \in ObjectData /\ shared \in SharedType
  BY Types
<1>2. CASE ~p.isBroadcastRelated
  BY <1>2, NothingAfter DEF ReleaseEffect
<1>3. CASE p.isBroadcastRelated /\ p.playState = "unrealized"
  <2> DEFINE q == [p EXCEPT !.listening = FALSE]
  <2>1. vb' = [vb EXCEPT ![o] = q] /\ shared' = shared
    BY <1>3 DEF ReleaseEffect
  <2>2. q.idMap = p.idMap /\ q.listenerMap = p.listenerMap /\ q.life = p.life
    BY <1>1 DEF ObjectData
  <2> HIDE DEF q
  <2> QED BY <2>1, <2>2, DataAfter
<1>4. CASE p.isBroadcastRelated /\ p.playState # "unrealized"
  <2> DEFINE r == WithoutStreamEvents(p)
             q == [r EXCEPT !.listening = FALSE, !.playState = "unrealized",
                            !.channel = NoChannel]
             s == [shared EXCEPT !.registered = @ \ IdsOf(p)]
  <2>1. vb' = [vb EXCEPT ![o] = q] /\ shared' \in {s, [s EXCEPT !.owner = NoObject]}
    BY <1>4 DEF ReleaseEffect
  <2>2. r \in ObjectData /\ r.idMap = NoIds /\ r.listenerMap = NoListeners
        /\ r.life = p.life
    BY <1>1, WithoutEventsMaps, WithoutEventsType
  <2>3. q.idMap = NoIds /\ q.listenerMap = NoListeners /\ q.life = p.life
    BY <2>2 DEF ObjectData
  <2> HIDE DEF q
  <2>4. shared'.nextId = shared.nextId /\ shared'.registered = shared.registered \ IdsOf(p)
    BY <1>1, <2>1 DEF SharedType
  <2> QED BY <2>1, <2>3, <2>4, DataAfter
<1> QED BY <1>2, <1>3, <1>4

LEMMA HandledMaps ==
    ASSUME IInv, NEW o \in Objects, NEW e,
           \/ OnParentalRatingChange(o)
           \/ OnTransitionedToBroadcastRelated(o)
           \/ OnChannelStatusChanged(o, e)
    PROVE  MapsAfter(o)
<1> DEFINE p == vb[o]
<1>1. p \in ObjectData
  BY Types
<1>3. CASE UNCHANGED <<vb, shared>>
  BY <1>3, NothingAfter
<1>4. CASE Unrealize(o)
  BY <1>4, UnrealizeMaps
<1>5. CASE OnParentalRatingChange(o)
  <2>1. CASE vb[o].waitingConfirm
    <3> DEFINE q == [p EXCEPT !.playState = "connecting"]
    <3>1. vb' = [vb EXCEPT ![o] = q] /\ UNCHANGED shared
      BY <1>5, <2>1 DEF OnParentalRatingChange
    <3>2. q.idMap = p.idMap /\ q.listenerMap = p.listenerMap /\ q.life = p.life
      BY <1>1 DEF ObjectData
    <3> HIDE DEF q
    <3> QED BY <3>1, <3>2, DataAfter
  <2> QED BY <1>3, <1>5, <2>1 DEF OnParentalRatingChange
<1>6. CASE OnTransitionedToBroadcastRelated(o)
  <2>1. CASE vb[o].isTransitioning
    <3> DEFINE q == [p EXCEPT !.isTransitioning = FALSE, !.isBroadcastRelated = TRUE,
                              !.channel = IF platform.broadcastApp
                                          THEN platform.tuned ELSE @]
    <3>1. vb' = [vb EXCEPT ![o] = q] /\ UNCHANGED shared
      BY <1>6, <2>1 DEF OnTransitionedToBroadcastRelated
    <3>2. q.idMap = p.idMap /\ q.listenerMap = p.listenerMap /\ q.life = p.life
      BY <1>1 DEF ObjectData
    <3> HIDE DEF q
    <3> QED BY <3>1, <3>2, DataAfter
  <2> QED BY <1>3, <1>6, <2>1 DEF OnTransitionedToBroadcastRelated
<1>7. CASE OnChannelStatusChanged(o, e)
  <2>1. CASE WhileConnecting(o, e)
    <3>1. CASE vb' = [vb EXCEPT ![o].playState = "presenting"] /\ UNCHANGED shared
      <4> DEFINE q == [p EXCEPT !.playState = "presenting"]
      <4>1. vb' = [vb EXCEPT ![o] = q] /\ UNCHANGED shared
        BY <3>1
      <4>2. q.idMap = p.idMap /\ q.listenerMap = p.listenerMap /\ q.life = p.life
        BY <1>1 DEF ObjectData
      <4> HIDE DEF q
      <4> QED BY <4>1, <4>2, DataAfter
    <3>2. CASE /\ vb' = [vb EXCEPT ![o].channel = IF IsStale(p, e) THEN platform.tuned ELSE @,
                                   ![o].waitingConfirm = FALSE]
               /\ UNCHANGED shared
      <4> DEFINE q == [p EXCEPT !.channel = IF IsStale(p, e) THEN platform.tuned ELSE @,
                                !.waitingConfirm = FALSE]
      <4>1. vb' = [vb EXCEPT ![o] = q] /\ UNCHANGED shared
        BY <3>2
      <4>2. q.idMap = p.idMap /\ q.listenerMap = p.listenerMap /\ q.life = p.life
        BY <1>1 DEF ObjectData
      <4> HIDE DEF q
      <4> QED BY <4>1, <4>2, DataAfter
    <3> QED BY <1>3, <1>4, <2>1, <3>1, <3>2 DEF WhileConnecting
  <2>2. CASE WhilePresenting(o, e)
    <3> DEFINE renew == e.status = "connecting" /\ IsStale(vb[o], e) /\ HasChannelForEvent
               q == [p EXCEPT !.playState = "connecting",
                              !.channel = IF renew THEN platform.tuned ELSE @]
    <3>1. CASE e.status # "permanent"
      <4>1. vb' = [vb EXCEPT ![o] = q] /\ UNCHANGED shared
        BY <2>2, <3>1 DEF WhilePresenting
      <4>2. q.idMap = p.idMap /\ q.listenerMap = p.listenerMap /\ q.life = p.life
        BY <1>1 DEF ObjectData
      <4> HIDE DEF q
      <4> QED BY <4>1, <4>2, DataAfter
    <3> QED BY <1>4, <2>2, <3>1 DEF WhilePresenting
  <2>3. CASE WhileStopped(o, e)
    <3> DEFINE q == [p EXCEPT !.channel = platform.tuned, !.playState = "connecting"]
    <3>1. CASE vb' = [vb EXCEPT ![o].channel = platform.tuned,
                                ![o].playState = "connecting"] /\ UNCHANGED shared
      <4>1. vb' = [vb EXCEPT ![o] = q] /\ UNCHANGED shared
        BY <3>1
      <4>2. q.idMap = p.idMap /\ q.listenerMap = p.listenerMap /\ q.life = p.life
        BY <1>1 DEF ObjectData
      <4> HIDE DEF q
      <4> QED BY <4>1, <4>2, DataAfter
    <3> QED BY <1>3, <1>4, <2>3, <3>1 DEF WhileStopped
  <2> QED BY <1>3, <1>7, <2>1, <2>2, <2>3 DEF OnChannelStatusChanged
<1> QED BY <1>5, <1>6, <1>7

LEMMA ReturnMaps ==
    ASSUME IInv, MapInv, Return
    PROVE  MapInv'
<1> DEFINE k == stack[Len(stack)]
           o == k.obj
           p == vb[o]
<1>1. k \in Waiting
  BY PopGood, Types DEF Return
<1>2. o \in Objects
  BY <1>1 DEF Waiting
<1> HIDE DEF k
<1>3. p \in ObjectData
  BY <1>2, Types
<1>4. \E f \in {"playState", "channel", "isBroadcastRelated", "waitingConfirm"} : \E v :
         vb' = [vb EXCEPT ![o] = [p EXCEPT ![f] = v]]
  <2>1. CASE BindReturns(k)
    <3>1. \/ vb' = [vb EXCEPT ![o] = [p EXCEPT !["playState"] = "presenting"]]
          \/ vb' = [vb EXCEPT ![o] = [p EXCEPT !["channel"] = k.channel]]
      BY <2>1 DEF BindReturns
    <3> QED BY <3>1
  <2>2. CASE SetChannelNullReturns(k)
    <3>1. vb' = [vb EXCEPT ![o] = [p EXCEPT !["isBroadcastRelated"] = FALSE]]
      BY <2>2 DEF SetChannelNullReturns
    <3> QED BY <3>1
  <2>3. CASE ConfirmReturns(k)
    <3>1. vb' = [vb EXCEPT ![o] = [p EXCEPT !["waitingConfirm"] = FALSE]]
      BY <2>3 DEF ConfirmReturns
    <3> QED BY <3>1
  <2> QED BY <2>1, <2>2, <2>3 DEF Return, k
<1> PICK f \in {"playState", "channel", "isBroadcastRelated", "waitingConfirm"} :
         \E v : vb' = [vb EXCEPT ![o] = [p EXCEPT ![f] = v]]
  BY <1>4
<1>5. PICK v : vb' = [vb EXCEPT ![o] = [p EXCEPT ![f] = v]]
  OBVIOUS
<1> DEFINE q == [p EXCEPT ![f] = v]
<1>6. q.idMap = p.idMap /\ q.listenerMap = p.listenerMap /\ q.life = p.life
  BY <1>3 DEF ObjectData
<1>7. UNCHANGED <<shared, xhrs>>
  BY DEF Return, BindReturns, SetChannelNullReturns, ConfirmReturns
<1> HIDE DEF q
<1>8. MapsAfter(o)
  BY <1>2, <1>5, <1>6, <1>7, DataAfter DEF q
<1> QED BY <1>2, <1>7, <1>8, MapsAfterGood

\* The listener map of an object whose data the step replaces.
LEMMA NewData ==
    ASSUME IInv, NEW o \in Objects, NEW q, vb' = [vb EXCEPT ![o] = q],
           q.life = vb[o].life
    PROVE  /\ vb'[o] = q
           /\ \A x \in Objects \ {o} : SameMaps(x)
           /\ \A x \in Objects : SameLife(x)
<1>1. vb'[o] = q /\ \A x \in Objects \ {o} : vb'[x] = vb[x]
  BY Types
<1> QED BY <1>1 DEF SameMaps, SameLife

LEMMA MoreListeners ==
    ASSUME IInv, MapInv, NEW o \in Objects, NEW i \in Ids, NEW ls \in SUBSET Listeners,
           vb[o].listenerMap[i] # {}, ls # {},
           vb' = [vb EXCEPT ![o].listenerMap[i] = ls], UNCHANGED shared,
           xhrs' \subseteq xhrs
    PROVE  MapInv'
<1> DEFINE p == vb[o]
           q == [p EXCEPT !.listenerMap[i] = ls]
<1>1. p \in ObjectData /\ Agrees(p)
  BY Types, AgreeIs DEF MapInv
<1>2. q.life = p.life /\ q.idMap = p.idMap
      /\ \A j \in Ids : q.listenerMap[j] # {} <=> p.listenerMap[j] # {}
  BY <1>1 DEF ObjectData
<1>3. vb' = [vb EXCEPT ![o] = q]
  OBVIOUS
<1> HIDE DEF q
<1>4. IdsOf(q) = IdsOf(p) /\ Agrees(q)
  BY <1>1, <1>2 DEF Agrees, IdsOf
<1>5. vb'[o] = q
      /\ \A x \in Objects \ {o} : SameMaps(x) /\ SameLife(x)
  BY <1>2, <1>3, NewData
<1>6. shared.nextId \in Nat /\ \A j \in IdsOf(p) : j < shared.nextId
  BY IdTypes DEF MapInv
<1>7. shared.registered \subseteq UNION {IdsOf(vb[x]) : x \in Objects}
      /\ \A x \in Objects \ {o} : IdsOf(vb[x]) \cap IdsOf(p) = {}
  BY AgreeIs DEF MapInv
<1>8. p.life = "unborn" => IdsOf(p) = {}
  BY DEF MapInv
<1>9. /\ vb'[o].life = "unborn" => vb[o].life = "unborn" /\ IdsOf(vb'[o]) = {}
      /\ \A j \in IdsOf(vb'[o]) : j < shared'.nextId /\ j \in IdsOf(vb[o])
      /\ \A j \in shared'.registered :
            j \in IdsOf(vb'[o]) \/ j \in shared.registered \ IdsOf(vb[o])
  BY <1>2, <1>4, <1>5, <1>6, <1>8
<1> QED BY <1>4, <1>5, <1>6, <1>9, MapsChange

LEMMA NewRegistration ==
    ASSUME IInv, MapInv, NEW o \in Objects, NEW s \in Streams, NEW l,
           vb[o].idMap[s] = 0, shared.nextId <= MaxIds, vb[o].life # "unborn",
           vb' = [vb EXCEPT ![o].idMap[s] = shared.nextId,
                            ![o].listenerMap[shared.nextId] = {l}],
           shared' = [shared EXCEPT !.registered = @ \cup {shared.nextId},
                                    !.nextId = @ + 1],
           xhrs' \subseteq xhrs
    PROVE  MapInv'
<1> DEFINE p == vb[o]
           n == shared.nextId
           q == [p EXCEPT !.idMap[s] = n, !.listenerMap[n] = {l}]
<1>1. p \in ObjectData /\ Agrees(p) /\ shared \in SharedType
  BY Types, AgreeIs DEF MapInv
<1>2. n \in Ids /\ n \in Nat \ {0} /\ MaxIds \in Nat
  BY <1>1, ConstantsAssumption DEF SharedType, Ids
<1>3. \A j \in IdsOf(p) : j \in Nat /\ j < n
  BY IdTypes DEF MapInv
<1>4. shared'.nextId = n + 1 /\ shared'.registered = shared.registered \cup {n}
  BY <1>1 DEF SharedType
<1>5. vb' = [vb EXCEPT ![o] = q]
  OBVIOUS
<1> HIDE DEF n
<1>6. /\ q.life = p.life
      /\ q.idMap[s] = n /\ \A t \in Streams \ {s} : q.idMap[t] = p.idMap[t]
      /\ q.listenerMap[n] = {l}
      /\ \A j \in Ids \ {n} : q.listenerMap[j] = p.listenerMap[j]
  BY <1>1, <1>2 DEF ObjectData
<1> HIDE DEF q
<1>7. IdsOf(q) = IdsOf(p) \cup {n}
  BY <1>2, <1>6 DEF IdsOf
<1>8. \A t \in Streams : p.idMap[t] # n
  BY <1>2, <1>3 DEF IdsOf
<1>9. Agrees(q)
  BY <1>1, <1>2, <1>6, <1>7, <1>8 DEF Agrees
<1>10. vb'[o] = q
       /\ \A x \in Objects \ {o} : SameMaps(x) /\ SameLife(x)
  BY <1>5, <1>6, NewData
<1>11. /\ vb'[o].life # "unborn"
       /\ n + 1 \in Nat /\ n <= n + 1
       /\ \A j \in IdsOf(vb'[o]) : j < n + 1 /\ (j \in IdsOf(vb[o]) \/ j >= n)
       /\ \A j \in shared'.registered :
             j \in IdsOf(vb'[o]) \/ j \in shared.registered \ IdsOf(vb[o])
  <2>1. vb'[o].life # "unborn"
    BY <1>6, <1>10
  <2>2. n + 1 \in Nat /\ n <= n + 1
    BY <1>2
  <2>3. \A j \in IdsOf(p) : j < n + 1
    BY <1>2, <1>3
  <2>4. \A j \in IdsOf(vb'[o]) : j < n + 1 /\ (j \in IdsOf(vb[o]) \/ j >= n)
    BY <1>2, <1>7, <1>10, <2>3
  <2>5. n \in IdsOf(vb'[o]) /\ \A j \in IdsOf(p) : j \in IdsOf(vb'[o])
    BY <1>7, <1>10
  <2>6. \A j \in shared'.registered :
            j \in IdsOf(vb'[o]) \/ j \in shared.registered \ IdsOf(vb[o])
    BY <1>4, <2>5
  <2> QED BY <2>1, <2>2, <2>4, <2>6
<1> QED BY <1>4, <1>9, <1>10, <1>11, MapsChange DEF n

LEMMA RegisterMaps ==
    ASSUME IInv, MapInv, NEW o \in Objects, NEW s \in Streams, NEW l \in Listeners,
           Register(o, s, l), vb[o].life # "unborn", xhrs' \subseteq xhrs
    PROVE  MapInv'
<1> DEFINE i == vb[o].idMap[s]
<1>1. vb[o] \in ObjectData /\ xhrs \subseteq Objects \X Streams \X Listeners
  BY Types DEF RestTypes
<1>2. i \in Ids \cup {0}
  BY <1>1 DEF ObjectData
<1>3. CASE UNCHANGED <<vb, shared>>
  BY <1>3, NothingAfter, MapsAfterGood
<1>4. CASE /\ i # 0 /\ vb[o].listenerMap[i] # {} /\ UNCHANGED shared
           /\ vb' = [vb EXCEPT ![o].listenerMap[i] = @ \cup {l}]
  <2> DEFINE ls == vb[o].listenerMap[i] \cup {l}
  <2>1. ls \in SUBSET Listeners /\ ls # {}
    BY <1>1, <1>2, <1>4 DEF ObjectData
  <2>2. vb' = [vb EXCEPT ![o].listenerMap[i] = ls]
    BY <1>4
  <2> HIDE DEF ls
  <2> QED BY <1>2, <1>4, <2>1, <2>2, MoreListeners
<1>5. CASE /\ i = 0 /\ shared.nextId <= MaxIds
           /\ vb' = [vb EXCEPT ![o].idMap[s] = shared.nextId,
                               ![o].listenerMap[shared.nextId] = {l}]
           /\ shared' = [shared EXCEPT !.registered = @ \cup {shared.nextId},
                                       !.nextId = @ + 1]
  BY <1>5, NewRegistration
<1> QED BY <1>3, <1>4, <1>5 DEF Register

LEMMA RemoveMaps ==
    ASSUME IInv, MapInv, NEW o \in Objects, NEW s \in Streams, NEW l \in Listeners,
           RemoveStreamEventListener(o, s, l)
    PROVE  MapInv'
<1> DEFINE p == vb[o]
           id == p.idMap[s]
           left == p.listenerMap[id] \ {l}
           q == [p EXCEPT !.listenerMap[id] = left, !.idMap[s] = IF left = {} THEN 0 ELSE @]
<1>1. p \in ObjectData /\ Agrees(p) /\ shared \in SharedType
  BY Types, AgreeIs DEF MapInv
<1>2. id \in Ids /\ id # 0 /\ p.listenerMap[id] # {} /\ UNCHANGED xhrs
      /\ left \in SUBSET Listeners /\ p.life = "live"
  BY <1>1 DEF RemoveStreamEventListener, ObjectData, Call, Live
<1>3. vb' = [vb EXCEPT ![o] = q]
      /\ shared' = IF left = {} THEN [shared EXCEPT !.registered = @ \ {id}] ELSE shared
  BY DEF RemoveStreamEventListener
<1>4. CASE left # {}
  <2>1. vb' = [vb EXCEPT ![o].listenerMap[id] = left] /\ UNCHANGED shared
    <3> DEFINE r == [p EXCEPT !.listenerMap[id] = left]
    <3>1. q = r
      BY <1>1, <1>4 DEF ObjectData
    <3>2. vb' = [vb EXCEPT ![o] = r]
      BY <1>3, <3>1
    <3> QED BY <1>3, <1>4, <3>2
  <2> HIDE DEF left
  <2> QED BY <1>2, <1>4, <2>1, MoreListeners
<1>5. CASE left = {}
  <2>1. shared'.nextId = shared.nextId /\ shared'.registered = shared.registered \ {id}
    BY <1>1, <1>3, <1>5 DEF SharedType
  <2>2. /\ q.life = p.life
        /\ q.idMap[s] = 0 /\ \A t \in Streams \ {s} : q.idMap[t] = p.idMap[t]
        /\ q.listenerMap[id] = {}
        /\ \A j \in Ids \ {id} : q.listenerMap[j] = p.listenerMap[j]
    BY <1>1, <1>2, <1>5 DEF ObjectData
  <2> HIDE DEF q
  <2>3. \A t \in Streams \ {s} : p.idMap[t] # id
    BY <1>1, <1>2 DEF Agrees
  <2>4. IdsOf(q) = IdsOf(p) \ {id}
    BY <2>2, <2>3 DEF IdsOf
  <2>5. Agrees(q)
    BY <1>1, <1>2, <2>2, <2>4 DEF Agrees
  <2>6. vb'[o] = q
        /\ \A x \in Objects \ {o} : SameMaps(x) /\ SameLife(x)
    BY <1>3, <2>2, NewData
  <2>7. shared.nextId \in Nat /\ \A j \in IdsOf(p) : j < shared.nextId
    BY IdTypes DEF MapInv
  <2>8. /\ vb'[o].life # "unborn"
        /\ \A j \in IdsOf(vb'[o]) : j < shared'.nextId /\ j \in IdsOf(vb[o])
        /\ \A j \in shared'.registered :
              j \in IdsOf(vb'[o]) \/ j \in shared.registered \ IdsOf(vb[o])
    BY <1>2, <2>1, <2>2, <2>4, <2>6, <2>7
  <2> QED BY <1>2, <2>1, <2>5, <2>6, <2>7, <2>8, MapsChange
<1> QED BY <1>4, <1>5

LEMMA StreamEventErrorMaps ==
    ASSUME IInv, MapInv, NEW id \in Ids, StreamEventError(id)
    PROVE  MapInv'
<1> DEFINE hears(o) == vb[o].listening /\ vb[o].isBroadcastRelated
                       /\ vb[o].listenerMap[id] # {}
           q(o) == [vb[o] EXCEPT !.listenerMap[id] = {},
                                 !.idMap = [s \in Streams |-> IF @[s] = id THEN 0 ELSE @[s]]]
<1>1. /\ vb' = [o \in Objects |-> IF hears(o) THEN q(o) ELSE vb[o]]
      /\ shared' = [shared EXCEPT !.registered = @ \ {id}]
      /\ UNCHANGED xhrs
  BY DEF StreamEventError
<1>2. /\ \A o \in Objects : vb[o] \in ObjectData /\ Agrees(vb[o])
      /\ shared \in SharedType
      /\ \A o, x \in Objects : o # x => IdsOf(vb[o]) \cap IdsOf(vb[x]) = {}
      /\ shared.registered \subseteq UNION {IdsOf(vb[o]) : o \in Objects}
  BY Types, AgreeIs DEF MapInv
<1>3. shared'.nextId = shared.nextId /\ shared'.registered = shared.registered \ {id}
  BY <1>1, <1>2 DEF SharedType
<1>4. CASE \A o \in Objects : ~hears(o)
  <2>1. \A o \in Objects : vb'[o] = vb[o]
    BY <1>1, <1>4
  <2>2. StreamEventMapsAgree'
    <3>1. \A o \in Objects : Agrees(vb'[o])
      BY <1>2, <2>1
    <3>2. \A o, x \in Objects : o # x => IdsOf(vb'[o]) \cap IdsOf(vb'[x]) = {}
      BY <1>2, <2>1
    <3>3. shared'.registered \subseteq UNION {IdsOf(vb'[o]) : o \in Objects}
      BY <1>2, <1>3, <2>1
    <3> QED BY <3>1, <3>2, <3>3 DEF StreamEventMapsAgree, Agrees
  <2>3. \A x \in xhrs : x[1] \in Objects
    <3>1. xhrs \subseteq Objects \X Streams \X Listeners
      BY Types DEF RestTypes
    <3> QED BY <3>1
  <2> QED BY <1>1, <1>3, <2>1, <2>2, <2>3 DEF MapInv
<1>5. ASSUME NEW o \in Objects, hears(o)
      PROVE  MapInv'
  <2>1. id \in IdsOf(vb[o])
    BY <1>2, <1>5 DEF Agrees
  <2>2. \A x \in Objects \ {o} : ~hears(x)
    BY <1>2, <2>1 DEF Agrees
  <2>3. vb'[o] = q(o) /\ \A x \in Objects \ {o} : vb'[x] = vb[x]
    BY <1>1, <1>5, <2>2
  <2>4. /\ q(o).life = vb[o].life
        /\ \A s \in Streams : q(o).idMap[s] = IF vb[o].idMap[s] = id THEN 0
                                              ELSE vb[o].idMap[s]
        /\ q(o).listenerMap[id] = {}
        /\ \A j \in Ids \ {id} : q(o).listenerMap[j] = vb[o].listenerMap[j]
    BY <1>2 DEF ObjectData
  <2> DEFINE r == q(o)
  <2> HIDE DEF r, q
  <2>5. IdsOf(r) = IdsOf(vb[o]) \ {id}
    BY <2>4 DEF IdsOf, r
  <2>6. Agrees(r)
    BY <1>2, <2>4, <2>5 DEF Agrees, r
  <2>7. shared.nextId \in Nat /\ (\A j \in IdsOf(vb[o]) : j < shared.nextId)
        /\ (vb[o].life = "unborn" => IdsOf(vb[o]) = {})
    BY IdTypes DEF MapInv
  <2>8. vb'[o] = r /\ \A x \in Objects \ {o} : SameMaps(x) /\ SameLife(x)
    BY <2>3 DEF SameMaps, SameLife, r
  <2>9. vb'[o].life = vb[o].life
    BY <2>3, <2>4 DEF r
  <2>10. /\ vb'[o].life = "unborn" => vb[o].life = "unborn" /\ IdsOf(vb'[o]) = {}
         /\ \A j \in IdsOf(vb'[o]) : j < shared'.nextId /\ j \in IdsOf(vb[o])
         /\ \A j \in shared'.registered :
               j \in IdsOf(vb'[o]) \/ j \in shared.registered \ IdsOf(vb[o])
    BY <1>3, <2>5, <2>7, <2>8, <2>9
  <2> QED BY <1>1, <1>3, <2>6, <2>7, <2>8, <2>10, MapsChange
<1> QED BY <1>4, <1>5

LEMMA PageMaps ==
    ASSUME IInv, MapInv, NEW o \in Objects,
           \/ BindToCurrentChannel(o) \/ SetChannel(o) \/ SetChannelNull(o)
           \/ Release(o) \/ Stop(o) \/ CycleChannel(o)
    PROVE  MapInv'
<1>1. UNCHANGED xhrs
  BY DEF BindToCurrentChannel, SetChannel, SetChannelNull, Release, Stop, CycleChannel
<1>2. ASSUME BindToCurrentChannel(o) PROVE MapsAfter(o)
  BY <1>2, BindMaps DEF BindToCurrentChannel
<1>3. ASSUME SetChannel(o) PROVE MapsAfter(o)
  BY <1>3, ChangeChannelMaps DEF SetChannel
<1>4. ASSUME CycleChannel(o) PROVE MapsAfter(o)
  BY <1>4, ChangeChannelMaps, UnrealizeMaps DEF CycleChannel
<1>5. ASSUME Release(o) \/ SetChannelNull(o) PROVE MapsAfter(o)
  BY <1>5, ReleaseMaps DEF Release, SetChannelNull
<1>6. ASSUME Stop(o) PROVE MapsAfter(o)
  <2> DEFINE q == [vb[o] EXCEPT !.playState = "stopped"]
  <2>1. vb' = [vb EXCEPT ![o] = q] /\ UNCHANGED shared
    BY <1>6 DEF Stop
  <2>2. q.idMap = vb[o].idMap /\ q.listenerMap = vb[o].listenerMap /\ q.life = vb[o].life
    BY Types DEF ObjectData
  <2> HIDE DEF q
  <2> QED BY <2>1, <2>2, DataAfter
<1> QED BY <1>1, <1>2, <1>3, <1>4, <1>5, <1>6, MapsAfterGood

LEMMA InitialiseMaps ==
    ASSUME IInv, MapInv, NEW o \in Objects, Initialise(o)
    PROVE  MapInv'
<1> DEFINE q == Initialised(platform.tuned, platform.broadcastApp)
<1>1. q.idMap = NoIds /\ q.listenerMap = NoListeners /\ q.life = "live"
  BY DEF Initialised, Unborn
<1>2. /\ vb' = [vb EXCEPT ![o] = q] /\ vb[o].life = "unborn"
      /\ UNCHANGED <<shared, xhrs>>
  BY DEF Initialise
<1> HIDE DEF q
<1>3. vb'[o] = q /\ \A x \in Objects \ {o} : SameMaps(x) /\ SameLife(x)
  BY <1>2, Types DEF SameMaps, SameLife
<1>4. IdsOf(vb[o]) = {}
  BY <1>2 DEF MapInv
<1> QED BY <1>1, <1>2, <1>3, <1>4, MapsCleared

LEMMA CollectMaps ==
    ASSUME IInv, MapInv, NEW o \in Objects, Collect(o)
    PROVE  MapInv'
<1> DEFINE q == [vb[o] EXCEPT !.life = "collected", !.listening = FALSE]
<1>1. vb' = [vb EXCEPT ![o] = q] /\ vb[o].life = "live" /\ UNCHANGED <<shared, xhrs>>
  BY DEF Collect, Live
<1>2. q.idMap = vb[o].idMap /\ q.listenerMap = vb[o].listenerMap /\ q.life = "collected"
  BY Types DEF ObjectData
<1> HIDE DEF q
<1>3. MapsAfter(o)
  BY <1>1, <1>2, DataAfter
<1> QED BY <1>1, <1>3, MapsAfterGood

LEMMA UnchangedAgree ==
    ASSUME StreamEventMapsAgree, UNCHANGED <<vb, shared>>
    PROVE  StreamEventMapsAgree'
<1>1. \A o \in Objects : Agrees(vb'[o])
  BY AgreeIs
<1>2. \A o, q \in Objects : o # q => IdsOf(vb'[o]) \cap IdsOf(vb'[q]) = {}
  BY AgreeIs
<1>3. shared'.registered \subseteq UNION {IdsOf(vb'[o]) : o \in Objects}
  BY AgreeIs
<1> QED BY <1>1, <1>2, <1>3 DEF StreamEventMapsAgree, Agrees

\* A listener for an event that a file describes is registered when the file
\* arrives: until then only the object it is for is remembered.
LEMMA AddMaps ==
    ASSUME IInv, MapInv, NEW o \in Objects, NEW s \in Streams, NEW l \in Listeners,
           AddStreamEventListener(o, s, l)
    PROVE  MapInv'
<1>1. vb[o].life = "live"
  BY DEF AddStreamEventListener, Call, Live
<1>2. CASE Register(o, s, l) /\ UNCHANGED xhrs
  BY <1>1, <1>2, RegisterMaps
<1>3. CASE xhrs' = xhrs \cup {<<o, s, l>>} /\ UNCHANGED <<vb, shared>>
  <2>1. \A x \in xhrs' : vb'[x[1]].life # "unborn"
    BY <1>1, <1>3 DEF MapInv
  <2>2. StreamEventMapsAgree'
    BY <1>3, UnchangedAgree DEF MapInv
  <2>3. /\ \A q \in Objects : \A i \in IdsOf(vb'[q]) : i < shared'.nextId
        /\ \A q \in Objects : vb'[q].life = "unborn" => IdsOf(vb'[q]) = {}
    BY <1>3 DEF MapInv
  <2> QED BY <2>1, <2>2, <2>3 DEF MapInv
<1> QED BY <1>2, <1>3 DEF AddStreamEventListener

LEMMA LoadEndMaps ==
    ASSUME IInv, MapInv, NEW x \in xhrs, LoadEnd(x)
    PROVE  MapInv'
<1>1. x \in Objects \X Streams \X Listeners
  BY Types DEF RestTypes
<1>2. x[1] \in Objects /\ x[2] \in Streams /\ x[3] \in Listeners
  BY <1>1
<1>3. xhrs' \subseteq xhrs /\ vb[x[1]].life # "unborn"
  BY DEF LoadEnd, MapInv
<1>4. CASE UNCHANGED <<vb, shared>>
  BY <1>2, <1>3, <1>4, NothingAfter, MapsAfterGood
<1> QED BY <1>2, <1>3, <1>4, RegisterMaps DEF LoadEnd

LEMMA HandleMaps ==
    ASSUME IInv, MapInv, NEW o \in Objects, Handle(o)
    PROVE  MapInv'
BY HandledMaps, MapsAfterGood DEF Handle

LEMMA InitMaps == Init => MapInv
<1> SUFFICES ASSUME Init PROVE MapInv
  OBVIOUS
<1>1. PICK c \in Channels :
         vb = [o \in Objects |-> IF o \in Transient THEN Unborn ELSE Initialised(c, TRUE)]
  BY DEF Init
<1>2. \A o \in Objects : vb[o].idMap = NoIds /\ vb[o].listenerMap = NoListeners
  BY <1>1 DEF Initialised, Unborn
<1>3. \A o \in Objects : /\ IdsOf(vb[o]) = {}
                         /\ {i \in Ids : vb[o].listenerMap[i] # {}} = {}
                         /\ \A s \in Streams : vb[o].idMap[s] = 0
  BY <1>2 DEF IdsOf, NoIds, NoListeners
<1>4. shared.registered = {} /\ xhrs = {}
  BY DEF Init
<1> QED BY <1>3, <1>4 DEF MapInv, StreamEventMapsAgree

LEMMA UnchangedMaps ==
    ASSUME MapInv, UNCHANGED <<vb, shared, xhrs>>
    PROVE  MapInv'
BY UnchangedAgree DEF MapInv

LEMMA MapStepGood == IInv /\ MapInv /\ [Next]_vars => MapInv'
<1> SUFFICES ASSUME IInv, MapInv, [Next]_vars PROVE MapInv'
  OBVIOUS
<1>1. CASE PageStep
  BY <1>1, InitialiseMaps, PageMaps, AddMaps, RemoveMaps DEF PageStep
<1>2. CASE LoopStep
  <2>1. CASE DispatchEvent
    BY <2>1, UnchangedMaps DEF DispatchEvent
  <2> QED BY <1>2, <2>1, ReturnMaps, HandleMaps, CollectMaps, LoadEndMaps DEF LoopStep
<1>3. CASE PlatformStep
  <2>1. CASE \E id \in Ids : StreamEventError(id)
    BY <2>1, StreamEventErrorMaps
  <2>2. CASE UNCHANGED <<vb, shared, xhrs>>
    BY <2>2, UnchangedMaps
  <2> QED BY <1>3, <2>1, <2>2
          DEF PlatformStep, TunesAsRequested, TransitionsToBroadcastRelated, TunesForViewer,
              Reports, PlatformEvent
<1>4. CASE UNCHANGED vars
  BY <1>4, UnchangedMaps DEF vars
<1> QED BY <1>1, <1>2, <1>3, <1>4 DEF Next

(* streamEventListenerIdMap and streamEventListenerMap of every object stay   *)
(* inverse to each other, no id the bridge handed out serves two events or    *)
(* two objects, and the bridge holds no registration that no object knows:    *)
(* through files that arrive late, errors of the platform, channel changes    *)
(* and objects that are collected, for any number of objects, events and ids. *)
THEOREM StreamEventMapsCorrect == Spec => []StreamEventMapsAgree
<1>1. MapInv => StreamEventMapsAgree
  BY DEF MapInv
<1> QED BY <1>1, Invariance, InitMaps, MapStepGood, PTL DEF Spec

-----------------------------------------------------------------------------
(* The channel an object reports                                            *)

Announced(q, c) == \E i \in 1 .. Len(q) : q[i].status = "connecting" /\ q[i].channel = c

\* The platform is still to tell the page of the channel it is, or will be, tuned to.
Coming ==
    \/ platform.tuned = NoChannel
    \/ platform.requested # NoChannel
    \/ Announced(platform.events, platform.tuned)

UpToDate(p, c) == p.life = "live" /\ p.playState \in Active /\ p.listening => p.channel = c

\* Unfinished binds: the channel they record is c; one of them is object o's.
BindsFit(s, c) == \A i \in 1 .. Len(s) : s[i].what = "bind" => s[i].channel = c
Binding(s, o) == \E i \in 1 .. Len(s) : s[i].what = "bind" /\ s[i].obj = o

\* The event being dispatched will bring object o the platform's channel.
BeingTold(o) == o \in todo /\ current.status = "connecting" /\ current.channel = platform.tuned

\* When nothing is coming, an object that is behind is the next to be told or is
\* in the middle of a bind, and what an unfinished bind records is the channel.
FollowInv ==
    ~page.linked /\ ~Coming =>
        /\ BindsFit(stack, platform.tuned)
        /\ \A o \in Objects :
              UpToDate(vb[o], platform.tuned) \/ BeingTold(o) \/ Binding(stack, o)

LEMMA FollowImplies == FollowInv => ChannelFollows
<1> SUFFICES ASSUME FollowInv, ~page.linked, Idle, platform.events = <<>>,
                    platform.requested = NoChannel, platform.tuned # NoChannel,
                    NEW o \in Objects, Live(o), vb[o].playState \in Active, vb[o].listening
             PROVE  vb[o].channel = platform.tuned
  BY DEF ChannelFollows
<1>1. ~Coming /\ ~Binding(stack, o) /\ ~BeingTold(o)
  BY DEF Coming, Announced, Binding, BeingTold, Idle
<1> QED BY <1>1 DEF FollowInv, UpToDate, Live

\* What a step that concerns object o must satisfy: the others keep what they
\* have, and o is up to date, binds, or keeps what it had.
SameFollow(x) ==
    /\ vb'[x].life = vb[x].life /\ vb'[x].listening = vb[x].listening
    /\ vb'[x].playState \in Active => vb[x].playState \in Active
    /\ vb'[x].channel = vb[x].channel

Follows(o) ==
    /\ \A x \in Objects \ {o} : vb'[x] = vb[x]
    /\ BindsFit(stack, platform.tuned) => BindsFit(stack', platform.tuned)
    /\ \A x \in Objects \ {o} : Binding(stack, x) => Binding(stack', x)
    /\ todo \ {o} \subseteq todo'
    /\ \A x \in todo' : /\ current'.status = current.status
                        /\ current'.channel = current.channel
    /\ \/ UpToDate(vb'[o], platform.tuned)
       \/ Binding(stack', o)
       \/ /\ SameFollow(o)
          /\ Binding(stack, o) => Binding(stack', o)
          /\ BeingTold(o) => o \in todo'

LEMMA FollowsGood ==
    ASSUME FollowInv, NEW o \in Objects, page' = page,
           ~page.linked /\ ~Coming' => /\ ~Coming /\ platform'.tuned = platform.tuned
                                       /\ Follows(o)
    PROVE  FollowInv'
<1> SUFFICES ASSUME ~page.linked, ~Coming'
             PROVE  /\ BindsFit(stack', platform'.tuned)
                    /\ \A x \in Objects : \/ UpToDate(vb'[x], platform'.tuned)
                                          \/ BeingTold(x)' \/ Binding(stack', x)
  BY DEF FollowInv
<1>1. /\ BindsFit(stack, platform.tuned) /\ platform'.tuned = platform.tuned /\ Follows(o)
      /\ \A x \in Objects :
            UpToDate(vb[x], platform.tuned) \/ BeingTold(x) \/ Binding(stack, x)
  BY DEF FollowInv
<1>2. BindsFit(stack', platform'.tuned)
  BY <1>1 DEF Follows
<1>3. ASSUME NEW x \in Objects \ {o}
      PROVE  UpToDate(vb'[x], platform'.tuned) \/ BeingTold(x)' \/ Binding(stack', x)
  BY <1>1 DEF Follows, BeingTold
<1>4. UpToDate(vb'[o], platform'.tuned) \/ BeingTold(o)' \/ Binding(stack', o)
  <2>1. CASE SameFollow(o) /\ UpToDate(vb[o], platform.tuned)
    BY <1>1, <2>1 DEF SameFollow, UpToDate
  <2>2. CASE BeingTold(o) /\ o \in todo'
    BY <1>1, <2>2 DEF Follows, BeingTold
  <2> QED BY <1>1, <2>1, <2>2 DEF Follows
<1> QED BY <1>2, <1>3, <1>4

\* Announcing a channel keeps what was announced; a report or a transition
\* announces nothing.
LEMMA AnnouncedMore ==
    ASSUME NEW q \in Seq(Event), NEW status \in Statuses, NEW c \in SomeChannel, NEW d
    PROVE  LET r == Append(q, [status |-> status, channel |-> c])
           IN  /\ Announced(q, d) => Announced(r, d)
               /\ status = "connecting" => Announced(r, c)
<1> DEFINE e == [status |-> status, channel |-> c]
           r == Append(q, e)
<1>1. e.status = status /\ e.channel = c /\ e \in Event
  BY DEF Event
<1> HIDE DEF e
<1>2. /\ Len(r) = Len(q) + 1 /\ Len(q) \in Nat /\ r[Len(r)] = e
      /\ \A i \in 1 .. Len(q) : r[i] = q[i]
  BY <1>1
<1> HIDE DEF r
<1>3. (\A i \in 1 .. Len(q) : i \in 1 .. Len(r)) /\ Len(r) \in 1 .. Len(r)
  BY <1>2
<1>4. Announced(q, d) => Announced(r, d)
  BY <1>2, <1>3 DEF Announced
<1>5. status = "connecting" => Announced(r, c)
  BY <1>1, <1>2, <1>3 DEF Announced
<1> QED BY <1>4, <1>5 DEF r, e

LEMMA TunedComing ==
    ASSUME platform \in PlatformType, NEW c \in Channels, NEW q \in SomeChannel,
           platform' = [Tuned(c) EXCEPT !.requested = q]
    PROVE  Coming'
<1> DEFINE es == Append(platform.events, [status |-> "connecting", channel |-> c])
<1>1. platform.events \in Seq(Event)
  BY DEF PlatformType
<1>2. Announced(es, c)
  BY <1>1, AnnouncedMore DEF Statuses, SomeChannel
<1>3. platform' = [platform EXCEPT !.tuned = c, !.requested = q, !.events = es]
  BY DEF Tuned, PlatformType
<1> HIDE DEF es
<1>4. platform'.tuned = c /\ platform'.events = es
  BY <1>3 DEF PlatformType
<1> QED BY <1>2, <1>4 DEF Coming

LEMMA TakesComing ==
    ASSUME platform \in PlatformType, NEW c \in Channels, platform' \in Takes(c)
    PROVE  Coming'
<1>1. CASE platform' = [platform EXCEPT !.requested = c]
  BY <1>1, ConstantsAssumption DEF Coming, PlatformType
<1>2. CASE platform' = Tuned(c)
  <2>1. platform' = [Tuned(c) EXCEPT !.requested = NoChannel]
    BY <1>2 DEF Tuned, PlatformType
  <2> QED BY <2>1, TunedComing DEF SomeChannel
<1> QED BY <1>1, <1>2 DEF Takes

\* Steps on the stack: nothing, a new method waiting, the last one done.
LEMMA StackSame ==
    ASSUME UNCHANGED stack, NEW o
    PROVE  /\ BindsFit(stack, platform.tuned) => BindsFit(stack', platform.tuned)
           /\ \A x : Binding(stack, x) => Binding(stack', x)
OBVIOUS

LEMMA StackPush ==
    ASSUME stack \in Seq(Waiting), NEW k \in Waiting, Push(k),
           k.what = "bind" => k.channel = platform.tuned
    PROVE  /\ BindsFit(stack, platform.tuned) => BindsFit(stack', platform.tuned)
           /\ \A x : Binding(stack, x) => Binding(stack', x)
           /\ k.what = "bind" => Binding(stack', k.obj)
<1>1. /\ Len(stack) \in Nat /\ Len(stack') = Len(stack) + 1 /\ stack'[Len(stack')] = k
      /\ \A i \in 1 .. Len(stack) : stack'[i] = stack[i]
  BY DEF Push
<1>2. /\ \A i \in 1 .. Len(stack) : i \in 1 .. Len(stack')
      /\ Len(stack') \in 1 .. Len(stack')
      /\ \A i \in 1 .. Len(stack') : i \in 1 .. Len(stack) \/ i = Len(stack')
  BY <1>1
<1>3. BindsFit(stack, platform.tuned) => BindsFit(stack', platform.tuned)
  BY <1>1, <1>2 DEF BindsFit
<1>4. \A x : Binding(stack, x) => Binding(stack', x)
  BY <1>1, <1>2 DEF Binding
<1>5. k.what = "bind" => Binding(stack', k.obj)
  BY <1>1, <1>2 DEF Binding
<1> QED BY <1>3, <1>4, <1>5

LEMMA StackPop ==
    ASSUME stack \in Seq(Waiting), stack # <<>>,
           stack' = SubSeq(stack, 1, Len(stack) - 1)
    PROVE  LET k == stack[Len(stack)]
           IN  /\ BindsFit(stack, platform.tuned) =>
                     /\ BindsFit(stack', platform.tuned)
                     /\ k.what = "bind" => k.channel = platform.tuned
               /\ \A x : Binding(stack, x) /\ (k.what = "bind" => k.obj # x) =>
                            Binding(stack', x)
<1> DEFINE k == stack[Len(stack)]
<1>1. /\ Len(stack) \in Nat \ {0} /\ Len(stack') = Len(stack) - 1
      /\ \A i \in 1 .. Len(stack') : stack'[i] = stack[i]
  <2>1. Len(stack) \in Nat \ {0}
    OBVIOUS
  <2>2. Len(stack) - 1 \in 0 .. Len(stack)
    BY <2>1
  <2>3. /\ Len(SubSeq(stack, 1, Len(stack) - 1)) = Len(stack) - 1
        /\ \A i \in 1 .. Len(stack) - 1 : SubSeq(stack, 1, Len(stack) - 1)[i] = stack[i]
    <3>1. \A i \in 1 .. Len(stack) - 1 : stack[i] \in Waiting
      BY <2>1
    <3> DEFINE n == Len(stack) - 1
    <3>2. n \in Int /\ 1 \in Int /\ n >= 0
      BY <2>1
    <3> HIDE DEF n
    <3>3. /\ Len(SubSeq(stack, 1, n)) = IF 1 <= n THEN n - 1 + 1 ELSE 0
          /\ \A i \in 1 .. n - 1 + 1 : SubSeq(stack, 1, n)[i] = stack[1 + i - 1]
      BY <3>1, <3>2, SubSeqProperties DEF n
    <3>4. Len(SubSeq(stack, 1, n)) = n
      BY <3>2, <3>3
    <3>5. ASSUME NEW i \in 1 .. n PROVE SubSeq(stack, 1, n)[i] = stack[i]
      <4>1. i \in 1 .. n - 1 + 1 /\ 1 + i - 1 = i
        BY <3>2
      <4> QED BY <3>3, <4>1
    <3> QED BY <3>4, <3>5 DEF n
  <2> QED BY <2>1, <2>2, <2>3
<1>2. /\ \A i \in 1 .. Len(stack') : i \in 1 .. Len(stack)
      /\ Len(stack) \in 1 .. Len(stack)
      /\ \A i \in 1 .. Len(stack) : i \in 1 .. Len(stack') \/ i = Len(stack)
  BY <1>1
<1>3. BindsFit(stack, platform.tuned) => BindsFit(stack', platform.tuned)
                                        /\ (k.what = "bind" => k.channel = platform.tuned)
  BY <1>1, <1>2 DEF BindsFit
<1>4. ASSUME NEW x, Binding(stack, x), k.what = "bind" => k.obj # x
      PROVE  Binding(stack', x)
  <2>1. PICK i \in 1 .. Len(stack) : stack[i].what = "bind" /\ stack[i].obj = x
    BY <1>4 DEF Binding
  <2>2. i # Len(stack)
    BY <1>4, <2>1
  <2> QED BY <1>1, <1>2, <2>1, <2>2 DEF Binding
<1> QED BY <1>3, <1>4

\* An object whose data is replaced by q.
LEMMA FollowData ==
    ASSUME IInv, NEW o \in Objects, NEW q, vb' = [vb EXCEPT ![o] = q],
           \/ q.channel = platform.tuned
           \/ ~q.listening \/ q.life # "live" \/ q.playState \notin Active
           \/ /\ q.life = vb[o].life /\ q.listening = vb[o].listening
              /\ q.playState \in Active => vb[o].playState \in Active
              /\ q.channel = vb[o].channel
    PROVE  /\ \A x \in Objects \ {o} : vb'[x] = vb[x]
           /\ UpToDate(vb'[o], platform.tuned) \/ SameFollow(o)
<1>1. vb'[o] = q /\ \A x \in Objects \ {o} : vb'[x] = vb[x]
  BY Types
<1> QED BY <1>1 DEF UpToDate, SameFollow

\* A step that leaves the stack, the dispatching and the other objects alone.
LEMMA FollowsCalm ==
    ASSUME NEW o \in Objects, UNCHANGED <<stack, current>>,
           todo \ {o} \subseteq todo', todo' \subseteq todo,
           \A x \in Objects \ {o} : vb'[x] = vb[x],
           \/ UpToDate(vb'[o], platform.tuned)
           \/ SameFollow(o) /\ (o \in todo => o \in todo')
    PROVE  Follows(o)
BY DEF Follows, BeingTold

LEMMA NothingFollows ==
    ASSUME NEW o \in Objects, UNCHANGED <<vb, todo, current>>,
           BindsFit(stack, platform.tuned) => BindsFit(stack', platform.tuned),
           \A x : Binding(stack, x) => Binding(stack', x)
    PROVE  Follows(o)
BY DEF Follows, SameFollow, BeingTold

LEMMA BindFollows ==
    ASSUME IInv, NEW o \in Objects, Bind(o), UNCHANGED <<todo, current>>
    PROVE  Follows(o)
<1> DEFINE p == vb[o]
           out == ~p.isBroadcastRelated \/ ~platform.broadcastApp \/ p.playState \in Active
<1>1. /\ stack \in Seq(Waiting) /\ platform \in PlatformType /\ p \in ObjectData
      /\ vb \in [Objects -> ObjectData]
  BY Types DEF RestTypes
<1>2. CASE out
  BY <1>2, NothingFollows DEF Bind
<1>3. CASE ~out
  <2>1. PICK present \in BOOLEAN : Push(BindDone(o, present, platform.tuned))
    <3>1. page.linked \in BOOLEAN
      BY Types DEF RestTypes
    <3>2. /\ (page.linked /\ p.playState = "stopped") \in BOOLEAN
          /\ FALSE \in BOOLEAN
      OBVIOUS
    <3> QED BY <1>3, <3>2 DEF Bind
  <2>2. BindDone(o, present, platform.tuned) \in Waiting
    BY <1>1 DEF BindDone, Waiting, PlatformType
  <2>3. /\ BindsFit(stack, platform.tuned) => BindsFit(stack', platform.tuned)
        /\ \A x : Binding(stack, x) => Binding(stack', x)
        /\ Binding(stack', o)
    BY <1>1, <2>1, <2>2, StackPush DEF BindDone
  <2>4. \A x \in Objects \ {o} : vb'[x] = vb[x]
    <3>1. \/ vb' = vb
          \/ \E q : vb' = [vb EXCEPT ![o] = q]
      BY <1>3 DEF Bind
    <3> QED BY <1>1, <3>1
  <2> QED BY <2>3, <2>4 DEF Follows
<1> QED BY <1>2, <1>3

LEMMA ChangeChannelFollows ==
    ASSUME IInv, NEW o \in Objects, NEW c \in Channels, NEW quiet \in BOOLEAN,
           ChangeChannel(o, c, quiet), UNCHANGED current, ~Coming'
    PROVE  Follows(o) /\ platform' = platform
<1> DEFINE p == vb[o]
           fresh == p.playState \notin Active
<1>1. /\ p \in ObjectData /\ platform \in PlatformType
      /\ UNCHANGED stack
  BY Types DEF RestTypes, ChangeChannel
<1>2. CASE UNCHANGED <<vb, todo, platform>>
  BY <1>1, <1>2, NothingFollows
<1>3. ASSUME NEW notInTs \in BOOLEAN, SetChannelFails(o, fresh, notInTs)
      PROVE  Follows(o) /\ platform' = platform
  <2> DEFINE q == [p EXCEPT !.isTransitioning = FALSE,
                            !.listening = @ /\ ~fresh,
                            !.playState = IF notInTs THEN "unrealized" ELSE @]
  <2>1. /\ vb' = [vb EXCEPT ![o] = q] /\ UNCHANGED platform
        /\ todo' = IF fresh THEN todo \ {o} ELSE todo
    BY <1>3 DEF SetChannelFails
  <2>2. /\ q.life = p.life /\ q.channel = p.channel
        /\ q.listening = (p.listening /\ ~fresh)
        /\ q.playState \in {p.playState, "unrealized"}
    BY <1>1 DEF ObjectData
  <2> HIDE DEF q
  <2>3. CASE fresh
    <3>1. ~q.listening
      BY <2>2, <2>3
    <3>2. ~SameFollow(o) \/ UpToDate(vb'[o], platform.tuned)
      BY <2>1, <3>1, Types DEF UpToDate
    <3>3. /\ \A x \in Objects \ {o} : vb'[x] = vb[x]
          /\ UpToDate(vb'[o], platform.tuned) \/ SameFollow(o)
      BY <2>1, <3>1, FollowData
    <3> QED BY <1>1, <2>1, <2>3, <3>2, <3>3, FollowsCalm
  <2>4. CASE ~fresh
    <3>1. /\ q.listening = p.listening
          /\ q.playState \in Active => p.playState \in Active
      BY <1>1, <2>2, <2>4 DEF ObjectData
    <3>2. /\ \A x \in Objects \ {o} : vb'[x] = vb[x]
          /\ UpToDate(vb'[o], platform.tuned) \/ SameFollow(o)
      BY <2>1, <2>2, <3>1, FollowData
    <3> QED BY <1>1, <2>1, <2>4, <3>2, FollowsCalm
  <2> QED BY <2>3, <2>4
<1>4. ~SetChannelAccepted(o, fresh, quiet, c)
  BY <1>1, TakesComing DEF SetChannelAccepted
<1> QED BY <1>2, <1>3, <1>4 DEF ChangeChannel

\* An object that is deaf or inactive after the step is up to date.
LEMMA DeafFollows ==
    ASSUME IInv, NEW o \in Objects, NEW q, vb' = [vb EXCEPT ![o] = q],
           ~q.listening \/ q.life # "live" \/ q.playState \notin Active
    PROVE  /\ \A x \in Objects \ {o} : vb'[x] = vb[x]
           /\ UpToDate(vb'[o], platform.tuned)
<1>1. vb'[o] = q /\ \A x \in Objects \ {o} : vb'[x] = vb[x]
  BY Types
<1> QED BY <1>1 DEF UpToDate

LEMMA ReleaseFollows ==
    ASSUME IInv, NEW o \in Objects, ReleaseEffect(o), UNCHANGED current,
           BindsFit(stack, platform.tuned) => BindsFit(stack', platform.tuned),
           \A x : Binding(stack, x) => Binding(stack', x)
    PROVE  Follows(o)
<1> DEFINE p == vb[o]
<1>1. p \in ObjectData
  BY Types
<1>2. CASE ~p.isBroadcastRelated
  BY <1>2, NothingFollows DEF ReleaseEffect
<1>3. ASSUME p.isBroadcastRelated
      PROVE  /\ todo' = todo \ {o}
             /\ \E q : vb' = [vb EXCEPT ![o] = q] /\ ~q.listening
  <2>1. CASE p.playState = "unrealized"
    <3> DEFINE q == [p EXCEPT !.listening = FALSE]
    <3>1. vb' = [vb EXCEPT ![o] = q] /\ todo' = todo \ {o}
      BY <1>3, <2>1 DEF ReleaseEffect
    <3>2. ~q.listening
      BY <1>1 DEF ObjectData
    <3> QED BY <3>1, <3>2
  <2>2. CASE p.playState # "unrealized"
    <3> DEFINE r == WithoutStreamEvents(p)
               q == [r EXCEPT !.listening = FALSE, !.playState = "unrealized",
                              !.channel = NoChannel]
    <3>1. vb' = [vb EXCEPT ![o] = q] /\ todo' = todo \ {o}
      BY <1>3, <2>2 DEF ReleaseEffect
    <3>2. r \in ObjectData
      BY <1>1, WithoutEventsType
    <3>3. ~q.listening
      BY <3>2 DEF ObjectData
    <3> QED BY <3>1, <3>3
  <2> QED BY <2>1, <2>2
<1>4. ASSUME p.isBroadcastRelated, NEW q, vb' = [vb EXCEPT ![o] = q], ~q.listening,
             todo' = todo \ {o}
      PROVE  Follows(o)
  <2>1. /\ \A x \in Objects \ {o} : vb'[x] = vb[x]
        /\ UpToDate(vb'[o], platform.tuned)
    BY <1>4, DeafFollows
  <2> QED BY <1>4, <2>1 DEF Follows
<1> QED BY <1>2, <1>3, <1>4

LEMMA PageFollows ==
    ASSUME IInv, FollowInv, NEW o \in Objects,
           \/ BindToCurrentChannel(o) \/ SetChannel(o) \/ SetChannelNull(o)
           \/ Release(o) \/ Stop(o) \/ CycleChannel(o) \/ Initialise(o)
    PROVE  FollowInv'
<1>1. /\ vb[o] \in ObjectData /\ stack \in Seq(Waiting)
      /\ vb \in [Objects -> ObjectData] /\ todo \subseteq Objects
  BY Types
<1>2. page' = page
  BY DEF BindToCurrentChannel, SetChannel, SetChannelNull, Release, Stop, CycleChannel,
         Initialise
<1>3. CASE BindToCurrentChannel(o)
  <2>1. Follows(o) /\ platform' = platform
    BY <1>3, BindFollows DEF BindToCurrentChannel
  <2> QED BY <1>2, <2>1, FollowsGood DEF Coming
<1>4. CASE SetChannel(o)
  <2>1. ~Coming' => Follows(o) /\ platform' = platform
    BY <1>4, ChangeChannelFollows DEF SetChannel
  <2> QED BY <1>2, <2>1, FollowsGood DEF Coming
<1>5. CASE CycleChannel(o)
  <2>1. ASSUME NEW c \in Channels, ChangeChannel(o, c, FALSE), ~Coming'
        PROVE  Follows(o) /\ platform' = platform
    BY <1>5, <2>1, ChangeChannelFollows DEF CycleChannel
  <2>2. ASSUME Unrealize(o), UNCHANGED <<stack, todo, platform>>
        PROVE  Follows(o) /\ platform' = platform
    <3> DEFINE q == [WithoutStreamEvents(vb[o]) EXCEPT !.playState = "unrealized"]
    <3>1. vb' = [vb EXCEPT ![o] = q] /\ UNCHANGED current
      BY <1>5, <2>2 DEF Unrealize, CycleChannel
    <3>2. q.playState \notin Active
      BY <1>1, WithoutEventsType DEF ObjectData, Active
    <3> HIDE DEF q
    <3>3. /\ \A x \in Objects \ {o} : vb'[x] = vb[x]
          /\ UpToDate(vb'[o], platform.tuned)
      BY <3>1, <3>2, DeafFollows
    <3> QED BY <2>2, <3>1, <3>3, FollowsCalm
  <2>3. ~Coming' => Follows(o) /\ platform' = platform
    BY <1>5, <2>1, <2>2 DEF CycleChannel
  <2> QED BY <1>2, <2>3, FollowsGood DEF Coming
<1>6. CASE Release(o)
  <2>1. UNCHANGED <<stack, current, platform>> /\ ReleaseEffect(o)
    BY <1>6 DEF Release
  <2>2. Follows(o)
    BY <2>1, StackSame, ReleaseFollows
  <2> QED BY <1>2, <2>1, <2>2, FollowsGood DEF Coming
<1>7. CASE SetChannelNull(o)
  <2>1. UNCHANGED <<current, platform>> /\ ReleaseEffect(o)
    BY <1>7 DEF SetChannelNull
  <2>2. /\ BindsFit(stack, platform.tuned) => BindsFit(stack', platform.tuned)
        /\ \A x : Binding(stack, x) => Binding(stack', x)
    <3> DEFINE k == [what |-> "null", obj |-> o, inPage |-> ReleaseDispatches(o),
                     present |-> FALSE, channel |-> NoChannel]
    <3>1. CASE Push(k)
      <4>1. ReleaseDispatches(o) \in BOOLEAN
        BY DEF ReleaseDispatches
      <4>2. k \in Waiting /\ k.what # "bind"
        BY <4>1 DEF Waiting, SomeChannel
      <4> HIDE DEF k
      <4> QED BY <1>1, <3>1, <4>2, StackPush
    <3> QED BY <1>7, <3>1, StackSame DEF SetChannelNull
  <2>3. Follows(o)
    BY <2>1, <2>2, ReleaseFollows
  <2> QED BY <1>2, <2>1, <2>3, FollowsGood DEF Coming
<1>8. CASE Stop(o)
  <2> DEFINE q == [vb[o] EXCEPT !.playState = "stopped"]
  <2>1. vb' = [vb EXCEPT ![o] = q] /\ UNCHANGED <<stack, todo, current, platform>>
    BY <1>8 DEF Stop
  <2>2. q.playState \notin Active
    BY <1>1 DEF ObjectData, Active
  <2> HIDE DEF q
  <2>3. Follows(o)
    BY <2>1, <2>2, DeafFollows, FollowsCalm
  <2> QED BY <1>2, <2>1, <2>3, FollowsGood DEF Coming
<1>9. CASE Initialise(o)
  <2> DEFINE q == Initialised(platform.tuned, platform.broadcastApp)
  <2>1. vb' = [vb EXCEPT ![o] = q] /\ UNCHANGED <<stack, todo, current, platform>>
    BY <1>9 DEF Initialise
  <2>2. q.playState \notin Active
    BY DEF Initialised, Unborn, Active
  <2> HIDE DEF q
  <2>3. Follows(o)
    BY <2>1, <2>2, DeafFollows, FollowsCalm
  <2> QED BY <1>2, <2>1, <2>3, FollowsGood DEF Coming
<1> QED BY <1>3, <1>4, <1>5, <1>6, <1>7, <1>8, <1>9

\* Of the stream event operations no object's channel, life or state is touched.
LEMMA EventsFollow ==
    ASSUME FollowInv, UNCHANGED <<stack, todo, current, platform, page>>,
           \A x \in Objects : SameFollow(x)
    PROVE  FollowInv'
BY DEF FollowInv, Coming, UpToDate, SameFollow, BeingTold

LEMMA KeptFollows ==
    ASSUME NEW x, \A f \in Kept : vb'[x][f] = vb[x][f]
    PROVE  SameFollow(x)
BY DEF Kept, SameFollow

LEMMA StreamEventFollows ==
    ASSUME IInv, FollowInv,
           \/ \E o \in Objects, s \in Streams, l \in Listeners :
                 AddStreamEventListener(o, s, l) \/ RemoveStreamEventListener(o, s, l)
           \/ \E x \in xhrs : LoadEnd(x)
           \/ \E id \in Ids : StreamEventError(id)
    PROVE  FollowInv'
<1>1. UNCHANGED <<stack, todo, current, platform, page>>
  <2>1. ASSUME NEW o \in Objects, NEW s \in Streams, NEW l \in Listeners,
               AddStreamEventListener(o, s, l) \/ RemoveStreamEventListener(o, s, l)
        PROVE  UNCHANGED <<stack, todo, current, platform, page>>
    BY <2>1 DEF AddStreamEventListener, RemoveStreamEventListener
  <2>2. ASSUME NEW x \in xhrs, LoadEnd(x)
        PROVE  UNCHANGED <<stack, todo, current, platform, page>>
    BY <2>2 DEF LoadEnd
  <2>3. ASSUME NEW id \in Ids, StreamEventError(id)
        PROVE  UNCHANGED <<stack, todo, current, platform, page>>
    BY <2>3 DEF StreamEventError
  <2> QED BY <2>1, <2>2, <2>3
<1>2. ASSUME UNCHANGED vb PROVE \A x \in Objects : SameFollow(x)
  BY <1>2 DEF SameFollow
<1>3. ASSUME NEW o \in Objects, NEW s \in Streams, NEW l \in Listeners,
             AddStreamEventListener(o, s, l)
      PROVE  \A x \in Objects : SameFollow(x)
  <2>1. CASE UNCHANGED vb
    BY <1>2, <2>1
  <2>2. CASE Register(o, s, l)
    BY <2>2, RegisterGood, KeptFollows
  <2> QED BY <1>3, <2>1, <2>2 DEF AddStreamEventListener
<1>4. ASSUME NEW o \in Objects, NEW s \in Streams, NEW l \in Listeners,
             RemoveStreamEventListener(o, s, l)
      PROVE  \A x \in Objects : SameFollow(x)
  BY <1>4, RemoveGood, KeptFollows
<1>5. ASSUME NEW x \in xhrs, LoadEnd(x) PROVE \A o \in Objects : SameFollow(o)
  <2>1. x \in Objects \X Streams \X Listeners
    BY Types DEF RestTypes
  <2>2. x[1] \in Objects /\ x[2] \in Streams /\ x[3] \in Listeners
    BY <2>1
  <2>3. CASE UNCHANGED vb
    BY <1>2, <2>3
  <2>4. CASE Register(x[1], x[2], x[3])
    BY <2>2, <2>4, RegisterGood, KeptFollows
  <2> QED BY <1>5, <2>3, <2>4 DEF LoadEnd
<1>6. ASSUME NEW id \in Ids, StreamEventError(id) PROVE \A x \in Objects : SameFollow(x)
  BY <1>6, StreamEventErrorGood, KeptFollows
<1> QED BY <1>1, <1>3, <1>4, <1>5, <1>6, EventsFollow

\* A handler leaves an object up to date that was, and any that hears of the
\* channel the platform is tuned to.
LEMMA HandlerFollows ==
    ASSUME IInv, NEW o \in Objects, ~page.linked, platform.tuned # NoChannel, Handle(o),
           UpToDate(vb[o], platform.tuned) \/ BeingTold(o)
    PROVE  /\ \A x \in Objects \ {o} : vb'[x] = vb[x]
           /\ UpToDate(vb'[o], platform.tuned)
           /\ UNCHANGED stack
<1> DEFINE p == vb[o]
           c == platform.tuned
           e == current
           AsBefore(q) == /\ q.life = p.life /\ q.listening = p.listening
                          /\ q.playState \in Active => p.playState \in Active
                          /\ q.channel \in {p.channel, c}
<1>1. p \in ObjectData /\ ~p.waitingConfirm /\ vb \in [Objects -> ObjectData]
      /\ (UpToDate(p, c) \/ (e.status = "connecting" /\ e.channel = c))
  BY Types DEF Sound, BeingTold
<1>2. ASSUME NEW q, vb' = [vb EXCEPT ![o] = q], AsBefore(q), UNCHANGED stack,
             \/ UpToDate(p, c) \/ q.channel = c \/ q.playState \notin Active
      PROVE  /\ \A x \in Objects \ {o} : vb'[x] = vb[x]
             /\ UpToDate(vb'[o], c)
             /\ UNCHANGED stack
  <2>1. vb'[o] = q /\ \A x \in Objects \ {o} : vb'[x] = vb[x]
    BY <1>1, <1>2
  <2>2. UpToDate(q, c)
    <3>1. CASE UpToDate(p, c)
      <4>1. SUFFICES ASSUME q.life = "live", q.playState \in Active, q.listening
                     PROVE  q.channel = c
        BY DEF UpToDate
      <4>2. p.life = "live" /\ p.playState \in Active /\ p.listening
        BY <1>2, <4>1
      <4>3. p.channel = c
        BY <3>1, <4>2 DEF UpToDate
      <4> QED BY <1>2, <4>3
    <3>2. CASE q.channel = c \/ q.playState \notin Active
      BY <3>2 DEF UpToDate
    <3> QED BY <1>2, <3>1, <3>2
  <2> QED BY <1>2, <2>1, <2>2
<1>3. ASSUME UNCHANGED <<vb, stack>>, UpToDate(p, c)
      PROVE  /\ \A x \in Objects \ {o} : vb'[x] = vb[x]
             /\ UpToDate(vb'[o], c)
             /\ UNCHANGED stack
  BY <1>3
<1>4. ASSUME Unrealize(o), UNCHANGED stack
      PROVE  /\ \A x \in Objects \ {o} : vb'[x] = vb[x]
             /\ UpToDate(vb'[o], c)
             /\ UNCHANGED stack
  <2>1. vb'[o].playState = "unrealized" /\ \A x \in Objects \ {o} : vb'[x] = vb[x]
    BY <1>4, UnrealizeGood
  <2> QED BY <1>4, <2>1 DEF UpToDate, Active
<1>5. ConfirmDone(o) => UNCHANGED stack
  BY DEF ConfirmDone
<1>6. CASE e.status = "blocked" /\ OnParentalRatingChange(o)
  BY <1>1, <1>3, <1>6 DEF OnParentalRatingChange
<1>7. CASE e.status = "transitioned" /\ OnTransitionedToBroadcastRelated(o)
  <2> DEFINE q == [p EXCEPT !.isTransitioning = FALSE, !.isBroadcastRelated = TRUE,
                            !.channel = IF platform.broadcastApp
                                        THEN platform.tuned ELSE @]
  <2>1. CASE p.isTransitioning
    <3>1. vb' = [vb EXCEPT ![o] = q] /\ UNCHANGED stack
      BY <1>7, <2>1 DEF OnTransitionedToBroadcastRelated
    <3>2. AsBefore(q) /\ UpToDate(p, c)
      BY <1>1, <1>7 DEF ObjectData
    <3> HIDE DEF q
    <3> QED BY <1>2, <3>1, <3>2
  <2> QED BY <1>1, <1>3, <1>7, <2>1 DEF OnTransitionedToBroadcastRelated
<1>8. CASE p.playState = "connecting" /\ WhileConnecting(o, e)
  <2>1. CASE e.status = "presenting"
    <3> DEFINE q == [p EXCEPT !.playState = "presenting"]
    <3>1. vb' = [vb EXCEPT ![o] = q] /\ UNCHANGED stack
      BY <1>5, <1>8, <2>1 DEF WhileConnecting
    <3>2. AsBefore(q) /\ UpToDate(p, c)
      BY <1>1, <1>8, <2>1 DEF ObjectData, Active
    <3> HIDE DEF q
    <3> QED BY <1>2, <3>1, <3>2
  <2>2. CASE e.status = "connecting"
    <3> DEFINE q == [p EXCEPT !.channel = IF IsStale(p, e) THEN c ELSE @,
                              !.waitingConfirm = FALSE]
    <3>1. vb' = [vb EXCEPT ![o] = q] /\ UNCHANGED stack
      BY <1>1, <1>5, <1>8, <2>2 DEF WhileConnecting, HasChannelForEvent
    <3>2. AsBefore(q) /\ q.channel = IF IsStale(p, e) THEN c ELSE p.channel
      BY <1>1 DEF ObjectData
    <3> HIDE DEF q
    <3>3. UpToDate(p, c) \/ q.channel = c
      BY <1>1, <3>2 DEF IsStale
    <3> QED BY <1>2, <3>1, <3>2, <3>3
  <2>3. CASE e.status = "permanent"
    BY <1>4, <1>5, <1>8, <2>3 DEF WhileConnecting
  <2>4. CASE e.status = "transient"
    BY <1>1, <1>3, <1>5, <1>8, <2>4 DEF WhileConnecting
  <2> QED BY <1>8, <2>1, <2>2, <2>3, <2>4 DEF WhileConnecting
<1>9. CASE p.playState = "presenting" /\ WhilePresenting(o, e)
  <2>1. CASE e.status = "permanent"
    BY <1>4, <1>9, <2>1 DEF WhilePresenting
  <2>2. CASE e.status # "permanent"
    <3> DEFINE renew == e.status = "connecting" /\ IsStale(vb[o], e) /\ HasChannelForEvent
               q == [p EXCEPT !.playState = "connecting",
                              !.channel = IF renew THEN c ELSE @]
    <3>1. vb' = [vb EXCEPT ![o] = q] /\ UNCHANGED stack
      BY <1>9, <2>2 DEF WhilePresenting
    <3>2. AsBefore(q) /\ q.channel = IF renew THEN c ELSE p.channel
      BY <1>1, <1>9 DEF ObjectData, Active
    <3> HIDE DEF q
    <3>3. UpToDate(p, c) \/ q.channel = c
      BY <1>1, <3>2 DEF IsStale, HasChannelForEvent
    <3> QED BY <1>2, <3>1, <3>2, <3>3
  <2> QED BY <2>1, <2>2
<1>10. CASE p.playState = "stopped" /\ WhileStopped(o, e)
  <2>1. CASE Unrealize(o)
    BY <1>4, <1>10, <2>1 DEF WhileStopped
  <2>2. CASE vb' = [vb EXCEPT ![o].channel = c, ![o].playState = "connecting"]
    <3> DEFINE q == [p EXCEPT !.channel = c, !.playState = "connecting"]
    <3>1. vb' = [vb EXCEPT ![o] = q] /\ UNCHANGED stack
      BY <1>10, <2>2 DEF WhileStopped
    <3>2. vb'[o] = q /\ q.channel = c /\ \A x \in Objects \ {o} : vb'[x] = vb[x]
      BY <1>1, <3>1 DEF ObjectData
    <3> HIDE DEF q
    <3> QED BY <3>1, <3>2 DEF UpToDate
  <2>3. CASE vb' = vb
    BY <1>3, <1>10, <2>3 DEF WhileStopped, UpToDate, Active
  <2> QED BY <1>10, <2>1, <2>2, <2>3 DEF WhileStopped
<1>11. CASE p.playState = "unrealized" /\ UNCHANGED <<vb, shared, stack>>
  BY <1>3, <1>11 DEF UpToDate, Active
<1> QED BY <1>6, <1>7, <1>8, <1>9, <1>10, <1>11 DEF Handle, OnChannelStatusChanged

LEMMA HandleFollows ==
    ASSUME IInv, FollowInv, NEW o \in Objects, Handle(o)
    PROVE  FollowInv'
<1>1. UNCHANGED <<page, platform>> /\ stack = <<>> /\ todo' = todo \ {o}
      /\ \A x \in todo' : current'.status = current.status /\ current'.channel = current.channel
  <2>1. current \in [status : Statuses \cup {"none"}, channel : SomeChannel, begun : BOOLEAN]
    BY Types DEF RestTypes
  <2>2. todo' # {} => current' = [current EXCEPT !.begun = TRUE]
    BY DEF Handle
  <2> QED BY <2>1, <2>2 DEF Handle
<1>2. ASSUME ~page.linked, ~Coming PROVE Follows(o)
  <2>1. UpToDate(vb[o], platform.tuned) \/ BeingTold(o)
    BY <1>1, <1>2 DEF FollowInv, Binding
  <2>2. /\ \A x \in Objects \ {o} : vb'[x] = vb[x]
        /\ UpToDate(vb'[o], platform.tuned)
        /\ UNCHANGED stack
    BY <1>2, <2>1, HandlerFollows DEF Coming
  <2> QED BY <1>1, <2>2 DEF Follows
<1> QED BY <1>1, <1>2, FollowsGood DEF Coming

LEMMA ReturnFollows ==
    ASSUME IInv, FollowInv, Return
    PROVE  FollowInv'
<1> DEFINE k == stack[Len(stack)]
           o == k.obj
           p == vb[o]
<1>1. /\ stack \in Seq(Waiting) /\ stack # <<>> /\ k \in Waiting
      /\ ~page.linked => ~k.present
      /\ UNCHANGED <<todo, current, page>>
  BY PopGood, Types DEF Return
<1>2. o \in Objects /\ k.channel \in SomeChannel
  BY <1>1 DEF Waiting
<1>3. p \in ObjectData /\ vb \in [Objects -> ObjectData] /\ platform \in PlatformType
  BY <1>2, Types DEF RestTypes
<1>4. ASSUME ~page.linked, ~Coming'
      PROVE  platform' = platform
  <2>1. CASE UNCHANGED platform
    BY <2>1
  <2>2. CASE platform' = [platform EXCEPT !.tuned = NoChannel, !.requested = NoChannel,
                                          !.broadcastApp = FALSE]
    <3>1. platform'.tuned = NoChannel
      BY <1>3, <2>2 DEF PlatformType
    <3> QED BY <1>4, <3>1 DEF Coming
  <2> QED BY <2>1, <2>2 DEF Return, BindReturns, SetChannelNullReturns, ConfirmReturns
<1>5. ASSUME ~page.linked, ~Coming, ~Coming', platform' = platform
      PROVE  Follows(o)
  <2>0. BindsFit(stack, platform.tuned)
    BY <1>5 DEF FollowInv
  <2>1. stack' = SubSeq(stack, 1, Len(stack) - 1)
    BY <1>1, <1>5 DEF Return, BindReturns, SetChannelNullReturns, ConfirmReturns
  <2>2. /\ BindsFit(stack', platform.tuned)
        /\ k.what = "bind" => k.channel = platform.tuned
        /\ \A x : Binding(stack, x) /\ (k.what = "bind" => o # x) => Binding(stack', x)
    BY <1>1, <2>0, <2>1, StackPop
  <2>3. /\ \A x \in Objects \ {o} : Binding(stack, x) => Binding(stack', x)
        /\ k.what # "bind" => (Binding(stack, o) => Binding(stack', o))
    BY <2>2
  <2>4. /\ \A x \in Objects \ {o} : vb'[x] = vb[x]
        /\ \/ UpToDate(vb'[o], platform.tuned)
           \/ k.what # "bind" /\ SameFollow(o)
    <3>1. CASE k.what = "bind" /\ BindReturns(k)
      <4> DEFINE q == [p EXCEPT !.channel = k.channel]
      <4>1. vb' = [vb EXCEPT ![o] = q]
        BY <1>1, <1>5, <3>1 DEF BindReturns
      <4>2. q.channel = platform.tuned
        BY <1>3, <2>2, <3>1 DEF ObjectData
      <4> HIDE DEF q
      <4>3. vb'[o] = q /\ \A x \in Objects \ {o} : vb'[x] = vb[x]
        BY <1>2, <1>3, <4>1
      <4> QED BY <4>2, <4>3 DEF UpToDate
    <3>2. CASE k.what = "null" /\ SetChannelNullReturns(k)
      <4> DEFINE q == [p EXCEPT !.isBroadcastRelated = FALSE]
      <4>1. vb' = [vb EXCEPT ![o] = q]
        BY <3>2 DEF SetChannelNullReturns
      <4>2. /\ q.life = p.life /\ q.listening = p.listening /\ q.channel = p.channel
            /\ q.playState = p.playState
        BY <1>3 DEF ObjectData
      <4> HIDE DEF q
      <4>3. vb'[o] = q /\ \A x \in Objects \ {o} : vb'[x] = vb[x]
        BY <1>2, <1>3, <4>1
      <4> QED BY <3>2, <4>2, <4>3 DEF SameFollow
    <3>3. CASE k.what = "confirm" /\ ConfirmReturns(k)
      <4> DEFINE q == [p EXCEPT !.waitingConfirm = FALSE]
      <4>1. vb' = [vb EXCEPT ![o] = q]
        BY <3>3 DEF ConfirmReturns
      <4>2. /\ q.life = p.life /\ q.listening = p.listening /\ q.channel = p.channel
            /\ q.playState = p.playState
        BY <1>3 DEF ObjectData
      <4> HIDE DEF q
      <4>3. vb'[o] = q /\ \A x \in Objects \ {o} : vb'[x] = vb[x]
        BY <1>2, <1>3, <4>1
      <4> QED BY <3>3, <4>2, <4>3 DEF SameFollow
    <3> QED BY <3>1, <3>2, <3>3 DEF Return
  <2> QED BY <1>1, <2>2, <2>3, <2>4 DEF Follows, BeingTold
<1>6. ~page.linked /\ ~Coming' => ~Coming /\ platform'.tuned = platform.tuned /\ Follows(o)
  BY <1>4, <1>5 DEF Coming
<1> HIDE DEF k
<1> QED BY <1>1, <1>2, <1>6, FollowsGood

LEMMA CollectFollows ==
    ASSUME IInv, FollowInv, NEW o \in Objects, Collect(o)
    PROVE  FollowInv'
<1> DEFINE q == [vb[o] EXCEPT !.life = "collected", !.listening = FALSE]
<1>1. vb' = [vb EXCEPT ![o] = q] /\ UNCHANGED <<stack, todo, current, platform, page>>
  BY DEF Collect
<1>2. ~q.listening
  BY Types DEF ObjectData
<1> HIDE DEF q
<1>3. Follows(o)
  BY <1>1, <1>2, DeafFollows, FollowsCalm
<1> QED BY <1>1, <1>3, FollowsGood DEF Coming

LEMMA AnnouncedTail ==
    ASSUME NEW q \in Seq(Event), q # <<>>, NEW c, Announced(q, c)
    PROVE  Announced(Tail(q), c) \/ (Head(q).status = "connecting" /\ Head(q).channel = c)
<1>1. PICK i \in 1 .. Len(q) : q[i].status = "connecting" /\ q[i].channel = c
  BY DEF Announced
<1>2. CASE i = 1
  BY <1>1, <1>2
<1>3. CASE i # 1
  <2>1. i - 1 \in 1 .. Len(Tail(q)) /\ Tail(q)[i - 1] = q[i]
    BY <1>3
  <2> QED BY <1>1, <2>1 DEF Announced
<1> QED BY <1>2, <1>3

\* The event that was coming becomes the one being dispatched, to all who listen.
LEMMA DispatchFollows ==
    ASSUME IInv, FollowInv, DispatchEvent
    PROVE  FollowInv'
<1> DEFINE e == Head(platform.events)
           c == platform.tuned
<1>1. /\ platform \in PlatformType /\ platform.events \in Seq(Event)
      /\ platform.events # <<>> /\ e \in Event
  BY Types DEF RestTypes, PlatformType, DispatchEvent
<1>2. /\ platform' = [platform EXCEPT !.events = Tail(@)]
      /\ todo' = {o \in Objects : vb[o].listening}
      /\ UNCHANGED <<vb, stack, page>> /\ stack = <<>> /\ todo = {}
      /\ todo' # {} => current'.status = e.status /\ current'.channel = e.channel
  BY DEF DispatchEvent, Idle
<1>3. /\ platform'.tuned = c /\ platform'.requested = platform.requested
      /\ platform'.events = Tail(platform.events)
  BY <1>1, <1>2 DEF PlatformType
<1> SUFFICES ASSUME ~page.linked, ~Coming'
             PROVE  /\ BindsFit(stack, c)
                    /\ \A o \in Objects : UpToDate(vb[o], c) \/ BeingTold(o)'
  BY <1>2, <1>3 DEF FollowInv
<1>4. BindsFit(stack, c)
  BY <1>2 DEF BindsFit
<1>5. ASSUME NEW o \in Objects PROVE UpToDate(vb[o], c) \/ BeingTold(o)'
  <2>1. CASE Coming
    <3>1. Announced(platform.events, c) /\ ~Announced(Tail(platform.events), c)
      BY <1>3, <2>1 DEF Coming
    <3>2. e.status = "connecting" /\ e.channel = c
      BY <1>1, <3>1, AnnouncedTail
    <3>3. vb[o].listening => BeingTold(o)'
      BY <1>2, <1>3, <3>2 DEF BeingTold
    <3> QED BY <3>3 DEF UpToDate
  <2>2. CASE ~Coming
    <3>1. ~Binding(stack, o) /\ ~BeingTold(o)
      BY <1>2 DEF Binding, BeingTold
    <3> QED BY <2>2, <3>1 DEF FollowInv
  <2> QED BY <2>1, <2>2
<1> QED BY <1>4, <1>5

LEMMA QuietPlatformFollows ==
    ASSUME FollowInv, UNCHANGED <<vb, stack, todo, current, page>>,
           platform'.tuned = platform.tuned, platform'.requested = platform.requested,
           Announced(platform.events, platform.tuned) =>
               Announced(platform'.events, platform.tuned)
    PROVE  FollowInv'
BY DEF FollowInv, Coming, BeingTold

LEMMA PlatformFollows ==
    ASSUME IInv, FollowInv,
           \/ TunesAsRequested \/ TransitionsToBroadcastRelated
           \/ \E c \in Channels : TunesForViewer(c)
           \/ \E st \in {"presenting", "transient", "permanent", "blocked"} : Reports(st)
    PROVE  FollowInv'
<1>1. /\ platform \in PlatformType /\ platform.events \in Seq(Event)
      /\ platform.tuned \in SomeChannel /\ platform.requested \in SomeChannel
  BY Types DEF RestTypes, PlatformType
<1>2. UNCHANGED <<vb, stack, todo, current, page>>
  BY DEF TunesAsRequested, TransitionsToBroadcastRelated, TunesForViewer, Reports,
         PlatformEvent
<1>3. Coming' => FollowInv'
  BY DEF FollowInv
<1>4. ASSUME TunesAsRequested PROVE Coming'
  <2>1. /\ platform.requested \in Channels /\ platform' = Tuned(platform.requested)
    BY <1>1, <1>4 DEF TunesAsRequested, SomeChannel
  <2>2. platform' = [Tuned(platform.requested) EXCEPT !.requested = NoChannel]
    BY <1>1, <2>1 DEF Tuned, PlatformType
  <2> QED BY <1>1, <2>1, <2>2, TunedComing DEF SomeChannel
<1>5. ASSUME NEW c \in Channels, TunesForViewer(c) PROVE Coming'
  BY <1>1, <1>5, TunedComing DEF TunesForViewer
<1>6. ASSUME TransitionsToBroadcastRelated PROVE FollowInv'
  <2> DEFINE es == Append(platform.events,
                          [status |-> "transitioned", channel |-> platform.tuned])
  <2>1. platform' = [platform EXCEPT !.broadcastApp = TRUE, !.events = es]
    BY <1>6 DEF TransitionsToBroadcastRelated
  <2>2. Announced(platform.events, platform.tuned) => Announced(es, platform.tuned)
    BY <1>1, AnnouncedMore DEF Statuses
  <2> HIDE DEF es
  <2>3. /\ platform'.tuned = platform.tuned /\ platform'.requested = platform.requested
        /\ platform'.events = es
    BY <1>1, <2>1 DEF PlatformType
  <2> QED BY <1>2, <2>2, <2>3, QuietPlatformFollows
<1>7. ASSUME NEW st \in {"presenting", "transient", "permanent", "blocked"}, Reports(st)
      PROVE  FollowInv'
  <2> DEFINE es == Append(platform.events, [status |-> st, channel |-> platform.tuned])
  <2>1. platform' = [platform EXCEPT !.events = es]
    BY <1>7 DEF Reports
  <2>2. Announced(platform.events, platform.tuned) => Announced(es, platform.tuned)
    BY <1>1, AnnouncedMore DEF Statuses
  <2> HIDE DEF es
  <2>3. /\ platform'.tuned = platform.tuned /\ platform'.requested = platform.requested
        /\ platform'.events = es
    BY <1>1, <2>1 DEF PlatformType
  <2> QED BY <1>2, <2>2, <2>3, QuietPlatformFollows
<1> QED BY <1>3, <1>4, <1>5, <1>6, <1>7

LEMMA InitFollows == Init => FollowInv
<1> SUFFICES ASSUME Init PROVE FollowInv
  OBVIOUS
<1>1. PICK c \in Channels :
         vb = [o \in Objects |-> IF o \in Transient THEN Unborn ELSE Initialised(c, TRUE)]
  BY DEF Init
<1>2. \A o \in Objects : vb[o].playState = "unrealized"
  BY <1>1 DEF Initialised, Unborn
<1>3. \A o \in Objects : UpToDate(vb[o], platform.tuned)
  BY <1>2 DEF UpToDate, Active
<1>4. BindsFit(stack, platform.tuned)
  BY DEF Init, BindsFit
<1> QED BY <1>3, <1>4 DEF FollowInv

LEMMA FollowStepGood == IInv /\ FollowInv /\ [Next]_vars => FollowInv'
<1> SUFFICES ASSUME IInv, FollowInv, [Next]_vars PROVE FollowInv'
  OBVIOUS
<1>1. CASE PageStep
  BY <1>1, PageFollows, StreamEventFollows DEF PageStep
<1>2. CASE LoopStep
  BY <1>2, DispatchFollows, ReturnFollows, HandleFollows, CollectFollows, StreamEventFollows
     DEF LoopStep
<1>3. CASE PlatformStep
  BY <1>3, PlatformFollows, StreamEventFollows DEF PlatformStep
<1>4. CASE UNCHANGED vars
  BY <1>4, EventsFollow DEF vars, SameFollow
<1> QED BY <1>1, <1>2, <1>3, <1>4 DEF Next

(* Once every event has been handled and no request is open, a connecting or   *)
(* presenting object's currentChannelData is the channel the platform is tuned *)
(* to: through failed and answered requests, viewers who change the channel    *)
(* while a listener runs, binds interrupted by their own listeners, errors and *)
(* objects that come and go. onChannelStatusChanged compares the channel of    *)
(* the event and then reads the platform's, which may be a later one.          *)
THEOREM ChannelFollowsCorrect == Spec => []ChannelFollows
<1> QED BY FollowImplies, Invariance, InitFollows, FollowStepGood, PTL DEF Spec
=============================================================================
