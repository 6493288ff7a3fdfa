--------------------------- MODULE VideoBroadcast ---------------------------
(***************************************************************************)
(* The video/broadcast objects of one HbbTV page                           *)
(* (src/objects/videobroadcast.js) and the platform behind the bridge.     *)
(*                                                                         *)
(* JavaScript runs one turn at a time, so a method or an event handler is  *)
(* one step, up to the point where it dispatches an event to the page and  *)
(* still has something to do: the page's listener runs there and may call  *)
(* the objects again.  The rest of the method is then on `stack'.          *)
(*                                                                         *)
(* A method that the bridge refuses with a SecurityError ends where the    *)
(* exception leaves it, with what it had assigned by then.                 *)
(***************************************************************************)
EXTENDS Integers, Sequences, FiniteSets

CONSTANTS
    Objects,        \* video/broadcast objects of the page
    Transient,      \* those it creates later and may drop; the others are there at first
    Channels,       \* channels the platform can tune to
    Streams,        \* targetURL::eventName keys
    XhrStreams,     \* those whose targetURL is a dsmcc: URL or an .xse file
    Listeners,      \* the page's stream event listeners
    NoChannel,
    NoObject,
    MaxCalls,       \* bound: calls of the page on each object
    MaxIds,         \* bound: stream event listeners ever registered with the bridge
    MaxEvents,      \* bound: events the platform raises by itself
    MaxQueue,       \* bound: events on their way to the page
    MaxNest         \* bound: depth of listeners calling methods

ASSUME ConstantsAssumption ==
    /\ Transient \subseteq Objects
    /\ XhrStreams \subseteq Streams
    /\ NoChannel \notin Channels
    /\ NoObject \notin Objects
    /\ MaxCalls \in [Objects -> Nat]
    /\ {MaxIds, MaxEvents, MaxQueue, MaxNest} \subseteq Nat

VARIABLES
    vb,         \* the private data of each object
    shared,     \* gActiveStateOwner and the bridge's stream event registrations
    stack,      \* methods waiting for the page's listener to return
    todo,       \* objects the event being dispatched has not reached yet
    current,    \* that event, NoEvent between events
    xhrs,       \* stream event files being fetched
    platform,   \* tuned and requested channel, the application's relation, events
    page,       \* what is fixed for a page
    spent       \* calls and events so far

vars == <<vb, shared, stack, todo, current, xhrs, platform, page, spent>>

Active == {"connecting", "presenting"}
PlayStates == Active \cup {"unrealized", "stopped"}
Ids == 1 .. MaxIds

NoEvent == [status |-> "none", channel |-> NoChannel, begun |-> FALSE]
NoIds == [s \in Streams |-> 0]
NoListeners == [i \in Ids |-> {}]

(***************************************************************************)
(* An object's private data.  idMap is streamEventListenerIdMap, 0 for a   *)
(* missing key; listenerMap is streamEventListenerMap: the arrays hold no  *)
(* listener twice and are removed when empty, so {} is a missing key.      *)
(* `listening' is whether the bridge event listeners are in place: they    *)
(* are added and removed together.                                         *)
(***************************************************************************)
Unborn == [life |-> "unborn", playState |-> "unrealized", isBroadcastRelated |-> FALSE,
           isTransitioning |-> FALSE, waitingConfirm |-> FALSE,
           channel |-> NoChannel, listening |-> FALSE, idMap |-> NoIds,
           listenerMap |-> NoListeners]

\* initialise: broadcast-related unless getCurrentChannel says otherwise.
Initialised(tuned, broadcastApp) ==
    [Unborn EXCEPT !.life = "live", !.isBroadcastRelated = broadcastApp,
                   !.channel = IF broadcastApp THEN tuned ELSE NoChannel]

Init ==
    /\ \E c \in Channels :
          /\ vb = [o \in Objects |-> IF o \in Transient THEN Unborn ELSE Initialised(c, TRUE)]
          /\ platform = [tuned |-> c, requested |-> NoChannel, broadcastApp |-> TRUE,
                         events |-> <<>>]
    /\ shared = [owner |-> NoObject, registered |-> {}, nextId |-> 1]
    /\ stack = <<>> /\ todo = {} /\ current = NoEvent
    /\ xhrs = {}
    /\ page \in [linked : BOOLEAN, alike : BOOLEAN]
    /\ spent = [calls |-> [o \in Objects |-> 0], events |-> 0]

-----------------------------------------------------------------------------
(* When the page's own code runs, and when an event can be dispatched.      *)

Idle == stack = <<>> /\ todo = {}

\* Between events, in a listener of a waiting method, and in the listeners a
\* handler calls when it has nothing more to do, before the next object's turn.
PageRuns ==
    \/ Idle
    \/ stack # <<>> /\ Len(stack) <= MaxNest /\ stack[Len(stack)].inPage
    \/ stack = <<>> /\ current.begun

Live(o) == vb[o].life = "live"

Call(o) ==
    /\ PageRuns /\ Live(o)
    /\ spent.calls[o] < MaxCalls[o]
    /\ spent' = [spent EXCEPT !.calls[o] = @ + 1]

Push(k) == stack' = Append(stack, k)

(* unregisterAllStreamEventListeners, on an object's data and on the bridge's. *)
WithoutStreamEvents(p) == [p EXCEPT !.idMap = NoIds, !.listenerMap = NoListeners]
IdsOf(p) == {p.idMap[s] : s \in Streams} \ {0}

\* A permanent error, or giving up.  The object stays the owner of the active
\* state, and stays listening.
Unrealize_KeepsRegistrations(o) ==
    /\ vb' = [vb EXCEPT ![o] = [WithoutStreamEvents(vb[o]) EXCEPT !.playState = "unrealized"]]
    /\ UNCHANGED shared

Unrealize(o) ==
    /\ vb' = [vb EXCEPT ![o] = [WithoutStreamEvents(vb[o]) EXCEPT !.playState = "unrealized"]]
    /\ shared' = [shared EXCEPT !.registered = @ \ IdsOf(vb[o])]

CanAcquire_AnyElement(o) == shared.owner \in {NoObject, o} \/ Live(shared.owner)

(* acquireActiveState compares the JSON of two elements, that is, of the own  *)
(* properties the page gave them: objects that look alike take it from each   *)
(* other.  A collected owner has no JSON.                                     *)
CanAcquire(o) ==
    \/ shared.owner \in {NoObject, o}
    \/ Live(shared.owner) /\ page.alike

(* setPresentationSuspended is refused to an application that is not          *)
(* broadcast-related; what it tells the platform decides nothing here.        *)
CanSuspend == platform.broadcastApp

-----------------------------------------------------------------------------
(* bindToCurrentChannel                                                     *)

BindDone(o, present, channel) ==
    [what |-> "bind", obj |-> o, inPage |-> TRUE, present |-> present, channel |-> channel]

\* The method proper.  It throws when the object or the application is not
\* broadcast-related, and does nothing on an object that is bound.
Bind(o) ==
    LET p == vb[o] IN
    IF ~p.isBroadcastRelated \/ ~platform.broadcastApp \/ p.playState \in Active
      THEN UNCHANGED <<vb, shared, stack>>
    ELSE IF CanAcquire(o)
      THEN /\ vb' = [vb EXCEPT ![o].listening = TRUE,
                               ![o].playState = IF p.playState = "unrealized" /\ page.linked
                                                THEN "presenting" ELSE "connecting"]
           /\ shared' = [shared EXCEPT !.owner = o]
           /\ Push(BindDone(o, page.linked /\ p.playState = "stopped", platform.tuned))
    ELSE IF p.playState = "stopped"
      THEN /\ Push(BindDone(o, FALSE, platform.tuned))
           /\ UNCHANGED <<vb, shared>>
    ELSE /\ vb' = [vb EXCEPT ![o] = WithoutStreamEvents(p)]
         /\ shared' = [shared EXCEPT !.registered = @ \ IdsOf(p)]
         /\ Push(BindDone(o, FALSE, platform.tuned))

\* A linked application's stopped object goes on to presenting and tells the
\* page again; after that the channel is recorded.
BindReturns(k) ==
    /\ IF k.present
         THEN /\ vb' = [vb EXCEPT ![k.obj].playState = "presenting"]
              /\ stack' = [stack EXCEPT ![Len(stack)].present = FALSE]
         ELSE /\ vb' = [vb EXCEPT ![k.obj].channel = k.channel]
              /\ stack' = SubSeq(stack, 1, Len(stack) - 1)
    /\ UNCHANGED <<shared, platform>>

BindToCurrentChannel(o) ==
    /\ Call(o)
    /\ Bind(o)
    /\ UNCHANGED <<todo, current, xhrs, platform, page>>

-----------------------------------------------------------------------------
(* setChannel with a channel, prevChannel and nextChannel                   *)

\* The platform takes the request at once, or answers and tunes later.
Tuned(c) == [platform EXCEPT !.tuned = c, !.requested = NoChannel,
                             !.events = Append(@, [status |-> "connecting", channel |-> c])]
Takes(c) ==
    {[platform EXCEPT !.requested = c]} \cup
    (IF Len(platform.events) < MaxQueue THEN {Tuned(c)} ELSE {})

SetChannelFails_AlwaysDeaf(o, fresh, notInTs) ==
    /\ vb' = [vb EXCEPT ![o].isTransitioning = FALSE, ![o].listening = FALSE,
                        ![o].playState = IF notInTs THEN "unrealized" ELSE @]
    /\ todo' = todo \ {o}
    /\ shared' = IF fresh THEN [shared EXCEPT !.owner = o] ELSE shared
    /\ UNCHANGED platform

\* The request fails.  The missing receiver of releaseActiveState() leaves the
\* object the owner of the active state.
SetChannelFails(o, fresh, notInTs) ==
    /\ vb' = [vb EXCEPT ![o].isTransitioning = FALSE,
                        ![o].listening = @ /\ ~fresh,
                        ![o].playState = IF notInTs THEN "unrealized" ELSE @]
    /\ todo' = IF fresh THEN todo \ {o} ELSE todo
    /\ shared' = IF fresh THEN [shared EXCEPT !.owner = o] ELSE shared
    /\ UNCHANGED platform

\* The platform accepts the channel.  Reading it back throws if the object
\* is broadcast-related and the application is not.
SetChannelAccepted(o, fresh, quiet, c) ==
    LET p == vb[o]
        q == [p EXCEPT !.isTransitioning = TRUE, !.listening = @ \/ fresh]
        owner == IF fresh THEN o ELSE shared.owner
        reads == p.isBroadcastRelated /\ ~quiet
    IN
    /\ platform' \in Takes(c)
    /\ IF reads /\ ~platform.broadcastApp
         THEN /\ vb' = [vb EXCEPT ![o] = q]
              /\ shared' = [shared EXCEPT !.owner = owner]
         ELSE /\ vb' = [vb EXCEPT ![o] =
                           [WithoutStreamEvents(q) EXCEPT
                              !.channel = IF reads THEN platform'.tuned ELSE @,
                              !.playState = "connecting",
                              !.waitingConfirm = page.linked]]
              /\ shared' = [shared EXCEPT !.owner = owner, !.registered = @ \ IdsOf(p)]
    /\ UNCHANGED todo

ChangeChannel(o, c, quiet) ==
    LET fresh == vb[o].playState \notin Active IN
    /\ IF fresh /\ ~CanAcquire(o)
         THEN UNCHANGED <<vb, shared, todo, platform>>
         ELSE \/ \E notInTs \in BOOLEAN : SetChannelFails(o, fresh, notInTs)
              \/ SetChannelAccepted(o, fresh, quiet, c)
    /\ UNCHANGED stack

SetChannel(o) ==
    /\ Call(o)
    /\ \E c \in Channels, quiet \in BOOLEAN : ChangeChannel(o, c, quiet)
    /\ UNCHANGED <<current, xhrs, page>>

\* prevChannel and nextChannel go to a neighbour in the channel list of the
\* channel last set without QUIET, which is not kept here: it is any channel,
\* and that there is none (reading its ccid throws) is a call never made.
\* A connecting object whose channel is not in the list gives up.
CycleChannel(o) ==
    LET p == vb[o] IN
    /\ Call(o)
    /\ p.isBroadcastRelated /\ p.playState # "unrealized"
    /\ \/ \E c \in Channels : ChangeChannel(o, c, FALSE)
       \/ /\ p.playState = "connecting"
          /\ Unrealize(o)
          /\ UNCHANGED <<stack, todo, platform>>
    /\ UNCHANGED <<current, xhrs, page>>

-----------------------------------------------------------------------------
(* release, setChannel(null), stop                                          *)

ReleaseDispatches(o) == vb[o].isBroadcastRelated /\ vb[o].playState # "unrealized"
ReleaseThrows(o) == ReleaseDispatches(o) /\ shared.owner = o /\ ~CanSuspend

ReleaseEffect(o) ==
    LET p == vb[o] IN
    IF ~p.isBroadcastRelated THEN UNCHANGED <<vb, shared, todo>>
    ELSE /\ todo' = todo \ {o}
         /\ IF p.playState = "unrealized"
              THEN /\ vb' = [vb EXCEPT ![o].listening = FALSE]
                   /\ UNCHANGED shared
              ELSE /\ vb' = [vb EXCEPT ![o] =
                                [WithoutStreamEvents(p) EXCEPT
                                   !.listening = FALSE, !.playState = "unrealized",
                                   !.channel = NoChannel]]
                   /\ shared' = LET s == [shared EXCEPT !.registered = @ \ IdsOf(p)] IN
                                IF s.owner = o /\ CanSuspend
                                THEN [s EXCEPT !.owner = NoObject] ELSE s

Release(o) ==
    /\ Call(o)
    /\ ReleaseEffect(o)
    /\ UNCHANGED <<stack, current, xhrs, platform, page>>

SetChannelNull(o) ==
    /\ Call(o)
    /\ ReleaseEffect(o)
    /\ IF ReleaseThrows(o) THEN UNCHANGED stack
       ELSE Push([what |-> "null", obj |-> o, inPage |-> ReleaseDispatches(o),
                  present |-> FALSE, channel |-> NoChannel])
    /\ UNCHANGED <<current, xhrs, platform, page>>

\* The platform tunes off and the manager makes the application
\* broadcast-independent, or the platform refuses.
SetChannelNullReturns(k) ==
    /\ vb' = [vb EXCEPT ![k.obj].isBroadcastRelated = FALSE]
    /\ platform' \in {platform, [platform EXCEPT !.tuned = NoChannel, !.requested = NoChannel,
                                                 !.broadcastApp = FALSE]}
    /\ stack' = SubSeq(stack, 1, Len(stack) - 1)
    /\ UNCHANGED shared

Stop(o) ==
    /\ Call(o)
    /\ vb[o].isBroadcastRelated /\ vb[o].playState \in Active
    /\ vb' = [vb EXCEPT ![o].playState = "stopped"]
    /\ UNCHANGED <<shared, stack, todo, current, xhrs, platform, page>>

-----------------------------------------------------------------------------
(* Stream event listeners                                                   *)

\* registerStreamEventListener: the bridge hands out a fresh id, or refuses.
Register(o, s, l) ==
    LET p == vb[o] IN
    IF p.idMap[s] # 0
      THEN /\ vb' = IF p.listenerMap[p.idMap[s]] = {} THEN vb
                    ELSE [vb EXCEPT ![o].listenerMap[p.idMap[s]] = @ \cup {l}]
           /\ UNCHANGED shared
      ELSE \/ UNCHANGED <<vb, shared>>
           \/ /\ shared.nextId <= MaxIds
              /\ vb' = [vb EXCEPT ![o].idMap[s] = shared.nextId,
                                  ![o].listenerMap[shared.nextId] = {l}]
              /\ shared' = [shared EXCEPT !.registered = @ \cup {shared.nextId}, !.nextId = @ + 1]

AddStreamEventListener(o, s, l) ==
    /\ Call(o)
    /\ vb[o].playState \in {"presenting", "stopped"}
    /\ IF s \in XhrStreams
         THEN xhrs' = xhrs \cup {<<o, s, l>>} /\ UNCHANGED <<vb, shared>>
         ELSE Register(o, s, l) /\ UNCHANGED xhrs
    /\ UNCHANGED <<stack, todo, current, platform, page>>

\* The file arrives, whatever has become of the object by now, with or
\* without the event it was fetched for.
LoadEnd(x) ==
    /\ Idle
    /\ xhrs' = xhrs \ {x}
    /\ \/ Register(x[1], x[2], x[3])
       \/ UNCHANGED <<vb, shared>>
    /\ UNCHANGED <<stack, todo, current, platform, page, spent>>

RemoveStreamEventListener(o, s, l) ==
    LET id == vb[o].idMap[s]
        left == vb[o].listenerMap[id] \ {l}
    IN
    /\ Call(o)
    /\ id # 0 /\ l \in vb[o].listenerMap[id]
    /\ vb' = [vb EXCEPT ![o].listenerMap[id] = left, ![o].idMap[s] = IF left = {} THEN 0 ELSE @]
    /\ shared' = IF left = {} THEN [shared EXCEPT !.registered = @ \ {id}] ELSE shared
    /\ UNCHANGED <<stack, todo, current, xhrs, platform, page>>

\* A StreamEvent with status error: the platform has given the listener up.
\* An object that is not broadcast-related throws before it looks.
StreamEventError(id) ==
    /\ Idle
    /\ id \in shared.registered
    /\ spent.events < MaxEvents
    /\ spent' = [spent EXCEPT !.events = @ + 1]
    /\ shared' = [shared EXCEPT !.registered = @ \ {id}]
    /\ vb' = [o \in Objects |->
                 IF vb[o].listening /\ vb[o].isBroadcastRelated /\ vb[o].listenerMap[id] # {}
                 THEN [vb[o] EXCEPT !.listenerMap[id] = {},
                                    !.idMap = [s \in Streams |-> IF @[s] = id THEN 0 ELSE @[s]]]
                 ELSE vb[o]]
    /\ UNCHANGED <<stack, todo, current, xhrs, platform, page>>

-----------------------------------------------------------------------------
(* The handlers of bridge events                                            *)

\* Resets waitingPlayStateConnectingConfirm once the page has been told.
\* Only a linked application's objects ever set it.
ConfirmDone(o) ==
    IF page.linked
    THEN Push([what |-> "confirm", obj |-> o, inPage |-> TRUE,
               present |-> FALSE, channel |-> NoChannel])
    ELSE UNCHANGED stack

ConfirmReturns(k) ==
    /\ vb' = [vb EXCEPT ![k.obj].waitingConfirm = FALSE]
    /\ stack' = SubSeq(stack, 1, Len(stack) - 1)
    /\ UNCHANGED <<shared, platform>>

\* getCurrentChannelForEvent answers with the platform's channel, which may be
\* a later one than the event's.  It throws while there is none: the bridge
\* allows it to any running application as long as a service is selected
\* (FOR_BROADCAST_OR_TRANSITIONING_APP_ONLY in application_manager.cpp:517).
HasChannelForEvent == platform.tuned # NoChannel

IsStale_MissingOnly(p, e) == p.channel = NoChannel

\* The object's channel is missing or is not the event's.
IsStale(p, e) == p.channel = NoChannel \/ p.channel # e.channel

\* "presenting" stands for CHANNEL_STATUS_CONNECTING_RECOVERY as well.
WhileConnecting(o, e) ==
    LET p == vb[o]
        stale == IsStale(p, e)
    IN
    \/ /\ e.status = "presenting"
       /\ vb' = [vb EXCEPT ![o].playState = "presenting"]
       /\ ConfirmDone(o) /\ UNCHANGED shared
    \/ /\ e.status = "connecting" /\ stale /\ ~HasChannelForEvent
       /\ UNCHANGED <<vb, shared, stack>>
    \/ /\ e.status = "connecting" /\ (stale => HasChannelForEvent)
       /\ vb' = [vb EXCEPT ![o].channel = IF stale THEN platform.tuned ELSE @,
                           ![o].waitingConfirm = FALSE]
       /\ IF p.waitingConfirm THEN UNCHANGED stack ELSE ConfirmDone(o)
       /\ UNCHANGED shared
    \/ e.status = "permanent" /\ Unrealize(o) /\ ConfirmDone(o)
    \/ e.status = "transient" /\ ConfirmDone(o) /\ UNCHANGED <<vb, shared>>

\* Anything but a permanent error takes a presenting object back to connecting.
WhilePresenting(o, e) ==
    LET renew == e.status = "connecting" /\ IsStale(vb[o], e) /\ HasChannelForEvent IN
    /\ IF e.status = "permanent" THEN Unrealize(o)
       ELSE /\ vb' = [vb EXCEPT ![o].playState = "connecting",
                                ![o].channel = IF renew THEN platform.tuned ELSE @]
            /\ UNCHANGED shared
    /\ UNCHANGED stack

WhileStopped(o, e) ==
    LET p == vb[o]
        changed == /\ e.status = "connecting" /\ p.channel \notin {NoChannel, e.channel}
                   /\ HasChannelForEvent
    IN
    /\ IF e.status = "permanent" THEN Unrealize(o)
       ELSE /\ vb' = IF changed THEN [vb EXCEPT ![o].channel = platform.tuned,
                                                ![o].playState = "connecting"]
                     ELSE vb
            /\ UNCHANGED shared
    /\ UNCHANGED stack

OnChannelStatusChanged(o, e) ==
    \/ vb[o].playState = "connecting" /\ WhileConnecting(o, e)
    \/ vb[o].playState = "presenting" /\ WhilePresenting(o, e)
    \/ vb[o].playState = "stopped" /\ WhileStopped(o, e)
    \/ vb[o].playState = "unrealized" /\ UNCHANGED <<vb, shared, stack>>

\* Presentation is blocked: an object still waiting for the confirmation of a
\* channel change is connecting, whatever has happened to it since.
OnParentalRatingChange(o) ==
    /\ vb' = IF vb[o].waitingConfirm THEN [vb EXCEPT ![o].playState = "connecting"] ELSE vb
    /\ UNCHANGED <<shared, stack>>

OnTransitionedToBroadcastRelated(o) ==
    /\ vb' = IF ~vb[o].isTransitioning THEN vb
             ELSE [vb EXCEPT ![o].isTransitioning = FALSE, ![o].isBroadcastRelated = TRUE,
                             ![o].channel = IF platform.broadcastApp
                                            THEN platform.tuned ELSE @]
    /\ UNCHANGED <<shared, stack>>

\* Dispatching: the objects listening when the event arrives get it one by one,
\* unless they stop listening before their turn.
DispatchEvent ==
    /\ Idle
    /\ platform.events # <<>>
    /\ platform' = [platform EXCEPT !.events = Tail(@)]
    /\ todo' = {o \in Objects : vb[o].listening}
    /\ current' = LET e == Head(platform.events) IN
                  IF todo' = {} THEN NoEvent
                  ELSE [status |-> e.status, channel |-> e.channel, begun |-> FALSE]
    /\ UNCHANGED <<vb, shared, stack, xhrs, page, spent>>

Handle(o) ==
    /\ stack = <<>> /\ o \in todo
    /\ todo' = todo \ {o}
    /\ \/ current.status = "blocked" /\ OnParentalRatingChange(o)
       \/ current.status = "transitioned" /\ OnTransitionedToBroadcastRelated(o)
       \/ current.status \notin {"blocked", "transitioned"} /\ OnChannelStatusChanged(o, current)
    /\ current' = IF todo' = {} THEN NoEvent ELSE [current EXCEPT !.begun = TRUE]
    /\ UNCHANGED <<xhrs, platform, page, spent>>

\* The page's listener returns and the rest of the method runs.
Return ==
    /\ stack # <<>>
    /\ LET k == stack[Len(stack)] IN
       \/ k.what = "bind" /\ BindReturns(k)
       \/ k.what = "null" /\ SetChannelNullReturns(k)
       \/ k.what = "confirm" /\ ConfirmReturns(k)
    /\ UNCHANGED <<todo, current, xhrs, page, spent>>

-----------------------------------------------------------------------------
(* Objects come and go                                                      *)

Initialise(o) ==
    /\ PageRuns /\ vb[o].life = "unborn"
    /\ vb' = [vb EXCEPT ![o] = Initialised(platform.tuned, platform.broadcastApp)]
    /\ UNCHANGED <<shared, stack, todo, current, xhrs, platform, page, spent>>

\* The engine collects an object the page dropped.  The finalizer throws at its
\* first statement (setVideoRectangle is not in its scope): the owner stays.
Collect(o) ==
    /\ Idle
    /\ o \in Transient /\ Live(o)
    /\ vb' = [vb EXCEPT ![o] = [vb[o] EXCEPT !.life = "collected", !.listening = FALSE]]
    /\ UNCHANGED <<shared, stack, todo, current, xhrs, platform, page, spent>>

-----------------------------------------------------------------------------
(* The platform                                                             *)

PlatformEvent ==
    /\ Len(platform.events) < MaxQueue
    /\ UNCHANGED <<vb, shared, stack, todo, current, xhrs, page>>

\* A channel an application asked for earlier is tuned to.
TunesAsRequested ==
    /\ PlatformEvent
    /\ platform.requested # NoChannel
    /\ platform' = Tuned(platform.requested)
    /\ UNCHANGED spent

Spend == spent.events < MaxEvents /\ spent' = [spent EXCEPT !.events = @ + 1]

\* The viewer changes the channel.
TunesForViewer(c) ==
    /\ PlatformEvent /\ Spend
    /\ platform' = [Tuned(c) EXCEPT !.requested = platform.requested]

Reports(status) ==
    /\ PlatformEvent /\ Spend
    /\ platform.tuned # NoChannel
    /\ platform' = [platform EXCEPT
                      !.events = Append(@, [status |-> status, channel |-> platform.tuned])]

\* The manager finds the application signalled on the new channel.
TransitionsToBroadcastRelated ==
    /\ PlatformEvent
    /\ ~platform.broadcastApp /\ platform.tuned # NoChannel
    /\ platform' = [platform EXCEPT !.broadcastApp = TRUE,
                      !.events = Append(@, [status |-> "transitioned", channel |-> platform.tuned])]
    /\ UNCHANGED spent

PageStep ==
    \/ \E o \in Objects :
          \/ Initialise(o) \/ BindToCurrentChannel(o) \/ SetChannel(o)
          \/ SetChannelNull(o) \/ Release(o) \/ Stop(o) \/ CycleChannel(o)
          \/ \E s \in Streams, l \in Listeners :
                AddStreamEventListener(o, s, l) \/ RemoveStreamEventListener(o, s, l)

LoopStep ==
    \/ DispatchEvent \/ Return
    \/ \E o \in Objects : Handle(o) \/ Collect(o)
    \/ \E x \in xhrs : LoadEnd(x)

PlatformStep ==
    \/ TunesAsRequested \/ TransitionsToBroadcastRelated
    \/ \E c \in Channels : TunesForViewer(c)
    \/ \E st \in {"presenting", "transient", "permanent", "blocked"} : Reports(st)
    \/ \E id \in Ids : StreamEventError(id)

Next == PageStep \/ LoopStep \/ PlatformStep

Spec == Init /\ [][Next]_vars

-----------------------------------------------------------------------------
(* Properties                                                               *)

SomeChannel == Channels \cup {NoChannel}

ObjectData ==
    [life : {"unborn", "live", "collected"}, playState : PlayStates,
     isBroadcastRelated : BOOLEAN, isTransitioning : BOOLEAN, waitingConfirm : BOOLEAN,
     channel : SomeChannel, listening : BOOLEAN,
     idMap : [Streams -> Ids \cup {0}], listenerMap : [Ids -> SUBSET Listeners]]

Statuses == {"connecting", "presenting", "transient", "permanent", "blocked", "transitioned"}

Waiting == [what : {"bind", "null", "confirm"}, obj : Objects, inPage : BOOLEAN,
            present : BOOLEAN, channel : SomeChannel]

TypeOK ==
    /\ vb \in [Objects -> ObjectData]
    /\ shared \in [owner : Objects \cup {NoObject}, registered : SUBSET Ids, nextId : Nat \ {0}]
    /\ stack \in Seq(Waiting)
    /\ todo \subseteq Objects
    /\ current \in [status : Statuses \cup {"none"}, channel : SomeChannel, begun : BOOLEAN]
    /\ xhrs \subseteq Objects \X Streams \X Listeners
    /\ platform \in [tuned : SomeChannel, requested : SomeChannel, broadcastApp : BOOLEAN,
                     events : Seq([status : Statuses, channel : SomeChannel])]
    /\ page \in [linked : BOOLEAN, alike : BOOLEAN]
    /\ spent \in [calls : [Objects -> Nat], events : Nat]

(* ActiveObjectListens: an object that says it is connecting or presenting   *)
(* hears the platform's channel status events (addBridgeEventListeners and   *)
(* removeBridgeEventListeners keep step with p.playState), through failed    *)
(* channel changes, errors and listeners that call methods.  A linked        *)
(* application's object can be released by its listener in the middle of     *)
(* bindToCurrentChannel, which then makes it presenting.                     *)
ActiveObjectListens ==
    ~page.linked =>
        \A o \in Objects : Live(o) /\ vb[o].playState \in Active => vb[o].listening

(* OneActiveObject: of objects acquireActiveState can tell apart, only the   *)
(* owner of the active state is connecting, presenting or stopped.           *)
OneActiveObject ==
    ~page.linked /\ ~page.alike =>
        \A o \in Objects : vb[o].playState # "unrealized" => shared.owner = o

(* StreamEventMapsAgree: an id of streamEventListenerIdMap has listeners in  *)
(* streamEventListenerMap and the other way round, no id serves two events   *)
(* or objects, and no listener is left registered with the bridge that no    *)
(* object knows: the "Unconsistent state" of the code is never reached.      *)
StreamEventMapsAgree ==
    /\ \A o \in Objects :
          /\ {i \in Ids : vb[o].listenerMap[i] # {}} = IdsOf(vb[o])
          /\ \A s, t \in Streams : s # t /\ vb[o].idMap[s] # 0 => vb[o].idMap[s] # vb[o].idMap[t]
    /\ \A o, q \in Objects : o # q => IdsOf(vb[o]) \cap IdsOf(vb[q]) = {}
    /\ shared.registered \subseteq UNION {IdsOf(vb[o]) : o \in Objects}

(* ChannelFollows: once every event has been handled and no request is open, *)
(* a connecting or presenting object's currentChannelData is the channel the *)
(* platform is tuned to, if any.                                             *)
ChannelFollows ==
    /\ ~page.linked /\ Idle /\ platform.events = <<>>
    /\ platform.requested = NoChannel /\ platform.tuned # NoChannel
    => \A o \in Objects :
            Live(o) /\ vb[o].playState \in Active /\ vb[o].listening =>
                vb[o].channel = platform.tuned
=============================================================================
