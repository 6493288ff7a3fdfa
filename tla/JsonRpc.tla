------------------------------- MODULE JsonRpc -------------------------------
(***************************************************************************)
(* JsonRpcService: what the applications on its web socket have negotiated *)
(* and declared, and what the terminal sends them.  Messages are handled   *)
(* by the looper, one at a time, under connections_mutex_.  The terminal's *)
(* thread sends a voice intent, or notifies a changed preference, to all   *)
(* connections that want it, and takes the mutex anew for every read and   *)
(* write of a connection's data: clients come, change and go in between.   *)
(***************************************************************************)
EXTENDS Integers, FiniteSets

CONSTANTS
    Conns,       \* connection ids; next_connection_id_ never gives one twice
    Features,    \* accessibility features
    Intents,     \* intent methods, of the classes of AllIntents
    Offers,      \* method lists that clients negotiate
    InResult,    \* methods that clients name in a result
    Media,       \* valid states that clients declare with stateMedia
    Seeks,       \* anchor and offset of the seeks that the terminal asks for
    Times,       \* what std::time plus the bias may be
    MaxIntents,  \* bound: intents sent to one connection
    MaxQueries,  \* bound: requests that wait for their answer
    NoConn       \* no connection

(* Intents that differ in nothing but their name are one: "stop" stands for
   the fast-forward and fast-reverse intents, too, "seek" for the four seeks,
   "search" for search and display.                                        *)
AllIntents == {"pause", "play", "stop", "seek", "playback", "search"}
TerminalToApp == Intents \cup {"notify"}
(* "query" stands for the requests that the terminal answers later.        *)
AppToTerminal == {"negotiate", "subscribe", "unsubscribe", "query", "ready", "state"}

ActiveStates == {"buffering", "paused", "playing"}
States == ActiveStates \cup {"", "no-media", "error", "stopped"}

MediaType == [state : States, actions : SUBSET Intents, start : Int, end : Int]
NoMedia == [state |-> "", actions |-> {}, start |-> -1, end |-> -1]
Anchors == {"start", "end", "now", "clock"}

ASSUME JsonRpcAssumption ==
    /\ Intents \subseteq AllIntents /\ InResult \subseteq AppToTerminal
    /\ \A o \in Offers : o.appToTerminal \in SUBSET STRING
                           /\ o.terminalToApp \in SUBSET STRING
    /\ Media \subseteq MediaType
    /\ \A m \in Media : /\ m.state # ""
                        /\ IF m.state \in ActiveStates
                           THEN m.start \in Nat /\ m.end \in Nat /\ m.start <= m.end
                           ELSE m.start = -1 /\ m.end = -1
    /\ \A s \in Seeks : s.anchor \in Anchors /\ s.offset \in Int
    /\ Times \subseteq Nat
    /\ MaxIntents \in Nat /\ MaxQueries \in Nat
    /\ NoConn \notin Conns

VARIABLES
    data,     \* m_connectionData
    leaked,   \* the terminal's thread returned with connections_mutex_ locked
    call,     \* the call the terminal's thread is in
    query,    \* connection -> its request that the terminal has to answer
    lastId    \* history: connection -> the id of the last intent sent to it

vars == <<data, leaked, call, query, lastId>>

ConnectionData ==
    [open : {"no", "yes", "gone"},
     a2t : SUBSET AppToTerminal, t2a : SUBSET TerminalToApp,
     subscribed : SUBSET Features, count : 0..MaxIntents,
     ready : BOOLEAN, media : MediaType]

Call ==
    [step : {"idle", "ready", "methods", "state", "action", "subscribed",
             "notifiable", "count", "set", "start", "end", "send"},
     method : TerminalToApp \cup {""}, feature : Features \cup {NoConn},
     anchor : Anchors, offset : Int,
     ids : SUBSET Conns,              \* connections to examine
     to : SUBSET Conns,               \* connections to send to
     at : Conns \cup {NoConn},        \* the connection of this step
     state : States,                  \* the state that was read
     start : Int,                     \* the start time that was read
     base : Int,                      \* the time the offset counts from
     id : 0..MaxIntents,              \* the intent's id
     changed : SUBSET Conns]          \* history: since the call began

Idle == [step |-> "idle", method |-> "", feature |-> NoConn, anchor |-> "now",
         offset |-> 0, ids |-> {}, to |-> {}, at |-> NoConn, state |-> "",
         start |-> -1, base |-> 0, id |-> 0, changed |-> {}]

TypeOK ==
    /\ data \in [Conns -> ConnectionData]
    /\ leaked \in BOOLEAN
    /\ call \in Call
    /\ query \in [Conns -> {"none", "sent", "passed"}]
    /\ lastId \in [Conns -> 0..MaxIntents]

(* ConnectionData as InitialConnectionData makes it.                       *)
NewData(open) ==
    [open |-> open, a2t |-> {"negotiate"}, t2a |-> {}, subscribed |-> {},
     count |-> 0, ready |-> FALSE, media |-> NoMedia]

Init ==
    /\ data = [c \in Conns |-> NewData("no")]
    /\ leaked = FALSE
    /\ call = Idle
    /\ query = [c \in Conns |-> "none"]
    /\ lastId = [c \in Conns |-> 0]

Open == {c \in Conns : data[c].open = "yes"}
-----------------------------------------------------------------------------
(* The looper.  Every callback needs connections_mutex_.                   *)
Changed(c) == call' = IF call.step = "idle" THEN call
                      ELSE [call EXCEPT !.changed = @ \cup {c}]

OnConnection(c) ==
    /\ ~leaked /\ data[c].open = "no"
    /\ data' = [data EXCEPT ![c] = NewData("yes")]
    /\ UNCHANGED <<leaked, call, query, lastId>>

OnDisconnected(c) ==
    /\ ~leaked /\ c \in Open
    /\ data' = [data EXCEPT ![c] = NewData("gone")]
    /\ query' = [query EXCEPT ![c] = IF @ = "sent" THEN "none" ELSE @]
    /\ lastId' = [lastId EXCEPT ![c] = 0]
    /\ Changed(c)
    /\ UNCHANGED leaked

(* OnMessageReceived: a method has to be negotiated unless it is named in a
   result.  What is refused is answered with an error and changes nothing. *)
Served(c, method) ==
    /\ ~leaked /\ c \in Open
    /\ method \in data[c].a2t \cup InResult

(* Mutant: the list last negotiated replaces the first one.                *)
RequestNegotiateMethods_Replaces(c, offer) ==
    /\ Served(c, "negotiate")
    /\ data' = [data EXCEPT ![c].t2a = offer.terminalToApp \cap TerminalToApp,
                            ![c].a2t = offer.appToTerminal \cap AppToTerminal]
    /\ UNCHANGED <<leaked, call, query, lastId>>

(* RequestNegotiateMethods, FilterMethods: the supported methods of the
   offer are added.                                                        *)
RequestNegotiateMethods(c, offer) ==
    /\ Served(c, "negotiate")
    /\ data' = [data EXCEPT ![c].t2a = @ \cup (offer.terminalToApp \cap TerminalToApp),
                            ![c].a2t = @ \cup (offer.appToTerminal \cap AppToTerminal)]
    /\ UNCHANGED <<leaked, call, query, lastId>>

(* The features before an unknown one in the list are taken, although the
   request is answered with INVALID_PARAMS.                                *)
RequestSubscribe(c, features) ==
    /\ Served(c, "subscribe")
    /\ data' = [data EXCEPT ![c].subscribed = @ \cup features]
    /\ UNCHANGED <<leaked, call, query, lastId>>

RequestUnsubscribe(c, features) ==
    /\ Served(c, "unsubscribe")
    /\ data' = [data EXCEPT ![c].subscribed = @ \ features]
    /\ Changed(c)
    /\ UNCHANGED <<leaked, query, lastId>>

NotifyVoiceReady(c, ready) ==
    /\ Served(c, "ready")
    /\ data' = [data EXCEPT ![c].ready = ready]
    /\ Changed(c)
    /\ UNCHANGED <<leaked, query, lastId>>

(* NotifyStateMedia with valid parameters; others change nothing.          *)
NotifyStateMedia(c, media) ==
    /\ Served(c, "state")
    /\ data' = [data EXCEPT ![c].media = media]
    /\ Changed(c)
    /\ UNCHANGED <<leaked, query, lastId>>

(* A client sends a request of the "query" class.                          *)
ClientAsks(c) ==
    /\ c \in Open /\ query[c] = "none"
    /\ Cardinality({d \in Conns : query[d] # "none"}) < MaxQueries
    /\ query' = [query EXCEPT ![c] = "sent"]
    /\ UNCHANGED <<data, leaked, call, lastId>>

(* RequestFeatureSupportInfo and its like pass a valid request on; an
   invalid one, or one that was not negotiated, is answered at once.       *)
RequestReceived(c, valid) ==
    /\ ~leaked /\ c \in Open /\ query[c] = "sent"
    /\ query' = [query EXCEPT ![c] = IF valid /\ Served(c, "query")
                                     THEN "passed" ELSE "none"]
    /\ UNCHANGED <<data, leaked, call, lastId>>
-----------------------------------------------------------------------------
(* Respond...: the terminal answers, from whichever thread has the answer;
   nothing is sent if the connection is gone.                              *)
Respond(c) ==
    /\ ~leaked /\ query[c] = "passed"
    /\ query' = [query EXCEPT ![c] = "none"]
    /\ UNCHANGED <<data, leaked, call, lastId>>

(* The terminal's thread.  SendIntent...: the ids of all connections are
   collected first.                                                        *)
SendIntentMessage(method, seek) ==
    /\ call.step = "idle"
    /\ \A c \in Open : data[c].count < MaxIntents
    /\ call' = [Idle EXCEPT !.step = "ready", !.method = method, !.ids = Open,
                            !.anchor = seek.anchor, !.offset = seek.offset]
    /\ UNCHANGED <<data, leaked, query, lastId>>

SendNotifyMessage(feature) ==
    /\ call.step = "idle"
    /\ call' = [Idle EXCEPT !.step = "subscribed", !.method = "notify",
                            !.feature = feature, !.ids = Open]
    /\ UNCHANGED <<data, leaked, query, lastId>>

(* Where the call goes on when it is done with c: to the next connection to
   examine, then to the first one to send to, then it returns.             *)
Continue(k) ==
    IF k.ids # {}
    THEN [k EXCEPT !.step = IF k.method = "notify" THEN "subscribed" ELSE "ready",
                   !.at = NoConn, !.state = "", !.start = -1, !.base = 0, !.id = 0]
    ELSE IF k.to # {}
    THEN [k EXCEPT !.step = IF k.method = "notify" THEN "send" ELSE "count",
                   !.at = NoConn, !.state = "", !.start = -1, !.base = 0, !.id = 0]
    ELSE Idle

Skip(c) == Continue([call EXCEPT !.ids = @ \ {c}])
Take(c) == Continue([call EXCEPT !.ids = @ \ {c}, !.to = @ \cup {c}])
Done(c) == Continue([call EXCEPT !.to = @ \ {c}])

ReturnEmpty ==
    /\ call.step \in {"ready", "subscribed"} /\ call.ids = {}
    /\ call' = Continue(call)
    /\ UNCHANGED <<data, leaked, query, lastId>>

(* One read under the mutex: the call becomes "then" if it may go on.      *)
Read(c, step, first, goesOn, then) ==
    /\ call.step = step
    /\ IF first THEN c \in call.ids ELSE c = call.at
    /\ call' = IF c \in Open /\ goesOn
               THEN [then EXCEPT !.at = IF @ = NoConn /\ then.step # "idle"
                                           /\ c \in then.ids THEN c ELSE @]
               ELSE Skip(c)
    /\ UNCHANGED <<data, leaked, query, lastId>>

(* CheckIntentMethod: VoiceReady, then the negotiated methods, the state and
   the available action of a connection.                                   *)
CheckReady(c) ==
    Read(c, "ready", TRUE, data[c].ready, [call EXCEPT !.step = "methods"])

CheckMethods(c) ==
    Read(c, "methods", FALSE, call.method \in data[c].t2a,
         [call EXCEPT !.step = "state"])

CheckState(c) ==
    Read(c, "state", FALSE, TRUE,
         [call EXCEPT !.step = "action", !.state = data[c].media.state])

MayBeSent(method, state, actions) ==
    \/ method \in {"search", "playback"}
    \/ method = "play" /\ state = "stopped" /\ "play" \in actions
    \/ /\ state \in ActiveStates /\ method \in actions
       /\ method = "pause" => state # "paused"

CheckAction(c) ==
    Read(c, "action", FALSE,
         MayBeSent(call.method, call.state, data[c].media.actions), Take(c))

(* GetNotifyConnectionIds.                                                 *)
CheckSubscribed(c) ==
    Read(c, "subscribed", TRUE, call.feature \in data[c].subscribed,
         [call EXCEPT !.step = "notifiable"])

CheckNotifiable(c) ==
    Read(c, "notifiable", FALSE, "notify" \in data[c].t2a, Take(c))
-----------------------------------------------------------------------------
(* GenerateId reads the count and sets it; without its connection, the
   intent is not sent.                                                     *)
GenerateId(c) ==
    /\ call.step = "count" /\ c \in call.to
    /\ call' = IF c \in Open
               THEN [call EXCEPT !.step = "set", !.at = c, !.id = data[c].count + 1]
               ELSE Done(c)
    /\ UNCHANGED <<data, leaked, query, lastId>>

Adjusts == call.method \in {"seek", "playback"}

(* Mutants: the mutex stays locked also where the connection is found; the
   count is not set.                                                       *)
SetIntentIdCount_NeverUnlocks(c) ==
    /\ call.step = "set" /\ c = call.at
    /\ leaked' = TRUE
    /\ data' = IF c \in Open THEN [data EXCEPT ![c].count = call.id] ELSE data
    /\ call' = IF c \notin Open THEN Done(c)
               ELSE [call EXCEPT !.step = IF Adjusts THEN "start" ELSE "send"]
    /\ UNCHANGED <<query, lastId>>

SetIntentIdCount_NotSet(c) ==
    /\ call.step = "set" /\ c = call.at
    /\ call' = IF c \notin Open THEN Done(c)
               ELSE [call EXCEPT !.step = IF Adjusts THEN "start" ELSE "send"]
    /\ UNCHANGED <<data, leaked, query, lastId>>

(* SetConnectionData returns with the mutex locked if the connection is
   gone.                                                                   *)
SetIntentIdCount(c) ==
    /\ call.step = "set" /\ c = call.at
    /\ leaked' = (leaked \/ c \notin Open)
    /\ data' = IF c \in Open THEN [data EXCEPT ![c].count = call.id] ELSE data
    /\ call' = IF c \notin Open THEN Done(c)
               ELSE [call EXCEPT !.step = IF Adjusts THEN "start" ELSE "send"]
    /\ UNCHANGED <<query, lastId>>

(* AdjustTimeRange: the bias and the start, then the end are read.  Without
   them, or without a range, the parameters stay as they are.              *)
ReadStart(c) ==
    /\ call.step = "start" /\ c = call.at
    /\ call' = IF c \in Open
               THEN [call EXCEPT !.step = "end", !.start = data[c].media.start]
               ELSE Done(c)
    /\ UNCHANGED <<data, leaked, query, lastId>>

Larger(a, b) == IF a >= b THEN a ELSE b
Smaller(a, b) == IF a <= b THEN a ELSE b

(* Mutant: only the end limits the target.                                 *)
AdjustTimeRange_OnlyEnd(c, now) ==
    LET end == data[c].media.end
        base == CASE call.anchor = "start" -> call.start
                  [] call.anchor = "end" -> end
                  [] call.anchor = "now" -> now
                  [] call.anchor = "clock" -> 0
        set == Smaller(base + call.offset, end)
    IN  /\ call.step = "end" /\ c = call.at
        /\ call' = IF c \notin Open THEN Done(c)
                   ELSE IF call.start = -1 \/ end = -1
                   THEN [call EXCEPT !.step = "send"]
                   ELSE [call EXCEPT !.step = "send", !.base = base, !.offset = set - base]
        /\ UNCHANGED <<data, leaked, query, lastId>>

(* The target is brought into the range, and the offset that leads to it
   becomes that of the connections to come, too: they share params.        *)
AdjustTimeRange(c, now) ==
    LET end == data[c].media.end
        base == CASE call.anchor = "start" -> call.start
                  [] call.anchor = "end" -> end
                  [] call.anchor = "now" -> now
                  [] call.anchor = "clock" -> 0
        set == Smaller(Larger(base + call.offset, call.start), end)
    IN  /\ call.step = "end" /\ c = call.at
        /\ call' = IF c \notin Open THEN Done(c)
                   ELSE IF call.start = -1 \/ end = -1
                   THEN [call EXCEPT !.step = "send"]
                   ELSE [call EXCEPT !.step = "send", !.base = base, !.offset = set - base]
        /\ UNCHANGED <<data, leaked, query, lastId>>

(* SendJsonMessageToClient.                                                *)
SendJsonMessageToClient(c) ==
    /\ call.step = "send"
    /\ IF call.method = "notify" THEN c \in call.to ELSE c = call.at
    /\ lastId' = IF call.method # "notify" /\ c \in Open
                 THEN [lastId EXCEPT ![c] = call.id] ELSE lastId
    /\ call' = Done(c)
    /\ UNCHANGED <<data, leaked, query>>
-----------------------------------------------------------------------------
Looper(c) ==
    \/ OnConnection(c)
    \/ OnDisconnected(c)
    \/ \E o \in Offers : RequestNegotiateMethods(c, o)
    \/ \E fs \in SUBSET Features \ {{}} : \/ RequestSubscribe(c, fs)
                                          \/ RequestUnsubscribe(c, fs)
    \/ \E ready \in BOOLEAN : NotifyVoiceReady(c, ready)
    \/ \E m \in Media : NotifyStateMedia(c, m)

Reads(c) ==
    \/ CheckReady(c) \/ CheckMethods(c) \/ CheckState(c) \/ CheckAction(c)
    \/ CheckSubscribed(c) \/ CheckNotifiable(c)

Sends(c) ==
    \/ GenerateId(c) \/ SetIntentIdCount(c)
    \/ ReadStart(c) \/ \E now \in Times : AdjustTimeRange(c, now)
    \/ SendJsonMessageToClient(c)

Terminal == ReturnEmpty \/ \E c \in Conns : Reads(c) \/ Sends(c)

Answers(c) == \E valid \in BOOLEAN : RequestReceived(c, valid)

Next ==
    \/ \E c \in Conns : Looper(c) \/ ClientAsks(c) \/ Answers(c) \/ Respond(c)
    \/ \E m \in Intents, s \in Seeks : SendIntentMessage(m, s)
    \/ \E f \in Features : SendNotifyMessage(f)
    \/ Terminal

Spec == Init /\ [][Next]_vars

(* The looper goes on while it gets the mutex, and the terminal answers the
   requests it was passed.                                                 *)
FairSpec == Spec /\ \A c \in Conns : WF_vars(Answers(c) \/ Respond(c))
-----------------------------------------------------------------------------
(* A connection that the terminal's thread is about to send to.            *)
Sending(c) == /\ call.step = "send" /\ c \in Open
              /\ IF call.method = "notify" THEN c \in call.to ELSE c = call.at

(* What is sent to a connection was negotiated by it, whatever happened since
   the connections were examined; and if the connection declared nothing else
   in the meantime, it is ready for the intent, the intent is available in its
   state, or it subscribed to the notification.                            *)
SentAsDeclared ==
    \A c \in Conns : Sending(c) =>
        /\ call.method \in data[c].t2a
        /\ c \notin call.changed =>
            IF call.method = "notify" THEN call.feature \in data[c].subscribed
            ELSE /\ data[c].ready
                 /\ MayBeSent(call.method, data[c].media.state, data[c].media.actions)

(* A seek that is sent leads into the range the connection declared, unless
   it declared another one in the meantime.                                *)
SeekWithinRange ==
    \A c \in Conns : Sending(c) /\ Adjusts /\ c \notin call.changed =>
        \/ data[c].media.start = -1
        \/ call.base + call.offset \in data[c].media.start..data[c].media.end

(* The intents sent to a connection have ids that increase: a confirmation
   names one of them.                                                      *)
IntentIdsIncrease ==
    \A c \in Conns : Sending(c) /\ call.method # "notify" => lastId[c] < call.id

(* A request is answered, or its client leaves, unless a client left, and did
   so while an intent for it was being numbered: then the mutex stays locked
   and nobody is answered any more.                                        *)
RequestsAreAnswered ==
    \A c \in Conns : query[c] # "none" ~>
        (query[c] = "none" \/ (leaked /\ \E d \in Conns : data[d].open = "gone"))
=============================================================================
