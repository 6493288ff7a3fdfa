---------------------------- MODULE JsonRpcProofs ----------------------------
(***************************************************************************)
(* What JsonRpcService promises its connections, for any number of them:   *)
(* nothing is sent that was not negotiated and declared, a seek stays in   *)
(* the declared range, and the ids of intents increase.                    *)
(*                                                                         *)
(* The terminal's call is spread over many steps between which clients     *)
(* come, change and go.  The inductive invariant relates the call to each  *)
(* connection on its own: Fits(k, d, l, c) speaks of the call k, the data  *)
(* d and the last id l of the connection c, and of nothing else, so that a *)
(* step of one connection leaves it alone for all others.                  *)
(***************************************************************************)
EXTENDS JsonRpc, TLAPS

Numbering == {"count", "set", "start", "end", "send"}
Numbered == {"start", "end", "send"}

(* How the parts of a call depend on its step.                             *)
CallFits(k) ==
    /\ k.step = "idle" => k = Idle
    /\ k.step \in {"ready", "subscribed"} => k.at = NoConn
    /\ k.step \in {"methods", "state", "action", "notifiable"} => k.at \in k.ids
    /\ k.step \in {"set", "start", "end"} => k.at \in k.to
    /\ k.step = "send" /\ k.method # "notify" => k.at \in k.to
    /\ k.step \in Numbering => k.ids = {}
    /\ k.step \in {"subscribed", "notifiable"} => k.method = "notify"
    /\ k.step \in {"ready", "methods", "state", "action", "count", "set", "start", "end"}
         => k.method # "notify"

(* What was found of a connection that will be sent to.                    *)
AsDeclared(k, d, c) ==
    /\ k.method \in d.t2a
    /\ c \notin k.changed =>
        IF k.method = "notify" THEN k.feature \in d.subscribed
        ELSE d.ready /\ MayBeSent(k.method, d.media.state, d.media.actions)

(* What was found, so far, of the connection that is examined.             *)
Examined(k, d, c) ==
    /\ k.step \in {"state", "action"} => k.method \in d.t2a
    /\ c \notin k.changed =>
        /\ k.step \in {"methods", "state", "action"} => d.ready
        /\ k.step = "action" => k.state = d.media.state
        /\ k.step = "notifiable" => k.feature \in d.subscribed

(* The id of the intent for the connection.                                *)
HasItsId(k, d, l) ==
    k.method # "notify" => /\ k.step = "set" => k.id = d.count + 1
                           /\ k.step \in Numbered => k.id = d.count /\ l < k.id

(* The range that was read for the connection, and the target in it.       *)
InRange(k, d, c) ==
    c \notin k.changed =>
        /\ k.step = "end" => k.start = d.media.start
        /\ k.step = "send" /\ k.method \in {"seek", "playback"} =>
            \/ d.media.start = -1
            \/ k.base + k.offset \in d.media.start..d.media.end

(* The count leaves room for an id that is still to be made.               *)
HasRoom(k, d, c) ==
    c \in k.ids \cup k.to /\ k.method # "notify" /\ ~(k.at = c /\ k.step \in Numbered)
        => d.count < MaxIntents

Fits(k, d, l, c) ==
    /\ d.media \in Media \cup {NoMedia}
    /\ l <= d.count
    /\ d.open = "no" => l = 0 /\ c \notin k.ids \cup k.to
    /\ d.open = "yes" =>
        /\ c \in k.to => AsDeclared(k, d, c)
        /\ k.at = c => Examined(k, d, c) /\ HasItsId(k, d, l) /\ InRange(k, d, c)
        /\ HasRoom(k, d, c)

IInv ==
    /\ TypeOK
    /\ CallFits(call)
    /\ \A c \in Conns : Fits(call, data[c], lastId[c], c)
-----------------------------------------------------------------------------
(* The bound of intents per connection allows for none, and NoConn is no
   connection.                                                             *)
LEMMA Constants == MaxIntents \in Nat /\ 0 \in 0..MaxIntents /\ NoConn \notin Conns
<1>1. MaxIntents \in Nat /\ NoConn \notin Conns
  BY JsonRpcAssumption, Zenon
<1> QED BY <1>1

(* Where a call goes on, from Continue.                                    *)
LEMMA IdleCall == Idle \in Call
<1>1. 0 \in 0..MaxIntents
  BY Constants
<1> QED BY <1>1 DEF Idle, Call, States, ActiveStates, Anchors

LEMMA ContinueFields ==
  ASSUME NEW k \in Call
  PROVE  \/ Continue(k) = Idle
         \/ /\ Continue(k).ids = k.ids /\ Continue(k).to = k.to
            /\ Continue(k).method = k.method /\ Continue(k).feature = k.feature
            /\ Continue(k).changed = k.changed /\ Continue(k).at = NoConn
            /\ \/ k.ids # {} /\ Continue(k).step =
                    IF k.method = "notify" THEN "subscribed" ELSE "ready"
               \/ k.ids = {} /\ Continue(k).step =
                    IF k.method = "notify" THEN "send" ELSE "count"
BY DEF Continue, Call

LEMMA ContinueType ==
  ASSUME NEW k \in Call
  PROVE  Continue(k) \in Call
<1>1. 0 \in 0..MaxIntents
  BY Constants
<1> DEFINE c1 == [k EXCEPT !.step = IF k.method = "notify" THEN "subscribed" ELSE "ready",
                   !.at = NoConn, !.state = "", !.start = -1, !.base = 0, !.id = 0]
<1> DEFINE c2 == [k EXCEPT !.step = IF k.method = "notify" THEN "send" ELSE "count",
                   !.at = NoConn, !.state = "", !.start = -1, !.base = 0, !.id = 0]
<1>2. "" \in States /\ -1 \in Int /\ 0 \in Int
  BY DEF States
<1>3. c1 \in Call /\ c2 \in Call
  <2>1. c1 \in Call
    BY <1>1, <1>2 DEF Call
  <2>2. c2 \in Call
    BY <1>1, <1>2 DEF Call
  <2> QED BY <2>1, <2>2
<1>4. Continue(k) \in {c1, c2, Idle}
  BY DEF Continue
<1> HIDE DEF c1, c2
<1> QED BY <1>3, <1>4, IdleCall

(* What has to be known of a connection for the call to go on.             *)
Rests(k, d, l, c) ==
    /\ d.media \in Media \cup {NoMedia}
    /\ l <= d.count
    /\ d.open = "no" => l = 0 /\ c \notin k.ids \cup k.to
    /\ d.open = "yes" =>
        /\ c \in k.to => AsDeclared(k, d, c)
        /\ c \in k.ids \cup k.to /\ k.method # "notify" => d.count < MaxIntents

LEMMA ContinueFits ==
  ASSUME NEW k \in Call
  PROVE  /\ CallFits(Continue(k))
         /\ \A c \in Conns : \A d, l :
                Rests(k, d, l, c) => Fits(Continue(k), d, l, c)
<1>1. Idle.ids = {} /\ Idle.to = {} /\ Idle.at = NoConn /\ Idle.step = "idle"
  BY DEF Idle
<1>2. CallFits(Continue(k))
  BY <1>1, ContinueFields DEF CallFits, Numbering
<1>3. ASSUME NEW c \in Conns, NEW d, NEW l, Rests(k, d, l, c)
      PROVE  Fits(Continue(k), d, l, c)
  <2>1. c # NoConn
    BY Constants
  <2>2. CASE Continue(k) = Idle
    BY <1>1, <1>3, <2>1, <2>2 DEF Fits, Rests, HasRoom
  <2>3. CASE Continue(k) # Idle
    BY <1>3, <2>1, <2>3, ContinueFields DEF Fits, Rests, HasRoom, AsDeclared
  <2> QED BY <2>2, <2>3
<1> QED BY <1>2, <1>3
-----------------------------------------------------------------------------
(* A call that goes on with other connections, or with c among those to
   send to: Skip, Take and Done.                                           *)
LEMMA SkipFits ==
  ASSUME IInv, NEW c \in Conns, call.step \notin Numbering
  PROVE  /\ Skip(c) \in Call /\ CallFits(Skip(c))
         /\ \A e \in Conns : Fits(Skip(c), data[e], lastId[e], e)
<1> DEFINE k == [call EXCEPT !.ids = @ \ {c}]
<1>1. call \in Call
  BY DEF IInv, TypeOK
<1>2. /\ k \in Call /\ k.ids = call.ids \ {c} /\ k.to = call.to
      /\ k.method = call.method /\ k.feature = call.feature /\ k.changed = call.changed
  BY <1>1 DEF Call
<1>3. Skip(c) = Continue(k)
  BY DEF Skip
<1> HIDE DEF k
<1>4. ASSUME NEW e \in Conns
      PROVE  Rests(k, data[e], lastId[e], e)
  <2>1. Fits(call, data[e], lastId[e], e)
    BY DEF IInv
  <2> QED BY <1>2, <2>1 DEF Fits, Rests, HasRoom, AsDeclared, Numbering, Numbered
<1> QED BY <1>2, <1>3, <1>4, ContinueType, ContinueFits

LEMMA TakeFits ==
  ASSUME IInv, NEW c \in Conns, call.step \notin Numbering, c \in call.ids,
         data[c].open = "yes" => AsDeclared(call, data[c], c)
  PROVE  /\ Take(c) \in Call /\ CallFits(Take(c))
         /\ \A e \in Conns : Fits(Take(c), data[e], lastId[e], e)
<1> DEFINE k == [call EXCEPT !.ids = @ \ {c}, !.to = @ \cup {c}]
<1>1. call \in Call
  BY DEF IInv, TypeOK
<1>2. /\ k \in Call /\ k.ids = call.ids \ {c} /\ k.to = call.to \cup {c}
      /\ k.method = call.method /\ k.feature = call.feature /\ k.changed = call.changed
  BY <1>1 DEF Call
<1>3. Take(c) = Continue(k)
  BY DEF Take
<1> HIDE DEF k
<1>4. ASSUME NEW e \in Conns
      PROVE  Rests(k, data[e], lastId[e], e)
  <2>1. Fits(call, data[e], lastId[e], e)
    BY DEF IInv
  <2> QED BY <1>2, <2>1 DEF Fits, Rests, HasRoom, AsDeclared, Numbering, Numbered
<1> QED BY <1>2, <1>3, <1>4, ContinueType, ContinueFits

LEMMA DoneFits ==
  ASSUME IInv, NEW c \in Conns, call.step \in Numbering,
         call.step \in Numbered /\ call.method # "notify" => call.at = c
  PROVE  /\ Done(c) \in Call /\ CallFits(Done(c))
         /\ \A e \in Conns : Fits(Done(c), data[e], lastId[e], e)
<1> DEFINE k == [call EXCEPT !.to = @ \ {c}]
<1>1. call \in Call /\ call.ids = {}
  BY DEF IInv, TypeOK, CallFits
<1>2. /\ k \in Call /\ k.ids = call.ids /\ k.to = call.to \ {c}
      /\ k.method = call.method /\ k.feature = call.feature /\ k.changed = call.changed
  BY <1>1 DEF Call
<1>3. Done(c) = Continue(k)
  BY DEF Done
<1> HIDE DEF k
<1>4. ASSUME NEW e \in Conns
      PROVE  Rests(k, data[e], lastId[e], e)
  <2>1. Fits(call, data[e], lastId[e], e)
    BY DEF IInv
  <2> QED BY <1>1, <1>2, <2>1 DEF Fits, Rests, HasRoom, AsDeclared
<1> QED BY <1>2, <1>3, <1>4, ContinueType, ContinueFits
-----------------------------------------------------------------------------
(* The looper: a change of what c declared is noted in the call.           *)
ChangedCall(k, c) == IF k.step = "idle" THEN k ELSE [k EXCEPT !.changed = @ \cup {c}]

LEMMA ChangedFits ==
  ASSUME NEW k \in Call, CallFits(k), NEW c \in Conns
  PROVE  /\ ChangedCall(k, c) \in Call /\ CallFits(ChangedCall(k, c))
         /\ \A e \in Conns \ {c} : \A d, l :
                Fits(k, d, l, e) => Fits(ChangedCall(k, c), d, l, e)
<1> DEFINE K == ChangedCall(k, c)
<1>1. CASE k.step = "idle"
  BY <1>1 DEF ChangedCall
<1>2. CASE k.step # "idle"
  <2>1. /\ K \in Call /\ K.changed = k.changed \cup {c}
        /\ K.step = k.step /\ K.ids = k.ids /\ K.to = k.to /\ K.at = k.at
        /\ K.method = k.method /\ K.feature = k.feature /\ K.id = k.id
        /\ K.start = k.start /\ K.base = k.base /\ K.offset = k.offset
        /\ K.state = k.state
    BY <1>2 DEF ChangedCall, Call
  <2> HIDE DEF K
  <2>2. CallFits(K)
    BY <1>2, <2>1 DEF CallFits
  <2>3. ASSUME NEW e \in Conns \ {c}, NEW d, NEW l, Fits(k, d, l, e)
        PROVE  Fits(K, d, l, e)
    <3>1. AsDeclared(k, d, e) => AsDeclared(K, d, e)
      BY <2>1 DEF AsDeclared
    <3>2. Examined(k, d, e) => Examined(K, d, e)
      BY <2>1 DEF Examined
    <3>3. HasItsId(k, d, l) => HasItsId(K, d, l)
      BY <2>1 DEF HasItsId
    <3>4. InRange(k, d, e) => InRange(K, d, e)
      BY <2>1 DEF InRange
    <3>5. HasRoom(k, d, e) => HasRoom(K, d, e)
      BY <2>1 DEF HasRoom
    <3> QED BY <2>1, <2>3, <3>1, <3>2, <3>3, <3>4, <3>5 DEF Fits
  <2> QED BY <2>1, <2>2, <2>3 DEF K
<1> QED BY <1>1, <1>2

LEMMA DeclaresFits ==
  ASSUME NEW k \in Call, CallFits(k), NEW c \in Conns, NEW d, NEW l, NEW D,
         Fits(k, d, l, c), d.open = "yes", D.open = "yes",
         D.count = d.count, D.t2a = d.t2a, D.media \in Media \cup {NoMedia}
  PROVE  Fits(ChangedCall(k, c), D, l, c)
<1> DEFINE K == ChangedCall(k, c)
<1>0. c # NoConn
  BY Constants
<1>1. CASE k.step = "idle"
  <2>1. K = Idle /\ k = Idle
    BY <1>1 DEF ChangedCall, CallFits
  <2>2. Idle.ids = {} /\ Idle.to = {} /\ Idle.at = NoConn
    BY DEF Idle
  <2> QED BY <1>0, <2>1, <2>2 DEF Fits, HasRoom
<1>2. CASE k.step # "idle"
  <2>1. /\ c \in K.changed
        /\ K.step = k.step /\ K.ids = k.ids /\ K.to = k.to /\ K.at = k.at
        /\ K.method = k.method /\ K.id = k.id
    BY <1>2 DEF ChangedCall, Call
  <2> HIDE DEF K
  <2>2. AsDeclared(k, d, c) => AsDeclared(K, D, c)
    BY <2>1 DEF AsDeclared
  <2>3. Examined(k, d, c) => Examined(K, D, c)
    BY <2>1 DEF Examined
  <2>4. HasItsId(k, d, l) => HasItsId(K, D, l)
    BY <2>1 DEF HasItsId
  <2>5. InRange(K, D, c)
    BY <2>1 DEF InRange
  <2>6. HasRoom(k, d, c) => HasRoom(K, D, c)
    BY <2>1 DEF HasRoom
  <2>7. Fits(K, D, l, c)
    BY <2>1, <2>2, <2>3, <2>4, <2>5, <2>6 DEF Fits
  <2> QED BY <2>7 DEF K
<1> QED BY <1>1, <1>2

(* It adds to what was negotiated and subscribed without a note.           *)
LEMMA AddsFits ==
  ASSUME NEW k, NEW c \in Conns, NEW d, NEW l, NEW D, Fits(k, d, l, c),
         D.open = d.open, D.count = d.count, D.media = d.media, D.ready = d.ready,
         d.t2a \subseteq D.t2a, d.subscribed \subseteq D.subscribed
  PROVE  Fits(k, D, l, c)
<1>1. AsDeclared(k, d, c) => AsDeclared(k, D, c)
  BY DEF AsDeclared
<1>2. Examined(k, d, c) => Examined(k, D, c)
  BY DEF Examined
<1>3. HasItsId(k, d, l) => HasItsId(k, D, l)
  BY DEF HasItsId
<1>4. InRange(k, d, c) => InRange(k, D, c)
  BY DEF InRange
<1>5. HasRoom(k, d, c) => HasRoom(k, D, c)
  BY DEF HasRoom
<1> QED BY <1>1, <1>2, <1>3, <1>4, <1>5 DEF Fits
-----------------------------------------------------------------------------
(* A step of the looper replaces the data of one connection.               *)
LEMMA OneConnection ==
  ASSUME IInv, NEW c \in Conns, NEW D \in ConnectionData, NEW k \in Call,
         NEW l \in 0..MaxIntents,
         k = call \/ k = ChangedCall(call, c), Fits(k, D, l, c),
         data' = [data EXCEPT ![c] = D], call' = k,
         lastId' = [lastId EXCEPT ![c] = l],
         leaked' \in BOOLEAN, query' \in [Conns -> {"none", "sent", "passed"}]
  PROVE  IInv'
<1>1. call \in Call /\ CallFits(call)
  BY DEF IInv, TypeOK
<1>2. CallFits(k) /\ \A e \in Conns \ {c} : \A d, m : Fits(call, d, m, e) => Fits(k, d, m, e)
  BY <1>1, ChangedFits
<1>3. TypeOK'
  BY DEF IInv, TypeOK
<1>4. ASSUME NEW e \in Conns
      PROVE  Fits(k, data'[e], lastId'[e], e)
  <2>1. CASE e = c
    BY <2>1 DEF IInv, TypeOK
  <2>2. CASE e # c
    <3>1. data'[e] = data[e] /\ lastId'[e] = lastId[e]
      BY <2>2 DEF IInv, TypeOK
    <3> QED BY <1>2, <2>2, <3>1 DEF IInv
  <2> QED BY <2>1, <2>2
<1> QED BY <1>2, <1>3, <1>4 DEF IInv

(* A step that changes nothing but the requests to be answered.            *)
LEMMA Requests ==
  ASSUME IInv, query' \in [Conns -> {"none", "sent", "passed"}],
         UNCHANGED <<data, leaked, call, lastId>>
  PROVE  IInv'
<1>1. TypeOK'
  BY DEF IInv, TypeOK
<1> QED BY <1>1 DEF IInv

(* A step of the call that changes nothing else.                           *)
LEMMA CallStep ==
  ASSUME IInv, UNCHANGED <<data, leaked, query, lastId>>,
         call' \in Call, CallFits(call'),
         \A e \in Conns : Fits(call', data[e], lastId[e], e)
  PROVE  IInv'
<1>1. TypeOK'
  BY DEF IInv, TypeOK
<1> QED BY <1>1 DEF IInv

LEMMA DataType ==
  ASSUME IInv, NEW c \in Conns
  PROVE  /\ data[c] \in ConnectionData /\ lastId[c] \in 0..MaxIntents
         /\ data[c].count \in 0..MaxIntents
         /\ data[c].media \in MediaType /\ call \in Call
         /\ CallFits(call) /\ Fits(call, data[c], lastId[c], c)
         /\ c # NoConn
<1>1. data[c] \in ConnectionData /\ lastId[c] \in 0..MaxIntents /\ call \in Call
  BY DEF IInv, TypeOK
<1> QED BY <1>1, Constants DEF IInv, ConnectionData

LEMMA NewDataType ==
  ASSUME NEW open \in {"no", "yes", "gone"}
  PROVE  NewData(open) \in ConnectionData
<1>1. NoMedia \in MediaType
  BY DEF NoMedia, MediaType, States
<1> QED BY <1>1, Constants DEF NewData, ConnectionData, AppToTerminal

LEMMA MediaTyped == Media \subseteq MediaType
BY JsonRpcAssumption, Zenon
-----------------------------------------------------------------------------
LEMMA InitFits == Init => IInv
<1> SUFFICES ASSUME Init PROVE IInv
  OBVIOUS
<1>1. Idle.ids = {} /\ Idle.to = {} /\ Idle.at = NoConn /\ Idle.step = "idle"
  BY DEF Idle
<1>2. TypeOK
  BY IdleCall, NewDataType, Constants DEF Init, TypeOK
<1>3. CallFits(call)
  BY <1>1 DEF Init, CallFits, Numbering
<1>4. ASSUME NEW c \in Conns
      PROVE  Fits(call, data[c], lastId[c], c)
  BY <1>1 DEF Init, Fits, NewData
<1> QED BY <1>2, <1>3, <1>4 DEF IInv

LEMMA ConnectFits ==
  ASSUME IInv, NEW c \in Conns, OnConnection(c)
  PROVE  IInv'
<1>1. /\ data[c].open = "no" /\ UNCHANGED <<leaked, call, query, lastId>>
      /\ data' = [data EXCEPT ![c] = NewData("yes")]
  BY DEF OnConnection
<1>2. lastId[c] = 0 /\ c \notin call.ids \cup call.to
  BY <1>1, DataType DEF Fits
<1>3. call.at = c => call.step \notin {"methods", "state", "action", "notifiable", "set", "start", "end"}
                     /\ (call.step = "send" => call.method = "notify")
  BY <1>2, DataType DEF CallFits
<1>4. /\ NewData("yes").media = NoMedia /\ NewData("yes").count = 0
      /\ NewData("yes").open = "yes"
  BY DEF NewData
<1>5. Fits(call, NewData("yes"), lastId[c], c)
  BY <1>2, <1>3, <1>4
  DEF Fits, HasRoom, Examined, HasItsId, InRange, Numbered
<1>6. lastId' = [lastId EXCEPT ![c] = lastId[c]]
  BY <1>1 DEF IInv, TypeOK
<1>7. leaked' \in BOOLEAN /\ query' \in [Conns -> {"none", "sent", "passed"}]
  BY <1>1 DEF IInv, TypeOK
<1>8. NewData("yes") \in ConnectionData
  BY NewDataType
<1> QED BY <1>1, <1>5, <1>6, <1>7, <1>8, DataType, OneConnection

LEMMA DisconnectFits ==
  ASSUME IInv, NEW c \in Conns, OnDisconnected(c)
  PROVE  IInv'
<1>1. /\ data' = [data EXCEPT ![c] = NewData("gone")] /\ leaked' = leaked
      /\ lastId' = [lastId EXCEPT ![c] = 0] /\ call' = ChangedCall(call, c)
  BY DEF OnDisconnected, Changed, ChangedCall
<1>2. /\ NewData("gone").media = NoMedia /\ NewData("gone").count = 0
      /\ NewData("gone").open = "gone"
  BY DEF NewData
<1>3. Fits(ChangedCall(call, c), NewData("gone"), 0, c)
  BY <1>2 DEF Fits
<1>4. leaked' \in BOOLEAN /\ query' \in [Conns -> {"none", "sent", "passed"}]
  BY <1>1 DEF OnDisconnected, IInv, TypeOK
<1>5. NewData("gone") \in ConnectionData /\ ChangedCall(call, c) \in Call
  BY NewDataType, ChangedFits, DataType
<1> QED BY <1>1, <1>3, <1>4, <1>5, Constants, OneConnection

LEMMA NegotiateFits ==
  ASSUME IInv, NEW c \in Conns, NEW o \in Offers, RequestNegotiateMethods(c, o)
  PROVE  IInv'
<1> DEFINE D == [data[c] EXCEPT !.t2a = @ \cup (o.terminalToApp \cap TerminalToApp),
                                !.a2t = @ \cup (o.appToTerminal \cap AppToTerminal)]
<1>1. D \in ConnectionData /\ D.open = data[c].open /\ D.count = data[c].count
      /\ D.media = data[c].media /\ D.ready = data[c].ready
      /\ data[c].t2a \subseteq D.t2a /\ data[c].subscribed \subseteq D.subscribed
  BY DataType DEF ConnectionData
<1>2. data' = [data EXCEPT ![c] = D] /\ UNCHANGED <<leaked, call, query, lastId>>
  BY DEF RequestNegotiateMethods
<1> HIDE DEF D
<1>3. Fits(call, D, lastId[c], c)
  BY <1>1, DataType, AddsFits
<1>4. lastId' = [lastId EXCEPT ![c] = lastId[c]]
      /\ leaked' \in BOOLEAN /\ query' \in [Conns -> {"none", "sent", "passed"}]
  BY <1>2 DEF IInv, TypeOK
<1> QED BY <1>1, <1>2, <1>3, <1>4, DataType, OneConnection

LEMMA SubscribeFits ==
  ASSUME IInv, NEW c \in Conns, NEW fs \in SUBSET Features, RequestSubscribe(c, fs)
  PROVE  IInv'
<1> DEFINE D == [data[c] EXCEPT !.subscribed = @ \cup fs]
<1>1. D \in ConnectionData /\ D.open = data[c].open /\ D.count = data[c].count
      /\ D.media = data[c].media /\ D.ready = data[c].ready
      /\ data[c].t2a \subseteq D.t2a /\ data[c].subscribed \subseteq D.subscribed
  BY DataType DEF ConnectionData
<1>2. data' = [data EXCEPT ![c] = D] /\ UNCHANGED <<leaked, call, query, lastId>>
  BY DEF RequestSubscribe
<1> HIDE DEF D
<1>3. Fits(call, D, lastId[c], c)
  BY <1>1, DataType, AddsFits
<1>4. lastId' = [lastId EXCEPT ![c] = lastId[c]]
      /\ leaked' \in BOOLEAN /\ query' \in [Conns -> {"none", "sent", "passed"}]
  BY <1>2 DEF IInv, TypeOK
<1> QED BY <1>1, <1>2, <1>3, <1>4, DataType, OneConnection

(* A declaration that the call takes note of.                              *)
LEMMA DeclarationFits ==
  ASSUME IInv, NEW c \in Conns, NEW D \in ConnectionData, data[c].open = "yes",
         D.open = "yes", D.count = data[c].count, D.t2a = data[c].t2a,
         D.media \in Media \cup {NoMedia},
         data' = [data EXCEPT ![c] = D], Changed(c), UNCHANGED <<leaked, query, lastId>>
  PROVE  IInv'
<1>1. Fits(ChangedCall(call, c), D, lastId[c], c)
  BY DataType, DeclaresFits
<1>2. call' = ChangedCall(call, c)
  BY DEF Changed, ChangedCall
<1>3. ChangedCall(call, c) \in Call
  BY ChangedFits, DataType
<1>4. lastId' = [lastId EXCEPT ![c] = lastId[c]]
      /\ leaked' \in BOOLEAN /\ query' \in [Conns -> {"none", "sent", "passed"}]
  BY DEF IInv, TypeOK
<1> QED BY <1>1, <1>2, <1>3, <1>4, DataType, OneConnection

LEMMA UnsubscribeFits ==
  ASSUME IInv, NEW c \in Conns, NEW fs \in SUBSET Features, RequestUnsubscribe(c, fs)
  PROVE  IInv'
<1> DEFINE D == [data[c] EXCEPT !.subscribed = @ \ fs]
<1>1. D \in ConnectionData /\ D.open = data[c].open /\ D.count = data[c].count
      /\ D.media = data[c].media /\ D.t2a = data[c].t2a
  BY DataType DEF ConnectionData
<1>2. /\ data' = [data EXCEPT ![c] = D] /\ Changed(c)
      /\ UNCHANGED <<leaked, query, lastId>> /\ data[c].open = "yes"
  BY DEF RequestUnsubscribe, Served, Open
<1>3. data[c].media \in Media \cup {NoMedia}
  BY DataType DEF Fits
<1> HIDE DEF D
<1> QED BY <1>1, <1>2, <1>3, DeclarationFits

LEMMA VoiceReadyFits ==
  ASSUME IInv, NEW c \in Conns, NEW ready \in BOOLEAN, NotifyVoiceReady(c, ready)
  PROVE  IInv'
<1> DEFINE D == [data[c] EXCEPT !.ready = ready]
<1>1. D \in ConnectionData /\ D.open = data[c].open /\ D.count = data[c].count
      /\ D.media = data[c].media /\ D.t2a = data[c].t2a
  BY DataType DEF ConnectionData
<1>2. /\ data' = [data EXCEPT ![c] = D] /\ Changed(c)
      /\ UNCHANGED <<leaked, query, lastId>> /\ data[c].open = "yes"
  BY DEF NotifyVoiceReady, Served, Open
<1>3. data[c].media \in Media \cup {NoMedia}
  BY DataType DEF Fits
<1> HIDE DEF D
<1> QED BY <1>1, <1>2, <1>3, DeclarationFits

LEMMA StateMediaFits ==
  ASSUME IInv, NEW c \in Conns, NEW m \in Media, NotifyStateMedia(c, m)
  PROVE  IInv'
<1> DEFINE D == [data[c] EXCEPT !.media = m]
<1>1. D \in ConnectionData /\ D.open = data[c].open /\ D.count = data[c].count
      /\ D.media = m /\ D.t2a = data[c].t2a
  BY DataType, MediaTyped DEF ConnectionData
<1>2. /\ data' = [data EXCEPT ![c] = D] /\ Changed(c)
      /\ UNCHANGED <<leaked, query, lastId>> /\ data[c].open = "yes"
  BY DEF NotifyStateMedia, Served, Open
<1> HIDE DEF D
<1> QED BY <1>1, <1>2, DeclarationFits

LEMMA LooperFits ==
  ASSUME IInv, NEW c \in Conns, Looper(c) \/ ClientAsks(c) \/ Answers(c) \/ Respond(c)
  PROVE  IInv'
<1>1. CASE ClientAsks(c) \/ Answers(c) \/ Respond(c)
  <2>1. UNCHANGED <<data, leaked, call, lastId>>
    BY <1>1 DEF ClientAsks, Answers, RequestReceived, Respond
  <2>2. query' \in [Conns -> {"none", "sent", "passed"}]
    BY <1>1 DEF ClientAsks, Answers, RequestReceived, Respond, IInv, TypeOK
  <2> QED BY <2>1, <2>2, Requests
<1>2. CASE Looper(c)
  BY <1>2, ConnectFits, DisconnectFits, NegotiateFits, SubscribeFits,
     UnsubscribeFits, VoiceReadyFits, StateMediaFits DEF Looper
<1> QED BY <1>1, <1>2
-----------------------------------------------------------------------------
(* The terminal's thread.                                                  *)
LEMMA SendIntentFits ==
  ASSUME IInv, NEW m \in Intents, NEW s \in Seeks, SendIntentMessage(m, s)
  PROVE  IInv'
<1> DEFINE k == [Idle EXCEPT !.step = "ready", !.method = m, !.ids = Open,
                             !.anchor = s.anchor, !.offset = s.offset]
<1>1. m # "notify" /\ s.anchor \in Anchors /\ s.offset \in Int
  <2>1. Intents \subseteq AllIntents
    BY JsonRpcAssumption, Zenon
  <2>2. s.anchor \in Anchors /\ s.offset \in Int
    BY JsonRpcAssumption, Zenon
  <2> QED BY <2>1, <2>2 DEF AllIntents
<1>2. /\ k \in Call /\ k.step = "ready" /\ k.method = m /\ k.ids = Open
      /\ k.to = {} /\ k.at = NoConn
  BY <1>1, IdleCall DEF Idle, Call, TerminalToApp, Open
<1>3. call' = k /\ UNCHANGED <<data, leaked, query, lastId>>
  BY DEF SendIntentMessage
<1>4. \A e \in Open : data[e].count < MaxIntents
  BY DEF SendIntentMessage
<1> HIDE DEF k
<1>5. CallFits(k)
  BY <1>1, <1>2 DEF CallFits, Numbering
<1>6. ASSUME NEW e \in Conns
      PROVE  Fits(k, data[e], lastId[e], e)
  BY <1>2, <1>4, DataType DEF Fits, HasRoom, Open
<1> QED BY <1>2, <1>3, <1>5, <1>6, CallStep

LEMMA SendNotifyFits ==
  ASSUME IInv, NEW f \in Features, SendNotifyMessage(f)
  PROVE  IInv'
<1> DEFINE k == [Idle EXCEPT !.step = "subscribed", !.method = "notify",
                             !.feature = f, !.ids = Open]
<1>1. /\ k \in Call /\ k.step = "subscribed" /\ k.method = "notify" /\ k.ids = Open
      /\ k.to = {} /\ k.at = NoConn
  BY IdleCall DEF Idle, Call, TerminalToApp, Open
<1>2. call' = k /\ UNCHANGED <<data, leaked, query, lastId>>
  BY DEF SendNotifyMessage
<1> HIDE DEF k
<1>3. CallFits(k)
  BY <1>1 DEF CallFits, Numbering
<1>4. ASSUME NEW e \in Conns
      PROVE  Fits(k, data[e], lastId[e], e)
  BY <1>1, DataType DEF Fits, HasRoom, Open
<1> QED BY <1>1, <1>2, <1>3, <1>4, CallStep

LEMMA ReturnFits ==
  ASSUME IInv, ReturnEmpty
  PROVE  IInv'
<1>1. call' = Continue(call) /\ UNCHANGED <<data, leaked, query, lastId>>
      /\ call.step \in {"ready", "subscribed"}
  BY DEF ReturnEmpty
<1>2. ASSUME NEW e \in Conns
      PROVE  Rests(call, data[e], lastId[e], e)
  BY <1>1, DataType DEF Rests, Fits, HasRoom, Numbered
<1>3. call \in Call
  BY DEF IInv, TypeOK
<1> QED BY <1>1, <1>2, <1>3, ContinueFits, ContinueType, CallStep

(* A connection that is not considered any more.                           *)
LEMMA SkipStep ==
  ASSUME IInv, NEW c \in Conns, call.step \notin Numbering, call' = Skip(c),
         UNCHANGED <<data, leaked, query, lastId>>
  PROVE  IInv'
BY SkipFits, CallStep

(* The next step of the examination of c: k is the call then.              *)
LEMMA NextRead ==
  ASSUME IInv, NEW c \in Conns, c \in call.ids, NEW k \in Call,
         call.step \in {"ready", "methods", "state", "subscribed"},
         k.step \in {"methods", "state", "action", "notifiable"},
         k.step = "notifiable" <=> call.method = "notify",
         k.ids = call.ids, k.to = call.to, k.method = call.method,
         k.feature = call.feature, k.changed = call.changed, k.at = c,
         data[c].open = "yes" => Examined(k, data[c], c),
         call' = k, UNCHANGED <<data, leaked, query, lastId>>
  PROVE  IInv'
<1>1. CallFits(k)
  BY DEF CallFits, Numbering
<1>2. ASSUME NEW e \in Conns
      PROVE  Fits(k, data[e], lastId[e], e)
  <2>1. Fits(call, data[e], lastId[e], e)
    BY DataType
  <2>2. AsDeclared(call, data[e], e) => AsDeclared(k, data[e], e)
    BY DEF AsDeclared
  <2>3. HasItsId(k, data[e], lastId[e]) /\ InRange(k, data[e], e)
    BY DEF HasItsId, InRange, Numbered
  <2>4. HasRoom(call, data[e], e) => HasRoom(k, data[e], e)
    BY DEF HasRoom, Numbered
  <2>5. k.at = e => e = c
    OBVIOUS
  <2> QED BY <2>1, <2>2, <2>3, <2>4, <2>5 DEF Fits
<1> QED BY <1>1, <1>2, CallStep

LEMMA ReadyFits ==
  ASSUME IInv, NEW c \in Conns, CheckReady(c)
  PROVE  IInv'
<1>1. /\ call.step = "ready" /\ c \in call.ids /\ UNCHANGED <<data, leaked, query, lastId>>
      /\ call.at = NoConn /\ call.method # "notify" /\ call \in Call
  BY DataType DEF CheckReady, Read, CallFits
<1>2. CASE c \in Open /\ data[c].ready
  <2> DEFINE t == [call EXCEPT !.step = "methods"]
  <2> DEFINE k == [t EXCEPT !.at = IF @ = NoConn /\ t.step # "idle" /\ c \in t.ids
                                   THEN c ELSE @]
  <2>1. call' = k
    BY <1>2 DEF CheckReady, Read
  <2>2. /\ k \in Call /\ k.step = "methods" /\ k.ids = call.ids /\ k.to = call.to
        /\ k.method = call.method /\ k.feature = call.feature
        /\ k.changed = call.changed /\ k.at = c
    <3>1. /\ t \in Call /\ t.step = "methods" /\ t.ids = call.ids /\ t.to = call.to
          /\ t.method = call.method /\ t.feature = call.feature
          /\ t.changed = call.changed /\ t.at = NoConn
      BY <1>1 DEF Call
    <3> HIDE DEF t
    <3>2. k = [t EXCEPT !.at = c]
      BY <1>1, <3>1
    <3> HIDE DEF k
    <3> QED BY <3>1, <3>2 DEF Call
  <2> HIDE DEF k
  <2>3. Examined(k, data[c], c)
    BY <1>2, <2>2 DEF Examined
  <2> QED BY <1>1, <2>1, <2>2, <2>3, NextRead
<1>3. CASE ~(c \in Open /\ data[c].ready)
  BY <1>1, <1>3, SkipStep DEF CheckReady, Read, Numbering
<1> QED BY <1>2, <1>3

LEMMA MethodsFits ==
  ASSUME IInv, NEW c \in Conns, CheckMethods(c)
  PROVE  IInv'
<1>1. /\ call.step = "methods" /\ c = call.at /\ UNCHANGED <<data, leaked, query, lastId>>
      /\ c \in call.ids /\ call.method # "notify" /\ call \in Call /\ c # NoConn
  BY DataType DEF CheckMethods, Read, CallFits
<1>2. CASE c \in Open /\ call.method \in data[c].t2a
  <2> DEFINE t == [call EXCEPT !.step = "state"]
  <2> DEFINE k == [t EXCEPT !.at = IF @ = NoConn /\ t.step # "idle" /\ c \in t.ids
                                   THEN c ELSE @]
  <2>1. call' = k
    BY <1>2 DEF CheckMethods, Read
  <2>2. /\ k \in Call /\ k.step = "state" /\ k.ids = call.ids /\ k.to = call.to
        /\ k.method = call.method /\ k.feature = call.feature
        /\ k.changed = call.changed /\ k.at = c
    BY <1>1 DEF Call
  <2> HIDE DEF k
  <2>3. Examined(k, data[c], c)
    BY <1>1, <1>2, <2>2, DataType DEF Examined, Fits, Open
  <2> QED BY <1>1, <2>1, <2>2, <2>3, NextRead
<1>3. CASE ~(c \in Open /\ call.method \in data[c].t2a)
  BY <1>1, <1>3, SkipStep DEF CheckMethods, Read, Numbering
<1> QED BY <1>2, <1>3

LEMMA StateFits ==
  ASSUME IInv, NEW c \in Conns, CheckState(c)
  PROVE  IInv'
<1>1. /\ call.step = "state" /\ c = call.at /\ UNCHANGED <<data, leaked, query, lastId>>
      /\ c \in call.ids /\ call.method # "notify" /\ call \in Call /\ c # NoConn
  BY DataType DEF CheckState, Read, CallFits
<1>2. CASE c \in Open
  <2> DEFINE t == [call EXCEPT !.step = "action", !.state = data[c].media.state]
  <2> DEFINE k == [t EXCEPT !.at = IF @ = NoConn /\ t.step # "idle" /\ c \in t.ids
                                   THEN c ELSE @]
  <2>1. call' = k
    BY <1>2 DEF CheckState, Read
  <2>2. data[c].media.state \in States
    BY DataType DEF MediaType
  <2>3. /\ k \in Call /\ k.step = "action" /\ k.ids = call.ids /\ k.to = call.to
        /\ k.method = call.method /\ k.feature = call.feature
        /\ k.changed = call.changed /\ k.at = c /\ k.state = data[c].media.state
    BY <1>1, <2>2 DEF Call
  <2> HIDE DEF k
  <2>4. Examined(k, data[c], c)
    BY <1>1, <1>2, <2>3, DataType DEF Examined, Fits, Open
  <2> QED BY <1>1, <2>1, <2>3, <2>4, NextRead
<1>3. CASE c \notin Open
  BY <1>1, <1>3, SkipStep DEF CheckState, Read, Numbering
<1> QED BY <1>2, <1>3

(* A connection that passed its last examination.                          *)
LEMMA TakeStep ==
  ASSUME IInv, NEW c \in Conns, call.step \notin Numbering, c \in call.ids,
         data[c].open = "yes" => AsDeclared(call, data[c], c),
         call' = [Take(c) EXCEPT !.at = IF @ = NoConn /\ Take(c).step # "idle"
                                           /\ c \in Take(c).ids THEN c ELSE @],
         UNCHANGED <<data, leaked, query, lastId>>
  PROVE  IInv'
<1> DEFINE k == [call EXCEPT !.ids = @ \ {c}, !.to = @ \cup {c}]
<1>1. k \in Call /\ k.ids = call.ids \ {c}
  BY DataType DEF Call
<1>2. Take(c) = Continue(k)
  BY DEF Take
<1> HIDE DEF k
<1>3. c \notin Take(c).ids
  <2>1. Idle.ids = {}
    BY DEF Idle
  <2>2. Continue(k) = Idle \/ Continue(k).ids = k.ids
    BY <1>1, ContinueFields
  <2> QED BY <1>1, <1>2, <2>1, <2>2
<1>4. Take(c) \in Call /\ CallFits(Take(c))
      /\ \A e \in Conns : Fits(Take(c), data[e], lastId[e], e)
  BY TakeFits
<1>5. call' = Take(c)
  BY <1>3, <1>4 DEF Call
<1> QED BY <1>4, <1>5, CallStep

LEMMA ActionFits ==
  ASSUME IInv, NEW c \in Conns, CheckAction(c)
  PROVE  IInv'
<1> DEFINE may == MayBeSent(call.method, call.state, data[c].media.actions)
<1>1. /\ call.step = "action" /\ c = call.at /\ UNCHANGED <<data, leaked, query, lastId>>
      /\ c \in call.ids /\ call.method # "notify"
  BY DataType DEF CheckAction, Read, CallFits
<1>2. CASE c \in Open /\ may
  <2>1. AsDeclared(call, data[c], c)
    BY <1>1, <1>2, DataType DEF AsDeclared, Examined, Fits, Open
  <2>2. call' = [Take(c) EXCEPT !.at = IF @ = NoConn /\ Take(c).step # "idle"
                                           /\ c \in Take(c).ids THEN c ELSE @]
    BY <1>2 DEF CheckAction, Read
  <2> QED BY <1>1, <2>1, <2>2, TakeStep DEF Numbering
<1>3. CASE ~(c \in Open /\ may)
  BY <1>1, <1>3, SkipStep DEF CheckAction, Read, Numbering
<1> QED BY <1>2, <1>3

LEMMA SubscribedFits ==
  ASSUME IInv, NEW c \in Conns, CheckSubscribed(c)
  PROVE  IInv'
<1>1. /\ call.step = "subscribed" /\ c \in call.ids /\ call.method = "notify"
      /\ UNCHANGED <<data, leaked, query, lastId>> /\ call.at = NoConn /\ call \in Call
  BY DataType DEF CheckSubscribed, Read, CallFits
<1>2. CASE c \in Open /\ call.feature \in data[c].subscribed
  <2> DEFINE t == [call EXCEPT !.step = "notifiable"]
  <2> DEFINE k == [t EXCEPT !.at = IF @ = NoConn /\ t.step # "idle" /\ c \in t.ids
                                   THEN c ELSE @]
  <2>1. call' = k
    BY <1>2 DEF CheckSubscribed, Read
  <2>2. /\ k \in Call /\ k.step = "notifiable" /\ k.ids = call.ids /\ k.to = call.to
        /\ k.method = call.method /\ k.feature = call.feature
        /\ k.changed = call.changed /\ k.at = c
    <3>1. /\ t \in Call /\ t.step = "notifiable" /\ t.ids = call.ids /\ t.to = call.to
          /\ t.method = call.method /\ t.feature = call.feature
          /\ t.changed = call.changed /\ t.at = NoConn
      BY <1>1 DEF Call
    <3> HIDE DEF t
    <3>2. k = [t EXCEPT !.at = c]
      BY <1>1, <3>1
    <3> HIDE DEF k
    <3> QED BY <3>1, <3>2 DEF Call
  <2> HIDE DEF k
  <2>3. Examined(k, data[c], c)
    BY <1>2, <2>2 DEF Examined
  <2> QED BY <1>1, <2>1, <2>2, <2>3, NextRead
<1>3. CASE ~(c \in Open /\ call.feature \in data[c].subscribed)
  BY <1>1, <1>3, SkipStep DEF CheckSubscribed, Read, Numbering
<1> QED BY <1>2, <1>3

LEMMA NotifiableFits ==
  ASSUME IInv, NEW c \in Conns, CheckNotifiable(c)
  PROVE  IInv'
<1>1. /\ call.step = "notifiable" /\ c = call.at /\ UNCHANGED <<data, leaked, query, lastId>>
      /\ c \in call.ids /\ call.method = "notify"
  BY DataType DEF CheckNotifiable, Read, CallFits
<1>2. CASE c \in Open /\ "notify" \in data[c].t2a
  <2>1. AsDeclared(call, data[c], c)
    BY <1>1, <1>2, DataType DEF AsDeclared, Examined, Fits, Open
  <2>2. call' = [Take(c) EXCEPT !.at = IF @ = NoConn /\ Take(c).step # "idle"
                                           /\ c \in Take(c).ids THEN c ELSE @]
    BY <1>2 DEF CheckNotifiable, Read
  <2> QED BY <1>1, <2>1, <2>2, TakeStep DEF Numbering
<1>3. CASE ~(c \in Open /\ "notify" \in data[c].t2a)
  BY <1>1, <1>3, SkipStep DEF CheckNotifiable, Read, Numbering
<1> QED BY <1>2, <1>3
-----------------------------------------------------------------------------
(* A connection that is not sent to any more.                              *)
LEMMA DoneStep ==
  ASSUME IInv, NEW c \in Conns, call.step \in Numbering,
         call.step \in Numbered /\ call.method # "notify" => call.at = c,
         call' = Done(c), UNCHANGED <<data, leaked, query, lastId>>
  PROVE  IInv'
BY DoneFits, CallStep

(* The call k, after the next step of sending to c, fits the connections.  *)
LEMMA NextSend ==
  ASSUME IInv, NEW c \in Conns, c \in call.to, NEW k \in Call,
         call.step \in {"count", "set", "start", "end"},
         call.step # "count" => call.at = c,
         k.step \in {"set", "start", "end", "send"},
         k.ids = call.ids, k.to = call.to, k.method = call.method,
         k.feature = call.feature, k.changed = call.changed, k.at = c
  PROVE  /\ CallFits(k)
         /\ \A e \in Conns \ {c} : Fits(k, data[e], lastId[e], e)
         /\ \A d, l : /\ d.media \in Media \cup {NoMedia} /\ l <= d.count
                      /\ d.open # "no"
                      /\ d.open = "yes" => AsDeclared(call, d, c)
                      /\ d.open = "yes" => /\ HasItsId(k, d, l) /\ InRange(k, d, c)
                                           /\ HasRoom(k, d, c)
                      => Fits(k, d, l, c)
<1>1. call.method # "notify" /\ call.ids = {}
  BY DEF IInv, CallFits, Numbering
<1>2. CallFits(k)
  BY <1>1 DEF CallFits, Numbering
<1>3. \A e, d : AsDeclared(call, d, e) => AsDeclared(k, d, e)
  BY DEF AsDeclared
<1>4. ASSUME NEW e \in Conns \ {c}
      PROVE  Fits(k, data[e], lastId[e], e)
  <2>1. HasRoom(call, data[e], e) => HasRoom(k, data[e], e)
    BY DEF HasRoom, Numbered
  <2> QED BY <1>3, <2>1, DataType DEF Fits
<1>5. ASSUME NEW d, NEW l, d.media \in Media \cup {NoMedia}, l <= d.count,
             d.open # "no", d.open = "yes" => AsDeclared(call, d, c),
             d.open = "yes" => /\ HasItsId(k, d, l) /\ InRange(k, d, c)
                               /\ HasRoom(k, d, c)
      PROVE  Fits(k, d, l, c)
  BY <1>3, <1>5 DEF Fits, Examined
<1> QED BY <1>2, <1>4, <1>5

LEMMA GenerateFits ==
  ASSUME IInv, NEW c \in Conns, GenerateId(c)
  PROVE  IInv'
<1>1. call.step = "count" /\ c \in call.to /\ UNCHANGED <<data, leaked, query, lastId>>
  BY DEF GenerateId
<1>2. CASE c \notin Open
  BY <1>1, <1>2, DoneStep DEF GenerateId, Numbering, Numbered
<1>3. CASE c \in Open
  <2> DEFINE k == [call EXCEPT !.step = "set", !.at = c, !.id = data[c].count + 1]
  <2>1. data[c].count < MaxIntents
    BY <1>1, <1>3, DataType DEF Fits, HasRoom, Numbered, CallFits, Open
  <2>2. data[c].count + 1 \in 0..MaxIntents
    BY <2>1, DataType, Constants
  <2>3. /\ k \in Call /\ k.step = "set" /\ k.ids = call.ids /\ k.to = call.to
        /\ k.method = call.method /\ k.feature = call.feature
        /\ k.changed = call.changed /\ k.at = c /\ k.id = data[c].count + 1
    BY <2>2, DataType DEF Call
  <2>4. call' = k
    BY <1>3 DEF GenerateId
  <2> HIDE DEF k
  <2>5. HasItsId(k, data[c], lastId[c]) /\ InRange(k, data[c], c) /\ HasRoom(k, data[c], c)
    BY <2>1, <2>3 DEF HasItsId, InRange, HasRoom, Numbered
  <2>6. /\ CallFits(k)
        /\ \A e \in Conns \ {c} : Fits(k, data[e], lastId[e], e)
        /\ Fits(k, data[c], lastId[c], c)
    <3>1. /\ data[c].media \in Media \cup {NoMedia} /\ lastId[c] <= data[c].count
          /\ data[c].open # "no" /\ AsDeclared(call, data[c], c)
      BY <1>1, <1>3, DataType DEF Fits, Open
    <3> QED BY <1>1, <2>3, <2>5, <3>1, NextSend
  <2>7. \A e \in Conns : Fits(k, data[e], lastId[e], e)
    BY <2>6
  <2> QED BY <1>1, <2>3, <2>4, <2>6, <2>7, CallStep
<1> QED BY <1>2, <1>3

LEMMA SetCountFits ==
  ASSUME IInv, NEW c \in Conns, SetIntentIdCount(c)
  PROVE  IInv'
<1>1. /\ call.step = "set" /\ c = call.at /\ UNCHANGED <<query, lastId>>
      /\ c \in call.to /\ call.method # "notify"
  BY DataType DEF SetIntentIdCount, CallFits
<1>2. CASE c \notin Open
  <2>1. call' = Done(c) /\ data' = data /\ leaked' \in BOOLEAN
    BY <1>2 DEF SetIntentIdCount, IInv, TypeOK
  <2>2. Done(c) \in Call /\ CallFits(Done(c))
        /\ \A e \in Conns : Fits(Done(c), data[e], lastId[e], e)
    BY <1>1, DoneFits DEF Numbering, Numbered
  <2>3. TypeOK'
    BY <1>1, <2>1, <2>2 DEF IInv, TypeOK
  <2> QED BY <1>1, <2>1, <2>2, <2>3 DEF IInv
<1>3. CASE c \in Open
  <2> DEFINE k == [call EXCEPT !.step = IF Adjusts THEN "start" ELSE "send"]
  <2> DEFINE D == [data[c] EXCEPT !.count = call.id]
  <2>1. call' = k /\ data' = [data EXCEPT ![c] = D] /\ leaked' \in BOOLEAN
    BY <1>3 DEF SetIntentIdCount, IInv, TypeOK
  <2>2. /\ k \in Call /\ k.step \in {"start", "send"} /\ k.ids = call.ids
        /\ k.to = call.to /\ k.method = call.method /\ k.feature = call.feature
        /\ k.changed = call.changed /\ k.at = c /\ k.id = call.id
        /\ (k.step = "start" <=> Adjusts)
    BY <1>1, DataType DEF Call
  <2>3. /\ D \in ConnectionData /\ D.count = call.id /\ D.open = data[c].open
        /\ D.media = data[c].media /\ D.ready = data[c].ready
        /\ D.t2a = data[c].t2a /\ D.subscribed = data[c].subscribed
    BY DataType DEF ConnectionData, Call
  <2> HIDE DEF k, D
  <2>4. call.id = data[c].count + 1 /\ lastId[c] <= data[c].count
    BY <1>1, <1>3, DataType DEF Fits, HasItsId, Open
  <2>5. lastId[c] \in Int /\ data[c].count \in Int /\ lastId[c] < call.id
    BY <2>4, DataType
  <2>6. HasItsId(k, D, lastId[c]) /\ InRange(k, D, c) /\ HasRoom(k, D, c)
    <3>1. HasItsId(k, D, lastId[c])
      BY <2>2, <2>3, <2>5 DEF HasItsId
    <3>2. InRange(k, D, c)
      BY <2>2 DEF InRange, Adjusts
    <3>3. HasRoom(k, D, c)
      BY <2>2 DEF HasRoom, Numbered
    <3> QED BY <3>1, <3>2, <3>3
  <2>7. /\ D.media \in Media \cup {NoMedia} /\ lastId[c] <= D.count
        /\ D.open = "yes" /\ AsDeclared(call, D, c)
    <3>1. AsDeclared(call, data[c], c) => AsDeclared(call, D, c)
      BY <2>3 DEF AsDeclared
    <3>2. Fits(call, data[c], lastId[c], c) /\ data[c].open = "yes"
      BY <1>3, DataType DEF Open
    <3>3. D.media \in Media \cup {NoMedia} /\ AsDeclared(call, D, c)
      BY <1>1, <2>3, <3>1, <3>2 DEF Fits
    <3>4. lastId[c] <= D.count
      BY <2>3, <2>5, DataType DEF ConnectionData
    <3> QED BY <2>3, <3>2, <3>3, <3>4
  <2>8. /\ CallFits(k) /\ Fits(k, D, lastId[c], c)
        /\ \A e \in Conns \ {c} : Fits(k, data[e], lastId[e], e)
    BY <1>1, <2>2, <2>6, <2>7, NextSend
  <2>9. TypeOK'
    BY <1>1, <2>1, <2>2, <2>3 DEF IInv, TypeOK
  <2>10. ASSUME NEW e \in Conns
         PROVE  Fits(k, data'[e], lastId[e], e)
    <3>1. CASE e = c
      BY <2>1, <2>8, <3>1 DEF IInv, TypeOK
    <3>2. CASE e # c
      BY <2>1, <2>8, <3>2 DEF IInv, TypeOK
    <3> QED BY <3>1, <3>2
  <2> QED BY <1>1, <2>1, <2>8, <2>9, <2>10 DEF IInv
<1> QED BY <1>2, <1>3

LEMMA ReadStartFits ==
  ASSUME IInv, NEW c \in Conns, ReadStart(c)
  PROVE  IInv'
<1>1. /\ call.step = "start" /\ c = call.at /\ UNCHANGED <<data, leaked, query, lastId>>
      /\ c \in call.to
  BY DataType DEF ReadStart, CallFits
<1>2. CASE c \notin Open
  BY <1>1, <1>2, DoneStep DEF ReadStart, Numbering
<1>3. CASE c \in Open
  <2> DEFINE k == [call EXCEPT !.step = "end", !.start = data[c].media.start]
  <2>1. data[c].media.start \in Int
    BY DataType DEF MediaType
  <2>2. /\ k \in Call /\ k.step = "end" /\ k.ids = call.ids /\ k.to = call.to
        /\ k.method = call.method /\ k.feature = call.feature /\ k.id = call.id
        /\ k.changed = call.changed /\ k.at = c /\ k.start = data[c].media.start
    BY <1>1, <2>1, DataType DEF Call
  <2>3. call' = k
    BY <1>3 DEF ReadStart
  <2> HIDE DEF k
  <2>4. Fits(call, data[c], lastId[c], c) /\ data[c].open = "yes"
    BY <1>3, DataType DEF Open
  <2>5. HasItsId(k, data[c], lastId[c])
    BY <1>1, <2>2, <2>4 DEF Fits, HasItsId, Numbered
  <2>6. InRange(k, data[c], c) /\ HasRoom(k, data[c], c)
    BY <2>2 DEF InRange, HasRoom, Numbered
  <2>7. /\ data[c].media \in Media \cup {NoMedia} /\ lastId[c] <= data[c].count
        /\ AsDeclared(call, data[c], c)
    BY <1>1, <2>4 DEF Fits
  <2>8. /\ CallFits(k) /\ Fits(k, data[c], lastId[c], c)
        /\ \A e \in Conns \ {c} : Fits(k, data[e], lastId[e], e)
    BY <1>1, <2>2, <2>4, <2>5, <2>6, <2>7, NextSend
  <2>9. \A e \in Conns : Fits(k, data[e], lastId[e], e)
    BY <2>8
  <2> QED BY <1>1, <2>2, <2>3, <2>8, <2>9, CallStep
<1> QED BY <1>2, <1>3

(* A target between Larger and Smaller is in the range, if there is one.   *)
LEMMA Clamped ==
  ASSUME NEW a \in Int, NEW start \in Int, NEW end \in Int
  PROVE  /\ Smaller(Larger(a, start), end) \in Int
         /\ start <= end => Smaller(Larger(a, start), end) \in start..end
BY DEF Smaller, Larger

(* A connection's range, from its valid declaration.                       *)
LEMMA Ranges ==
  ASSUME NEW m \in Media \cup {NoMedia}
  PROVE  /\ m.start \in Int /\ m.end \in Int
         /\ m.start = -1 <=> m.end = -1
         /\ m.start <= m.end
<1>1. CASE m = NoMedia
  <2>1. m.start = -1 /\ m.end = -1
    BY <1>1 DEF NoMedia
  <2> QED BY <2>1
<1>2. CASE m \in Media
  <2>1. m \in MediaType
    BY <1>2, MediaTyped
  <2>2. IF m.state \in ActiveStates
        THEN m.start \in Nat /\ m.end \in Nat /\ m.start <= m.end
        ELSE m.start = -1 /\ m.end = -1
    BY <1>2, JsonRpcAssumption, Zenon
  <2> QED BY <2>1, <2>2 DEF MediaType
<1> QED BY <1>1, <1>2

LEMMA AdjustFits ==
  ASSUME IInv, NEW c \in Conns, NEW now \in Times, AdjustTimeRange(c, now)
  PROVE  IInv'
<1> DEFINE end == data[c].media.end
<1> DEFINE base == CASE call.anchor = "start" -> call.start
                     [] call.anchor = "end" -> end
                     [] call.anchor = "now" -> now
                     [] call.anchor = "clock" -> 0
<1> DEFINE set == Smaller(Larger(base + call.offset, call.start), end)
<1>1. /\ call.step = "end" /\ c = call.at /\ UNCHANGED <<data, leaked, query, lastId>>
      /\ c \in call.to
  BY DataType DEF AdjustTimeRange, CallFits
<1>2. CASE c \notin Open
  BY <1>1, <1>2, DoneStep DEF AdjustTimeRange, Numbering
<1>3. CASE c \in Open
  <2>1. Fits(call, data[c], lastId[c], c) /\ data[c].open = "yes"
    BY <1>3, DataType DEF Open
  <2>2. /\ data[c].media \in Media \cup {NoMedia} /\ lastId[c] <= data[c].count
        /\ AsDeclared(call, data[c], c)
    BY <1>1, <2>1 DEF Fits
  <2>3. /\ HasItsId(call, data[c], lastId[c])
        /\ c \notin call.changed => call.start = data[c].media.start
    BY <1>1, <2>1 DEF Fits, InRange
  <2>4. /\ data[c].media.start \in Int /\ end \in Int
        /\ data[c].media.start <= end
        /\ data[c].media.start = -1 <=> end = -1
    BY <2>2, Ranges
  <2>5. now \in Int /\ call.start \in Int /\ call.offset \in Int /\ call.anchor \in Anchors
    <3>1. Times \subseteq Nat
      BY JsonRpcAssumption, Zenon
    <3>2. call \in Call
      BY DataType
    <3>3. call.start \in Int /\ call.offset \in Int /\ call.anchor \in Anchors
      BY <3>2 DEF Call
    <3> QED BY <3>1, <3>3
  <2>6. base \in Int
    BY <2>4, <2>5 DEF Anchors
  <2> HIDE DEF base, end
  <2>7. set \in Int /\ (call.start <= end => set \in call.start..end)
    <3>1. base + call.offset \in Int
      BY <2>5, <2>6
    <3> QED BY <2>4, <2>5, <3>1, Clamped
  <2>8. call' = IF call.start = -1 \/ end = -1
                THEN [call EXCEPT !.step = "send"]
                ELSE [call EXCEPT !.step = "send", !.base = base, !.offset = set - base]
    BY <1>3 DEF AdjustTimeRange, base, end
  <2> HIDE DEF set
  <2> DEFINE k == call'
  <2>9. /\ k \in Call /\ k.step = "send" /\ k.ids = call.ids /\ k.to = call.to
        /\ k.method = call.method /\ k.feature = call.feature /\ k.id = call.id
        /\ k.changed = call.changed /\ k.at = c
        /\ ~(call.start = -1 \/ end = -1) => k.base = base /\ k.offset = set - base
    <3>1. set - base \in Int /\ call \in Call
      BY <2>6, <2>7, DataType
    <3>2. CASE call.start = -1 \/ end = -1
      BY <1>1, <2>8, <3>1, <3>2 DEF Call
    <3>3. CASE ~(call.start = -1 \/ end = -1)
      BY <1>1, <2>6, <2>8, <3>1, <3>3 DEF Call
    <3> QED BY <3>2, <3>3
  <2>10. InRange(k, data[c], c)
    <3>1. CASE data[c].media.start = -1
      BY <2>9, <3>1 DEF InRange
    <3>2. CASE data[c].media.start # -1 /\ c \notin k.changed
      <4>1. call.start = data[c].media.start /\ end # -1
        BY <2>3, <2>4, <2>9, <3>2
      <4>2. k.base + k.offset = set /\ set \in call.start..end
        BY <2>4, <2>6, <2>7, <2>9, <3>2, <4>1
      <4> QED BY <2>9, <4>1, <4>2 DEF InRange, end
    <3> QED BY <3>1, <3>2 DEF InRange
  <2>11. HasItsId(k, data[c], lastId[c]) /\ HasRoom(k, data[c], c)
    BY <1>1, <2>3, <2>9 DEF HasItsId, HasRoom, Numbered
  <2>12. /\ CallFits(k) /\ Fits(k, data[c], lastId[c], c)
         /\ \A e \in Conns \ {c} : Fits(k, data[e], lastId[e], e)
    BY <1>1, <2>1, <2>2, <2>9, <2>10, <2>11, NextSend
  <2>13. \A e \in Conns : Fits(k, data[e], lastId[e], e)
    BY <2>12
  <2> QED BY <1>1, <2>9, <2>12, <2>13, CallStep
<1> QED BY <1>2, <1>3

LEMMA SendFits ==
  ASSUME IInv, NEW c \in Conns, SendJsonMessageToClient(c)
  PROVE  IInv'
<1>1. /\ call.step = "send" /\ UNCHANGED <<data, leaked, query>> /\ call' = Done(c)
      /\ call.method # "notify" => c = call.at /\ c \in call.to
  BY DataType DEF SendJsonMessageToClient, CallFits
<1>2. Done(c) \in Call /\ CallFits(Done(c))
      /\ \A e \in Conns : Fits(Done(c), data[e], lastId[e], e)
  BY <1>1, DoneFits DEF Numbering
<1>3. CASE lastId' = lastId
  BY <1>1, <1>2, <1>3, CallStep
<1>4. CASE lastId' # lastId
  <2>1. /\ lastId' = [lastId EXCEPT ![c] = call.id] /\ call.method # "notify"
        /\ data[c].open = "yes"
    BY <1>4 DEF SendJsonMessageToClient, Open
  <2>2. call.id = data[c].count
    BY <1>1, <2>1, DataType DEF Fits, HasItsId, Numbered
  <2>3. call.id \in 0..MaxIntents
    BY DataType DEF Call
  <2>4. TypeOK'
    BY <1>1, <1>2, <2>1, <2>3 DEF IInv, TypeOK
  <2>5. Done(c).at = NoConn \/ Done(c) = Idle
    <3> DEFINE q == [call EXCEPT !.to = @ \ {c}]
    <3>1. q \in Call
      BY DataType DEF Call
    <3> QED BY <3>1, ContinueFields DEF Done
  <2>6. Idle.at = NoConn
    BY DEF Idle
  <2>7. call.id <= data[c].count
    BY <2>2, <2>3
  <2>8. Fits(Done(c), data[c], call.id, c)
    BY <1>2, <2>1, <2>5, <2>6, <2>7, DataType DEF Fits
  <2>9. ASSUME NEW e \in Conns
        PROVE  Fits(Done(c), data[e], lastId'[e], e)
    <3>1. CASE e = c
      BY <2>1, <2>8, <3>1 DEF IInv, TypeOK
    <3>2. CASE e # c
      BY <1>2, <2>1, <3>2 DEF IInv, TypeOK
    <3> QED BY <3>1, <3>2
  <2> QED BY <1>1, <1>2, <2>4, <2>9 DEF IInv
<1> QED BY <1>3, <1>4
-----------------------------------------------------------------------------
(* Whatever JsonRpcService handles and its terminal sends, in any order, the
   terminal's call keeps fitting every connection: what was found when the
   connection was examined still holds of it, unless it declared something
   else since.                                                             *)
THEOREM Invariance == Spec => []IInv
<1>1. IInv /\ [Next]_vars => IInv'
  <2> SUFFICES ASSUME IInv, [Next]_vars
               PROVE  IInv'
    OBVIOUS
  <2>1. CASE UNCHANGED vars
    BY <2>1 DEF vars, IInv, TypeOK
  <2>2. ASSUME NEW c \in Conns,
               Looper(c) \/ ClientAsks(c) \/ Answers(c) \/ Respond(c)
        PROVE  IInv'
    BY <2>2, LooperFits
  <2>3. ASSUME NEW m \in Intents, NEW s \in Seeks, SendIntentMessage(m, s)
        PROVE  IInv'
    BY <2>3, SendIntentFits
  <2>4. ASSUME NEW f \in Features, SendNotifyMessage(f)
        PROVE  IInv'
    BY <2>4, SendNotifyFits
  <2>5. ASSUME NEW c \in Conns, Reads(c)
        PROVE  IInv'
    BY <2>5, ReadyFits, MethodsFits, StateFits, ActionFits, SubscribedFits,
       NotifiableFits DEF Reads
  <2>6. ASSUME NEW c \in Conns, Sends(c)
        PROVE  IInv'
    BY <2>6, GenerateFits, SetCountFits, ReadStartFits, AdjustFits, SendFits DEF Sends
  <2>7. CASE ReturnEmpty
    BY <2>7, ReturnFits
  <2> QED BY <2>1, <2>2, <2>3, <2>4, <2>5, <2>6, <2>7 DEF Next, Terminal
<1> QED BY <1>1, InitFits, PTL DEF Spec

(* The data of a connection, the call of the terminal's thread and the ids
   that it gives stay of their types.                                      *)
THEOREM TypeCorrect == Spec => []TypeOK
<1>1. IInv => TypeOK
  BY DEF IInv
<1> QED BY <1>1, Invariance, PTL

(* What is known of a connection that is sent to.                          *)
LEMMA SentTo ==
  ASSUME IInv, NEW c \in Conns, Sending(c)
  PROVE  /\ data[c].open = "yes" /\ AsDeclared(call, data[c], c)
         /\ call.method # "notify" =>
                HasItsId(call, data[c], lastId[c]) /\ InRange(call, data[c], c)
BY DataType DEF Sending, Fits, CallFits, Open

(* SendIntentMessage and SendNotifyMessage send to a connection only what it
   negotiated, and only what fits its state, its readiness and its
   subscriptions, unless it changed them after it was examined: the data is
   read piece by piece, each time under connections_mutex_ anew.           *)
THEOREM NothingUndeclaredIsSent == Spec => []SentAsDeclared
<1>1. IInv => SentAsDeclared
  BY SentTo DEF SentAsDeclared, AsDeclared
<1> QED BY <1>1, Invariance, PTL

(* AdjustTimeRange leads a seek into the range of its connection, also with
   the offset that was adjusted for the connections before it.             *)
THEOREM SeeksStayInRange == Spec => []SeekWithinRange
<1>1. ASSUME IInv, NEW c \in Conns, Sending(c), Adjusts, c \notin call.changed
      PROVE  \/ data[c].media.start = -1
             \/ call.base + call.offset \in data[c].media.start..data[c].media.end
  BY <1>1, SentTo DEF InRange, Adjusts, Sending
<1>2. IInv => SeekWithinRange
  BY <1>1 DEF SeekWithinRange
<1> QED BY <1>2, Invariance, PTL

(* GenerateId reads the count and SetIntentIdCount sets it in two holds of
   the mutex: still no id is given to a connection twice, and a later intent
   has a larger one.                                                       *)
THEOREM IntentIdsGrow == Spec => []IntentIdsIncrease
<1>1. ASSUME IInv, NEW c \in Conns, Sending(c), call.method # "notify"
      PROVE  lastId[c] < call.id
  BY <1>1, SentTo DEF HasItsId, Numbered, Sending
<1>2. IInv => IntentIdsIncrease
  BY <1>1 DEF IntentIdsIncrease
<1> QED BY <1>2, Invariance, PTL
====
