---------------------------- MODULE App2AppProofs ----------------------------
(***************************************************************************)
(* Theorems about App2App, for every number of connections, endpoints and  *)
(* fragments and whatever failures may happen: the types, that pairs are   *)
(* mutual and nobody waits for one that waits, that the object both        *)
(* loopers work on is destroyed by the second of them to end, and that     *)
(* each client is sent its partner's fragments in their order.             *)
(***************************************************************************)
EXTENDS App2App, SequenceTheorems, NaturalsInduction, WellFoundedInduction, TLAPS

(* A callback is about a connection of its server: a new one while it is
   established, an open one when a fragment of its is received, one that is
   not closed yet when it closes.                                          *)
CallbackFits(x) ==
    LET c == looper[x].conn
    IN  /\ looper[x].at \in Callbacks => c \in ClientsOf(x)
        /\ looper[x].at = "established" => conn[c] = "new"
        /\ looper[x].at = "receive" => conn[c] = "open" /\ sent[c] > 0
        /\ looper[x].at = "closed" => IsOpen(c)

(* A connection the service has not been told of is not paired and does not
   wait.                                                                   *)
NewIsUnknown ==
    \A c \in Conns : conn[c] = "new" => paired[c] = None /\ waiting[c] = 0

(* How the two loopers end.  Only the end of the remote looper stops the
   local server, so the local looper ends after the remote one is gone, and
   the remote one never finds the local one stopped before it.             *)
LocalLoopEnds == looper["local"].at \in {"ended", "stop other", "remove", "gone"}

EndsInOrder ==
    /\ stop["local"] => looper["remote"].at = "gone"
    /\ LocalLoopEnds => stop["local"]
    /\ service_stopped => looper["remote"].at \in {"stop other", "gone"}
    /\ looper["remote"].at # "remove"
    /\ service = "erased" => looper["local"].at = "gone"

NotStarted ==
    /\ \A x \in Servers : looper[x] = At("none")
    /\ ~service_stopped

LocalFault == faults \cap {"start local", "lws local"} # {}

Ends ==
    /\ service = "none" => NotStarted
    /\ service # "none" /\ ~LocalFault => EndsInOrder

(* The inductive invariant.                                                *)
IInv ==
    /\ TypeOK
    /\ \A x \in Servers : CallbackFits(x)
    /\ NewIsUnknown
    /\ PairsAreMutual
    /\ NobodyWaitsForAWaiting
    /\ Ends
-----------------------------------------------------------------------------
(* The connections of the two servers are told apart.                      *)
LEMMA Sides ==
    /\ \A c \in Conns : ServerOf(c) \in Servers /\ c \in ClientsOf(ServerOf(c))
    /\ \A x \in Servers :
            /\ Other(x) \in Servers /\ Other(x) # x /\ Other(Other(x)) = x
            /\ \A c \in ClientsOf(x) : c \in Conns /\ ServerOf(c) = x
  BY ConnsAssumption DEF Conns, ServerOf, ClientsOf, Servers, Other

(* A failure that happens is one of those that may happen.                 *)
LEMMA FaultKinds ==
    /\ \A x \in Servers : StartFault(x) \notin {"lws local", "lws remote"}
    /\ LwsFault("local") = "lws local" /\ StartFault("local") = "start local"
  BY DEF StartFault, LwsFault, Servers

(* What the program points of a looper are.                                *)
LEMMA PointTypes ==
    /\ \A w \in {"none", "service", "ended", "stop other", "remove", "gone"} :
            /\ At(w) \in LooperStates /\ At(w).at = w
            /\ w \notin Callbacks
    /\ \A w \in Callbacks, c \in Conns : [at |-> w, conn |-> c] \in LooperStates
    /\ \A x, open : /\ LoopTest(x, open) \in LooperStates
                    /\ LoopTest(x, open).at \in {"ended", "service"}
                    /\ LoopTest(x, open).at = "ended" => stop[x]
  BY DEF LooperStates, At, Callbacks, LoopTest

(* A set of positions that is not empty has a first one.                   *)
LEMMA FirstOne ==
    ASSUME NEW K \in SUBSET Nat, K # {}
    PROVE  \E i \in K : \A j \in K : i <= j
  <1> DEFINE R == {ss \in Nat \X Nat : ss[1] < ss[2]}
  <1>1. IsWellFoundedOn(R, Nat)
    BY NatLessThanWellFounded DEF OpToRel
  <1> HIDE DEF R
  <1>2. PICK i \in K : \A j \in K : <<j, i>> \notin R
    BY <1>1, WFMin
  <1>3. \A j \in K : ~(j < i)
    BY <1>2 DEF R
  <1> QED
    BY <1>3

(* The fragments the server may put in a queue.                            *)
LEMMA FragmentTypes ==
    /\ PairingCompleted \in Fragments /\ CloseFragment \in Fragments
    /\ \A c \in Conns, n \in 1..MaxFragments : Fragment(c, n) \in Fragments
  BY DEF Fragments, Fragment

LEMMA AppendType ==
    ASSUME NEW S, NEW s \in Seq(S), NEW e \in S
    PROVE  Append(s, e) \in Seq(S)
  OBVIOUS

(* One connection's place in the deques changes.                           *)
LEMMA ArrivalType ==
    ASSUME NEW S, NEW n \in Nat, NEW f \in [S -> 0..n], NEW c \in S,
           NEW k \in Nat, NEW m \in Nat, n <= m, k <= m
    PROVE  [f EXCEPT ![c] = k] \in [S -> 0..m]
  <1>1. \A e \in S : f[e] \in 0..n
    OBVIOUS
  <1>2. \A e \in S : f[e] \in 0..m
    BY <1>1
  <1>3. k \in 0..m
    OBVIOUS
  <1> QED
    BY <1>2, <1>3

(* The parts a queue is cut into are queues.                               *)
LEMMA CutType ==
    ASSUME NEW S, NEW s \in Seq(S), NEW k \in 0..Len(s)
    PROVE  /\ SubSeq(s, 1, k) \in Seq(S)
           /\ SubSeq(s, k + 2, Len(s)) \in Seq(S)
  <1>1. Len(s) \in Nat /\ \A i \in 1..Len(s) : s[i] \in S
    BY ElementOfSeq, LenProperties
  <1>2. SubSeq(s, 1, k) \in Seq(S)
    BY <1>1, SubSeqProperties
  <1>3. SubSeq(s, k + 2, Len(s)) \in Seq(S)
    BY <1>1, SubSeqProperties
  <1> QED
    BY <1>2, <1>3

(* Stopping a server adds fragments to queues and wakes it up.             *)
LEMMA StopServerType ==
    ASSUME TypeOK, NEW x \in Servers, StopServer(x)
    PROVE  /\ stop' \in [Servers -> BOOLEAN]
           /\ cancelled' \in [Servers -> BOOLEAN]
           /\ write_queue' \in [Conns -> Seq(Fragments)]
  <1>1. stop' \in [Servers -> BOOLEAN]
    BY DEF TypeOK, StopServer
  <1>2. cancelled' \in [Servers -> BOOLEAN]
    BY DEF TypeOK, StopServer
  <1>3. write_queue' \in [Conns -> Seq(Fragments)]
    BY FragmentTypes, AppendType DEF TypeOK, StopServer
  <1> QED
    BY <1>1, <1>2, <1>3
-----------------------------------------------------------------------------
(* Types.                                                                  *)

(* LWS_CALLBACK_SERVER_WRITEABLE cuts the queue at the first close.        *)
LEMMA WritableType ==
    ASSUME TypeOK, NEW c \in Conns, Writable(c)
    PROVE  TypeOK'
  <1> DEFINE q == write_queue[c]
             closeAt == {i \in DOMAIN q : q[i] = CloseFragment}
             last == IF closeAt = {} THEN Len(q)
                     ELSE (CHOOSE i \in closeAt : \A j \in closeAt : i <= j) - 1
  <1>1. q \in Seq(Fragments)
    BY DEF TypeOK
  <1>2. Len(q) \in Nat /\ DOMAIN q = 1..Len(q)
    BY <1>1, LenProperties
  <1>3. last \in 0..Len(q)
    <2>1. CASE closeAt = {}
      BY <1>2, <2>1
    <2>2. CASE closeAt # {}
      <3>0. closeAt \in SUBSET Nat
        BY <1>2
      <3>1. \E i \in closeAt : \A j \in closeAt : i <= j
        BY <2>2, <3>0, FirstOne
      <3> DEFINE first == CHOOSE i \in closeAt : \A j \in closeAt : i <= j
      <3>2. first \in 1..Len(q)
        BY <1>2, <3>1
      <3>3. last = first - 1
        BY <2>2
      <3> HIDE DEF first, last, closeAt
      <3> QED
        BY <1>2, <3>2, <3>3
    <2> QED
      BY <2>1, <2>2
  <1>4. /\ written' = [written EXCEPT ![c] = @ \o SubSeq(q, 1, last)]
        /\ write_queue' =
             [write_queue EXCEPT ![c] = IF closeAt = {} THEN <<>>
                                        ELSE SubSeq(@, last + 2, Len(@))]
        /\ conn' = [conn EXCEPT ![c] = IF closeAt = {} THEN "open" ELSE "closing"]
        /\ UNCHANGED <<app2app, endpoint, stop, cancelled, looper, caller, service,
                       sent, faults>>
    BY DEF Writable
  <1> HIDE DEF last, closeAt
  <1>5. SubSeq(q, 1, last) \in Seq(Fragments)
        /\ SubSeq(q, last + 2, Len(q)) \in Seq(Fragments)
    BY <1>1, <1>3, CutType
  <1>6. written[c] \o SubSeq(q, 1, last) \in Seq(Fragments)
    BY <1>5, ConcatProperties DEF TypeOK
  <1>7. <<>> \in Seq(Fragments)
    OBVIOUS
  <1>8. written' \in [Conns -> Seq(Fragments)]
    BY <1>4, <1>6 DEF TypeOK
  <1>9. write_queue' \in [Conns -> Seq(Fragments)]
    BY <1>4, <1>5, <1>7 DEF TypeOK
  <1>10. conn' \in [Conns -> {"new", "open", "closing", "closed"}]
    BY <1>4 DEF TypeOK
  <1> QED
    BY <1>4, <1>8, <1>9, <1>10 DEF TypeOK, app2app

(* One more place of a looper, or of its callback.                         *)
LEMMA LooperMoves ==
    ASSUME TypeOK, NEW x \in Servers, NEW place \in LooperStates,
           looper' = [looper EXCEPT ![x] = place]
    PROVE  looper' \in [Servers -> LooperStates]
  BY DEF TypeOK

LEMMA EnvironmentType ==
    ASSUME TypeOK, Environment
    PROVE  TypeOK'
  <1>1. ASSUME NEW failed, StartApp2AppService(failed)
        PROVE  TypeOK'
    <2>1. looper' \in [Servers -> LooperStates]
      BY <1>1, PointTypes DEF StartApp2AppService, TypeOK
    <2>2. stop' \in [Servers -> BOOLEAN]
      <3>1. stop' = [x \in Servers |-> StartFault(x) \in failed]
        BY <1>1 DEF StartApp2AppService
      <3>2. \A x \in Servers : (StartFault(x) \in failed) \in BOOLEAN
        OBVIOUS
      <3> QED
        BY <3>1, <3>2, Zenon
    <2>3. service' \in {"none", "registered", "erased"}
      BY <1>1 DEF StartApp2AppService
    <2>4. faults' \subseteq Faults
      BY <1>1 DEF StartApp2AppService, TypeOK
    <2> QED
      BY <1>1, <2>1, <2>2, <2>3, <2>4 DEF StartApp2AppService, TypeOK, app2app
  <1>2. ASSUME NEW c \in Conns, NEW e \in Endpoints \cup {NoEndpoint},
               ClientConnects(c, e)
        PROVE  TypeOK'
    <2>1. looper' \in [Servers -> LooperStates]
      BY <1>2, Sides, PointTypes, LooperMoves
         DEF ClientConnects, EnterCallback, Callbacks
    <2>2. endpoint' \in [Conns -> Endpoints \cup {NoEndpoint}]
      BY <1>2 DEF ClientConnects, TypeOK
    <2> QED
      BY <1>2, <2>1, <2>2 DEF ClientConnects, TypeOK, app2app
  <1>3. ASSUME NEW c \in Conns, ClientSends(c) \/ ClientLeaves(c)
        PROVE  TypeOK'
    <2>1. looper' \in [Servers -> LooperStates]
      BY <1>3, Sides, PointTypes, LooperMoves
         DEF ClientSends, ClientLeaves, EnterCallback, Callbacks
    <2>2. sent' \in [Conns -> 0..MaxFragments]
      <3>1. sent \in [Conns -> 0..MaxFragments] /\ MaxFragments \in Nat
        BY BoundsAssumption DEF TypeOK
      <3>2. CASE ClientSends(c)
        <4>1. sent[c] \in Nat /\ sent[c] + 1 \in 0..MaxFragments
          BY <3>1, <3>2 DEF ClientSends
        <4> QED
          BY <3>1, <3>2, <4>1 DEF ClientSends
      <3>3. CASE ClientLeaves(c)
        BY <3>1, <3>3 DEF ClientLeaves
      <3> QED
        BY <1>3, <3>2, <3>3
    <2> QED
      BY <1>3, <2>1, <2>2
         DEF ClientSends, ClientLeaves, TypeOK, app2app, websocket
  <1>4. ASSUME NEW x \in Servers, ServiceFails(x)
        PROVE  TypeOK'
    <2>1. looper' \in [Servers -> LooperStates]
      BY <1>4, PointTypes, LooperMoves DEF ServiceFails
    <2>2. /\ stop' \in [Servers -> BOOLEAN]
          /\ conn' \in [Conns -> {"new", "open", "closing", "closed"}]
          /\ faults' \subseteq Faults
      BY <1>4 DEF ServiceFails, TypeOK
    <2> QED
      BY <1>4, <2>1, <2>2 DEF ServiceFails, TypeOK, app2app
  <1>5. ASSUME StopService
        PROVE  TypeOK'
    BY <1>5 DEF StopService, TypeOK, app2app, websocket
  <1> QED
    BY <1>1, <1>2, <1>3, <1>4, <1>5 DEF Environment

LEMMA ConnectionType ==
    ASSUME TypeOK, NEW x \in Servers, NEW c \in ClientsOf(x)
    PROVE  /\ RefuseConnection(c) => TypeOK'
           /\ QueueConnection(c) => TypeOK'
           /\ \A d \in ClientsOf(Other(x)) : PairConnection(c, d) => TypeOK'
  <1>1. c \in Conns /\ ServerOf(c) = x
        /\ \A d \in ClientsOf(Other(x)) : d \in Conns
    BY Sides
  <1>2. \A open : LeaveCallback(x, open) => looper' \in [Servers -> LooperStates]
    BY PointTypes, LooperMoves DEF LeaveCallback
  <1>3. ASSUME RefuseConnection(c) PROVE TypeOK'
    <2>1. looper' \in [Servers -> LooperStates]
      BY <1>1, <1>2, <1>3 DEF RefuseConnection
    <2> QED
      BY <1>1, <1>3, <2>1 DEF RefuseConnection, TypeOK, app2app
  <1>4. ASSUME QueueConnection(c) PROVE TypeOK'
    <2>1. looper' \in [Servers -> LooperStates]
      BY <1>1, <1>2, <1>4 DEF QueueConnection
    <2>2. arrivals \in Nat /\ waiting \in [Conns -> 0..arrivals]
      BY DEF TypeOK
    <2>3. /\ arrivals' = arrivals + 1
          /\ waiting' = [waiting EXCEPT ![c] = arrivals + 1]
      BY <1>4 DEF QueueConnection
    <2>4. arrivals' \in Nat /\ arrivals <= arrivals' /\ arrivals + 1 \in Nat
      BY <2>2, <2>3
    <2>5. waiting' \in [Conns -> 0..arrivals']
      BY <1>1, <2>2, <2>3, <2>4, ArrivalType
    <2> QED
      BY <1>1, <1>4, <2>1, <2>4, <2>5 DEF QueueConnection, TypeOK
  <1>5. ASSUME NEW d \in ClientsOf(Other(x)), PairConnection(c, d)
        PROVE  TypeOK'
    <2>1. looper' \in [Servers -> LooperStates]
      BY <1>1, <1>2, <1>5 DEF PairConnection
    <2>2. waiting' \in [Conns -> 0..arrivals']
      <3>1. arrivals \in Nat /\ waiting \in [Conns -> 0..arrivals]
        BY DEF TypeOK
      <3>2. arrivals' = arrivals /\ waiting' = [waiting EXCEPT ![d] = 0]
        BY <1>5 DEF PairConnection
      <3> QED
        BY <1>1, <3>1, <3>2, ArrivalType
    <2>3. paired' \in [Conns -> Conns \cup {None}]
      BY <1>1, <1>5 DEF PairConnection, TypeOK
    <2>4. write_queue' \in [Conns -> Seq(Fragments)]
      <3>1. c # d
        BY Sides
      <3>2. write_queue' = [write_queue EXCEPT
                              ![c] = Append(write_queue[c], PairingCompleted),
                              ![d] = Append(write_queue[d], PairingCompleted)]
        BY <1>1, <1>5, <3>1 DEF PairConnection, TypeOK
      <3> QED
        BY <1>1, <3>2, FragmentTypes, AppendType DEF TypeOK
    <2>5. conn' \in [Conns -> {"new", "open", "closing", "closed"}]
      BY <1>5 DEF PairConnection, TypeOK
    <2> QED
      BY <1>5, <2>1, <2>2, <2>3, <2>4, <2>5 DEF PairConnection, TypeOK
  <1> QED
    BY <1>3, <1>4, <1>5

LEMMA FragmentReceivedType ==
    ASSUME TypeOK, NEW x \in Servers, CallbackFits(x), FragmentReceived(x)
    PROVE  TypeOK'
  <1> DEFINE c == looper[x].conn
  <1>1. c \in Conns /\ sent[c] \in 1..MaxFragments
    <2>1. looper[x].at = "receive"
      BY DEF FragmentReceived, InCallback
    <2>2. c \in ClientsOf(x) /\ sent[c] > 0
      BY <2>1 DEF CallbackFits, Callbacks
    <2>3. c \in Conns
      BY <2>2, Sides
    <2>4. sent[c] \in 0..MaxFragments /\ MaxFragments \in Nat
      BY <2>3, BoundsAssumption DEF TypeOK
    <2> QED
      BY <2>2, <2>3, <2>4
  <1>2. looper' \in [Servers -> LooperStates]
    BY PointTypes, LooperMoves DEF FragmentReceived, LeaveCallback
  <1>3. Fragment(c, sent[c]) \in Fragments
    BY <1>1, FragmentTypes
  <1>4. CASE ~Stopped /\ paired[c] # None
    <2>1. write_queue' = [write_queue EXCEPT
              ![paired[c]] = Append(write_queue[paired[c]], Fragment(c, sent[c]))]
      BY <1>4 DEF FragmentReceived
    <2>2. paired[c] \in Conns
      BY <1>1, <1>4 DEF TypeOK
    <2>3. write_queue' \in [Conns -> Seq(Fragments)]
      BY <1>3, <2>1, <2>2, AppendType DEF TypeOK
    <2> QED
      BY <1>2, <2>3 DEF FragmentReceived, TypeOK, app2app
  <1>5. CASE ~(~Stopped /\ paired[c] # None)
    <2>1. write_queue' = write_queue
      BY <1>5 DEF FragmentReceived
    <2> QED
      BY <1>2, <2>1 DEF FragmentReceived, TypeOK, app2app
  <1> QED
    BY <1>4, <1>5

LEMMA DisconnectedType ==
    ASSUME TypeOK, NEW x \in Servers, CallbackFits(x), Disconnected(x)
    PROVE  TypeOK'
  <1> DEFINE c == looper[x].conn
             d == paired[c]
  <1>1. c \in Conns /\ d \in Conns \cup {None}
    BY Sides DEF Disconnected, InCallback, CallbackFits, Callbacks, TypeOK
  <1>2. looper' \in [Servers -> LooperStates]
    BY PointTypes, LooperMoves DEF Disconnected, LeaveCallback
  <1>3. conn' \in [Conns -> {"new", "open", "closing", "closed"}]
    BY <1>1 DEF Disconnected, TypeOK
  <1>4. cancelled' \in [Servers -> BOOLEAN]
    BY DEF Disconnected, TypeOK
  <1>5. /\ arrivals' = arrivals /\ endpoint' = endpoint /\ stop' = stop
        /\ service_stopped' = service_stopped
        /\ remote_service_stopped' = remote_service_stopped
        /\ caller' = caller /\ service' = service /\ sent' = sent
        /\ written' = written /\ faults' = faults
    BY DEF Disconnected
  <1>6. /\ paired' \in [Conns -> Conns \cup {None}]
        /\ waiting' \in [Conns -> 0..arrivals]
        /\ write_queue' \in [Conns -> Seq(Fragments)]
    <2>1. CASE Stopped
      BY <2>1 DEF Disconnected, TypeOK
    <2>2. CASE ~Stopped /\ d # None
      <3>1. /\ paired' = [paired EXCEPT ![c] = None, ![d] = None]
            /\ write_queue' = [write_queue EXCEPT
                                 ![d] = Append(write_queue[d], CloseFragment)]
            /\ waiting' = waiting
        BY <2>2 DEF Disconnected
      <3>2. d \in Conns
        BY <1>1, <2>2
      <3>3. write_queue' \in [Conns -> Seq(Fragments)]
        BY <3>1, <3>2, FragmentTypes, AppendType DEF TypeOK
      <3> QED
        BY <1>1, <3>1, <3>3 DEF TypeOK
    <2>3. CASE ~Stopped /\ d = None
      <3>1. arrivals \in Nat /\ waiting \in [Conns -> 0..arrivals]
        BY DEF TypeOK
      <3>2. /\ waiting' = [waiting EXCEPT ![c] = 0]
            /\ paired' = paired /\ write_queue' = write_queue
        BY <2>3 DEF Disconnected
      <3>3. waiting' \in [Conns -> 0..arrivals]
        BY <1>1, <3>1, <3>2, ArrivalType
      <3> QED
        BY <3>2, <3>3 DEF TypeOK
    <2> QED
      BY <2>1, <2>2, <2>3
  <1> QED
    BY <1>2, <1>3, <1>4, <1>5, <1>6 DEF TypeOK

LEMMA StepType ==
    ASSUME TypeOK, \A x \in Servers : CallbackFits(x), Next
    PROVE  TypeOK'
  <1>1. CASE Environment
    BY <1>1, EnvironmentType
  <1>2. CASE Stop
    BY <1>2 DEF Stop, TypeOK, websocket
  <1>3. CASE StopRemote
    <2>1. "remote" \in Servers
      BY DEF Servers
    <2>2. StopServer("remote")
      BY <1>3 DEF StopRemote
    <2> QED
      BY <1>3, <2>1, <2>2, StopServerType DEF StopRemote, TypeOK, app2app
  <1>4. ASSUME NEW x \in Servers, Looper(x)
        PROVE  TypeOK'
    <2>1. \A w \in {"service", "ended", "stop other", "remove", "gone"} :
            looper' = [looper EXCEPT ![x] = At(w)]
                => looper' \in [Servers -> LooperStates]
      BY PointTypes, LooperMoves
    <2>2. CASE ServiceCancelled(x)
      <3>1. looper' \in [Servers -> LooperStates]
        BY <2>2, PointTypes, LooperMoves DEF ServiceCancelled
      <3> QED
        BY <2>2, <3>1 DEF ServiceCancelled, TypeOK, app2app
    <2>3. ASSUME NEW c \in ClientsOf(x), Writable(c) \/ CloseCompletes(c)
          PROVE  TypeOK'
      <3>1. c \in Conns
        BY Sides
      <3>2. CASE Writable(c)
        BY <3>1, <3>2, WritableType
      <3>3. CASE CloseCompletes(c)
        <4>1. looper' \in [Servers -> LooperStates]
          BY <3>1, <3>3, Sides, PointTypes, LooperMoves
             DEF CloseCompletes, EnterCallback, Callbacks
        <4> QED
          BY <3>3, <4>1 DEF CloseCompletes, TypeOK, app2app, websocket
      <3> QED
        BY <2>3, <3>2, <3>3
    <2>4. ASSUME NEW c \in ClientsOf(x),
                 \/ RefuseConnection(c) \/ QueueConnection(c)
                 \/ \E d \in ClientsOf(Other(x)) : PairConnection(c, d)
          PROVE  TypeOK'
      BY <2>4, ConnectionType
    <2>5. CASE FragmentReceived(x)
      BY <2>5, FragmentReceivedType
    <2>6. CASE Disconnected(x)
      BY <2>6, DisconnectedType
    <2>7. CASE OnServiceStopped(x)
      <3>1. looper' \in [Servers -> LooperStates]
        BY <2>1, <2>7 DEF OnServiceStopped
      <3> QED
        BY <2>7, <3>1 DEF OnServiceStopped, TypeOK, websocket
    <2>8. CASE StopOther(x)
      <3>1. looper' \in [Servers -> LooperStates]
        BY <2>1, <2>8 DEF StopOther
      <3> QED
        BY <2>8, <3>1, Sides, StopServerType DEF StopOther, TypeOK, app2app
    <2>9. CASE Remove(x)
      <3>1. looper' \in [Servers -> LooperStates]
        BY <2>1, <2>9 DEF Remove
      <3> QED
        BY <2>9, <3>1 DEF Remove, TypeOK, app2app, websocket
    <2> QED
      BY <1>4, <2>2, <2>3, <2>4, <2>5, <2>6, <2>7, <2>8, <2>9 DEF Looper
  <1> QED
    BY <1>1, <1>2, <1>3, <1>4 DEF Next
-----------------------------------------------------------------------------
(* Which connection a callback is about.                                   *)

(* A looper that is in no callback.                                        *)
LEMMA NoCallback ==
    ASSUME NEW x \in Servers, looper'[x].at \notin Callbacks
    PROVE  CallbackFits(x)'
  BY DEF CallbackFits, Callbacks

(* A step that leaves a looper and its connections alone.                  *)
LEMMA SameCallback ==
    ASSUME NEW x \in Servers, CallbackFits(x), looper'[x] = looper[x],
           \A c \in ClientsOf(x) : conn'[c] = conn[c] /\ sent'[c] = sent[c]
    PROVE  CallbackFits(x)'
  BY DEF CallbackFits, Callbacks, IsOpen

Elsewhere(y) ==
    \A x \in Servers \ {y} :
        /\ looper'[x] = looper[x]
        /\ \A c \in ClientsOf(x) : conn'[c] = conn[c] /\ sent'[c] = sent[c]

LEMMA EnteredCallback ==
    ASSUME TypeOK, NEW x \in Servers, NEW c \in ClientsOf(x), NEW w \in Callbacks,
           EnterCallback(x, w, c), conn' = conn,
           w = "established" => conn[c] = "new",
           w = "receive" => conn[c] = "open" /\ sent'[c] > 0,
           w = "closed" => conn[c] \in {"open", "closing"}
    PROVE  CallbackFits(x)'
  <1>1. looper'[x] = [at |-> w, conn |-> c]
    BY DEF EnterCallback, TypeOK
  <1>2. looper'[x].at = w /\ looper'[x].conn = c
    BY <1>1
  <1> QED
    BY <1>2 DEF CallbackFits, IsOpen

LEMMA EnvironmentCallbacks ==
    ASSUME TypeOK, \A x \in Servers : CallbackFits(x), Ends, Environment
    PROVE  \A x \in Servers : CallbackFits(x)'
  <1>1. ASSUME NEW failed, StartApp2AppService(failed), NEW x \in Servers
        PROVE  CallbackFits(x)'
    <2>1. looper[x] = At("none")
      BY <1>1 DEF Ends, NotStarted, StartApp2AppService
    <2>2. looper'[x] \in {At("none"), At("service")}
      BY <1>1, <2>1 DEF StartApp2AppService
    <2>3. looper'[x].at \notin Callbacks
      BY <2>2, PointTypes
    <2> QED
      BY <2>3, NoCallback
  <1>2. ASSUME NEW c \in Conns,
               \/ \E e \in Endpoints \cup {NoEndpoint} : ClientConnects(c, e)
               \/ ClientSends(c)
               \/ ClientLeaves(c)
        PROVE  \A x \in Servers : CallbackFits(x)'
    <2>1. ServerOf(c) \in Servers /\ c \in ClientsOf(ServerOf(c))
      BY Sides
    <2>2. conn' = conn
      BY <1>2 DEF ClientConnects, ClientSends, ClientLeaves, websocket
    <2>3. CallbackFits(ServerOf(c))'
      <3>1. CASE \E e \in Endpoints \cup {NoEndpoint} : ClientConnects(c, e)
        BY <2>1, <2>2, <3>1, EnteredCallback DEF ClientConnects, Callbacks
      <3>2. CASE ClientSends(c)
        <4>1. sent[c] \in Nat /\ sent'[c] = sent[c] + 1
          <5>1. sent \in [Conns -> 0..MaxFragments] /\ MaxFragments \in Nat
            BY BoundsAssumption DEF TypeOK
          <5>2. sent' = [sent EXCEPT ![c] = sent[c] + 1]
            BY <3>2 DEF ClientSends
          <5> QED
            BY <5>1, <5>2
        <4>2. sent'[c] > 0
          BY <4>1
        <4> QED
          BY <2>1, <2>2, <3>2, <4>2, EnteredCallback DEF ClientSends, Callbacks
      <3>3. CASE ClientLeaves(c)
        BY <2>1, <2>2, <3>3, EnteredCallback DEF ClientLeaves, Callbacks
      <3> QED
        BY <1>2, <3>1, <3>2, <3>3
    <2>4. Elsewhere(ServerOf(c))
      <3>1. \A e \in Conns : e # c => sent'[e] = sent[e]
        BY <1>2 DEF ClientConnects, ClientSends, ClientLeaves, TypeOK
      <3>2. \E place : looper' = [looper EXCEPT ![ServerOf(c)] = place]
        BY <1>2 DEF ClientConnects, ClientSends, ClientLeaves, EnterCallback
      <3>3. \A x \in Servers \ {ServerOf(c)} : looper'[x] = looper[x]
        BY <3>2 DEF TypeOK
      <3>4. \A x \in Servers \ {ServerOf(c)} : \A e \in ClientsOf(x) :
                e \in Conns /\ e # c
        BY Sides
      <3> QED
        BY <2>2, <3>1, <3>3, <3>4 DEF Elsewhere
    <2> QED
      BY <2>3, <2>4, SameCallback DEF Elsewhere
  <1>3. ASSUME NEW y \in Servers, ServiceFails(y)
        PROVE  \A x \in Servers : CallbackFits(x)'
    <2>1. looper'[y] = At("ended")
      BY <1>3 DEF ServiceFails, TypeOK
    <2>2. CallbackFits(y)'
      BY <2>1, PointTypes, NoCallback
    <2>3. Elsewhere(y)
      <3>1. /\ looper' = [looper EXCEPT ![y] = At("ended")]
            /\ sent' = sent
            /\ conn' = [c \in Conns |-> IF c \in OpenClients(y) THEN "closed"
                                       ELSE conn[c]]
        BY <1>3 DEF ServiceFails
      <3>2. \A x \in Servers \ {y} : \A c \in ClientsOf(x) :
                c \in Conns /\ c \notin OpenClients(y)
        BY Sides DEF OpenClients
      <3>3. \A x \in Servers \ {y} : looper'[x] = looper[x]
        BY <3>1 DEF TypeOK
      <3> QED
        BY <3>1, <3>2, <3>3 DEF Elsewhere
    <2> QED
      BY <2>2, <2>3, SameCallback DEF Elsewhere
  <1>4. ASSUME StopService
        PROVE  \A x \in Servers : CallbackFits(x)'
    BY <1>4, SameCallback DEF StopService, websocket
  <1> QED
    BY <1>1, <1>2, <1>3, <1>4 DEF Environment

LEMMA LooperCallbacks ==
    ASSUME TypeOK, \A x \in Servers : CallbackFits(x), NEW y \in Servers, Looper(y)
    PROVE  \A x \in Servers : CallbackFits(x)'
  <1>1. Elsewhere(y) /\ CallbackFits(y)' => \A x \in Servers : CallbackFits(x)'
    BY SameCallback DEF Elsewhere
  <1>2. \A c \in ClientsOf(y) : c \in Conns /\ ServerOf(c) = y
    BY Sides
  <1>3. \A x \in Servers \ {y} : \A c \in ClientsOf(x) :
            c \in Conns /\ c \notin ClientsOf(y)
    BY Sides
  <1>4. ASSUME NEW place,
               looper' = [looper EXCEPT ![y] = place],
               place.at \notin Callbacks
        PROVE  CallbackFits(y)'
    <2>1. looper'[y] = place
      BY <1>4 DEF TypeOK
    <2> QED
      BY <1>4, <2>1, NoCallback
  <1>5. ASSUME NEW open, LeaveCallback(y, open)
        PROVE  CallbackFits(y)'
    <2> DEFINE place == LoopTest(y, open)
    <2>1. looper' = [looper EXCEPT ![y] = place]
      BY <1>5 DEF LeaveCallback
    <2>2. place.at \notin Callbacks
      BY PointTypes DEF Callbacks
    <2> HIDE DEF place
    <2> QED
      BY <1>4, <2>1, <2>2
  <1>6. \A w \in {"ended", "stop other", "remove", "gone"} :
            looper' = [looper EXCEPT ![y] = At(w)] => CallbackFits(y)'
    BY <1>4, PointTypes
  <1>7. ASSUME \E open : looper' = [looper EXCEPT ![y] = open],
               sent' = sent,
               \A c \in Conns \ ClientsOf(y) : conn'[c] = conn[c]
        PROVE  Elsewhere(y)
    BY <1>3, <1>7 DEF Elsewhere, TypeOK
  <1>8. CASE ServiceCancelled(y)
    <2>1. CallbackFits(y)'
      BY <1>4, <1>8, PointTypes DEF ServiceCancelled
    <2> QED
      BY <1>1, <1>7, <1>8, <2>1 DEF ServiceCancelled
  <1>9. ASSUME NEW c \in ClientsOf(y), Writable(c)
        PROVE  \A x \in Servers : CallbackFits(x)'
    <2>1. looper'[y] = looper[y] /\ looper[y].at = "service"
      BY <1>2, <1>9 DEF Writable
    <2>2. CallbackFits(y)'
      BY <2>1, NoCallback DEF Callbacks
    <2>3. Elsewhere(y)
      <3>1. looper' = looper /\ sent' = sent
        BY <1>9 DEF Writable
      <3>2. \A e \in Conns : e # c => conn'[e] = conn[e]
        BY <1>2, <1>9 DEF Writable, TypeOK
      <3> QED
        BY <1>3, <3>1, <3>2 DEF Elsewhere
    <2> QED
      BY <1>1, <2>2, <2>3
  <1>10. ASSUME NEW c \in ClientsOf(y), CloseCompletes(c)
         PROVE  \A x \in Servers : CallbackFits(x)'
    <2>1. conn' = conn /\ sent' = sent
      BY <1>10 DEF CloseCompletes, websocket
    <2>2. CallbackFits(y)'
      BY <1>2, <1>10, <2>1, EnteredCallback DEF CloseCompletes, Callbacks
    <2> QED
      BY <1>1, <1>2, <1>7, <1>10, <2>1, <2>2 DEF CloseCompletes, EnterCallback
  <1>11. ASSUME NEW c \in ClientsOf(y),
                \/ RefuseConnection(c) \/ QueueConnection(c)
                \/ \E d \in ClientsOf(Other(y)) : PairConnection(c, d)
         PROVE  \A x \in Servers : CallbackFits(x)'
    <2>1. \E open : LeaveCallback(y, open)
      BY <1>2, <1>11 DEF RefuseConnection, QueueConnection, PairConnection
    <2>2. sent' = sent /\ \A e \in Conns : e # c => conn'[e] = conn[e]
      BY <1>2, <1>11
         DEF RefuseConnection, QueueConnection, PairConnection, TypeOK
    <2> QED
      BY <1>1, <1>5, <1>7, <2>1, <2>2 DEF LeaveCallback
  <1>12. CASE FragmentReceived(y)
    BY <1>1, <1>5, <1>7, <1>12 DEF FragmentReceived, LeaveCallback
  <1>13. CASE Disconnected(y)
    <2> DEFINE c == looper[y].conn
    <2>1. c \in ClientsOf(y)
      BY <1>13 DEF Disconnected, InCallback, CallbackFits, Callbacks
    <2>2. sent' = sent /\ \A e \in Conns : e # c => conn'[e] = conn[e]
      BY <1>13 DEF Disconnected, TypeOK
    <2>3. \E open : LeaveCallback(y, open)
      BY <1>13 DEF Disconnected
    <2> QED
      BY <1>1, <1>5, <1>7, <2>1, <2>2, <2>3 DEF LeaveCallback
  <1>14. CASE OnServiceStopped(y)
    BY <1>1, <1>6, <1>7, <1>14 DEF OnServiceStopped, websocket
  <1>15. CASE StopOther(y)
    BY <1>1, <1>6, <1>7, <1>15 DEF StopOther
  <1>16. CASE Remove(y)
    BY <1>1, <1>6, <1>7, <1>16 DEF Remove, websocket
  <1> QED
    BY <1>8, <1>9, <1>10, <1>11, <1>12, <1>13, <1>14, <1>15, <1>16 DEF Looper

LEMMA StepCallbacks ==
    ASSUME TypeOK, \A x \in Servers : CallbackFits(x), Ends, Next
    PROVE  \A x \in Servers : CallbackFits(x)'
  <1>1. CASE Environment
    BY <1>1, EnvironmentCallbacks
  <1>2. CASE Stop
    BY <1>2, SameCallback DEF Stop, websocket
  <1>3. CASE StopRemote
    BY <1>3, SameCallback DEF StopRemote
  <1>4. CASE \E x \in Servers : Looper(x)
    BY <1>4, LooperCallbacks
  <1> QED
    BY <1>1, <1>2, <1>3, <1>4 DEF Next
-----------------------------------------------------------------------------
(* Pairs and waiting connections.                                          *)

Pairing == NewIsUnknown /\ PairsAreMutual /\ NobodyWaitsForAWaiting

(* Nobody is paired with a connection that is not paired itself.           *)
LEMMA OnlyPairsArePaired ==
    ASSUME TypeOK, PairsAreMutual, ~Stopped, NEW c \in Conns, paired[c] = None,
           NEW f \in Conns
    PROVE  paired[f] # c
  <1>1. SUFFICES ASSUME paired[f] = c PROVE FALSE
    OBVIOUS
  <1>2. paired[f] # None
    BY <1>1, ConnsAssumption
  <1>3. paired[c] = f
    BY <1>1, <1>2 DEF PairsAreMutual
  <1> QED
    BY <1>3, ConnsAssumption

(* A step that pairs nobody, lets nobody wait and closes a connection only
   when its server failed.                                                 *)
LEMMA PairingKept ==
    ASSUME TypeOK, Pairing, UNCHANGED <<waiting, paired, endpoint>>,
           Stopped => Stopped', faults \subseteq faults',
           \A c \in Conns : /\ IsOpen(c) => IsOpen(c)' \/ Failed(ServerOf(c))'
                            /\ conn'[c] = "new" => conn[c] = "new"
    PROVE  Pairing'
  <1>1. NewIsUnknown'
    BY DEF Pairing, NewIsUnknown
  <1>2. \A c \in Conns : IsOpen(c) \/ Failed(ServerOf(c))
                            => IsOpen(c)' \/ Failed(ServerOf(c))'
    BY DEF Failed
  <1>3. PairsAreMutual'
    <2> SUFFICES ASSUME ~Stopped', NEW c \in Conns, paired'[c] # None
                 PROVE  /\ paired'[paired'[c]] = c
                        /\ ServerOf(paired'[c]) = Other(ServerOf(c))
                        /\ endpoint'[paired'[c]] = endpoint'[c]
                        /\ waiting'[c] = 0
                        /\ IsOpen(paired[c])' \/ Failed(ServerOf(paired[c]))'
      BY DEF PairsAreMutual
    <2>1. paired[c] \in Conns
      BY DEF TypeOK
    <2>2. /\ paired[paired[c]] = c
          /\ ServerOf(paired[c]) = Other(ServerOf(c))
          /\ endpoint[paired[c]] = endpoint[c]
          /\ waiting[c] = 0
          /\ IsOpen(paired[c]) \/ Failed(ServerOf(paired[c]))
      BY DEF Pairing, PairsAreMutual
    <2>3. IsOpen(paired[c])' \/ Failed(ServerOf(paired[c]))'
      BY <1>2, <2>1, <2>2 DEF IsOpen, Failed
    <2> QED
      BY <2>2, <2>3
  <1>4. NobodyWaitsForAWaiting'
    BY <1>2 DEF Pairing, NobodyWaitsForAWaiting, Candidates
  <1> QED
    BY <1>1, <1>3, <1>4 DEF Pairing

(* A step about connection c that changes neither deques nor pairs, while c
   is neither waiting nor paired.                                          *)
LEMMA PairingApart ==
    ASSUME TypeOK, Pairing, NEW c \in Conns, conn[c] = "new",
           UNCHANGED <<waiting, paired>>, Stopped => Stopped', faults \subseteq faults',
           \A f \in Conns \ {c} : endpoint'[f] = endpoint[f] /\ conn'[f] = conn[f]
    PROVE  Pairing'
  <1>1. paired[c] = None /\ waiting[c] = 0
    BY DEF Pairing, NewIsUnknown
  <1>2. NewIsUnknown'
    BY <1>1 DEF Pairing, NewIsUnknown
  <1>3. ASSUME NEW f \in Conns, f # c
        PROVE  IsOpen(f) \/ Failed(ServerOf(f))
                    => IsOpen(f)' \/ Failed(ServerOf(f))'
    BY <1>3 DEF IsOpen, Failed
  <1>4. PairsAreMutual'
    <2> SUFFICES ASSUME ~Stopped', NEW f \in Conns, paired'[f] # None
                 PROVE  /\ paired'[paired'[f]] = f
                        /\ ServerOf(paired'[f]) = Other(ServerOf(f))
                        /\ endpoint'[paired'[f]] = endpoint'[f]
                        /\ waiting'[f] = 0
                        /\ IsOpen(paired[f])' \/ Failed(ServerOf(paired[f]))'
      BY DEF PairsAreMutual
    <2>1. f # c /\ paired[f] \in Conns /\ paired[f] # c
      BY <1>1, OnlyPairsArePaired DEF TypeOK, Pairing
    <2>2. /\ paired[paired[f]] = f
          /\ ServerOf(paired[f]) = Other(ServerOf(f))
          /\ endpoint[paired[f]] = endpoint[f]
          /\ waiting[f] = 0
          /\ IsOpen(paired[f]) \/ Failed(ServerOf(paired[f]))
      BY DEF Pairing, PairsAreMutual
    <2>3. IsOpen(paired[f])' \/ Failed(ServerOf(paired[f]))'
      BY <1>3, <2>1, <2>2 DEF IsOpen, Failed
    <2> QED
      BY <2>1, <2>2, <2>3
  <1>5. NobodyWaitsForAWaiting'
    <2> SUFFICES ASSUME ~Stopped', NEW f \in Conns, waiting'[f] > 0
                 PROVE  /\ Candidates(f)' = {}
                        /\ IsOpen(f)' \/ Failed(ServerOf(f))'
      BY DEF NobodyWaitsForAWaiting
    <2>1. f # c
      BY <1>1
    <2>2. Candidates(f) = {} /\ (IsOpen(f) \/ Failed(ServerOf(f)))
      BY DEF Pairing, NobodyWaitsForAWaiting
    <2>3. ASSUME NEW g \in Candidates(f)' PROVE FALSE
      <3>1. g \in ClientsOf(Other(ServerOf(f))) /\ waiting[g] > 0
            /\ endpoint'[g] = endpoint'[f]
        BY <2>3 DEF Candidates
      <3>2. g \in Conns /\ g # c
        BY <1>1, <3>1, Sides
      <3>3. g \in Candidates(f)
        BY <2>1, <3>1, <3>2 DEF Candidates
      <3> QED
        BY <2>2, <3>3
    <2> QED
      BY <1>3, <2>1, <2>2, <2>3
  <1> QED
    BY <1>2, <1>4, <1>5 DEF Pairing

(* OnConnection and OnRemoteConnection that find a partner.                *)
LEMMA PairConnectionPairs ==
    ASSUME TypeOK, Pairing, NEW c \in Conns, conn[c] = "new",
           NEW d \in ClientsOf(Other(ServerOf(c))), PairConnection(c, d)
    PROVE  Pairing'
  <1>1. paired[c] = None /\ waiting[c] = 0
    BY DEF Pairing, NewIsUnknown
  <1>2. /\ ~Stopped /\ ~Stopped'
        /\ d \in Conns /\ d # c
        /\ ServerOf(d) = Other(ServerOf(c)) /\ ServerOf(c) = Other(ServerOf(d))
    BY Sides DEF PairConnection, Stopped
  <1>3. d \in Candidates(c) /\ waiting[d] > 0 /\ endpoint[d] = endpoint[c]
    BY DEF PairConnection, IsNextWaiting, Candidates
  <1>4. paired[d] = None /\ (IsOpen(d) \/ Failed(ServerOf(d)))
    BY <1>2, <1>3 DEF Pairing, PairsAreMutual, NobodyWaitsForAWaiting
  <1>5. /\ waiting' = [waiting EXCEPT ![d] = 0]
        /\ paired' = [paired EXCEPT ![c] = d, ![d] = c]
        /\ conn' = [conn EXCEPT ![c] = "open"]
        /\ endpoint' = endpoint /\ faults' = faults
    BY DEF PairConnection
  <1>6. /\ paired'[c] = d /\ paired'[d] = c /\ waiting'[c] = 0 /\ waiting'[d] = 0
        /\ conn'[c] = "open" /\ conn'[d] = conn[d]
    BY <1>1, <1>2, <1>5 DEF TypeOK
  <1>7. \A f \in Conns \ {c, d} :
            paired'[f] = paired[f] /\ waiting'[f] = waiting[f] /\ conn'[f] = conn[f]
    BY <1>5 DEF TypeOK
  <1>8. IsOpen(c)' /\ (IsOpen(d)' \/ Failed(ServerOf(d))')
    BY <1>4, <1>5, <1>6 DEF IsOpen, Failed
  <1>9. NewIsUnknown'
    <2>1. conn[d] # "new"
      BY <1>2, <1>3 DEF Pairing, NewIsUnknown
    <2> QED
      BY <1>6, <1>7, <2>1 DEF Pairing, NewIsUnknown
  <1>10. PairsAreMutual'
    <2> SUFFICES ASSUME NEW f \in Conns, paired'[f] # None
                 PROVE  /\ paired'[paired'[f]] = f
                        /\ ServerOf(paired'[f]) = Other(ServerOf(f))
                        /\ endpoint'[paired'[f]] = endpoint'[f]
                        /\ waiting'[f] = 0
                        /\ IsOpen(paired[f])' \/ Failed(ServerOf(paired[f]))'
      BY DEF PairsAreMutual
    <2>1. CASE f = c
      BY <1>2, <1>3, <1>5, <1>6, <1>8, <2>1 DEF IsOpen, Failed
    <2>2. CASE f = d
      BY <1>2, <1>3, <1>5, <1>6, <1>8, <2>2 DEF IsOpen, Failed
    <2>3. CASE f \notin {c, d}
      <3>1. paired'[f] = paired[f] /\ waiting'[f] = waiting[f]
        BY <1>7, <2>3
      <3>2. paired[f] \in Conns /\ paired[f] \notin {c, d}
        BY <1>1, <1>2, <1>4, <3>1, OnlyPairsArePaired DEF TypeOK, Pairing
      <3>3. /\ paired[paired[f]] = f
            /\ ServerOf(paired[f]) = Other(ServerOf(f))
            /\ endpoint[paired[f]] = endpoint[f]
            /\ waiting[f] = 0
            /\ IsOpen(paired[f]) \/ Failed(ServerOf(paired[f]))
        BY <1>2, <3>1 DEF Pairing, PairsAreMutual
      <3>4. paired'[paired[f]] = f /\ conn'[paired[f]] = conn[paired[f]]
        BY <1>7, <3>2, <3>3
      <3> QED
        BY <1>5, <3>1, <3>3, <3>4 DEF IsOpen, Failed
    <2> QED
      BY <2>1, <2>2, <2>3
  <1>11. NobodyWaitsForAWaiting'
    <2> SUFFICES ASSUME NEW f \in Conns, waiting'[f] > 0
                 PROVE  /\ Candidates(f)' = {}
                        /\ IsOpen(f)' \/ Failed(ServerOf(f))'
      BY DEF NobodyWaitsForAWaiting
    <2>1. f \notin {c, d} /\ waiting[f] > 0 /\ conn'[f] = conn[f]
      BY <1>6, <1>7
    <2>2. Candidates(f) = {} /\ (IsOpen(f) \/ Failed(ServerOf(f)))
      BY <1>2, <2>1 DEF Pairing, NobodyWaitsForAWaiting
    <2>3. \A g \in ClientsOf(Other(ServerOf(f))) : waiting'[g] > 0 => waiting[g] > 0
      <3>1. \A g \in ClientsOf(Other(ServerOf(f))) : g \in Conns
        BY Sides
      <3> QED
        BY <1>6, <1>7, <3>1
    <2>4. Candidates(f)' \subseteq Candidates(f)
      BY <1>5, <2>3 DEF Candidates
    <2> QED
      BY <1>5, <2>1, <2>2, <2>4 DEF IsOpen, Failed
  <1> QED
    BY <1>9, <1>10, <1>11 DEF Pairing

(* OnConnection and OnRemoteConnection that find none.                     *)
LEMMA QueueConnectionWaits ==
    ASSUME TypeOK, Pairing, NEW c \in Conns, conn[c] = "new", QueueConnection(c)
    PROVE  Pairing'
  <1>1. paired[c] = None /\ ~Stopped /\ ~Stopped' /\ Candidates(c) = {}
    BY DEF Pairing, NewIsUnknown, QueueConnection, Stopped
  <1>2. /\ waiting' = [waiting EXCEPT ![c] = arrivals + 1]
        /\ conn' = [conn EXCEPT ![c] = "open"]
        /\ paired' = paired /\ endpoint' = endpoint /\ faults' = faults
    BY DEF QueueConnection
  <1>3. /\ conn'[c] = "open" /\ IsOpen(c)'
        /\ \A f \in Conns \ {c} : waiting'[f] = waiting[f] /\ conn'[f] = conn[f]
    BY <1>2 DEF TypeOK, IsOpen
  <1>4. NewIsUnknown'
    BY <1>2, <1>3 DEF Pairing, NewIsUnknown
  <1>5. PairsAreMutual'
    <2> SUFFICES ASSUME NEW f \in Conns, paired'[f] # None
                 PROVE  /\ paired'[paired'[f]] = f
                        /\ ServerOf(paired'[f]) = Other(ServerOf(f))
                        /\ endpoint'[paired'[f]] = endpoint'[f]
                        /\ waiting'[f] = 0
                        /\ IsOpen(paired[f])' \/ Failed(ServerOf(paired[f]))'
      BY DEF PairsAreMutual
    <2>1. f # c /\ paired[f] \in Conns /\ paired[f] # c
      BY <1>1, <1>2, OnlyPairsArePaired DEF TypeOK, Pairing
    <2>2. /\ paired[paired[f]] = f
          /\ ServerOf(paired[f]) = Other(ServerOf(f))
          /\ endpoint[paired[f]] = endpoint[f]
          /\ waiting[f] = 0
          /\ IsOpen(paired[f]) \/ Failed(ServerOf(paired[f]))
      BY <1>1, <1>2 DEF Pairing, PairsAreMutual
    <2> QED
      BY <1>2, <1>3, <2>1, <2>2 DEF IsOpen, Failed
  <1>6. NobodyWaitsForAWaiting'
    <2> SUFFICES ASSUME NEW f \in Conns, waiting'[f] > 0
                 PROVE  /\ Candidates(f)' = {}
                        /\ IsOpen(f)' \/ Failed(ServerOf(f))'
      BY DEF NobodyWaitsForAWaiting
    <2>1. CASE f = c
      <3>1. \A g \in ClientsOf(Other(ServerOf(c))) : g \in Conns /\ g # c
        BY Sides
      <3>2. Candidates(c)' = Candidates(c)
        BY <1>2, <1>3, <3>1 DEF Candidates
      <3> QED
        BY <1>1, <1>3, <2>1, <3>2 DEF IsOpen
    <2>2. CASE f # c
      <3>1. waiting[f] > 0
        BY <1>3, <2>2
      <3>2. Candidates(f) = {} /\ (IsOpen(f) \/ Failed(ServerOf(f)))
        BY <1>1, <3>1 DEF Pairing, NobodyWaitsForAWaiting
      <3>3. ASSUME NEW g \in Candidates(f)' PROVE FALSE
        <4>1. g \in ClientsOf(Other(ServerOf(f))) /\ waiting'[g] > 0
              /\ endpoint[g] = endpoint[f] /\ g \in Conns
          BY <1>2, <3>3, Sides DEF Candidates
        <4>2. CASE g = c
          <5>1. f \in ClientsOf(Other(ServerOf(c)))
            BY <4>1, <4>2, Sides
          <5>2. f \in Candidates(c)
            BY <3>1, <4>1, <4>2, <5>1 DEF Candidates
          <5> QED
            BY <1>1, <5>2
        <4>3. CASE g # c
          BY <1>3, <3>2, <4>1, <4>3 DEF Candidates
        <4> QED
          BY <4>2, <4>3
      <3> QED
        BY <1>2, <1>3, <2>2, <3>2, <3>3 DEF IsOpen, Failed
    <2> QED
      BY <2>1, <2>2
  <1> QED
    BY <1>4, <1>5, <1>6 DEF Pairing

(* OnDisconnected and OnRemoteDisconnected.                                *)
LEMMA DisconnectedPairs ==
    ASSUME TypeOK, Pairing, NEW x \in Servers, CallbackFits(x), Disconnected(x)
    PROVE  Pairing'
  <1> DEFINE c == looper[x].conn
             d == paired[c]
  <1>1. c \in Conns /\ IsOpen(c)
    BY Sides DEF Disconnected, InCallback, CallbackFits, Callbacks
  <1>2. /\ conn' = [conn EXCEPT ![c] = "closed"]
        /\ endpoint' = endpoint /\ faults' = faults
        /\ Stopped' = Stopped
        /\ Stopped => paired' = paired /\ waiting' = waiting
    BY DEF Disconnected, Stopped
  <1>3. conn'[c] = "closed" /\ \A f \in Conns \ {c} : conn'[f] = conn[f]
    BY <1>1, <1>2 DEF TypeOK
  <1>4. CASE Stopped
    <2>1. NewIsUnknown'
      BY <1>2, <1>3, <1>4 DEF Pairing, NewIsUnknown
    <2> QED
      BY <1>2, <1>4, <2>1 DEF Pairing, PairsAreMutual, NobodyWaitsForAWaiting
  <1>5. CASE ~Stopped
    <2>1. /\ paired'[c] = None /\ waiting'[c] = 0
          /\ \A f \in Conns : paired[f] = c => paired'[f] = None
          /\ \A f \in Conns \ {c} : paired[f] # c => paired'[f] = paired[f]
          /\ \A f \in Conns \ {c} : waiting'[f] = waiting[f]
      <3>1. CASE d = None
        <4>1. paired' = paired /\ waiting' = [waiting EXCEPT ![c] = 0]
          BY <1>5, <3>1 DEF Disconnected
        <4>2. \A f \in Conns : paired[f] # c
          BY <1>1, <1>5, <3>1, OnlyPairsArePaired DEF Pairing
        <4> QED
          BY <1>1, <3>1, <4>1, <4>2 DEF TypeOK
      <3>2. CASE d # None
        <4>1. paired' = [paired EXCEPT ![c] = None, ![d] = None]
              /\ waiting' = waiting
          BY <1>5, <3>2 DEF Disconnected
        <4>2. d \in Conns /\ paired[d] = c /\ waiting[c] = 0
          BY <1>1, <1>5, <3>2 DEF Pairing, PairsAreMutual, TypeOK
        <4>3. \A f \in Conns : paired[f] = c => f = d
          BY <1>1, <1>5, ConnsAssumption DEF Pairing, PairsAreMutual
        <4>4. \A f \in Conns : paired'[f] = IF f \in {c, d} THEN None ELSE paired[f]
          BY <4>1 DEF TypeOK
        <4> QED
          BY <1>1, <4>1, <4>2, <4>3, <4>4
      <3> QED
        BY <3>1, <3>2
    <2>2. NewIsUnknown'
      BY <1>3, <2>1 DEF Pairing, NewIsUnknown
    <2>3. PairsAreMutual'
      <3> SUFFICES ASSUME NEW f \in Conns, paired'[f] # None
                   PROVE  /\ paired'[paired'[f]] = f
                          /\ ServerOf(paired'[f]) = Other(ServerOf(f))
                          /\ endpoint'[paired'[f]] = endpoint'[f]
                          /\ waiting'[f] = 0
                          /\ IsOpen(paired[f])' \/ Failed(ServerOf(paired[f]))'
        BY <2>1 DEF PairsAreMutual
      <3>1. f # c /\ paired[f] # c /\ paired'[f] = paired[f]
            /\ waiting'[f] = waiting[f]
        BY <2>1
      <3>2. /\ paired[paired[f]] = f /\ paired[f] \in Conns
            /\ ServerOf(paired[f]) = Other(ServerOf(f))
            /\ endpoint[paired[f]] = endpoint[f]
            /\ waiting[f] = 0
            /\ IsOpen(paired[f]) \/ Failed(ServerOf(paired[f]))
        BY <1>5, <3>1 DEF Pairing, PairsAreMutual, TypeOK
      <3>3. paired'[paired[f]] = f /\ conn'[paired[f]] = conn[paired[f]]
        BY <1>3, <2>1, <3>1, <3>2
      <3> QED
        BY <1>2, <3>1, <3>2, <3>3 DEF IsOpen, Failed
    <2>4. NobodyWaitsForAWaiting'
      <3> SUFFICES ASSUME NEW f \in Conns, waiting'[f] > 0
                   PROVE  /\ Candidates(f)' = {}
                          /\ IsOpen(f)' \/ Failed(ServerOf(f))'
        BY DEF NobodyWaitsForAWaiting
      <3>1. f # c /\ waiting[f] > 0
        BY <2>1
      <3>2. Candidates(f) = {} /\ (IsOpen(f) \/ Failed(ServerOf(f)))
        BY <1>5, <3>1 DEF Pairing, NobodyWaitsForAWaiting
      <3>3. \A g \in ClientsOf(Other(ServerOf(f))) : waiting'[g] > 0 => waiting[g] > 0
        <4>1. \A g \in ClientsOf(Other(ServerOf(f))) : g \in Conns
          BY Sides
        <4> QED
          BY <2>1, <4>1
      <3>4. Candidates(f)' \subseteq Candidates(f)
        BY <1>2, <3>3 DEF Candidates
      <3> QED
        BY <1>2, <1>3, <3>1, <3>2, <3>4 DEF IsOpen, Failed
    <2> QED
      BY <2>2, <2>3, <2>4 DEF Pairing
  <1> QED
    BY <1>4, <1>5

LEMMA StepPairing ==
    ASSUME TypeOK, \A x \in Servers : CallbackFits(x), Pairing, Next
    PROVE  Pairing'
  <1>1. CASE Environment
    <2>1. ASSUME NEW failed, StartApp2AppService(failed) PROVE Pairing'
      BY <2>1, PairingKept DEF StartApp2AppService, app2app, Stopped, IsOpen
    <2>2. ASSUME NEW c \in Conns, NEW e, ClientConnects(c, e) PROVE Pairing'
      <3>1. /\ conn[c] = "new" /\ conn' = conn /\ faults' = faults
            /\ waiting' = waiting /\ paired' = paired /\ Stopped' = Stopped
            /\ endpoint' = [endpoint EXCEPT ![c] = e]
        BY <2>2 DEF ClientConnects, app2app, Stopped
      <3>2. \A f \in Conns \ {c} : endpoint'[f] = endpoint[f]
        BY <3>1 DEF TypeOK
      <3> QED
        BY <3>1, <3>2, PairingApart
    <2>3. ASSUME NEW c \in Conns, ClientSends(c) \/ ClientLeaves(c) PROVE Pairing'
      BY <2>3, PairingKept
         DEF ClientSends, ClientLeaves, app2app, websocket, Stopped, IsOpen
    <2>4. ASSUME NEW x \in Servers, ServiceFails(x) PROVE Pairing'
      <3>1. /\ UNCHANGED <<waiting, paired, endpoint>> /\ Stopped' = Stopped
            /\ faults' = faults \cup {LwsFault(x)}
            /\ conn' = [c \in Conns |-> IF c \in OpenClients(x) THEN "closed"
                                        ELSE conn[c]]
        BY <2>4 DEF ServiceFails, app2app, Stopped
      <3>2. \A c \in OpenClients(x) : ServerOf(c) = x
        BY Sides DEF OpenClients
      <3>3. \A c \in Conns : /\ IsOpen(c) => IsOpen(c)' \/ Failed(ServerOf(c))'
                             /\ conn'[c] = "new" => conn[c] = "new"
        BY <3>1, <3>2 DEF IsOpen, Failed
      <3> QED
        BY <3>1, <3>3, PairingKept
    <2>5. ASSUME StopService PROVE Pairing'
      BY <2>5, PairingKept DEF StopService, app2app, websocket, Stopped, IsOpen
    <2> QED
      BY <1>1, <2>1, <2>2, <2>3, <2>4, <2>5 DEF Environment
  <1>2. CASE Stop
    BY <1>2, PairingKept DEF Stop, websocket, Stopped, IsOpen
  <1>3. CASE StopRemote
    BY <1>3, PairingKept DEF StopRemote, app2app, Stopped, IsOpen
  <1>4. ASSUME NEW x \in Servers, Looper(x) PROVE Pairing'
    <2>1. CASE ServiceCancelled(x)
      BY <2>1, PairingKept DEF ServiceCancelled, app2app, Stopped, IsOpen
    <2>2. ASSUME NEW c \in ClientsOf(x), Writable(c) PROVE Pairing'
      <3>1. /\ UNCHANGED <<waiting, paired, endpoint, faults>> /\ Stopped' = Stopped
            /\ conn[c] = "open"
            /\ conn' = [conn EXCEPT ![c] = conn'[c]]
            /\ conn'[c] \in {"open", "closing"}
        BY <2>2, Sides DEF Writable, app2app, Stopped, TypeOK
      <3>2. \A f \in Conns : /\ IsOpen(f) => IsOpen(f)'
                             /\ conn'[f] = "new" => conn[f] = "new"
        BY <3>1 DEF IsOpen, TypeOK
      <3> QED
        BY <3>1, <3>2, PairingKept
    <2>3. ASSUME NEW c \in ClientsOf(x), CloseCompletes(c) PROVE Pairing'
      BY <2>3, PairingKept DEF CloseCompletes, app2app, websocket, Stopped, IsOpen
    <2>4. ASSUME NEW c \in ClientsOf(x),
                 \/ RefuseConnection(c) \/ QueueConnection(c)
                 \/ \E d \in ClientsOf(Other(x)) : PairConnection(c, d)
          PROVE  Pairing'
      <3>1. c \in Conns /\ ServerOf(c) = x
        BY Sides
      <3>2. looper[x].at = "established" /\ looper[x].conn = c
        BY <2>4, <3>1
           DEF RefuseConnection, QueueConnection, PairConnection, InCallback
      <3>3. conn[c] = "new"
        BY <3>2 DEF CallbackFits
      <3>4. CASE RefuseConnection(c)
        <4>1. /\ UNCHANGED <<waiting, paired, endpoint, faults>>
              /\ Stopped' = Stopped
              /\ conn' = [conn EXCEPT ![c] = "closed"]
          BY <3>4 DEF RefuseConnection, app2app, Stopped
        <4>2. \A f \in Conns \ {c} : conn'[f] = conn[f]
          BY <4>1 DEF TypeOK
        <4> QED
          BY <3>1, <3>3, <4>1, <4>2, PairingApart
      <3>5. CASE QueueConnection(c)
        BY <3>1, <3>3, <3>5, QueueConnectionWaits
      <3>6. CASE \E d \in ClientsOf(Other(x)) : PairConnection(c, d)
        BY <3>1, <3>3, <3>6, PairConnectionPairs
      <3> QED
        BY <2>4, <3>4, <3>5, <3>6
    <2>5. CASE FragmentReceived(x)
      BY <2>5, PairingKept DEF FragmentReceived, app2app, Stopped, IsOpen
    <2>6. CASE Disconnected(x)
      BY <2>6, DisconnectedPairs
    <2>7. CASE OnServiceStopped(x)
      BY <2>7, PairingKept DEF OnServiceStopped, websocket, Stopped, IsOpen
    <2>8. CASE StopOther(x)
      BY <2>8, PairingKept DEF StopOther, app2app, Stopped, IsOpen
    <2>9. CASE Remove(x)
      BY <2>9, PairingKept DEF Remove, app2app, websocket, Stopped, IsOpen
    <2> QED
      BY <1>4, <2>1, <2>2, <2>3, <2>4, <2>5, <2>6, <2>7, <2>8, <2>9 DEF Looper
  <1> QED
    BY <1>1, <1>2, <1>3, <1>4 DEF Next
-----------------------------------------------------------------------------
(* How the service ends.                                                   *)

(* A step that touches none of what the ends depend on.                    *)
LEMMA EndsKept ==
    ASSUME Ends, UNCHANGED <<service_stopped, service, stop, looper, faults>>
    PROVE  Ends'
  BY DEF Ends, NotStarted, EndsInOrder, LocalFault, LocalLoopEnds

(* A looper that goes on: its loop ends only if its server was stopped.    *)
LEMMA LoopGoesOn ==
    ASSUME TypeOK, Ends, Alive, NEW x \in Servers,
           looper[x].at \in {"service"} \cup Callbacks,
           UNCHANGED <<service_stopped, service, stop>>, faults \subseteq faults',
           NEW place, looper' = [looper EXCEPT ![x] = place],
           \/ place.at \in {"service"} \cup Callbacks
           \/ place.at = "ended" /\ (stop[x] \/ LocalFault' \/ x = "remote")
    PROVE  Ends'
  <1>1. looper[x] # At("none")
    BY DEF At, Callbacks
  <1>2. service = "registered"
    BY <1>1 DEF Ends, NotStarted, Alive, TypeOK
  <1>3. LocalFault => LocalFault'
    BY DEF LocalFault
  <1>4. looper'[x] = place /\ \A y \in Servers \ {x} : looper'[y] = looper[y]
    BY DEF TypeOK
  <1>5. ~LocalFault' => EndsInOrder'
    <2> SUFFICES ASSUME ~LocalFault' PROVE EndsInOrder'
      OBVIOUS
    <2>1. EndsInOrder
      BY <1>2, <1>3 DEF Ends
    <2>2. CASE x = "local"
      BY <1>2, <1>4, <2>1, <2>2 DEF EndsInOrder, LocalLoopEnds, Servers, Callbacks
    <2>3. CASE x = "remote"
      BY <1>2, <1>4, <2>1, <2>3 DEF EndsInOrder, LocalLoopEnds, Servers, Callbacks
    <2> QED
      BY <2>2, <2>3 DEF Servers
  <1> QED
    BY <1>2, <1>5 DEF Ends

LEMMA EnvironmentEnds ==
    ASSUME TypeOK, Ends, Environment
    PROVE  Ends'
  <1>1. ASSUME NEW failed, StartApp2AppService(failed) PROVE Ends'
    <2>1. /\ service' \in {"erased", "registered"}
          /\ service' = "erased" => "start local" \in failed
          /\ faults' = faults \cup failed
          /\ service_stopped' = service_stopped
      BY <1>1 DEF StartApp2AppService, app2app
    <2>2. ~service_stopped /\ \A x \in Servers : looper[x] = At("none")
      BY <1>1 DEF Ends, NotStarted, StartApp2AppService
    <2>3. "start local" \notin failed =>
              ~stop'["local"] /\ looper'["local"] = At("service")
      <3>1. /\ stop' = [y \in Servers |-> StartFault(y) \in failed]
            /\ looper' = [y \in Servers |-> IF StartFault(y) \in failed
                                           THEN looper[y] ELSE At("service")]
        BY <1>1 DEF StartApp2AppService
      <3>2. "local" \in Servers /\ StartFault("local") = "start local"
        BY FaultKinds DEF Servers
      <3>3. stop'["local"] = ("start local" \in failed)
        BY <3>1, <3>2, Zenon
      <3>4. "start local" \notin failed => looper'["local"] = At("service")
        BY <3>1, <3>2
      <3> QED
        BY <3>3, <3>4
    <2>4. looper'["remote"] \in {At("none"), At("service")}
      BY <1>1, <2>2 DEF StartApp2AppService, Servers
    <2>5. ~LocalFault' => EndsInOrder'
      BY <2>1, <2>2, <2>3, <2>4, PointTypes
         DEF EndsInOrder, LocalLoopEnds, LocalFault
    <2> QED
      BY <2>1, <2>5 DEF Ends
  <1>2. ASSUME NEW c \in Conns,
               \/ \E e : ClientConnects(c, e)
               \/ ClientSends(c)
               \/ ClientLeaves(c)
        PROVE  Ends'
    <2>1. PICK w \in Callbacks : EnterCallback(ServerOf(c), w, c)
      BY <1>2 DEF ClientConnects, ClientSends, ClientLeaves, Callbacks
    <2>2. UNCHANGED <<service_stopped, service, stop, faults>>
      BY <1>2 DEF ClientConnects, ClientSends, ClientLeaves, app2app, websocket
    <2> DEFINE place == [at |-> w, conn |-> c]
    <2>3. place.at \in Callbacks
      OBVIOUS
    <2>4. /\ Alive /\ looper[ServerOf(c)].at = "service"
          /\ looper' = [looper EXCEPT ![ServerOf(c)] = place]
      BY <2>1 DEF EnterCallback
    <2> HIDE DEF place
    <2> QED
      BY <2>2, <2>3, <2>4, Sides, LoopGoesOn
  <1>3. ASSUME NEW x \in Servers, ServiceFails(x) PROVE Ends'
    <2>1. /\ Alive /\ looper[x].at = "service"
          /\ looper' = [looper EXCEPT ![x] = At("ended")]
          /\ faults' = faults \cup {LwsFault(x)}
          /\ stop' = [stop EXCEPT ![x] = TRUE]
          /\ UNCHANGED <<service_stopped, service>>
      BY <1>3 DEF ServiceFails, app2app
    <2>2. service = "registered"
      <3>1. looper[x] # At("none")
        BY <2>1, PointTypes
      <3> QED
        BY <2>1, <3>1 DEF Ends, NotStarted, Alive, TypeOK
    <2>3. CASE x = "local"
      <3>1. LocalFault'
        BY <2>1, <2>3, FaultKinds DEF LocalFault
      <3> QED
        BY <2>1, <2>2, <3>1 DEF Ends
    <2>4. CASE x = "remote"
      <3>1. LocalFault => LocalFault'
        BY <2>1 DEF LocalFault
      <3>2. /\ looper'["remote"].at = "ended" /\ looper'["local"] = looper["local"]
            /\ stop'["local"] = stop["local"]
        BY <2>1, <2>4, PointTypes DEF TypeOK, Servers
      <3>3. ~LocalFault' => EndsInOrder'
        BY <2>1, <2>2, <2>4, <3>1, <3>2 DEF Ends, EndsInOrder, LocalLoopEnds
      <3> QED
        BY <2>1, <2>2, <3>3 DEF Ends
    <2> QED
      BY <2>3, <2>4 DEF Servers
  <1>4. ASSUME StopService PROVE Ends'
    BY <1>4, EndsKept DEF StopService, app2app, websocket
  <1> QED
    BY <1>1, <1>2, <1>3, <1>4 DEF Environment

(* A callback returns to the loop.                                         *)
LEMMA CallbackReturns ==
    ASSUME TypeOK, Ends, NEW x \in Servers, Alive,
           looper[x].at \in {"service"} \cup Callbacks,
           UNCHANGED <<service_stopped, service, stop, faults>>,
           NEW open, looper' = [looper EXCEPT ![x] = LoopTest(x, open)]
    PROVE  Ends'
  <1> DEFINE place == LoopTest(x, open)
  <1>1. place.at \in {"ended", "service"} /\ (place.at = "ended" => stop[x])
    BY PointTypes
  <1>2. looper' = [looper EXCEPT ![x] = place]
    OBVIOUS
  <1> HIDE DEF place
  <1> QED
    BY <1>1, <1>2, LoopGoesOn

LEMMA LooperEnds ==
    ASSUME TypeOK, Ends, NEW x \in Servers, Looper(x)
    PROVE  Ends'
  <1>1. CASE ServiceCancelled(x)
    <2>1. /\ Alive /\ looper[x].at = "service"
          /\ UNCHANGED <<service_stopped, service, stop, faults>>
          /\ looper' = [looper EXCEPT ![x] = LoopTest(x, OpenClients(x))]
      BY <1>1 DEF ServiceCancelled, app2app
    <2> QED
      BY <2>1, CallbackReturns
  <1>2. ASSUME NEW c \in ClientsOf(x), Writable(c) PROVE Ends'
    BY <1>2, EndsKept DEF Writable, app2app
  <1>3. ASSUME NEW c \in ClientsOf(x), CloseCompletes(c) PROVE Ends'
    <2> DEFINE place == [at |-> "closed", conn |-> c]
    <2>1. place.at \in Callbacks
      BY DEF Callbacks
    <2>2. /\ Alive /\ looper[x].at = "service"
          /\ looper' = [looper EXCEPT ![x] = place]
          /\ UNCHANGED <<service_stopped, service, stop, faults>>
      BY <1>3, Sides DEF CloseCompletes, EnterCallback, app2app, websocket
    <2> HIDE DEF place
    <2> QED
      BY <2>1, <2>2, LoopGoesOn
  <1>4. ASSUME NEW c \in ClientsOf(x),
               \/ RefuseConnection(c) \/ QueueConnection(c)
               \/ \E d \in ClientsOf(Other(x)) : PairConnection(c, d)
        PROVE  Ends'
    <2>1. ServerOf(c) = x
      BY Sides
    <2>2. looper[x].at = "established" /\ Alive
      BY <1>4, <2>1
         DEF RefuseConnection, QueueConnection, PairConnection, InCallback
    <2>3. \E open : looper' = [looper EXCEPT ![x] = LoopTest(x, open)]
      BY <1>4, <2>1
         DEF RefuseConnection, QueueConnection, PairConnection, LeaveCallback
    <2>4. UNCHANGED <<service_stopped, service, stop, faults>>
      BY <1>4 DEF RefuseConnection, QueueConnection, PairConnection, app2app
    <2> QED
      BY <2>2, <2>3, <2>4, CallbackReturns DEF Callbacks
  <1>5. CASE FragmentReceived(x) \/ Disconnected(x)
    <2>1. looper[x].at \in Callbacks /\ Alive
      BY <1>5 DEF FragmentReceived, Disconnected, InCallback, Callbacks
    <2>2. \E open : looper' = [looper EXCEPT ![x] = LoopTest(x, open)]
      BY <1>5 DEF FragmentReceived, Disconnected, LeaveCallback
    <2>3. UNCHANGED <<service_stopped, service, stop, faults>>
      BY <1>5 DEF FragmentReceived, Disconnected, app2app
    <2> QED
      BY <2>1, <2>2, <2>3, CallbackReturns
  <1>6. ASSUME Alive, looper[x].at \in {"ended", "stop other", "remove"},
               NEW w \in {"stop other", "remove", "gone"},
               looper' = [looper EXCEPT ![x] = At(w)]
        PROVE  /\ service = "registered"
               /\ looper'[x].at = w
               /\ \A y \in Servers \ {x} : looper'[y] = looper[y]
    BY <1>6, PointTypes DEF Ends, NotStarted, Alive, TypeOK
  <1>7. "local" \in Servers /\ "remote" \in Servers /\ x \in {"local", "remote"}
    BY DEF Servers
  <1>8. CASE OnServiceStopped(x)
    <2> DEFINE w == IF StoppedFlag(Other(x)) THEN "remove" ELSE "stop other"
    <2>1. /\ Alive /\ looper[x].at = "ended" /\ service_stopped'
          /\ looper' = [looper EXCEPT ![x] = At(w)]
          /\ UNCHANGED <<service, stop, faults>>
      BY <1>8 DEF OnServiceStopped, websocket
    <2>2. w \in {"stop other", "remove"}
      OBVIOUS
    <2>3. x = "remote" /\ ~service_stopped => w = "stop other"
      BY DEF StoppedFlag, Other
    <2> HIDE DEF w
    <2>4. service = "registered" /\ looper'[x].at = w
          /\ \A y \in Servers \ {x} : looper'[y] = looper[y]
      BY <1>6, <2>1, <2>2
    <2>5. ~LocalFault' => EndsInOrder'
      <3> SUFFICES ASSUME ~LocalFault' PROVE EndsInOrder'
        OBVIOUS
      <3>1. EndsInOrder
        BY <2>1, <2>4 DEF Ends, LocalFault
      <3>2. CASE x = "local"
        BY <1>7, <2>1, <2>2, <2>4, <3>1, <3>2 DEF EndsInOrder, LocalLoopEnds
      <3>3. CASE x = "remote"
        BY <1>7, <2>1, <2>2, <2>3, <2>4, <3>1, <3>3 DEF EndsInOrder, LocalLoopEnds
      <3> QED
        BY <1>7, <3>2, <3>3
    <2> QED
      BY <2>1, <2>4, <2>5 DEF Ends
  <1>9. CASE StopOther(x)
    <2>1. /\ Alive /\ looper[x].at = "stop other"
          /\ looper' = [looper EXCEPT ![x] = At("gone")]
          /\ UNCHANGED <<service, service_stopped, faults>>
          /\ stop' = [stop EXCEPT ![Other(x)] = TRUE]
      BY <1>9 DEF StopOther, StopServer, app2app
    <2>2. service = "registered" /\ looper'[x].at = "gone"
          /\ \A y \in Servers \ {x} : looper'[y] = looper[y]
      BY <1>6, <2>1
    <2>3. ~LocalFault' => EndsInOrder'
      <3> SUFFICES ASSUME ~LocalFault' PROVE EndsInOrder'
        OBVIOUS
      <3>1. EndsInOrder
        BY <2>1, <2>2 DEF Ends, LocalFault
      <3>2. CASE x = "local"
        <4>1. stop'["local"] = stop["local"]
          BY <1>7, <2>1, <3>2 DEF Other, TypeOK
        <4> QED
          BY <1>7, <2>1, <2>2, <3>1, <3>2, <4>1 DEF EndsInOrder, LocalLoopEnds
      <3>3. CASE x = "remote"
        <4>1. stop'["local"] = TRUE
          BY <1>7, <2>1, <3>3 DEF Other, TypeOK
        <4> QED
          BY <1>7, <2>1, <2>2, <3>1, <3>3, <4>1 DEF EndsInOrder, LocalLoopEnds
      <3> QED
        BY <1>7, <3>2, <3>3
    <2> QED
      BY <2>1, <2>2, <2>3 DEF Ends
  <1>10. CASE Remove(x)
    <2>1. /\ Alive /\ looper[x].at = "remove"
          /\ looper' = [looper EXCEPT ![x] = At("gone")]
          /\ service' = "erased"
          /\ UNCHANGED <<stop, service_stopped, faults>>
      BY <1>10 DEF Remove, app2app, websocket
    <2>2. service = "registered" /\ looper'[x].at = "gone"
          /\ \A y \in Servers \ {x} : looper'[y] = looper[y]
      BY <1>6, <2>1
    <2>3. ~LocalFault' => EndsInOrder'
      <3> SUFFICES ASSUME ~LocalFault' PROVE EndsInOrder'
        OBVIOUS
      <3>1. EndsInOrder
        BY <2>1, <2>2 DEF Ends, LocalFault
      <3>2. x = "local"
        BY <1>7, <2>1, <3>1 DEF EndsInOrder
      <3> QED
        BY <1>7, <2>1, <2>2, <3>1, <3>2 DEF EndsInOrder, LocalLoopEnds
    <2> QED
      BY <2>1, <2>3 DEF Ends
  <1> QED
    BY <1>1, <1>2, <1>3, <1>4, <1>5, <1>8, <1>9, <1>10 DEF Looper

LEMMA StepEnds ==
    ASSUME TypeOK, Ends, Next
    PROVE  Ends'
  <1>1. CASE Environment
    BY <1>1, EnvironmentEnds
  <1>2. CASE Stop
    BY <1>2, EndsKept DEF Stop, websocket
  <1>3. CASE StopRemote
    <2>1. stop'["local"] = stop["local"]
      BY <1>3 DEF StopRemote, StopServer, TypeOK, Servers
    <2>2. UNCHANGED <<service_stopped, service, looper, faults>>
      BY <1>3 DEF StopRemote, app2app
    <2> QED
      BY <2>1, <2>2 DEF Ends, NotStarted, EndsInOrder, LocalFault, LocalLoopEnds
  <1>4. CASE \E x \in Servers : Looper(x)
    BY <1>4, LooperEnds
  <1> QED
    BY <1>1, <1>2, <1>3, <1>4 DEF Next
-----------------------------------------------------------------------------
LEMMA Initially ==
    Init => IInv
  <1> SUFFICES ASSUME Init PROVE IInv
    OBVIOUS
  <1>1. TypeOK
    <2>1. <<>> \in Seq(Fragments) /\ MaxFragments \in Nat
      BY BoundsAssumption
    <2>2. /\ write_queue \in [Conns -> Seq(Fragments)]
          /\ written \in [Conns -> Seq(Fragments)]
          /\ looper \in [Servers -> LooperStates]
      BY <2>1, PointTypes DEF Init
    <2>3. /\ arrivals \in Nat
          /\ waiting \in [Conns -> 0..arrivals]
          /\ sent \in [Conns -> 0..MaxFragments]
      BY <2>1 DEF Init
    <2>4. /\ paired \in [Conns -> Conns \cup {None}]
          /\ conn \in [Conns -> {"new", "open", "closing", "closed"}]
          /\ endpoint \in [Conns -> Endpoints \cup {NoEndpoint}]
          /\ stop \in [Servers -> BOOLEAN]
          /\ cancelled \in [Servers -> BOOLEAN]
      BY DEF Init
    <2> QED
      BY <2>2, <2>3, <2>4 DEF Init, TypeOK
  <1>2. \A x \in Servers : CallbackFits(x)
    BY PointTypes DEF Init, CallbackFits, Callbacks
  <1>3. NewIsUnknown /\ PairsAreMutual /\ NobodyWaitsForAWaiting
    BY DEF Init, NewIsUnknown, PairsAreMutual, NobodyWaitsForAWaiting
  <1>4. Ends
    BY DEF Init, Ends, NotStarted
  <1> QED
    BY <1>1, <1>2, <1>3, <1>4 DEF IInv

LEMMA Inductive ==
    IInv /\ [Next]_vars => IInv'
  <1> SUFFICES ASSUME IInv, [Next]_vars PROVE IInv'
    OBVIOUS
  <1>1. /\ TypeOK /\ \A x \in Servers : CallbackFits(x)
        /\ Pairing /\ Ends
    BY DEF IInv, Pairing
  <1>2. CASE Next
    <2>1. TypeOK'
      BY <1>1, <1>2, StepType
    <2>2. \A x \in Servers : CallbackFits(x)'
      BY <1>1, <1>2, StepCallbacks
    <2>3. Pairing'
      BY <1>1, <1>2, StepPairing
    <2>4. Ends'
      BY <1>1, <1>2, StepEnds
    <2> QED
      BY <2>1, <2>2, <2>3, <2>4 DEF IInv, Pairing
  <1>3. CASE UNCHANGED vars
    <2>1. UNCHANGED <<app2app, websocket, threads, service, sent, written, faults>>
      BY <1>3 DEF vars
    <2>2. TypeOK'
      BY <1>1, <2>1 DEF TypeOK, app2app, websocket, threads
    <2>3. \A x \in Servers : CallbackFits(x)'
      BY <1>1, <2>1, SameCallback DEF websocket, threads
    <2>4. Pairing'
      BY <1>1, <2>1, PairingKept DEF app2app, websocket, Stopped, IsOpen
    <2>5. Ends'
      BY <1>1, <2>1, EndsKept DEF app2app, websocket, threads
    <2> QED
      BY <2>2, <2>3, <2>4, <2>5 DEF IInv, Pairing
  <1> QED
    BY <1>2, <1>3

(* However the two loopers, the clients and the stopping thread interleave,
   every callback is where its thread left it, pairs are mutual, nobody waits
   for somebody who waits, and the ends of the loopers follow each other as
   OnServiceStopped and OnRemoteServiceStopped order them.                 *)
THEOREM Invariance == Spec => []IInv
  BY Initially, Inductive, PTL DEF Spec

(* Every variable has its type: in particular an arrival number is one that
   was given out, and a looper is at a place its thread has.               *)
THEOREM TypeCorrect == Spec => []TypeOK
  <1>1. IInv => TypeOK
    BY DEF IInv
  <1> QED
    BY <1>1, Invariance, PTL

(* OnConnection and OnDisconnected, on either thread, leave every pair mutual
   and of one endpoint, however the two threads interleave.                *)
THEOREM PairsMutual == Spec => []PairsAreMutual
  <1>1. IInv => PairsAreMutual
    BY DEF IInv
  <1> QED
    BY <1>1, Invariance, PTL

(* GetNextWaitingConnection leaves no local and remote connection of one
   endpoint waiting for each other.                                        *)
THEOREM NobodyWaits == Spec => []NobodyWaitsForAWaiting
  <1>1. IInv => NobodyWaitsForAWaiting
    BY DEF IInv
  <1> QED
    BY <1>1, Invariance, PTL

(* OnServiceStopped and OnRemoteServiceStopped let the service be erased only
   when both loopers are done, as long as the local server starts and its
   lws_service does not fail.                                              *)
THEOREM LastOneDestroys == Spec => []DestroyedByTheLast
  <1>1. IInv => DestroyedByTheLast
    <2> SUFFICES ASSUME IInv, service = "erased", ~LocalFault
                 PROVE  \A x \in Servers : looper[x].at \in {"none", "gone"}
      BY DEF DestroyedByTheLast, LocalFault
    <2>1. EndsInOrder
      BY DEF IInv, Ends
    <2> QED
      BY <2>1 DEF EndsInOrder, LocalLoopEnds, Servers
  <1> QED
    BY <1>1, Invariance, PTL
-----------------------------------------------------------------------------
(* What clients are sent.                                                  *)

(* The fragments of connection d that its looper has passed on, or dropped. *)
Relayed(d) ==
    LET x == ServerOf(d)
    IN  IF looper[x].at = "receive" /\ looper[x].conn = d THEN sent[d] - 1 ELSE sent[d]

(* Where a fragment for connection c may come from.                        *)
MaySend(f, c) ==
    /\ f \in Conns /\ conn[f] # "new"
    /\ ServerOf(f) = Other(ServerOf(c)) /\ endpoint[f] = endpoint[c]

(* Sequence s may be what connection c was sent and will be: in order, from
   the other server, nothing yet before c is paired; and while it is paired,
   the last fragment is the last its partner had relayed.                  *)
QueueFits(c, s) ==
    /\ InOrder(s)
    /\ \A i \in Told(s) : s[i] # PairingCompleted => MaySend(s[i].from, c)
    /\ conn[c] = "new" \/ waiting[c] > 0 => Told(s) = {}
    /\ ~Stopped /\ paired[c] # None =>
          /\ Told(s) # {}
          /\ \A i \in Told(s) : Told(s) \subseteq 1..i =>
                s[i] \in {PairingCompleted, Fragment(paired[c], Relayed(paired[c]))}

QueuesFit == \A c \in Conns : QueueFits(c, ForClient(c))

(* The same fragments in the same order, with other closes between them.   *)
SameTold(s, t) ==
    \E h \in [Told(t) -> Told(s)] :
        /\ \A i, j \in Told(t) : i < j <=> h[i] < h[j]
        /\ \A k \in Told(s) : \E i \in Told(t) : h[i] = k
        /\ \A i \in Told(t) : t[i] = s[h[i]]

LEMMA SameToldRefl ==
    ASSUME NEW s PROVE SameTold(s, s)
  <1> DEFINE h == [i \in Told(s) |-> i]
  <1>1. h \in [Told(s) -> Told(s)] /\ \A i \in Told(s) : h[i] = i
    OBVIOUS
  <1> HIDE DEF h
  <1> QED
    BY <1>1 DEF SameTold

(* Order, emptiness and the last fragment do not depend on the closes.     *)
LEMMA SameToldOrder ==
    ASSUME NEW s, NEW t, Len(s) \in Nat, Len(t) \in Nat, SameTold(s, t)
    PROVE  /\ InOrder(s) => InOrder(t)
           /\ Told(s) = {} <=> Told(t) = {}
           /\ \A i \in Told(t) : \E k \in Told(s) :
                 /\ t[i] = s[k]
                 /\ Told(t) \subseteq 1..i => Told(s) \subseteq 1..k
  <1> PICK h \in [Told(t) -> Told(s)] :
           /\ \A i, j \in Told(t) : i < j <=> h[i] < h[j]
           /\ \A k \in Told(s) : \E i \in Told(t) : h[i] = k
           /\ \A i \in Told(t) : t[i] = s[h[i]]
    BY DEF SameTold
  <1>1. Told(s) \subseteq Nat \ {0} /\ Told(t) \subseteq Nat \ {0}
    BY DEF Told
  <1>2. \A i \in Told(t) : h[i] \in Told(s)
    OBVIOUS
  <1>3. ASSUME NEW i \in Told(t)
        PROVE  /\ Before(t, i) = {} <=> Before(s, h[i]) = {}
               /\ \A j \in Before(t, i) : h[j] \in Before(s, h[i])
    <2>1. \A j \in Before(t, i) : h[j] \in Before(s, h[i])
      BY <1>2 DEF Before
    <2>2. ASSUME NEW k \in Before(s, h[i]) PROVE Before(t, i) # {}
      <3>1. PICK j \in Told(t) : h[j] = k
        BY <2>2 DEF Before
      <3>2. j < i
        BY <2>2, <3>1 DEF Before
      <3> QED
        BY <3>2 DEF Before
    <2> QED
      BY <2>1, <2>2
  <1>4. ASSUME NEW i \in Told(t), NEW j \in Told(t), Before(t, i) \subseteq 1..j
        PROVE  Before(s, h[i]) \subseteq 1..h[j]
    <2> SUFFICES ASSUME NEW k \in Before(s, h[i]) PROVE k \in 1..h[j]
      OBVIOUS
    <2>1. PICK g \in Told(t) : h[g] = k
      BY DEF Before
    <2>2. g < i /\ g \in Before(t, i)
      BY <2>1 DEF Before
    <2>3. ~(j < g)
      BY <1>1, <1>4, <2>2
    <2>4. ~(h[j] < h[g])
      BY <2>3
    <2> QED
      BY <1>1, <1>2, <2>1, <2>4
  <1>5. InOrder(s) => InOrder(t)
    <2> SUFFICES ASSUME InOrder(s), NEW i \in Told(t)
                 PROVE  /\ t[i] = PairingCompleted <=> Before(t, i) = {}
                        /\ \A j \in Before(t, i) :
                              t[j] # PairingCompleted /\ Before(t, i) \subseteq 1..j =>
                                  t[i] = Fragment(t[j].from, t[j].n + 1)
      BY DEF InOrder
    <2>1. t[i] = PairingCompleted <=> Before(t, i) = {}
      BY <1>2, <1>3 DEF InOrder
    <2>2. ASSUME NEW j \in Before(t, i), t[j] # PairingCompleted, Before(t, i) \subseteq 1..j
          PROVE  t[i] = Fragment(t[j].from, t[j].n + 1)
      <3>1. j \in Told(t) /\ t[j] = s[h[j]] /\ t[i] = s[h[i]]
        BY DEF Before
      <3>2. h[j] \in Before(s, h[i]) /\ Before(s, h[i]) \subseteq 1..h[j]
        BY <1>3, <1>4, <2>2, <3>1
      <3> QED
        BY <1>2, <2>2, <3>1, <3>2 DEF InOrder
    <2> QED
      BY <2>1, <2>2
  <1>6. Told(s) = {} <=> Told(t) = {}
    BY <1>2
  <1>7. ASSUME NEW i \in Told(t), Told(t) \subseteq 1..i PROVE Told(s) \subseteq 1..h[i]
    <2> SUFFICES ASSUME NEW k \in Told(s) PROVE k \in 1..h[i]
      OBVIOUS
    <2>1. PICK g \in Told(t) : h[g] = k
      OBVIOUS
    <2>2. ~(i < g)
      BY <1>1, <1>7
    <2>3. ~(h[i] < h[g])
      BY <2>2
    <2> QED
      BY <1>1, <1>2, <2>1, <2>3
  <1> QED
    BY <1>2, <1>5, <1>6, <1>7

(* A step after which a client is sent nothing more and is in no new pair. *)
LEMMA QueueKept ==
    ASSUME TypeOK, TypeOK', Stopped => Stopped',
           \A f \in Conns : conn[f] # "new" => endpoint'[f] = endpoint[f] /\ conn'[f] # "new",
           NEW c \in Conns, QueueFits(c, ForClient(c)),
           SameTold(ForClient(c), ForClient(c)'),
           conn'[c] = "new" => conn[c] = "new",
           waiting'[c] > 0 => waiting[c] > 0 \/ conn[c] = "new",
           ~Stopped' /\ paired'[c] # None =>
               paired'[c] = paired[c] /\ Relayed(paired[c])' = Relayed(paired[c])
    PROVE  QueueFits(c, ForClient(c))'
  <1> DEFINE s == ForClient(c)
             t == ForClient(c)'
  <1>1. QueueFits(c, s) /\ SameTold(s, t)
    OBVIOUS
  <1>2. Len(s) \in Nat /\ Len(t) \in Nat
    <2>1. /\ written[c] \in Seq(Fragments) /\ write_queue[c] \in Seq(Fragments)
          /\ written'[c] \in Seq(Fragments) /\ write_queue'[c] \in Seq(Fragments)
      BY DEF TypeOK
    <2> QED
      BY <2>1, ConcatProperties, LenProperties DEF ForClient
  <1>3. /\ InOrder(s) => InOrder(t)
        /\ Told(s) = {} <=> Told(t) = {}
        /\ \A i \in Told(t) : \E k \in Told(s) :
              /\ t[i] = s[k]
              /\ Told(t) \subseteq 1..i => Told(s) \subseteq 1..k
    BY <1>1, <1>2, SameToldOrder
  <1> HIDE DEF s, t
  <1>4. InOrder(t)
    BY <1>1, <1>3 DEF QueueFits
  <1>5. ASSUME NEW i \in Told(t), t[i] # PairingCompleted
        PROVE  \E f : f = t[i].from /\ MaySend(f, c)'
    <2>1. PICK k \in Told(s) : t[i] = s[k]
      BY <1>3
    <2>2. MaySend(s[k].from, c) /\ conn[c] # "new"
      BY <1>1, <1>5, <2>1 DEF QueueFits
    <2>3. PICK f : f = s[k].from
      OBVIOUS
    <2>4. MaySend(f, c)'
      BY <2>2, <2>3 DEF MaySend
    <2> QED
      BY <2>1, <2>3, <2>4
  <1>6. conn'[c] = "new" \/ waiting'[c] > 0 => Told(t) = {}
    BY <1>1, <1>3 DEF QueueFits
  <1>7. ASSUME ~Stopped', paired'[c] # None
        PROVE  /\ Told(t) # {}
               /\ \A i \in Told(t) : Told(t) \subseteq 1..i =>
                     t[i] \in {PairingCompleted, Fragment(paired[c], Relayed(paired[c]))'}
    <2>1. /\ ~Stopped /\ paired'[c] = paired[c]
          /\ Relayed(paired[c])' = Relayed(paired[c])
      BY <1>7
    <2>2. /\ Told(s) # {}
          /\ \A k \in Told(s) : Told(s) \subseteq 1..k =>
                s[k] \in {PairingCompleted, Fragment(paired[c], Relayed(paired[c]))}
      BY <1>1, <1>7, <2>1 DEF QueueFits
    <2>3. Fragment(paired[c], Relayed(paired[c]))' = Fragment(paired[c], Relayed(paired[c]))
      BY <2>1 DEF Fragment
    <2> QED
      BY <1>3, <2>2, <2>3
  <1> QED
    BY <1>4, <1>5, <1>6, <1>7 DEF QueueFits, t


(* Queues that are sent later, or grow, are one sequence with what was sent.*)
LEMMA ConcatAppend ==
    ASSUME NEW S, NEW w \in Seq(S), NEW q \in Seq(S), NEW e \in S
    PROVE  w \o Append(q, e) = Append(w \o q, e)
  <1>1. w \o q \in Seq(S) /\ <<e>> \in Seq(S)
    BY ConcatProperties
  <1>2. Append(q, e) = q \o <<e>> /\ Append(w \o q, e) = (w \o q) \o <<e>>
    BY <1>1, AppendIsConcat
  <1> QED
    BY <1>1, <1>2, ConcatAssociative

(* A close tells a client nothing.                                         *)
LEMMA CloseAdded ==
    ASSUME NEW s \in Seq(Fragments)
    PROVE  SameTold(s, Append(s, CloseFragment))
  <1> DEFINE t == Append(s, CloseFragment)
             h == [i \in Told(t) |-> i]
  <1>1. /\ Len(s) \in Nat /\ Len(t) = Len(s) + 1 /\ t[Len(s) + 1] = CloseFragment
        /\ \A i \in 1..Len(s) : t[i] = s[i]
    BY FragmentTypes, AppendProperties, LenProperties
  <1> HIDE DEF t
  <1>2. Told(t) = Told(s) /\ \A i \in Told(t) : t[i] = s[i]
    BY <1>1 DEF Told
  <1>3. h \in [Told(t) -> Told(s)] /\ \A i \in Told(t) : h[i] = i
    BY <1>2
  <1> HIDE DEF h
  <1>4. SameTold(s, t)
    BY <1>2, <1>3 DEF SameTold
  <1> QED
    BY <1>4 DEF t

(* A close is taken out.                                                   *)
LEMMA CloseCut ==
    ASSUME NEW w \in Seq(Fragments), NEW q \in Seq(Fragments), NEW k \in 0..Len(q),
           k < Len(q), q[k + 1] = CloseFragment
    PROVE  SameTold(w \o q, (w \o SubSeq(q, 1, k)) \o SubSeq(q, k + 2, Len(q)))
  <1> DEFINE a == SubSeq(q, 1, k)
             b == SubSeq(q, k + 2, Len(q))
             s == w \o q
             t == (w \o a) \o b
             n == Len(w)
             p == n + k
  <1>1. n \in Nat /\ Len(q) \in Nat /\ k \in Nat /\ \A i \in 1..Len(q) : q[i] \in Fragments
    BY LenProperties, ElementOfSeq
  <1>2. /\ a \in Seq(Fragments) /\ Len(a) = k
        /\ \A i \in 1..k : a[i] = q[i]
    <2>1. \A i \in 1..k : q[i] \in Fragments
      BY <1>1
    <2>2. /\ a \in Seq(Fragments) /\ Len(a) = IF 1 <= k THEN k - 1 + 1 ELSE 0
          /\ \A i \in 1..k - 1 + 1 : a[i] = q[1 + i - 1]
      BY <1>1, <2>1, SubSeqProperties
    <2> HIDE DEF a
    <2>3. Len(a) = k
      BY <1>1, <2>2
    <2>4. ASSUME NEW i \in 1..k PROVE a[i] = q[i]
      <3>1. i \in 1..k - 1 + 1 /\ 1 + i - 1 = i
        BY <1>1
      <3> QED
        BY <2>2, <3>1
    <2> QED
      BY <2>2, <2>3, <2>4
  <1>3. /\ b \in Seq(Fragments) /\ Len(b) = Len(q) - k - 1
        /\ \A i \in 1..Len(b) : b[i] = q[k + 1 + i]
    <2>1. \A i \in k + 2..Len(q) : q[i] \in Fragments
      BY <1>1
    <2>2. /\ b \in Seq(Fragments)
          /\ Len(b) = IF k + 2 <= Len(q) THEN Len(q) - (k + 2) + 1 ELSE 0
          /\ \A i \in 1..Len(q) - (k + 2) + 1 : b[i] = q[k + 2 + i - 1]
      BY <1>1, <2>1, SubSeqProperties
    <2> HIDE DEF b
    <2>3. Len(b) = Len(q) - k - 1
      BY <1>1, <2>2
    <2>4. ASSUME NEW i \in 1..Len(b) PROVE b[i] = q[k + 1 + i]
      <3>1. i \in 1..Len(q) - (k + 2) + 1 /\ k + 2 + i - 1 = k + 1 + i
        BY <1>1, <2>3
      <3> QED
        BY <2>2, <3>1
    <2> QED
      BY <2>2, <2>3, <2>4
  <1> HIDE DEF a, b
  <1>4. /\ w \o a \in Seq(Fragments) /\ Len(w \o a) = p
        /\ \A i \in 1..p : (w \o a)[i] = IF i <= n THEN w[i] ELSE a[i - n]
    BY <1>2, ConcatProperties
  <1>5. /\ Len(t) = p + Len(b)
        /\ \A i \in 1..p + Len(b) : t[i] = IF i <= p THEN (w \o a)[i] ELSE b[i - p]
    <2> DEFINE u == w \o a
    <2>1. u \in Seq(Fragments) /\ Len(u) = p
      BY <1>4
    <2>2. t = u \o b
      OBVIOUS
    <2> HIDE DEF u, t, p
    <2>3. /\ Len(t) = Len(u) + Len(b)
          /\ \A i \in 1..Len(u) + Len(b) :
                t[i] = IF i <= Len(u) THEN u[i] ELSE b[i - Len(u)]
      BY <1>3, <2>1, <2>2, ConcatProperties
    <2>4. /\ Len(t) = p + Len(b)
          /\ \A i \in 1..p + Len(b) : t[i] = IF i <= p THEN u[i] ELSE b[i - p]
      BY <2>1, <2>3
    <2> QED
      BY <2>4 DEF u
  <1>6. /\ Len(s) = n + Len(q)
        /\ \A i \in 1..n + Len(q) : s[i] = IF i <= n THEN w[i] ELSE q[i - n]
    <2> HIDE DEF t, p, a, b
    <2>1. /\ s \in Seq(Fragments) /\ Len(s) = Len(w) + Len(q)
          /\ \A i \in 1..Len(w) + Len(q) :
                s[i] = IF i <= Len(w) THEN w[i] ELSE q[i - Len(w)]
      BY ConcatProperties
    <2> QED
      BY <2>1
  <1> HIDE DEF s, t, n
  <1>7. Len(t) = Len(s) - 1 /\ p \in 0..Len(t) /\ Len(s) \in Nat /\ Len(t) \in Nat
        /\ s[p + 1] = CloseFragment
    <2>1. Len(t) = Len(s) - 1 /\ p \in 0..Len(t) /\ Len(s) \in Nat /\ Len(t) \in Nat
      BY <1>1, <1>3, <1>5, <1>6
    <2>2. s[p + 1] = q[p + 1 - n] /\ p + 1 - n = k + 1
      BY <1>1, <1>6
    <2> QED
      BY <2>1, <2>2
  <1>8. ASSUME NEW i \in 1..Len(t)
        PROVE  t[i] = IF i <= p THEN s[i] ELSE s[i + 1]
    <2>1. CASE i <= n
      <3>1. i <= p /\ i \in 1..p /\ i \in 1..p + Len(b) /\ i \in 1..n + Len(q)
        BY <1>1, <1>3, <2>1, <1>5
      <3>2. t[i] = (w \o a)[i] /\ s[i] = w[i] /\ (w \o a)[i] = w[i]
        BY <1>4, <1>5, <1>6, <2>1, <3>1
      <3> QED
        BY <3>1, <3>2
    <2>2. CASE n < i /\ i <= p
      <3>1. i - n \in 1..k
        BY <1>1, <2>2
      <3>2. ~(i <= n) /\ i \in 1..p /\ i \in 1..p + Len(b) /\ i \in 1..n + Len(q)
        BY <1>1, <1>3, <1>5, <2>2
      <3>3. t[i] = (w \o a)[i] /\ s[i] = q[i - n] /\ (w \o a)[i] = a[i - n]
        BY <1>4, <1>5, <1>6, <2>2, <3>2
      <3> QED
        BY <1>2, <2>2, <3>1, <3>3
    <2>3. CASE p < i
      <3>1. i - p \in 1..Len(b) /\ k + 1 + (i - p) = i + 1 - n
        BY <1>1, <1>3, <1>5, <2>3
      <3>2. t[i] = b[i - p]
        BY <1>1, <1>3, <1>5, <2>3
      <3>3. s[i + 1] = q[i + 1 - n]
        BY <1>1, <1>3, <1>5, <1>6, <2>3
      <3>4. b[i - p] = q[i + 1 - n]
        BY <1>3, <3>1
      <3>5. ~(i <= p)
        BY <1>1, <1>7, <2>3
      <3> QED
        BY <3>2, <3>3, <3>4, <3>5
    <2> QED
      BY <1>1, <1>7, <2>1, <2>2, <2>3
  <1> HIDE DEF p
  <1> DEFINE h == [i \in Told(t) |-> IF i <= p THEN i ELSE i + 1]
  <1>9. \A i \in Told(t) : h[i] = IF i <= p THEN i ELSE i + 1
    OBVIOUS
  <1> HIDE DEF h
  <1>10. ASSUME NEW i \in Told(t) PROVE h[i] \in Told(s) /\ t[i] = s[h[i]]
    <2>1. i \in 1..Len(t) /\ t[i] # CloseFragment
      BY DEF Told
    <2>2. h[i] \in 1..Len(s) /\ t[i] = s[h[i]]
      BY <1>7, <1>8, <1>9, <2>1
    <2> QED
      BY <2>1, <2>2 DEF Told
  <1>11. h \in [Told(t) -> Told(s)]
    <2>1. \A i \in Told(t) : (IF i <= p THEN i ELSE i + 1) \in Told(s)
      BY <1>9, <1>10
    <2> QED
      BY <2>1 DEF h
  <1>12. \A i, j \in Told(t) : i < j <=> h[i] < h[j]
    <2>1. Told(t) \subseteq Nat
      BY DEF Told
    <2>2. p \in Nat
      BY <1>7
    <2> QED
      BY <1>9, <2>1, <2>2
  <1>13. ASSUME NEW j \in Told(s) PROVE \E i \in Told(t) : h[i] = j
    <2> DEFINE i == IF j <= p THEN j ELSE j - 1
    <2>1. j \in 1..Len(s) /\ s[j] # CloseFragment /\ j # p + 1
      BY <1>7 DEF Told
    <2>2. i \in 1..Len(t) /\ (IF i <= p THEN i ELSE i + 1) = j
      BY <1>7, <2>1
    <2>3. t[i] = s[j]
      BY <1>8, <2>2
    <2>4. i \in Told(t)
      BY <2>1, <2>2, <2>3 DEF Told
    <2>5. h[i] = j
      BY <1>9, <2>2, <2>4
    <2> QED
      BY <2>4, <2>5
  <1>14. SameTold(s, t)
    BY <1>10, <1>11, <1>12, <1>13 DEF SameTold
  <1> QED
    BY <1>14 DEF s, t, a, b

(* A fragment that tells something is added.                               *)
LEMMA ToldMore ==
    ASSUME NEW s \in Seq(Fragments), NEW e \in Fragments, e # CloseFragment,
           InOrder(s), e = PairingCompleted <=> Told(s) = {},
           \A j \in Told(s) : s[j] # PairingCompleted /\ Told(s) \subseteq 1..j =>
               e = Fragment(s[j].from, s[j].n + 1)
    PROVE  LET t == Append(s, e)
           IN  /\ InOrder(t) /\ Told(t) # {}
               /\ \A i \in Told(t) : t[i] = e \/ (i \in Told(s) /\ t[i] = s[i])
               /\ \A i \in Told(t) : Told(t) \subseteq 1..i => t[i] = e
  <1> DEFINE t == Append(s, e)
             n == Len(s)
  <1>1. /\ n \in Nat /\ Len(t) = n + 1 /\ t[n + 1] = e
        /\ \A i \in 1..n : t[i] = s[i]
    BY AppendProperties, LenProperties
  <1> HIDE DEF t
  <1>2. Told(t) = Told(s) \cup {n + 1} /\ Told(s) \subseteq 1..n
        /\ \A i \in Told(s) : t[i] = s[i]
    BY <1>1 DEF Told
  <1>3. /\ \A i \in Told(s) : Before(t, i) = Before(s, i)
        /\ Before(t, n + 1) = Told(s)
    BY <1>1, <1>2 DEF Before
  <1>4. \A i \in Told(s) : Before(s, i) \subseteq Told(s)
    BY DEF Before
  <1> HIDE DEF n
  <1>5. InOrder(t)
    <2> SUFFICES ASSUME NEW i \in Told(t)
                 PROVE  /\ t[i] = PairingCompleted <=> Before(t, i) = {}
                        /\ \A j \in Before(t, i) :
                              t[j] # PairingCompleted /\ Before(t, i) \subseteq 1..j =>
                                  t[i] = Fragment(t[j].from, t[j].n + 1)
      BY DEF InOrder
    <2>1. CASE i \in Told(s)
      <3>1. t[i] = s[i] /\ Before(t, i) = Before(s, i)
            /\ \A j \in Before(s, i) : t[j] = s[j]
        BY <1>2, <1>3, <1>4, <2>1
      <3> QED
        BY <2>1, <3>1 DEF InOrder
    <2>2. CASE i = n + 1
      BY <1>1, <1>2, <1>3, <2>2
    <2> QED
      BY <1>2, <2>1, <2>2
  <1>6. ASSUME NEW i \in Told(t), Told(t) \subseteq 1..i PROVE t[i] = e
    <2>1. n + 1 \in 1..i /\ (i \in 1..n \/ i = n + 1)
      BY <1>2, <1>6
    <2>2. i = n + 1
      BY <1>1, <2>1
    <2> QED
      BY <1>1, <2>2
  <1>7. InOrder(t) /\ Told(t) # {}
        /\ \A i \in Told(t) : t[i] = e \/ (i \in Told(s) /\ t[i] = s[i])
    BY <1>1, <1>2, <1>5
  <1> QED
    BY <1>6, <1>7 DEF t

(* A queue that stays as it is, or gets a close.                           *)
LEMMA CloseQueued ==
    ASSUME TypeOK, NEW c \in Conns, written'[c] = written[c],
           write_queue'[c] \in {write_queue[c], Append(write_queue[c], CloseFragment)}
    PROVE  SameTold(ForClient(c), ForClient(c)')
  <1>1. written[c] \in Seq(Fragments) /\ write_queue[c] \in Seq(Fragments)
    BY DEF TypeOK
  <1>2. CASE write_queue'[c] = write_queue[c]
    <2>1. ForClient(c)' = ForClient(c)
      BY <1>2 DEF ForClient
    <2> QED
      BY <2>1, SameToldRefl
  <1>3. CASE write_queue'[c] = Append(write_queue[c], CloseFragment)
    <2> DEFINE w == written[c]
               q == write_queue[c]
    <2>0. w \o Append(q, CloseFragment) = Append(w \o q, CloseFragment)
      <3> HIDE DEF w, q
      <3>1. w \in Seq(Fragments) /\ q \in Seq(Fragments) /\ CloseFragment \in Fragments
        BY <1>1, FragmentTypes DEF w, q
      <3> QED
        BY <3>1, ConcatAppend
    <2>1. ForClient(c)' = Append(ForClient(c), CloseFragment)
      BY <1>3, <2>0 DEF ForClient
    <2>2. ForClient(c) \in Seq(Fragments)
      BY <1>1, ConcatProperties DEF ForClient
    <2> QED
      BY <2>1, <2>2, CloseAdded
  <1> QED
    BY <1>2, <1>3

(* StopServer adds closes.                                                 *)
LEMMA StopServerTells ==
    ASSUME TypeOK, NEW x \in Servers, StopServer(x), written' = written, NEW c \in Conns
    PROVE  SameTold(ForClient(c), ForClient(c)')
  <1>1. write_queue'[c] \in {write_queue[c], Append(write_queue[c], CloseFragment)}
    BY DEF StopServer
  <1> QED
    BY <1>1, CloseQueued

(* LWS_CALLBACK_SERVER_WRITEABLE sends the queue, or cuts it at a close.   *)
LEMMA WritableTells ==
    ASSUME TypeOK, NEW c \in Conns, Writable(c), NEW e \in Conns
    PROVE  SameTold(ForClient(e), ForClient(e)')
  <1> DEFINE w == written[c]
             q == write_queue[c]
             closeAt == {i \in DOMAIN q : q[i] = CloseFragment}
             last == IF closeAt = {} THEN Len(q)
                     ELSE (CHOOSE i \in closeAt : \A j \in closeAt : i <= j) - 1
  <1>1. w \in Seq(Fragments) /\ q \in Seq(Fragments)
    BY DEF TypeOK
  <1>2. Len(q) \in Nat /\ DOMAIN q = 1..Len(q)
    BY <1>1, LenProperties
  <1>3. /\ written' = [written EXCEPT ![c] = w \o SubSeq(q, 1, last)]
        /\ write_queue' =
             [write_queue EXCEPT ![c] = IF closeAt = {} THEN <<>>
                                        ELSE SubSeq(q, last + 2, Len(q))]
    BY DEF Writable, TypeOK
  <1>4. CASE e # c
    <2>1. written'[e] = written[e] /\ write_queue'[e] = write_queue[e]
      BY <1>3, <1>4 DEF TypeOK
    <2> QED
      BY <2>1, CloseQueued
  <1>5. CASE e = c /\ closeAt = {}
    <2>1. last = Len(q)
      BY <1>5
    <2>2. written'[c] = w \o SubSeq(q, 1, Len(q)) /\ write_queue'[c] = <<>>
      BY <1>3, <1>5, <2>1 DEF TypeOK
    <2>3. SubSeq(q, 1, Len(q)) = q
      BY <1>1, SubSeqFull
    <2>4. w \o q \in Seq(Fragments) /\ (w \o q) \o <<>> = w \o q
      BY <1>1, ConcatProperties, ConcatEmptySeq
    <2>5. ForClient(c)' = ForClient(c)
      BY <2>2, <2>3, <2>4 DEF ForClient
    <2> QED
      BY <1>5, <2>5, SameToldRefl
  <1>6. CASE e = c /\ closeAt # {}
    <2> DEFINE first == CHOOSE i \in closeAt : \A j \in closeAt : i <= j
    <2>1. closeAt \in SUBSET Nat
      BY <1>2
    <2>2. \E i \in closeAt : \A j \in closeAt : i <= j
      BY <1>6, <2>1, FirstOne
    <2>3. first \in 1..Len(q) /\ q[first] = CloseFragment
      BY <1>2, <2>2
    <2>4. last = first - 1
      BY <1>6
    <2>5. /\ written'[c] = w \o SubSeq(q, 1, last)
          /\ write_queue'[c] = SubSeq(q, last + 2, Len(q))
      BY <1>3, <1>6 DEF TypeOK
    <2> HIDE DEF first, last, closeAt, w, q
    <2>6. last \in 0..Len(q) /\ last < Len(q) /\ q[last + 1] = CloseFragment
      BY <1>2, <2>3, <2>4
    <2>7. SameTold(w \o q, (w \o SubSeq(q, 1, last)) \o SubSeq(q, last + 2, Len(q)))
      BY <1>1, <2>6, CloseCut
    <2>8. ForClient(c) = w \o q
          /\ ForClient(c)' = (w \o SubSeq(q, 1, last)) \o SubSeq(q, last + 2, Len(q))
      BY <2>5 DEF ForClient, w, q
    <2> QED
      BY <1>6, <2>7, <2>8
  <1> QED
    BY <1>4, <1>5, <1>6

LEMMA PairedType ==
    ASSUME TypeOK, NEW c \in Conns, paired[c] # None
    PROVE  paired[c] \in Conns
  BY DEF TypeOK

(* Only the callback of a fragment changes what was relayed.               *)
LEMMA RelayedSame ==
    ASSUME NEW d \in Conns, sent'[d] = sent[d],
           LET x == ServerOf(d)
           IN  looper'[x] = looper[x] \/ "receive" \notin {looper[x].at, looper'[x].at}
    PROVE  Relayed(d)' = Relayed(d)
  BY DEF Relayed

(* What most steps leave of a connection: it is paired with nobody new, waits
   only if it did or is new, and keeps its endpoint once it is known.      *)
Undisturbed(c) ==
    /\ conn'[c] = "new" => conn[c] = "new"
    /\ conn[c] # "new" => endpoint'[c] = endpoint[c] /\ conn'[c] # "new"
    /\ waiting'[c] > 0 => waiting[c] > 0 \/ conn[c] = "new"
    /\ ~Stopped' /\ paired'[c] # None => paired'[c] = paired[c]

LEMMA QuietStep ==
    ASSUME TypeOK, TypeOK', QueuesFit, Stopped => Stopped', sent' = sent,
           \A x \in Servers : \/ looper'[x] = looper[x]
                              \/ "receive" \notin {looper[x].at, looper'[x].at},
           \A c \in Conns : Undisturbed(c) /\ SameTold(ForClient(c), ForClient(c)')
    PROVE  QueuesFit'
  <1>1. \A d \in Conns : Relayed(d)' = Relayed(d)
    BY RelayedSame, Sides
  <1> SUFFICES ASSUME NEW c \in Conns PROVE QueueFits(c, ForClient(c))'
    BY DEF QueuesFit
  <1>2. ASSUME ~Stopped', paired'[c] # None
        PROVE  paired'[c] = paired[c] /\ Relayed(paired[c])' = Relayed(paired[c])
    <2>1. paired'[c] = paired[c]
      BY <1>2 DEF Undisturbed
    <2>2. paired[c] \in Conns
      BY <1>2, <2>1, PairedType
    <2> QED
      BY <1>1, <2>1, <2>2
  <1>3. QueueFits(c, ForClient(c))
    BY DEF QueuesFit
  <1> QED
    BY <1>2, <1>3, QueueKept DEF Undisturbed

(* A step that leaves queues, connections and pairs alone.                 *)
LEMMA NothingTold ==
    ASSUME TypeOK, TypeOK', QueuesFit, Stopped => Stopped', sent' = sent,
           UNCHANGED <<waiting, paired, conn, endpoint, write_queue, written>>,
           \A x \in Servers : \/ looper'[x] = looper[x]
                              \/ "receive" \notin {looper[x].at, looper'[x].at}
    PROVE  QueuesFit'
  <1>1. \A c \in Conns : Undisturbed(c) /\ SameTold(ForClient(c), ForClient(c)')
    BY CloseQueued DEF Undisturbed
  <1> QED
    BY <1>1, QuietStep

(* One looper goes from a place to another.                                *)
LEMMA OneLooperMoves ==
    ASSUME TypeOK, NEW x \in Servers, NEW place,
           looper' = [looper EXCEPT ![x] = place],
           looper[x].at # "receive", place.at # "receive"
    PROVE  \A y \in Servers : \/ looper'[y] = looper[y]
                              \/ "receive" \notin {looper[y].at, looper'[y].at}
  <1>1. looper'[x] = place /\ \A y \in Servers \ {x} : looper'[y] = looper[y]
    BY DEF TypeOK
  <1> QED
    BY <1>1

LEMMA CallbackLeft ==
    ASSUME TypeOK, NEW x \in Servers, NEW open, LeaveCallback(x, open),
           looper[x].at # "receive"
    PROVE  \A y \in Servers : \/ looper'[y] = looper[y]
                              \/ "receive" \notin {looper[y].at, looper'[y].at}
  <1> DEFINE place == LoopTest(x, open)
  <1>1. looper' = [looper EXCEPT ![x] = place] /\ place.at # "receive"
    BY PointTypes DEF LeaveCallback
  <1> HIDE DEF place
  <1> QED
    BY <1>1, OneLooperMoves

(* A fragment of client c is received: none of it was relayed yet.         *)
LEMMA SentQueues ==
    ASSUME TypeOK, TypeOK', QueuesFit, NEW c \in Conns, ClientSends(c)
    PROVE  QueuesFit'
  <1> DEFINE x == ServerOf(c)
  <1>1. /\ UNCHANGED <<app2app, websocket, written>> /\ Stopped' = Stopped
        /\ looper[x].at = "service"
        /\ looper' = [looper EXCEPT ![x] = [at |-> "receive", conn |-> c]]
        /\ sent' = [sent EXCEPT ![c] = sent[c] + 1]
    BY DEF ClientSends, EnterCallback, app2app, Stopped
  <1>2. x \in Servers /\ sent[c] \in Nat
    <2>1. sent[c] \in 0..MaxFragments /\ MaxFragments \in Nat
      BY BoundsAssumption DEF TypeOK
    <2> QED
      BY <2>1, Sides
  <1>3. ASSUME NEW d \in Conns PROVE Relayed(d)' = Relayed(d)
    <2>1. ServerOf(d) \in Servers
      BY Sides
    <2>2. CASE d = c
      <3>1. looper'[x].at = "receive" /\ looper'[x].conn = c /\ sent'[c] = sent[c] + 1
        BY <1>1, <1>2 DEF TypeOK
      <3>2. Relayed(c)' = sent'[c] - 1
        BY <3>1 DEF Relayed
      <3>3. Relayed(c) = sent[c]
        BY <1>1 DEF Relayed
      <3> QED
        BY <1>2, <2>2, <3>1, <3>2, <3>3
    <2>3. CASE d # c /\ ServerOf(d) = x
      <3>1. looper'[x].conn = c /\ sent'[d] = sent[d]
        BY <1>1, <1>2, <2>3 DEF TypeOK
      <3> QED
        BY <1>1, <2>3, <3>1 DEF Relayed
    <2>4. CASE ServerOf(d) # x
      <3>1. looper'[ServerOf(d)] = looper[ServerOf(d)] /\ sent'[d] = sent[d]
        BY <1>1, <2>1, <2>4 DEF TypeOK
      <3> QED
        BY <3>1, RelayedSame
    <2> QED
      BY <2>2, <2>3, <2>4
  <1> SUFFICES ASSUME NEW e \in Conns PROVE QueueFits(e, ForClient(e))'
    BY DEF QueuesFit
  <1>4. QueueFits(e, ForClient(e))
    BY DEF QueuesFit
  <1>5. SameTold(ForClient(e), ForClient(e)')
    BY <1>1, CloseQueued DEF websocket
  <1>6. UNCHANGED <<conn, endpoint, waiting, paired>>
    BY <1>1 DEF websocket, app2app
  <1>7. paired[e] # None => Relayed(paired[e])' = Relayed(paired[e])
    BY <1>3, <1>6, PairedType
  <1>8. /\ Stopped => Stopped'
        /\ \A f \in Conns :
              conn[f] # "new" => endpoint'[f] = endpoint[f] /\ conn'[f] # "new"
        /\ conn'[e] = "new" => conn[e] = "new"
        /\ waiting'[e] > 0 => waiting[e] > 0 \/ conn[e] = "new"
        /\ ~Stopped' /\ paired'[e] # None =>
              paired'[e] = paired[e] /\ Relayed(paired[e])' = Relayed(paired[e])
    BY <1>1, <1>6, <1>7
  <1> QED
    BY <1>4, <1>5, <1>8, QueueKept

LEMMA EnvironmentQueues ==
    ASSUME TypeOK, TypeOK', QueuesFit, Ends, Environment
    PROVE  QueuesFit'
  <1>1. ASSUME NEW failed, StartApp2AppService(failed) PROVE QueuesFit'
    <2>1. \A x \in Servers : looper[x] = At("none")
      BY <1>1 DEF Ends, NotStarted, StartApp2AppService
    <2>2. \A x \in Servers : looper'[x] \in {At("none"), At("service")}
      BY <1>1, <2>1 DEF StartApp2AppService
    <2>3. \A x \in Servers : "receive" \notin {looper[x].at, looper'[x].at}
      BY <2>1, <2>2, PointTypes
    <2>4. /\ Stopped' = Stopped /\ sent' = sent
          /\ UNCHANGED <<waiting, paired, conn, endpoint, write_queue, written>>
      BY <1>1 DEF StartApp2AppService, app2app, Stopped
    <2> QED
      BY <2>3, <2>4, NothingTold
  <1>2. ASSUME NEW c \in Conns, NEW e, ClientConnects(c, e) PROVE QueuesFit'
    <2> DEFINE place == [at |-> "established", conn |-> c]
    <2>1. /\ UNCHANGED <<app2app, conn, write_queue, written, sent>> /\ Stopped' = Stopped
          /\ conn[c] = "new" /\ endpoint' = [endpoint EXCEPT ![c] = e]
          /\ looper[ServerOf(c)].at # "receive" /\ place.at # "receive"
          /\ looper' = [looper EXCEPT ![ServerOf(c)] = place]
      BY <1>2 DEF ClientConnects, EnterCallback, app2app, Stopped
    <2> HIDE DEF place
    <2>2. \A y \in Servers : \/ looper'[y] = looper[y]
                             \/ "receive" \notin {looper[y].at, looper'[y].at}
      BY <2>1, OneLooperMoves, Sides
    <2>3. \A f \in Conns : f # c => endpoint'[f] = endpoint[f]
      BY <2>1 DEF TypeOK
    <2>4. \A f \in Conns : Undisturbed(f)
      BY <2>1, <2>3 DEF Undisturbed, app2app
    <2>5. \A f \in Conns : SameTold(ForClient(f), ForClient(f)')
      BY <2>1, CloseQueued
    <2> QED
      BY <2>1, <2>2, <2>4, <2>5, QuietStep
  <1>3. ASSUME NEW c \in Conns, ClientSends(c) PROVE QueuesFit'
    BY <1>3, SentQueues
  <1>4. ASSUME NEW c \in Conns, ClientLeaves(c) PROVE QueuesFit'
    <2> DEFINE place == [at |-> "closed", conn |-> c]
    <2>1. /\ UNCHANGED <<app2app, websocket, written, sent>> /\ Stopped' = Stopped
          /\ looper[ServerOf(c)].at # "receive" /\ place.at # "receive"
          /\ looper' = [looper EXCEPT ![ServerOf(c)] = place]
      BY <1>4 DEF ClientLeaves, EnterCallback, app2app, Stopped
    <2> HIDE DEF place
    <2>2. \A y \in Servers : \/ looper'[y] = looper[y]
                             \/ "receive" \notin {looper[y].at, looper'[y].at}
      BY <2>1, OneLooperMoves, Sides
    <2> QED
      BY <2>1, <2>2, NothingTold DEF app2app, websocket
  <1>5. ASSUME NEW x \in Servers, ServiceFails(x) PROVE QueuesFit'
    <2>1. /\ UNCHANGED <<app2app, endpoint, write_queue, written, sent>>
          /\ Stopped' = Stopped
          /\ conn' = [c \in Conns |-> IF c \in OpenClients(x) THEN "closed" ELSE conn[c]]
          /\ looper[x].at # "receive" /\ At("ended").at # "receive"
          /\ looper' = [looper EXCEPT ![x] = At("ended")]
      BY <1>5, PointTypes DEF ServiceFails, app2app, Stopped
    <2>2. \A y \in Servers : \/ looper'[y] = looper[y]
                             \/ "receive" \notin {looper[y].at, looper'[y].at}
      BY <2>1, OneLooperMoves
    <2>3. \A f \in Conns : Undisturbed(f)
      BY <2>1 DEF Undisturbed, app2app, OpenClients
    <2>4. \A f \in Conns : SameTold(ForClient(f), ForClient(f)')
      BY <2>1, CloseQueued
    <2> QED
      BY <2>1, <2>2, <2>3, <2>4, QuietStep
  <1>6. ASSUME StopService PROVE QueuesFit'
    BY <1>6, NothingTold DEF StopService, app2app, websocket, Stopped
  <1> QED
    BY <1>1, <1>2, <1>3, <1>4, <1>5, <1>6 DEF Environment

(* One queue gets a fragment.                                              *)
LEMMA QueueTypes ==
    ASSUME TypeOK
    PROVE  /\ write_queue \in [Conns -> Seq(Fragments)]
           /\ written \in [Conns -> Seq(Fragments)]
  BY DEF TypeOK

(* OnConnection and OnRemoteConnection that find a partner: both are told so,
   and they were told nothing before.                                      *)
LEMMA PairConnectionQueues ==
    ASSUME TypeOK, TypeOK', Pairing, QueuesFit, NEW c \in Conns, conn[c] = "new",
           NEW d \in ClientsOf(Other(ServerOf(c))), PairConnection(c, d)
    PROVE  QueuesFit'
  <1>1. /\ ~Stopped' /\ ~Stopped /\ sent' = sent /\ endpoint' = endpoint
        /\ written' = written
        /\ waiting' = [waiting EXCEPT ![d] = 0]
        /\ paired' = [paired EXCEPT ![c] = d, ![d] = c]
        /\ conn' = [conn EXCEPT ![c] = "open"]
        /\ looper[ServerOf(c)].at # "receive"
        /\ LeaveCallback(ServerOf(c), {c})
    BY DEF PairConnection, InCallback, Stopped
  <1>2. d \in Conns /\ d # c /\ ServerOf(c) \in Servers
    BY Sides
  <1>3. waiting[d] > 0 /\ waiting[c] = 0 /\ conn[d] # "new"
    BY <1>2 DEF PairConnection, IsNextWaiting, Candidates, Pairing, NewIsUnknown
  <1>4. write_queue' = [write_queue EXCEPT
                          ![c] = Append(write_queue[c], PairingCompleted),
                          ![d] = Append(write_queue[d], PairingCompleted)]
    BY <1>2 DEF PairConnection, TypeOK
  <1>5. \A e \in Conns : Relayed(e)' = Relayed(e)
    BY <1>1, <1>2, CallbackLeft, RelayedSame, Sides
  <1>6. /\ conn'[c] = "open" /\ conn'[d] = conn[d] /\ waiting'[c] = 0 /\ waiting'[d] = 0
        /\ \A f \in Conns \ {c, d} :
              /\ paired'[f] = paired[f] /\ waiting'[f] = waiting[f]
              /\ conn'[f] = conn[f] /\ write_queue'[f] = write_queue[f]
    <2>1. /\ waiting \in [Conns -> 0..arrivals]
          /\ paired \in [Conns -> Conns \cup {None}]
          /\ conn \in [Conns -> {"new", "open", "closing", "closed"}]
      BY DEF TypeOK
    <2>2. /\ conn'[c] = "open" /\ conn'[d] = conn[d]
          /\ \A f \in Conns \ {c, d} : conn'[f] = conn[f]
      BY <1>1, <1>2, <2>1
    <2>3. /\ waiting'[c] = 0 /\ waiting'[d] = 0
          /\ \A f \in Conns \ {c, d} : waiting'[f] = waiting[f]
      BY <1>1, <1>2, <1>3, <2>1
    <2>4. \A f \in Conns \ {c, d} : paired'[f] = paired[f]
      BY <1>1, <2>1
    <2>5. \A f \in Conns \ {c, d} : write_queue'[f] = write_queue[f]
      BY <1>4, QueueTypes
    <2> QED
      BY <2>2, <2>3, <2>4, <2>5
  <1>7. ASSUME NEW e \in {c, d} PROVE QueueFits(e, ForClient(e))'
    <2>a. PICK s : s = ForClient(e)
      OBVIOUS
    <2>b. PICK t : t = Append(s, PairingCompleted)
      OBVIOUS
    <2>1. QueueFits(e, s) /\ Told(s) = {}
      BY <1>2, <1>3, <1>7, <2>a DEF QueuesFit, QueueFits
    <2>2. s \in Seq(Fragments) /\ ForClient(e)' = t
      <3> DEFINE w == written[e]
                 q == write_queue[e]
      <3>1. w \in Seq(Fragments) /\ q \in Seq(Fragments)
        BY <1>2, <1>7 DEF TypeOK
      <3>2. written'[e] = w /\ write_queue'[e] = Append(q, PairingCompleted)
        BY <1>1, <1>2, <1>4, <1>7, QueueTypes
      <3> HIDE DEF w, q
      <3>3. w \o q \in Seq(Fragments)
            /\ w \o Append(q, PairingCompleted) = Append(w \o q, PairingCompleted)
        BY <3>1, ConcatProperties, ConcatAppend, FragmentTypes
      <3>4. ForClient(e) = w \o q /\ ForClient(e)' = w \o Append(q, PairingCompleted)
        BY <3>2 DEF ForClient, w, q
      <3> QED
        BY <2>a, <2>b, <3>3, <3>4
    <2>3. PairingCompleted # CloseFragment /\ PairingCompleted \in Fragments
      BY FragmentTypes DEF PairingCompleted, CloseFragment
    <2>4. /\ InOrder(t) /\ Told(t) # {}
          /\ \A i \in Told(t) : t[i] = PairingCompleted \/ (i \in Told(s) /\ t[i] = s[i])
      <3>1. InOrder(s)
        BY <2>1 DEF QueueFits
      <3>2. /\ s \in Seq(Fragments)
            /\ PairingCompleted = PairingCompleted <=> Told(s) = {}
            /\ \A j \in Told(s) : s[j] # PairingCompleted /\ Told(s) \subseteq 1..j =>
                  PairingCompleted = Fragment(s[j].from, s[j].n + 1)
        BY <2>1, <2>2
      <3> QED
        BY <2>3, <2>b, <3>1, <3>2, ToldMore
    <2>5. \A i \in Told(t) : t[i] = PairingCompleted
      BY <2>1, <2>4
    <2>6. conn'[e] # "new" /\ ~(waiting'[e] > 0)
      BY <1>3, <1>6, <1>7
    <2> QED
      BY <2>2, <2>4, <2>5, <2>6 DEF QueueFits
  <1>8. ASSUME NEW e \in Conns \ {c, d} PROVE QueueFits(e, ForClient(e))'
    <2>1. QueueFits(e, ForClient(e))
      BY DEF QueuesFit
    <2>2. SameTold(ForClient(e), ForClient(e)')
      BY <1>1, <1>6, CloseQueued
    <2>3. paired'[e] # None => Relayed(paired[e])' = Relayed(paired[e])
      BY <1>5, <1>6, PairedType
    <2>4. \A f \in Conns :
              conn[f] # "new" => endpoint'[f] = endpoint[f] /\ conn'[f] # "new"
      BY <1>1, <1>6
    <2>5. /\ Stopped => Stopped'
          /\ conn'[e] = "new" => conn[e] = "new"
          /\ waiting'[e] > 0 => waiting[e] > 0 \/ conn[e] = "new"
          /\ ~Stopped' /\ paired'[e] # None =>
                paired'[e] = paired[e] /\ Relayed(paired[e])' = Relayed(paired[e])
      BY <1>1, <1>6, <2>3
    <2> QED
      BY <2>1, <2>2, <2>4, <2>5, QueueKept
  <1> QED
    BY <1>7, <1>8 DEF QueuesFit

(* OnFragmentReceived and OnRemoteFragmentReceived: the fragment after the
   last that was relayed is the last now.                                  *)
LEMMA FragmentReceivedQueues ==
    ASSUME TypeOK, TypeOK', Pairing, QueuesFit, NEW x \in Servers, CallbackFits(x),
           FragmentReceived(x)
    PROVE  QueuesFit'
  <1>a. PICK c : c = looper[x].conn
    OBVIOUS
  <1>b. PICK d : d = paired[c]
    OBVIOUS
  <1>c. PICK e : e = Fragment(c, sent[c])
    OBVIOUS
  <1>1. /\ looper[x].at = "receive" /\ LeaveCallback(x, {c})
        /\ UNCHANGED <<waiting, paired, conn, endpoint, sent, written>>
        /\ Stopped' = Stopped
    BY <1>a DEF FragmentReceived, InCallback, app2app, Stopped
  <1>2. c \in Conns /\ ServerOf(c) = x /\ conn[c] = "open" /\ sent[c] \in 1..MaxFragments
    <2>1. c \in ClientsOf(x) /\ conn[c] = "open" /\ sent[c] > 0
      BY <1>1, <1>a DEF CallbackFits, Callbacks
    <2>2. c \in Conns /\ ServerOf(c) = x
      BY <2>1, Sides
    <2>3. sent[c] \in 0..MaxFragments /\ MaxFragments \in Nat
      BY <2>2, BoundsAssumption DEF TypeOK
    <2> QED
      BY <2>1, <2>2, <2>3
  <1>3. looper'[x].at # "receive" /\ \A y \in Servers \ {x} : looper'[y] = looper[y]
    <2> DEFINE place == LoopTest(x, {c})
    <2>1. looper' = [looper EXCEPT ![x] = place] /\ place.at # "receive"
      BY <1>1, PointTypes DEF LeaveCallback
    <2> HIDE DEF place
    <2> QED
      BY <2>1 DEF TypeOK
  <1>4. Relayed(c) = sent[c] - 1 /\ Relayed(c)' = sent[c]
    BY <1>1, <1>2, <1>3, <1>a DEF Relayed
  <1>5. \A f \in Conns : f # c => Relayed(f)' = Relayed(f)
    <2> SUFFICES ASSUME NEW f \in Conns, f # c PROVE Relayed(f)' = Relayed(f)
      OBVIOUS
    <2>1. CASE ServerOf(f) = x
      BY <1>1, <1>3, <1>a, <2>1 DEF Relayed
    <2>2. CASE ServerOf(f) # x
      <3>1. looper'[ServerOf(f)] = looper[ServerOf(f)]
        BY <1>3, <2>2, Sides
      <3> QED
        BY <1>1, <3>1, RelayedSame
    <2> QED
      BY <2>1, <2>2
  <1>6. ASSUME NEW f \in Conns, write_queue'[f] = write_queue[f],
               ~Stopped /\ paired[f] # None => paired[f] # c
        PROVE  QueueFits(f, ForClient(f))'
    <2>1. QueueFits(f, ForClient(f))
      BY DEF QueuesFit
    <2>2. SameTold(ForClient(f), ForClient(f)')
      BY <1>1, <1>6, CloseQueued
    <2>3. ~Stopped' /\ paired'[f] # None => Relayed(paired[f])' = Relayed(paired[f])
      BY <1>1, <1>5, <1>6, PairedType
    <2>4. /\ Stopped => Stopped'
          /\ \A g \in Conns :
                conn[g] # "new" => endpoint'[g] = endpoint[g] /\ conn'[g] # "new"
          /\ conn'[f] = "new" => conn[f] = "new"
          /\ waiting'[f] > 0 => waiting[f] > 0 \/ conn[f] = "new"
          /\ ~Stopped' /\ paired'[f] # None =>
                paired'[f] = paired[f] /\ Relayed(paired[f])' = Relayed(paired[f])
      BY <1>1, <2>3
    <2> QED
      BY <2>1, <2>2, <2>4, QueueKept
  <1>7. CASE ~(~Stopped /\ d # None)
    <2>1. write_queue' = write_queue
      BY <1>7, <1>a, <1>b DEF FragmentReceived
    <2>2. \A f \in Conns : ~Stopped => paired[f] # c
      BY <1>2, <1>7, <1>b, OnlyPairsArePaired DEF Pairing
    <2> QED
      BY <1>6, <2>1, <2>2 DEF QueuesFit
  <1>8. CASE ~Stopped /\ d # None
    <2>1. write_queue' = [write_queue EXCEPT ![d] = Append(write_queue[d], e)]
      BY <1>8, <1>a, <1>b, <1>c DEF FragmentReceived
    <2>2. /\ d \in Conns /\ paired[d] = c /\ ServerOf(d) = Other(ServerOf(c))
          /\ endpoint[d] = endpoint[c] /\ ServerOf(c) = Other(ServerOf(d))
      <3>1. d \in Conns
        BY <1>2, <1>8, <1>b, PairedType
      <3>2. paired[d] = c /\ ServerOf(d) = Other(ServerOf(c)) /\ endpoint[d] = endpoint[c]
        BY <1>2, <1>8, <1>b DEF Pairing, PairsAreMutual
      <3> QED
        BY <1>2, <3>1, <3>2, Sides
    <2>3. ASSUME NEW f \in Conns, f # d PROVE QueueFits(f, ForClient(f))'
      <3>1. write_queue'[f] = write_queue[f]
        BY <2>1, <2>3 DEF TypeOK
      <3>2. paired[f] # None => paired[f] # c
        BY <1>8, <1>b, <2>3 DEF Pairing, PairsAreMutual
      <3> QED
        BY <1>6, <3>1, <3>2
    <2>4. QueueFits(d, ForClient(d))'
      <3>a. PICK s : s = ForClient(d)
        OBVIOUS
      <3>b. PICK t : t = Append(s, e)
        OBVIOUS
      <3>1. e \in Fragments
        BY <1>2, <1>c, FragmentTypes
      <3>2. e # CloseFragment /\ e # PairingCompleted
        BY <1>2, <1>c, ConnsAssumption DEF Fragment, CloseFragment, PairingCompleted
      <3>3. s \in Seq(Fragments) /\ ForClient(d)' = t
        <4> DEFINE w == written[d]
                   q == write_queue[d]
        <4>1. w \in Seq(Fragments) /\ q \in Seq(Fragments)
          BY <2>2 DEF TypeOK
        <4>2. \A g \in Conns : write_queue'[g] =
                  IF g = d THEN Append(write_queue[g], e) ELSE write_queue[g]
          BY <2>1 DEF TypeOK
        <4>3. written' = written /\ write_queue'[d] = Append(q, e)
          BY <1>1, <2>2, <4>2
        <4>4. ForClient(d) = w \o q /\ written[d] \o write_queue'[d] = w \o Append(q, e)
          BY <4>3 DEF ForClient
        <4>5. ForClient(d)' = written[d] \o write_queue'[d]
          BY <1>1 DEF ForClient
        <4> HIDE DEF w, q
        <4>6. w \o q \in Seq(Fragments) /\ w \o Append(q, e) = Append(w \o q, e)
          BY <3>1, <4>1, ConcatProperties, ConcatAppend
        <4> QED
          BY <3>a, <3>b, <4>4, <4>5, <4>6
      <3>4. /\ QueueFits(d, s) /\ InOrder(s) /\ Told(s) # {}
            /\ conn[d] # "new" /\ ~(waiting[d] > 0)
            /\ \A i \in Told(s) : s[i] # PairingCompleted => MaySend(s[i].from, d)
            /\ \A i \in Told(s) : Told(s) \subseteq 1..i =>
                  s[i] \in {PairingCompleted, Fragment(c, Relayed(c))}
        <4>1. QueueFits(d, s)
          BY <2>2, <3>a DEF QueuesFit
        <4>2. paired[d] # None
          BY <1>2, <2>2, ConnsAssumption
        <4> QED
          BY <1>8, <2>2, <4>1, <4>2 DEF QueueFits
      <3>5. ASSUME NEW j \in Told(s), s[j] # PairingCompleted, Told(s) \subseteq 1..j
            PROVE  e = Fragment(s[j].from, s[j].n + 1)
        <4>1. s[j] = Fragment(c, sent[c] - 1)
          BY <1>4, <3>4, <3>5
        <4>2. s[j].from = c /\ s[j].n + 1 = sent[c]
          BY <1>2, <4>1 DEF Fragment
        <4> QED
          BY <1>c, <4>2
      <3>6. /\ InOrder(t) /\ Told(t) # {}
            /\ \A i \in Told(t) : t[i] = e \/ (i \in Told(s) /\ t[i] = s[i])
            /\ \A i \in Told(t) : Told(t) \subseteq 1..i => t[i] = e
        <4>1. /\ s \in Seq(Fragments) /\ e \in Fragments /\ e # CloseFragment /\ InOrder(s)
              /\ e = PairingCompleted <=> Told(s) = {}
          BY <3>1, <3>2, <3>3, <3>4
        <4>2. \A j \in Told(s) : s[j] # PairingCompleted /\ Told(s) \subseteq 1..j =>
                  e = Fragment(s[j].from, s[j].n + 1)
          BY <3>5
        <4> QED
          BY <3>b, <4>1, <4>2, ToldMore
      <3>7. \A f : MaySend(f, d)' <=> MaySend(f, d)
        BY <1>1 DEF MaySend
      <3>8. ASSUME NEW i \in Told(t), t[i] # PairingCompleted
            PROVE  MaySend(t[i].from, d)
        <4>1. CASE t[i] = e
          <5>1. t[i].from = c
            BY <1>c, <4>1 DEF Fragment
          <5>2. MaySend(c, d)
            BY <1>2, <2>2 DEF MaySend
          <5> QED
            BY <5>1, <5>2
        <4>2. CASE i \in Told(s) /\ t[i] = s[i]
          BY <3>4, <3>8, <4>2
        <4> QED
          BY <3>6, <4>1, <4>2
      <3>9. ~Stopped' /\ paired'[d] = c /\ conn'[d] # "new" /\ ~(waiting'[d] > 0)
        BY <1>1, <1>8, <2>2, <3>4
      <3>10. \A i \in Told(t) : Told(t) \subseteq 1..i => t[i] = Fragment(c, Relayed(c)')
        BY <1>4, <1>c, <3>6
      <3>11. \A i \in Told(t) : t[i] # PairingCompleted => MaySend(t[i].from, d)'
        BY <3>7, <3>8
      <3>12. QueueFits(d, t)'
        <4>1. Fragment(c, Relayed(c)') = Fragment(c, Relayed(c))'
          BY DEF Fragment
        <4> QED
          BY <3>6, <3>9, <3>10, <3>11, <4>1 DEF QueueFits
      <3> QED
        BY <3>3, <3>12
    <2> QED
      BY <2>3, <2>4 DEF QueuesFit
  <1> QED
    BY <1>7, <1>8

(* OnDisconnected and OnRemoteDisconnected: the partner is closed, no longer
   paired, and told nothing.                                               *)
LEMMA DisconnectedQueues ==
    ASSUME TypeOK, TypeOK', Pairing, QueuesFit, NEW x \in Servers, CallbackFits(x),
           Disconnected(x)
    PROVE  QueuesFit'
  <1>1. PICK c \in Conns : c = looper[x].conn /\ IsOpen(c)
    BY Sides DEF Disconnected, InCallback, CallbackFits, Callbacks
  <1>2. PICK d : d = paired[c]
    OBVIOUS
  <1>3. /\ UNCHANGED <<endpoint, sent, written>> /\ Stopped' = Stopped
        /\ conn' = [conn EXCEPT ![c] = "closed"]
        /\ looper[x].at # "receive" /\ LeaveCallback(x, OpenClients(x) \ {c})
        /\ Stopped => UNCHANGED <<paired, waiting, write_queue>>
        /\ ~Stopped /\ d # None =>
              /\ paired' = [paired EXCEPT ![c] = None, ![d] = None]
              /\ write_queue' = [write_queue EXCEPT
                                   ![d] = Append(write_queue[d], CloseFragment)]
              /\ waiting' = waiting
        /\ ~Stopped /\ d = None =>
              /\ waiting' = [waiting EXCEPT ![c] = 0]
              /\ paired' = paired /\ write_queue' = write_queue
    BY <1>1, <1>2 DEF Disconnected, InCallback, Stopped
  <1>4. \A y \in Servers : \/ looper'[y] = looper[y]
                           \/ "receive" \notin {looper[y].at, looper'[y].at}
    BY <1>3, CallbackLeft
  <1>5. /\ paired \in [Conns -> Conns \cup {None}]
        /\ conn' = [f \in Conns |-> IF f = c THEN "closed" ELSE conn[f]]
        /\ \A f \in Conns : waiting'[f] = waiting[f] \/ waiting'[f] = 0
    BY <1>1, <1>3 DEF TypeOK
  <1>6. ASSUME NEW f \in Conns, ~Stopped', paired'[f] # None
        PROVE  paired'[f] = paired[f]
    BY <1>3, <1>5, <1>6
  <1>7. \A f \in Conns : Undisturbed(f)
    BY <1>3, <1>5, <1>6 DEF Undisturbed
  <1>8. ASSUME NEW f \in Conns PROVE SameTold(ForClient(f), ForClient(f)')
    <2>1. write_queue'[f] \in {write_queue[f], Append(write_queue[f], CloseFragment)}
      BY <1>3, QueueTypes
    <2> QED
      BY <1>3, <2>1, CloseQueued
  <1> QED
    BY <1>3, <1>4, <1>7, <1>8, QuietStep

LEMMA LooperQueues ==
    ASSUME TypeOK, TypeOK', Pairing, \A x \in Servers : CallbackFits(x), QueuesFit,
           NEW y \in Servers, Looper(y)
    PROVE  QueuesFit'
  <1>1. ASSUME NEW place, looper' = [looper EXCEPT ![y] = place],
               looper[y].at # "receive", place.at # "receive"
        PROVE  \A x \in Servers : \/ looper'[x] = looper[x]
                                  \/ "receive" \notin {looper[x].at, looper'[x].at}
    BY <1>1, OneLooperMoves
  <1>2. \A w \in {"service", "ended", "stop other", "remove", "gone"} :
            At(w).at # "receive"
    BY PointTypes
  <1>3. CASE ServiceCancelled(y)
    <2>1. LeaveCallback(y, OpenClients(y)) /\ looper[y].at # "receive"
      BY <1>3 DEF ServiceCancelled, LeaveCallback
    <2> QED
      BY <1>3, <2>1, CallbackLeft, NothingTold DEF ServiceCancelled, app2app, Stopped
  <1>4. ASSUME NEW c \in ClientsOf(y), Writable(c) PROVE QueuesFit'
    <2>1. c \in Conns
      BY Sides
    <2>2. /\ UNCHANGED <<app2app, endpoint, sent, looper>> /\ Stopped' = Stopped
          /\ conn[c] = "open" /\ conn'[c] \in {"open", "closing"}
          /\ \A f \in Conns \ {c} : conn'[f] = conn[f]
      BY <1>4, <2>1 DEF Writable, app2app, Stopped, TypeOK
    <2>3. \A f \in Conns : Undisturbed(f)
      BY <2>2 DEF Undisturbed, app2app
    <2>4. \A f \in Conns : SameTold(ForClient(f), ForClient(f)')
      BY <1>4, <2>1, WritableTells
    <2> QED
      BY <2>2, <2>3, <2>4, QuietStep
  <1>5. ASSUME NEW c \in ClientsOf(y), CloseCompletes(c) PROVE QueuesFit'
    <2> DEFINE place == [at |-> "closed", conn |-> c]
    <2>1. /\ UNCHANGED <<app2app, websocket, written, sent>> /\ Stopped' = Stopped
          /\ looper[y].at # "receive" /\ place.at # "receive"
          /\ looper' = [looper EXCEPT ![y] = place]
      BY <1>5, Sides DEF CloseCompletes, EnterCallback, app2app, Stopped
    <2> HIDE DEF place
    <2> QED
      BY <1>1, <2>1, NothingTold DEF app2app, websocket
  <1>6. ASSUME NEW c \in ClientsOf(y), RefuseConnection(c) \/ QueueConnection(c)
        PROVE  QueuesFit'
    <2>1. c \in Conns /\ ServerOf(c) = y
      BY Sides
    <2>2. /\ looper[y].at = "established" /\ looper[y].conn = c
          /\ \E open : LeaveCallback(y, open)
          /\ UNCHANGED <<paired, endpoint, write_queue, written, sent>>
          /\ Stopped' = Stopped
          /\ \E state \in {"open", "closed"} : conn' = [conn EXCEPT ![c] = state]
          /\ \E n : waiting' \in {waiting, [waiting EXCEPT ![c] = n]}
      BY <1>6, <2>1
         DEF RefuseConnection, QueueConnection, InCallback, app2app, Stopped
    <2>3. conn[c] = "new"
      BY <2>2 DEF CallbackFits
    <2>4. /\ conn'[c] # "new"
          /\ \A f \in Conns \ {c} : conn'[f] = conn[f] /\ waiting'[f] = waiting[f]
      BY <2>1, <2>2 DEF TypeOK
    <2>5. \A f \in Conns : Undisturbed(f)
      BY <2>2, <2>3, <2>4 DEF Undisturbed
    <2>6. \A f \in Conns : SameTold(ForClient(f), ForClient(f)')
      BY <2>2, CloseQueued
    <2>7. \A x \in Servers : \/ looper'[x] = looper[x]
                             \/ "receive" \notin {looper[x].at, looper'[x].at}
      BY <2>2, CallbackLeft
    <2> QED
      BY <2>2, <2>5, <2>6, <2>7, QuietStep
  <1>7. ASSUME NEW c \in ClientsOf(y), NEW d \in ClientsOf(Other(y)), PairConnection(c, d)
        PROVE  QueuesFit'
    <2>1. c \in Conns /\ ServerOf(c) = y
      BY Sides
    <2>2. looper[y].at = "established" /\ looper[y].conn = c
      BY <1>7, <2>1 DEF PairConnection, InCallback
    <2>3. conn[c] = "new"
      BY <2>2 DEF CallbackFits
    <2> QED
      BY <1>7, <2>1, <2>3, PairConnectionQueues
  <1>8. CASE FragmentReceived(y)
    BY <1>8, FragmentReceivedQueues
  <1>9. CASE Disconnected(y)
    BY <1>9, DisconnectedQueues
  <1>10. CASE OnServiceStopped(y)
    <2> DEFINE place == At(IF StoppedFlag(Other(y)) THEN "remove" ELSE "stop other")
    <2>1. /\ UNCHANGED <<waiting, paired, websocket, written, sent>> /\ Stopped'
          /\ looper[y].at # "receive"
          /\ looper' = [looper EXCEPT ![y] = place]
      BY <1>10 DEF OnServiceStopped, Stopped
    <2>2. place.at # "receive"
      BY <1>2
    <2> HIDE DEF place
    <2> QED
      BY <1>1, <2>1, <2>2, NothingTold DEF websocket
  <1>11. CASE StopOther(y)
    <2>1. /\ UNCHANGED <<app2app, conn, endpoint, written, sent>> /\ Stopped' = Stopped
          /\ looper[y].at # "receive" /\ StopServer(Other(y))
          /\ looper' = [looper EXCEPT ![y] = At("gone")]
      BY <1>11 DEF StopOther, app2app, Stopped
    <2>2. \A f \in Conns : SameTold(ForClient(f), ForClient(f)')
      BY <2>1, StopServerTells, Sides
    <2>3. \A f \in Conns : Undisturbed(f)
      BY <2>1 DEF Undisturbed, app2app
    <2>4. \A x \in Servers : \/ looper'[x] = looper[x]
                             \/ "receive" \notin {looper[x].at, looper'[x].at}
      BY <1>1, <1>2, <2>1
    <2> QED
      BY <2>1, <2>2, <2>3, <2>4, QuietStep
  <1>12. CASE Remove(y)
    <2>1. /\ UNCHANGED <<app2app, websocket, written, sent>> /\ Stopped' = Stopped
          /\ looper[y].at # "receive"
          /\ looper' = [looper EXCEPT ![y] = At("gone")]
      BY <1>12 DEF Remove, app2app, Stopped
    <2> QED
      BY <1>1, <1>2, <2>1, NothingTold DEF app2app, websocket
  <1> QED
    BY <1>3, <1>4, <1>5, <1>6, <1>7, <1>8, <1>9, <1>10, <1>11, <1>12 DEF Looper

LEMMA StepQueues ==
    ASSUME TypeOK, TypeOK', \A x \in Servers : CallbackFits(x), Pairing, Ends, QueuesFit,
           Next
    PROVE  QueuesFit'
  <1>1. CASE Environment
    BY <1>1, EnvironmentQueues
  <1>2. CASE Stop
    BY <1>2, NothingTold DEF Stop, websocket, Stopped
  <1>3. CASE StopRemote
    <2>1. /\ UNCHANGED <<app2app, conn, endpoint, looper, written, sent>>
          /\ Stopped' = Stopped /\ StopServer("remote") /\ "remote" \in Servers
      BY <1>3 DEF StopRemote, app2app, Stopped, Servers
    <2>2. \A f \in Conns : SameTold(ForClient(f), ForClient(f)')
      BY <2>1, StopServerTells
    <2>3. \A f \in Conns : Undisturbed(f)
      BY <2>1 DEF Undisturbed, app2app
    <2> QED
      BY <2>1, <2>2, <2>3, QuietStep
  <1>4. CASE \E x \in Servers : Looper(x)
    BY <1>4, LooperQueues
  <1> QED
    BY <1>1, <1>2, <1>3, <1>4 DEF Next

LEMMA InitialQueues ==
    Init => QueuesFit
  <1> SUFFICES ASSUME Init, NEW c \in Conns PROVE QueueFits(c, ForClient(c))
    BY DEF QueuesFit
  <1>1. ForClient(c) = <<>> \o <<>> /\ paired[c] = None
    BY DEF Init, ForClient
  <1>2. <<>> \o <<>> = <<>>
    OBVIOUS
  <1>3. Told(ForClient(c)) = {}
    BY <1>1, <1>2 DEF Told
  <1> QED
    BY <1>1, <1>3 DEF QueueFits, InOrder

LEMMA QueuesInductive ==
    IInv /\ IInv' /\ QueuesFit /\ [Next]_vars => QueuesFit'
  <1> SUFFICES ASSUME IInv, IInv', QueuesFit, [Next]_vars PROVE QueuesFit'
    OBVIOUS
  <1>1. /\ TypeOK /\ TypeOK' /\ \A x \in Servers : CallbackFits(x)
        /\ Pairing /\ Ends
    BY DEF IInv, Pairing
  <1>2. CASE Next
    BY <1>1, <1>2, StepQueues
  <1>3. CASE UNCHANGED vars
    <2>1. UNCHANGED <<app2app, websocket, threads, service, sent, written, faults>>
      BY <1>3 DEF vars
    <2> QED
      BY <1>1, <2>1, NothingTold DEF app2app, websocket, threads, Stopped
  <1> QED
    BY <1>2, <1>3

(* OnFragmentReceived and OnRemoteFragmentReceived, on either thread, relay
   to every client the fragments of one partner, after the message of its
   pairing, in their order and with none missing in between, however many
   are sent and however the queues are written, cut and closed.            *)
THEOREM RelayedCorrect == Spec => []RelayedInOrder
  <1>1. QueuesFit => RelayedInOrder
    <2> SUFFICES ASSUME QueuesFit, NEW c \in Conns
                 PROVE  LET s == ForClient(c)
                        IN  /\ InOrder(s)
                            /\ \A i \in Told(s) : s[i] # PairingCompleted =>
                                  /\ ServerOf(s[i].from) = Other(ServerOf(c))
                                  /\ endpoint[s[i].from] = endpoint[c]
      BY DEF RelayedInOrder
    <2> QED
      BY DEF QueuesFit, QueueFits, MaySend
  <1>2. IInv /\ QueuesFit /\ [Next]_vars => IInv' /\ QueuesFit'
    BY Inductive, QueuesInductive
  <1>3. Init => IInv /\ QueuesFit
    BY Initially, InitialQueues
  <1> QED
    BY <1>1, <1>2, <1>3, PTL DEF Spec
=============================================================================
