-------------------------------- MODULE App2App --------------------------------
(***************************************************************************)
(* App2AppLocalService and its App2AppRemoteService: two WebSocket servers,*)
(* each with its own looper thread, that pair a local connection (from the *)
(* terminal's application) with a remote one (from a companion screen) of  *)
(* the same application endpoint and relay fragments between the two.      *)
(*                                                                         *)
(* Three threads take steps: the thread that calls ServiceManager, and one *)
(* looper per server.  Four recursive mutexes order them: the manager's    *)
(* mutex_, the local service's own mutex_, and the connections_mutex_ of   *)
(* each server.  A step ends where a thread has to wait for one more mutex *)
(* while it holds another, so the places where two threads wait for each   *)
(* other are states of the model.                                          *)
(***************************************************************************)
EXTENDS Integers, Sequences

CONSTANTS
    Locals, Remotes,   \* connections the two servers may accept
    Endpoints,         \* what may follow "/hbbtv/" in a connection's URI
    NoEndpoint,        \* the endpoint of a URI that is not "/hbbtv/..."
    None,              \* nullptr
    Senders,           \* bound: the clients that send fragments
    MaxFragments,      \* bound: fragments one of them sends
    Faults             \* the failures that may happen

Servers == {"local", "remote"}
Other(x) == IF x = "local" THEN "remote" ELSE "local"
Conns == Locals \cup Remotes
ServerOf(c) == IF c \in Locals THEN "local" ELSE "remote"
ClientsOf(x) == IF x = "local" THEN Locals ELSE Remotes

(* The failures the code meets: the remote or the local server cannot
   create its context, or lws_service returns an error.                    *)
StartFault(x) == IF x = "local" THEN "start local" ELSE "start remote"
LwsFault(x) == IF x = "local" THEN "lws local" ELSE "lws remote"
PossibleFaults == {StartFault(x) : x \in Servers} \cup {LwsFault(x) : x \in Servers}

ASSUME ConnsAssumption == Locals \cap Remotes = {} /\ None \notin Conns
ASSUME EndpointsAssumption == NoEndpoint \notin Endpoints
ASSUME BoundsAssumption ==
    MaxFragments \in Nat /\ Senders \subseteq Conns /\ Faults \subseteq PossibleFaults

VARIABLES
    \* App2AppLocalService
    waiting,          \* waiting_connections_: connection -> arrival, 0: none
    arrivals,         \* connections queued so far, their order in the deques
    paired,           \* paired_connection_ of each connection
    service_stopped,
    remote_service_stopped,
    \* WebSocketService, of each server
    conn,             \* connection -> "new", "open", "closing" or "closed"
    endpoint,         \* connection -> the endpoint of its URI
    write_queue,      \* connection -> fragments to write
    stop,             \* server -> stop_
    cancelled,        \* server -> lws_cancel_service not yet noticed
    \* threads
    looper,           \* server -> where its looper thread is
    caller,           \* where the thread that stops the service is
    \* ServiceManager
    service,          \* "none", "registered" or "erased"
    \* the clients and the failures that happened
    sent,             \* connection -> fragments its client sent
    written,          \* connection -> fragments its client was sent
    faults

app2app == <<waiting, arrivals, paired, service_stopped, remote_service_stopped>>
websocket == <<conn, endpoint, write_queue, stop, cancelled>>
threads == <<looper, caller>>
vars == <<app2app, websocket, threads, service, sent, written, faults>>
-----------------------------------------------------------------------------
(* Where a looper thread is.  "none": not started.  "service": in the loop
   of MainLooper, in lws_service.  "established", "receive", "closed": in that
   LwsCallback for connection c, holding connections_mutex_
   and waiting for the local service's mutex_.  "ended": its loop is over.
   "stop other", "remove": in OnServiceStopped or OnRemoteServiceStopped,
   holding mutex_ and waiting for the other server's connections_mutex_, or
   for the manager's mutex_.  "gone": the thread has ended.                *)
At(where) == [at |-> where, conn |-> None]
Callbacks == {"established", "receive", "closed"}
LooperStates ==
    {At(w) : w \in {"none", "service", "ended", "stop other", "remove",
                    "gone"}}
        \cup [at : Callbacks, conn : Conns]

(* Who holds which mutex, from where the threads are.  The caller is "idle",
   or in StopService with the manager's mutex_: "stop" waits for mutex_,
   "stop remote" has it and waits for the remote's connections_mutex_.     *)
MutexHeld ==
    \/ caller = "stop remote"
    \/ \E x \in Servers : looper[x].at \in {"stop other", "remove"}
ConnectionsMutexHeld(x) == looper[x].at \in Callbacks
ManagerMutexHeld == caller \in {"stop", "stop remote"}

Stopped == service_stopped \/ remote_service_stopped

(* The last fragment of a connection is a request to close it.             *)
Fragment(c, n) == [from |-> c, n |-> n]
PairingCompleted == [from |-> None, n |-> 0]
CloseFragment == [from |-> None, n |-> -1]
Fragments ==
    {PairingCompleted, CloseFragment}
        \cup [from : Conns, n : 1..MaxFragments]

TypeOK ==
    /\ arrivals \in Nat
    /\ waiting \in [Conns -> 0..arrivals]
    /\ paired \in [Conns -> Conns \cup {None}]
    /\ service_stopped \in BOOLEAN /\ remote_service_stopped \in BOOLEAN
    /\ conn \in [Conns -> {"new", "open", "closing", "closed"}]
    /\ endpoint \in [Conns -> Endpoints \cup {NoEndpoint}]
    /\ write_queue \in [Conns -> Seq(Fragments)]
    /\ written \in [Conns -> Seq(Fragments)]
    /\ stop \in [Servers -> BOOLEAN]
    /\ cancelled \in [Servers -> BOOLEAN]
    /\ looper \in [Servers -> LooperStates]
    /\ caller \in {"idle", "stop", "stop remote"}
    /\ service \in {"none", "registered", "erased"}
    /\ sent \in [Conns -> 0..MaxFragments]
    /\ faults \subseteq Faults

Init ==
    /\ waiting = [c \in Conns |-> 0]
    /\ arrivals = 0
    /\ paired = [c \in Conns |-> None]
    /\ service_stopped = FALSE /\ remote_service_stopped = FALSE
    /\ conn = [c \in Conns |-> "new"]
    /\ endpoint = [c \in Conns |-> NoEndpoint]
    /\ write_queue = [c \in Conns |-> <<>>]
    /\ stop = [x \in Servers |-> TRUE]
    /\ cancelled = [x \in Servers |-> FALSE]
    /\ looper = [x \in Servers |-> At("none")]
    /\ caller = "idle"
    /\ service = "none"
    /\ sent = [c \in Conns |-> 0]
    /\ written = [c \in Conns |-> <<>>]
    /\ faults = {}
-----------------------------------------------------------------------------
(* The local service's object exists until it is erased; a looper's step
   after that would use freed memory.                                      *)
Alive == service # "erased"

(* WebSocketService::Stop of server x: a close fragment for every
   connection, or else the looper is woken up.                             *)
HasContext(x) == looper[x].at \in {"service"} \cup Callbacks
OpenClients(x) == {c \in ClientsOf(x) : conn[c] \in {"open", "closing"}}

(* Mutant: the looper of a server without connections is not woken up.     *)
StopServer_NoCancel(x) ==
    /\ stop' = [stop EXCEPT ![x] = TRUE]
    /\ write_queue' =
         [c \in Conns |-> IF c \in OpenClients(x)
                          THEN Append(write_queue[c], CloseFragment)
                          ELSE write_queue[c]]
    /\ UNCHANGED cancelled

StopServer(x) ==
    /\ stop' = [stop EXCEPT ![x] = TRUE]
    /\ write_queue' =
         [c \in Conns |-> IF c \in OpenClients(x)
                          THEN Append(write_queue[c], CloseFragment)
                          ELSE write_queue[c]]
    /\ cancelled' =
         [cancelled EXCEPT ![x] = @ \/ (OpenClients(x) = {} /\ HasContext(x))]

(* StartApp2AppService: the constructor starts the remote server and does
   not look at the result; when the local one cannot start the object is
   destroyed.                                                              *)
StartApp2AppService(failed) ==
    /\ service = "none"
    /\ failed \subseteq Faults \cap {"start remote", "start local"}
    /\ faults' = faults \cup failed
    /\ service' = IF "start local" \in failed THEN "erased" ELSE "registered"
    /\ stop' = [x \in Servers |-> StartFault(x) \in failed]
    /\ looper' = [x \in Servers |-> IF StartFault(x) \in failed THEN looper[x]
                                    ELSE At("service")]
    /\ UNCHANGED <<app2app, conn, endpoint, write_queue, cancelled, caller, sent,
                   written>>
-----------------------------------------------------------------------------
(* MainLooper of server x tests its loop's condition when lws_service
   returns: after a callback and when it is cancelled.                     *)
LoopTest(x, open) == At(IF stop[x] /\ open = {} THEN "ended" ELSE "service")

ServiceCancelled(x) ==
    /\ Alive /\ looper[x].at = "service"
    /\ cancelled[x]
    /\ cancelled' = [cancelled EXCEPT ![x] = FALSE]
    /\ looper' = [looper EXCEPT ![x] = LoopTest(x, OpenClients(x))]
    /\ UNCHANGED <<app2app, conn, endpoint, write_queue, stop, caller, service,
                   sent, written, faults>>

(* lws_service fails: the connections are freed without OnDisconnected.    *)
ServiceFails(x) ==
    /\ Alive /\ looper[x].at = "service"
    /\ LwsFault(x) \in Faults
    /\ faults' = faults \cup {LwsFault(x)}
    /\ stop' = [stop EXCEPT ![x] = TRUE]
    /\ conn' = [c \in Conns |-> IF c \in OpenClients(x) THEN "closed" ELSE conn[c]]
    /\ looper' = [looper EXCEPT ![x] = At("ended")]
    /\ UNCHANGED <<app2app, endpoint, write_queue, cancelled, caller, service,
                   sent, written>>

(* LwsCallback takes connections_mutex_.                                   *)
EnterCallback(x, reason, c) ==
    /\ Alive /\ looper[x].at = "service"
    /\ looper' = [looper EXCEPT ![x] = [at |-> reason, conn |-> c]]

(* LWS_CALLBACK_SERVER_WRITEABLE writes the queue up to a close fragment.  *)
Writable(c) ==
    LET x == ServerOf(c)
        closeAt == {i \in DOMAIN write_queue[c] : write_queue[c][i] = CloseFragment}
        last == IF closeAt = {} THEN Len(write_queue[c])
                ELSE (CHOOSE i \in closeAt : \A j \in closeAt : i <= j) - 1
    IN  /\ Alive /\ looper[x].at = "service"
        /\ conn[c] = "open" /\ write_queue[c] # <<>>
        /\ written' = [written EXCEPT ![c] = @ \o SubSeq(write_queue[c], 1, last)]
        /\ write_queue' =
             [write_queue EXCEPT
                ![c] = IF closeAt = {} THEN <<>>
                       ELSE SubSeq(@, last + 2, Len(@))]
        /\ conn' = [conn EXCEPT ![c] = IF closeAt = {} THEN "open" ELSE "closing"]
        /\ UNCHANGED <<app2app, endpoint, stop, cancelled, looper, caller, service,
                       sent, faults>>

ClientConnects(c, e) ==
    /\ conn[c] = "new"
    /\ EnterCallback(ServerOf(c), "established", c)
    /\ endpoint' = [endpoint EXCEPT ![c] = e]
    /\ UNCHANGED <<app2app, conn, write_queue, stop, cancelled, caller, service,
                   sent, written, faults>>

ClientSends(c) ==
    /\ conn[c] = "open" /\ c \in Senders /\ sent[c] < MaxFragments
    /\ EnterCallback(ServerOf(c), "receive", c)
    /\ sent' = [sent EXCEPT ![c] = @ + 1]
    /\ UNCHANGED <<app2app, websocket, caller, service, written, faults>>

(* The client leaves, or the close that the server asked for is complete.  *)
ClientLeaves(c) ==
    /\ conn[c] = "open"
    /\ EnterCallback(ServerOf(c), "closed", c)
    /\ UNCHANGED <<app2app, websocket, caller, service, sent, written, faults>>

CloseCompletes(c) ==
    /\ conn[c] = "closing"
    /\ EnterCallback(ServerOf(c), "closed", c)
    /\ UNCHANGED <<app2app, websocket, caller, service, sent, written, faults>>
-----------------------------------------------------------------------------
(* The callbacks of the local service, once they have its mutex_.          *)
InCallback(x, reason) ==
    /\ Alive /\ looper[x].at = reason
    /\ ~MutexHeld

LeaveCallback(x, open) == looper' = [looper EXCEPT ![x] = LoopTest(x, open)]

(* GetNextWaitingConnection: the first of the waiting connections of the
   other server with the same endpoint.                                    *)
Candidates(c) ==
    {d \in ClientsOf(Other(ServerOf(c))) : waiting[d] > 0 /\ endpoint[d] = endpoint[c]}

IsNextWaiting(d, c) ==
    /\ d \in Candidates(c)
    /\ \A f \in Candidates(c) : waiting[d] <= waiting[f]

(* OnConnection and OnRemoteConnection.                                    *)
RefuseConnection(c) ==
    /\ Alive /\ looper[ServerOf(c)] = [at |-> "established", conn |-> c]
    /\ endpoint[c] = NoEndpoint \/ (~MutexHeld /\ Stopped)
    /\ conn' = [conn EXCEPT ![c] = "closed"]
    /\ LeaveCallback(ServerOf(c), OpenClients(ServerOf(c)))
    /\ UNCHANGED <<app2app, endpoint, write_queue, stop, cancelled, caller,
                   service, sent, written, faults>>

(* Mutant: the waiting connection stays in its deque.                      *)
PairConnection_Peeks(c, d) ==
    /\ InCallback(ServerOf(c), "established")
    /\ looper[ServerOf(c)].conn = c
    /\ endpoint[c] # NoEndpoint /\ ~Stopped
    /\ IsNextWaiting(d, c)
    /\ paired' = [paired EXCEPT ![c] = d, ![d] = c]
    /\ write_queue' = [write_queue EXCEPT ![c] = Append(@, PairingCompleted),
                                          ![d] = Append(@, PairingCompleted)]
    /\ conn' = [conn EXCEPT ![c] = "open"]
    /\ LeaveCallback(ServerOf(c), {c})
    /\ UNCHANGED <<waiting, arrivals, service_stopped, remote_service_stopped,
                   endpoint, stop, cancelled, caller, service, sent, written, faults>>

PairConnection(c, d) ==
    /\ InCallback(ServerOf(c), "established")
    /\ looper[ServerOf(c)].conn = c
    /\ endpoint[c] # NoEndpoint /\ ~Stopped
    /\ IsNextWaiting(d, c)
    /\ waiting' = [waiting EXCEPT ![d] = 0]
    /\ paired' = [paired EXCEPT ![c] = d, ![d] = c]
    /\ write_queue' = [write_queue EXCEPT ![c] = Append(@, PairingCompleted),
                                          ![d] = Append(@, PairingCompleted)]
    /\ conn' = [conn EXCEPT ![c] = "open"]
    /\ LeaveCallback(ServerOf(c), {c})
    /\ UNCHANGED <<arrivals, service_stopped, remote_service_stopped, endpoint,
                   stop, cancelled, caller, service, sent, written, faults>>

QueueConnection(c) ==
    /\ InCallback(ServerOf(c), "established")
    /\ looper[ServerOf(c)].conn = c
    /\ endpoint[c] # NoEndpoint /\ ~Stopped
    /\ Candidates(c) = {}
    /\ arrivals' = arrivals + 1
    /\ waiting' = [waiting EXCEPT ![c] = arrivals + 1]
    /\ conn' = [conn EXCEPT ![c] = "open"]
    /\ LeaveCallback(ServerOf(c), {c})
    /\ UNCHANGED <<paired, service_stopped, remote_service_stopped, endpoint,
                   write_queue, stop, cancelled, caller, service, sent, written,
                   faults>>

(* OnFragmentReceived and OnRemoteFragmentReceived: relayed to the paired
   connection, dropped when there is none.                                 *)
FragmentReceived(x) ==
    LET c == looper[x].conn
        relayed == ~Stopped /\ paired[c] # None
    IN  /\ InCallback(x, "receive")
        /\ write_queue' =
             IF relayed
             THEN [write_queue EXCEPT ![paired[c]] = Append(@, Fragment(c, sent[c]))]
             ELSE write_queue
        /\ LeaveCallback(x, {c})
        /\ UNCHANGED <<app2app, conn, endpoint, stop, cancelled, caller, service,
                       sent, written, faults>>

(* OnDisconnected and OnRemoteDisconnected, then the connection is freed:
   its partner is closed, or it waits no longer.                           *)
(* Mutant: the partner keeps its pointer to the freed connection.          *)
Disconnected_Dangles(x) ==
    LET c == looper[x].conn
        d == paired[c]
    IN  /\ InCallback(x, "closed")
        /\ IF Stopped THEN UNCHANGED <<paired, waiting, write_queue>>
           ELSE IF d # None
           THEN /\ paired' = [paired EXCEPT ![c] = None]
                /\ write_queue' = [write_queue EXCEPT ![d] = Append(@, CloseFragment)]
                /\ UNCHANGED waiting
           ELSE /\ waiting' = [waiting EXCEPT ![c] = 0]
                /\ UNCHANGED <<paired, write_queue>>
        /\ conn' = [conn EXCEPT ![c] = "closed"]
        /\ cancelled' = [cancelled EXCEPT ![x] = @ \/ (stop[x] /\ OpenClients(x) = {c})]
        /\ LeaveCallback(x, OpenClients(x) \ {c})
        /\ UNCHANGED <<arrivals, service_stopped, remote_service_stopped, endpoint,
                       stop, caller, service, sent, written, faults>>

(* Mutant: a waiting connection that closes stays in its deque.            *)
Disconnected_StillWaits(x) ==
    LET c == looper[x].conn
        d == paired[c]
    IN  /\ InCallback(x, "closed")
        /\ IF Stopped \/ d = None THEN UNCHANGED <<paired, write_queue>>
           ELSE /\ paired' = [paired EXCEPT ![c] = None, ![d] = None]
                /\ write_queue' = [write_queue EXCEPT ![d] = Append(@, CloseFragment)]
        /\ conn' = [conn EXCEPT ![c] = "closed"]
        /\ cancelled' = [cancelled EXCEPT ![x] = @ \/ (stop[x] /\ OpenClients(x) = {c})]
        /\ LeaveCallback(x, OpenClients(x) \ {c})
        /\ UNCHANGED <<waiting, arrivals, service_stopped, remote_service_stopped,
                       endpoint, stop, caller, service, sent, written, faults>>

Disconnected(x) ==
    LET c == looper[x].conn
        d == paired[c]
    IN  /\ InCallback(x, "closed")
        /\ IF Stopped THEN UNCHANGED <<paired, waiting, write_queue>>
           ELSE IF d # None
           THEN /\ paired' = [paired EXCEPT ![c] = None, ![d] = None]
                /\ write_queue' = [write_queue EXCEPT ![d] = Append(@, CloseFragment)]
                /\ UNCHANGED waiting
           ELSE /\ waiting' = [waiting EXCEPT ![c] = 0]
                /\ UNCHANGED <<paired, write_queue>>
        /\ conn' = [conn EXCEPT ![c] = "closed"]
        /\ cancelled' = [cancelled EXCEPT ![x] = @ \/ (stop[x] /\ OpenClients(x) = {c})]
        /\ LeaveCallback(x, OpenClients(x) \ {c})
        /\ UNCHANGED <<arrivals, service_stopped, remote_service_stopped, endpoint,
                       stop, caller, service, sent, written, faults>>
-----------------------------------------------------------------------------
(* ServiceManager::StopService holds the manager's mutex_ while it calls
   App2AppLocalService::Stop.                                              *)
StopService ==
    /\ caller = "idle" /\ service = "registered"
    /\ caller' = "stop"
    /\ UNCHANGED <<app2app, websocket, looper, service, sent, written, faults>>

Stop ==
    /\ caller = "stop" /\ ~MutexHeld
    /\ IF Stopped
       THEN caller' = "idle" /\ UNCHANGED remote_service_stopped
       ELSE caller' = "stop remote" /\ remote_service_stopped' = TRUE
    /\ UNCHANGED <<waiting, arrivals, paired, service_stopped, websocket, looper,
                   service, sent, written, faults>>

StopRemote ==
    /\ caller = "stop remote" /\ ~ConnectionsMutexHeld("remote")
    /\ StopServer("remote")
    /\ caller' = "idle"
    /\ UNCHANGED <<app2app, conn, endpoint, looper, service, sent, written, faults>>

(* OnServiceStopped of server x, on its looper thread: the other server is
   stopped, or the service is removed if it already is.                    *)
StoppedFlag(x) == IF x = "local" THEN service_stopped ELSE remote_service_stopped

(* Mutant: the first looper to end removes the service.                    *)
OnServiceStopped_Removes(x) ==
    /\ Alive /\ looper[x].at = "ended" /\ ~MutexHeld
    /\ service_stopped' = TRUE /\ remote_service_stopped' = TRUE
    /\ looper' = [looper EXCEPT ![x] = At("remove")]
    /\ UNCHANGED <<waiting, arrivals, paired, websocket, caller, service, sent,
                   written, faults>>

OnServiceStopped(x) ==
    /\ Alive /\ looper[x].at = "ended" /\ ~MutexHeld
    /\ service_stopped' = TRUE /\ remote_service_stopped' = TRUE
    /\ looper' = [looper EXCEPT
                    ![x] = At(IF StoppedFlag(Other(x)) THEN "remove" ELSE "stop other")]
    /\ UNCHANGED <<waiting, arrivals, paired, websocket, caller, service, sent,
                   written, faults>>

StopOther(x) ==
    /\ Alive /\ looper[x].at = "stop other" /\ ~ConnectionsMutexHeld(Other(x))
    /\ StopServer(Other(x))
    /\ looper' = [looper EXCEPT ![x] = At("gone")]
    /\ UNCHANGED <<app2app, conn, endpoint, caller, service, sent, written, faults>>

(* ServiceManager::OnServiceStopped erases the service.                    *)
Remove(x) ==
    /\ Alive /\ looper[x].at = "remove" /\ ~ManagerMutexHeld
    /\ service' = "erased"
    /\ looper' = [looper EXCEPT ![x] = At("gone")]
    /\ UNCHANGED <<app2app, websocket, caller, sent, written, faults>>
-----------------------------------------------------------------------------
Looper(x) ==
    \/ ServiceCancelled(x)
    \/ \E c \in ClientsOf(x) : Writable(c) \/ CloseCompletes(c)
    \/ \E c \in ClientsOf(x) : RefuseConnection(c) \/ QueueConnection(c)
    \/ \E c \in ClientsOf(x), d \in ClientsOf(Other(x)) : PairConnection(c, d)
    \/ FragmentReceived(x)
    \/ Disconnected(x)
    \/ OnServiceStopped(x)
    \/ StopOther(x)
    \/ Remove(x)

Environment ==
    \/ \E failed \in SUBSET {"start remote", "start local"} : StartApp2AppService(failed)
    \/ \E c \in Conns, e \in Endpoints \cup {NoEndpoint} : ClientConnects(c, e)
    \/ \E c \in Conns : ClientSends(c) \/ ClientLeaves(c)
    \/ \E x \in Servers : ServiceFails(x)
    \/ StopService

Next ==
    \/ Environment
    \/ Stop
    \/ StopRemote
    \/ \E x \in Servers : Looper(x)

Spec == Init /\ [][Next]_vars

(* lws runs the callbacks that are due (its ping timer wakes it when another
   thread queued a fragment), and a thread that waits for a free mutex gets
   it: each looper and the caller of StopService proceed.                  *)
FairSpec ==
    /\ Spec
    /\ \A x \in Servers : WF_vars(Looper(x))
    /\ WF_vars(Stop \/ StopRemote)
-----------------------------------------------------------------------------
IsOpen(c) == conn[c] \in {"open", "closing"}
Failed(x) == LwsFault(x) \in faults

(* OnConnection and OnDisconnected run on two threads, and each changes the
   connection of the other's server.  While the service runs, a connection's
   paired_connection_ is one of the other server with the same endpoint that
   points back to it, neither waits for a partner, and the partner is not
   freed memory, unless its server's lws_service failed: then its
   connections are freed while the other side still points to them.        *)
PairsAreMutual ==
    ~Stopped =>
        \A c \in Conns : paired[c] # None =>
            LET d == paired[c]
            IN  /\ paired[d] = c
                /\ ServerOf(d) = Other(ServerOf(c))
                /\ endpoint[d] = endpoint[c]
                /\ waiting[c] = 0
                /\ IsOpen(d) \/ Failed(ServerOf(d))

(* No local and remote connection of one endpoint both wait: whichever of
   the two threads comes second has found the first.  One that waits can
   still be answered, unless its server failed.                            *)
NobodyWaitsForAWaiting ==
    ~Stopped =>
        \A c \in Conns : waiting[c] > 0 =>
            /\ Candidates(c) = {}
            /\ IsOpen(c) \/ Failed(ServerOf(c))

(* What a client is sent, closes apart: the pairing message once and first,
   then the fragments of one connection of the other server with its endpoint,
   in the order they were sent and with none missing in between.           *)
ForClient(c) == written[c] \o write_queue[c]
Told(s) == {i \in 1..Len(s) : s[i] # CloseFragment}
Before(s, i) == {j \in Told(s) : j < i}

InOrder(s) ==
    \A i \in Told(s) :
        /\ s[i] = PairingCompleted <=> Before(s, i) = {}
        /\ \A j \in Before(s, i) :
               s[j] # PairingCompleted /\ Before(s, i) \subseteq 1..j =>
                   s[i] = Fragment(s[j].from, s[j].n + 1)

RelayedInOrder ==
    \A c \in Conns :
        LET s == ForClient(c)
        IN  /\ InOrder(s)
            /\ \A i \in Told(s) : s[i] # PairingCompleted =>
                   /\ ServerOf(s[i].from) = Other(ServerOf(c))
                   /\ endpoint[s[i].from] = endpoint[c]

(* The object both loopers work on is destroyed by the second of them to
   end.  When lws_service of the local server fails while Stop has already
   marked the remote one as stopped, or the local server did not start, it is
   destroyed under the remote looper.                                      *)
DestroyedByTheLast ==
    service = "erased" =>
        \/ \A x \in Servers : looper[x].at \in {"none", "gone"}
        \/ faults \cap {"start local", "lws local"} # {}

(* Two threads wait for each other: a looper in a callback that needs mutex_,
   and the thread that holds mutex_ and stops that looper's server; or
   StopService with the manager's mutex_ and a looper that removes the
   service.                                                                *)
NeedsMutex(x) ==
    \/ looper[x].at \in {"receive", "closed"}
    \/ looper[x].at = "established" /\ endpoint[looper[x].conn] # NoEndpoint
Deadlocked ==
    \/ caller = "stop remote" /\ NeedsMutex("remote")
    \/ \E x \in Servers : looper[x].at = "stop other" /\ NeedsMutex(Other(x))
    \/ caller = "stop" /\ \E x \in Servers : looper[x].at = "remove"

(* Once StopService is called the service is erased, so that it can be
   started again, whatever connections are open and whoever connects
   meanwhile; except when the threads block each other in one of the ways
   above, or the remote server never started: nobody then reports that it
   stopped.                                                                *)
StopEnds ==
    caller = "stop" ~> \/ service = "erased"
                       \/ Deadlocked
                       \/ "start remote" \in faults
=============================================================================
