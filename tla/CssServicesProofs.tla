--------------------------- MODULE CssServicesProofs ---------------------------
(***************************************************************************)
(* Theorems about CssServices: the count of running services, when a       *)
(* deleted synchroniser is freed, and that no other service is stopped.    *)
(***************************************************************************)
EXTENDS CssServices, FiniteSetTheorems, WellFoundedInduction, NaturalsInduction, TLAPS

-----------------------------------------------------------------------------
(* The inductive invariant                                                  *)

\* Who is in the critical section of a synchroniser's m_mutex.
MutexHeld ==
    /\ \A i \in Registered : service[i].pc = "owner" => mutex[service[i].owner] = i
    /\ op.step \in {"start", "stop", "stopping", "unlock"} => mutex[op.of] = App

\* A synchroniser is only enabled while it is active.
EnabledWhileActive ==
    /\ op.call = "enable" => sync[op.of].state = "active"
    /\ op.step = "start" => op.call = "enable"

\* The id kept for a service is that service's.
Owns(s, k) == sync[s].id[k] \in ServicesOf(s) /\ service[sync[s].id[k]].kind = k

SyncingOwns ==
    \A s \in Syncs : sync[s].syncing =>
        /\ sync[s].state = "active" /\ sync[s].running = 3
        /\ \A k \in Kinds : Owns(s, k)

StoppingOwns ==
    op.step \in {"stop", "stopping"} => \A k \in Kinds : Owns(op.of, k)

\* The services enableInterDeviceSync has tried to start before that of kind k.
Before(k) == CASE k = "cii" -> {"wc"} [] k = "ts" -> {"wc", "cii"} [] OTHER -> {}

EnablingOwns ==
    op.step = "start" =>
        LET s == op.of
        IN  /\ \A k \in Before(op.kind) : sync[s].id[k] # -1 => Owns(s, k)
            /\ sync[s].running <= 0
            /\ ~sync[s].partial =>
                  /\ sync[s].running = 0
                  /\ \A i \in ServicesOf(s) : \E k \in Before(op.kind) : i = sync[s].id[k]

\* A call begins on an active synchroniser; the one it makes room for is new.
CallFits ==
    /\ op.step = "lock" => sync[op.of].state = "active"
    /\ op.next # None => op.next # op.of /\ sync[op.next].state = "new"

\* Whatever start failed, no more services are counted than there are, and a
\* deleted synchroniser counts one: the one that will free it.
DeletedCounts ==
    \A s \in Syncs :
        /\ sync[s].state # "freed" => sync[s].running <= Cardinality(ServicesOf(s))
        /\ sync[s].state = "deleted" => sync[s].running > 0

\* Freed too early is only what a half-failed start left.
OwnerOutlivesServices ==
    \A i \in Registered :
        ~sync[service[i].owner].partial => sync[service[i].owner].state # "freed"

IInv ==
    /\ TypeOK
    /\ MutexHeld
    /\ EnabledWhileActive
    /\ SyncingOwns
    /\ StoppingOwns
    /\ EnablingOwns
    /\ RunningServicesCounted
    /\ OwnerOutlivesServices
    /\ CallFits
    /\ DeletedCounts

-----------------------------------------------------------------------------
(* Types and small facts                                                    *)

\* The application's thread is in a call.
Calls ==
    [call : {"enable", "disable", "delete"}, of : Syncs,
     step : {"lock", "start", "stop", "stopping", "unlock"},
     kind : Kinds \cup {None}, next : Syncs \cup {None}]

LEMMA CardThree ==
    ASSUME NEW a, NEW b, NEW c, a # b, a # c, b # c
    PROVE  Cardinality({a, b, c}) = 3
<1>1. IsFiniteSet({a}) /\ Cardinality({a}) = 1
  BY FS_Singleton
<1>2. IsFiniteSet({a} \cup {b}) /\ Cardinality({a} \cup {b}) = 2
  BY <1>1, FS_AddElement
<1>3. {a} \cup {b} = {a, b} /\ {a, b} \cup {c} = {a, b, c}
  OBVIOUS
<1>4. IsFiniteSet({a, b}) /\ Cardinality({a, b}) = 2
  BY <1>2, <1>3
<1>5. Cardinality({a, b} \cup {c}) = 3
  BY <1>4, FS_AddElement
<1> QED BY <1>3, <1>5

LEMMA CardOfThree ==
    ASSUME NEW S, NEW a, NEW b, NEW c, S = {a, b, c}, a # b, a # c, b # c
    PROVE  Cardinality(S) = 3
BY CardThree

LEMMA Numbers ==
    /\ Cardinality(Kinds) = 3
    /\ Ids \subseteq Nat /\ IsFiniteSet(Ids) /\ -1 \notin Ids
    /\ None \notin Ids /\ App \notin Ids /\ None # App
    /\ MaxUnderrun \in Nat
<1>1. Cardinality(Kinds) = 3
  BY CardThree DEF Kinds
<1>2. MaxServices - 1 \in Int
  BY CssAssumption
<1>3. Ids \subseteq Nat /\ -1 \notin Ids
  BY <1>2 DEF Ids
<1>4. IsFiniteSet(Ids)
  BY <1>2, FS_Interval DEF Ids
<1>5. None \notin Ids /\ App \notin Ids /\ None # App
  BY <1>3, CssAssumption
<1> QED BY <1>1, <1>3, <1>4, <1>5, CssAssumption

LEMMA ServicesFinite ==
    ASSUME NEW s
    PROVE  /\ IsFiniteSet(ServicesOf(s)) /\ Cardinality(ServicesOf(s)) \in Nat
           /\ ServicesOf(s) \subseteq Ids
<1>1. ServicesOf(s) \in SUBSET Ids
  BY DEF ServicesOf, Registered
<1> QED BY <1>1, Numbers, FS_Subset, FS_CardinalityType

LEMMA Types ==
    ASSUME IInv
    PROVE  /\ \A s \in Syncs : sync[s] \in Sync
           /\ sync \in [Syncs -> Sync]
           /\ service \in [Ids -> Service \cup {None}]
           /\ \A i \in Registered : service[i] \in Service /\ i \in Ids
           /\ mutex \in [Syncs -> Threads \cup {None}]
           /\ op \in Calls \cup {Idle}
           /\ op.step # "none" => op \in Calls
           /\ op.call # "none" => op \in Calls
           /\ op = Idle => op.step = "none" /\ op.call = "none" /\ op.next = None
           /\ mgr \in Threads \cup {None} /\ leaked \in BOOLEAN /\ faults \in 0..MaxFaults
<1>1. Op = Calls \cup {Idle}
  BY DEF Op, Calls
<1>2. Idle.step = "none" /\ Idle.call = "none" /\ Idle.next = None
  BY DEF Idle
<1> QED BY <1>1, <1>2 DEF IInv, TypeOK, Registered

LEMMA TypeIs ==
    ASSUME sync \in [Syncs -> Sync], service \in [Ids -> Service \cup {None}],
           mutex \in [Syncs -> Threads \cup {None}], op \in Calls \cup {Idle},
           mgr \in Threads \cup {None}, leaked \in BOOLEAN, faults \in 0..MaxFaults
    PROVE  TypeOK
BY DEF TypeOK, Op, Calls

LEMMA AtType ==
    ASSUME op \in Calls, NEW k \in Kinds \cup {None},
           NEW step \in {"lock", "start", "stop", "stopping", "unlock"}
    PROVE  /\ At(step, k) \in Calls
           /\ At(step, k).step = step /\ At(step, k).kind = k
           /\ At(step, k).of = op.of /\ At(step, k).call = op.call
           /\ At(step, k).next = op.next
BY DEF At, Calls

-----------------------------------------------------------------------------
(* What a step does to the services                                         *)

\* The step leaves service j registered, or not, for the same owner.
SameService(j) ==
    /\ service'[j] = None <=> service[j] = None
    /\ service[j] # None => /\ service'[j].owner = service[j].owner
                            /\ service'[j].kind = service[j].kind

LEMMA SameServices ==
    ASSUME \A j \in Ids : SameService(j)
    PROVE  /\ Registered' = Registered
           /\ \A s : ServicesOf(s)' = ServicesOf(s)
           /\ \A i \in Registered : /\ service'[i].owner = service[i].owner
                                    /\ service'[i].kind = service[i].kind
<1>1. Registered' = Registered
  BY DEF SameService, Registered
<1>2. \A i \in Registered : /\ service'[i].owner = service[i].owner
                            /\ service'[i].kind = service[i].kind
  BY DEF SameService, Registered
<1>3. ASSUME NEW s PROVE ServicesOf(s)' = ServicesOf(s)
  BY <1>1, <1>2 DEF ServicesOf
<1> QED BY <1>1, <1>2, <1>3

\* What a synchroniser owns it keeps, where the step keeps those services.
LEMMA OwnsKept ==
    ASSUME NEW s, NEW k, Owns(s, k), sync'[s].id[k] = sync[s].id[k],
           \A j \in ServicesOf(s) : SameService(j)
    PROVE  Owns(s, k)'
<1> DEFINE i == sync[s].id[k]
<1>1. i \in Ids /\ service[i] # None /\ service[i].owner = s /\ service[i].kind = k
      /\ SameService(i)
  BY DEF Owns, ServicesOf, Registered
<1>2. service'[i] # None /\ service'[i].owner = s /\ service'[i].kind = k
  BY <1>1 DEF SameService
<1> HIDE DEF i
<1>3. i \in ServicesOf(s)'
  BY <1>1, <1>2 DEF ServicesOf, Registered
<1> QED BY <1>2, <1>3 DEF Owns, i

-----------------------------------------------------------------------------
(* Steps that only move a looper, or the application's call, on             *)

LEMMA QuietGood ==
    ASSUME IInv, TypeOK', MutexHeld', \A j \in Ids : SameService(j), UNCHANGED <<sync, op>>
    PROVE  IInv'
<1>1. /\ Registered' = Registered
      /\ \A s : ServicesOf(s)' = ServicesOf(s)
      /\ \A i \in Registered : service'[i].owner = service[i].owner
  BY SameServices
<1>2. ASSUME NEW s, NEW k, Owns(s, k) PROVE Owns(s, k)'
  <2>1. \A j \in ServicesOf(s) : SameService(j)
    BY ServicesFinite
  <2> QED BY <1>2, <2>1, OwnsKept
<1>3. EnabledWhileActive'
  BY DEF IInv, EnabledWhileActive
<1>4. SyncingOwns'
  BY <1>2 DEF IInv, SyncingOwns
<1>5. StoppingOwns'
  BY <1>2 DEF IInv, StoppingOwns
<1>6. EnablingOwns'
  <2> SUFFICES ASSUME op.step = "start"
               PROVE  /\ \A k \in Before(op.kind) : sync[op.of].id[k] # -1 => Owns(op.of, k)'
                      /\ sync[op.of].running <= 0
                      /\ ~sync[op.of].partial =>
                           /\ sync[op.of].running = 0
                           /\ \A i \in ServicesOf(op.of) : \E k \in Before(op.kind) :
                                 i = sync[op.of].id[k]
    BY <1>1 DEF EnablingOwns
  <2> QED BY <1>2 DEF IInv, EnablingOwns
<1>7. RunningServicesCounted'
  <2>1. \A s \in Syncs : Enabling(s)' <=> Enabling(s)
    BY DEF Enabling
  <2> QED BY <1>1, <2>1 DEF IInv, RunningServicesCounted
<1>8. OwnerOutlivesServices' /\ DeletedCounts'
  BY <1>1 DEF IInv, OwnerOutlivesServices, DeletedCounts
<1>9. CallFits'
  BY DEF IInv, CallFits
<1> QED BY <1>3, <1>4, <1>5, <1>6, <1>7, <1>8, <1>9 DEF IInv

\* The application's thread goes on, but not from or to a start.
LEMMA CallMovesGood ==
    ASSUME IInv, TypeOK', MutexHeld', \A j \in Ids : SameService(j), UNCHANGED sync,
           EnabledWhileActive', CallFits', op.step # "start", op'.step # "start",
           op'.step \in {"stop", "stopping"} =>
               op.step \in {"stop", "stopping"} /\ op'.of = op.of
    PROVE  IInv'
<1>1. /\ Registered' = Registered
      /\ \A s : ServicesOf(s)' = ServicesOf(s)
      /\ \A i \in Registered : service'[i].owner = service[i].owner
  BY SameServices
<1>2. ASSUME NEW s, NEW k, Owns(s, k) PROVE Owns(s, k)'
  <2>1. \A j \in ServicesOf(s) : SameService(j)
    BY ServicesFinite
  <2> QED BY <1>2, <2>1, OwnsKept
<1>4. SyncingOwns'
  BY <1>2 DEF IInv, SyncingOwns
<1>5. StoppingOwns'
  BY <1>2 DEF IInv, StoppingOwns
<1>6. EnablingOwns'
  BY DEF EnablingOwns
<1>7. RunningServicesCounted'
  <2>1. \A s \in Syncs : ~Enabling(s) /\ ~Enabling(s)'
    BY DEF Enabling
  <2> QED BY <1>1, <2>1 DEF IInv, RunningServicesCounted
<1>8. OwnerOutlivesServices' /\ DeletedCounts'
  BY <1>1 DEF IInv, OwnerOutlivesServices, DeletedCounts
<1> QED BY <1>4, <1>5, <1>6, <1>7, <1>8 DEF IInv

\* A step on the record of one service, which stays what it is.
LEMMA RecordMoves ==
    ASSUME IInv, NEW i \in Registered, NEW v \in Service,
           service' = [service EXCEPT ![i] = v],
           v.owner = service[i].owner, v.kind = service[i].kind
    PROVE  /\ \A j \in Ids : SameService(j)
           /\ service' \in [Ids -> Service \cup {None}]
           /\ service'[i] = v /\ \A j \in Ids \ {i} : service'[j] = service[j]
<1>1. service \in [Ids -> Service \cup {None}] /\ i \in Ids /\ service[i] # None
  BY Types DEF Registered
<1>2. service'[i] = v /\ \A j \in Ids \ {i} : service'[j] = service[j]
  BY <1>1
<1>3. v # None
  BY NoneAssumption
<1> QED BY <1>1, <1>2, <1>3 DEF SameService

LEMMA LooperMoves ==
    ASSUME IInv, NEW i \in Registered, NEW v \in Service,
           service' = [service EXCEPT ![i] = v],
           v.owner = service[i].owner, v.kind = service[i].kind,
           v.pc = "owner" => service[i].pc = "owner",
           UNCHANGED <<sync, op, mutex, leaked>>,
           mgr' \in Threads \cup {None}, faults' \in 0..MaxFaults
    PROVE  IInv'
<1>1. /\ \A j \in Ids : SameService(j)
      /\ service' \in [Ids -> Service \cup {None}]
      /\ service'[i] = v /\ \A j \in Ids \ {i} : service'[j] = service[j]
  BY RecordMoves
<1>2. TypeOK'
  BY <1>1, Types DEF TypeOK, Op, Calls
<1>3. MutexHeld'
  <2>1. Registered' = Registered
    BY <1>1, SameServices
  <2>2. \A j \in Registered : service'[j].pc = "owner" => mutex[service'[j].owner] = j
    BY <1>1, Types DEF IInv, MutexHeld
  <2> QED BY <2>1, <2>2 DEF IInv, MutexHeld
<1> QED BY <1>1, <1>2, <1>3, QuietGood

LEMMA ClientGood ==
    ASSUME IInv, NEW i \in Ids,
           \/ ClientConnects(i) \/ ClientCloses(i) \/ TsCallback(i)
           \/ \E client \in {"no", "yes", "closing"} : TsCallbackEnds(i, client)
    PROVE  IInv'
<1>1. i \in Registered /\ service[i] \in Service
  BY Types DEF ClientConnects, ClientCloses, TsCallback, TsCallbackEnds, WithClient
<1>2. UNCHANGED <<sync, mutex, mgr, leaked, op, faults>>
  BY DEF ClientConnects, ClientCloses, TsCallback, TsCallbackEnds
<1>3. ASSUME NEW v, service' = [service EXCEPT ![i] = v], v \in Service,
             v.owner = service[i].owner, v.kind = service[i].kind, v.pc = service[i].pc
      PROVE  IInv'
  BY <1>1, <1>2, <1>3, LooperMoves, Types
<1>4. ASSUME NEW to \in {"no", "yes", "closing"},
             \/ service' = [service EXCEPT ![i].client = to]
             \/ service' = [service EXCEPT ![i].busy = TRUE]
             \/ service' = [service EXCEPT ![i].busy = FALSE, ![i].client = to]
      PROVE  IInv'
  <2> DEFINE a == [service[i] EXCEPT !.client = to]
             b == [service[i] EXCEPT !.busy = TRUE]
             c == [service[i] EXCEPT !.busy = FALSE, !.client = to]
  <2>1. \/ service' = [service EXCEPT ![i] = a]
        \/ service' = [service EXCEPT ![i] = b]
        \/ service' = [service EXCEPT ![i] = c]
    BY <1>4
  <2>2. \A v \in {a, b, c} : /\ v \in Service /\ v.owner = service[i].owner
                             /\ v.kind = service[i].kind /\ v.pc = service[i].pc
    BY <1>1 DEF Service
  <2> HIDE DEF a, b, c
  <2> QED BY <1>3, <2>1, <2>2
<1> QED BY <1>4 DEF ClientConnects, ClientCloses, TsCallback, TsCallbackEnds

LEMMA LooperGood ==
    ASSUME IInv, NEW i \in Ids, LooperEnds(i) \/ LwsServiceFails(i) \/ OnServiceStopped(i)
    PROVE  IInv'
<1>1. i \in Registered /\ service[i] \in Service
  BY Types DEF LooperEnds, LwsServiceFails, OnServiceStopped
<1>2. CASE LooperEnds(i)
  <2> DEFINE v == [service[i] EXCEPT !.pc = "ended"]
  <2>1. service' = [service EXCEPT ![i] = v] /\ UNCHANGED <<sync, mutex, mgr, leaked, op, faults>>
    BY <1>2 DEF LooperEnds
  <2>2. v \in Service /\ v.owner = service[i].owner /\ v.kind = service[i].kind /\ v.pc = "ended"
    BY <1>1 DEF Service
  <2> HIDE DEF v
  <2> QED BY <1>1, <2>1, <2>2, LooperMoves, Types
<1>3. CASE LwsServiceFails(i)
  <2> DEFINE v == [service[i] EXCEPT !.pc = "ended", !.stop = TRUE, !.client = "no"]
  <2>1. service' = [service EXCEPT ![i] = v] /\ UNCHANGED <<sync, mutex, mgr, leaked, op>>
    BY <1>3 DEF LwsServiceFails
  <2>2. v \in Service /\ v.owner = service[i].owner /\ v.kind = service[i].kind /\ v.pc = "ended"
    BY <1>1 DEF Service
  <2>3. faults' \in 0..MaxFaults
    BY <1>3, Types, CssAssumption DEF LwsServiceFails
  <2> HIDE DEF v
  <2> QED BY <1>1, <2>1, <2>2, <2>3, LooperMoves, Types
<1>4. CASE OnServiceStopped(i)
  <2> DEFINE v == [service[i] EXCEPT !.pc = "manager"]
  <2>1. service' = [service EXCEPT ![i] = v] /\ UNCHANGED <<sync, mutex, leaked, op, faults>>
        /\ mgr' = i
    BY <1>4 DEF OnServiceStopped
  <2>2. v \in Service /\ v.owner = service[i].owner /\ v.kind = service[i].kind /\ v.pc = "manager"
    BY <1>1 DEF Service
  <2>3. mgr' \in Threads \cup {None}
    BY <2>1 DEF Threads
  <2> HIDE DEF v
  <2> QED BY <1>1, <2>1, <2>2, <2>3, LooperMoves, Types
<1> QED BY <1>2, <1>3, <1>4

LEMMA OnStoppedGood ==
    ASSUME IInv, NEW i \in Ids, OnStopped(i)
    PROVE  IInv'
<1> DEFINE v == [service[i] EXCEPT !.pc = "owner"]
           s == service[i].owner
<1>1. i \in Registered /\ service[i] \in Service /\ s \in Syncs /\ mutex[s] = None
  BY Types DEF OnStopped, Service
<1>2. /\ service' = [service EXCEPT ![i] = v] /\ mutex' = [mutex EXCEPT ![s] = i]
      /\ UNCHANGED <<sync, mgr, leaked, op, faults>>
  BY DEF OnStopped
<1>3. v \in Service /\ v.owner = s /\ v.kind = service[i].kind
  BY <1>1 DEF Service
<1> HIDE DEF v
<1>4. /\ \A j \in Ids : SameService(j)
      /\ service' \in [Ids -> Service \cup {None}]
      /\ service'[i] = v /\ \A j \in Ids \ {i} : service'[j] = service[j]
  BY <1>1, <1>2, <1>3, RecordMoves
<1>5. mutex' \in [Syncs -> Threads \cup {None}] /\ mutex'[s] = i
      /\ \A t \in Syncs \ {s} : mutex'[t] = mutex[t]
  BY <1>1, <1>2, Types DEF Threads
<1>6. TypeOK'
  BY <1>2, <1>4, <1>5, Types DEF TypeOK, Op, Calls
<1>7. MutexHeld'
  <2>1. Registered' = Registered
    BY <1>4, SameServices
  <2>2. ASSUME NEW j \in Registered, service'[j].pc = "owner"
        PROVE  mutex'[service'[j].owner] = j
    <3>1. CASE j = i
      BY <1>3, <1>4, <1>5, <3>1
    <3>2. CASE j # i
      <4>1. service'[j] = service[j] /\ mutex[service[j].owner] = j /\ service[j].owner \in Syncs
            /\ j \in Ids
        BY <1>4, <2>2, <3>2, Types DEF IInv, MutexHeld, Service
      <4>2. service[j].owner # s
        BY <1>1, <4>1, Numbers
      <4> QED BY <1>5, <4>1, <4>2
    <3> QED BY <3>1, <3>2
  <2>3. op.step \in {"start", "stop", "stopping", "unlock"} => mutex'[op.of] = App
    <3> SUFFICES ASSUME op.step \in {"start", "stop", "stopping", "unlock"}
                 PROVE  mutex'[op.of] = App
      OBVIOUS
    <3>1. mutex[op.of] = App /\ op.of \in Syncs
      BY Types DEF IInv, MutexHeld, Calls
    <3>2. op.of # s
      BY <1>1, <3>1, Numbers
    <3> QED BY <1>5, <3>1, <3>2
  <2> QED BY <1>2, <2>1, <2>2, <2>3 DEF MutexHeld
<1> QED BY <1>2, <1>4, <1>6, <1>7, QuietGood

-----------------------------------------------------------------------------
(* A service is erased                                                      *)

\* Of the locks, the looper only gives back its own.
LEMMA EraseLocks ==
    ASSUME IInv, NEW i \in Ids, Erase(i)
    PROVE  /\ i \in Registered /\ service[i] \in Service /\ service[i].owner \in Syncs
           /\ mutex[service[i].owner] = i
           /\ op.step \in {"start", "stop", "stopping", "unlock"} => op.of # service[i].owner
<1>1. i \in Registered /\ service[i] \in Service /\ service[i].pc = "owner"
  BY Types DEF Erase, EraseStopping
<1>2. mutex[service[i].owner] = i /\ service[i].owner \in Syncs
  BY <1>1 DEF IInv, MutexHeld, Service
<1>3. op.step \in {"start", "stop", "stopping", "unlock"} => mutex[op.of] = App
  BY DEF IInv, MutexHeld
<1>4. i # App
  BY Numbers
<1> QED BY <1>1, <1>2, <1>3, <1>4

LEMMA EraseServices ==
    ASSUME IInv, NEW i \in Ids, Erase(i)
    PROVE  /\ service'[i] = None
           /\ \A j \in Ids \ {i} : SameService(j)
           /\ \A j \in Ids \ {i} : service[j] # None => service'[j].pc = service[j].pc
           /\ service' \in [Ids -> Service \cup {None}]
           /\ Registered' = Registered \ {i}
           /\ \A s : ServicesOf(s)' = ServicesOf(s) \ {i}
<1> DEFINE stops == Disabled(service[i].owner)
<1>1. service' = [j \in Ids |-> IF j = i THEN None
                                ELSE IF j \in stops THEN Stopped(service[j])
                                ELSE service[j]]
  BY DEF Erase, EraseStopping
<1>2. \A j \in Ids : service[j] \in Service \cup {None}
  BY Types
<1>3. stops \subseteq Registered
  BY DEF Disabled
<1>4. ASSUME NEW j \in Ids, service[j] \in Service
      PROVE  /\ Stopped(service[j]) \in Service
             /\ Stopped(service[j]).owner = service[j].owner
             /\ Stopped(service[j]).kind = service[j].kind
             /\ Stopped(service[j]).pc = service[j].pc
  BY <1>4 DEF Stopped, Service
<1> HIDE DEF stops
<1>5. \A j \in Ids \ {i} :
         \/ service'[j] = service[j]
         \/ service[j] # None /\ service[j] \in Service /\ service'[j] = Stopped(service[j])
  BY <1>1, <1>2, <1>3 DEF Registered
<1>6. \A j \in Ids \ {i} : SameService(j)
  BY <1>4, <1>5, NoneAssumption DEF SameService
<1>7. \A j \in Ids \ {i} : service[j] # None => service'[j].pc = service[j].pc
  BY <1>4, <1>5
<1>8. service'[i] = None
  BY <1>1
<1>9. service' \in [Ids -> Service \cup {None}]
  <2>1. \A j \in Ids : service'[j] \in Service \cup {None}
    BY <1>2, <1>4, <1>5, <1>8
  <2> QED BY <1>1, <2>1
<1>10. Registered' = Registered \ {i}
  BY <1>6, <1>8 DEF Registered, SameService
<1>11. ASSUME NEW s PROVE ServicesOf(s)' = ServicesOf(s) \ {i}
  <2>1. \A j \in Registered \ {i} : service'[j].owner = service[j].owner
    BY <1>6 DEF Registered, SameService
  <2> QED BY <1>10, <2>1 DEF ServicesOf
<1> QED BY <1>6, <1>7, <1>8, <1>9, <1>10, <1>11

LEMMA EraseSync ==
    ASSUME IInv, NEW i \in Ids, Erase(i), NEW s, s = service[i].owner
    PROVE  /\ sync' \in [Syncs -> Sync]
           /\ \A t \in Syncs \ {s} : sync'[t] = sync[t]
           /\ sync'[s].partial = sync[s].partial
           /\ sync[s].state = "freed" => sync'[s] = sync[s]
           /\ sync[s].state # "freed" =>
                /\ ~sync'[s].syncing
                /\ sync[s].running > -MaxUnderrun => sync'[s].running = sync[s].running - 1
                /\ sync[s].running <= -MaxUnderrun => sync'[s].running = sync[s].running
                /\ sync'[s].state # sync[s].state =>
                      sync[s].state = "deleted" /\ sync[s].running - 1 <= 0
                /\ sync'[s].state = "deleted" =>
                      sync[s].state = "deleted" /\ sync[s].running - 1 > 0
<1>1. s \in Syncs /\ sync \in [Syncs -> Sync] /\ sync[s] \in Sync
  BY Types, EraseLocks
<1> DEFINE last == sync[s].running - 1 <= 0
           running == IF sync[s].running > -MaxUnderrun THEN sync[s].running - 1
                      ELSE sync[s].running
           id == IF last THEN [sync[s].id EXCEPT !["ts"] = -1, !["cii"] = -1] ELSE sync[s].id
           state == IF last /\ sync[s].state = "deleted" THEN "freed" ELSE sync[s].state
           q == [sync[s] EXCEPT !.syncing = FALSE, !.running = running, !.id = id,
                                !.state = state]
<1>2. sync' = IF sync[s].state = "freed" THEN sync ELSE [sync EXCEPT ![s] = q]
  BY DEF Erase, EraseStopping
<1>3. running \in (-MaxUnderrun)..Cardinality(Kinds)
  BY <1>1, Numbers DEF Sync
<1>4. id \in [Kinds -> Ids \cup {-1}]
  BY <1>1 DEF Sync
<1>5. state \in {"new", "active", "deleted", "freed"}
      /\ (state # sync[s].state => sync[s].state = "deleted" /\ sync[s].running - 1 <= 0)
      /\ (state = "deleted" => sync[s].state = "deleted" /\ sync[s].running - 1 > 0)
  <2>1. sync[s].running \in Int
    BY <1>1, Numbers DEF Sync
  <2> QED BY <1>1, <2>1 DEF Sync
<1>6. /\ sync[s].running > -MaxUnderrun => running = sync[s].running - 1
      /\ sync[s].running <= -MaxUnderrun => running = sync[s].running
  <2>1. sync[s].running \in Int /\ MaxUnderrun \in Int
    BY <1>1, Numbers DEF Sync
  <2> QED BY <2>1
<1> HIDE DEF running, id, state
<1>7. q \in Sync /\ q.partial = sync[s].partial /\ ~q.syncing /\ q.running = running
      /\ q.state = state
  BY <1>1, <1>3, <1>4, <1>5 DEF Sync
<1> HIDE DEF q
<1>8. CASE sync[s].state = "freed"
  BY <1>1, <1>2, <1>8
<1>9. CASE sync[s].state # "freed"
  <2>1. sync'[s] = q /\ sync' \in [Syncs -> Sync] /\ \A t \in Syncs \ {s} : sync'[t] = sync[t]
    BY <1>1, <1>2, <1>7, <1>9
  <2> QED BY <1>5, <1>6, <1>7, <1>9, <2>1
<1> QED BY <1>8, <1>9

LEMMA EraseGood ==
    ASSUME IInv, NEW i \in Ids, Erase(i)
    PROVE  IInv'
<1> DEFINE s == service[i].owner
<1>1. /\ i \in Registered /\ s \in Syncs /\ mutex[s] = i
      /\ op.step \in {"start", "stop", "stopping", "unlock"} => op.of # s
  BY EraseLocks
<1>2. /\ service'[i] = None
      /\ \A j \in Ids \ {i} : SameService(j)
      /\ \A j \in Ids \ {i} : service[j] # None => service'[j].pc = service[j].pc
      /\ service' \in [Ids -> Service \cup {None}]
      /\ Registered' = Registered \ {i}
      /\ \A t : ServicesOf(t)' = ServicesOf(t) \ {i}
  BY EraseServices
<1>3. /\ sync' \in [Syncs -> Sync]
      /\ \A t \in Syncs \ {s} : sync'[t] = sync[t]
      /\ sync'[s].partial = sync[s].partial
      /\ sync[s].state = "freed" => sync'[s] = sync[s]
      /\ sync[s].state # "freed" =>
           /\ ~sync'[s].syncing
           /\ sync[s].running > -MaxUnderrun => sync'[s].running = sync[s].running - 1
           /\ sync[s].running <= -MaxUnderrun => sync'[s].running = sync[s].running
           /\ sync'[s].state # sync[s].state =>
                 sync[s].state = "deleted" /\ sync[s].running - 1 <= 0
           /\ sync'[s].state = "deleted" =>
                 sync[s].state = "deleted" /\ sync[s].running - 1 > 0
  BY EraseSync
<1>4. /\ UNCHANGED <<leaked, op, faults>> /\ mutex' = [mutex EXCEPT ![s] = None]
      /\ mgr' \in {App, None}
  BY DEF Erase, EraseStopping, Release
<1>5. i \in ServicesOf(s) /\ \A t \in Syncs \ {s} : i \notin ServicesOf(t)
  BY <1>1 DEF ServicesOf
<1>6. \A t \in Syncs \ {s} : ServicesOf(t)' = ServicesOf(t)
  BY <1>2, <1>5
<1>7. ASSUME NEW t \in Syncs \ {s}, NEW k, Owns(t, k) PROVE Owns(t, k)'
  <2>1. \A j \in ServicesOf(t) : SameService(j)
    BY <1>2, <1>5, ServicesFinite
  <2>2. sync'[t].id[k] = sync[t].id[k]
    BY <1>3
  <2> QED BY <1>7, <2>1, <2>2, OwnsKept
<1>8. /\ \A j \in Registered' : /\ j \in Ids \ {i} /\ j \in Registered
                                /\ service'[j].owner = service[j].owner
                                /\ service'[j].pc = service[j].pc
                                /\ service[j].owner \in Syncs
  BY <1>2, Types DEF Registered, SameService, Service
<1> HIDE DEF s
<1>9. TypeOK'
  BY <1>1, <1>2, <1>3, <1>4, Types DEF TypeOK, Op, Calls, Threads
<1>10. MutexHeld'
  <2>1. mutex' \in [Syncs -> Threads \cup {None}] /\ \A t \in Syncs \ {s} : mutex'[t] = mutex[t]
    BY <1>4, Types
  <2>2. ASSUME NEW j \in Registered', service'[j].pc = "owner"
        PROVE  mutex'[service'[j].owner] = j
    <3>1. mutex[service[j].owner] = j
      BY <1>8, <2>2 DEF IInv, MutexHeld
    <3>2. service[j].owner # s
      BY <1>1, <1>8, <3>1
    <3> QED BY <1>8, <2>1, <3>1, <3>2
  <2>3. op.step \in {"start", "stop", "stopping", "unlock"} => mutex'[op.of] = App
    BY <1>1, <2>1, Types DEF IInv, MutexHeld, Calls
  <2> QED BY <1>4, <2>2, <2>3 DEF MutexHeld
<1>11. EnabledWhileActive'
  <2>1. op.call = "enable" => sync[op.of].state = "active" /\ op.of \in Syncs
    BY Types DEF IInv, EnabledWhileActive, Calls
  <2>2. op.call = "enable" => sync'[op.of].state = "active"
    BY <1>3, <2>1
  <2> QED BY <1>4, <2>2 DEF IInv, EnabledWhileActive
<1>12. SyncingOwns'
  <2> SUFFICES ASSUME NEW t \in Syncs, sync'[t].syncing
               PROVE  /\ sync'[t].state = "active" /\ sync'[t].running = 3
                      /\ \A k \in Kinds : Owns(t, k)'
    BY DEF SyncingOwns
  <2>1. t # s
    BY <1>1, <1>3 DEF IInv, SyncingOwns
  <2>2. /\ sync[t].state = "active" /\ sync[t].running = 3
        /\ \A k \in Kinds : Owns(t, k)
    BY <1>3, <2>1 DEF IInv, SyncingOwns
  <2> QED BY <1>3, <1>7, <2>1, <2>2
<1>13. StoppingOwns'
  <2>1. ASSUME op.step \in {"stop", "stopping"}, NEW t, t = op.of, NEW k \in Kinds
        PROVE  Owns(t, k)'
    <3>1. t \in Syncs \ {s}
      BY <1>1, <2>1, Types DEF Calls
    <3>2. Owns(t, k)
      BY <2>1 DEF IInv, StoppingOwns
    <3> QED BY <1>7, <3>1, <3>2
  <2>2. op' = op
    BY <1>4
  <2> QED BY <2>1, <2>2 DEF StoppingOwns
<1>14. EnablingOwns'
  <2>1. ASSUME op.step = "start", NEW t, t = op.of
        PROVE  /\ \A k \in Before(op.kind) : sync'[t].id[k] # -1 => Owns(t, k)'
               /\ sync'[t].running <= 0
               /\ ~sync'[t].partial =>
                     /\ sync'[t].running = 0
                     /\ \A j \in ServicesOf(t)' : \E k \in Before(op.kind) :
                           j = sync'[t].id[k]
    <3>1. t \in Syncs \ {s}
      BY <1>1, <2>1, Types DEF Calls
    <3>2. sync'[t] = sync[t] /\ ServicesOf(t)' = ServicesOf(t)
      BY <1>3, <1>6, <3>1
    <3>3. /\ \A k \in Before(op.kind) : sync[t].id[k] # -1 => Owns(t, k)
          /\ sync[t].running <= 0
          /\ ~sync[t].partial =>
                /\ sync[t].running = 0
                /\ \A j \in ServicesOf(t) : \E k \in Before(op.kind) : j = sync[t].id[k]
      BY <2>1 DEF IInv, EnablingOwns
    <3> QED BY <1>7, <3>1, <3>2, <3>3
  <2>2. op' = op
    BY <1>4
  <2> QED BY <2>1, <2>2 DEF EnablingOwns
<1>15. RunningServicesCounted'
  <2> SUFFICES ASSUME NEW t \in Syncs, ~sync'[t].partial, ~Enabling(t)'
               PROVE  sync'[t].running = Cardinality(ServicesOf(t)')
    BY DEF RunningServicesCounted
  <2>1. ~Enabling(t) /\ ~sync[t].partial
    BY <1>3, <1>4 DEF Enabling
  <2>2. sync[t].running = Cardinality(ServicesOf(t))
    BY <2>1 DEF IInv, RunningServicesCounted
  <2>3. CASE t # s
    BY <1>3, <1>6, <2>2, <2>3
  <2>4. CASE t = s
    <3>1. sync[s].state # "freed"
      BY <1>1, <2>1, <2>4 DEF IInv, OwnerOutlivesServices, s
    <3>2. Cardinality(ServicesOf(s) \ {i}) = Cardinality(ServicesOf(s)) - 1
          /\ Cardinality(ServicesOf(s)) # 0 /\ Cardinality(ServicesOf(s)) \in Nat
      BY <1>5, ServicesFinite, FS_RemoveElement, FS_EmptySet
    <3>3. sync[s].running > -MaxUnderrun
      BY <2>2, <2>4, <3>2, Numbers
    <3> QED BY <1>2, <1>3, <2>2, <2>4, <3>1, <3>2, <3>3
  <2> QED BY <2>3, <2>4
<1>16. OwnerOutlivesServices'
  <2> SUFFICES ASSUME NEW j \in Registered', ~sync'[service[j].owner].partial,
                      sync'[service[j].owner].state = "freed"
               PROVE  FALSE
    BY <1>8 DEF OwnerOutlivesServices
  <2> DEFINE t == service[j].owner
  <2>1. t \in Syncs /\ j \in Registered /\ j # i /\ j \in ServicesOf(t)
    BY <1>8 DEF ServicesOf
  <2>2. ~sync[t].partial /\ sync[t].state # "freed"
    BY <1>3, <2>1 DEF IInv, OwnerOutlivesServices
  <2>3. t = s /\ sync[s].state = "deleted" /\ sync[s].running - 1 <= 0
    BY <1>3, <2>1, <2>2
  <2>4. ~Enabling(s)
    BY <1>1 DEF Enabling
  <2>5. sync[s].running = Cardinality(ServicesOf(s))
    BY <1>1, <2>2, <2>3, <2>4 DEF IInv, RunningServicesCounted
  <2>6. Cardinality(ServicesOf(s)) >= 2
    <3>1. {i, j} \in SUBSET ServicesOf(s)
      BY <1>5, <2>1, <2>3
    <3>2. Cardinality({i} \cup {j}) = 2
      <4>1. IsFiniteSet({i}) /\ Cardinality({i}) = 1 /\ j \notin {i}
        BY <2>1, FS_Singleton
      <4> QED BY <4>1, FS_AddElement
    <3>3. {i} \cup {j} = {i, j}
      OBVIOUS
    <3>4. Cardinality({i, j}) <= Cardinality(ServicesOf(s))
      BY <3>1, ServicesFinite, FS_Subset
    <3> QED BY <3>2, <3>3, <3>4, ServicesFinite
  <2> QED BY <2>3, <2>5, <2>6, ServicesFinite
<1>17. CallFits'
  <2>1. \A t \in Syncs : sync[t].state # "deleted" => sync'[t].state = sync[t].state
    BY <1>3
  <2>2. ASSUME op.step = "lock" PROVE sync'[op.of].state = "active"
    <3>1. sync[op.of].state = "active" /\ op.of \in Syncs
      BY <2>2, Types DEF IInv, CallFits, Calls
    <3> QED BY <2>1, <3>1
  <2>3. ASSUME op.next # None PROVE op.next # op.of /\ sync'[op.next].state = "new"
    <3>1. op.next # op.of /\ sync[op.next].state = "new" /\ op.next \in Syncs
      BY <2>3, Types DEF IInv, CallFits, Calls
    <3> QED BY <2>1, <3>1
  <2>4. op' = op
    BY <1>4
  <2> QED BY <2>2, <2>3, <2>4 DEF CallFits
<1>18. DeletedCounts'
  <2> SUFFICES ASSUME NEW t \in Syncs
               PROVE  /\ sync'[t].state # "freed" =>
                            sync'[t].running <= Cardinality(ServicesOf(t)')
                      /\ sync'[t].state = "deleted" => sync'[t].running > 0
    BY DEF DeletedCounts
  <2>1. /\ sync[t].state # "freed" => sync[t].running <= Cardinality(ServicesOf(t))
        /\ sync[t].state = "deleted" => sync[t].running > 0
    BY DEF IInv, DeletedCounts
  <2>2. CASE t # s
    BY <1>3, <1>6, <2>1, <2>2
  <2>3. CASE t = s
    <3>1. Cardinality(ServicesOf(s) \ {i}) = Cardinality(ServicesOf(s)) - 1
          /\ Cardinality(ServicesOf(s)) # 0 /\ Cardinality(ServicesOf(s)) \in Nat
      BY <1>5, ServicesFinite, FS_RemoveElement, FS_EmptySet
    <3>2. sync[s].running \in Int
      BY <1>1, Types, Numbers DEF Sync
    <3>3. ASSUME sync'[s].state # "freed"
          PROVE  sync'[t].running <= Cardinality(ServicesOf(t)')
      <4>1. sync[s].state # "freed"
        BY <1>3, <3>3
      <4>2. sync[s].running <= Cardinality(ServicesOf(s))
        BY <2>1, <2>3, <4>1
      <4>3. Cardinality(ServicesOf(t)') = Cardinality(ServicesOf(s)) - 1
        BY <1>2, <2>3, <3>1
      <4> QED BY <1>3, <2>3, <3>1, <3>2, <4>1, <4>2, <4>3, Numbers
    <3>4. ASSUME sync'[s].state = "deleted"
          PROVE  sync'[s].running > 0
      <4>1. sync[s].state # "freed"
        BY <1>3, <3>4
      <4>2. sync[s].running - 1 > 0
        BY <1>3, <3>4, <4>1
      <4> QED BY <1>3, <3>2, <4>1, <4>2, Numbers
    <3> QED BY <2>3, <3>3, <3>4
  <2> QED BY <2>2, <2>3
<1> QED BY <1>9, <1>10, <1>11, <1>12, <1>13, <1>14, <1>15, <1>16, <1>17, <1>18 DEF IInv

-----------------------------------------------------------------------------
(* The application's calls                                                  *)

\* The services, and who owns their ids, stay as they are.
LEMMA SameOwns ==
    ASSUME UNCHANGED service
    PROVE  /\ Registered' = Registered
           /\ \A t : ServicesOf(t)' = ServicesOf(t)
           /\ \A t, k : sync'[t].id = sync[t].id => (Owns(t, k)' <=> Owns(t, k))
<1>1. Registered' = Registered /\ \A t : ServicesOf(t)' = ServicesOf(t)
  BY DEF Registered, ServicesOf
<1> QED BY <1>1 DEF Owns

\* A step on the state of one synchroniser, that may end that it is syncing.
LEMMA StateGood ==
    ASSUME IInv, UNCHANGED service, NEW s \in Syncs, NEW q \in Sync,
           sync' = [sync EXCEPT ![s] = q],
           q.id = sync[s].id, q.running = sync[s].running, q.partial = sync[s].partial,
           q.syncing => sync[s].syncing /\ q.state = "active",
           q.state = "freed" => sync[s].state = "freed" \/ (q.running <= 0 /\ ~Enabling(s)),
           sync[s].state # "freed", q.state = "deleted" => q.running > 0, CallFits',
           \A t \in Syncs : Enabling(t) => Enabling(t)',
           TypeOK', MutexHeld', EnabledWhileActive', StoppingOwns', EnablingOwns'
    PROVE  IInv'
<1>1. sync'[s] = q /\ \A t \in Syncs \ {s} : sync'[t] = sync[t]
  BY Types
<1>2. /\ Registered' = Registered /\ \A t : ServicesOf(t)' = ServicesOf(t)
      /\ \A t \in Syncs : sync'[t].id = sync[t].id
  BY <1>1, SameOwns
<1>3. \A t \in Syncs : \A k : Owns(t, k) => Owns(t, k)'
  BY <1>2, SameOwns
<1>4. SyncingOwns'
  <2> SUFFICES ASSUME NEW t \in Syncs, sync'[t].syncing
               PROVE  /\ sync'[t].state = "active" /\ sync'[t].running = 3
                      /\ \A k \in Kinds : Owns(t, k)'
    BY DEF SyncingOwns
  <2>1. sync[t].syncing
    BY <1>1
  <2> QED BY <1>1, <1>3, <2>1 DEF IInv, SyncingOwns
<1>5. RunningServicesCounted'
  <2> SUFFICES ASSUME NEW t \in Syncs, ~sync'[t].partial, ~Enabling(t)'
               PROVE  sync'[t].running = Cardinality(ServicesOf(t)')
    BY DEF RunningServicesCounted
  <2>1. ~Enabling(t)
    OBVIOUS
  <2> QED BY <1>1, <1>2, <2>1 DEF IInv, RunningServicesCounted
<1>6. OwnerOutlivesServices'
  <2> SUFFICES ASSUME NEW i \in Registered, ~sync'[service[i].owner].partial,
                      sync'[service[i].owner].state = "freed"
               PROVE  FALSE
    BY <1>2 DEF OwnerOutlivesServices
  <2>1. service[i].owner \in Syncs /\ i \in ServicesOf(service[i].owner)
    BY Types DEF Service, ServicesOf
  <2>2. CASE sync[service[i].owner].state = "freed"
    BY <1>1, <2>1, <2>2 DEF IInv, OwnerOutlivesServices
  <2>3. CASE sync[service[i].owner].state # "freed"
    <3>1. service[i].owner = s /\ q.running <= 0 /\ ~Enabling(s) /\ ~sync[s].partial
      BY <1>1, <2>1, <2>3
    <3>2. Cardinality(ServicesOf(s)) <= 0
      BY <3>1 DEF IInv, RunningServicesCounted
    <3> QED BY <2>1, <3>1, <3>2, ServicesFinite, FS_EmptySet
  <2> QED BY <2>2, <2>3
<1>7. DeletedCounts'
  BY <1>1, <1>2 DEF IInv, DeletedCounts
<1> QED BY <1>4, <1>5, <1>6, <1>7 DEF IInv

\* The application's thread takes an m_mutex, or gives it back.
LEMMA MutexMoves ==
    ASSUME IInv, UNCHANGED service, NEW s \in Syncs, mutex[s] \in {None, App},
           NEW m \in {None, App}, mutex' = [mutex EXCEPT ![s] = m],
           op'.step \in {"start", "stop", "stopping", "unlock"} => op'.of = s /\ m = App
    PROVE  MutexHeld' /\ mutex' \in [Syncs -> Threads \cup {None}]
<1>1. mutex' \in [Syncs -> Threads \cup {None}] /\ mutex'[s] = m
      /\ \A t \in Syncs \ {s} : mutex'[t] = mutex[t]
  BY Types DEF Threads
<1>2. ASSUME NEW i \in Registered, service[i].pc = "owner"
      PROVE  mutex'[service[i].owner] = i
  <2>1. mutex[service[i].owner] = i /\ service[i].owner \in Syncs /\ i \in Ids
    BY <1>2, Types DEF IInv, MutexHeld, Service
  <2>2. service[i].owner # s
    BY <2>1, Numbers
  <2> QED BY <1>1, <2>1, <2>2
<1>3. Registered' = Registered
  BY SameOwns
<1> QED BY <1>1, <1>2, <1>3 DEF MutexHeld

LEMMA NewCallGood ==
    ASSUME IInv, op = Idle, UNCHANGED <<sync, service, mutex, mgr, leaked, faults>>,
           op' \in Calls, op'.step = "lock", sync[op'.of].state = "active",
           op'.next # None => op'.next # op'.of /\ sync[op'.next].state = "new"
    PROVE  IInv'
<1>1. TypeOK'
  BY Types, TypeIs DEF TypeOK, Op, Calls
<1>2. Registered' = Registered
  BY SameOwns
<1>3. MutexHeld' /\ EnabledWhileActive' /\ CallFits'
  BY <1>2 DEF IInv, MutexHeld, EnabledWhileActive, CallFits
<1>4. \A j \in Ids : SameService(j)
  BY DEF SameService
<1>5. op.step # "start"
  BY Types
<1> QED BY <1>1, <1>3, <1>4, <1>5, CallMovesGood

LEMMA CallGood ==
    ASSUME IInv, NEW s \in Syncs, NEW call \in {"enable", "disable", "delete"}, Call(call, s)
    PROVE  IInv'
<1> DEFINE o == [call |-> call, of |-> s, step |-> "lock", kind |-> None, next |-> None]
<1>1. op' = o /\ op = Idle /\ sync[s].state = "active"
      /\ UNCHANGED <<sync, service, mutex, mgr, leaked, faults>>
  BY DEF Call
<1>2. o \in Calls /\ o.step = "lock" /\ o.of = s /\ o.next = None
  BY DEF Calls
<1> HIDE DEF o
<1> QED BY <1>1, <1>2, NewCallGood

LEMMA InitSynchroniserGood ==
    ASSUME IInv, NEW s \in Syncs, InitMediaSynchroniser(s)
    PROVE  IInv'
<1> DEFINE active == {t \in Syncs : sync[t].state = "active"}
<1>1. op = Idle /\ UNCHANGED <<service, mutex, mgr, leaked, faults>>
      /\ op.step = "none" /\ op.call = "none" /\ op.next = None
      /\ sync[s].state = "new"
  BY Types DEF InitMediaSynchroniser
<1>2. CASE active = {}
  <2> DEFINE q == [sync[s] EXCEPT !.state = "active"]
  <2>1. sync' = [sync EXCEPT ![s] = q] /\ op' = Idle
    BY <1>2 DEF InitMediaSynchroniser
  <2>2. /\ q \in Sync /\ q.id = sync[s].id /\ q.running = sync[s].running
        /\ q.partial = sync[s].partial /\ q.syncing = sync[s].syncing /\ q.state = "active"
    BY Types DEF Sync
  <2> HIDE DEF q
  <2>3. TypeOK'
    BY <1>1, <2>1, <2>2, Types DEF TypeOK, Op, Calls
  <2>4. Registered' = Registered
    BY <1>1, SameOwns
  <2>5. MutexHeld' /\ EnabledWhileActive' /\ StoppingOwns' /\ EnablingOwns' /\ CallFits'
    BY <1>1, <2>1, <2>4
       DEF IInv, MutexHeld, EnabledWhileActive, StoppingOwns, EnablingOwns, CallFits
  <2>6. \A t \in Syncs : ~Enabling(t)
    BY <1>1 DEF Enabling
  <2> QED BY <1>1, <2>1, <2>2, <2>3, <2>5, <2>6, StateGood
<1>3. CASE active # {}
  <2> DEFINE o == [call |-> "delete", of |-> CHOOSE t \in active : TRUE,
                   step |-> "lock", kind |-> None, next |-> s]
  <2>1. op' = o /\ sync' = sync
    BY <1>3 DEF InitMediaSynchroniser
  <2>2. o \in Calls /\ o.step = "lock" /\ o.of \in active /\ o.next = s
    BY <1>3 DEF Calls
  <2>3. sync[o.of].state = "active" /\ o.of # s
    BY <1>1, <2>2
  <2> HIDE DEF o
  <2> QED BY <1>1, <2>1, <2>2, <2>3, NewCallGood
<1> QED BY <1>2, <1>3

LEMMA UnlockGood ==
    ASSUME IInv, Unlock
    PROVE  IInv'
<1>1. /\ op \in Calls /\ op.step = "unlock" /\ op' = Idle /\ op.of \in Syncs
      /\ mutex[op.of] = App /\ mutex' = [mutex EXCEPT ![op.of] = None]
      /\ UNCHANGED <<service, mgr, leaked, faults>>
  BY Types DEF Unlock, IInv, MutexHeld, Calls
<1>2. op'.step = "none" /\ op'.call = "none" /\ op'.next = None
  BY <1>1 DEF Idle
<1>3. MutexHeld' /\ mutex' \in [Syncs -> Threads \cup {None}]
  BY <1>1, <1>2, MutexMoves
<1>4. EnabledWhileActive' /\ StoppingOwns' /\ EnablingOwns' /\ CallFits'
  BY <1>2 DEF EnabledWhileActive, StoppingOwns, EnablingOwns, CallFits
<1>5. CASE op.next = None
  <2>1. UNCHANGED sync
    BY <1>5 DEF Unlock
  <2>2. TypeOK'
    BY <1>1, <1>3, <2>1, Types DEF TypeOK, Op, Calls
  <2>3. \A j \in Ids : SameService(j)
    BY <1>1 DEF SameService
  <2> QED BY <1>1, <1>2, <1>3, <1>4, <2>1, <2>2, <2>3, CallMovesGood
<1>6. CASE op.next # None
  <2> DEFINE s == op.next
             q == [sync[s] EXCEPT !.state = "active"]
  <2>1. s \in Syncs /\ sync[s].state = "new"
    BY <1>1, <1>6 DEF Calls, IInv, CallFits
  <2>2. sync' = [sync EXCEPT ![s] = q]
    BY <1>6 DEF Unlock
  <2>3. /\ q \in Sync /\ q.id = sync[s].id /\ q.running = sync[s].running
        /\ q.partial = sync[s].partial /\ q.syncing = sync[s].syncing /\ q.state = "active"
    BY <2>1, Types DEF Sync
  <2> HIDE DEF q
  <2>4. TypeOK'
    BY <1>1, <1>3, <2>1, <2>2, <2>3, Types DEF TypeOK, Op, Calls
  <2>5. \A t \in Syncs : ~Enabling(t)
    BY <1>1 DEF Enabling
  <2> HIDE DEF s
  <2> QED BY <1>1, <1>3, <1>4, <2>1, <2>2, <2>3, <2>4, <2>5, StateGood
<1> QED BY <1>5, <1>6

LEMMA StopServiceGood ==
    ASSUME IInv, NEW k \in Kinds, StopService(k)
    PROVE  IInv'
<1>1. op \in Calls /\ op.step = "stop" /\ op' = At("stopping", k) /\ mgr' = App
      /\ UNCHANGED <<sync, service, mutex, leaked, faults>>
  BY Types DEF StopService
<1>2. /\ op' \in Calls /\ op'.step = "stopping" /\ op'.of = op.of /\ op'.call = op.call
      /\ op'.next = op.next
  BY <1>1, AtType
<1>3. TypeOK'
  BY <1>1, <1>2, Types DEF TypeOK, Op, Calls, Threads
<1>4. Registered' = Registered
  BY <1>1, SameOwns
<1>5. MutexHeld'
  BY <1>1, <1>2, <1>4 DEF IInv, MutexHeld
<1>6. EnabledWhileActive' /\ CallFits'
  BY <1>1, <1>2 DEF IInv, EnabledWhileActive, CallFits
<1>7. \A j \in Ids : SameService(j)
  BY <1>1 DEF SameService
<1> QED BY <1>1, <1>2, <1>3, <1>5, <1>6, <1>7, CallMovesGood

LEMMA StopFoundGood ==
    ASSUME IInv, NEW k \in Kinds, StopFound(k)
    PROVE  IInv'
<1> DEFINE i == sync[op.of].id[k]
<1>1. op \in Calls /\ op.step = "stopping" /\ mgr' \in {App, None}
      /\ UNCHANGED <<sync, mutex, leaked, faults>>
  BY Types DEF StopFound, Release
<1>2. /\ op' \in Calls /\ op'.of = op.of /\ op'.call = op.call /\ op'.next = op.next
      /\ op'.step \in {"stop", "unlock"}
  <2>1. op' \in {At("stop", "cii"), At("stop", "wc"), At("unlock", None)}
    BY DEF StopFound, Kinds
  <2> QED BY <1>1, <2>1, AtType DEF Kinds
<1>3. service' \in [Ids -> Service \cup {None}] /\ (\A j \in Ids : SameService(j))
      /\ \A j \in Registered : service'[j].pc = service[j].pc
  <2>1. CASE i \in Registered
    <3> DEFINE v == Stopped(service[i])
    <3>1. v \in Service /\ v.owner = service[i].owner /\ v.kind = service[i].kind
          /\ v.pc = service[i].pc
      BY <2>1, Types DEF Stopped, Service
    <3>2. service' = [service EXCEPT ![i] = v]
      BY <2>1 DEF StopFound
    <3> HIDE DEF v, i
    <3>3. /\ \A j \in Ids : SameService(j)
          /\ service' \in [Ids -> Service \cup {None}]
          /\ service'[i] = v /\ \A j \in Ids \ {i} : service'[j] = service[j]
      BY <2>1, <3>1, <3>2, RecordMoves
    <3> QED BY <3>1, <3>3 DEF Registered
  <2>2. CASE i \notin Registered
    <3>1. service' = service
      BY <2>2 DEF StopFound
    <3> QED BY <3>1, Types DEF SameService
  <2> QED BY <2>1, <2>2
<1>4. TypeOK'
  BY <1>1, <1>2, <1>3, Types DEF TypeOK, Op, Calls, Threads
<1>5. MutexHeld'
  <2>1. /\ Registered' = Registered
        /\ \A j \in Registered : service'[j].owner = service[j].owner
    BY <1>3, SameServices
  <2> QED BY <1>1, <1>2, <1>3, <2>1 DEF IInv, MutexHeld
<1>6. EnabledWhileActive' /\ CallFits'
  BY <1>1, <1>2 DEF IInv, EnabledWhileActive, CallFits
<1> QED BY <1>1, <1>2, <1>3, <1>4, <1>5, <1>6, CallMovesGood

LEMMA LockGood ==
    ASSUME IInv, Lock
    PROVE  IInv'
<1> DEFINE s == op.of
           stops == sync[s].syncing /\ op.call # "enable"
           frees == op.call = "delete" /\ sync[s].running <= 0
           q == [sync[s] EXCEPT !.state = IF frees THEN "freed"
                                          ELSE IF op.call = "delete" THEN "deleted" ELSE @,
                                !.syncing = @ /\ ~(stops /\ ~frees)]
<1>1. /\ op \in Calls /\ op.step = "lock" /\ s \in Syncs /\ mutex[s] = None
      /\ mutex' = [mutex EXCEPT ![s] = App] /\ sync' = [sync EXCEPT ![s] = q]
      /\ UNCHANGED <<service, mgr, leaked, faults>>
  BY Types DEF Lock, Calls
<1>2. /\ sync[s] \in Sync /\ op.call \in {"enable", "disable", "delete"}
      /\ sync[s].running \in Int
  BY <1>1, Types, Numbers DEF Sync, Calls
<1>3. /\ sync[s].syncing => sync[s].state = "active" /\ sync[s].running = 3
      /\ sync[s].state = "active"
  BY <1>1 DEF IInv, SyncingOwns, CallFits
<1>4. stops => ~frees
  BY <1>3
<1>5. /\ q \in Sync /\ q.id = sync[s].id /\ q.running = sync[s].running
      /\ q.partial = sync[s].partial
      /\ q.syncing => sync[s].syncing /\ ~stops
      /\ q.state = IF frees THEN "freed"
                   ELSE IF op.call = "delete" THEN "deleted" ELSE sync[s].state
  BY <1>2, <1>4 DEF Sync
<1>6. q.syncing => q.state = "active"
  BY <1>3, <1>5, <1>2
<1>7. \A t \in Syncs : ~Enabling(t)
  BY <1>1 DEF Enabling
<1>8. q.state = "freed" => sync[s].state = "freed" \/ (q.running <= 0 /\ ~Enabling(s))
  BY <1>1, <1>5, <1>7
<1>9. /\ op' \in Calls /\ op'.of = s /\ op'.call = op.call /\ op'.next = op.next
      /\ op'.step \in {"start", "stop", "unlock"}
      /\ op'.step = "start" =>
            op.call = "enable" /\ sync[s].running <= 0 /\ op'.kind = "wc"
      /\ op'.step = "stop" => sync[s].syncing
  <2>1. \/ op' = At("start", "wc") /\ op.call = "enable" /\ sync[s].running <= 0
        \/ op' = At("stop", "ts") /\ sync[s].syncing
        \/ op' = At("unlock", None)
    BY DEF Lock
  <2> QED BY <1>1, <2>1, AtType DEF Kinds
<1>10. sync'[s] = q /\ \A t \in Syncs \ {s} : sync'[t] = sync[t]
  BY <1>1, Types
<1> HIDE DEF s, q
<1>11. MutexHeld' /\ mutex' \in [Syncs -> Threads \cup {None}]
  BY <1>1, <1>9, MutexMoves
<1>12. TypeOK'
  BY <1>1, <1>5, <1>9, <1>11, Types DEF TypeOK, Op, Calls
<1>13. EnabledWhileActive'
  <2>1. op.call = "enable" => sync[s].state = "active"
    BY DEF IInv, EnabledWhileActive, s
  <2> QED BY <1>5, <1>9, <1>10, <2>1 DEF EnabledWhileActive
<1>14. StoppingOwns'
  <2> SUFFICES ASSUME op'.step = "stop", NEW k \in Kinds PROVE Owns(s, k)'
    BY <1>9 DEF StoppingOwns, s
  <2>1. Owns(s, k)
    BY <1>1, <1>9 DEF IInv, SyncingOwns
  <2>2. sync'[s].id = sync[s].id /\ op'.of = op.of
    BY <1>5, <1>9, <1>10 DEF s
  <2> QED BY <1>1, <2>1, <2>2, SameOwns DEF s
<1>15. EnablingOwns'
  <2> SUFFICES ASSUME op'.step = "start"
               PROVE  /\ sync'[s].running <= 0
                      /\ ~sync'[s].partial => /\ sync'[s].running = 0
                                              /\ ServicesOf(s)' = {}
    BY <1>9 DEF EnablingOwns, Before, s
  <2>1. sync[s].running <= 0
    BY <1>9
  <2>2. ~sync[s].partial => sync[s].running = Cardinality(ServicesOf(s))
    BY <1>1, <1>7 DEF IInv, RunningServicesCounted
  <2>3. ~sync[s].partial => sync[s].running = 0 /\ ServicesOf(s) = {}
    BY <2>1, <2>2, ServicesFinite, FS_EmptySet
  <2>4. ServicesOf(s)' = ServicesOf(s)
    BY <1>1, <1>9, SameOwns DEF s
  <2> QED BY <1>5, <1>10, <2>1, <2>3, <2>4
<1>16. CallFits'
  <2>1. op.next # None =>
           op.next # s /\ sync[op.next].state = "new" /\ op.next \in Syncs
    BY <1>1 DEF IInv, CallFits, Calls, s
  <2> QED BY <1>9, <1>10, <2>1 DEF CallFits
<1>17. q.state = "deleted" => q.running > 0
  BY <1>2, <1>3, <1>5 DEF frees
<1>18. sync[s].state # "freed"
  BY <1>3
<1> QED BY <1>1, <1>5, <1>6, <1>7, <1>8, <1>11, <1>12, <1>13, <1>14, <1>15, <1>16, <1>17,
       <1>18, StateGood

-----------------------------------------------------------------------------
(* A service is started                                                     *)

\* A set of ids that is not empty has a lowest one.
LEMMA LowestId ==
    ASSUME NEW K \in SUBSET Ids, K # {}
    PROVE  \E i \in K : \A j \in K : i <= j
<1> DEFINE R == {ss \in Nat \X Nat : ss[1] < ss[2]}
<1>1. IsWellFoundedOn(R, Nat)
  BY NatLessThanWellFounded DEF OpToRel
<1>2. K \in SUBSET Nat
  BY Numbers
<1> HIDE DEF R
<1>3. PICK i \in K : \A j \in K : <<j, i>> \notin R
  BY <1>1, <1>2, WFMin
<1>4. \A j \in K : ~(j < i)
  BY <1>2, <1>3 DEF R
<1> QED BY <1>2, <1>4

\* NewServiceId hands out an id nobody has, unless all are taken.
LEMMA NewIdFree == NewServiceId \in {-1} \cup (Ids \ Registered)
<1>1. CASE Registered = Ids
  BY <1>1 DEF NewServiceId
<1>2. CASE Registered # Ids
  <2>1. Ids \ Registered # {}
    BY <1>2 DEF Registered
  <2>2. \E i \in Ids \ Registered : \A j \in Ids \ Registered : i <= j
    BY <2>1, LowestId
  <2>3. NewServiceId = CHOOSE i \in Ids \ Registered : \A j \in Ids \ Registered : i <= j
    BY <1>2 DEF NewServiceId
  <2> QED BY <2>2, <2>3
<1> QED BY <1>1, <1>2

\* Where the call that starts a service stands.
LEMMA Starting ==
    ASSUME IInv, op.step = "start", NEW s, s = op.of
    PROVE  /\ op \in Calls /\ s \in Syncs /\ op.call = "enable" /\ mutex[s] = App
           /\ sync[s] \in Sync /\ sync[s].state = "active" /\ ~sync[s].syncing
           /\ \A t \in Syncs : Enabling(t) <=> t = s
           /\ sync[s].running <= 0 /\ sync[s].running \in Int
           /\ \A k \in Before(op.kind) : sync[s].id[k] # -1 => Owns(s, k)
           /\ ~sync[s].partial =>
                 /\ sync[s].running = 0
                 /\ \A i \in ServicesOf(s) : \E k \in Before(op.kind) : i = sync[s].id[k]
<1>1. op \in Calls /\ s \in Syncs
  BY Types DEF Calls
<1>2. op.call = "enable" /\ sync[s].state = "active" /\ mutex[s] = App
  BY DEF IInv, EnabledWhileActive, MutexHeld
<1>3. /\ sync[s].running <= 0
      /\ \A k \in Before(op.kind) : sync[s].id[k] # -1 => Owns(s, k)
      /\ ~sync[s].partial =>
            /\ sync[s].running = 0
            /\ \A i \in ServicesOf(s) : \E k \in Before(op.kind) : i = sync[s].id[k]
  BY DEF IInv, EnablingOwns
<1>4. sync[s] \in Sync /\ sync[s].running \in Int
  BY <1>1, Types, Numbers DEF Sync
<1>5. ~sync[s].syncing
  BY <1>1, <1>3 DEF IInv, SyncingOwns
<1>6. \A t \in Syncs : Enabling(t) <=> t = s
  BY <1>2 DEF Enabling
<1> QED BY <1>1, <1>2, <1>3, <1>4, <1>5, <1>6

\* The service that a start of kind k adds, under id, -1 for none.
StartsService(id, k) ==
    service' = IF id = -1 THEN service ELSE [service EXCEPT ![id] = Started(k)]

LEMMA StartServices ==
    ASSUME IInv, op.step = "start", NEW k \in Kinds, NEW id \in {-1} \cup (Ids \ Registered),
           StartsService(id, k), NEW s, s = op.of
    PROVE  /\ service' \in [Ids -> Service \cup {None}]
           /\ \A j \in Registered : service'[j] = service[j] /\ SameService(j)
           /\ Registered' = Registered \cup ({id} \ {-1})
           /\ ServicesOf(s)' = ServicesOf(s) \cup ({id} \ {-1})
           /\ \A t : t # s => ServicesOf(t)' = ServicesOf(t)
           /\ id # -1 => /\ id \in Ids /\ id \notin Registered /\ service'[id].owner = s
                         /\ service'[id].kind = k /\ service'[id].pc = "loop"
<1>1. s \in Syncs /\ service \in [Ids -> Service \cup {None}]
  BY Starting, Types
<1>2. CASE id = -1
  <2>1. service' = service
    BY <1>2 DEF StartsService
  <2>2. Registered' = Registered /\ \A t : ServicesOf(t)' = ServicesOf(t)
    BY <2>1, SameOwns
  <2> QED BY <1>1, <1>2, <2>1, <2>2 DEF SameService
<1>3. CASE id # -1
  <2> DEFINE v == Started(k)
  <2>1. v \in Service /\ v.owner = s /\ v.kind = k /\ v.pc = "loop"
    BY <1>1 DEF Started, Service
  <2>2. service' = [service EXCEPT ![id] = v] /\ id \in Ids /\ id \notin Registered
    BY <1>3 DEF StartsService
  <2> HIDE DEF v
  <2>3. v # None
    BY <2>1, NoneAssumption
  <2>4. service'[id] = v /\ \A j \in Ids \ {id} : service'[j] = service[j]
    BY <1>1, <2>2
  <2>5. service' \in [Ids -> Service \cup {None}]
    BY <1>1, <2>1, <2>2
  <2>6. Registered' = Registered \cup {id}
    BY <2>2, <2>3, <2>4 DEF Registered
  <2>7. \A j \in Registered : service'[j] = service[j]
    BY <2>2, <2>4 DEF Registered
  <2>8. ServicesOf(s)' = ServicesOf(s) \cup {id}
    BY <2>1, <2>4, <2>6, <2>7 DEF ServicesOf
  <2>9. \A t : t # s => ServicesOf(t)' = ServicesOf(t)
    BY <2>1, <2>4, <2>6, <2>7 DEF ServicesOf
  <2> QED BY <1>3, <2>1, <2>2, <2>4, <2>5, <2>6, <2>7, <2>8, <2>9 DEF SameService
<1> QED BY <1>2, <1>3

\* What a step of enableInterDeviceSync on s keeps of everything else.
LEMMA StartRest ==
    ASSUME IInv, op.step = "start", NEW k \in Kinds, NEW id \in {-1} \cup (Ids \ Registered),
           StartsService(id, k), NEW s, s = op.of, NEW q \in Sync,
           sync' = [sync EXCEPT ![s] = q], q.state = sync[s].state,
           q.partial \in BOOLEAN, sync[s].partial => q.partial,
           q.syncing => q.running = 3 /\ \A kk \in Kinds : Owns(s, kk)',
           ~q.partial => Enabling(s)' \/ q.running = Cardinality(ServicesOf(s)'),
           q.running <= Cardinality(ServicesOf(s)'),
           op' \in Calls, op'.of = s, op'.call = "enable", op'.next = op.next,
           op'.step \in {"start", "unlock"}, EnablingOwns',
           UNCHANGED mutex, mgr' \in Threads \cup {None}, leaked' \in BOOLEAN,
           faults' \in 0..MaxFaults
    PROVE  IInv'
<1>1. /\ op \in Calls /\ s \in Syncs /\ op.call = "enable" /\ mutex[s] = App
      /\ sync[s] \in Sync /\ sync[s].state = "active"
      /\ \A t \in Syncs : Enabling(t) <=> t = s
  BY Starting
<1>2. /\ service' \in [Ids -> Service \cup {None}]
      /\ \A j \in Registered : service'[j] = service[j] /\ SameService(j)
      /\ Registered' = Registered \cup ({id} \ {-1})
      /\ \A t : t # s => ServicesOf(t)' = ServicesOf(t)
      /\ id # -1 => /\ service'[id].owner = s /\ service'[id].pc = "loop"
  BY StartServices
<1>3. sync' \in [Syncs -> Sync] /\ sync'[s] = q /\ \A t \in Syncs \ {s} : sync'[t] = sync[t]
  BY <1>1, Types
<1>4. TypeOK'
  BY <1>2, <1>3, Types DEF TypeOK, Op, Calls
<1>5. MutexHeld'
  BY <1>1, <1>2 DEF IInv, MutexHeld
<1>6. EnabledWhileActive'
  BY <1>1, <1>3 DEF EnabledWhileActive
<1>7. SyncingOwns'
  <2> SUFFICES ASSUME NEW t \in Syncs, sync'[t].syncing
               PROVE  /\ sync'[t].state = "active" /\ sync'[t].running = 3
                      /\ \A kk \in Kinds : Owns(t, kk)'
    BY DEF SyncingOwns
  <2>1. CASE t = s
    BY <1>1, <1>3, <2>1
  <2>2. CASE t # s
    <3>1. /\ sync[t].state = "active" /\ sync[t].running = 3
          /\ \A kk \in Kinds : Owns(t, kk)
      BY <1>3, <2>2 DEF IInv, SyncingOwns
    <3>2. \A j \in ServicesOf(t) : SameService(j)
      BY <1>2 DEF ServicesOf
    <3>3. \A kk \in Kinds : Owns(t, kk)'
      BY <1>3, <2>2, <3>1, <3>2, OwnsKept
    <3> QED BY <1>3, <2>2, <3>1, <3>3
  <2> QED BY <2>1, <2>2
<1>8. StoppingOwns'
  BY DEF StoppingOwns
<1>9. RunningServicesCounted'
  <2> SUFFICES ASSUME NEW t \in Syncs, ~sync'[t].partial, ~Enabling(t)'
               PROVE  sync'[t].running = Cardinality(ServicesOf(t)')
    BY DEF RunningServicesCounted
  <2>1. CASE t = s
    BY <1>3, <2>1
  <2>2. CASE t # s
    BY <1>1, <1>2, <1>3, <2>2 DEF IInv, RunningServicesCounted
  <2> QED BY <2>1, <2>2
<1>10. OwnerOutlivesServices'
  <2> SUFFICES ASSUME NEW i \in Registered', ~sync'[service'[i].owner].partial,
                      sync'[service'[i].owner].state = "freed"
               PROVE  FALSE
    BY DEF OwnerOutlivesServices
  <2>1. CASE i \in Registered
    <3>1. service'[i] = service[i] /\ service[i].owner \in Syncs
      BY <1>2, <2>1, Types DEF Service
    <3>2. CASE service[i].owner = s
      BY <1>1, <1>3, <3>1, <3>2
    <3>3. CASE service[i].owner # s
      BY <1>3, <2>1, <3>1, <3>3 DEF IInv, OwnerOutlivesServices
    <3> QED BY <3>2, <3>3
  <2>2. CASE i \notin Registered
    <3>1. service'[i].owner = s
      BY <1>2, <2>2
    <3> QED BY <1>1, <1>3, <3>1
  <2> QED BY <2>1, <2>2
<1>11. CallFits'
  <2>1. op.next # None =>
           op.next # s /\ sync[op.next].state = "new" /\ op.next \in Syncs
    BY <1>1 DEF IInv, CallFits, Calls
  <2> QED BY <1>3, <2>1 DEF CallFits
<1>12. DeletedCounts'
  <2> SUFFICES ASSUME NEW t \in Syncs
               PROVE  /\ sync'[t].state # "freed" =>
                            sync'[t].running <= Cardinality(ServicesOf(t)')
                      /\ sync'[t].state = "deleted" => sync'[t].running > 0
    BY DEF DeletedCounts
  <2>1. CASE t = s
    BY <1>1, <1>3, <2>1
  <2>2. CASE t # s
    BY <1>2, <1>3, <2>2 DEF IInv, DeletedCounts
  <2> QED BY <2>1, <2>2
<1> QED BY <1>4, <1>5, <1>6, <1>7, <1>8, <1>9, <1>10, <1>11, <1>12 DEF IInv

\* The count of a set of ids does not fall below zero.
LEMMA CountNat ==
    ASSUME NEW s
    PROVE  Cardinality(ServicesOf(s)') \in Nat
<1>1. ServicesOf(s)' \in SUBSET Ids
  BY DEF ServicesOf, Registered
<1> QED BY <1>1, Numbers, FS_Subset, FS_CardinalityType

LEMMA StartTypes ==
    ASSUME IInv, NEW k \in Kinds, NEW ok \in BOOLEAN, MayStart(k, ok)
    PROVE  faults' \in 0..MaxFaults
<1>1. faults \in 0..MaxFaults /\ MaxFaults \in Nat
  BY Types, CssAssumption
<1> QED BY <1>1 DEF MayStart

LEMMA StartServiceGood ==
    ASSUME IInv, NEW k \in Kinds, NEW ok \in BOOLEAN, StartService(k, ok), NEW s, s = op.of
    PROVE  IInv'
<1> DEFINE id == IF ok THEN NewServiceId ELSE -1
           q == [sync[s] EXCEPT !.id[k] = id]
           next == IF k = "wc" THEN "cii" ELSE "ts"
<1>1. /\ op.step = "start" /\ op.kind = k /\ k \in {"wc", "cii"} /\ MayStart(k, ok)
      /\ StartsService(id, k) /\ sync' = [sync EXCEPT ![s] = q]
      /\ op' = At("start", next) /\ UNCHANGED <<mutex, mgr, leaked>>
  BY DEF StartService, StartsService, Kinds
<1>2. id \in {-1} \cup (Ids \ Registered)
  BY NewIdFree
<1> HIDE DEF id
<1>3. /\ op \in Calls /\ s \in Syncs /\ op.call = "enable"
      /\ sync[s] \in Sync /\ sync[s].state = "active" /\ ~sync[s].syncing
      /\ sync[s].running <= 0
      /\ \A kk \in Before(k) : sync[s].id[kk] # -1 => Owns(s, kk)
      /\ ~sync[s].partial =>
            /\ sync[s].running = 0
            /\ \A i \in ServicesOf(s) : \E kk \in Before(k) : i = sync[s].id[kk]
  BY <1>1, Starting
<1>4. /\ q \in Sync /\ q.state = sync[s].state /\ q.partial = sync[s].partial
      /\ q.syncing = sync[s].syncing /\ q.running = sync[s].running
      /\ q.id[k] = id /\ \A kk \in Kinds \ {k} : q.id[kk] = sync[s].id[kk]
  BY <1>2, <1>3 DEF Sync
<1>5. sync'[s] = q
  BY <1>1, <1>3, Types
<1>6. /\ op' \in Calls /\ op'.step = "start" /\ op'.kind = next /\ op'.of = s
      /\ op'.call = "enable" /\ op'.next = op.next
  BY <1>1, <1>3, AtType DEF Kinds
<1> HIDE DEF q
<1>7. /\ \A j \in Registered : SameService(j) /\ service'[j] = service[j]
      /\ Registered' = Registered \cup ({id} \ {-1})
      /\ ServicesOf(s)' = ServicesOf(s) \cup ({id} \ {-1})
      /\ id # -1 => service'[id].kind = k
  BY <1>1, <1>2, StartServices
<1>8. Before(next) = Before(k) \cup {k} /\ k \notin Before(k) /\ Before(k) \subseteq Kinds
  BY <1>1 DEF Before, Kinds
<1> HIDE DEF next
<1>9. ASSUME NEW kk \in Before(next), sync'[s].id[kk] # -1
      PROVE  Owns(s, kk)'
  <2>1. CASE kk = k
    <3>1. id # -1 /\ id \in ServicesOf(s)' /\ service'[id].kind = k
      BY <1>4, <1>5, <1>7, <1>9, <2>1
    <3> QED BY <1>4, <1>5, <2>1, <3>1 DEF Owns
  <2>2. CASE kk \in Before(k)
    <3>1. Owns(s, kk) /\ sync'[s].id[kk] = sync[s].id[kk]
      BY <1>3, <1>4, <1>5, <1>8, <1>9, <2>2
    <3>2. \A j \in ServicesOf(s) : SameService(j)
      BY <1>7 DEF ServicesOf
    <3> QED BY <3>1, <3>2, OwnsKept
  <2> QED BY <1>8, <2>1, <2>2
<1>10. ASSUME ~sync'[s].partial, NEW i \in ServicesOf(s)'
       PROVE  \E kk \in Before(next) : i = sync'[s].id[kk]
  <2>1. CASE i \in ServicesOf(s)
    <3>1. PICK kk \in Before(k) : i = sync[s].id[kk]
      BY <1>3, <1>4, <1>5, <1>10, <2>1
    <3> QED BY <1>4, <1>5, <1>8, <3>1
  <2>2. CASE i = id
    BY <1>4, <1>5, <1>8, <2>2
  <2> QED BY <1>7, <2>1, <2>2
<1>11. EnablingOwns'
  <2>1. op'.of = s /\ op'.kind = next
    BY <1>6
  <2> QED BY <1>3, <1>4, <1>5, <1>9, <1>10, <2>1 DEF EnablingOwns
<1>12. Enabling(s)'
  BY <1>6 DEF Enabling
<1>13. q.partial \in BOOLEAN
  BY <1>4 DEF Sync
<1>14. s = op.of /\ faults' \in 0..MaxFaults /\ mgr' \in Threads \cup {None} /\ leaked' \in BOOLEAN
  BY <1>1, Types, StartTypes
<1>15. q.syncing => q.running = 3 /\ \A kk \in Kinds : Owns(s, kk)'
  BY <1>3, <1>4
<1>16. q.running <= Cardinality(ServicesOf(s)')
  <2>1. sync[s].running \in Int
    BY <1>3, Numbers DEF Sync
  <2> QED BY <1>3, <1>4, <2>1, CountNat
<1> QED BY <1>1, <1>2, <1>4, <1>6, <1>11, <1>12, <1>13, <1>14, <1>15, <1>16, StartRest

\* A set of services in which there is one of each kind.
LEMMA AtLeastThree ==
    ASSUME NEW S, IsFiniteSet(S), NEW table, NEW a \in S, NEW b \in S, NEW c \in S,
           table[a].kind = "wc", table[b].kind = "cii", table[c].kind = "ts"
    PROVE  3 <= Cardinality(S)
<1>1. a # b /\ a # c /\ b # c
  OBVIOUS
<1>2. Cardinality({a, b, c}) = 3
  BY <1>1, CardThree
<1>3. {a, b, c} \in SUBSET S
  OBVIOUS
<1> QED BY <1>2, <1>3, FS_Subset

\* A set of services of which there is one of each kind.
LEMMA OneOfEach ==
    ASSUME NEW S, NEW table, NEW a, NEW b, NEW c, S = {a, b, c},
           table[a].kind = "wc", table[b].kind = "cii", table[c].kind = "ts"
    PROVE  Cardinality(S) = 3
<1>1. a # b
  OBVIOUS
<1>2. a # c
  OBVIOUS
<1>3. b # c
  OBVIOUS
<1> QED BY <1>1, <1>2, <1>3, CardOfThree

LEMMA StartTimelineSyncServiceGood ==
    ASSUME IInv, NEW ok \in BOOLEAN, StartTimelineSyncService(ok), NEW s, s = op.of
    PROVE  IInv'
<1> DEFINE id == IF Found(sync[s].id["cii"], "cii") /\ ok THEN NewServiceId ELSE -1
           ids == [sync[s].id EXCEPT !["ts"] = id]
           all == \A k \in Kinds : ids[k] > -1
           running == IF all THEN Cardinality(Kinds) ELSE sync[s].running
           partial == sync[s].partial \/ (~all /\ \E k \in Kinds : ids[k] > -1)
           q == [sync[s] EXCEPT !.id = ids, !.syncing = all, !.running = running,
                                !.partial = partial]
<1>1. /\ op.step = "start" /\ op.kind = "ts" /\ MayStart("ts", ok)
      /\ StartsService(id, "ts") /\ sync' = [sync EXCEPT ![s] = q]
      /\ op' = At("unlock", None) /\ UNCHANGED mutex
  <2>1. /\ op.step = "start" /\ op.kind = "ts" /\ MayStart("ts", ok)
        /\ op' = At("unlock", None) /\ UNCHANGED mutex
    BY DEF StartTimelineSyncService
  <2>2. StartsService(id, "ts")
    BY Zenon DEF StartTimelineSyncService, StartsService
  <2>3. sync' = [sync EXCEPT ![s].id = ids, ![s].syncing = all, ![s].running = running,
                             ![s].partial = partial]
    BY DEF StartTimelineSyncService
  <2> HIDE DEF id, ids, all, running, partial
  <2>4. sync' = [sync EXCEPT ![s] = q]
    BY <2>3
  <2> QED BY <2>1, <2>2, <2>4
<1>0. leaked' \in BOOLEAN /\ mgr' \in {mgr, App}
  BY Types DEF StartTimelineSyncService
<1>2. id \in {-1} \cup (Ids \ Registered)
  BY NewIdFree
<1> HIDE DEF id
<1>3. /\ op \in Calls /\ s \in Syncs /\ op.call = "enable"
      /\ sync[s] \in Sync /\ sync[s].state = "active"
      /\ sync[s].running <= 0
      /\ \A k \in {"wc", "cii"} : sync[s].id[k] # -1 => Owns(s, k)
      /\ ~sync[s].partial =>
            /\ sync[s].running = 0
            /\ \A i \in ServicesOf(s) : \E k \in {"wc", "cii"} : i = sync[s].id[k]
  BY <1>1, Starting DEF Before
<1>4. /\ ids \in [Kinds -> Ids \cup {-1}]
      /\ ids["ts"] = id /\ \A k \in {"wc", "cii"} : ids[k] = sync[s].id[k]
  BY <1>2, <1>3 DEF Sync, Kinds
<1> HIDE DEF ids
<1>5. \A k \in Kinds : ids[k] > -1 <=> ids[k] # -1
  <2>1. \A k \in Kinds : ids[k] \in Nat \cup {-1}
    BY <1>4, Numbers
  <2> QED BY <2>1
<1>6. running \in (-MaxUnderrun)..Cardinality(Kinds) /\ all \in BOOLEAN /\ partial \in BOOLEAN
  BY <1>3, Numbers DEF Sync
<1>7. (all => running = 3) /\ (~all => running = sync[s].running)
  BY Numbers
<1> HIDE DEF running, all, partial
<1>8. /\ q \in Sync /\ q.state = sync[s].state /\ q.id = ids
      /\ q.partial = partial /\ q.syncing = all /\ q.running = running
  BY <1>3, <1>4, <1>6 DEF Sync
<1> HIDE DEF q
<1>9. sync'[s] = q
  BY <1>1, <1>3, Types
<1>10. /\ op' \in Calls /\ op'.step = "unlock" /\ op'.of = s /\ op'.call = "enable"
       /\ op'.next = op.next
  BY <1>1, <1>3, AtType
<1>11. /\ \A j \in Registered : SameService(j)
       /\ ServicesOf(s)' = ServicesOf(s) \cup ({id} \ {-1})
       /\ id # -1 => service'[id].kind = "ts"
  BY <1>1, <1>2, StartServices DEF Kinds
<1>12. ASSUME NEW k \in Kinds, ids[k] # -1
       PROVE  Owns(s, k)'
  <2>1. CASE k = "ts"
    <3>1. id \in ServicesOf(s)' /\ service'[id].kind = k /\ sync'[s].id[k] = id
      BY <1>4, <1>8, <1>9, <1>11, <1>12, <2>1
    <3> QED BY <3>1 DEF Owns
  <2>2. CASE k \in {"wc", "cii"}
    <3>1. Owns(s, k) /\ sync'[s].id[k] = sync[s].id[k]
      BY <1>3, <1>4, <1>8, <1>9, <1>12, <2>2
    <3>2. \A j \in ServicesOf(s) : SameService(j)
      BY <1>11 DEF ServicesOf
    <3> QED BY <3>1, <3>2, OwnsKept
  <2> QED BY <2>1, <2>2 DEF Kinds
<1>13. all => \A k \in Kinds : Owns(s, k)'
  BY <1>5, <1>12 DEF all
<1>14. ASSUME ~partial
       PROVE  running = Cardinality(ServicesOf(s)')
  <2>1. ~sync[s].partial /\ (all \/ \A k \in Kinds : ids[k] = -1)
    BY <1>5, <1>14 DEF partial
  <2>2. \A i \in ServicesOf(s) : \E k \in {"wc", "cii"} : i = ids[k]
    BY <1>3, <1>4, <2>1
  <2>3. CASE all
    <3>1. \A i \in ServicesOf(s)' : \E k \in Kinds : i = sync'[s].id[k]
      BY <1>4, <1>8, <1>9, <1>11, <2>2 DEF Kinds
    <3>2. \A k \in Kinds : /\ sync'[s].id[k] \in ServicesOf(s)'
                            /\ service'[sync'[s].id[k]].kind = k
      BY <1>13, <2>3 DEF Owns
    <3>3. Cardinality(ServicesOf(s)') = 3
      <4> DEFINE x == sync'[s].id
      <4>1. /\ x["wc"] \in ServicesOf(s)' /\ service'[x["wc"]].kind = "wc"
            /\ x["cii"] \in ServicesOf(s)' /\ service'[x["cii"]].kind = "cii"
            /\ x["ts"] \in ServicesOf(s)' /\ service'[x["ts"]].kind = "ts"
        BY <3>2 DEF Kinds
      <4>2. \A i \in ServicesOf(s)' : i \in {x["wc"], x["cii"], x["ts"]}
        BY <3>1 DEF Kinds
      <4> HIDE DEF x
      <4>3. ServicesOf(s)' = {x["wc"], x["cii"], x["ts"]}
        BY <4>1, <4>2
      <4> QED BY <4>1, <4>3, OneOfEach
    <3> QED BY <1>7, <2>3, <3>3
  <2>4. CASE ~all /\ \A k \in Kinds : ids[k] = -1
    <3>1. ServicesOf(s) = {}
      BY <2>2, <2>4, ServicesFinite, Numbers DEF Kinds
    <3>2. ServicesOf(s)' = {}
      BY <1>4, <1>11, <2>4, <3>1 DEF Kinds
    <3> QED BY <1>3, <1>7, <2>1, <2>4, <3>2, FS_EmptySet
  <2> QED BY <2>1, <2>3, <2>4
<1>15. EnablingOwns'
  BY <1>10 DEF EnablingOwns
<1>16. faults' \in 0..MaxFaults /\ mgr' \in Threads \cup {None}
  BY <1>0, <1>1, Types, StartTypes DEF Threads, Kinds
<1>17. sync[s].partial => q.partial
  BY <1>8 DEF partial
<1>18. q.syncing => q.running = 3 /\ \A k \in Kinds : Owns(s, k)'
  BY <1>7, <1>8, <1>13
<1>19. "ts" \in Kinds
  BY DEF Kinds
<1>20. q.running <= Cardinality(ServicesOf(s)')
  <2>1. CASE all
    <3> DEFINE x == sync'[s].id
    <3>1. /\ x["wc"] \in ServicesOf(s)' /\ service'[x["wc"]].kind = "wc"
          /\ x["cii"] \in ServicesOf(s)' /\ service'[x["cii"]].kind = "cii"
          /\ x["ts"] \in ServicesOf(s)' /\ service'[x["ts"]].kind = "ts"
      BY <1>13, <2>1 DEF Owns, Kinds
    <3>2. ServicesOf(s)' \in SUBSET Ids
      BY DEF ServicesOf, Registered
    <3>3. IsFiniteSet(ServicesOf(s)')
      BY <3>2, Numbers, FS_Subset
    <3> HIDE DEF x
    <3>4. 3 <= Cardinality(ServicesOf(s)')
      BY <3>1, <3>3, AtLeastThree
    <3> QED BY <1>7, <1>8, <2>1, <3>4
  <2>2. CASE ~all
    <3>1. q.running <= 0 /\ q.running \in Int
      BY <1>3, <1>6, <1>7, <1>8, <2>2, Numbers
    <3> QED BY <3>1, CountNat
  <2> QED BY <1>6, <2>1, <2>2
<1> QED BY <1>0, <1>1, <1>2, <1>6, <1>8, <1>10, <1>14, <1>15, <1>16, <1>17, <1>18, <1>19,
       <1>20, StartRest

-----------------------------------------------------------------------------
(* The theorems                                                             *)

LEMMA InitGood == Init => IInv
<1> SUFFICES ASSUME Init PROVE IInv
  OBVIOUS
<1>1. Registered = {} /\ \A s : ServicesOf(s) = {}
  BY DEF Init, Registered, ServicesOf
<1>2. Idle.step = "none" /\ Idle.call = "none" /\ Idle.next = None /\ op = Idle
  BY DEF Idle, Init
<1>3. \A s \in Syncs : sync[s].running = 0 /\ ~sync[s].syncing
  BY DEF Init
<1>4. sync \in [Syncs -> Sync]
  <2>1. 0 \in (-MaxUnderrun)..Cardinality(Kinds)
    BY Numbers
  <2>2. [state |-> "new", running |-> 0, syncing |-> FALSE,
         id |-> [k \in Kinds |-> -1], partial |-> FALSE] \in Sync
    BY <2>1 DEF Sync
  <2> QED BY <2>2 DEF Init
<1>5. TypeOK
  <2>1. 0 \in 0..MaxFaults
    BY CssAssumption
  <2> QED BY <1>4, <2>1, TypeIs DEF Init
<1>6. MutexHeld /\ EnabledWhileActive /\ StoppingOwns /\ EnablingOwns
  BY <1>1, <1>2 DEF MutexHeld, EnabledWhileActive, StoppingOwns, EnablingOwns
<1>7. SyncingOwns /\ RunningServicesCounted /\ OwnerOutlivesServices
  BY <1>1, <1>3, FS_EmptySet DEF SyncingOwns, RunningServicesCounted, OwnerOutlivesServices
<1>8. CallFits
  BY <1>2 DEF CallFits
<1>9. DeletedCounts
  <2>1. \A s \in Syncs : sync[s].state = "new"
    BY DEF Init
  <2> QED BY <1>1, <1>3, <2>1, FS_EmptySet DEF DeletedCounts
<1> QED BY <1>5, <1>6, <1>7, <1>8, <1>9 DEF IInv

LEMMA StutterGood ==
    ASSUME IInv, UNCHANGED vars
    PROVE  IInv'
<1>1. TypeOK' /\ \A j \in Ids : SameService(j)
  BY DEF IInv, TypeOK, vars, SameService
<1>2. MutexHeld'
  <2>1. Registered' = Registered
    BY SameOwns DEF vars
  <2> QED BY <2>1 DEF IInv, MutexHeld, vars
<1> QED BY <1>1, <1>2, QuietGood DEF vars

LEMMA StepGood == IInv /\ [Next]_vars => IInv'
<1> SUFFICES ASSUME IInv, [Next]_vars PROVE IInv'
  OBVIOUS
<1>1. CASE \E s \in Syncs : \/ InitMediaSynchroniser(s) \/ EnableInterDeviceSync(s)
                            \/ DisableInterDeviceSync(s) \/ DestroyMediaSynchroniser(s)
  BY <1>1, InitSynchroniserGood, CallGood
     DEF EnableInterDeviceSync, DisableInterDeviceSync, DestroyMediaSynchroniser
<1>2. CASE AppStep
  BY <1>2, LockGood, StartServiceGood, StartTimelineSyncServiceGood, StopServiceGood,
     StopFoundGood, UnlockGood DEF AppStep
<1>3. ASSUME NEW i \in Ids, LooperStep(i)
      PROVE  IInv'
  BY <1>3, ClientGood, LooperGood, OnStoppedGood, EraseGood DEF LooperStep
<1>4. ASSUME NEW i \in Ids,
             ClientConnects(i) \/ ClientCloses(i) \/ TsCallback(i) \/ LwsServiceFails(i)
      PROVE  IInv'
  BY <1>4, ClientGood, LooperGood
<1>5. CASE UNCHANGED vars
  BY <1>5, StutterGood
<1> QED BY <1>1, <1>2, <1>3, <1>4, <1>5 DEF Next

\* In every state the locks are held by whoever is in their critical section,
\* and the ids a synchroniser is starting, keeps or stops are its own.
THEOREM Invariance == Spec => []IInv
BY InitGood, StepGood, PTL DEF Spec

(* The synchronisers, the ServiceManager's table, the locks and the call the  *)
(* application's thread is in always have their types: m_runningServices      *)
(* never exceeds the number of kinds, and every id is -1 or below             *)
(* MAX_SERVICES.                                                              *)
THEOREM TypeCorrect == Spec => []TypeOK
<1>1. IInv => TypeOK
  BY DEF IInv
<1> QED BY <1>1, Invariance, PTL

(* m_runningServices, which enableInterDeviceSync sets to three and OnStopped *)
(* counts down, is the number of services the manager has not erased yet: in  *)
(* whatever order the loopers end and the application enables and disables,   *)
(* for any number of synchronisers, as long as no start failed half way.      *)
THEOREM RunningCounted == Spec => []RunningServicesCounted
<1>1. IInv => RunningServicesCounted
  BY DEF IInv
<1> QED BY <1>1, Invariance, PTL

(* A synchroniser that deleteLater has marked is not forgotten: as long as it *)
(* is not freed a service of its is registered, so that an OnStopped is still *)
(* to come, also after a half-failed start.  And OnStopped and deleteLater    *)
(* free none that services still point to, if no start of it failed half way; *)
(* for one of which a start did, the code does not keep this (the services    *)
(* left over count down m_runningServices as well), and nothing is claimed.   *)
THEOREM FreedInTime == Spec => []FreedWithItsServices
<1>1. ASSUME IInv, NEW s \in Syncs, sync[s].state = "deleted"
      PROVE  ServicesOf(s) # {}
  <2>1. sync[s].running > 0 /\ sync[s].running <= Cardinality(ServicesOf(s))
    BY <1>1 DEF IInv, DeletedCounts
  <2>2. sync[s].running \in Int
    BY <1>1, Types, Numbers DEF Sync
  <2> QED BY <2>1, <2>2, FS_EmptySet
<1>2. ASSUME IInv, NEW s \in Syncs, sync[s].state = "freed", ~sync[s].partial
      PROVE  ServicesOf(s) = {}
  BY <1>2 DEF IInv, OwnerOutlivesServices, ServicesOf
<1>3. IInv => FreedWithItsServices
  BY <1>1, <1>2 DEF FreedWithItsServices
<1> QED BY <1>3, Invariance, PTL

(* NewServiceId gives ids again, but never one that disableInterDeviceSync or *)
(* OnStopped is about to stop for its former owner.                           *)
THEOREM StopsItsOwn == Spec => []StopsItsOwnServices
<1>1. IInv => StopsItsOwnServices
  <2> SUFFICES ASSUME IInv, NEW s \in Syncs, NEW k \in Kinds
               PROVE  LET i == sync[s].id[k]
                      IN  /\ sync[s].syncing => i \in ServicesOf(s) /\ service[i].kind = k
                          /\ /\ op.of = s /\ op.step \in {"stop", "stopping"} /\ op.kind = k
                             /\ i \in Registered
                             => i \in ServicesOf(s)
    BY DEF StopsItsOwnServices
  <2>1. sync[s].syncing => Owns(s, k)
    BY DEF IInv, SyncingOwns
  <2>2. op.of = s /\ op.step \in {"stop", "stopping"} => Owns(s, k)
    BY DEF IInv, StoppingOwns
  <2> QED BY <2>1, <2>2 DEF Owns
<1> QED BY <1>1, Invariance, PTL
====
