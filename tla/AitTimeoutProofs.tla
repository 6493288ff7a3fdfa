--------------------------- MODULE AitTimeoutProofs ---------------------------
(***************************************************************************)
(* Proofs about AitTimeout, for any set of platform threads: the inductive *)
(* invariant LockInv, what follows from it about the callback, and the     *)
(* refinement of the one-shot timer of module Timer.                       *)
(***************************************************************************)
EXTENDS AitTimeout, TLAPS

(* LockInv holds initially.                                                *)
LEMMA InitLockInv == Init => LockInv
  BY ThreadsAssumption DEF Init, LockInv, TypeOK, OneInside, StopIsFinal,
     Armed, Methods, Nobody, TimerThread

(* The steps of the platform's threads through stop(), start() and the
   methods that call them keep LockInv.                                    *)
LEMMA ThreadLockInv ==
    ASSUME LockInv, NEW t \in Threads, ThreadStep(t)
    PROVE  LockInv'
  <1> USE ThreadsAssumption DEF LockInv, TypeOK, OneInside, StopIsFinal, Armed,
          Methods, Nobody, TimerThread, At
  <1>1. CASE LeaveAtOnce(t)
    BY <1>1 DEF LeaveAtOnce
  <1>2. CASE StopNotJoinable(t)
    BY <1>2 DEF StopNotJoinable
  <1>3. CASE StopJoinable(t)
    BY <1>3 DEF StopJoinable
  <1>4. CASE StopLock(t)
    BY <1>4 DEF StopLock
  <1>5. CASE Notify(t)
    BY <1>5 DEF Notify
  <1>6. CASE Join(t)
    BY <1>6 DEF Join
  <1>7. CASE StartThread(t)
    BY <1>7 DEF StartThread
  <1>8. CASE ReceivedFirstAit(t)
    BY <1>8 DEF ReceivedFirstAit
  <1> QED
    BY <1>1, <1>2, <1>3, <1>4, <1>5, <1>6, <1>7, <1>8 DEF ThreadStep

(* The steps of the timer's thread through wait_for and the callback keep
   LockInv.                                                                *)
LEMMA TimerLockInv == LockInv /\ TimerStep => LockInv'
  <1> SUFFICES ASSUME LockInv, TimerStep PROVE LockInv'
    OBVIOUS
  <1> USE ThreadsAssumption DEF LockInv, TypeOK, OneInside, StopIsFinal, Armed,
          Methods, Nobody, TimerThread, TimerGoes, NothingElse
  <1>1. CASE WaitFor
    BY <1>1 DEF WaitFor
  <1>2. CASE WakeUp
    BY <1>2 DEF WakeUp
  <1>3. CASE TimeElapses
    BY <1>3 DEF TimeElapses
  <1>4. CASE ExpiredStopped
    BY <1>4 DEF ExpiredStopped
  <1>5. CASE Expired
    BY <1>5 DEF Expired
  <1>6. CASE OnSelectedServiceAitTimeout
    BY <1>6 DEF OnSelectedServiceAitTimeout
  <1>7. CASE CallbackReturns
    BY <1>7 DEF CallbackReturns
  <1> QED
    BY <1>1, <1>2, <1>3, <1>4, <1>5, <1>6, <1>7 DEF TimerStep

(* The locks keep one thread inside the manager and the timer one-shot,
   whatever the number of platform threads.                                *)
THEOREM LocksCorrect == Spec => []LockInv
  <1>1. Init => LockInv
    BY InitLockInv
  <1>2. LockInv /\ [Next]_vars => LockInv'
    <2> SUFFICES ASSUME LockInv, [Next]_vars PROVE LockInv'
      OBVIOUS
    <2>1. ASSUME NEW t \in Threads, NEW call \in Methods, Enter(t, call)
          PROVE  LockInv'
      <3>1. TypeOK'
        BY <2>1 DEF Enter, At, LockInv, TypeOK
      <3>2. OneInside'
        BY <2>1, ThreadsAssumption
           DEF Enter, At, LockInv, TypeOK, OneInside, Nobody, TimerThread
      <3>3. StopIsFinal'
        BY <2>1 DEF Enter, At, LockInv, TypeOK, StopIsFinal
      <3>4. (received => ~Armed)' /\ (timer \in {"calling", "killing"} => ~stopped)'
        BY <2>1 DEF Enter, LockInv, Armed
      <3>5. \A u \in Threads :
                pc'[u] # "idle" /\ method'[u] = "OnChannelChanged" => ~received'
        <4>1. \A u \in Threads \ {t} : pc[u] = "idle" /\ pc'[u] = "idle"
          BY <2>1, ThreadsAssumption
             DEF Enter, At, LockInv, TypeOK, OneInside, Nobody
        <4>2. method'[t] = "OnChannelChanged" => ~received'
          BY <2>1 DEF Enter, LockInv, TypeOK
        <4> QED
          BY <4>1, <4>2
      <3> QED
        BY <3>1, <3>2, <3>3, <3>4, <3>5 DEF LockInv
    <2>2. ASSUME NEW t \in Threads, ThreadStep(t)
          PROVE  LockInv'
      BY <2>2, ThreadLockInv
    <2>3. CASE TimerStep
      BY <2>3, TimerLockInv
    <2>4. CASE UNCHANGED vars
      BY <2>4 DEF vars, LockInv, TypeOK, OneInside, StopIsFinal, Armed
    <2> QED
      BY <2>1, <2>2, <2>3, <2>4 DEF Next
  <1> QED
    BY <1>1, <1>2, PTL DEF Spec

(* stop() leaves no thread of the timer behind.                            *)
THEOREM StopLeavesNoThread == Spec => []StopIsFinal
  <1>1. LockInv => StopIsFinal
    BY DEF LockInv
  <1> QED
    BY <1>1, LocksCorrect, PTL

(* The callback never runs after the first table of the service has been
   taken in.                                                               *)
THEOREM NoLateTimeout == Spec => NoTimeoutAfterFirstAit
  <1>1. LockInv /\ [Next]_vars => [timedOut' /\ ~timedOut => ~received]_vars
    <2> SUFFICES ASSUME LockInv, Next, timedOut', ~timedOut
                 PROVE  ~received
      OBVIOUS
    <2>1. ASSUME NEW t \in Threads, NEW call \in Methods, Enter(t, call)
          PROVE  FALSE
      BY <2>1 DEF Enter
    <2>2. ASSUME NEW t \in Threads, ThreadStep(t)
          PROVE  FALSE
      BY <2>2 DEF ThreadStep, LeaveAtOnce, StopNotJoinable, StopJoinable,
         StopLock, Notify, Join, StartThread, ReceivedFirstAit
    <2>3. CASE TimerStep
      <3>1. CallbackReturns
        BY <2>3 DEF TimerStep, WaitFor, WakeUp, TimeElapses, ExpiredStopped,
           Expired, OnSelectedServiceAitTimeout, NothingElse
      <3> QED
        BY <3>1 DEF CallbackReturns, TimerGoes, LockInv, Armed
    <2> QED
      BY <2>1, <2>2, <2>3 DEF Next
  <1> QED
    BY <1>1, LocksCorrect, PTL DEF Spec, NoTimeoutAfterFirstAit

(* Utils::Timeout under the manager's locks implements the one-shot timer:
   start() arms it, stop() disarms it, the end of the callback is its firing
   and every other step is invisible to the owner.                         *)
THEOREM Refinement == Spec => ImplementsTimer
  <1> USE DEF Armed
  <1>1. Init => AbstractTimer!Init
    BY DEF Init, AbstractTimer!Init
  <1>2. LockInv /\ [Next]_vars => [AbstractTimer!Next]_(AbstractTimer!vars)
    <2> SUFFICES ASSUME LockInv, [Next]_vars
                 PROVE  AbstractTimer!Next \/ UNCHANGED AbstractTimer!vars
      OBVIOUS
    <2> USE DEF AbstractTimer!vars, AbstractTimer!Next
    <2>1. ASSUME NEW t \in Threads, NEW call \in Methods, Enter(t, call)
          PROVE  UNCHANGED AbstractTimer!vars
      BY <2>1 DEF Enter
    <2>2. ASSUME NEW t \in Threads, ThreadStep(t)
          PROVE  AbstractTimer!Next \/ UNCHANGED AbstractTimer!vars
      <3>1. CASE StopLock(t)
        BY <3>1 DEF StopLock, AbstractTimer!Disarm
      <3>2. CASE StartThread(t)
        BY <3>2 DEF StartThread, At, LockInv, StopIsFinal, AbstractTimer!Arm
      <3>3. CASE Notify(t) \/ Join(t)
        BY <3>3 DEF Notify, Join, At
      <3>4. CASE LeaveAtOnce(t) \/ StopNotJoinable(t) \/ StopJoinable(t)
                 \/ ReceivedFirstAit(t)
        BY <3>4 DEF LeaveAtOnce, StopNotJoinable, StopJoinable, ReceivedFirstAit
      <3> QED
        BY <2>2, <3>1, <3>2, <3>3, <3>4 DEF ThreadStep
    <2>3. CASE TimerStep
      <3>1. CASE CallbackReturns
        BY <3>1 DEF CallbackReturns, TimerGoes, LockInv, AbstractTimer!Fire
      <3>2. CASE TimerStep /\ ~CallbackReturns
        BY <3>2 DEF TimerStep, WaitFor, WakeUp, TimeElapses, ExpiredStopped,
           Expired, OnSelectedServiceAitTimeout, TimerGoes, NothingElse
      <3> QED
        BY <2>3, <3>1, <3>2
    <2>4. CASE UNCHANGED vars
      BY <2>4 DEF vars
    <2> QED
      BY <2>1, <2>2, <2>3, <2>4 DEF Next
  <1> QED
    BY <1>1, <1>2, LocksCorrect, PTL DEF Spec, ImplementsTimer, AbstractTimer!Spec
=============================================================================
