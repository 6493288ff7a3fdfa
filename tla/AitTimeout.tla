----------------------------- MODULE AitTimeout -----------------------------
(***************************************************************************)
(* Utils::Timeout (components/application_manager/utils.cpp) as the        *)
(* application manager uses it, one step per lock operation.               *)
(*                                                                         *)
(* Platform threads call the manager's public methods under m_lock.  The   *)
(* timer's thread holds m_cvm except while it waits on m_cv, and holds it  *)
(* while it runs the callback, OnSelectedServiceAitTimeout, which takes    *)
(* m_lock.  OnChannelChanged calls start(); the first complete table, in   *)
(* ProcessAitSection and ProcessXmlAit, calls stop(); both join the thread *)
(* with m_lock held.                                                       *)
(***************************************************************************)
CONSTANT Threads    \* the platform's threads

Nobody == "nobody"
TimerThread == "timer"
ASSUME ThreadsAssumption == {Nobody, TimerThread} \cap Threads = {}

Methods == {"OnChannelChanged", "OnBroadcastStopped", "AitCompleted", "Other"}

VARIABLES
    mLock,      \* who holds ApplicationManager::m_lock
    cvm,        \* who holds Timeout::m_cvm
    stopped,    \* Timeout::m_stopped
    timer,      \* where the timer's thread is, "none" if not joinable
    pc,         \* where each platform thread is
    method,     \* the method it executes
    received,   \* m_currentServiceReceivedFirstAit
    timedOut    \* the callback ran since the channel was changed

vars == <<mLock, cvm, stopped, timer, pc, method, received, timedOut>>

TypeOK ==
    /\ mLock \in Threads \cup {Nobody, TimerThread}
    /\ cvm \in {Nobody, TimerThread}
    /\ stopped \in BOOLEAN
    /\ timer \in {"none", "locking", "waiting", "woken", "expired", "calling",
                  "killing", "done"}
    /\ pc \in [Threads -> {"idle", "entered", "locking", "notifying", "joining",
                           "stopped"}]
    /\ method \in [Threads -> Methods]
    /\ received \in BOOLEAN
    /\ timedOut \in BOOLEAN

Init ==
    /\ mLock = Nobody
    /\ cvm = Nobody
    /\ stopped = TRUE
    /\ timer = "none"
    /\ pc = [t \in Threads |-> "idle"]
    /\ method = [t \in Threads |-> "Other"]
    /\ received = FALSE
    /\ timedOut = FALSE
-----------------------------------------------------------------------------
(* The platform's threads.                                                 *)

At(t, from, to) == pc[t] = from /\ pc' = [pc EXCEPT ![t] = to]

(* A public method takes m_lock.  Those that do not touch the timer leave  *)
(* again at once, a completed table that is not the first one too.         *)
Enter(t, call) ==
    /\ mLock = Nobody
    /\ At(t, "idle", "entered")
    /\ mLock' = t
    /\ method' = [method EXCEPT ![t] = call]
    /\ received' = (received /\ call \notin {"OnChannelChanged",
                                            "OnBroadcastStopped"})
    /\ UNCHANGED <<cvm, stopped, timer, timedOut>>

CallsStop(t) ==
    \/ method[t] = "OnChannelChanged"
    \/ method[t] = "AitCompleted" /\ ~received

LeaveAtOnce(t) ==
    /\ ~CallsStop(t)
    /\ At(t, "entered", "idle")
    /\ mLock' = Nobody
    /\ UNCHANGED <<cvm, stopped, timer, method, received, timedOut>>

(* stop(): m_stopped is read without m_cvm.                                *)
StopNotJoinable(t) ==
    /\ CallsStop(t)
    /\ At(t, "entered", "stopped")
    /\ timer = "none"
    /\ UNCHANGED <<mLock, cvm, stopped, timer, method, received, timedOut>>

(* Mutant: stop() leaves a running timer alone.                            *)
StopJoinableReturns(t) ==
    /\ CallsStop(t)
    /\ timer # "none"
    /\ At(t, "entered", "stopped")
    /\ UNCHANGED <<mLock, cvm, stopped, timer, method, received, timedOut>>

StopJoinable(t) ==
    /\ CallsStop(t)
    /\ timer # "none"
    /\ At(t, "entered", IF stopped THEN "notifying" ELSE "locking")
    /\ UNCHANGED <<mLock, cvm, stopped, timer, method, received, timedOut>>

(* Mutant: m_stopped is set without m_cvm.                                 *)
StopLockRaces(t) ==
    /\ At(t, "locking", "notifying")
    /\ stopped' = TRUE
    /\ UNCHANGED <<mLock, cvm, timer, method, received, timedOut>>

StopLock(t) ==
    /\ At(t, "locking", "notifying")
    /\ cvm = Nobody
    /\ stopped' = TRUE
    /\ UNCHANGED <<mLock, cvm, timer, method, received, timedOut>>

Notify(t) ==
    /\ At(t, "notifying", "joining")
    /\ timer' = IF timer = "waiting" THEN "woken" ELSE timer
    /\ UNCHANGED <<mLock, cvm, stopped, method, received, timedOut>>

(* Mutant: stop() returns without join().                                  *)
JoinDetached(t) ==
    /\ At(t, "joining", "stopped")
    /\ UNCHANGED <<mLock, cvm, stopped, timer, method, received, timedOut>>

Join(t) ==
    /\ timer = "done"
    /\ At(t, "joining", "stopped")
    /\ timer' = "none"
    /\ UNCHANGED <<mLock, cvm, stopped, method, received, timedOut>>

(* The rest of start(), and of the method.                                 *)
StartThread(t) ==
    /\ method[t] = "OnChannelChanged"
    /\ At(t, "stopped", "idle")
    /\ stopped' = FALSE
    /\ timer' = "locking"
    /\ timedOut' = FALSE
    /\ mLock' = Nobody
    /\ UNCHANGED <<cvm, method, received>>

ReceivedFirstAit(t) ==
    /\ method[t] = "AitCompleted"
    /\ At(t, "stopped", "idle")
    /\ received' = TRUE
    /\ mLock' = Nobody
    /\ UNCHANGED <<cvm, stopped, timer, method, timedOut>>
-----------------------------------------------------------------------------
(* The timer's thread: wait_for with the predicate m_stopped.              *)

TimerGoes(from, to) == timer = from /\ timer' = to

NothingElse == UNCHANGED <<mLock, stopped, pc, method, received, timedOut>>

WaitFor ==
    /\ cvm = Nobody
    /\ TimerGoes("locking", IF stopped THEN "done" ELSE "waiting")
    /\ UNCHANGED cvm /\ NothingElse

WakeUp ==
    /\ cvm = Nobody
    /\ TimerGoes("woken", IF stopped THEN "done" ELSE "waiting")
    /\ UNCHANGED cvm /\ NothingElse

TimeElapses ==
    /\ TimerGoes("waiting", "expired")
    /\ UNCHANGED cvm /\ NothingElse

(* wait_for has m_cvm again and evaluates the predicate a last time.       *)
ExpiredStopped ==
    /\ cvm = Nobody
    /\ stopped
    /\ TimerGoes("expired", "done")
    /\ UNCHANGED cvm /\ NothingElse

Expired ==
    /\ cvm = Nobody
    /\ ~stopped
    /\ TimerGoes("expired", "calling")
    /\ cvm' = TimerThread
    /\ NothingElse

OnSelectedServiceAitTimeout ==
    /\ mLock = Nobody
    /\ TimerGoes("calling", "killing")
    /\ mLock' = TimerThread
    /\ UNCHANGED <<cvm, stopped, pc, method, received, timedOut>>

(* Mutant: the thread waits again after the callback.                      *)
CallbackRepeats ==
    /\ TimerGoes("killing", "waiting")
    /\ timedOut' = TRUE
    /\ mLock' = Nobody
    /\ cvm' = Nobody
    /\ UNCHANGED <<stopped, pc, method, received>>

CallbackReturns ==
    /\ TimerGoes("killing", "done")
    /\ timedOut' = TRUE
    /\ mLock' = Nobody
    /\ cvm' = Nobody
    /\ UNCHANGED <<stopped, pc, method, received>>
-----------------------------------------------------------------------------
ThreadStep(t) ==
    \/ LeaveAtOnce(t)
    \/ StopNotJoinable(t)
    \/ StopJoinable(t)
    \/ StopLock(t)
    \/ Notify(t)
    \/ Join(t)
    \/ StartThread(t)
    \/ ReceivedFirstAit(t)

TimerStep ==
    \/ WaitFor
    \/ WakeUp
    \/ TimeElapses
    \/ ExpiredStopped
    \/ Expired
    \/ OnSelectedServiceAitTimeout
    \/ CallbackReturns

Next ==
    \/ \E t \in Threads, call \in Methods : Enter(t, call)
    \/ \E t \in Threads : ThreadStep(t)
    \/ TimerStep

Spec == Init /\ [][Next]_vars

(* Every thread runs, time passes, and a mutex asked for again and again   *)
(* is obtained.  Nothing obliges the platform to call.                     *)
Fairness == (\A t \in Threads : SF_vars(ThreadStep(t))) /\ SF_vars(TimerStep)

FairSpec == Spec /\ Fairness
-----------------------------------------------------------------------------
(* Properties.                                                             *)

(* A timer that start() has armed and neither stop() nor its callback has  *)
(* ended.                                                                  *)
Armed == timer \notin {"none", "done"} /\ ~stopped

AbstractTimer == INSTANCE Timer WITH armed <- Armed, fired <- timedOut

(* Utils::Timeout under the manager's locks is a one-shot timer: whatever
   the threads do, between start() and stop() the callback runs at most once
   and never after stop() has set m_stopped.  It is what lets module
   ApplicationManager treat the timer as a flag.                           *)
ImplementsTimer == AbstractTimer!Spec

(* OnSelectedServiceAitTimeout never kills an application once the first
   table of the service has been taken in, although the timer may expire
   while the table is being processed.                                     *)
NoTimeoutAfterFirstAit == [][timedOut' /\ ~timedOut => ~received]_vars

(* stop() is final: when it has returned to a method, with m_lock still
   held, no thread of the timer is left, so start() never overwrites a
   joinable std::thread (which would end the process).                     *)
StopIsFinal == \A t \in Threads : pc[t] = "stopped" => timer = "none"

(* m_lock is held exactly by the thread inside a public method, or by the  *)
(* callback; m_cvm, between steps, only by the timer's thread around it.   *)
OneInside ==
    /\ \A t \in Threads : pc[t] # "idle" <=> mLock = t
    /\ timer = "killing" <=> mLock = TimerThread
    /\ timer \in {"calling", "killing"} <=> cvm = TimerThread

(* The facts about the two mutexes that make the timer one-shot, as an
   inductive invariant: one thread at a time is inside the manager; stop()
   cannot set m_stopped between the timer's decision to call back and the end
   of the callback; once the first table is in, no timer is armed; and
   OnChannelChanged, while it runs, sees m_currentServiceReceivedFirstAit
   still cleared.                                                          *)
LockInv ==
    /\ TypeOK
    /\ OneInside
    /\ StopIsFinal
    /\ timer \in {"calling", "killing"} => ~stopped
    /\ received => ~Armed
    /\ \A t \in Threads :
        pc[t] # "idle" /\ method[t] = "OnChannelChanged" => ~received

(* "Once the first complete AIT is received or times out": the wait for the
   first table of a selected service always ends.                          *)
AitWaitEnds == Armed ~> ~Armed
=============================================================================
