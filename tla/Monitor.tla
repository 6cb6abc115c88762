------------------------------- MODULE Monitor -------------------------------
(***************************************************************************)
(* CMonitor: a mutex and a CCondition.  Notify and NotifyAll only count;   *)
(* the wakeups are given by Unlock, or by Wait before it sleeps, with the  *)
(* mutex still held.                                                       *)
(***************************************************************************)
EXTENDS Condition, FiniteSets

CONSTANTS
    Timed,       \* the threads whose waits are TimedWait
    MaxNotify,   \* bound on m_nnotify
    MaxLeft,     \* bound on m_unblocked, which grows with every expired wait
    None         \* no thread

ASSUME MonitorAssumption ==
    /\ Timed \subseteq Threads
    /\ MaxNotify \in Nat /\ MaxLeft \in Nat
    /\ None \notin Threads
    /\ IsFiniteSet(Threads)

VARIABLES
    m_mutex,    \* the thread that holds the critical section
    m_nnotify,  \* notifications asked for since Lock, -1 for NotifyAll
    todo,       \* of each thread: what _NotifyImpl has still to give
    then        \* of each thread: what it does after _NotifyImpl

vars == <<pc, conditionVars, m_mutex, m_nnotify, todo, then>>

monitorVars == <<m_mutex, m_nnotify, todo, then>>

TypeOK ==
    /\ ConditionTypes
    /\ pc \in [Threads -> Inside \cup {"out", "in", "notify", "relock"}]
    /\ m_mutex \in Threads \cup {None}
    /\ m_nnotify \in -1..MaxNotify
    /\ todo \in [Threads -> -1..MaxNotify]
    /\ then \in [Threads -> {"unlock", "wait"}]

Init ==
    /\ ConditionInit
    /\ pc = [t \in Threads |-> "out"]
    /\ m_mutex = None
    /\ m_nnotify = 0
    /\ todo = [t \in Threads |-> 0]
    /\ then = [t \in Threads |-> "unlock"]
-----------------------------------------------------------------------------
Lock(t) ==
    /\ pc[t] = "out" /\ m_mutex = None
    /\ m_mutex' = t
    /\ m_nnotify' = 0
    /\ Go(t, "in")
    /\ UNCHANGED <<conditionVars, todo, then>>

Notify(t) ==
    /\ pc[t] = "in" /\ m_nnotify # -1 /\ m_nnotify < MaxNotify
    /\ m_nnotify' = m_nnotify + 1
    /\ UNCHANGED <<pc, conditionVars, m_mutex, todo, then>>

NotifyAll(t) ==
    /\ pc[t] = "in"
    /\ m_nnotify' = -1
    /\ UNCHANGED <<pc, conditionVars, m_mutex, todo, then>>

\* Unlock, Wait and TimedWait begin with _NotifyImpl(m_nnotify).
BeginNotify(t, what) ==
    /\ pc[t] = "in"
    /\ todo' = [todo EXCEPT ![t] = m_nnotify]
    /\ then' = [then EXCEPT ![t] = what]
    /\ Go(t, "notify")
    /\ UNCHANGED <<conditionVars, m_mutex, m_nnotify>>

Unlock(t) == BeginNotify(t, "unlock")
Wait(t) == m_unblocked <= MaxLeft /\ BeginNotify(t, "wait")

NotifyImplNext(t) ==
    /\ pc[t] = "notify" /\ todo[t] # 0
    /\ Go(t, "wake_gate")
    /\ UNCHANGED <<conditionVars, monitorVars>>

NotifyImplEnd(t) ==
    /\ pc[t] = "notify" /\ todo[t] = 0
    /\ IF then[t] = "unlock"
       THEN m_mutex' = None /\ Go(t, "out")
       ELSE UNCHANGED m_mutex /\ Go(t, "prewait")
    /\ UNCHANGED <<conditionVars, m_nnotify, todo, then>>

WakeStep(t) ==
    \/ /\ WakeEnter(t) \/ WakeCount(t, todo[t] = -1)
       /\ UNCHANGED monitorVars
    \/ /\ WakePost(t, "notify")
       /\ todo' = [todo EXCEPT ![t] = IF @ = -1 THEN 0 ELSE @ - 1]
       /\ UNCHANGED <<m_mutex, m_nnotify, then>>

\* waitImpl: the mutex is given up once the thread is counted in.
UnlockWait(t) ==
    /\ pc[t] = "unlock_wait"
    /\ m_mutex' = None
    /\ Go(t, "waiting")
    /\ UNCHANGED <<conditionVars, m_nnotify, todo, then>>

SleepStep(t) ==
    /\ \/ PreWait(t)
       \/ TakeToken(t)
       \/ t \in Timed /\ TimeOut(t)
       \/ PostWait(t, "relock")
       \/ Absorb(t)
       \/ PostWaitEnd(t, "relock")
    /\ UNCHANGED monitorVars

\* waitImpl takes the mutex again and Wait forgets the notifications.
Relock(t) ==
    /\ pc[t] = "relock" /\ m_mutex = None
    /\ m_mutex' = t
    /\ m_nnotify' = 0
    /\ Go(t, "in")
    /\ UNCHANGED <<conditionVars, todo, then>>
-----------------------------------------------------------------------------
Progress(t) ==
    \/ NotifyImplNext(t)
    \/ NotifyImplEnd(t)
    \/ WakeStep(t)
    \/ UnlockWait(t)
    \/ SleepStep(t)
    \/ Relock(t)

Sleepers == {t \in Threads : pc[t] \in {"unlock_wait", "waiting", "woken", "timedout"}}

Next ==
    \E t \in Threads :
        \/ Lock(t) \/ Notify(t) \/ NotifyAll(t) \/ Unlock(t) \/ Wait(t)
        \/ Progress(t)

Spec == Init /\ [][Next]_vars

(* Every operation that is under way goes on; the mutex and the semaphores  *)
(* of Windows are fair enough for a thread that asks again and again; a     *)
(* thread that holds the mutex gives it up.  Nobody has to wait or notify.  *)
Fairness ==
    \A t \in Threads :
        /\ SF_vars(Progress(t))
        /\ WF_vars(Unlock(t))

FairSpec == Spec /\ Fairness
-----------------------------------------------------------------------------
\* The waiters counted in and not yet out are the threads asleep: what a
\* broadcast wakes is who sleeps (m_blocked changes under the gate,
\* m_unblocked under m_internal, Condition.cpp:38-46, 61, 69).
WaitersCounted == m_blocked - m_unblocked = Cardinality(Sleepers)

\* Who carries the one wakeup that may be under way.
Carries(t) ==
    pc[t] \in {"wake", "post_queue", "post_gate", "woken", "open_gate", "pass_on"}

\* There is one baton: the open gate, the token in the queue, or a thread in the
\* middle of a wakeup.  The gate is never opened twice and no token is left over
\* for a thread that sleeps later.
OneBaton ==
    /\ m_gate + m_queue <= 1
    /\ m_gate + m_queue = 1 => \A t \in Threads : ~Carries(t)
    /\ m_gate + m_queue = 0 => \E t \in Threads : Carries(t)
    /\ \A t, u \in Threads : Carries(t) /\ Carries(u) => t = u

\* A wakeup that has been given is taken: the gate opens again, and Notify
\* cannot block its caller, mutex in hand, for ever.
WakeupEnds == m_gate = 0 ~> m_gate = 1

\* POSIX: a timed wait returns once its time is over (Condition.h:6 says the
\* class imitates the POSIX condition variable).
TimedWaitReturns ==
    \A t \in Threads : pc[t] = "timedout" ~> pc[t] = "in"

\* Without timed waits the class is a condition variable.
CV == INSTANCE CondVar WITH
    sleeping <- Sleepers,
    granted <- m_toUnblock
CondVarSpec == CV!Spec
=============================================================================
