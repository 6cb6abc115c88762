---------------------------- MODULE MonitorProofs ----------------------------
(* Proofs about CMonitor and CCondition for any finite set of threads.  The *)
(* count of waiters, the mutex and a wakeup that is never doubled are right *)
(* with timed waits too; that the wakeup is not lost is proved for untimed  *)
(* waits, and is false with timed ones (run monitor_timed).                 *)
EXTENDS Monitor, FiniteSetTheorems, TLAPS

Types ==
    /\ m_gate \in Nat
    /\ m_queue \in Nat
    /\ m_unblocked \in Nat
    /\ m_blocked \in Int
    /\ m_toUnblock \in Nat
    /\ pc \in [Threads -> Inside \cup {"out", "in", "notify", "relock"}]
    /\ m_mutex \in Threads \cup {None}
    /\ m_nnotify \in -1..MaxNotify
    /\ todo \in [Threads -> -1..MaxNotify]
    /\ then \in [Threads -> {"unlock", "wait"}]

\* Where the baton is tells whether a wakeup still has threads to wake.
Phase ==
    /\ m_gate > 0 => m_toUnblock = 0
    /\ m_queue > 0 => m_toUnblock > 0
    /\ \A t \in Threads :
        /\ pc[t] \in {"wake", "post_gate", "open_gate"} => m_toUnblock = 0
        /\ pc[t] \in {"post_queue", "woken", "pass_on"} => m_toUnblock > 0

Untimed == \A t \in Threads : pc[t] \notin {"timedout", "absorb_last", "absorb_pass"}

CountInv == Types /\ WaitersCounted
BatonInv == Phase /\ Untimed /\ OneBaton

USE MonitorAssumption DEF conditionVars, monitorVars, Go, Inside, Waking, Leaving

\* The steps of the model, in the order of the modules.
LEMMA StepCases ==
    ASSUME Next
    PROVE  \E t \in Threads :
             \/ Lock(t) \/ Notify(t) \/ NotifyAll(t) \/ Unlock(t) \/ Wait(t)
             \/ NotifyImplNext(t) \/ NotifyImplEnd(t) \/ WakeStep(t)
             \/ UnlockWait(t) \/ SleepStep(t) \/ Relock(t)
  BY DEF Next, Progress

\* A step keeps the types.
LEMMA TypesKept ==
    ASSUME Types, [Next]_vars
    PROVE  Types'
<1> USE DEF Types
<1>1. ASSUME NEW t \in Threads,
             Lock(t) \/ Notify(t) \/ NotifyAll(t) \/ Unlock(t) \/ Wait(t)
      PROVE  Types'
  BY <1>1 DEF Lock, Notify, NotifyAll, Unlock, Wait, BeginNotify
<1>2. ASSUME NEW t \in Threads, NotifyImplNext(t) \/ NotifyImplEnd(t) \/ UnlockWait(t) \/ Relock(t)
      PROVE  Types'
  BY <1>2 DEF NotifyImplNext, NotifyImplEnd, UnlockWait, Relock
<1>3. ASSUME NEW t \in Threads, WakeStep(t)
      PROVE  Types'
  <2>1. CASE WakeEnter(t) /\ UNCHANGED monitorVars
    BY <2>1 DEF WakeEnter
  <2>2. CASE WakeCount(t, todo[t] = -1) /\ UNCHANGED monitorVars
    BY <2>2 DEF WakeCount
  <2>3. CASE WakePost(t, "notify") /\ todo' = [todo EXCEPT ![t] = IF @ = -1 THEN 0 ELSE @ - 1]
             /\ UNCHANGED <<m_mutex, m_nnotify, then>>
    BY <2>3 DEF WakePost
  <2>4. QED
    BY <1>3, <2>1, <2>2, <2>3 DEF WakeStep
<1>4. ASSUME NEW t \in Threads, SleepStep(t)
      PROVE  Types'
  BY <1>4 DEF SleepStep, PreWait, TakeToken, TimeOut, PostWait, Absorb, PostWaitEnd
<1>5. CASE UNCHANGED vars
  BY <1>5 DEF vars
<1>6. QED
  BY <1>1, <1>2, <1>3, <1>4, <1>5, StepCases
-----------------------------------------------------------------------------
(* The count of waiters.                                                    *)

Asleep == {"unlock_wait", "waiting", "woken", "timedout"}

\* The threads asleep can be counted.
LEMMA SleepersFinite == IsFiniteSet(Sleepers) /\ Cardinality(Sleepers) \in Nat
<1>1. IsFiniteSet(Sleepers)
  BY FS_Subset DEF Sleepers
<1>2. QED
  BY <1>1, FS_CardinalityType

\* A move within, or outside, the places of the sleepers leaves them alone.
LEMMA SleepersSame ==
    ASSUME Types, NEW t \in Threads, NEW p, Go(t, p), pc[t] \in Asleep <=> p \in Asleep
    PROVE  Sleepers' = Sleepers
  BY DEF Types, Sleepers, Asleep

\* A thread that falls asleep is one more.
LEMMA SleeperAdded ==
    ASSUME Types, NEW t \in Threads, NEW p, Go(t, p), pc[t] \notin Asleep, p \in Asleep
    PROVE  /\ t \notin Sleepers
           /\ Sleepers' = Sleepers \cup {t}
           /\ Cardinality(Sleepers') = Cardinality(Sleepers) + 1
<1>1. t \notin Sleepers /\ Sleepers' = Sleepers \cup {t}
  BY DEF Types, Sleepers, Asleep
<1>2. QED
  BY <1>1, SleepersFinite, FS_AddElement

\* A thread that leaves is one less.
LEMMA SleeperRemoved ==
    ASSUME Types, NEW t \in Threads, NEW p, Go(t, p), pc[t] \in Asleep, p \notin Asleep
    PROVE  /\ t \in Sleepers
           /\ Sleepers' = Sleepers \ {t}
           /\ Cardinality(Sleepers') = Cardinality(Sleepers) - 1
<1>1. t \in Sleepers /\ Sleepers' = Sleepers \ {t}
  BY DEF Types, Sleepers, Asleep
<1>2. QED
  BY <1>1, SleepersFinite, FS_RemoveElement

\* What a step does to the sleepers and to the two counters.
LEMMA SleepersStep ==
    ASSUME CountInv, [Next]_vars
    PROVE  \/ Sleepers' = Sleepers /\ m_blocked' - m_unblocked' = m_blocked - m_unblocked
           \/ \E t \in Threads : PreWait(t)
           \/ \E t \in Threads : PostWait(t, "relock")
<1> USE DEF CountInv, Types
<1>1. ASSUME NEW t \in Threads, Lock(t) \/ Unlock(t) \/ Wait(t) \/ NotifyImplNext(t)
                                \/ NotifyImplEnd(t) \/ UnlockWait(t) \/ Relock(t)
      PROVE  Sleepers' = Sleepers /\ UNCHANGED conditionVars
  <2>1. PICK p : Go(t, p) /\ (pc[t] \in Asleep <=> p \in Asleep) /\ UNCHANGED conditionVars
    BY <1>1 DEF Lock, Unlock, Wait, BeginNotify, NotifyImplNext, NotifyImplEnd,
                UnlockWait, Relock, Asleep
  <2>2. QED
    BY <2>1, SleepersSame
<1>2. ASSUME NEW t \in Threads, Notify(t) \/ NotifyAll(t)
      PROVE  Sleepers' = Sleepers /\ UNCHANGED conditionVars
  BY <1>2 DEF Notify, NotifyAll, Sleepers
<1>3. ASSUME NEW t \in Threads, WakeStep(t)
      PROVE  Sleepers' = Sleepers /\ m_blocked' - m_unblocked' = m_blocked - m_unblocked
  <2>1. PICK p : Go(t, p) /\ pc[t] \notin Asleep /\ p \notin Asleep
    BY <1>3 DEF WakeStep, WakeEnter, WakeCount, WakePost, Asleep
  <2>2. m_blocked' - m_unblocked' = m_blocked - m_unblocked
    BY <1>3 DEF WakeStep, WakeEnter, WakeCount, WakePost
  <2>3. QED
    BY <2>1, <2>2, SleepersSame
<1>4. ASSUME NEW t \in Threads, TakeToken(t) \/ TimeOut(t) \/ Absorb(t) \/ PostWaitEnd(t, "relock")
      PROVE  Sleepers' = Sleepers /\ m_blocked' - m_unblocked' = m_blocked - m_unblocked
  <2>1. PICK p : Go(t, p) /\ (pc[t] \in Asleep <=> p \in Asleep)
    BY <1>4 DEF TakeToken, TimeOut, Absorb, PostWaitEnd, Asleep
  <2>2. UNCHANGED <<m_blocked, m_unblocked>>
    BY <1>4 DEF TakeToken, TimeOut, Absorb, PostWaitEnd
  <2>3. QED
    BY <2>1, <2>2, SleepersSame
<1>5. CASE UNCHANGED vars
  BY <1>5 DEF vars, Sleepers
<1>6. ASSUME NEW t \in Threads, SleepStep(t)
      PROVE  PreWait(t) \/ PostWait(t, "relock") \/ TakeToken(t) \/ TimeOut(t) \/ Absorb(t)
             \/ PostWaitEnd(t, "relock")
  BY <1>6 DEF SleepStep
<1>7. UNCHANGED conditionVars => m_blocked' - m_unblocked' = m_blocked - m_unblocked
  OBVIOUS
<1>8. QED
  BY <1>1, <1>2, <1>3, <1>4, <1>5, <1>6, <1>7, StepCases

\* Every step keeps the counters those of the threads asleep.
LEMMA CountKept ==
    ASSUME CountInv, [Next]_vars
    PROVE  WaitersCounted'
<1>1. ASSUME NEW t \in Threads, PreWait(t)
      PROVE  WaitersCounted'
  <2>1. Cardinality(Sleepers') = Cardinality(Sleepers) + 1
    BY <1>1, SleeperAdded DEF CountInv, PreWait, Asleep
  <2>2. QED
    BY <1>1, <2>1, SleepersFinite DEF CountInv, Types, WaitersCounted, PreWait
<1>2. ASSUME NEW t \in Threads, PostWait(t, "relock")
      PROVE  WaitersCounted'
  <2>1. PICK p : Go(t, p) /\ pc[t] \in Asleep /\ p \notin Asleep
    BY <1>2 DEF PostWait, Asleep
  <2>2. Cardinality(Sleepers') = Cardinality(Sleepers) - 1
    BY <2>1, SleeperRemoved DEF CountInv
  <2>3. QED
    BY <1>2, <2>2, SleepersFinite DEF CountInv, Types, WaitersCounted, PostWait
<1>3. CASE Sleepers' = Sleepers /\ m_blocked' - m_unblocked' = m_blocked - m_unblocked
  BY <1>3 DEF CountInv, WaitersCounted
<1>4. QED
  BY <1>1, <1>2, <1>3, SleepersStep

\* At first nobody sleeps, and nobody is counted.
LEMMA CountInit == Init => CountInv
<1>1. ASSUME Init PROVE Types
  BY <1>1 DEF Init, ConditionInit, Types
<1>2. ASSUME Init PROVE Sleepers = {}
  BY <1>2 DEF Init, Sleepers
<1>3. QED
  BY <1>1, <1>2, FS_EmptySet DEF CountInv, WaitersCounted, Init, ConditionInit

\* The counters are those of the threads asleep in every state, with timed waits or without.
THEOREM CountInvariant == Spec => []CountInv
<1>1. CountInv /\ [Next]_vars => CountInv'
  BY TypesKept, CountKept DEF CountInv
<1>2. QED
  BY <1>1, CountInit, PTL DEF Spec

\* The waiters counted in and not out are the threads asleep, with timed
\* waits as well (_preWait, _postWait and the first lines of _wake).
THEOREM WaitersAreCounted == Spec => []WaitersCounted
  BY CountInvariant, PTL DEF CountInv
-----------------------------------------------------------------------------
(* The mutex, and a wakeup that is never doubled: with timed waits as well. *)

\* The places of a thread that has called Lock and has not yet given up the mutex.
Holding == {"in", "notify", "prewait", "unlock_wait"} \cup Waking

\* The thread that works under the monitor is the one that holds its mutex.
MutexHeld == \A t \in Threads : pc[t] \in Holding <=> m_mutex = t

\* The gate, the queue and the threads in the middle of a wakeup have no more
\* than one baton together.
NotDoubled ==
    /\ m_gate + m_queue <= 1
    /\ m_gate + m_queue = 1 => \A t \in Threads : ~Carries(t)
    /\ \A t, u \in Threads : Carries(t) /\ Carries(u) => t = u

\* At first nobody holds the mutex, and the gate is open.
LEMMA SafeInit == Init => MutexHeld /\ NotDoubled
  BY DEF Init, ConditionInit, MutexHeld, Holding, NotDoubled, Carries

\* Every step keeps the mutex with one thread.
LEMMA MutexKept ==
    ASSUME Types, MutexHeld, [Next]_vars
    PROVE  MutexHeld'
<1> USE DEF Types, MutexHeld, Holding
<1>1. ASSUME NEW t \in Threads, Lock(t) \/ Relock(t)
      PROVE  MutexHeld'
  BY <1>1 DEF Lock, Relock
<1>2. ASSUME NEW t \in Threads, Notify(t) \/ NotifyAll(t) \/ Unlock(t) \/ Wait(t) \/ NotifyImplNext(t)
      PROVE  MutexHeld'
  BY <1>2 DEF Notify, NotifyAll, Unlock, Wait, BeginNotify, NotifyImplNext
<1>3. ASSUME NEW t \in Threads, NotifyImplEnd(t) \/ UnlockWait(t)
      PROVE  MutexHeld'
  BY <1>3 DEF NotifyImplEnd, UnlockWait
<1>4. ASSUME NEW t \in Threads, WakeStep(t)
      PROVE  MutexHeld'
  BY <1>4 DEF WakeStep, WakeEnter, WakeCount, WakePost
<1>5. ASSUME NEW t \in Threads, SleepStep(t)
      PROVE  MutexHeld'
  BY <1>5 DEF SleepStep, PreWait, TakeToken, TimeOut, PostWait, Absorb, PostWaitEnd
<1>6. CASE UNCHANGED vars
  BY <1>6 DEF vars
<1>7. QED
  BY <1>1, <1>2, <1>3, <1>4, <1>5, <1>6, StepCases

\* No step makes a second baton, and an expired wait makes none.
LEMMA NotDoubledKept ==
    ASSUME Types, NotDoubled, [Next]_vars
    PROVE  NotDoubled'
<1> USE DEF Types, NotDoubled, Carries
<1>1. ASSUME NEW t \in Threads,
             Lock(t) \/ Notify(t) \/ NotifyAll(t) \/ Unlock(t) \/ Wait(t) \/ NotifyImplNext(t)
                \/ NotifyImplEnd(t) \/ UnlockWait(t) \/ Relock(t) \/ PreWait(t) \/ TimeOut(t)
      PROVE  NotDoubled'
  <2>1. /\ UNCHANGED <<m_gate, m_queue>>
        /\ \A u \in Threads : Carries(u)' => Carries(u)
    BY <1>1 DEF Lock, Notify, NotifyAll, Unlock, Wait, BeginNotify, NotifyImplNext,
                NotifyImplEnd, UnlockWait, Relock, PreWait, TimeOut
  <2>2. QED
    BY <2>1
<1>2. ASSUME NEW t \in Threads, WakeEnter(t)
      PROVE  NotDoubled'
  BY <1>2 DEF WakeEnter
<1>3. ASSUME NEW t \in Threads, WakeCount(t, todo[t] = -1)
      PROVE  NotDoubled'
  BY <1>3 DEF WakeCount
<1>4. ASSUME NEW t \in Threads, WakePost(t, "notify")
      PROVE  NotDoubled'
  BY <1>4 DEF WakePost
<1>5. ASSUME NEW t \in Threads, TakeToken(t) \/ Absorb(t)
      PROVE  NotDoubled'
  BY <1>5 DEF TakeToken, Absorb
<1>6. ASSUME NEW t \in Threads, PostWait(t, "relock")
      PROVE  NotDoubled'
  BY <1>6 DEF PostWait
<1>7. ASSUME NEW t \in Threads, PostWaitEnd(t, "relock")
      PROVE  NotDoubled'
  BY <1>7 DEF PostWaitEnd
<1>8. CASE UNCHANGED vars
  BY <1>8 DEF vars
<1>9. ASSUME NEW t \in Threads, WakeStep(t) \/ SleepStep(t)
      PROVE  \/ WakeEnter(t) \/ WakeCount(t, todo[t] = -1) \/ WakePost(t, "notify")
             \/ TakeToken(t) \/ Absorb(t) \/ PostWait(t, "relock") \/ PostWaitEnd(t, "relock")
             \/ PreWait(t) \/ TimeOut(t)
  BY <1>9 DEF WakeStep, SleepStep
<1>10. QED
  BY <1>1, <1>2, <1>3, <1>4, <1>5, <1>6, <1>7, <1>8, <1>9, StepCases

\* The count, the mutex and the single baton hold together in every state.
THEOREM SafeInvariant == Spec => [](CountInv /\ MutexHeld /\ NotDoubled)
<1>1. CountInv /\ MutexHeld /\ NotDoubled /\ [Next]_vars => (CountInv /\ MutexHeld /\ NotDoubled)'
  BY TypesKept, CountKept, MutexKept, NotDoubledKept DEF CountInv
<1>2. QED
  BY <1>1, CountInit, SafeInit, PTL DEF Spec

\* Between Lock and Unlock, or the sleep of Wait, one thread works under the
\* monitor: the wakeups are given with the mutex held (Monitor.cpp:24-65).
THEOREM MutualExclusion ==
    Spec => [](\A t, u \in Threads : pc[t] \in Holding /\ pc[u] \in Holding => t = u)
<1>1. MutexHeld => \A t, u \in Threads : pc[t] \in Holding /\ pc[u] \in Holding => t = u
  BY DEF MutexHeld
<1>2. QED
  BY <1>1, SafeInvariant, PTL

\* No expired wait, however it falls, opens the gate a second time or leaves a
\* second token: what a timed wait can do to a wakeup is lose it.
THEOREM BatonNeverDoubled == Spec => []NotDoubled
  BY SafeInvariant, PTL

\* No counter goes negative and the semaphores stay at 0 or 1, with timed
\* waits as well.
THEOREM TypeCorrect == Spec => []TypeOK
<1>1. CountInv /\ NotDoubled => TypeOK
  BY SleepersFinite DEF CountInv, NotDoubled, Types, WaitersCounted, TypeOK, ConditionTypes
<1>2. QED
  BY <1>1, SafeInvariant, PTL
-----------------------------------------------------------------------------
(* Without timed waits the wakeup under way is a single baton.              *)

\* The baton changes hands in these steps, and the others leave it alone.
BatonMoves(t) ==
    \/ WakeEnter(t)
    \/ WakeCount(t, todo[t] = -1)
    \/ WakePost(t, "notify")
    \/ TakeToken(t)
    \/ PostWait(t, "relock")
    \/ PostWaitEnd(t, "relock")

\* Places without any part in a wakeup.
Idle == {"out", "in", "notify", "relock", "wake_gate", "prewait", "unlock_wait", "waiting"}

\* A step moves the baton, or only threads that have no part in a wakeup.
LEMMA IdleMoves ==
    ASSUME Types, BatonInv, Timed = {}, [Next]_vars
    PROVE  \/ \E t \in Threads : BatonMoves(t)
           \/ /\ \A u \in Threads : pc'[u] = pc[u] \/ (pc[u] \in Idle /\ pc'[u] \in Idle)
              /\ UNCHANGED <<m_gate, m_queue, m_toUnblock>>
<1> USE DEF Types, Idle
<1>1. ASSUME NEW t \in Threads,
             Lock(t) \/ Notify(t) \/ NotifyAll(t) \/ Unlock(t) \/ Wait(t) \/ NotifyImplNext(t)
                \/ NotifyImplEnd(t) \/ UnlockWait(t) \/ Relock(t) \/ PreWait(t)
      PROVE  /\ \A u \in Threads : pc'[u] = pc[u] \/ (pc[u] \in Idle /\ pc'[u] \in Idle)
             /\ UNCHANGED <<m_gate, m_queue, m_toUnblock>>
  BY <1>1 DEF Lock, Notify, NotifyAll, Unlock, Wait, BeginNotify, NotifyImplNext,
              NotifyImplEnd, UnlockWait, Relock, PreWait
<1>2. ASSUME NEW t \in Threads, Absorb(t)
      PROVE  FALSE
  BY <1>2 DEF Absorb, BatonInv, Untimed
<1>3. CASE UNCHANGED vars
  BY <1>3 DEF vars
<1>4. ASSUME NEW t \in Threads, WakeStep(t) \/ SleepStep(t)
      PROVE  BatonMoves(t) \/ PreWait(t) \/ Absorb(t)
  BY <1>4 DEF WakeStep, SleepStep, BatonMoves
<1>5. QED
  BY <1>1, <1>2, <1>3, <1>4, StepCases

\* Without timed waits every step keeps the baton one.
LEMMA BatonKept ==
    ASSUME Types, BatonInv, Timed = {}, CountInv, [Next]_vars
    PROVE  BatonInv'
<1> USE DEF BatonInv, Phase, Untimed, OneBaton, Carries, Types
<1>1. CASE /\ \A u \in Threads : pc'[u] = pc[u] \/ (pc[u] \in Idle /\ pc'[u] \in Idle)
           /\ UNCHANGED <<m_gate, m_queue, m_toUnblock>>
  BY <1>1 DEF Idle
<1>2. ASSUME NEW t \in Threads, WakeEnter(t)
      PROVE  BatonInv'
  BY <1>2 DEF WakeEnter
<1>3. ASSUME NEW t \in Threads, WakeCount(t, todo[t] = -1)
      PROVE  BatonInv'
  BY <1>3 DEF WakeCount
<1>4. ASSUME NEW t \in Threads, WakePost(t, "notify")
      PROVE  BatonInv'
  BY <1>4 DEF WakePost
<1>5. ASSUME NEW t \in Threads, TakeToken(t)
      PROVE  BatonInv'
  BY <1>5 DEF TakeToken
<1>6. ASSUME NEW t \in Threads, PostWait(t, "relock")
      PROVE  BatonInv'
  BY <1>6 DEF PostWait
<1>7. ASSUME NEW t \in Threads, PostWaitEnd(t, "relock")
      PROVE  BatonInv'
  BY <1>7 DEF PostWaitEnd
<1>8. QED
  BY <1>1, <1>2, <1>3, <1>4, <1>5, <1>6, <1>7, IdleMoves DEF BatonMoves

\* At first the baton is the open gate.
LEMMA BatonInit == Init => BatonInv
  BY DEF Init, ConditionInit, BatonInv, Phase, Untimed, OneBaton, Carries

\* Without timed waits there is one baton in every state.
THEOREM BatonInvariant ==
    ASSUME Timed = {}
    PROVE  Spec => [](CountInv /\ BatonInv)
<1>1. CountInv /\ BatonInv /\ [Next]_vars => (CountInv /\ BatonInv)'
  BY TypesKept, CountKept, BatonKept DEF CountInv
<1>2. QED
  BY <1>1, CountInit, BatonInit, PTL DEF Spec

\* Without timed waits there is one baton: the open gate, the token of the
\* queue, or one thread in the middle of a wakeup (_wake and _postWait).
THEOREM BatonUnique ==
    ASSUME Timed = {}
    PROVE  Spec => []OneBaton
  BY BatonInvariant, PTL DEF BatonInv
-----------------------------------------------------------------------------
(* A wakeup is granted to who sleeps, once each: the class implements       *)
(* CondVar.                                                                 *)

\* Without timed waits every step of the class is a step of the condition variable, or none.
LEMMA StepImplements ==
    ASSUME Timed = {}, CountInv, BatonInv, [Next]_vars
    PROVE  [CV!Next]_CV!vars
<1> USE DEF CountInv, CV!vars
<1>1. ASSUME NEW t \in Threads, PreWait(t)
      PROVE  CV!Sleep(t)
  <2>1. t \notin Sleepers /\ Sleepers' = Sleepers \cup {t}
    BY <1>1, SleeperAdded DEF PreWait, Asleep
  <2>2. m_toUnblock = 0 /\ UNCHANGED m_toUnblock
    BY <1>1 DEF PreWait, BatonInv, Phase
  <2>3. QED
    BY <2>1, <2>2 DEF CV!Sleep
<1>2. ASSUME NEW t \in Threads, PostWait(t, "relock")
      PROVE  CV!Wake(t)
  <2>1. PICK p : Go(t, p) /\ pc[t] \in Asleep /\ p \notin Asleep
    BY <1>2 DEF PostWait, Asleep
  <2>2. t \in Sleepers /\ Sleepers' = Sleepers \ {t}
    BY <2>1, SleeperRemoved
  <2>3. m_toUnblock > 0 /\ m_toUnblock' = m_toUnblock - 1
    BY <1>2 DEF PostWait, BatonInv, Phase, Untimed, Types
  <2>4. QED
    BY <2>2, <2>3 DEF CV!Wake
<1>3. ASSUME NEW t \in Threads, WakeCount(t, todo[t] = -1), Sleepers' = Sleepers
      PROVE  CV!Signal \/ CV!Broadcast \/ UNCHANGED CV!vars
  <2>1. m_toUnblock = 0
    BY <1>3 DEF WakeCount, BatonInv, Phase
  <2>2. m_blocked' = Cardinality(Sleepers)
    BY <1>3 DEF WakeCount, WaitersCounted
  <2>3. CASE m_blocked' > 0
    <3>1. Sleepers # {}
      BY <2>2, <2>3, FS_EmptySet
    <3>2. m_toUnblock' = 1 \/ m_toUnblock' = Cardinality(Sleepers)
      BY <1>3, <2>2, <2>3 DEF WakeCount
    <3>3. CV!Cardinality(Sleepers) = Cardinality(Sleepers)
      BY DEF Cardinality, CV!Cardinality
    <3>4. QED
      BY <1>3, <2>1, <3>1, <3>2, <3>3 DEF CV!Signal, CV!Broadcast, CV!Grant
  <2>4. CASE ~(m_blocked' > 0)
    BY <1>3, <2>4 DEF WakeCount
  <2>5. QED
    BY <2>3, <2>4
<1>4. ASSUME Sleepers' = Sleepers
      PROVE  [CV!Next]_CV!vars
  <2>1. CASE UNCHANGED m_toUnblock
    BY <1>4, <2>1
  <2>2. ASSUME NEW t \in Threads, WakeCount(t, todo[t] = -1)
        PROVE  [CV!Next]_CV!vars
    BY <1>3, <1>4, <2>2 DEF CV!Next
  <2>3. ASSUME NEW t \in Threads, PostWait(t, "relock")
        PROVE  [CV!Next]_CV!vars
    BY <1>2, <2>3 DEF CV!Next
  <2>4. ASSUME NEW t \in Threads, BatonMoves(t)
        PROVE  UNCHANGED m_toUnblock \/ WakeCount(t, todo[t] = -1) \/ PostWait(t, "relock")
    BY <2>4 DEF BatonMoves, WakeEnter, WakePost, TakeToken, PostWaitEnd
  <2>5. QED
    BY <2>1, <2>2, <2>3, <2>4, IdleMoves
<1>5. QED
  BY <1>1, <1>2, <1>4, SleepersStep DEF CV!Next

\* Every behaviour of CMonitor without timed waits is one of CondVar: a wakeup
\* goes to threads asleep when it was given, and all that sleep for NotifyAll.
THEOREM ImplementsCondVar ==
    ASSUME Timed = {}
    PROVE  Spec => CondVarSpec
<1>1. Init => CV!Init
  BY DEF Init, ConditionInit, Sleepers, CV!Init
<1>2. CountInv /\ BatonInv /\ [Next]_vars => [CV!Next]_CV!vars
  BY StepImplements
<1>3. QED
  BY <1>1, <1>2, BatonInvariant, PTL DEF Spec, CondVarSpec, CV!Spec
-----------------------------------------------------------------------------
(* A wakeup that has been given comes to its end: it always has a thread to *)
(* go on with, and each of its steps brings the gate nearer.                *)

\* No more wakeups are granted than threads sleep.
GrantedSleep == m_toUnblock <= Cardinality(Sleepers)

\* While the gate is shut a thread is in the middle of the wakeup, or the token
\* has a thread that will take it: nobody has to be notified for it once more.
WakeupGoesOn ==
    m_gate = 0 => \E t \in Threads :
        Carries(t) \/ (m_queue = 1 /\ pc[t] \in {"unlock_wait", "waiting"})

\* How far the wakeup is from the open gate: three steps for each thread to wake,
\* and the few that the baton has gone, or has to go, before and after.
WakeupLeft ==
    IF m_gate = 1 THEN 0
    ELSE IF \E t \in Threads : pc[t] = "wake" THEN 3 * Cardinality(Sleepers) + 2
    ELSE IF m_queue = 1 THEN 3 * m_toUnblock
    ELSE IF \E t \in Threads : pc[t] = "woken" THEN 3 * m_toUnblock - 1
    ELSE 3 * m_toUnblock + 1

\* Every step of the wakeup under way lowers what is left of it, and no other
\* step, of any thread, raises it while the gate is shut.
NearsItsEnd ==
    m_gate = 0 =>
        /\ WakeupLeft' <= WakeupLeft
        /\ (\E t \in Threads : Carries(t) /\ pc'[t] # pc[t]) \/ m_queue' # m_queue
            => WakeupLeft' < WakeupLeft

WakeupShrinks == [][NearsItsEnd]_vars

\* What the counting of sleepers says of a step that is neither PreWait nor PostWait.
LEMMA GrantedKept ==
    ASSUME CountInv, BatonInv, Timed = {}, GrantedSleep, [Next]_vars
    PROVE  GrantedSleep'
<1> USE SleepersFinite DEF CountInv, Types, GrantedSleep
<1>0. IsFiniteSet(Sleepers') /\ Cardinality(Sleepers') \in Nat
  <2>1. IsFiniteSet(Sleepers')
    BY FS_Subset DEF Sleepers
  <2>2. QED
    BY <2>1, FS_CardinalityType
<1>1. ASSUME NEW t \in Threads, PreWait(t)
      PROVE  GrantedSleep'
  <2>1. Cardinality(Sleepers') = Cardinality(Sleepers) + 1
    BY <1>1, SleeperAdded DEF PreWait, Asleep
  <2>2. QED
    BY <1>1, <2>1 DEF PreWait
<1>2. ASSUME NEW t \in Threads, PostWait(t, "relock")
      PROVE  GrantedSleep'
  <2>1. PICK p : Go(t, p) /\ pc[t] \in Asleep /\ p \notin Asleep
    BY <1>2 DEF PostWait, Asleep
  <2>2. Cardinality(Sleepers') = Cardinality(Sleepers) - 1
    BY <2>1, SleeperRemoved
  <2>3. m_toUnblock > 0 /\ m_toUnblock' = m_toUnblock - 1
    BY <1>2 DEF PostWait, BatonInv, Phase, Untimed
  <2>4. QED
    BY <2>2, <2>3
<1>3. ASSUME Sleepers' = Sleepers, NEW t \in Threads, WakeCount(t, todo[t] = -1)
      PROVE  GrantedSleep'
  <2>1. m_blocked' = Cardinality(Sleepers)
    BY <1>3 DEF WakeCount, WaitersCounted
  <2>2. QED
    BY <1>3, <2>1 DEF WakeCount
<1>4. ASSUME NEW t \in Threads, BatonMoves(t)
      PROVE  UNCHANGED m_toUnblock \/ WakeCount(t, todo[t] = -1) \/ PostWait(t, "relock")
  BY <1>4 DEF BatonMoves, WakeEnter, WakePost, TakeToken, PostWaitEnd
<1>5. ASSUME Sleepers' = Sleepers, UNCHANGED m_toUnblock
      PROVE  GrantedSleep'
  BY <1>5
<1>6. QED
  BY <1>1, <1>2, <1>3, <1>4, <1>5, SleepersStep, IdleMoves

\* No more wakeups are granted than threads sleep, in every state.
THEOREM GrantedInvariant ==
    ASSUME Timed = {}
    PROVE  Spec => [](CountInv /\ BatonInv /\ GrantedSleep)
<1>1. CountInv /\ BatonInv /\ GrantedSleep /\ [Next]_vars => GrantedSleep'
  BY GrantedKept
<1>2. Init => GrantedSleep
  BY CountInit, SleepersFinite DEF Init, ConditionInit, GrantedSleep
<1>3. QED
  BY <1>1, <1>2, BatonInvariant, PTL DEF Spec

\* Without timed waits a token in the queue has a thread that will take it: the
\* wakeup under way waits for no further Notify (_wake and _postWait).
THEOREM WakeupNeverStuck ==
    ASSUME Timed = {}
    PROVE  Spec => []WakeupGoesOn
<1>1. ASSUME CountInv, BatonInv, GrantedSleep, m_gate = 0, m_queue = 1
      PROVE  \E t \in Threads : pc[t] \in {"unlock_wait", "waiting"}
  <2>1. m_toUnblock \in Nat /\ m_toUnblock > 0
    BY <1>1 DEF CountInv, Types, BatonInv, Phase
  <2>2. Sleepers # {}
    BY <1>1, <2>1, FS_EmptySet DEF GrantedSleep
  <2>3. PICK t \in Threads : pc[t] \in {"unlock_wait", "waiting", "woken", "timedout"}
    BY <2>2 DEF Sleepers
  <2>4. pc[t] # "woken" /\ pc[t] # "timedout"
    BY <1>1 DEF BatonInv, OneBaton, Carries, Untimed
  <2>5. QED
    BY <2>3, <2>4
<1>2. CountInv /\ BatonInv /\ GrantedSleep => WakeupGoesOn
  BY <1>1 DEF WakeupGoesOn, CountInv, Types, BatonInv, OneBaton
<1>3. QED
  BY <1>2, GrantedInvariant, PTL

LeftByCarrier ==
    /\ \A t \in Threads : pc[t] = "wake" => WakeupLeft = 3 * Cardinality(Sleepers) + 2
    /\ m_queue = 1 => WakeupLeft = 3 * m_toUnblock
    /\ \A t \in Threads : pc[t] = "woken" => WakeupLeft = 3 * m_toUnblock - 1
    /\ \A t \in Threads : pc[t] \in {"post_queue", "post_gate", "open_gate", "pass_on"}
          => WakeupLeft = 3 * m_toUnblock + 1

\* Who carries the wakeup while the gate is shut, and where, decides what is left of it.
LEMMA LeftIs == CountInv /\ BatonInv /\ m_gate = 0 => LeftByCarrier
<1> SUFFICES ASSUME CountInv, BatonInv, m_gate = 0
             PROVE  LeftByCarrier
  OBVIOUS
<1> USE DEF CountInv, Types, BatonInv, OneBaton, Carries
<1>1. ASSUME NEW t \in Threads, pc[t] = "wake"
      PROVE  WakeupLeft = 3 * Cardinality(Sleepers) + 2
  BY <1>1 DEF WakeupLeft
<1>2. ASSUME m_queue = 1
      PROVE  WakeupLeft = 3 * m_toUnblock
  BY <1>2 DEF WakeupLeft
<1>3. ASSUME NEW t \in Threads, pc[t] = "woken"
      PROVE  WakeupLeft = 3 * m_toUnblock - 1
  <2>1. m_queue # 1 /\ \A u \in Threads : pc[u] # "wake"
    BY <1>3
  <2>2. QED
    BY <1>3, <2>1 DEF WakeupLeft
<1>4. ASSUME NEW t \in Threads, pc[t] \in {"post_queue", "post_gate", "open_gate", "pass_on"}
      PROVE  WakeupLeft = 3 * m_toUnblock + 1
  <2>1. m_queue # 1 /\ \A u \in Threads : pc[u] # "wake" /\ pc[u] # "woken"
    BY <1>4
  <2>2. QED
    BY <1>4, <2>1 DEF WakeupLeft
<1>5. QED
  BY <1>1, <1>2, <1>3, <1>4 DEF LeftByCarrier

\* The same of the next state.
LEMMA LeftIsNext == (CountInv /\ BatonInv /\ m_gate = 0 => LeftByCarrier)'
  BY LeftIs, PTL

\* What is left of a wakeup is a number, in the next state as in this one.
LEMMA LeftIsInteger == (CountInv => WakeupLeft \in Int)'
<1>1. CountInv => WakeupLeft \in Int
  BY SleepersFinite DEF WakeupLeft, CountInv, Types
<1>2. QED
  BY <1>1, PTL

\* A step that moves the baton while the gate is shut brings the gate nearer.
LEMMA BatonMovesLower ==
    ASSUME CountInv, BatonInv, CountInv', BatonInv', m_gate = 0, Sleepers' = Sleepers,
           NEW t \in Threads, BatonMoves(t), ~PostWait(t, "relock")
    PROVE  WakeupLeft' < WakeupLeft
<1> USE LeftIs, SleepersFinite DEF LeftByCarrier, CountInv, Types, Carries
<1>1. CASE WakeCount(t, todo[t] = -1)
  <2>1. WakeupLeft = 3 * Cardinality(Sleepers) + 2
    BY <1>1 DEF WakeCount
  <2>2. m_gate' = 0 /\ pc'[t] \in {"post_queue", "post_gate"}
    BY <1>1 DEF WakeCount
  <2>3. WakeupLeft' = 3 * m_toUnblock' + 1
    BY <2>2, LeftIsNext
  <2>4. m_toUnblock' <= Cardinality(Sleepers)
    <3>1. m_blocked' = Cardinality(Sleepers) /\ m_toUnblock = 0
      BY <1>1 DEF WakeCount, WaitersCounted, BatonInv, Phase
    <3>2. QED
      BY <1>1, <3>1 DEF WakeCount
  <2>5. QED
    BY <2>1, <2>3, <2>4
<1>2. CASE WakePost(t, "notify") \/ PostWaitEnd(t, "relock")
  <2>1. WakeupLeft = 3 * m_toUnblock + 1 /\ m_toUnblock' = m_toUnblock
    BY <1>2 DEF WakePost, PostWaitEnd
  <2>2. (m_gate' = 1 \/ (m_gate' = 0 /\ m_queue' = 1))
    BY <1>2 DEF WakePost, PostWaitEnd, BatonInv, OneBaton
  <2>3. m_gate' = 1 => WakeupLeft' = 0
    BY DEF WakeupLeft
  <2>4. m_gate' = 0 /\ m_queue' = 1 => WakeupLeft' = 3 * m_toUnblock'
    BY LeftIsNext
  <2>5. QED
    BY <2>1, <2>2, <2>3, <2>4
<1>3. CASE TakeToken(t)
  <2>1. m_queue = 1 /\ m_gate' = 0 /\ pc'[t] = "woken" /\ m_toUnblock' = m_toUnblock
    BY <1>3 DEF TakeToken, BatonInv, OneBaton
  <2>2. WakeupLeft = 3 * m_toUnblock
    BY <2>1
  <2>3. WakeupLeft' = 3 * m_toUnblock' - 1
    BY <2>1, LeftIsNext
  <2>4. QED
    BY <2>1, <2>2, <2>3
<1>4. CASE WakeEnter(t)
  BY <1>4 DEF WakeEnter
<1>5. QED
  BY <1>1, <1>2, <1>3, <1>4 DEF BatonMoves

\* So does the step in which a woken thread counts itself out.
LEMMA PostWaitLowers ==
    ASSUME CountInv, BatonInv, CountInv', BatonInv', m_gate = 0,
           NEW t \in Threads, PostWait(t, "relock")
    PROVE  WakeupLeft' < WakeupLeft
<1> USE LeftIs DEF LeftByCarrier, CountInv, Types, Carries
<1>1. pc[t] = "woken" /\ m_toUnblock > 0
  BY DEF PostWait, BatonInv, Phase, Untimed
<1>2. WakeupLeft = 3 * m_toUnblock - 1
  BY <1>1
<1>3. m_gate' = 0 /\ m_toUnblock' = m_toUnblock - 1 /\ pc'[t] \in {"open_gate", "pass_on"}
  BY <1>1 DEF PostWait
<1>4. WakeupLeft' = 3 * m_toUnblock' + 1
  BY <1>3, LeftIsNext
<1>5. QED
  BY <1>2, <1>3, <1>4

\* A step that is not the baton's leaves what is left of the wakeup as it is.
LEMMA OthersKeepLeft ==
    ASSUME CountInv, BatonInv, m_gate = 0,
           \A u \in Threads : pc'[u] = pc[u] \/ (pc[u] \in Idle /\ pc'[u] \in Idle),
           UNCHANGED <<m_gate, m_queue, m_toUnblock>>, Sleepers' = Sleepers
    PROVE  /\ WakeupLeft' = WakeupLeft
           /\ m_queue' = m_queue
           /\ \A t \in Threads : Carries(t) => pc'[t] = pc[t]
<1>1. \A t \in Threads : (pc'[t] = "wake" <=> pc[t] = "wake") /\ (pc'[t] = "woken" <=> pc[t] = "woken")
  BY DEF Idle
<1>2. WakeupLeft' = WakeupLeft
  BY <1>1 DEF WakeupLeft
<1>3. QED
  BY <1>2 DEF Idle, Carries

\* With the gate shut every step moves the wakeup on, or leaves it as it is.
LEMMA WakeupStep ==
    ASSUME Timed = {}, CountInv, BatonInv, CountInv', BatonInv', [Next]_vars, m_gate = 0
    PROVE  \/ WakeupLeft' < WakeupLeft
           \/ /\ WakeupLeft' = WakeupLeft
              /\ m_queue' = m_queue
              /\ \A t \in Threads : Carries(t) => pc'[t] = pc[t]
<1>1. ASSUME NEW t \in Threads, PostWait(t, "relock")
      PROVE  WakeupLeft' < WakeupLeft
  BY <1>1, PostWaitLowers
<1>2. ASSUME NEW t \in Threads, PreWait(t)
      PROVE  FALSE
  BY <1>2 DEF PreWait
<1>3. CASE Sleepers' = Sleepers
  <2>1. ASSUME NEW t \in Threads, BatonMoves(t)
        PROVE  WakeupLeft' < WakeupLeft
    BY <1>1, <1>3, <2>1, BatonMovesLower
  <2>2. QED
    BY <1>3, <2>1, IdleMoves, OthersKeepLeft DEF CountInv
<1>4. QED
  BY <1>1, <1>2, <1>3, SleepersStep

\* Without timed waits a wakeup comes nearer to its end with every step of it,
\* and no Lock, Notify or Wait of another thread holds it up (_wake, _postWait):
\* with WakeupNeverStuck, all of WakeupEnds but the fairness of the threads.
THEOREM WakeupNearsItsEnd ==
    ASSUME Timed = {}
    PROVE  Spec => WakeupShrinks
<1>1. CountInv /\ BatonInv /\ CountInv' /\ BatonInv' /\ [Next]_vars => NearsItsEnd
  <2> SUFFICES ASSUME CountInv, BatonInv, CountInv', BatonInv', [Next]_vars, m_gate = 0
               PROVE  /\ WakeupLeft' <= WakeupLeft
                      /\ (\E t \in Threads : Carries(t) /\ pc'[t] # pc[t]) \/ m_queue' # m_queue
                          => WakeupLeft' < WakeupLeft
    BY DEF NearsItsEnd
  <2>1. WakeupLeft \in Int
    BY SleepersFinite DEF WakeupLeft, CountInv, Types
  <2>2. ASSUME WakeupLeft' < WakeupLeft
        PROVE  WakeupLeft' <= WakeupLeft
    BY <2>1, <2>2, LeftIsInteger
  <2>3. QED
    BY <2>1, <2>2, WakeupStep
<1>2. QED
  BY <1>1, BatonInvariant, PTL DEF Spec, WakeupShrinks

=============================================================================
