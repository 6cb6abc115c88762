-------------------------- MODULE ThreadPoolProofs --------------------------
(* Proofs about the thread pool, for any number of workers, tasks, objects. *)
EXTENDS ThreadPool, FiniteSetTheorems, TLAPS

Readers == {w \in Workers : pc[w] = "wait"}

Holds(w) == pc[w] \in {"check", "execute", "done"}

(* The inductive invariant.  Each part is named for what it adds.           *)

Types ==
    /\ pc \in [Workers -> {"loop", "take", "wait", "check", "execute", "done", "ended"}]
    /\ runItem \in [Workers -> Tasks \cup {none}]
    /\ added \in [Tasks -> Nat]
    /\ waiting \subseteq Tasks
    /\ running \subseteq Tasks
    /\ m_bCloseAll \in BOOLEAN
    /\ remover \in [Objects -> {"no", "removing", "removed"}]
    /\ stopper \in {"no", "notify", "join", "clear", "stopped"}
    /\ runs \in [Tasks -> Nat]

Counted ==
    /\ readers = Cardinality(Readers)
    /\ asleep \subseteq Readers

Closed ==
    /\ m_bCloseAll <=> stopper # "no"
    /\ m_bCloseAll => waiting = {}
    /\ \A w \in Workers : pc[w] = "ended" => m_bCloseAll
    /\ stopper \in {"clear", "stopped"} => \A w \in Workers : pc[w] = "ended"

\* A task taken is held by one worker, who finds it among the running ones.
Held ==
    /\ \A w \in Workers : Holds(w) => runItem[w] \in running
    /\ \A v, w \in Workers : Holds(v) /\ Holds(w) /\ runItem[v] = runItem[w] => v = w
    /\ waiting \cap running = {}

Fresh ==
    /\ \A t \in waiting \cup running : added[t] > 0
    /\ \A t \in Tasks : runs[t] > 0 => added[t] > 0 /\ t \notin waiting
    /\ \A w \in Workers : pc[w] = "check" => runs[runItem[w]] = 0
    /\ RunOnce

Gone == \A t \in waiting \cup running : remover[Object[t]] # "removed"

IInv == Types /\ Counted /\ Closed /\ WorkSeen /\ Held /\ Fresh /\ Gone
-----------------------------------------------------------------------------
(* Counting.                                                                *)

\* The readers are as many as a part of the workers.
LEMMA ReadersFinite ==
    /\ IsFiniteSet(Readers)
    /\ Cardinality(Readers) \in 0..Cardinality(Workers)
<1>1. Readers \in SUBSET Workers
  BY DEF Readers
<1>2. IsFiniteSet(Readers) /\ Cardinality(Readers) <= Cardinality(Workers)
  BY <1>1, FS_Subset, PoolAssumption
<1>3. Cardinality(Readers) \in Nat /\ Cardinality(Workers) \in Nat
  BY <1>2, FS_CardinalityType, PoolAssumption
<1>4. QED
  BY <1>2, <1>3

\* What the model's type invariant says is a part of the inductive one.
LEMMA TypesImply == Types /\ Counted => TypeOK
  BY ReadersFinite DEF Types, Counted, TypeOK, Readers

\* A worker that moves without waiting leaves the readers alone.
LEMMA SameReaders ==
    ASSUME Types, NEW w \in Workers, NEW p, pc[w] # "wait", p # "wait", Go(w, p)
    PROVE  Readers' = Readers
  BY DEF Types, Readers, Go

\* A worker that has the lock sees the number of the other readers.
LEMMA LockedCount ==
    ASSUME Types, Counted, NEW w \in Workers, Enter(w) \/ Wake(w)
    PROVE  \E n \in Nat : /\ TakeOrSleep(w, n)
                          /\ n = Cardinality(Readers \ {w})
                          /\ pc[w] \in {"take", "wait"} /\ w \notin asleep
<1>1. Cardinality(Readers \ {w}) = IF w \in Readers THEN readers - 1 ELSE readers
  BY ReadersFinite, FS_RemoveElement DEF Counted
<1>2. Cardinality(Readers \ {w}) \in Nat
  BY ReadersFinite, FS_RemoveElement, FS_CardinalityType
<1>3. CASE Enter(w)
  <2>1. w \notin Readers /\ w \notin asleep
    BY <1>3 DEF Enter, Readers, Counted
  <2>2. QED
    BY <1>1, <1>2, <1>3, <2>1 DEF Enter
<1>4. CASE Wake(w)
  <2>1. w \in Readers
    BY <1>4 DEF Wake, Readers
  <2>2. QED
    BY <1>1, <1>2, <1>4, <2>1 DEF Wake
<1>5. QED
  BY <1>3, <1>4

\* The worker leaves the readers, or is one of them.
LEMMA TakingCounts ==
    ASSUME Types, Counted, NEW w \in Workers, NEW n \in Nat, TakeOrSleep(w, n),
           n = Cardinality(Readers \ {w}), w \notin asleep
    PROVE  Counted'
<1>1. CASE Sleep(w, n)
  <2>1. Readers' = (Readers \ {w}) \cup {w}
    BY <1>1 DEF Sleep, Go, Types, Readers
  <2>2. Cardinality(Readers') = n + 1
    BY <2>1, ReadersFinite, FS_RemoveElement, FS_AddElement
  <2>3. QED
    BY <1>1, <2>1, <2>2 DEF Sleep, Counted
<1>2. CASE EndTaking(w, n) \/ Take(w, n)
  <2>1. Readers' = Readers \ {w}
    BY <1>2 DEF EndTaking, Take, Go, Types, Readers
  <2>2. QED
    BY <1>2, <2>1 DEF EndTaking, Take, Counted
<1>3. QED
  BY <1>1, <1>2 DEF TakeOrSleep

\* A notification wakes nobody who does not read.
LEMMA NotifyWakes ==
    ASSUME Notify
    PROVE  /\ asleep' \subseteq asleep
           /\ asleep # {} => \E w \in asleep : w \notin asleep'
  BY DEF Notify
-----------------------------------------------------------------------------
(* One lemma per kind of step: each preserves the invariant.                *)

\* A task is added, and a worker that sleeps is told of it.
LEMMA AddTaskPreserves ==
    ASSUME IInv, NEW t \in Tasks, Alive(Object[t]), AddTask(t)
    PROVE  IInv'
<1> DEFINE before == {u \in Tasks : added[u] > 0}
<1>1. Cardinality(before) \in Nat
  <2>1. before \in SUBSET Tasks
    OBVIOUS
  <2>2. IsFiniteSet(before)
    BY <2>1, FS_Subset, PoolAssumption
  <2>3. QED
    BY <2>2, FS_CardinalityType
<1>2. added' = [added EXCEPT ![t] = Cardinality(before) + 1]
  BY DEF AddTask, Enqueue
<1>3. waiting' = waiting \cup {t} /\ added[t] = 0
  BY DEF AddTask, Enqueue, CanAdd
<1>4. UNCHANGED <<pc, runItem, running, readers, m_bCloseAll, remover, stopper, runs>>
  BY DEF AddTask, workerVars
<1> HIDE DEF before
<1>5. Types'
  BY <1>1, <1>2, <1>3, <1>4 DEF IInv, Types
<1>6. Readers' = Readers
  BY <1>4 DEF Readers
<1>7. asleep' \subseteq asleep
  BY NotifyWakes DEF AddTask
<1>8. Counted'
  BY <1>4, <1>6, <1>7 DEF IInv, Counted
<1>9. Closed'
  BY <1>3, <1>4 DEF IInv, Closed, AddTask, CanAdd
<1>10. WorkSeen'
  <2>1. \A w \in Workers : pc'[w] # "ended"
    BY <1>4 DEF IInv, Closed, AddTask, CanAdd
  <2>2. CASE readers > 0 /\ asleep # {}
    BY <2>1, <2>2, <1>4, NotifyWakes DEF IInv, Counted, Readers, AddTask, WorkSeen
  <2>3. CASE asleep = {}
    <3>1. asleep' = {}
      BY <2>3, <1>7
    <3>2. QED
      BY <2>1, <3>1, PoolAssumption DEF WorkSeen
  <2>4. CASE ~(readers > 0)
    <3>1. Readers = {}
      BY <2>4, ReadersFinite, FS_EmptySet DEF IInv, Counted
    <3>2. asleep' = {}
      BY <3>1, <1>7 DEF IInv, Counted
    <3>3. QED
      BY <2>1, <3>2, PoolAssumption DEF WorkSeen
  <2>5. QED
    BY <2>2, <2>3, <2>4
<1>11. t \notin running
  BY <1>3 DEF IInv, Types, Fresh
<1>12. Held'
  BY <1>3, <1>4, <1>11 DEF IInv, Held, Holds
<1>13. \A u \in Tasks : added'[u] > 0 <=> (added[u] > 0 \/ u = t)
  BY <1>1, <1>2 DEF IInv, Types
<1>14. Fresh'
  <2>1. runs[t] = 0
    BY <1>3 DEF IInv, Types, Fresh
  <2>2. QED
    BY <1>3, <1>4, <1>13, <2>1 DEF IInv, Types, Fresh, RunOnce
<1>15. Gone'
  BY <1>3, <1>4 DEF IInv, Gone, Alive
<1>16. QED
  BY <1>5, <1>8, <1>9, <1>10, <1>12, <1>14, <1>15 DEF IInv

\* A worker takes the lock and then a task, or waits, or leaves.
LEMMA LockedPreserves ==
    ASSUME IInv, NEW w \in Workers, Enter(w) \/ Wake(w)
    PROVE  IInv'
<1>1. PICK n \in Nat : /\ TakeOrSleep(w, n)
                       /\ n = Cardinality(Readers \ {w})
                       /\ pc[w] \in {"take", "wait"} /\ w \notin asleep
  BY LockedCount DEF IInv
<1>2. Counted'
  BY <1>1, TakingCounts DEF IInv
<1>3. CASE Sleep(w, n)
  <2> USE <1>3 DEF Sleep, queueVars, Go
  <2>1. Types'
    BY DEF IInv, Types
  <2>2. Closed'
    BY DEF IInv, Types, Closed
  <2>3. WorkSeen'
    BY DEF WorkSeen
  <2>4. Held'
    BY DEF IInv, Types, Held, Holds
  <2>5. Fresh'
    BY DEF IInv, Types, Fresh, RunOnce
  <2>6. Gone'
    BY DEF IInv, Gone
  <2>7. QED
    BY <1>2, <2>1, <2>2, <2>3, <2>4, <2>5, <2>6 DEF IInv
<1>4. CASE EndTaking(w, n)
  <2> USE <1>4 DEF EndTaking, queueVars, Go
  <2>1. Types'
    BY DEF IInv, Types
  <2>2. Closed'
    BY DEF IInv, Types, Closed
  <2>3. WorkSeen'
    BY DEF IInv, Closed, WorkSeen
  <2>4. Held'
    BY DEF IInv, Types, Held, Holds
  <2>5. Fresh'
    BY DEF IInv, Types, Fresh, RunOnce
  <2>6. Gone'
    BY DEF IInv, Gone
  <2>7. QED
    BY <1>2, <2>1, <2>2, <2>3, <2>4, <2>5, <2>6 DEF IInv
<1>5. CASE Take(w, n)
  <2> USE <1>5 DEF Take, Go
  <2>1. PICK t \in waiting : /\ runItem' = [runItem EXCEPT ![w] = t]
                             /\ waiting' = waiting \ {t}
                             /\ running' = running \cup {t}
    OBVIOUS
  <2>2. t \in Tasks
    BY DEF IInv, Types
  <2>3. Types'
    BY <2>1, <2>2 DEF IInv, Types
  <2>4. Closed'
    BY <2>1 DEF IInv, Types, Closed
  <2>5. WorkSeen'
    BY <1>1 DEF IInv, Types, WorkSeen
  <2>6. t \notin running
    BY DEF IInv, Held
  <2>7. Held'
    BY <1>1, <2>1, <2>6 DEF IInv, Types, Held, Holds
  <2>8. Fresh'
    BY <1>1, <2>1, <2>2 DEF IInv, Types, Fresh, RunOnce
  <2>9. Gone'
    BY <2>1 DEF IInv, Gone
  <2>10. QED
    BY <1>2, <2>3, <2>4, <2>5, <2>7, <2>8, <2>9 DEF IInv
<1>6. QED
  BY <1>1, <1>3, <1>4, <1>5 DEF TakeOrSleep

\* The steps of a worker that leave the queues alone.
LEMMA MovePreserves ==
    ASSUME IInv, NEW w \in Workers, Loop(w) \/ Check(w) \/ ExecuteReturns(w)
    PROVE  IInv'
<1>1. CASE Loop(w)
  <2> USE <1>1 DEF Loop, Go, queueVars, waitVars
  <2>1. Types'
    BY DEF IInv, Types
  <2>2. Counted'
    BY SameReaders DEF IInv, Counted
  <2>3. Closed' /\ WorkSeen'
    BY DEF IInv, Types, Closed, WorkSeen
  <2>4. Held'
    BY DEF IInv, Types, Held, Holds
  <2>5. Fresh' /\ Gone'
    BY DEF IInv, Types, Fresh, RunOnce, Gone
  <2>6. QED
    BY <2>1, <2>2, <2>3, <2>4, <2>5 DEF IInv
<1>2. CASE Check(w)
  <2> USE <1>2 DEF Check, Go, queueVars, waitVars
  <2>1. runItem[w] \in Tasks /\ runItem[w] \notin waiting /\ runItem[w] \in running
    BY DEF IInv, Types, Held, Holds
  <2>2. Types'
    <3>1. CASE m_bCloseAll
      BY <3>1 DEF IInv, Types
    <3>2. CASE ~m_bCloseAll
      BY <3>2, <2>1 DEF IInv, Types
    <3>3. QED
      BY <3>1, <3>2
  <2>3. Counted'
    <3>1. Readers' = Readers
      BY DEF IInv, Types, Readers
    <3>2. QED
      BY <3>1 DEF IInv, Counted
  <2>4. Closed' /\ WorkSeen'
    BY DEF IInv, Types, Closed, WorkSeen
  <2>5. Held'
    BY DEF IInv, Types, Held, Holds
  <2>6. Fresh'
    <3>1. CASE m_bCloseAll
      BY <3>1 DEF IInv, Types, Fresh, RunOnce
    <3>2. CASE ~m_bCloseAll
      <4>1. \A v \in Workers : v # w /\ pc[v] = "check" => runItem[v] # runItem[w]
        BY DEF IInv, Held, Holds
      <4>2. QED
        BY <3>2, <2>1, <4>1 DEF IInv, Types, Fresh, RunOnce, Held, Holds
    <3>3. QED
      BY <3>1, <3>2
  <2>7. Gone'
    BY DEF IInv, Gone
  <2>8. QED
    BY <2>2, <2>3, <2>4, <2>5, <2>6, <2>7 DEF IInv
<1>3. CASE ExecuteReturns(w)
  <2> USE <1>3 DEF ExecuteReturns, Go, queueVars, waitVars
  <2>1. Types'
    BY DEF IInv, Types
  <2>2. Counted'
    BY SameReaders DEF IInv, Counted
  <2>3. Closed' /\ WorkSeen'
    BY DEF IInv, Types, Closed, WorkSeen
  <2>4. Held'
    BY DEF IInv, Types, Held, Holds
  <2>5. Fresh' /\ Gone'
    BY DEF IInv, Types, Fresh, RunOnce, Gone
  <2>6. QED
    BY <2>1, <2>2, <2>3, <2>4, <2>5 DEF IInv
<1>4. QED
  BY <1>1, <1>2, <1>3

\* The task that has been executed leaves the running ones.
LEMMA ErasePreserves ==
    ASSUME IInv, NEW w \in Workers, Erase(w)
    PROVE  IInv'
<1> USE DEF Erase, Go, waitVars
<1>1. Types'
  BY DEF IInv, Types
<1>2. Counted'
  BY SameReaders DEF IInv, Counted
<1>3. Closed' /\ WorkSeen'
  BY DEF IInv, Types, Closed, WorkSeen
<1>4. Held'
  BY DEF IInv, Types, Held, Holds
<1>5. Fresh' /\ Gone'
  BY DEF IInv, Types, Fresh, RunOnce, Gone
<1>6. QED
  BY <1>1, <1>2, <1>3, <1>4, <1>5 DEF IInv

\* RemoveTask takes what waits, and returns when nothing of the object runs.
LEMMA RemovePreserves ==
    ASSUME IInv, NEW o \in Objects, RemoveTask(o) \/ RemoveTaskImpl(o)
    PROVE  IInv'
<1>1. waiting' \subseteq waiting
  BY DEF RemoveTask, RemoveTaskImpl, queueVars
<1>2. UNCHANGED <<pc, runItem, added, running, readers, asleep, m_bCloseAll, stopper, runs>>
  BY DEF RemoveTask, RemoveTaskImpl, workerVars, queueVars, waitVars
<1>3. Types'
  BY <1>1, <1>2 DEF IInv, Types, RemoveTask, RemoveTaskImpl
<1>4. Counted' /\ Closed' /\ WorkSeen'
  BY <1>1, <1>2 DEF IInv, Counted, Readers, Closed, WorkSeen
<1>5. Held' /\ Fresh'
  BY <1>1, <1>2 DEF IInv, Held, Holds, Fresh, RunOnce
<1>6. Gone'
  <2>1. CASE RemoveTask(o)
    BY <2>1 DEF IInv, Types, Gone, RemoveTask, queueVars
  <2>2. CASE RemoveTaskImpl(o)
    BY <2>2 DEF IInv, Types, Gone, RemoveTaskImpl, Of
  <2>3. QED
    BY <2>1, <2>2
<1>7. QED
  BY <1>3, <1>4, <1>5, <1>6 DEF IInv

\* Stop takes tasks away, and adds none.
LEMMA StopPreserves ==
    ASSUME IInv, Stop
    PROVE  IInv'
<1>1. UNCHANGED <<pc, runItem, added, readers, remover, runs>>
  BY DEF Stop, StopBegins, StopNotifies, StopJoins, StopClears, workerVars, queueVars, waitVars
<1>2. waiting' \subseteq waiting /\ running' \subseteq running
  BY DEF Stop, StopBegins, StopNotifies, StopJoins, StopClears, queueVars
<1>3. asleep' \subseteq asleep
  BY NotifyWakes DEF Stop, StopBegins, StopNotifies, StopJoins, StopClears, waitVars
<1>4. Types'
  BY <1>1, <1>2 DEF IInv, Types, Stop, StopBegins, StopNotifies, StopJoins, StopClears
<1>5. Counted'
  BY <1>1, <1>3 DEF IInv, Counted, Readers
<1>6. Closed'
  BY <1>1, <1>2 DEF IInv, Types, Closed, Stop, StopBegins, StopNotifies, StopJoins, StopClears
<1>7. WorkSeen'
  BY <1>1, <1>2, <1>3 DEF IInv, WorkSeen
<1>8. Held'
  <2>1. CASE running' = running
    BY <1>1, <1>2, <2>1 DEF IInv, Held, Holds
  <2>2. CASE StopClears
    BY <1>1, <1>2, <2>2 DEF IInv, Held, Holds, Closed, StopClears
  <2>3. QED
    BY <2>1, <2>2 DEF Stop, StopBegins, StopNotifies, StopJoins, queueVars
<1>9. Fresh' /\ Gone'
  BY <1>1, <1>2 DEF IInv, Fresh, RunOnce, Gone
<1>10. QED
  BY <1>4, <1>5, <1>6, <1>7, <1>8, <1>9 DEF IInv
-----------------------------------------------------------------------------
\* At first there are no tasks, and nobody sleeps.
LEMMA InitIInv == Init => IInv
<1> SUFFICES ASSUME Init PROVE IInv
  OBVIOUS
<1> USE DEF Init
<1>1. Types /\ Closed /\ WorkSeen /\ Held /\ Gone
  BY DEF Types, Closed, WorkSeen, Held, Holds, Gone
<1>2. Readers = {}
  BY DEF Readers
<1>3. Counted
  BY <1>2, FS_EmptySet DEF Counted
<1>4. Fresh
  BY DEF Fresh, RunOnce
<1>5. QED
  BY <1>1, <1>3, <1>4 DEF IInv

\* Every step keeps the invariant.
LEMMA StepIInv == IInv /\ [Next]_vars => IInv'
<1> SUFFICES ASSUME IInv, [Next]_vars PROVE IInv'
  OBVIOUS
<1>1. CASE Next
  BY <1>1, AddTaskPreserves, LockedPreserves, MovePreserves, ErasePreserves, RemovePreserves,
     StopPreserves DEF Next, ThreadPoolRun
<1>2. CASE UNCHANGED vars
  <2> USE <1>2 DEF vars, workerVars, queueVars, waitVars
  <2>1. Types' /\ Counted' /\ Closed'
    BY DEF IInv, Types, Counted, Readers, Closed
  <2>2. WorkSeen' /\ Held' /\ Fresh' /\ Gone'
    BY DEF IInv, WorkSeen, Held, Holds, Fresh, RunOnce, Gone
  <2>3. QED
    BY <2>1, <2>2 DEF IInv
<1>3. QED
  BY <1>1, <1>2

\* The invariant holds in every state.
LEMMA Invariance == Spec => []IInv
  BY InitIInv, StepIInv, PTL DEF Spec

\* The types, with as many readers at most as there are workers.
THEOREM TypeCorrect == Spec => []TypeOK
<1>1. IInv => TypeOK
  BY TypesImply DEF IInv
<1>2. QED
  BY <1>1, Invariance, PTL

\* A task that waits is seen by a worker, for any number of them: AddTask
\* loses no notification that matters.
THEOREM NoTaskForgotten == Spec => []WorkSeen
<1>1. IInv => WorkSeen
  BY DEF IInv
<1>2. QED
  BY <1>1, Invariance, PTL

\* No task is executed twice, for any number of workers.
THEOREM ExecutedOnce == Spec => []RunOnce
<1>1. IInv => RunOnce
  BY DEF IInv, Fresh
<1>2. QED
  BY <1>1, Invariance, PTL

\* After RemoveTask no worker touches the object, however many there are.
THEOREM ObjectReleased == Spec => []RemovedUntouched
<1>1. IInv => RemovedUntouched
  BY DEF IInv, Types, Held, Holds, Gone, RemovedUntouched
<1>2. QED
  BY <1>1, Invariance, PTL
-----------------------------------------------------------------------------
(* The pool implements AsyncService.                                        *)

ServiceState(t) ==
    IF runs[t] > 0 THEN "answered" ELSE IF added[t] > 0 THEN "pending" ELSE "new"

\* A step that adds and executes nothing, and does not join, is not seen.
LEMMA ServiceStutters ==
    ASSUME UNCHANGED <<added, runs>>,
           stopper' \in {"clear", "stopped"} <=> stopper \in {"clear", "stopped"}
    PROVE  UNCHANGED Service!vars
  BY DEF Service!vars

\* Every step of the pool is a step of AsyncService, or none.
LEMMA ServiceSteps ==
    ASSUME IInv, Next
    PROVE  [Service!Next]_(Service!vars)
<1>1. CASE \E t \in Tasks : Alive(Object[t]) /\ AddTask(t)
  <2>1. PICK t \in Tasks : Alive(Object[t]) /\ AddTask(t)
    BY <1>1
  <2>2. stopper \notin {"clear", "stopped"} /\ stopper' = stopper
    BY <2>1 DEF IInv, Closed, AddTask, CanAdd
  <2>3. \A u \in Tasks : ServiceState(u)' = IF u = t THEN "pending" ELSE ServiceState(u)
    <3>1. IInv'
      BY <2>1, AddTaskPreserves
    <3>2. added'[t] > 0 /\ \A u \in Tasks : u # t => added'[u] = added[u]
      BY <3>1, <2>1 DEF IInv, Types, Fresh, AddTask, Enqueue
    <3>3. runs' = runs /\ runs[t] = 0
      BY <2>1 DEF IInv, Types, Fresh, AddTask, CanAdd
    <3>4. QED
      BY <3>2, <3>3 DEF ServiceState
  <2>4. ServiceState(t) = "new"
    BY <2>1 DEF IInv, Types, Fresh, AddTask, CanAdd, ServiceState
  <2>5. Service!Submit(t)
    BY <2>2, <2>3, <2>4 DEF Service!Submit, ServiceState
  <2>6. QED
    BY <2>5 DEF Service!Next
<1>2. CASE \E w \in Workers : Check(w) /\ ~m_bCloseAll
  <2>1. PICK w \in Workers : Check(w) /\ ~m_bCloseAll
    BY <1>2
  <2>2. PICK t \in Tasks : t = runItem[w] /\ runs[t] = 0 /\ added[t] > 0
    BY <2>1 DEF IInv, Types, Held, Holds, Fresh, Check
  <2>3. runs' = [runs EXCEPT ![t] = @ + 1] /\ added' = added
    BY <2>1, <2>2 DEF Check, queueVars
  <2>4. stopper \notin {"clear", "stopped"} /\ stopper' = stopper
    BY <2>1 DEF IInv, Closed, Check
  <2>5. \A u \in Tasks : ServiceState(u)' = IF u = t THEN "answered" ELSE ServiceState(u)
    BY <2>2, <2>3 DEF IInv, Types, ServiceState
  <2>6. Service!Answer(t)
    BY <2>2, <2>4, <2>5 DEF Service!Answer, ServiceState
  <2>7. QED
    BY <2>2, <2>6 DEF Service!Next
<1>3. CASE StopJoins
  <2>1. Service!Close
    BY <1>3 DEF StopJoins, queueVars, Service!Close
  <2>2. QED
    BY <2>1 DEF Service!Next
<1>4. ASSUME NEW w \in Workers, ThreadPoolRun(w), ~(Check(w) /\ ~m_bCloseAll)
      PROVE  UNCHANGED Service!vars
  <2>1. UNCHANGED <<added, runs, stopper>>
    BY <1>4 DEF ThreadPoolRun, Loop, Enter, Wake, TakeOrSleep, Sleep, EndTaking, Take, Check,
       ExecuteReturns, Erase, queueVars
  <2>2. QED
    BY <2>1, ServiceStutters
<1>5. ASSUME NEW o \in Objects, RemoveTask(o) \/ RemoveTaskImpl(o)
      PROVE  UNCHANGED Service!vars
  BY <1>5, ServiceStutters DEF RemoveTask, RemoveTaskImpl, queueVars
<1>6. CASE StopBegins \/ StopNotifies \/ StopClears
  BY <1>6, ServiceStutters DEF StopBegins, StopNotifies, StopClears, queueVars
<1>7. QED
  BY <1>1, <1>2, <1>3, <1>4, <1>5, <1>6 DEF Next, Stop

\* The pool keeps the promises of AsyncService, for any number of workers.
THEOREM ImplementsService == Spec => ServiceSpec
<1>1. Init => Service!Init
  BY DEF Init, Service!Init
<1>2. IInv /\ [Next]_vars => [Service!Next]_(Service!vars)
  <2>1. ASSUME UNCHANGED vars PROVE UNCHANGED Service!vars
    BY <2>1, ServiceStutters DEF vars, queueVars
  <2>2. QED
    BY <2>1, ServiceSteps
<1>3. QED
  BY <1>1, <1>2, Invariance, PTL DEF Spec, ServiceSpec, Service!Spec
-----------------------------------------------------------------------------
(* What Served, RemoveReturns and StopReturns rest on, short of fairness:    *)
(* each wait has somebody to end it, and each step brings its end nearer.    *)

\* A task among the running ones is in the hands of a worker that will erase it,
\* or a worker has left it there for Stop to clear.
RunningHeld ==
    \A t \in running :
        \/ \E w \in Workers : Holds(w) /\ runItem[w] = t
        \/ m_bCloseAll /\ stopper # "stopped"

Given == {t \in Tasks : added[t] > 0}

\* The tasks are numbered in the order in which they were added.
Numbered ==
    /\ \A t \in Tasks : added[t] <= Cardinality(Given)
    /\ \A t, u \in Given : added[t] = added[u] => t = u

\* No worker has taken a task that was added after one that still waits.
TakenInOrder ==
    \A u \in waiting, t \in Tasks : t \in running \/ runs[t] > 0 => added[t] < added[u]

Ends == NoneLeftAsleep /\ RunningHeld /\ Numbered /\ TakenInOrder

\* The tasks that are taken before t.
Before(t) == {u \in waiting : added[u] < added[t]}

\* A task that goes on waiting is overtaken by none that is added after it, and each
\* task that a worker takes is one fewer before it.
ServedNearer ==
    [][\A t \in waiting \cap waiting' :
            /\ Before(t)' \subseteq Before(t)
            /\ \A w \in Workers :
                Holds(w)' /\ runItem'[w] \in waiting => Before(t)' # Before(t)]_vars

\* The tasks that RemoveTask may have to wait for yet: those that wait or run, and
\* those that are not yet added.
Ahead(o) == {t \in Of(o) : added[t] = 0 \/ t \in waiting \cup running}

\* A task that has been removed or executed does not come back.
RemoveShrinks == [][\A o \in Objects : Ahead(o)' \subseteq Ahead(o)]_vars

\* The steps that a worker still has to take once the pool is closed.
StepsLeft(w) ==
    IF pc[w] = "execute" THEN 3
    ELSE IF pc[w] = "done" \/ w \in asleep THEN 2
    ELSE IF pc[w] = "ended" THEN 0 ELSE 1

\* Once the pool is closed a worker only comes nearer to its end: it takes no other
\* task and does not sleep again.
WorkersWindDown ==
    [][m_bCloseAll => \A w \in Workers :
            /\ StepsLeft(w)' <= StepsLeft(w)
            /\ pc'[w] # pc[w] => StepsLeft(w)' < StepsLeft(w)]_vars

\* At first no worker sleeps, none runs a task and no task has a number.
LEMMA InitEnds == Init => Ends
<1> SUFFICES ASSUME Init PROVE Ends
  OBVIOUS
<1>1. Given = {}
  BY DEF Init, Given
<1>2. QED
  BY <1>1, FS_EmptySet DEF Init, Ends, NoneLeftAsleep, RunningHeld, Numbered, TakenInOrder

\* How many tasks have been added is a number.
LEMMA GivenFinite == IsFiniteSet(Given) /\ Cardinality(Given) \in Nat
<1>1. Given \in SUBSET Tasks
  BY DEF Given
<1>2. IsFiniteSet(Given)
  BY <1>1, FS_Subset, PoolAssumption
<1>3. QED
  BY <1>2, FS_CardinalityType

\* The next task added gets the next number, and the others keep theirs.
LEMMA AddNumbers ==
    ASSUME Types, NEW t \in Tasks, AddTask(t)
    PROVE  /\ added'[t] = Cardinality(Given) + 1
           /\ \A u \in Tasks : u # t => added'[u] = added[u]
           /\ Given' = Given \cup {t} /\ Cardinality(Given') = Cardinality(Given) + 1
<1>1. added' = [added EXCEPT ![t] = Cardinality(Given) + 1] /\ added[t] = 0
  BY DEF AddTask, Enqueue, CanAdd, Given
<1>2. added'[t] = Cardinality(Given) + 1 /\ \A u \in Tasks : u # t => added'[u] = added[u]
  BY <1>1 DEF Types
<1>3. t \notin Given /\ Given' = Given \cup {t}
  BY <1>1, <1>2, GivenFinite DEF Given, Types
<1>4. QED
  BY <1>2, <1>3, GivenFinite, FS_AddElement

\* Only AddTask gives numbers.
LEMMA OthersNumberNothing ==
    ASSUME [Next]_vars, \A t \in Tasks : ~AddTask(t)
    PROVE  added' = added
  BY DEF Next, ThreadPoolRun, Loop, Enter, Wake, TakeOrSleep, Sleep, EndTaking, Take, Check,
     ExecuteReturns, Erase, RemoveTask, RemoveTaskImpl, Stop, StopBegins, StopNotifies,
     StopJoins, StopClears, queueVars, vars

\* Every step keeps the numbers in the order of the AddTasks.
LEMMA NumberedKept ==
    ASSUME IInv, Numbered, [Next]_vars
    PROVE  Numbered'
<1>1. ASSUME NEW t \in Tasks, AddTask(t)
      PROVE  Numbered'
  <2>1. /\ added'[t] = Cardinality(Given) + 1
        /\ \A u \in Tasks : u # t => added'[u] = added[u]
        /\ Given' = Given \cup {t} /\ Cardinality(Given') = Cardinality(Given) + 1
    BY <1>1, AddNumbers DEF IInv
  <2>2. Cardinality(Given) \in Nat /\ \A u \in Tasks : added[u] \in Nat
    BY GivenFinite DEF IInv, Types
  <2>3. \A u \in Tasks : added'[u] <= Cardinality(Given')
    BY <2>1, <2>2 DEF Numbered
  <2>4. \A u, v \in Given' : added'[u] = added'[v] => u = v
    BY <2>1, <2>2 DEF Numbered, Given
  <2>5. QED
    BY <2>3, <2>4 DEF Numbered
<1>2. CASE added' = added
  BY <1>2 DEF Numbered, Given
<1>3. QED
  BY <1>1, <1>2, OthersNumberNothing

\* Nobody falls asleep in a closed pool, and Stop counts until all have woken.
LEMMA NoneAsleepKept ==
    ASSUME IInv, IInv', NoneLeftAsleep, [Next]_vars
    PROVE  NoneLeftAsleep'
<1>1. ASSUME readers' = 0
      PROVE  asleep' = {}
  <2>1. Readers' \in SUBSET Workers
    BY DEF Readers
  <2>2. IsFiniteSet(Readers')
    BY <2>1, FS_Subset, PoolAssumption
  <2>3. Readers' = {}
    BY <1>1, <2>2, FS_EmptySet DEF IInv, Counted
  <2>4. QED
    BY <2>3 DEF IInv, Counted
<1>2. ASSUME stopper' \in {"join", "clear", "stopped"}, stopper \in {"join", "clear", "stopped"}
      PROVE  readers' = 0
  <2>1. m_bCloseAll /\ readers = 0 /\ asleep = {}
    BY <1>2 DEF IInv, Closed, NoneLeftAsleep
  <2>2. Readers = {}
    BY <2>1, ReadersFinite, FS_EmptySet DEF IInv, Counted
  <2>3. \A w \in Workers : pc[w] # "wait"
    BY <2>2 DEF Readers
  <2>4. ASSUME NEW w \in Workers, Enter(w)
        PROVE  readers' = 0
    BY <2>1, <2>4 DEF Enter, TakeOrSleep, Sleep, EndTaking, Take
  <2>5. ASSUME NEW w \in Workers, Wake(w)
        PROVE  FALSE
    BY <2>3, <2>5 DEF Wake
  <2>6. ASSUME NEW w \in Workers, Loop(w) \/ Check(w) \/ ExecuteReturns(w) \/ Erase(w)
        PROVE  readers' = 0
    BY <2>1, <2>6 DEF Loop, Check, ExecuteReturns, Erase, waitVars
  <2>7. ASSUME NEW t \in Tasks, AddTask(t)
        PROVE  readers' = 0
    BY <2>1, <2>7 DEF AddTask
  <2>8. ASSUME NEW o \in Objects, RemoveTask(o) \/ RemoveTaskImpl(o)
        PROVE  readers' = 0
    BY <2>1, <2>8 DEF RemoveTask, RemoveTaskImpl, waitVars
  <2>9. CASE Stop
    BY <2>1, <2>9 DEF Stop, StopBegins, StopNotifies, StopJoins, StopClears, waitVars
  <2>10. CASE UNCHANGED vars
    BY <2>1, <2>10 DEF vars, waitVars
  <2>11. QED
    BY <2>4, <2>5, <2>6, <2>7, <2>8, <2>9, <2>10 DEF Next, ThreadPoolRun
<1>3. ASSUME stopper' \in {"join", "clear", "stopped"}, stopper \notin {"join", "clear", "stopped"}
      PROVE  readers' = 0
  <2>1. StopNotifies /\ ~(readers > 0)
    BY <1>3 DEF Next, AddTask, ThreadPoolRun, Loop, Enter, Wake, TakeOrSleep, Sleep, EndTaking, Take,
       Check, ExecuteReturns, Erase, RemoveTask, RemoveTaskImpl, Stop, StopBegins, StopNotifies,
       StopJoins, StopClears, vars
  <2>2. readers \in Nat
    BY ReadersFinite, FS_CardinalityType DEF IInv, Counted
  <2>3. QED
    BY <2>1, <2>2 DEF StopNotifies
<1>4. QED
  BY <1>1, <1>2, <1>3 DEF NoneLeftAsleep

\* A task that runs keeps its worker until that erases it or leaves it to Stop.
LEMMA RunningKept ==
    ASSUME IInv, RunningHeld, [Next]_vars
    PROVE  RunningHeld'
<1>1. ASSUME UNCHANGED <<pc, runItem>>, running' \subseteq running,
             m_bCloseAll => m_bCloseAll', stopper' = "stopped" => running' = {} \/ stopper = "stopped"
      PROVE  RunningHeld'
  BY <1>1 DEF RunningHeld, Holds
<1>2. ASSUME NEW t \in Tasks, AddTask(t)
      PROVE  RunningHeld'
  BY <1>1, <1>2 DEF AddTask, workerVars
<1>3. ASSUME NEW o \in Objects, RemoveTask(o) \/ RemoveTaskImpl(o)
      PROVE  RunningHeld'
  BY <1>1, <1>3 DEF RemoveTask, RemoveTaskImpl, workerVars, queueVars
<1>4. CASE Stop
  BY <1>1, <1>4 DEF Stop, StopBegins, StopNotifies, StopJoins, StopClears, workerVars, queueVars
<1>5. CASE UNCHANGED vars
  BY <1>1, <1>5 DEF vars, workerVars, queueVars
<1>6. ASSUME NEW w \in Workers, Loop(w) \/ ExecuteReturns(w)
      PROVE  RunningHeld'
  <2>1. UNCHANGED <<runItem, running, m_bCloseAll, stopper>>
    BY <1>6 DEF Loop, ExecuteReturns, queueVars
  <2>2. \A v \in Workers : Holds(v) => Holds(v)'
    BY <1>6 DEF Loop, ExecuteReturns, Holds, Go, IInv, Types
  <2>3. QED
    BY <2>1, <2>2 DEF RunningHeld
<1>7. ASSUME NEW w \in Workers, Check(w)
      PROVE  RunningHeld'
  <2>1. UNCHANGED <<runItem, running, m_bCloseAll, stopper>>
    BY <1>7 DEF Check, queueVars
  <2>2. stopper # "stopped"
    BY <1>7 DEF Check, IInv, Closed
  <2>3. \A v \in Workers : Holds(v) => Holds(v)' \/ m_bCloseAll
    BY <1>7 DEF Check, Holds, Go, IInv, Types
  <2>4. QED
    BY <2>1, <2>2, <2>3 DEF RunningHeld
<1>8. ASSUME NEW w \in Workers, Enter(w) \/ Wake(w)
      PROVE  RunningHeld'
  <2>1. PICK n \in Nat : TakeOrSleep(w, n) /\ pc[w] \in {"take", "wait"}
    BY <1>8, LockedCount DEF IInv
  <2>2. UNCHANGED <<m_bCloseAll, stopper>>
    BY <2>1 DEF TakeOrSleep, Sleep, EndTaking, Take
  <2>3. \A v \in Workers : Holds(v) => v # w /\ Holds(v)' /\ runItem'[v] = runItem[v]
    BY <2>1 DEF TakeOrSleep, Sleep, EndTaking, Take, Holds, Go, IInv, Types
  <2>4. running' = running \/ (Holds(w)' /\ running' = running \cup {runItem'[w]})
    BY <2>1 DEF TakeOrSleep, Sleep, EndTaking, Take, queueVars, Holds, Go, IInv, Types
  <2>5. QED
    BY <2>2, <2>3, <2>4 DEF RunningHeld
<1>9. ASSUME NEW w \in Workers, Erase(w)
      PROVE  RunningHeld'
  <2>1. UNCHANGED <<m_bCloseAll, stopper>> /\ running' = running \ {runItem[w]}
    BY <1>9 DEF Erase
  <2>2. \A v \in Workers : v # w /\ Holds(v) => Holds(v)' /\ runItem'[v] = runItem[v]
    BY <1>9 DEF Erase, Holds, Go, IInv, Types
  <2>3. QED
    BY <2>1, <2>2 DEF RunningHeld
<1>10. QED
  BY <1>2, <1>3, <1>4, <1>5, <1>6, <1>7, <1>8, <1>9 DEF Next, ThreadPoolRun

\* Nothing comes to wait but what is added.
LEMMA OthersAddNothing ==
    ASSUME [Next]_vars, \A t \in Tasks : ~AddTask(t)
    PROVE  waiting' \subseteq waiting
  BY DEF Next, ThreadPoolRun, Loop, Enter, Wake, TakeOrSleep, Sleep, EndTaking, Take, Check,
     ExecuteReturns, Erase, RemoveTask, RemoveTaskImpl, Stop, StopBegins, StopNotifies,
     StopJoins, StopClears, queueVars, vars

\* A worker that takes a task takes the front, and nothing else is taken.
LEMMA TakesFront ==
    ASSUME IInv, [Next]_vars
    PROVE  \/ running' \subseteq running /\ \A t \in Tasks : runs'[t] > 0 => runs[t] > 0 \/ t \in running
           \/ \E t \in waiting : /\ Front(t) /\ waiting' = waiting \ {t}
                                 /\ running' = running \cup {t} /\ runs' = runs
<1>1. ASSUME NEW w \in Workers, Check(w)
      PROVE  running' \subseteq running /\ \A t \in Tasks : runs'[t] > 0 => runs[t] > 0 \/ t \in running
  <2>1. running' = running /\ runItem[w] \in running
    BY <1>1 DEF Check, queueVars, IInv, Held, Holds
  <2>2. runs' = runs \/ runs' = [runs EXCEPT ![runItem[w]] = @ + 1]
    BY <1>1 DEF Check
  <2>3. QED
    BY <2>1, <2>2 DEF IInv, Types
<1>2. ASSUME NEW w \in Workers, Enter(w) \/ Wake(w)
      PROVE  \/ running' = running /\ runs' = runs
             \/ \E t \in waiting : /\ Front(t) /\ waiting' = waiting \ {t}
                                   /\ running' = running \cup {t} /\ runs' = runs
  BY <1>2 DEF Enter, Wake, TakeOrSleep, Sleep, EndTaking, Take, queueVars
<1>3. ASSUME NEW w \in Workers, Loop(w) \/ ExecuteReturns(w) \/ Erase(w)
      PROVE  running' \subseteq running /\ runs' = runs
  BY <1>3 DEF Loop, ExecuteReturns, Erase, queueVars
<1>4. CASE \/ UNCHANGED vars \/ Stop \/ \E t \in Tasks : AddTask(t)
           \/ \E o \in Objects : RemoveTask(o) \/ RemoveTaskImpl(o)
  BY <1>4 DEF vars, Stop, StopBegins, StopNotifies, StopJoins, StopClears, AddTask, RemoveTask,
     RemoveTaskImpl, queueVars
<1>5. QED
  BY <1>1, <1>2, <1>3, <1>4 DEF Next, ThreadPoolRun

\* Every step keeps the order of what has been taken and what waits.
LEMMA OrderKept ==
    ASSUME IInv, Numbered, TakenInOrder, [Next]_vars
    PROVE  TakenInOrder'
<1>1. \A t \in Tasks : added[t] \in Nat
  BY DEF IInv, Types
<1>2. ASSUME NEW t \in Tasks, AddTask(t)
      PROVE  TakenInOrder'
  <2>1. /\ added'[t] = Cardinality(Given) + 1
        /\ \A u \in Tasks : u # t => added'[u] = added[u]
    BY <1>2, AddNumbers DEF IInv
  <2>2. waiting' = waiting \cup {t} /\ running' = running /\ runs' = runs /\ added[t] = 0
    BY <1>2 DEF AddTask, CanAdd, Enqueue
  <2>3. waiting \subseteq Tasks /\ t \notin running /\ ~(runs[t] > 0) /\ t \notin waiting
    BY <1>1, <2>2 DEF IInv, Types, Fresh
  <2>4. Cardinality(Given) \in Nat
    BY GivenFinite
  <2>5. ASSUME NEW u \in waiting', NEW v \in Tasks, v \in running \/ runs[v] > 0
        PROVE  added'[v] < added'[u]
    <3>1. v # t /\ added'[v] = added[v]
      BY <2>1, <2>3, <2>5
    <3>2. CASE u = t
      BY <1>1, <2>1, <2>4, <3>1, <3>2 DEF Numbered
    <3>3. CASE u # t
      BY <2>1, <2>2, <2>3, <2>5, <3>1, <3>3 DEF TakenInOrder
    <3>4. QED
      BY <3>2, <3>3
  <2>6. QED
    BY <2>2, <2>5 DEF TakenInOrder
<1>3. ASSUME \A t \in Tasks : ~AddTask(t)
      PROVE  TakenInOrder'
  <2>1. added' = added /\ waiting' \subseteq waiting
    BY <1>3, OthersNumberNothing, OthersAddNothing
  <2>2. CASE /\ running' \subseteq running
             /\ \A t \in Tasks : runs'[t] > 0 => runs[t] > 0 \/ t \in running
    BY <2>1, <2>2 DEF TakenInOrder
  <2>3. ASSUME NEW t \in waiting, Front(t), waiting' = waiting \ {t}, running' = running \cup {t},
               runs' = runs
        PROVE  TakenInOrder'
    <3>1. \A u \in waiting' : added[t] < added[u]
      <4> SUFFICES ASSUME NEW u \in waiting' PROVE added[t] < added[u]
        OBVIOUS
      <4>1. /\ u \in Tasks /\ t \in Tasks /\ u # t /\ added[t] <= added[u]
            /\ added[t] > 0 /\ added[u] > 0
        BY <2>3 DEF Front, IInv, Types, Fresh
      <4>2. added[t] # added[u]
        BY <4>1 DEF Numbered, Given
      <4>3. QED
        BY <1>1, <4>1, <4>2
    <3>2. QED
      BY <2>1, <2>3, <3>1 DEF TakenInOrder
  <2>4. QED
    BY <2>2, <2>3, TakesFront
<1>4. QED
  BY <1>2, <1>3

\* The invariant with what the waits rest on.
THEOREM EndsInvariance == Spec => [](IInv /\ Ends)
<1>1. IInv /\ Ends /\ [Next]_vars => Ends'
  BY StepIInv, NumberedKept, NoneAsleepKept, RunningKept, OrderKept DEF Ends
<1>2. QED
  BY <1>1, InitIInv, InitEnds, StepIInv, PTL DEF Spec

\* Stop joins no thread that sleeps, for any number of workers and however the
\* notifications fall (lines 48-56).
THEOREM StopLeavesNoneAsleep == Spec => []NoneLeftAsleep
<1>1. Ends => NoneLeftAsleep
  BY DEF Ends
<1>2. QED
  BY <1>1, EndsInvariance, PTL

\* What RemoveTask waits for is in the hands of a worker or of Stop: it never waits
\* for a task that nobody would take from the running ones (lines 137-174, 187-210).
THEOREM RunningIsHeld == Spec => []RunningHeld
<1>1. Ends => RunningHeld
  BY DEF Ends
<1>2. QED
  BY <1>1, EndsInvariance, PTL

\* Tasks are taken in the order in which they were added: none has been taken that came
\* after one that waits, however many workers take and whatever is added or removed
\* meanwhile (AddTask pushes to the back, line 96, a worker pops the front, lines 131-134).
THEOREM FirstComeFirstServed == Spec => []TakenInOrder
<1>1. Ends => TakenInOrder
  BY DEF Ends
<1>2. QED
  BY <1>1, EndsInvariance, PTL

\* A task that waits comes nearer to being taken with each that is: with NoTaskForgotten,
\* all of Served but the fairness of the workers.
THEOREM ServedComesNearer == Spec => ServedNearer
<1>1. ASSUME IInv, Ends, [Next]_vars, NEW t \in waiting \cap waiting', NEW u \in Before(t)'
      PROVE  u \in Before(t)
  <2>1. t \in Tasks /\ u \in waiting' /\ added'[u] < added'[t]
    BY <1>1 DEF Before, IInv, Types
  <2>2. CASE \A v \in Tasks : ~AddTask(v)
    BY <1>1, <2>1, <2>2, OthersNumberNothing, OthersAddNothing DEF Before
  <2>3. ASSUME NEW v \in Tasks, AddTask(v)
        PROVE  u \in Before(t)
    <3>1. /\ added'[v] = Cardinality(Given) + 1
          /\ \A x \in Tasks : x # v => added'[x] = added[x]
      BY <1>1, <2>3, AddNumbers DEF IInv
    <3>2. v # t /\ waiting' = waiting \cup {v}
      BY <1>1, <2>3 DEF AddTask, CanAdd, Enqueue, IInv, Fresh
    <3>3. u # v
      BY <1>1, <2>1, <3>1, <3>2, GivenFinite DEF Ends, Numbered, IInv, Types
    <3>4. u \in waiting /\ u \in Tasks
      BY <1>1, <2>1, <3>2, <3>3 DEF IInv, Types
    <3>5. QED
      BY <2>1, <3>1, <3>2, <3>3, <3>4 DEF Before
  <2>4. QED
    BY <2>2, <2>3
<1>2. ASSUME IInv, IInv', Ends, Ends', [Next]_vars, NEW t \in waiting \cap waiting', NEW w \in Workers,
             Holds(w)', runItem'[w] \in waiting
      PROVE  Before(t)' # Before(t)
  <2>1. runItem'[w] \in running' /\ runItem'[w] \in Tasks /\ runItem'[w] \notin waiting'
    BY <1>2 DEF IInv, Types, Held
  <2>2. added'[runItem'[w]] < added'[t]
    BY <1>2, <2>1 DEF Ends, TakenInOrder
  <2>3. \A v \in Tasks : ~AddTask(v)
    BY <1>2, <2>1 DEF AddTask, Enqueue
  <2>4. added' = added
    BY <1>2, <2>3, OthersNumberNothing
  <2>5. QED
    BY <1>2, <2>1, <2>2, <2>4 DEF Before
<1>3. /\ IInv /\ Ends /\ IInv' /\ Ends' /\ [Next]_vars
      => (\A t \in waiting \cap waiting' :
            /\ Before(t)' \subseteq Before(t)
            /\ \A w \in Workers : Holds(w)' /\ runItem'[w] \in waiting => Before(t)' # Before(t))
  BY <1>1, <1>2
<1>4. QED
  BY <1>3, EndsInvariance, PTL DEF Spec, ServedNearer

\* RemoveTask waits for no task twice: one that it has removed, or that has been
\* executed, does not come back, though others of the object may be added while it polls.
\* With RunningIsHeld, all of RemoveReturns but fairness and an end of the calls of
\* AddTask (lines 87-105, 187-210).
THEOREM RemoveComesNearer == Spec => RemoveShrinks
<1>1. ASSUME IInv, IInv', [Next]_vars, NEW o \in Objects, NEW t \in Ahead(o)'
      PROVE  t \in Ahead(o)
  <2> SUFFICES ASSUME added[t] > 0 PROVE t \in waiting \cup running
    BY <1>1 DEF Ahead, Of, IInv, Types
  <2>1. t \in Of(o) /\ t \in Tasks
    BY <1>1 DEF Ahead, Of
  <2>2. CASE \A v \in Tasks : ~AddTask(v)
    <3>1. added' = added /\ waiting' \subseteq waiting
      BY <1>1, <2>2, OthersNumberNothing, OthersAddNothing
    <3>2. t \in waiting' \cup running'
      BY <1>1, <2>1, <3>1 DEF Ahead, IInv, Types
    <3>3. running' \subseteq running \cup waiting
      BY <1>1, TakesFront
    <3>4. QED
      BY <3>1, <3>2, <3>3
  <2>3. ASSUME NEW v \in Tasks, AddTask(v)
        PROVE  t \in waiting \cup running
    <3>1. /\ v # t /\ added'[t] = added[t]
          /\ waiting' = waiting \cup {v} /\ running' = running
      BY <1>1, <2>1, <2>3, AddNumbers DEF IInv, Types, AddTask, CanAdd, Enqueue
    <3>2. QED
      BY <1>1, <2>1, <3>1 DEF Ahead
  <2>4. QED
    BY <2>2, <2>3
<1>2. IInv /\ IInv' /\ [Next]_vars => \A o \in Objects : Ahead(o)' \subseteq Ahead(o)
  BY <1>1
<1>3. QED
  BY <1>2, Invariance, PTL DEF Spec, RemoveShrinks

\* In a closed pool every step of a worker is one towards its end and no step of
\* another takes it back: with StopLeavesNoneAsleep, all of StopReturns but the
\* fairness of the threads (lines 107-175, 48-61).
THEOREM StopComesNearer == Spec => WorkersWindDown
<1> DEFINE WindsDown(w) == /\ StepsLeft(w)' <= StepsLeft(w)
                           /\ pc'[w] # pc[w] => StepsLeft(w)' < StepsLeft(w)
<1>1. ASSUME IInv, IInv', m_bCloseAll, NEW w \in Workers, asleep' \subseteq asleep, pc'[w] = pc[w]
      PROVE  WindsDown(w)
  BY <1>1 DEF StepsLeft, IInv, Counted, Readers
<1>2. ASSUME IInv, IInv', m_bCloseAll, NEW v \in Workers, Loop(v) \/ Check(v) \/ ExecuteReturns(v) \/ Erase(v)
      PROVE  /\ asleep' = asleep /\ \A w \in Workers : w # v => pc'[w] = pc[w]
             /\ WindsDown(v)
  <2>1. asleep' = asleep /\ \A w \in Workers : w # v => pc'[w] = pc[w]
    BY <1>2 DEF Loop, Check, ExecuteReturns, Erase, waitVars, Go, IInv, Types
  <2>2. v \notin asleep
    BY <1>2 DEF Loop, Check, ExecuteReturns, Erase, IInv, Counted, Readers
  <2>3. \/ pc[v] = "loop" /\ pc'[v] = "ended"
        \/ pc[v] = "check" /\ pc'[v] = "ended"
        \/ pc[v] = "execute" /\ pc'[v] = "done"
        \/ pc[v] = "done" /\ pc'[v] = "loop"
    BY <1>2 DEF Loop, Check, ExecuteReturns, Erase, Go, IInv, Types
  <2>4. QED
    BY <2>1, <2>2, <2>3 DEF StepsLeft
<1>3. ASSUME IInv, IInv', m_bCloseAll, NEW v \in Workers, Enter(v) \/ Wake(v)
      PROVE  /\ asleep' = asleep /\ \A w \in Workers : w # v => pc'[w] = pc[w]
             /\ WindsDown(v)
  <2>1. PICK n \in Nat : TakeOrSleep(v, n) /\ pc[v] \in {"take", "wait"} /\ v \notin asleep
    BY <1>3, LockedCount DEF IInv
  <2>2. EndTaking(v, n)
    BY <1>3, <2>1 DEF TakeOrSleep, Sleep, Take
  <2>3. asleep' = asleep /\ pc'[v] = "ended" /\ \A w \in Workers : w # v => pc'[w] = pc[w]
    BY <1>3, <2>2 DEF EndTaking, Go, IInv, Types
  <2>4. QED
    BY <2>1, <2>3 DEF StepsLeft
<1>4. ASSUME IInv, [Next]_vars, m_bCloseAll, \A v \in Workers : ~ThreadPoolRun(v)
      PROVE  asleep' \subseteq asleep /\ pc' = pc
  BY <1>4, NotifyWakes DEF Next, AddTask, CanAdd, RemoveTask, RemoveTaskImpl, Stop, StopBegins,
     StopNotifies, StopJoins, StopClears, workerVars, waitVars, vars
<1>5. IInv /\ IInv' /\ [Next]_vars => (m_bCloseAll => \A w \in Workers : WindsDown(w))
  BY <1>1, <1>2, <1>3, <1>4 DEF ThreadPoolRun
<1>6. QED
  BY <1>5, Invariance, PTL DEF Spec, WorkersWindDown
=============================================================================
