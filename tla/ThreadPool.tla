----------------------------- MODULE ThreadPool -----------------------------
(***************************************************************************)
(* CBinderThreadPool of SinglePro/libHttp_consoletest/utility: worker      *)
(* threads that take tasks from one deque, a RemoveTask that waits until   *)
(* an object has no task left, and Stop.                                   *)
(*                                                                         *)
(* A critical section of m_monitor is one step.  The waits are those that  *)
(* Monitor's CMonitor is shown to provide: a notification wakes one of the *)
(* threads asleep when it is given.  RemoveTask and Stop are called from   *)
(* other threads than the workers: on a worker they wait for themselves.   *)
(***************************************************************************)
EXTENDS Integers, FiniteSets

CONSTANTS
    Workers,    \* the threads that Start has started
    Tasks,      \* the calls of AddTask, each item with an m_strID of its own
    Objects,
    Object,     \* the object a task is bound to
    none

ASSUME PoolAssumption ==
    /\ IsFiniteSet(Workers) /\ Workers # {} /\ IsFiniteSet(Tasks)
    /\ Object \in [Tasks -> Objects]
    /\ none \notin Tasks

VARIABLES
    pc,         \* where each worker is
    runItem,    \* the task it has taken
    added,      \* the place of a task in the order of the AddTasks, 0 before
    waiting,    \* m_deqWaitingAsyncTasks, in the order of added
    running,    \* m_deqRunningAsyncTasks
    readers,    \* m_dwWaitingAsyncRequestReaders
    asleep,     \* the workers in m_monitor.Wait that have not been notified
    m_bCloseAll,
    remover,    \* of each object: "no", "removing" or "removed"
    stopper,    \* the thread in Stop
    runs        \* how often a task has been executed

workerVars == <<pc, runItem>>
queueVars == <<added, waiting, running>>
waitVars == <<readers, asleep>>
vars == <<workerVars, queueVars, waitVars, m_bCloseAll, remover, stopper, runs>>

TypeOK ==
    /\ pc \in [Workers -> {"loop", "take", "wait", "check", "execute", "done", "ended"}]
    /\ runItem \in [Workers -> Tasks \cup {none}]
    /\ added \in [Tasks -> Nat]
    /\ waiting \subseteq Tasks /\ running \subseteq Tasks
    /\ readers \in 0..Cardinality(Workers)
    /\ asleep \subseteq Workers
    /\ m_bCloseAll \in BOOLEAN
    /\ remover \in [Objects -> {"no", "removing", "removed"}]
    /\ stopper \in {"no", "notify", "join", "clear", "stopped"}
    /\ runs \in [Tasks -> Nat]

Init ==
    /\ pc = [w \in Workers |-> "loop"]
    /\ runItem = [w \in Workers |-> none]
    /\ added = [t \in Tasks |-> 0]
    /\ waiting = {} /\ running = {}
    /\ readers = 0 /\ asleep = {}
    /\ m_bCloseAll = FALSE
    /\ remover = [o \in Objects |-> "no"]
    /\ stopper = "no"
    /\ runs = [t \in Tasks |-> 0]

Go(w, p) == pc' = [pc EXCEPT ![w] = p]

\* A notification wakes one of the workers asleep, and is lost if there is none.
Notify ==
    IF asleep = {} THEN asleep' = {}
                   ELSE \E w \in asleep : asleep' = asleep \ {w}
-----------------------------------------------------------------------------
(* AddTask.  It does not look whether RemoveTask waits for the object: other  *)
(* threads may add tasks of it while it does.                                *)

CanAdd(t) == added[t] = 0 /\ ~m_bCloseAll

Enqueue(t) ==
    /\ added' = [added EXCEPT ![t] = Cardinality({u \in Tasks : added[u] > 0}) + 1]
    /\ waiting' = waiting \cup {t}

\* Faulty form: the pool takes tasks after Stop.
AddTaskAfterStop(t) ==
    /\ added[t] = 0
    /\ Enqueue(t)
    /\ IF readers > 0 THEN Notify ELSE UNCHANGED asleep
    /\ UNCHANGED <<workerVars, running, readers, m_bCloseAll, remover, stopper, runs>>

AddTask(t) ==
    /\ CanAdd(t)
    /\ Enqueue(t)
    /\ IF readers > 0 THEN Notify ELSE UNCHANGED asleep
    /\ UNCHANGED <<workerVars, running, readers, m_bCloseAll, remover, stopper, runs>>
-----------------------------------------------------------------------------
(* ThreadPoolRun.                                                            *)

Loop(w) ==
    /\ pc[w] = "loop"
    /\ Go(w, IF m_bCloseAll THEN "ended" ELSE "take")
    /\ UNCHANGED <<runItem, queueVars, waitVars, m_bCloseAll, remover, stopper, runs>>

\* The worker has the lock, and n other workers are counted as readers.

\* Faulty form: the reader is not counted before it waits.
SleepUncounted(w, n) ==
    /\ waiting = {} /\ ~m_bCloseAll
    /\ readers' = n
    /\ asleep' = asleep \cup {w}
    /\ Go(w, "wait")
    /\ UNCHANGED <<runItem, queueVars, m_bCloseAll, remover, stopper, runs>>

Sleep(w, n) ==
    /\ waiting = {} /\ ~m_bCloseAll
    /\ readers' = n + 1
    /\ asleep' = asleep \cup {w}
    /\ Go(w, "wait")
    /\ UNCHANGED <<runItem, queueVars, m_bCloseAll, remover, stopper, runs>>

EndTaking(w, n) ==
    /\ m_bCloseAll
    /\ readers' = n
    /\ Go(w, "ended")
    /\ UNCHANGED <<runItem, queueVars, asleep, m_bCloseAll, remover, stopper, runs>>

Front(t) == t \in waiting /\ \A u \in waiting : added[t] <= added[u]

\* Faulty form: the task is copied, and not popped.
TakeKeepsFront(w, n) ==
    /\ ~m_bCloseAll
    /\ \E t \in waiting :
        /\ Front(t)
        /\ runItem' = [runItem EXCEPT ![w] = t]
        /\ running' = running \cup {t}
    /\ readers' = n
    /\ Go(w, "check")
    /\ UNCHANGED <<added, waiting, asleep, m_bCloseAll, remover, stopper, runs>>

\* Faulty form: the task is not registered as running.
TakeUnregistered(w, n) ==
    /\ ~m_bCloseAll
    /\ \E t \in waiting :
        /\ Front(t)
        /\ runItem' = [runItem EXCEPT ![w] = t]
        /\ waiting' = waiting \ {t}
    /\ readers' = n
    /\ Go(w, "check")
    /\ UNCHANGED <<added, running, asleep, m_bCloseAll, remover, stopper, runs>>

Take(w, n) ==
    /\ ~m_bCloseAll
    /\ \E t \in waiting :
        /\ Front(t)
        /\ runItem' = [runItem EXCEPT ![w] = t]
        /\ waiting' = waiting \ {t}
        /\ running' = running \cup {t}
    /\ readers' = n
    /\ Go(w, "check")
    /\ UNCHANGED <<added, asleep, m_bCloseAll, remover, stopper, runs>>

TakeOrSleep(w, n) == Sleep(w, n) \/ EndTaking(w, n) \/ Take(w, n)

Enter(w) == pc[w] = "take" /\ TakeOrSleep(w, readers)

Wake(w) == pc[w] = "wait" /\ w \notin asleep /\ TakeOrSleep(w, readers - 1)

\* The task is left among the running ones when the pool is closed.
Check(w) ==
    /\ pc[w] = "check"
    /\ IF m_bCloseAll
       THEN Go(w, "ended") /\ UNCHANGED runs
       ELSE /\ Go(w, "execute")
            /\ runs' = [runs EXCEPT ![runItem[w]] = @ + 1]
    /\ UNCHANGED <<runItem, queueVars, waitVars, m_bCloseAll, remover, stopper>>

ExecuteReturns(w) ==
    /\ pc[w] = "execute"
    /\ Go(w, "done")
    /\ UNCHANGED <<runItem, queueVars, waitVars, m_bCloseAll, remover, stopper, runs>>

\* Faulty form: the task is not found among the running ones.
EraseMisses(w) ==
    /\ pc[w] = "done"
    /\ runItem' = [runItem EXCEPT ![w] = none]
    /\ Go(w, "loop")
    /\ UNCHANGED <<queueVars, waitVars, m_bCloseAll, remover, stopper, runs>>

Erase(w) ==
    /\ pc[w] = "done"
    /\ running' = running \ {runItem[w]}
    /\ runItem' = [runItem EXCEPT ![w] = none]
    /\ Go(w, "loop")
    /\ UNCHANGED <<added, waiting, waitVars, m_bCloseAll, remover, stopper, runs>>

ThreadPoolRun(w) ==
    Loop(w) \/ Enter(w) \/ Wake(w) \/ Check(w) \/ ExecuteReturns(w) \/ Erase(w)
-----------------------------------------------------------------------------
(* RemoveTask: its overloads differ in what they compare.                    *)

Of(o) == {t \in Tasks : Object[t] = o}

RemoveTask(o) ==
    /\ remover[o] = "no"
    /\ remover' = [remover EXCEPT ![o] = "removing"]
    /\ UNCHANGED <<workerVars, queueVars, waitVars, m_bCloseAll, stopper, runs>>

RemoveTaskImpl(o) ==
    /\ remover[o] = "removing"
    /\ waiting' = waiting \ Of(o)
    /\ remover' = IF running \cap Of(o) = {}
                  THEN [remover EXCEPT ![o] = "removed"] ELSE remover
    /\ UNCHANGED <<workerVars, added, running, waitVars, m_bCloseAll, stopper, runs>>
-----------------------------------------------------------------------------
(* Stop.                                                                     *)

StopBegins ==
    /\ stopper = "no"
    /\ m_bCloseAll' = TRUE
    /\ waiting' = {}
    /\ stopper' = "notify"
    /\ UNCHANGED <<workerVars, added, running, waitVars, remover, runs>>

\* Faulty form: the readers are notified once.
StopNotifiesOnce ==
    /\ stopper = "notify"
    /\ Notify
    /\ stopper' = "join"
    /\ UNCHANGED <<workerVars, queueVars, readers, m_bCloseAll, remover, runs>>

StopNotifies ==
    /\ stopper = "notify"
    /\ IF readers > 0
       THEN Notify /\ UNCHANGED stopper
       ELSE stopper' = "join" /\ UNCHANGED asleep
    /\ UNCHANGED <<workerVars, queueVars, readers, m_bCloseAll, remover, runs>>

StopJoins ==
    /\ stopper = "join" /\ \A w \in Workers : pc[w] = "ended"
    /\ stopper' = "clear"
    /\ UNCHANGED <<workerVars, queueVars, waitVars, m_bCloseAll, remover, runs>>

StopClears ==
    /\ stopper = "clear"
    /\ running' = {}
    /\ stopper' = "stopped"
    /\ UNCHANGED <<workerVars, added, waiting, waitVars, m_bCloseAll, remover, runs>>

Stop == StopBegins \/ StopNotifies \/ StopJoins \/ StopClears
-----------------------------------------------------------------------------
\* What the pool asks of its callers, and does not look at: an object has no task
\* added once RemoveTask has returned for it, for then it may be deleted.
Alive(o) == remover[o] # "removed"

Next ==
    \/ \E t \in Tasks : Alive(Object[t]) /\ AddTask(t)
    \/ \E w \in Workers : ThreadPoolRun(w)
    \/ \E o \in Objects : RemoveTask(o) \/ RemoveTaskImpl(o)
    \/ Stop

Spec == Init /\ [][Next]_vars

(* The threads run and the tasks return; nobody has to add, remove or stop.  *)
Fairness ==
    /\ \A w \in Workers : WF_vars(ThreadPoolRun(w))
    /\ \A o \in Objects : WF_vars(RemoveTaskImpl(o))
    /\ WF_vars(StopNotifies \/ StopJoins \/ StopClears)

FairSpec == Spec /\ Fairness
-----------------------------------------------------------------------------
\* A task that waits is seen: not every worker sleeps, though AddTask notifies
\* only if it counts a reader, and the notification of a busy moment is lost
\* (threadpool.cpp:97, 117-123).
WorkSeen == waiting # {} => \E w \in Workers : w \notin asleep /\ pc[w] # "ended"

\* A task is executed once: two workers never take the same one (lines 131-134).
RunOnce == \A t \in Tasks : runs[t] <= 1

\* When RemoveTask has returned no worker executes a task of the object, or will:
\* the caller may delete it (lines 187-210).
RemovedUntouched ==
    \A o \in Objects, w \in Workers :
        remover[o] = "removed" /\ pc[w] \in {"check", "execute"} => Object[runItem[w]] # o

\* Once Stop goes on to join the threads, none of them sleeps or will: the number
\* it reads without the lock is 0 only when every reader has gone (lines 48-56).
NoneLeftAsleep ==
    stopper \in {"join", "clear", "stopped"} => asleep = {} /\ readers = 0

\* The pool is the service that HttpLib is too: a task is handed in, executed at
\* most once, and not after Stop has waited for the threads.
Service == INSTANCE AsyncService WITH
    Requests <- Tasks,
    state <- [t \in Tasks |-> IF runs[t] > 0 THEN "answered"
                              ELSE IF added[t] > 0 THEN "pending" ELSE "new"],
    open <- stopper \notin {"clear", "stopped"}

ServiceSpec == Service!Spec

\* A task does not wait for ever: it is taken, removed, or dropped by Stop.
Served == \A t \in Tasks : t \in waiting ~> t \notin waiting

\* RemoveTask returns, though tasks of the object are added while it polls, and even if
\* Stop ends the worker that has taken one before it can erase it (lines 137, 66).  The
\* calls of AddTask are finitely many: nothing in the code keeps callers that go on for
\* ever from always having a task running when it looks.
RemoveReturns == \A o \in Objects : remover[o] = "removing" ~> remover[o] = "removed"

\* Stop returns: every reader is woken, however the notifications fall.
StopReturns == stopper = "notify" ~> stopper = "stopped"
=============================================================================
