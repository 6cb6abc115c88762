---------------------------- MODULE HttpLibProofs ----------------------------
(* Proofs about HttpLib, for any set of requests and in every build.        *)
EXTENDS HttpLib, TLAPS

(* The inductive invariant.  Each part is named for what it adds.           *)

Types ==
    /\ place \in [Requests -> Places]
    /\ caller \in [Requests -> {"idle", "inside", "pushed", "returned"}]
    /\ file \in [Requests -> {"invalid", "open"}]
    /\ notified \in [Requests -> Nat]
    /\ m_hRequest \in BOOLEAN
    /\ m_hExit \in BOOLEAN
    /\ worker \in {"wait", "collect_exit", "collect", "perform", "multiwait",
                   "check", "drain", "handle_check", "handle_drain",
                   "exited", "killed"}
    /\ cur \in Requests \cup {None}
    /\ nested \in Async \cup {None}
    /\ owner \in {"alive", "exiting", "joined", "stopped"}

\* The stages of a request after its only notification has begun.
Told(r) ==
    \/ HasCallback(r) /\ place[r] \in {"cb", "close", "release", "freed"}
    \/ HasInterface(r) /\ place[r] \in {"complete", "release", "freed"}

Counted ==
    \A r \in Requests :
        /\ notified[r] = IF Told(r) THEN 1 ELSE 0
        /\ place[r] = "cb" => HasCallback(r)
        /\ place[r] = "complete" => HasInterface(r)

Wakeup ==
    At("queued") # {} =>
        \/ worker \in {"collect", "collect_exit"}
        \/ m_hRequest
        \/ m_hExit
        \/ \E r \in Requests : caller[r] = "pushed"

\* Which thread may still move a request.
CallInside ==
    \A r \in Requests :
        /\ place[r] = "none" => caller[r] = "idle"
        /\ place[r] = "prepared" => caller[r] = "inside"
        /\ r \in Sync /\ place[r] \in Finishing \cup {"perform"} => caller[r] = "inside"
        /\ place[r] = "perform" => r \in Sync
        /\ place[r] \in {"prepared", "queued", "multi", "done"} => r \in Async

Shutdown ==
    /\ m_hExit <=> owner # "alive"
    /\ Joined => WorkerDead
    /\ owner # "alive" =>
        \A r \in Requests : caller[r] \in {"inside", "pushed"} => nested = r

IInv ==
    /\ Types
    /\ Counted
    /\ Wakeup
    /\ CallInside
    /\ Shutdown
-----------------------------------------------------------------------------

\* The initial state satisfies the invariant.
LEMMA InitIInv == Init => IInv
<1> SUFFICES ASSUME Init
             PROVE  IInv
  OBVIOUS
<1> USE HttpLibAssumption DEF Init
<1>1. Types
  BY DEF Types, Places, Async
<1>2. Counted /\ Wakeup /\ CallInside
  BY DEF Counted, Told, Wakeup, At, CallInside, Finishing
<1>3. Shutdown
  BY DEF Shutdown, Joined
<1>4. QED
  BY <1>1, <1>2, <1>3 DEF IInv

\* A step of a call that issues request r keeps the invariant.
LEMMA IssueKeeps ==
    ASSUME IInv, NEW r \in Requests, Issue(r)
    PROVE  IInv'
<1> USE HttpLibAssumption DEF IInv, Types, Places, Finishing, Async, HasCallback,
        HasInterface, Handling, InCallback, CallRuns, WorkerDead, Joined
<1>1. CASE ClientCall(r)
  <2> USE <1>1 DEF ClientCall, curl_object_prepare
  <2>1. Types'
    OBVIOUS
  <2>2. Counted'
    BY DEF Counted, Told
  <2>3. Wakeup'
    BY DEF Wakeup, At, CallInside
  <2>4. CallInside'
    BY DEF CallInside
  <2>5. Shutdown'
    BY DEF Shutdown
  <2>6. QED
    BY <2>1, <2>2, <2>3, <2>4, <2>5
<1>2. CASE CallFromCallback(r)
  <2> USE <1>2 DEF CallFromCallback, curl_object_prepare
  <2>1. Types'
    OBVIOUS
  <2>2. Counted'
    BY DEF Counted, Told
  <2>3. Wakeup'
    BY DEF Wakeup, At, CallInside
  <2>4. CallInside'
    BY DEF CallInside
  <2>5. Shutdown'
    BY DEF Shutdown
  <2>6. QED
    BY <2>1, <2>2, <2>3, <2>4, <2>5
<1>3. CASE PushBack(r)
  <2> USE <1>3 DEF PushBack
  <2>1. Types'
    OBVIOUS
  <2>2. Counted'
    BY DEF Counted, Told
  <2>3. Wakeup'
    <3>1. caller'[r] = "pushed"
      OBVIOUS
    <3>2. QED
      BY <3>1 DEF Wakeup
  <2>4. CallInside'
    BY DEF CallInside
  <2>5. Shutdown'
    BY DEF Shutdown, CallInside
  <2>6. QED
    BY <2>1, <2>2, <2>3, <2>4, <2>5
<1>4. CASE SignalRequest(r)
  <2> USE <1>4 DEF SignalRequest
  <2>1. Types'
    OBVIOUS
  <2>2. Counted'
    BY DEF Counted, Told
  <2>3. Wakeup'
    BY DEF Wakeup
  <2>4. CallInside'
    BY DEF CallInside
  <2>5. Shutdown'
    BY DEF Shutdown
  <2>6. QED
    BY <2>1, <2>2, <2>3, <2>4, <2>5
<1>5. QED
  BY <1>1, <1>2, <1>3, <1>4 DEF Issue

\* A step of handle_request_finished_event for request r keeps the invariant.
LEMMA HandleKeeps ==
    ASSUME IInv, NEW r \in Requests, Handle(r)
    PROVE  IInv'
<1> USE HttpLibAssumption DEF IInv, Types, Places, Finishing, Async, HasCallback,
        HasInterface, Handling, WorkerDead, Joined, OnThread
<1>1. CASE SyncFinish(r)
  <2> USE <1>1 DEF SyncFinish, FinishPlace, FinishNotified
  <2>1. Types' /\ Counted'
    BY DEF Counted, Told
  <2>2. Wakeup'
    BY DEF Wakeup, At
  <2>3. CallInside'
    BY DEF CallInside
  <2>4. Shutdown'
    BY DEF Shutdown, CallInside
  <2>5. QED
    BY <2>1, <2>2, <2>3, <2>4
<1>2. CASE CallbackReturn(r)
  <2> USE <1>2 DEF CallbackReturn
  <2>1. Types' /\ Counted'
    BY DEF Counted, Told
  <2>2. Wakeup'
    BY DEF Wakeup, At
  <2>3. CallInside'
    BY DEF CallInside
  <2>4. Shutdown'
    BY DEF Shutdown, CallInside
  <2>5. QED
    BY <2>1, <2>2, <2>3, <2>4
<1>3. CASE CloseAndComplete(r)
  <2> USE <1>3 DEF CloseAndComplete
  <2>1. Types' /\ Counted'
    BY DEF Counted, Told
  <2>2. Wakeup'
    BY DEF Wakeup, At
  <2>3. CallInside'
    BY DEF CallInside
  <2>4. Shutdown'
    BY DEF Shutdown, CallInside
  <2>5. QED
    BY <2>1, <2>2, <2>3, <2>4
<1>4. CASE CompleteReturn(r)
  <2> USE <1>4 DEF CompleteReturn
  <2>1. Types' /\ Counted'
    BY DEF Counted, Told
  <2>2. Wakeup'
    BY DEF Wakeup, At
  <2>3. CallInside'
    BY DEF CallInside
  <2>4. Shutdown'
    BY DEF Shutdown, CallInside
  <2>5. QED
    BY <2>1, <2>2, <2>3, <2>4
<1>5. CASE curl_object_release(r)
  <2> USE <1>5 DEF curl_object_release
  <2>1. Types' /\ Counted'
    BY DEF Counted, Told
  <2>2. Wakeup'
    BY DEF Wakeup, At, CallInside
  <2>3. CallInside'
    BY DEF CallInside
  <2>4. Shutdown'
    BY DEF Shutdown, CallInside
  <2>5. QED
    BY <2>1, <2>2, <2>3, <2>4
<1>6. QED
  BY <1>1, <1>2, <1>3, <1>4, <1>5 DEF Handle

\* A step of the worker keeps the invariant.
LEMMA WorkerKeeps ==
    ASSUME IInv, WorkerStep
    PROVE  IInv'
<1> USE HttpLibAssumption DEF IInv, Types, Places, Finishing, Async, HasCallback,
        HasInterface, WorkerDead, Joined, At
<1>1. CASE WaitAny
  <2> USE <1>1 DEF WaitAny
  <2>1. Types'
    OBVIOUS
  <2>2. Counted'
    BY DEF Counted, Told
  <2>3. Wakeup'
    BY DEF Wakeup
  <2>4. CallInside'
    BY DEF CallInside
  <2>5. Shutdown'
    BY DEF Shutdown
  <2>6. QED
    BY <2>1, <2>2, <2>3, <2>4, <2>5
<1>2. CASE Collect
  <2> USE <1>2 DEF Collect
  <2>1. Types'
    OBVIOUS
  <2>2. Counted'
    BY DEF Counted, Told
  <2>3. Wakeup'
    BY DEF Wakeup
  <2>4. CallInside'
    BY DEF CallInside
  <2>5. Shutdown'
    BY DEF Shutdown
  <2>6. QED
    BY <2>1, <2>2, <2>3, <2>4, <2>5
<1>3. CASE \E ended \in SUBSET At("multi") : curl_multi_perform_ex(ended)
  <2> USE <1>3 DEF curl_multi_perform_ex
  <2>1. Types'
    OBVIOUS
  <2>2. Counted'
    BY DEF Counted, Told
  <2>3. Wakeup'
    BY DEF Wakeup
  <2>4. CallInside'
    BY DEF CallInside
  <2>5. Shutdown'
    BY DEF Shutdown
  <2>6. QED
    BY <2>1, <2>2, <2>3, <2>4, <2>5
<1>4. CASE curl_multi_wait
  <2> USE <1>4 DEF curl_multi_wait
  <2>1. Types'
    OBVIOUS
  <2>2. Counted'
    BY DEF Counted, Told
  <2>3. Wakeup'
    BY DEF Wakeup
  <2>4. CallInside'
    BY DEF CallInside
  <2>5. Shutdown'
    BY DEF Shutdown
  <2>6. QED
    BY <2>1, <2>2, <2>3, <2>4, <2>5
<1>5. CASE \E r \in Requests : ReadDone(r)
  <2> USE <1>5 DEF ReadDone, FinishPlace, FinishNotified
  <2>1. Types'
    OBVIOUS
  <2>2. Counted'
    BY DEF Counted, Told
  <2>3. Wakeup'
    BY DEF Wakeup
  <2>4. CallInside'
    BY DEF CallInside
  <2>5. Shutdown'
    BY DEF Shutdown
  <2>6. QED
    BY <2>1, <2>2, <2>3, <2>4, <2>5
<1>6. CASE QueueRead
  <2> USE <1>6 DEF QueueRead
  <2>1. Types'
    OBVIOUS
  <2>2. Counted'
    BY DEF Counted, Told
  <2>3. Wakeup'
    BY DEF Wakeup
  <2>4. CallInside'
    BY DEF CallInside
  <2>5. Shutdown'
    BY DEF Shutdown
  <2>6. QED
    BY <2>1, <2>2, <2>3, <2>4, <2>5
<1>7. QED
  BY <1>1, <1>2, <1>3, <1>4, <1>5, <1>6 DEF WorkerStep, Perform

\* A step of the owner keeps the invariant.
LEMMA OwnerKeeps ==
    ASSUME IInv, OwnerStep
    PROVE  IInv'
<1> USE HttpLibAssumption DEF IInv, Types, WorkerDead, Joined,
        OwnerStep, BeginStop, JoinAllThread, EndStop
<1>1. Types'
  OBVIOUS
<1>2. Counted'
  BY DEF Counted, Told, HasCallback, HasInterface
<1>3. Wakeup'
  BY DEF Wakeup, At, Shutdown
<1>4. CallInside'
  BY DEF CallInside
<1>5. Shutdown'
  BY DEF Shutdown
<1>6. QED
  BY <1>1, <1>2, <1>3, <1>4, <1>5

\* So does every step, a stutter included.
LEMMA NextKeeps == IInv /\ [Next]_vars => IInv'
<1> SUFFICES ASSUME IInv, [Next]_vars
             PROVE  IInv'
  OBVIOUS
<1>1. CASE \E r \in Requests : Issue(r) \/ Handle(r)
  BY <1>1, IssueKeeps, HandleKeeps
<1>2. CASE WorkerStep
  BY <1>2, WorkerKeeps
<1>3. CASE OwnerStep
  BY <1>3, OwnerKeeps
<1>4. CASE UNCHANGED vars
  BY <1>4 DEF vars, IInv, Types, Counted, Told, HasCallback, HasInterface, Wakeup, At,
     CallInside, Shutdown, Joined, WorkerDead
<1>5. QED
  BY <1>1, <1>2, <1>3, <1>4 DEF Next, Stopped

\* The invariant of every behaviour.
THEOREM Invariance == Spec => []IInv
  BY InitIInv, NextKeeps, PTL DEF Spec

\* Variables keep their types; a request is never notified twice.
THEOREM TypeCorrect == Spec => []TypeOK
<1>1. IInv => TypeOK
  BY HttpLibAssumption DEF IInv, Types, Counted, TypeOK, Async
<1>2. QED
  BY <1>1, Invariance, PTL

\* No queued request is left to a sleeping worker.
THEOREM WakeupNotLost == Spec => []NoLostWakeup
<1>1. IInv => NoLostWakeup
  BY DEF IInv, Wakeup, NoLostWakeup
<1>2. QED
  BY <1>1, Invariance, PTL

\* A request is notified once, after its transfer and before its deletion.
THEOREM NotifiedExactlyOnce == Spec => []NotifiedOnce
<1>1. IInv => NotifiedOnce
  <2> SUFFICES ASSUME IInv, NEW r \in Requests
               PROVE  /\ notified[r] <= 1
                      /\ place[r] = "freed" => notified[r] =
                            IF HasCallback(r) \/ HasInterface(r) THEN 1 ELSE 0
                      /\ notified[r] = 1 => place[r] \in Finishing \cup {"freed"}
    BY DEF NotifiedOnce
  <2> QED
    BY DEF IInv, Counted, Told, Finishing
<1>2. QED
  BY <1>1, Invariance, PTL

\* After the join only the owner takes steps that change anything, but for the
\* end of a call whose request is already queued.
LEMMA JoinedStep ==
    ASSUME IInv, Joined, [Next]_vars
    PROVE  UNCHANGED <<place, notified, worker>>
<1> USE DEF IInv, Shutdown, Joined, WorkerDead
<1>1. ASSUME NEW r \in Requests, Issue(r)
      PROVE  UNCHANGED <<place, notified, worker>>
  BY <1>1 DEF Issue, ClientCall, CallFromCallback, PushBack, SignalRequest,
     CallInside, CallRuns, InCallback, Handling
<1>2. ASSUME NEW r \in Requests, Handle(r)
      PROVE  FALSE
  <2>1. r \in Async => ~OnThread(r)
    BY DEF OnThread, Handling, Async
  <2>2. place[r] \in Finishing \cup {"perform"}
    BY <1>2 DEF Handle, SyncFinish, CallbackReturn, CloseAndComplete,
       CompleteReturn, curl_object_release, Finishing
  <2>3. r \in Sync
    BY <1>2, <2>1 DEF Handle, SyncFinish, CallbackReturn, CloseAndComplete,
       CompleteReturn, curl_object_release, CallInside, Async
  <2>4. nested = r
    BY <2>2, <2>3 DEF CallInside
  <2>5. QED
    BY <2>3, <2>4, HttpLibAssumption DEF Types, Async
<1>3. ~WorkerStep
  BY DEF WorkerStep, WaitAny, Collect, Perform, curl_multi_perform_ex,
     curl_multi_wait, ReadDone, QueueRead
<1>4. ASSUME OwnerStep
      PROVE  UNCHANGED <<place, notified, worker>>
  BY <1>4 DEF OwnerStep, BeginStop, JoinAllThread, EndStop
<1>5. QED
  BY <1>1, <1>2, <1>3, <1>4 DEF Next, Stopped, vars

\* Once the worker is joined nothing is notified and no request moves.
THEOREM SilentAfterJoin == Spec => QuietAfterJoin
<1>1. IInv /\ [Next]_vars => [Joined => UNCHANGED <<place, notified, worker>>]_vars
  BY JoinedStep
<1>2. QED
  BY <1>1, Invariance, PTL DEF Spec, QuietAfterJoin
-----------------------------------------------------------------------------
(* HttpLib implements AsyncService.                                         *)

\* Steps that leave place, notified and the openness alone leave the service alone.
LEMMA ServiceStutters ==
    ASSUME UNCHANGED <<place, notified>>, (owner \in {"alive", "exiting"})' = (owner \in {"alive", "exiting"})
    PROVE  UNCHANGED Service!vars
  BY DEF Service!vars, ServiceState

\* A request that goes from one stage to another without being notified, not
\* out of the two stages before the queue, leaves the service alone.
LEMMA MoveStutters ==
    ASSUME IInv, UNCHANGED <<notified, owner>>,
           \A r \in Async : place'[r] \in {"none", "prepared"} <=> place[r] \in {"none", "prepared"}
    PROVE  UNCHANGED Service!vars
<1>1. \A r \in Async : ServiceState(r)' = ServiceState(r)
  BY DEF ServiceState
<1>2. QED
  BY <1>1 DEF Service!vars

\* Notifying request r answers it.
LEMMA NotifyAnswers ==
    ASSUME IInv, ~Joined, NEW r \in Async, UNCHANGED owner,
           place[r] \notin {"none", "prepared"}, notified[r] = 0,
           notified' = [notified EXCEPT ![r] = @ + 1],
           NEW p \in Places \ {"none", "prepared"},
           place' = [place EXCEPT ![r] = p]
    PROVE  Service!Answer(r)
<1> USE DEF IInv, Types
<1>1. \A q \in Async : ServiceState(q)' = IF q = r THEN "answered" ELSE ServiceState(q)
  BY DEF ServiceState, Async
<1>2. ServiceState(r) = "pending"
  BY DEF ServiceState
<1>3. [q \in Async |-> ServiceState(q)]' = [[q \in Async |-> ServiceState(q)] EXCEPT ![r] = "answered"]
  BY <1>1
<1>4. QED
  BY <1>2, <1>3 DEF Service!Answer, Joined

\* The steps of a call: the service sees only the push into the queue.
LEMMA IssueImplements ==
    ASSUME IInv, NEW r \in Requests, Issue(r), ~Joined
    PROVE  [Service!Next]_(Service!vars)
<1> USE DEF IInv, Types
<1>1. CASE ClientCall(r) \/ CallFromCallback(r)
  <2>1. curl_object_prepare(r) /\ UNCHANGED <<notified, owner>>
    BY <1>1 DEF ClientCall, CallFromCallback, curl_object_prepare
  <2>2. \A q \in Async : place'[q] \in {"none", "prepared"} <=> place[q] \in {"none", "prepared"}
    BY <2>1 DEF curl_object_prepare, Async
  <2>3. QED
    BY <2>1, <2>2, MoveStutters
<1>2. CASE PushBack(r)
  <2> USE <1>2 DEF PushBack
  <2>1. r \in Async /\ notified[r] = 0
    BY DEF CallInside, Counted, Told
  <2>2. \A q \in Async : ServiceState(q)' = IF q = r THEN "pending" ELSE ServiceState(q)
    BY <2>1 DEF ServiceState, Async
  <2>3. ServiceState(r) = "new"
    BY DEF ServiceState
  <2>4. [q \in Async |-> ServiceState(q)]' = [[q \in Async |-> ServiceState(q)] EXCEPT ![r] = "pending"]
    BY <2>2
  <2>5. Service!Submit(r)
    BY <2>1, <2>3, <2>4 DEF Service!Submit, Joined
  <2>6. QED
    BY <2>1, <2>5 DEF Service!Next
<1>3. CASE SignalRequest(r)
  BY <1>3, ServiceStutters DEF SignalRequest
<1>4. QED
  BY <1>1, <1>2, <1>3 DEF Issue

\* The steps of the end of a request: the service sees the notification of an
\* asynchronous one.
LEMMA HandleImplements ==
    ASSUME IInv, NEW r \in Requests, Handle(r), ~Joined
    PROVE  [Service!Next]_(Service!vars)
<1> USE DEF IInv, Types
<1>1. CASE SyncFinish(r)
  <2>1. r \in Sync /\ r \notin Async
    BY <1>1 DEF SyncFinish, CallInside, Async
  <2>2. notified' = notified
    BY <1>1, <2>1 DEF SyncFinish, FinishNotified, HasCallback
  <2>3. QED
    BY <1>1, <2>1, <2>2, MoveStutters DEF SyncFinish, Async
<1>2. CASE CallbackReturn(r) \/ CompleteReturn(r) \/ curl_object_release(r)
  <2>1. UNCHANGED <<notified, owner>>
    BY <1>2 DEF CallbackReturn, CompleteReturn, curl_object_release
  <2>2. \A q \in Async : place'[q] \in {"none", "prepared"} <=> place[q] \in {"none", "prepared"}
    BY <1>2 DEF CallbackReturn, CompleteReturn, curl_object_release, Async
  <2>3. QED
    BY <2>1, <2>2, MoveStutters
<1>3. CASE CloseAndComplete(r)
  <2> USE <1>3 DEF CloseAndComplete
  <2>1. CASE HasInterface(r) /\ r \in Async
    <3>1. notified[r] = 0
      BY <2>1 DEF Counted, Told, HasCallback, HasInterface
    <3>2. Service!Answer(r)
      BY <2>1, <3>1, NotifyAnswers DEF Places, Finishing
    <3>3. QED
      BY <2>1, <3>2 DEF Service!Next
  <2>2. CASE HasInterface(r) /\ r \notin Async
    <3>1. \A q \in Async : ServiceState(q)' = ServiceState(q)
      BY <2>2 DEF ServiceState, Async
    <3>2. QED
      BY <3>1 DEF Service!vars
  <2>3. CASE ~HasInterface(r)
    BY <2>3, MoveStutters DEF Async
  <2>4. QED
    BY <2>1, <2>2, <2>3
<1>4. QED
  BY <1>1, <1>2, <1>3 DEF Handle

\* The steps of the worker: the service sees the function callback.
LEMMA WorkerImplements ==
    ASSUME IInv, WorkerStep, ~Joined
    PROVE  [Service!Next]_(Service!vars)
<1> USE DEF IInv, Types
<1>1. CASE WaitAny \/ curl_multi_wait \/ QueueRead
  BY <1>1, ServiceStutters DEF WaitAny, curl_multi_wait, QueueRead
<1>2. CASE Collect
  BY <1>2, MoveStutters DEF Collect, Async
<1>3. CASE Perform
  BY <1>3, MoveStutters DEF Perform, curl_multi_perform_ex, At, Async
<1>4. ASSUME NEW r \in Requests, ReadDone(r)
      PROVE  [Service!Next]_(Service!vars)
  <2> USE <1>4 DEF ReadDone, FinishPlace, FinishNotified
  <2>1. r \in Async
    BY DEF CallInside
  <2>2. CASE HasCallback(r)
    <3>1. notified[r] = 0
      BY DEF Counted, Told
    <3>2. Service!Answer(r)
      BY <2>1, <2>2, <3>1, NotifyAnswers DEF Places, Finishing
    <3>3. QED
      BY <2>1, <3>2 DEF Service!Next
  <2>3. CASE ~HasCallback(r)
    BY <2>3, MoveStutters DEF Async
  <2>4. QED
    BY <2>2, <2>3
<1>5. QED
  BY <1>1, <1>2, <1>3, <1>4 DEF WorkerStep

\* To its users the client is AsyncService: requests are answered at most once
\* and only while the object runs.
THEOREM ImplementsService == Spec => ServiceSpec
<1>1. Init => Service!Init
  BY DEF Init, Service!Init, ServiceState, Async
<1>2. IInv /\ [Next]_vars => [Service!Next]_(Service!vars)
  <2> SUFFICES ASSUME IInv, [Next]_vars
               PROVE  [Service!Next]_(Service!vars)
    OBVIOUS
  <2>1. CASE UNCHANGED vars
    BY <2>1, ServiceStutters DEF vars
  <2>2. CASE OwnerStep
    <3>1. CASE BeginStop \/ EndStop
      BY <3>1, ServiceStutters DEF BeginStop, EndStop
    <3>2. CASE JoinAllThread
      <4>1. \A r \in Async : ServiceState(r)' = ServiceState(r)
        BY <3>2 DEF JoinAllThread, ServiceState
      <4>2. Service!Close
        BY <3>2, <4>1 DEF JoinAllThread, Service!Close
      <4>3. QED
        BY <4>2 DEF Service!Next
    <3>3. QED
      BY <2>2, <3>1, <3>2 DEF OwnerStep
  <2>3. CASE Joined /\ ~OwnerStep
    <3>1. UNCHANGED <<place, notified>>
      BY <2>3, JoinedStep
    <3>2. owner' = owner
      BY <2>3 DEF Next, Issue, ClientCall, CallFromCallback, curl_object_prepare, PushBack,
         SignalRequest, Handle, SyncFinish, CallbackReturn, CloseAndComplete,
         CompleteReturn, curl_object_release, WorkerStep, WaitAny, Collect, Perform,
         curl_multi_perform_ex, curl_multi_wait, ReadDone, QueueRead, Stopped, vars
    <3>3. QED
      BY <3>1, <3>2, ServiceStutters
  <2>4. CASE ~Joined /\ ~OwnerStep /\ ~UNCHANGED vars
    BY <2>4, IssueImplements, HandleImplements, WorkerImplements DEF Next, Stopped
  <2>5. QED
    BY <2>1, <2>2, <2>3, <2>4
<1>3. QED
  BY <1>1, <1>2, Invariance, PTL DEF Spec, ServiceSpec, Service!Spec
-----------------------------------------------------------------------------
(* What Answered and StopReturns rest on, short of fairness: the worker can  *)
(* always go on, leaves no transfer behind, and takes no more upon itself    *)
(* once it is told to leave.                                                 *)

\* The worker finishes one request at a time, and is in a callback of no other.
OneAtATime ==
    /\ Handling => cur \in Async /\ place[cur] \in Finishing
    /\ ~Handling /\ worker # "killed" => cur = None /\ nested = None
    /\ \A r \in Async : place[r] \in Finishing => cur = r /\ (Handling \/ worker = "killed")

\* A request that a callback issues has still to be queued, or to be signalled.
NestedGoesOn ==
    Handling /\ nested # None =>
        /\ InCallback /\ nested # cur
        /\ place[nested] = "prepared" \/ caller[nested] = "pushed"

WorkerCanGoOn ==
    Handling =>
        /\ cur \in Async /\ place[cur] \in Finishing
        /\ \/ nested = None /\ OnThread(cur)
           \/ CallRuns(nested) /\ (place[nested] = "prepared" \/ caller[nested] = "pushed")

\* Where the worker is when it has done with a batch.
BetweenBatches == {"wait", "collect", "collect_exit"}

\* The messages of a batch are read before the next is taken, and no transfer is left
\* without anybody to drive it unless curl_multi_wait has failed.
BatchIsOver ==
    /\ worker \in BetweenBatches \cup {"perform"} => At("done") = {}
    /\ worker \in BetweenBatches \cup {"drain", "handle_drain"} =>
        MultiWaitMayFail \/ At("multi") = {}

GoesOn == OneAtATime /\ NestedGoesOn /\ BatchIsOver

\* The steps of a request in the batch of the worker that are left until it is freed.
TransferLeft(r) ==
    IF place[r] = "multi" THEN 6
    ELSE IF place[r] = "done" THEN 5
    ELSE IF place[r] = "cb" THEN 4
    ELSE IF place[r] = "close" THEN 3
    ELSE IF place[r] = "complete" THEN 2
    ELSE IF place[r] = "release" THEN 1 ELSE 0

\* A batch that has been collected is not added to, whatever callbacks and clients
\* issue meanwhile, and each of its requests only comes nearer to its end.
BatchShrinks ==
    [][worker \notin {"collect", "collect_exit"} =>
        \A r \in Async :
            /\ TransferLeft(r)' <= TransferLeft(r)
            /\ place'[r] # place[r] => TransferLeft(r)' < TransferLeft(r) \/ TransferLeft(r) = 0]_vars

\* The batches the worker may still have to take, and its way out.
ExitLeft ==
    IF WorkerDead THEN 0
    ELSE IF worker = "collect_exit" THEN 1
    ELSE IF worker = "wait" THEN 2
    ELSE IF worker = "collect" THEN 4 ELSE 3

\* Once the exit event is signalled the worker performs no other batch than the one it
\* has, or is about to collect.
ExitShrinks == [][m_hExit => ExitLeft' <= ExitLeft]_vars

\* At first there is no request.
LEMMA InitGoesOn == Init => GoesOn
<1> SUFFICES ASSUME Init PROVE GoesOn
  OBVIOUS
<1>1. OneAtATime /\ NestedGoesOn
  BY DEF Init, OneAtATime, NestedGoesOn, Handling, Finishing, Async
<1>2. At("multi") = {} /\ At("done") = {}
  BY DEF Init, At
<1>3. QED
  BY <1>1, <1>2 DEF GoesOn, BatchIsOver

\* Issuing a request, on a client's thread or in a callback.
LEMMA IssueGoesOn ==
    ASSUME IInv, GoesOn, NEW r \in Requests, Issue(r)
    PROVE  GoesOn'
<1> USE HttpLibAssumption DEF IInv, Types, GoesOn, Async, Handling, InCallback, CallRuns, Finishing
<1>1. CASE ClientCall(r) \/ CallFromCallback(r)
  <2> USE <1>1 DEF ClientCall, CallFromCallback, curl_object_prepare
  <2>1. OneAtATime'
    BY DEF OneAtATime
  <2>2. NestedGoesOn'
    BY DEF NestedGoesOn, OneAtATime
  <2>3. BatchIsOver'
    BY DEF BatchIsOver, BetweenBatches, At
  <2>4. QED
    BY <2>1, <2>2, <2>3
<1>2. CASE PushBack(r)
  <2> USE <1>2 DEF PushBack
  <2>1. OneAtATime'
    BY DEF OneAtATime
  <2>2. NestedGoesOn'
    BY DEF NestedGoesOn, OneAtATime
  <2>3. BatchIsOver'
    BY DEF BatchIsOver, BetweenBatches, At
  <2>4. QED
    BY <2>1, <2>2, <2>3
<1>3. CASE SignalRequest(r)
  <2> USE <1>3 DEF SignalRequest
  <2>1. OneAtATime'
    BY DEF OneAtATime
  <2>2. NestedGoesOn'
    BY DEF NestedGoesOn
  <2>3. BatchIsOver'
    BY DEF BatchIsOver, At
  <2>4. QED
    BY <2>1, <2>2, <2>3
<1>4. QED
  BY <1>1, <1>2, <1>3 DEF Issue

\* The stages of handle_request_finished_event.
LEMMA HandleGoesOn ==
    ASSUME IInv, GoesOn, NEW r \in Requests, Handle(r)
    PROVE  GoesOn'
<1> USE HttpLibAssumption DEF IInv, Types, GoesOn, Async, Handling, InCallback, OnThread, Finishing
<1>1. CASE SyncFinish(r)
  <2> USE <1>1 DEF SyncFinish, FinishPlace, HasCallback
  <2>0. r \in Sync
    BY DEF CallInside
  <2>1. OneAtATime'
    BY <2>0 DEF OneAtATime
  <2>2. NestedGoesOn'
    BY <2>0 DEF NestedGoesOn, OneAtATime
  <2>3. BatchIsOver'
    BY DEF BatchIsOver, BetweenBatches, At
  <2>4. QED
    BY <2>1, <2>2, <2>3
<1>2. CASE CallbackReturn(r) \/ CloseAndComplete(r) \/ CompleteReturn(r)
  <2> USE <1>2 DEF CallbackReturn, CloseAndComplete, CompleteReturn
  <2>1. /\ place[r] \in Finishing /\ OnThread(r)
        /\ \E p \in {"close", "complete", "release"} : place' = [place EXCEPT ![r] = p]
        /\ UNCHANGED <<caller, worker, cur, nested>>
    OBVIOUS
  <2>2. OneAtATime'
    BY <2>1 DEF OneAtATime
  <2>3. NestedGoesOn'
    BY <2>1 DEF NestedGoesOn, OneAtATime
  <2>4. BatchIsOver'
    BY <2>1 DEF BatchIsOver, BetweenBatches, At
  <2>5. QED
    BY <2>2, <2>3, <2>4
<1>3. CASE curl_object_release(r)
  <2> USE <1>3 DEF curl_object_release
  <2>1. OneAtATime'
    BY DEF OneAtATime
  <2>2. NestedGoesOn'
    BY DEF NestedGoesOn, OneAtATime
  <2>3. BatchIsOver'
    BY DEF BatchIsOver, BetweenBatches, At
  <2>4. QED
    BY <2>1, <2>2, <2>3
<1>4. QED
  BY <1>1, <1>2, <1>3 DEF Handle

\* The loop of the worker.
LEMMA WorkerStepGoesOn ==
    ASSUME IInv, GoesOn, WorkerStep
    PROVE  GoesOn'
<1> USE HttpLibAssumption DEF IInv, Types, GoesOn, Async, Handling, InCallback, BetweenBatches
<1>1. CASE WaitAny
  BY <1>1 DEF WaitAny, OneAtATime, NestedGoesOn, BatchIsOver, At
<1>2. CASE Collect
  <2> USE <1>2 DEF Collect
  <2>1. OneAtATime' /\ NestedGoesOn'
    BY DEF OneAtATime, NestedGoesOn, Finishing
  <2>2. BatchIsOver'
    BY DEF BatchIsOver, At
  <2>3. QED
    BY <2>1, <2>2
<1>3. ASSUME NEW ended \in SUBSET At("multi"), curl_multi_perform_ex(ended)
      PROVE  GoesOn'
  <2> USE <1>3 DEF curl_multi_perform_ex
  <2>1. OneAtATime' /\ NestedGoesOn'
    BY DEF OneAtATime, NestedGoesOn, Finishing
  <2>2. At("multi")' = At("multi") \ ended
    BY DEF At
  <2>3. BatchIsOver'
    BY <2>2 DEF BatchIsOver
  <2>4. QED
    BY <2>1, <2>3
<1>4. CASE curl_multi_wait
  BY <1>4 DEF curl_multi_wait, OneAtATime, NestedGoesOn, BatchIsOver, At
<1>5. ASSUME NEW r \in Requests, ReadDone(r)
      PROVE  GoesOn'
  <2> USE <1>5 DEF ReadDone, FinishPlace
  <2>1. r \in Async
    BY DEF CallInside
  <2>2. OneAtATime' /\ NestedGoesOn'
    BY <2>1 DEF OneAtATime, NestedGoesOn, Finishing
  <2>3. BatchIsOver'
    BY DEF BatchIsOver, At
  <2>4. QED
    BY <2>2, <2>3
<1>6. CASE QueueRead
  BY <1>6 DEF QueueRead, OneAtATime, NestedGoesOn, BatchIsOver, At
<1>7. QED
  BY <1>1, <1>2, <1>3, <1>4, <1>5, <1>6 DEF WorkerStep, Perform

\* The owner only ends the worker, between any two of its steps.
LEMMA OwnerGoesOn ==
    ASSUME IInv, GoesOn, OwnerStep
    PROVE  GoesOn'
<1> USE DEF IInv, Types, GoesOn, Handling, InCallback, WorkerDead, BetweenBatches,
        OwnerStep, BeginStop, JoinAllThread, EndStop
<1>1. OneAtATime' /\ NestedGoesOn'
  BY DEF OneAtATime, NestedGoesOn
<1>2. BatchIsOver'
  BY DEF BatchIsOver, At
<1>3. QED
  BY <1>1, <1>2

\* The batch of the worker, and what it is at, are an invariant of every build.
THEOREM GoesOnInvariance == Spec => []GoesOn
<1>1. IInv /\ GoesOn /\ [Next]_vars => GoesOn'
  <2> SUFFICES ASSUME IInv, GoesOn, [Next]_vars
               PROVE  GoesOn'
    OBVIOUS
  <2>1. CASE UNCHANGED vars
    BY <2>1 DEF vars, GoesOn, OneAtATime, NestedGoesOn, BatchIsOver, Handling, InCallback, At
  <2>2. QED
    BY <2>1, IssueGoesOn, HandleGoesOn, WorkerStepGoesOn, OwnerGoesOn DEF Next, Stopped
<1>2. QED
  BY <1>1, InitGoesOn, Invariance, PTL DEF Spec

\* The worker has no transfer left when it waits for the next request, and no message
\* unread: but for a failure of curl_multi_wait every transfer that is handed to curl
\* is driven to its end (HttpLib.cpp:275-299).
THEOREM NoTransferAbandoned == Spec => []BatchIsOver
<1>1. GoesOn => BatchIsOver
  BY DEF GoesOn
<1>2. QED
  BY <1>1, GoesOnInvariance, PTL

\* While it handles a request the worker can go on: with the request it issues in a
\* callback, or else with the stage the one request it handles is at (lines 301-393).
THEOREM WorkerNeverStuck == Spec => []WorkerCanGoOn
<1>1. GoesOn => WorkerCanGoOn
  BY DEF GoesOn, OneAtATime, NestedGoesOn, OnThread, CallRuns, WorkerCanGoOn
<1>2. QED
  BY <1>1, GoesOnInvariance, PTL

\* No step but the next Collect adds to the batch of the worker, and every step of one
\* of its requests is one nearer to its end (lines 266-299).
THEOREM BatchComesNearer == Spec => BatchShrinks
<1> DEFINE Near(r) == /\ TransferLeft(r)' <= TransferLeft(r)
                      /\ place'[r] # place[r] => TransferLeft(r)' < TransferLeft(r) \/ TransferLeft(r) = 0
<1>1. ASSUME IInv, NEW q \in Requests, Issue(q) \/ Handle(q), NEW r \in Async
      PROVE  Near(r)
  <2> USE <1>1, HttpLibAssumption DEF IInv, Types, Async
  <2>1. CASE Issue(q)
    BY <2>1 DEF Issue, ClientCall, CallFromCallback, curl_object_prepare, PushBack, SignalRequest,
       TransferLeft
  <2>2. CASE Handle(q)
    BY <2>2 DEF Handle, SyncFinish, CallbackReturn, CloseAndComplete, CompleteReturn,
       curl_object_release, CallInside, FinishPlace, TransferLeft
  <2>3. QED
    BY <2>1, <2>2
<1>2. ASSUME IInv, WorkerStep, worker \notin {"collect", "collect_exit"}, NEW r \in Async
      PROVE  Near(r)
  <2> USE <1>2 DEF IInv, Types, Async
  <2>1. CASE WaitAny \/ curl_multi_wait \/ QueueRead
    BY <2>1 DEF WaitAny, curl_multi_wait, QueueRead, TransferLeft
  <2>2. CASE Perform
    BY <2>2 DEF Perform, curl_multi_perform_ex, At, TransferLeft
  <2>3. ASSUME NEW q \in Requests, ReadDone(q)
        PROVE  Near(r)
    BY <2>3 DEF ReadDone, FinishPlace, TransferLeft
  <2>4. QED
    BY <2>1, <2>2, <2>3 DEF WorkerStep, Collect
<1>3. ASSUME OwnerStep \/ UNCHANGED vars, NEW r \in Async
      PROVE  Near(r)
  BY <1>3 DEF OwnerStep, BeginStop, JoinAllThread, EndStop, vars, TransferLeft
<1>4. IInv /\ [Next]_vars => (worker \notin {"collect", "collect_exit"} => \A r \in Async : Near(r))
  BY <1>1, <1>2, <1>3 DEF Next, Stopped
<1>5. QED
  BY <1>4, Invariance, PTL DEF Spec, BatchShrinks

\* Once Stop has signalled the exit event the worker performs one batch more at most:
\* what callbacks and clients still queue is collected on the way out, and is not
\* performed (lines 248-272).
THEOREM StopComesNearer == Spec => ExitShrinks
<1>1. IInv /\ [Next]_vars => (m_hExit => ExitLeft' <= ExitLeft)
  <2> SUFFICES ASSUME IInv, [Next]_vars, m_hExit
               PROVE  ExitLeft' <= ExitLeft
    OBVIOUS
  <2> DEFINE InLoop == {"perform", "multiwait", "check", "drain", "handle_check", "handle_drain"}
  <2>1. ASSUME NEW r \in Requests, Issue(r) \/ Handle(r)
        PROVE  worker' = worker \/ (worker \in InLoop /\ worker' \in InLoop)
    BY <2>1, HttpLibAssumption DEF Issue, ClientCall, CallFromCallback, curl_object_prepare, PushBack,
       SignalRequest, Handle, SyncFinish, CallbackReturn, CloseAndComplete, CompleteReturn,
       curl_object_release, OnThread, Handling
  <2>2. ASSUME WorkerStep
        PROVE  \/ worker = "wait" /\ worker' = "collect_exit"
               \/ worker = "collect_exit" /\ worker' = "exited"
               \/ worker = "collect" /\ worker' \in InLoop
               \/ worker \in InLoop /\ worker' \in InLoop \cup {"wait"}
    <3>1. CASE WaitAny \/ Collect
      BY <3>1 DEF WaitAny, Collect
    <3>2. CASE Perform \/ curl_multi_wait \/ QueueRead \/ \E r \in Requests : ReadDone(r)
      BY <3>2 DEF Perform, curl_multi_perform_ex, curl_multi_wait, ReadDone, QueueRead
    <3>3. QED
      BY <2>2, <3>1, <3>2 DEF WorkerStep
  <2>3. ASSUME OwnerStep \/ UNCHANGED vars
        PROVE  worker' = worker \/ worker' = "killed"
    BY <2>3 DEF OwnerStep, BeginStop, JoinAllThread, EndStop, vars
  <2>4. \/ worker' = worker \/ worker' \in {"killed", "exited"}
        \/ worker = "wait" /\ worker' = "collect_exit"
        \/ worker = "collect" /\ worker' \in InLoop
        \/ worker \in InLoop /\ worker' \in InLoop \cup {"wait"}
    BY <2>1, <2>2, <2>3 DEF Next, Stopped
  <2>5. QED
    BY <2>4 DEF ExitLeft, WorkerDead
<1>2. QED
  BY <1>1, Invariance, PTL DEF Spec, ExitShrinks
=============================================================================
