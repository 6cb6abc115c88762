------------------------------- MODULE HttpLib -------------------------------
(***************************************************************************)
(* The asynchronous HTTP client of libProject/libHttp: callers queue       *)
(* requests for one worker thread that drives a libcurl multi handle, the  *)
(* worker notifies each request when its transfer ends, and the owner of   *)
(* the object stops the worker (by force in a release build).              *)
(*                                                                         *)
(* Threads: one per client call (the request names the call), the worker,  *)
(* the owner.  libcurl and the Win32 objects are modelled from their use.  *)
(***************************************************************************)
EXTENDS Naturals

CONSTANTS
    Requests,            \* the requests of a run, each issued at most once
    Sync,                \* those issued by SyncRequset: run on the caller's thread
    ByInterface,         \* those notified through IHttpSupport, not HTTP_REQUEST_CB
    Downloads,           \* those with HTTP_OP_TYPE::FILE_DOWNLOAD
    SaveAs,              \* the local file of each download
    TerminateOnTimeout,  \* JoinAllThread(5000, TRUE) (release) or JoinAllThread() (debug)
    MultiWaitMayFail,    \* whether curl_multi_wait may return an error
    None                 \* no request

ASSUME HttpLibAssumption ==
    /\ Sync \subseteq Requests
    /\ ByInterface \subseteq Requests
    /\ Downloads \subseteq Requests
    /\ TerminateOnTimeout \in BOOLEAN
    /\ MultiWaitMayFail \in BOOLEAN
    /\ None \notin Requests

VARIABLES
    place,       \* where the CURL_OBJ of each request is, see Places
    caller,      \* how far AsyncRequestImpl / SyncRequsetImpl got for each request
    file,        \* the file handle of each request
    notified,    \* how many notifications of each request have begun
    m_hRequest,  \* auto-reset event: the queue may hold something
    m_hExit,     \* manual-reset event: the worker must return
    worker,      \* program counter of AsyncRequestWorkThread
    cur,         \* the request inside handle_request_finished_event on the worker
    nested,      \* the request a callback on the worker is issuing
    owner        \* how far Stop got

vars == <<place, caller, file, notified, m_hRequest, m_hExit, worker, cur,
          nested, owner>>

Async == Requests \ Sync

(* "queued": in m_vecCurlObj; "multi": added to the multi handle; "done":   *)
(* its CURLMSG_DONE is unread; "perform": inside curl_easy_perform; then    *)
(* the stages of handle_request_finished_event up to "freed".               *)
Finishing == {"cb", "close", "complete", "release"}
Places == {"none", "prepared", "queued", "multi", "done", "perform", "freed"}
            \cup Finishing

Joined == owner \in {"joined", "stopped"}
WorkerDead == worker \in {"exited", "killed"}
At(p) == {r \in Requests : place[r] = p}

TypeOK ==
    /\ place \in [Requests -> Places]
    /\ caller \in [Requests -> {"idle", "inside", "pushed", "returned"}]
    /\ file \in [Requests -> {"invalid", "open"}]
    /\ notified \in [Requests -> 0..1]
    /\ m_hRequest \in BOOLEAN
    /\ m_hExit \in BOOLEAN
    /\ worker \in {"wait", "collect_exit", "collect", "perform", "multiwait",
                   "check", "drain", "handle_check", "handle_drain",
                   "exited", "killed"}
    /\ cur \in Requests \cup {None}
    /\ nested \in Requests \cup {None}
    /\ owner \in {"alive", "exiting", "joined", "stopped"}

Init ==
    /\ place = [r \in Requests |-> "none"]
    /\ caller = [r \in Requests |-> "idle"]
    /\ file = [r \in Requests |-> "invalid"]
    /\ notified = [r \in Requests |-> 0]
    /\ m_hRequest = FALSE
    /\ m_hExit = FALSE
    /\ worker = "wait"
    /\ cur = None
    /\ nested = None
    /\ owner = "alive"
-----------------------------------------------------------------------------
(* Issuing a request.  A client may call in while the object is alive; a    *)
(* callback running on the worker may call in as long as the worker lives.  *)

Handling == worker \in {"handle_check", "handle_drain"}
InCallback == Handling /\ cur # None /\ place[cur] \in {"cb", "complete"}

\* The thread of the call still runs: a killed worker finishes nothing.
CallRuns(r) == nested = r => Handling

\* CreateFile for writing shares the file with readers only: it fails while
\* another handle writes the file, and it may fail for reasons of its own.
Writable(r) == \A d \in Downloads : file[d] = "open" => SaveAs[d] # SaveAs[r]

curl_object_prepare(r) ==
    /\ place[r] = "none"
    /\ place' = [place EXCEPT ![r] = IF r \in Sync THEN "perform" ELSE "prepared"]
    /\ caller' = [caller EXCEPT ![r] = "inside"]
    /\ \/ UNCHANGED file
       \/ /\ r \in Downloads /\ Writable(r)
          /\ file' = [file EXCEPT ![r] = "open"]
    /\ UNCHANGED <<notified, m_hRequest, m_hExit, worker, cur, owner>>

ClientCall(r) ==
    /\ owner = "alive"
    /\ curl_object_prepare(r)
    /\ UNCHANGED nested

CallFromCallback(r) ==
    /\ InCallback /\ nested = None
    /\ r \in Async
    /\ curl_object_prepare(r)
    /\ nested' = r

PushBack(r) ==
    /\ place[r] = "prepared" /\ CallRuns(r)
    /\ place' = [place EXCEPT ![r] = "queued"]
    /\ caller' = [caller EXCEPT ![r] = "pushed"]
    /\ UNCHANGED <<file, notified, m_hRequest, m_hExit, worker, cur, nested, owner>>

\* Faulty form: the event is signalled only when the worker is seen waiting.
SignalOnlyWhenWaiting(r) ==
    /\ caller[r] = "pushed" /\ CallRuns(r)
    /\ caller' = [caller EXCEPT ![r] = "returned"]
    /\ m_hRequest' = (m_hRequest \/ worker = "wait")
    /\ nested' = IF nested = r THEN None ELSE nested
    /\ UNCHANGED <<place, file, notified, m_hExit, worker, cur, owner>>

SignalRequest(r) ==
    /\ caller[r] = "pushed" /\ CallRuns(r)
    /\ caller' = [caller EXCEPT ![r] = "returned"]
    /\ m_hRequest' = TRUE
    /\ nested' = IF nested = r THEN None ELSE nested
    /\ UNCHANGED <<place, file, notified, m_hExit, worker, cur, owner>>
-----------------------------------------------------------------------------
(* handle_request_finished_event, on the worker (cur = r) or on the thread  *)
(* of a synchronous call.                                                   *)

OnThread(r) == IF r \in Sync THEN TRUE ELSE Handling /\ cur = r /\ nested = None

HasCallback(r) == r \in Async \ ByInterface     \* http_request_cb # NULL
HasInterface(r) == r \in ByInterface            \* interface_cb # NULL

\* The transfer is over: the results go into the response and, when there is a
\* function callback, it starts.
FinishPlace(r) == IF HasCallback(r) THEN "cb" ELSE "close"
FinishNotified(r) == IF HasCallback(r) THEN [notified EXCEPT ![r] = @ + 1] ELSE notified

\* curl_easy_perform returned on the caller's thread.
SyncFinish(r) ==
    /\ place[r] = "perform"
    /\ place' = [place EXCEPT ![r] = FinishPlace(r)]
    /\ notified' = FinishNotified(r)
    /\ UNCHANGED <<caller, file, m_hRequest, m_hExit, worker, cur, nested, owner>>

CallbackReturn(r) ==
    /\ place[r] = "cb" /\ OnThread(r)
    /\ place' = [place EXCEPT ![r] = "close"]
    /\ UNCHANGED <<caller, file, notified, m_hRequest, m_hExit, worker, cur, nested, owner>>

\* HttpLib.cpp:361 says that the file is closed first and then notified.  That is so for
\* an interface; a function callback (356-359) has run with the file still open.
CloseAndComplete(r) ==
    /\ place[r] = "close" /\ OnThread(r)
    /\ file' = IF r \in Downloads THEN [file EXCEPT ![r] = "invalid"] ELSE file
    /\ IF HasInterface(r)
       THEN /\ place' = [place EXCEPT ![r] = "complete"]
            /\ notified' = [notified EXCEPT ![r] = @ + 1]
       ELSE /\ place' = [place EXCEPT ![r] = "release"]
            /\ UNCHANGED notified
    /\ UNCHANGED <<caller, m_hRequest, m_hExit, worker, cur, nested, owner>>

CompleteReturn(r) ==
    /\ place[r] = "complete" /\ OnThread(r)
    /\ place' = [place EXCEPT ![r] = "release"]
    /\ UNCHANGED <<caller, file, notified, m_hRequest, m_hExit, worker, cur, nested, owner>>

curl_object_release(r) ==
    /\ place[r] = "release" /\ OnThread(r)
    /\ place' = [place EXCEPT ![r] = "freed"]
    /\ file' = [file EXCEPT ![r] = "invalid"]
    /\ IF r \in Sync
       THEN /\ caller' = [caller EXCEPT ![r] = "returned"]
            /\ UNCHANGED <<worker, cur>>
       ELSE /\ worker' = IF worker = "handle_check" THEN "check" ELSE "drain"
            /\ cur' = None
            /\ UNCHANGED caller
    /\ UNCHANGED <<notified, m_hRequest, m_hExit, nested, owner>>
-----------------------------------------------------------------------------
(* AsyncRequestWorkThread.                                                  *)

\* WaitForMultipleObjects reports the lowest signalled index, the exit event,
\* and resets the auto-reset event only when that is the one it reports.
WaitAny ==
    /\ worker = "wait" /\ (m_hExit \/ m_hRequest)
    /\ IF m_hExit
       THEN worker' = "collect_exit" /\ UNCHANGED m_hRequest
       ELSE worker' = "collect" /\ m_hRequest' = FALSE
    /\ UNCHANGED <<place, caller, file, notified, m_hExit, cur, nested, owner>>

\* The queue is swapped out under m_dataMutex and added to the multi handle,
\* before the exit is looked at.
Collect ==
    /\ worker \in {"collect", "collect_exit"}
    /\ place' = [r \in Requests |-> IF place[r] = "queued" THEN "multi" ELSE place[r]]
    /\ worker' = IF worker = "collect" THEN "perform" ELSE "exited"
    /\ UNCHANGED <<caller, file, notified, m_hRequest, m_hExit, cur, nested, owner>>

\* Faulty form: a batch of which every transfer has ended is not read.
PerformSkipsLastRead(ended) ==
    /\ worker = "perform"
    /\ place' = [r \in Requests |-> IF r \in ended THEN "done" ELSE place[r]]
    /\ worker' = IF At("multi") \ ended = {} THEN "wait" ELSE "multiwait"
    /\ UNCHANGED <<caller, file, notified, m_hRequest, m_hExit, cur, nested, owner>>

\* Any of the transfers may end while libcurl drives them.
curl_multi_perform_ex(ended) ==
    /\ worker = "perform"
    /\ place' = [r \in Requests |-> IF r \in ended THEN "done" ELSE place[r]]
    /\ worker' = IF At("multi") \ ended = {} THEN "drain" ELSE "multiwait"
    /\ UNCHANGED <<caller, file, notified, m_hRequest, m_hExit, cur, nested, owner>>

curl_multi_wait ==
    /\ worker = "multiwait"
    /\ \/ worker' = "check"
       \/ MultiWaitMayFail /\ worker' = "drain"
    /\ UNCHANGED <<place, caller, file, notified, m_hRequest, m_hExit, cur, nested, owner>>

\* check_curl_msg_queue reads one CURLMSG_DONE.
\* Faulty form: an ended request without a function callback goes straight to
\* its release.
ReadDoneSkipsComplete(r) ==
    /\ worker \in {"check", "drain"}
    /\ place[r] = "done"
    /\ worker' = IF worker = "check" THEN "handle_check" ELSE "handle_drain"
    /\ cur' = r
    /\ place' = [place EXCEPT ![r] = IF HasCallback(r) THEN "cb" ELSE "release"]
    /\ notified' = FinishNotified(r)
    /\ UNCHANGED <<caller, file, m_hRequest, m_hExit, nested, owner>>

ReadDone(r) ==
    /\ worker \in {"check", "drain"}
    /\ place[r] = "done"
    /\ worker' = IF worker = "check" THEN "handle_check" ELSE "handle_drain"
    /\ cur' = r
    /\ place' = [place EXCEPT ![r] = FinishPlace(r)]
    /\ notified' = FinishNotified(r)
    /\ UNCHANGED <<caller, file, m_hRequest, m_hExit, nested, owner>>

\* No message is left: back to the loop that called check_curl_msg_queue.
QueueRead ==
    /\ worker \in {"check", "drain"} /\ At("done") = {}
    /\ worker' = IF worker = "check" THEN "perform" ELSE "wait"
    /\ UNCHANGED <<place, caller, file, notified, m_hRequest, m_hExit, cur, nested, owner>>
-----------------------------------------------------------------------------
(* Stop.  The owner destroys the object when no client is inside a call.    *)

\* Faulty form: the exit event is not signalled.
BeginStopWithoutEvent ==
    /\ owner = "alive"
    /\ \A r \in Requests : caller[r] \in {"inside", "pushed"} => nested = r
    /\ owner' = "exiting"
    /\ UNCHANGED <<place, caller, file, notified, m_hRequest, m_hExit, worker, cur, nested>>

BeginStop ==
    /\ owner = "alive"
    /\ \A r \in Requests : caller[r] \in {"inside", "pushed"} => nested = r
    /\ owner' = "exiting"
    /\ m_hExit' = TRUE
    /\ UNCHANGED <<place, caller, file, notified, m_hRequest, worker, cur, nested>>

\* Faulty form: after the timeout the thread is left running.
JoinWithoutTerminate ==
    /\ owner = "exiting"
    /\ WorkerDead \/ TerminateOnTimeout
    /\ owner' = "joined"
    /\ UNCHANGED <<place, caller, file, notified, m_hRequest, m_hExit, worker, cur, nested>>

JoinAllThread ==
    /\ owner = "exiting"
    /\ \/ WorkerDead /\ UNCHANGED worker
       \/ ~WorkerDead /\ TerminateOnTimeout /\ worker' = "killed"
    /\ owner' = "joined"
    /\ UNCHANGED <<place, caller, file, notified, m_hRequest, m_hExit, cur, nested>>

\* Both events are closed and the multi handle is cleaned up.
EndStop ==
    /\ owner = "joined"
    /\ owner' = "stopped"
    /\ UNCHANGED <<place, caller, file, notified, m_hRequest, m_hExit, worker, cur, nested>>

\* The object is gone.
Stopped == owner = "stopped" /\ UNCHANGED vars
-----------------------------------------------------------------------------
Issue(r) ==
    \/ ClientCall(r)
    \/ CallFromCallback(r)
    \/ PushBack(r)
    \/ SignalRequest(r)

Handle(r) ==
    \/ SyncFinish(r)
    \/ CallbackReturn(r)
    \/ CloseAndComplete(r)
    \/ CompleteReturn(r)
    \/ curl_object_release(r)

Perform == \E ended \in SUBSET At("multi") : curl_multi_perform_ex(ended)

WorkerStep ==
    \/ WaitAny
    \/ Collect
    \/ Perform
    \/ curl_multi_wait
    \/ \E r \in Requests : ReadDone(r)
    \/ QueueRead

OwnerStep == BeginStop \/ JoinAllThread \/ EndStop

Next ==
    \/ \E r \in Requests : Issue(r) \/ Handle(r)
    \/ WorkerStep
    \/ OwnerStep
    \/ Stopped

Spec == Init /\ [][Next]_vars

(* Scheduling fairness: every thread that can run does, calls in progress   *)
(* return, callbacks return, the 5 s of JoinAllThread elapse.  Nobody has   *)
(* to issue a request or to stop the object.                                *)
ThreadFairness ==
    /\ WF_vars(WorkerStep)
    /\ WF_vars(JoinAllThread \/ EndStop)
    /\ \A r \in Requests : WF_vars(PushBack(r) \/ SignalRequest(r) \/ Handle(r))

(* The network's share: a transfer that libcurl keeps driving ends, with an *)
(* answer, an error or a timeout.                                           *)
TransferEnds(r) == Perform /\ place[r] = "multi" /\ place'[r] = "done"
NetworkFairness == \A r \in Requests : SF_vars(TransferEnds(r))

FairSpec == Spec /\ ThreadFairness
NetworkSpec == FairSpec /\ NetworkFairness
-----------------------------------------------------------------------------
(* What must hold.                                                          *)

\* A request in the queue is never forgotten by a sleeping worker: the request
\* event is signalled, or the call that queued it is about to signal it, or the
\* worker is told to leave (push under the lock at HttpLib.cpp:421-426 against
\* the swap at 256-267, whose event has already been reset).
NoLostWakeup ==
    At("queued") # {} /\ worker = "wait" =>
        m_hRequest \/ m_hExit \/ \E r \in Requests : caller[r] = "pushed"

\* A request is notified once, through the one callback it was issued with, by
\* the time its CURL_OBJ is deleted, and never before its transfer has ended.
NotifiedOnce ==
    \A r \in Requests :
        /\ notified[r] <= 1
        /\ place[r] = "freed" => notified[r] = IF HasCallback(r) \/ HasInterface(r) THEN 1 ELSE 0
        /\ notified[r] = 1 => place[r] \in Finishing \cup {"freed"}

\* Nothing is notified and no request moves once the worker has been joined:
\* the object, its events and the multi handle may go.
QuietAfterJoin ==
    [][Joined => UNCHANGED <<place, notified, worker>>]_vars

\* Every queued request is answered and its CURL_OBJ deleted, unless the owner
\* stops the object first.
Answered ==
    \A r \in Async : place[r] = "queued" ~> place[r] = "freed" \/ m_hExit

\* Stop returns.
StopReturns == owner = "exiting" ~> owner = "stopped"
-----------------------------------------------------------------------------
(* The abstract service: see AsyncService.                                  *)

ServiceState(r) ==
    IF place[r] \in {"none", "prepared"} THEN "new"
    ELSE IF notified[r] = 0 THEN "pending" ELSE "answered"

Service == INSTANCE AsyncService WITH
    Requests <- Async,
    state <- [r \in Async |-> ServiceState(r)],
    open <- owner \in {"alive", "exiting"}

\* To its users the client is an asynchronous service that answers each request
\* at most once and falls silent when it is closed.
ServiceSpec == Service!Spec
=============================================================================
