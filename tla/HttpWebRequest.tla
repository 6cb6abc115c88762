--------------------------- MODULE HttpWebRequest ---------------------------
(***************************************************************************)
(* Asynchronous requests of CHttpWebRequest over CGlobalTimer.  The thread *)
(* of a request and the timer race to deliver the one result; the object   *)
(* is deleted with the last reference to it, which may be the object's own *)
(* (m_own), the client's, or the one in the result under way.              *)
(*                                                                         *)
(* The transfer of a request in Sessions is that of HttpSession, call by   *)
(* call; of the other requests only the end is there.                      *)
(***************************************************************************)
EXTENDS GlobalTimer, HttpSession

ASSUME RequestAssumption == Requests \cap {"timer", "client", "none", "freed"} = {}
ASSUME SessionAssumption == Sessions \subseteq Requests

VARIABLES
    refs,          \* who holds a reference to the object
    deleter,       \* the thread that runs its destructor, "freed" at the end
    adder,         \* the thread in AsyncRequest that is about to add the timer
    m_finished,
    m_hasTimeOut,
    m_bClosed,
    m_callback,    \* "set", "freed" once deleted, "none" when NULL
    runs           \* how often the callback of each request has been run

objectVars == <<refs, deleter>>
flagVars == <<m_finished, m_hasTimeOut, m_bClosed>>
callbackVars == <<m_callback, runs>>
vars == <<pc, timerVars, objectVars, adder, flagVars, callbackVars, sessionVars>>

Threads == Requests \cup {"timer", "client"}

\* The request a thread works for, inside ProcessThreadSwitched and around it.
Serves(x, r) == x = r \/ (x = "timer" /\ item = r)
Holder(x) == IF x = "timer" THEN "timer" ELSE "thread"

\* _CS is held across a blocking step only while m_own is reset.
InCS(r) == pc[r] \in {"reset", "leave"}

Switching == {"switched", "delete", "callback", "close", "drop"}

Undefined == pc["timer"] = "undefined"

Started(r) == pc[r] \notin {"idle", "undefined"}

Places ==
    {"idle", "request", "reset", "leave", "result", "done"} \cup Switching
    \cup Outside \cup {"visit", "execute", "undefined"}

RequestTypeOK ==
    /\ pc \in [Requests \cup {"timer"} -> Places]
    /\ m_calls \in Seq(Requests) /\ m_stoped \subseteq Requests /\ m_event \in BOOLEAN
    /\ visit \in Nat /\ item \in Requests \cup {"none"}
    /\ refs \in [Requests -> SUBSET {"client", "own", "thread", "timer"}]
    /\ deleter \in [Requests -> Threads \cup {"none", "freed"}]
    /\ adder \in [Requests -> Threads \cup {"none"}]
    /\ m_finished \in [Requests -> BOOLEAN]
    /\ m_hasTimeOut \in [Requests -> BOOLEAN]
    /\ m_bClosed \in [Requests -> BOOLEAN]
    /\ m_callback \in [Requests -> {"none", "set", "freed"}]
    /\ runs \in [Requests -> Nat]

TypeOK == RequestTypeOK /\ SessionTypeOK

\* Create: the client holds the object, and so does the object itself.
Init ==
    /\ pc = [x \in Requests \cup {"timer"} |-> IF x = "timer" THEN "check" ELSE "idle"]
    /\ GlobalTimerInit
    /\ refs = [r \in Requests |-> {"client", "own"}]
    /\ deleter = [r \in Requests |-> "none"]
    /\ adder = [r \in Requests |-> "none"]
    /\ m_finished = [r \in Requests |-> FALSE]
    /\ m_hasTimeOut = [r \in Requests |-> FALSE]
    /\ m_bClosed = [r \in Requests |-> FALSE]
    /\ m_callback = [r \in Requests |-> "none"]
    /\ runs = [r \in Requests |-> 0]
    /\ SessionInit
-----------------------------------------------------------------------------
(* References: the thread that drops the last one runs the destructor, and  *)
(* does nothing else until that is done.                                    *)

Drop(x, r, h) ==
    /\ refs' = [refs EXCEPT ![r] = @ \ {h}]
    /\ deleter' = IF refs[r] = {h} THEN [deleter EXCEPT ![r] = x] ELSE deleter

Free(x) == \A r \in Requests : deleter[r] # x /\ adder[r] # x

\* Faulty form: the destructor leaves the timer of the object in the list.
DestructorKeepsTimer(r) ==
    /\ deleter[r] \in Threads /\ CanLock(deleter[r]) /\ ~Undefined
    /\ deleter' = [deleter EXCEPT ![r] = "freed"]
    /\ UNCHANGED <<pc, timerVars, refs, adder, flagVars, callbackVars, sessionVars>>

Destructor(r) ==
    /\ deleter[r] \in Threads /\ ~Undefined
    /\ DeleteTimer(deleter[r], r)
    /\ deleter' = [deleter EXCEPT ![r] = "freed"]
    /\ UNCHANGED <<pc, refs, adder, flagVars, callbackVars, sessionVars>>
-----------------------------------------------------------------------------
(* The client.                                                              *)

\* The other threads of the program, or a thread inside a callback.
ClientThread(x) == x = "client" \/ (x \in Requests \cup {"timer"} /\ pc[x] = "callback" /\ Free(x))

\* A request with a break point gets no timer.
AsyncRequest(x, r) ==
    /\ ClientThread(x) /\ pc[r] = "idle" /\ "client" \in refs[r]
    /\ m_callback' = [m_callback EXCEPT ![r] = "set"]
    /\ Go(r, "request")
    /\ adder' \in {adder, [adder EXCEPT ![r] = x]}
    /\ UNCHANGED <<timerVars, objectVars, flagVars, runs, sessionVars>>

\* An empty URL is answered at once, and m_callback is not set.
AsyncRequestNoUrl(r) ==
    /\ pc[r] = "idle" /\ "client" \in refs[r]
    /\ runs' = [runs EXCEPT ![r] = @ + 1]
    /\ Go(r, "done")
    /\ UNCHANGED <<timerVars, objectVars, adder, flagVars, m_callback, sessionVars>>

\* AsyncRequest goes on to the timer while the thread is already running.
AsyncRequestTimer(r) ==
    /\ adder[r] # "none" /\ ~Undefined
    /\ AddTimer(adder[r], r)
    /\ adder' = [adder EXCEPT ![r] = "none"]
    /\ UNCHANGED <<pc, objectVars, flagVars, callbackVars, sessionVars>>

\* The client closes a request whose session is not followed.
Close(r) ==
    /\ "client" \in refs[r] /\ Started(r) /\ r \notin Sessions
    /\ m_bClosed' = [m_bClosed EXCEPT ![r] = TRUE]
    /\ UNCHANGED <<pc, timerVars, objectVars, adder, m_finished, m_hasTimeOut, callbackVars, sessionVars>>

\* The client lets go of a request, from a thread of its own or in a callback.
Release(x, r) ==
    /\ ClientThread(x) /\ "client" \in refs[r] /\ Started(r) /\ adder[r] = "none"
    /\ r \in Sessions => reset[r]["client"] = "none"
    /\ Drop(x, r, "client")
    /\ UNCHANGED <<pc, timerVars, adder, flagVars, callbackVars, sessionVars>>
-----------------------------------------------------------------------------
(* DoSyncStartRequest, on the thread of the request.                        *)

\* StartRequest returns, with whatever result; _CS is taken.
Finish(r) ==
    /\ pc[r] = "request" /\ (r \in Sessions => step[r] = "returned")
    /\ m_finished' = [m_finished EXCEPT ![r] = TRUE]
    /\ Go(r, IF m_hasTimeOut[r] THEN "reset" ELSE "result")
    /\ UNCHANGED <<timerVars, objectVars, adder, m_hasTimeOut, m_bClosed, callbackVars, sessionVars>>

\* Faulty form: the thread returns and leaves m_own as it is.
ResetOwnMissing(r) ==
    /\ pc[r] = "reset"
    /\ Go(r, "leave")
    /\ UNCHANGED <<timerVars, objectVars, adder, flagVars, callbackVars, sessionVars>>

\* Too late: the object lets go of itself, inside _CS.
ResetOwn(r) ==
    /\ pc[r] = "reset"
    /\ Drop(r, r, "own")
    /\ Go(r, "leave")
    /\ UNCHANGED <<timerVars, adder, flagVars, callbackVars, sessionVars>>

LeaveCS(r) ==
    /\ pc[r] = "leave" /\ Free(r)
    /\ Go(r, "done")
    /\ UNCHANGED <<timerVars, objectVars, adder, flagVars, callbackVars, sessionVars>>

\* Faulty form: m_own is reset before the result has a copy of it.
MakeResultResetFirst(r) ==
    /\ pc[r] = "result"
    /\ Drop(r, r, "own")
    /\ Go(r, "switched")
    /\ UNCHANGED <<timerVars, adder, flagVars, callbackVars, sessionVars>>

\* In time: the result takes the place of m_own and is delivered.
MakeResult(r) ==
    /\ pc[r] = "result"
    /\ refs' = [refs EXCEPT ![r] = (@ \ {"own"}) \cup {"thread"}]
    /\ Go(r, "switched")
    /\ UNCHANGED <<timerVars, deleter, adder, flagVars, callbackVars, sessionVars>>

RequestThread(r) == Finish(r) \/ ResetOwn(r) \/ LeaveCS(r) \/ MakeResult(r)
-----------------------------------------------------------------------------
(* The transfer of a request in Sessions.                                   *)

requestVars == <<timerVars, objectVars, adder, m_finished, m_hasTimeOut, callbackVars>>

StartRequest(r) ==
    /\ pc[r] = "request" /\ step[r] = "idle"
    /\ Move(r, IF m_bClosed[r] THEN "returned" ELSE "jump")
    /\ UNCHANGED <<pc, requestVars, m_bClosed, handleVars, resetVars, m_bHttpClosed, nJumpRetryCount>>

SessionRequest(r) ==
    /\ ~Undefined
    /\ Request(r)
    /\ UNCHANGED <<pc, requestVars, m_bClosed>>

\* CWebRequest::Close by user x.  m_bClosed is tested and set outside m_csLock, so
\* that two users may both go on to the session.
CloseTested(r, x) ==
    /\ reset[r][x] = "none" /\ ~m_bClosed[r]
    /\ x = "client" => "client" \in refs[r] /\ Started(r)
    /\ x = "timer" => pc["timer"] = "close" /\ item = r
    /\ x = "thread" => pc[r] = "close"
    /\ At(r, x, "set")
    /\ UNCHANGED <<pc, requestVars, m_bClosed, step, handleVars, dangling, m_bHttpClosed, nJumpRetryCount>>

CloseSet(r, x) ==
    /\ reset[r][x] = "set"
    /\ m_bClosed' = [m_bClosed EXCEPT ![r] = TRUE]
    /\ At(r, x, "lock")
    /\ UNCHANGED <<pc, requestVars, step, handleVars, dangling, m_bHttpClosed, nJumpRetryCount>>

CloseLocked(r, x) ==
    /\ reset[r][x] = "lock" /\ LockFree(r)
    /\ SessionClose(r, x)
    /\ UNCHANGED <<pc, requestVars, m_bClosed, step, handleVars, dangling, nJumpRetryCount>>

CloseResets(r, x) ==
    /\ ResetRequestHandle(r, x)
    /\ UNCHANGED <<pc, requestVars, m_bClosed>>

\* RemoveAllRequestHeader, and m_csLock is released.
CloseDone(r, x) ==
    /\ reset[r][x] = "end" /\ HoldsLock(r, x)
    /\ At(r, x, IF x = "client" THEN "none" ELSE "done")
    /\ UNCHANGED <<pc, requestVars, m_bClosed, step, handleVars, dangling, m_bHttpClosed, nJumpRetryCount>>

\* The thread may be reading the headers while they are removed: the behaviour of
\* the program is undefined, or nothing is the matter.
HeadersRace(r, x) ==
    /\ reset[r][x] = "end" /\ HoldsLock(r, x)
    /\ step[r] \in {"jump", "headers"} \/ (step[r] = "close" /\ reset[r]["thread"] = "end")
    /\ pc' = [y \in DOMAIN pc |-> "undefined"]
    /\ UNCHANGED <<requestVars, m_bClosed, sessionVars>>

\* The rest of a Close that has passed the test.
CWebRequestClose(r, x) ==
    /\ ~Undefined
    /\ CloseSet(r, x) \/ CloseLocked(r, x) \/ CloseResets(r, x) \/ CloseDone(r, x)
-----------------------------------------------------------------------------
(* ProcessTimeOut, on the timer thread.                                     *)

\* Faulty form: a request that has finished times out all the same.
ProcessTimeOutLate(r) ==
    /\ pc["timer"] = "execute" /\ item = r /\ ~InCS(r)
    /\ m_hasTimeOut' = [m_hasTimeOut EXCEPT ![r] = TRUE]
    /\ refs' = [refs EXCEPT ![r] = @ \cup {"timer"}]
    /\ Go("timer", "switched")
    /\ UNCHANGED <<timerVars, deleter, adder, m_finished, m_bClosed, callbackVars, sessionVars>>

ProcessTimeOut(r) ==
    /\ pc["timer"] = "execute" /\ item = r /\ ~InCS(r) /\ ~m_finished[r]
    /\ m_hasTimeOut' = [m_hasTimeOut EXCEPT ![r] = TRUE]
    /\ refs' = [refs EXCEPT ![r] = @ \cup {"timer"}]
    /\ Go("timer", "switched")
    /\ UNCHANGED <<timerVars, deleter, adder, m_finished, m_bClosed, callbackVars, sessionVars>>

ProcessTimeOutTooLate(r) ==
    /\ pc["timer"] = "execute" /\ item = r /\ ~InCS(r) /\ m_finished[r]
    /\ ItemDone
    /\ UNCHANGED <<objectVars, adder, flagVars, callbackVars, sessionVars>>
-----------------------------------------------------------------------------
(* ProcessThreadSwitched for request r on thread x, the timer's or its own. *)

Switched(x, r) ==
    /\ pc[x] = "switched" /\ Serves(x, r)
    /\ IF m_bClosed[r]
       THEN m_callback' = [m_callback EXCEPT ![r] = "freed"] /\ Go(x, "drop")
       ELSE UNCHANGED m_callback /\ Go(x, "delete")
    /\ UNCHANGED <<timerVars, objectVars, adder, flagVars, runs, sessionVars>>

SwitchedDeletes(x, r) ==
    /\ pc[x] = "delete" /\ Serves(x, r)
    /\ DeleteTimer(x, r)
    /\ runs' = [runs EXCEPT ![r] = @ + 1]
    /\ Go(x, "callback")
    /\ UNCHANGED <<objectVars, adder, flagVars, m_callback, sessionVars>>

\* The callback deletes itself when it has returned.
CallbackReturns(x, r) ==
    /\ pc[x] = "callback" /\ Serves(x, r) /\ Free(x)
    /\ m_callback' = [m_callback EXCEPT ![r] = "freed"]
    /\ Go(x, "close")
    /\ UNCHANGED <<timerVars, objectVars, adder, flagVars, runs, sessionVars>>

SwitchedCloses(x, r) ==
    /\ pc[x] = "close" /\ Serves(x, r) /\ r \notin Sessions
    /\ m_bClosed' = [m_bClosed EXCEPT ![r] = TRUE]
    /\ m_callback' = [m_callback EXCEPT ![r] = "none"]
    /\ Go(x, "drop")
    /\ UNCHANGED <<timerVars, objectVars, adder, m_finished, m_hasTimeOut, runs, sessionVars>>

\* Faulty form: the callback is forgotten, and the session left as it is.
SwitchedForgets(x, r) ==
    /\ pc[x] = "close" /\ Serves(x, r) /\ r \in Sessions
    /\ reset[r][Holder(x)] \in {"none", "done"}
    /\ At(r, Holder(x), "none")
    /\ m_callback' = [m_callback EXCEPT ![r] = "none"]
    /\ Go(x, "drop")
    /\ UNCHANGED <<timerVars, objectVars, adder, flagVars, runs,
                   step, handleVars, dangling, m_bHttpClosed, nJumpRetryCount>>

SwitchedClosed(x, r) ==
    /\ pc[x] = "close" /\ Serves(x, r) /\ r \in Sessions
    /\ reset[r][Holder(x)] = "done" \/ (m_bClosed[r] /\ reset[r][Holder(x)] = "none")
    /\ At(r, Holder(x), "none")
    /\ m_callback' = [m_callback EXCEPT ![r] = "none"]
    /\ Go(x, "drop")
    /\ UNCHANGED <<timerVars, objectVars, adder, flagVars, runs,
                   step, handleVars, dangling, m_bHttpClosed, nJumpRetryCount>>

\* The result goes out of scope, and with it its reference.
DropResult(x, r) ==
    /\ pc[x] = "drop" /\ Serves(x, r) /\ Holder(x) \in refs[r]
    /\ Drop(x, r, Holder(x))
    /\ UNCHANGED <<pc, timerVars, adder, flagVars, callbackVars, sessionVars>>

SwitchedReturns(x, r) ==
    /\ pc[x] = "drop" /\ Serves(x, r) /\ Holder(x) \notin refs[r] /\ Free(x)
    /\ IF x = "timer" THEN ItemDone ELSE Go(x, "done") /\ UNCHANGED timerVars
    /\ UNCHANGED <<objectVars, adder, flagVars, callbackVars, sessionVars>>

ProcessThreadSwitched(x, r) ==
    \/ Switched(x, r) \/ SwitchedDeletes(x, r) \/ CallbackReturns(x, r)
    \/ SwitchedCloses(x, r) \/ SwitchedClosed(x, r) \/ DropResult(x, r) \/ SwitchedReturns(x, r)
-----------------------------------------------------------------------------
Client(r) ==
    \/ AsyncRequestNoUrl(r) \/ AsyncRequestTimer(r) \/ Close(r)
    \/ \E x \in Threads : AsyncRequest(x, r) \/ Release(x, r)

Tick == TimerThread /\ UNCHANGED <<objectVars, adder, flagVars, callbackVars, sessionVars>>

TimeOut(r) == ProcessTimeOut(r) \/ ProcessTimeOutTooLate(r)

Next ==
    \/ Tick
    \/ \E r \in Requests :
        \/ Client(r) \/ RequestThread(r) \/ TimeOut(r) \/ Destructor(r)
        \/ \E x \in {r, "timer"} : ProcessThreadSwitched(x, r)
    \/ \E r \in Sessions :
        \/ StartRequest(r) \/ SessionRequest(r)
        \/ \E x \in Users : CloseTested(r, x) \/ CWebRequestClose(r, x) \/ HeadersRace(r, x)

Spec == Init /\ [][Next]_vars

(* The threads run, and the interval of a timer is over some day.  A callback
   returns, and a request that is closed does not stay in the network: one that
   is not may stay there for ever.  A thread that waits for the list gets it,
   for the timer thread sleeps between two walks without the lock.          *)
TimerSteps ==
    Tick \/ \E r \in Requests : TimeOut(r) \/ ProcessThreadSwitched("timer", r)

RequestSteps(r) ==
    \/ (r \in Sessions \/ m_bClosed[r]) /\ Finish(r)
    \/ ResetOwn(r) \/ LeaveCS(r) \/ MakeResult(r)
    \/ ProcessThreadSwitched(r, r)

Fairness ==
    /\ WF_vars(TimerSteps)
    /\ \A r \in Requests :
        /\ SF_vars(Tick /\ ItemExecuted /\ item' = r)
        /\ SF_vars(RequestSteps(r))
        /\ SF_vars(Destructor(r))
        /\ SF_vars(AsyncRequestTimer(r))
    /\ \A r \in Sessions :
        /\ WF_vars(StartRequest(r) \/ (Unblocked(r) /\ SessionRequest(r)))
        /\ \A x \in Users :
            /\ WF_vars(CWebRequestClose(r, x))
            /\ WF_vars(x # "client" /\ CloseTested(r, x))

FairSpec == Spec /\ Fairness
-----------------------------------------------------------------------------
\* The callback of a request is run at most once, and never after it has deleted
\* itself: the timer and the thread of the request race to run it
\* (HttpWebRequest.cpp:162-177, 264-283).
CallbackOnce ==
    /\ \A r \in Requests : runs[r] <= 1
    /\ \A r \in Requests, x \in Requests \cup {"timer"} :
            pc[x] \in {"delete", "callback"} /\ Serves(x, r) => m_callback[r] = "set"

\* A timer never outlives the object it is bound to, though it may be added after
\* the request is over (lines 83, 291).
NoTimerOfFreed == \A r \in Timers : deleter[r] # "freed"

\* ProcessTimeOut and ProcessThreadSwitched run on an object that is there, on
\* either thread, whatever the callback and the other threads let go of
\* (HttpWebRequest.cpp:251, 290): at worst its destructor waits for the timer.
AliveInCallback ==
    \A r \in Requests, x \in Requests \cup {"timer"} :
        Serves(x, r) =>
            /\ pc[x] = "execute" => deleter[r] # "freed"
            /\ pc[x] \in {"switched", "delete", "callback", "close"} => deleter[r] = "none"

\* A timer thread that waits with a timer in the list has been signalled.
TimersSeen == pc["timer"] = "wait" /\ m_calls # <<>> => m_event

\* A request with a timer is answered, or its callback dropped because it was
\* closed, even if the network never answers.
Answered ==
    \A r \in Requests : adder[r] # "none" ~> (m_callback[r] # "set" \/ Undefined)

\* A request that is over and that the client has let go of is deleted: no cycle
\* of references is left, and the destructor does not wait for ever for the list.
Collected ==
    \A r \in Requests :
        m_finished[r] /\ "client" \notin refs[r] ~> (deleter[r] = "freed" \/ Undefined)

\* When Request has returned, by whatever way, and no Close is under way, WinInet
\* has no handle left of the session: none is opened behind the back of a Close,
\* and none is forgotten by one of the returns that go round Close
\* (HttpClientSession.cpp:400-418, 454, 503).
NoHandleLeft ==
    \A r \in Sessions :
        step[r] = "returned" /\ reset[r] = [x \in Users |-> "none"] =>
            live[r] = 0 /\ handle[r] = [h \in Handles |-> "null"]

\* Once a Close is through, no request of the session can be on its way: the thread
\* may still hold the other two handles, but opens no request on them
\* (WebRequest.cpp:184-194, 275-280).
ClosedStaysClosed ==
    \A r \in Sessions :
        m_bClosed[r] /\ (\A x \in Users \ {"thread"} : reset[r][x] \in {"none", "done"}) =>
            handle[r]["request"] # "open"

\* Close ends a request wherever it is, though nothing ever comes from the network:
\* the loops of Response have no limit of their own (HttpClientSession.cpp:997-1010).
RequestReturns ==
    \A r \in Sessions : m_bClosed[r] ~> (step[r] \in {"idle", "returned"} \/ Undefined)

\* The request holds itself so that it is not deleted while it is under way
\* (HttpWebRequest.h:93).
AliveInRequest ==
    \A r \in Requests : pc[r] \in {"request", "reset", "leave", "result"} => deleter[r] # "freed"

\* Timers are not taken out of the list from under the walk (GlobalTimer.h:53).
WalkInRange == pc["timer"] = "visit" => visit <= Len(m_calls)
=============================================================================
