-------------------------- MODULE WholeRequestProofs --------------------------
(***************************************************************************)
(* A request followed call by call is a request seen as a whole, for any   *)
(* number of requests, sessions and addresses.                             *)
(***************************************************************************)
EXTENDS WholeRequest, HttpSessionProofs

\* Who is in CWebRequest::Close of the session is where Close may be called.
Closers(r) ==
    /\ reset[r]["client"] # "none" => "client" \in refs[r] /\ Started(r)
    /\ reset[r]["thread"] # "none" /\ step[r] = "returned" => pc[r] = "close"
    /\ reset[r]["timer"] # "none" => pc["timer"] = "close" /\ item = r

WInv == ~Undefined => \A r \in Sessions : Closers(r)
-----------------------------------------------------------------------------
\* Requests are neither the timer nor the client, and sessions are requests.
LEMMA SessionsAreRequests ==
    ASSUME NEW r \in Sessions
    PROVE  r \in Requests /\ r \notin {"timer", "client", "none", "freed"}
BY RequestAssumption, SessionAssumption

\* A user moves on in Close, and the others stay where they are.
LEMMA AtMoves ==
    ASSUME SessionTypeOK, NEW r \in Sessions, NEW x \in Users, NEW p, At(r, x, p),
           NEW q \in Sessions
    PROVE  \A y \in Users : reset'[q][y] = IF q = r /\ y = x THEN p ELSE reset[q][y]
BY DEF SessionTypeOK, At

\* The steps of the model that concern no session.
LEMMA ClosersOutside ==
    ASSUME IInv, SInv, ~Undefined, NEW q \in Sessions, Closers(q), NEW r \in Requests,
           Client(r) \/ RequestThread(r) \/ TimeOut(r) \/ Destructor(r)
    PROVE  Closers(q)'
<1>1. q \in Requests /\ q # "timer" /\ r # "timer"
  BY RequestAssumption, SessionAssumption
<1>2. RequestTypeOK /\ ThreadResets(q)
  BY DEF IInv, SInv, Sound
<1> USE <1>1, <1>2 DEF RequestTypeOK, Closers, Started, Go, sessionVars, resetVars
<1>3. ASSUME NEW x \in Threads, AsyncRequest(x, r) PROVE Closers(q)'
  BY <1>3 DEF AsyncRequest, timerVars, objectVars
<1>4. ASSUME NEW x \in Threads, Release(x, r) PROVE Closers(q)'
  BY <1>4 DEF Release, Drop, timerVars
<1>5. CASE AsyncRequestNoUrl(r) \/ AsyncRequestTimer(r) \/ Close(r)
  BY <1>5 DEF AsyncRequestNoUrl, AsyncRequestTimer, AddTimer, Close, timerVars, objectVars
<1>6. CASE Finish(r) \/ MakeResult(r)
  BY <1>6 DEF Finish, MakeResult, timerVars, objectVars
<1>7. CASE ResetOwn(r) \/ LeaveCS(r)
  BY <1>7 DEF ResetOwn, LeaveCS, Drop, timerVars, objectVars
<1>8. CASE TimeOut(r)
  <2>1. reset[q]["timer"] = "none" /\ UNCHANGED <<reset, step>>
    BY <1>8 DEF TimeOut, ProcessTimeOut, ProcessTimeOutTooLate
  <2>2. pc'[q] = pc[q]
    BY <1>8 DEF TimeOut, ProcessTimeOut, ProcessTimeOutTooLate, ItemDone
  <2>3. "client" \in refs[q] => "client" \in refs'[q]
    <3>1. CASE ProcessTimeOut(r)
      <4>1. refs' = [refs EXCEPT ![r] = refs[r] \cup {"timer"}]
        BY <3>1 DEF ProcessTimeOut
      <4>2. refs'[q] = refs[q] \/ refs'[q] = refs[q] \cup {"timer"}
        BY <4>1, Zenon DEF RequestTypeOK
      <4>3. QED
        BY <4>2
    <3>2. CASE ProcessTimeOutTooLate(r)
      BY <3>2 DEF ProcessTimeOutTooLate, objectVars
    <3>3. QED
      BY <1>8, <3>1, <3>2 DEF TimeOut
  <2>4. QED
    BY <2>1, <2>2, <2>3
<1>9. CASE Destructor(r)
  BY <1>9 DEF Destructor, DeleteTimer
<1>10. QED
  BY <1>3, <1>4, <1>5, <1>6, <1>7, <1>8, <1>9 DEF Client, RequestThread

\* Who delivers a result leaves Close before it goes on.
LEMMA ClosersServed ==
    ASSUME IInv, SInv, ~Undefined, NEW q \in Sessions, Closers(q), NEW r \in Requests,
           NEW x \in {r, "timer"}, ProcessThreadSwitched(x, r)
    PROVE  Closers(q)'
<1>1. q \in Requests /\ q # "timer" /\ r # "timer"
  BY RequestAssumption, SessionAssumption
<1>2. RequestTypeOK /\ SessionTypeOK
  BY DEF IInv, SInv
<1> USE <1>1, <1>2
        DEF RequestTypeOK, Closers, Started, Go, Serves, Holder, sessionVars, resetVars,
            timerVars, objectVars
<1>3. CASE Switched(x, r) \/ SwitchedDeletes(x, r) \/ CallbackReturns(x, r)
  BY <1>3 DEF Switched, SwitchedDeletes, DeleteTimer, CallbackReturns
<1>4. CASE SwitchedCloses(x, r)
  BY <1>4 DEF SwitchedCloses
<1>5. CASE SwitchedClosed(x, r)
  BY <1>5 DEF SwitchedClosed, At, SessionTypeOK, Users
<1>6. CASE DropResult(x, r) \/ SwitchedReturns(x, r)
  BY <1>6 DEF DropResult, SwitchedReturns, Drop, ItemDone
<1>7. QED
  BY <1>3, <1>4, <1>5, <1>6 DEF ProcessThreadSwitched

\* The walk of the timers meets nobody in Close.
LEMMA ClosersWalk ==
    ASSUME IInv, ~Undefined, ~Undefined', NEW q \in Sessions, Closers(q), Tick
    PROVE  Closers(q)'
<1>1. q \in Requests /\ q # "timer" /\ RequestTypeOK
  BY RequestAssumption, SessionAssumption DEF IInv
<1>2. UNCHANGED <<sessionVars, refs>> /\ ~ItemMissing
  BY DEF Tick, ItemMissing, Undefined, RequestTypeOK, objectVars, IInv
<1>3. QED
  BY <1>1, <1>2
     DEF RequestTypeOK, Closers, Started, Go, sessionVars, resetVars, Tick, TimerThread,
         CheckCalls, WaitForTimer, TickBegin, ItemWaits, ItemErased, ItemExecuted, TickEnd,
         Visiting, timerVars

\* The steps of a session.
LEMMA ClosersSession ==
    ASSUME IInv, SInv, ~Undefined, ~Undefined', NEW q \in Sessions, Closers(q),
           NEW r \in Sessions, NEW x \in Users,
           \/ StartRequest(r) \/ SessionRequest(r) \/ CloseTested(r, x)
           \/ CWebRequestClose(r, x) \/ HeadersRace(r, x)
    PROVE  Closers(q)'
<1>1. /\ q \in Requests /\ r \in Requests /\ q # "timer" /\ r # "timer"
      /\ RequestTypeOK /\ SessionTypeOK /\ ThreadResets(q) /\ ThreadResets(r)
  BY RequestAssumption, SessionAssumption DEF IInv, SInv, Sound
<1>2. ~HeadersRace(r, x)
  BY <1>1 DEF HeadersRace, Undefined, RequestTypeOK
<1> USE <1>1 DEF RequestTypeOK, Closers, Started, requestVars, timerVars, objectVars
<1>3. CASE StartRequest(r)
  BY <1>3 DEF StartRequest, Move, SessionTypeOK, ThreadResets, resetVars
<1>4. CASE SessionRequest(r)
  <2>1. UNCHANGED <<pc, refs, item>>
    BY <1>4 DEF SessionRequest
  <2>2. CASE reset'[q] = reset[q] /\ (step'[q] = "returned" => step[q] = "returned"
                                                             \/ reset[q]["thread"] = "none")
    BY <2>1, <2>2
  <2>3. CASE JumpRefused(r) \/ JumpTaken(r) \/ Connect(r) \/ AddHeaders(r)
    BY <2>2, <2>3 DEF JumpRefused, JumpTaken, Connect, AddHeaders, Move, ThreadResets,
                      SessionTypeOK, resetVars
  <2>4. CASE InternetOpen(r) \/ InternetConnect(r) \/ OpenRequest(r)
    BY <2>2, <2>4 DEF InternetOpen, InternetConnect, OpenRequest, OpenHandle, Move,
                      SessionTypeOK, resetVars
  <2>5. CASE Send(r) \/ Retry(r) \/ Respond(r) \/ Read(r)
    BY <2>2, <2>5 DEF Send, Retry, Respond, Read, Move, SessionTypeOK, resetVars
  <2>6. CASE Redirect(r) \/ Jump(r) \/ AutoClose(r) \/ AutoClosed(r)
    <3>1. PICK p : At(r, "thread", p)
      BY <2>6 DEF Redirect, Jump, AutoClose, AutoClosed, SessionClose
    <3>2. \A y \in Users \ {"thread"} : reset'[q][y] = reset[q][y]
      BY <3>1, AtMoves DEF Users
    <3>3. q # r => reset'[q] = reset[q] /\ step'[q] = step[q]
      BY <2>6, <3>1 DEF Redirect, Jump, AutoClose, AutoClosed, Move, At, SessionTypeOK
    <3>4. reset'[r]["thread"] # "none" => step'[r] # "returned"
      <4>1. reset'[r]["thread"] = p
        BY <3>1, AtMoves DEF Users
      <4>2. CASE AutoClosed(r)
        <5>1. At(r, "thread", "none")
          BY <4>2 DEF AutoClosed
        <5>2. reset'[r]["thread"] = "none"
          BY <5>1, AtMoves DEF Users
        <5>3. QED
          BY <5>2
      <4>3. CASE Redirect(r) \/ Jump(r) \/ AutoClose(r)
        BY <4>3 DEF Redirect, Jump, AutoClose, Move, SessionTypeOK
      <4>4. QED
        BY <2>6, <4>2, <4>3
    <3>5. QED
      BY <2>1, <3>2, <3>3, <3>4 DEF Users
  <2>7. QED
    BY <1>4, <2>3, <2>4, <2>5, <2>6 DEF SessionRequest, Request, Transfer
<1>5. ASSUME UNCHANGED <<pc, refs, item, step>>, NEW p, At(r, x, p),
             reset[r][x] = "none" => CloseTested(r, x)
      PROVE  Closers(q)'
  <2>1. \A y \in Users : reset'[q][y] = IF q = r /\ y = x THEN p ELSE reset[q][y]
    BY <1>5, AtMoves
  <2>2. CASE q = r /\ reset[r][x] = "none"
    BY <1>5, <2>1, <2>2 DEF CloseTested, Users
  <2>3. CASE q # r \/ reset[r][x] # "none"
    BY <1>5, <2>1, <2>3 DEF Users
  <2>4. QED
    BY <2>2, <2>3
<1>6. CASE CloseTested(r, x)
  BY <1>5, <1>6 DEF CloseTested
<1>7. CASE CWebRequestClose(r, x)
  <2>1. CASE CloseSet(r, x) \/ CloseLocked(r, x) \/ CloseDone(r, x)
    BY <1>5, <2>1 DEF CloseSet, CloseLocked, SessionClose, CloseDone, HoldsLock, Handles
  <2>2. CASE CloseResets(r, x)
    <3>1. reset[r][x] # "none" /\ UNCHANGED <<pc, refs, item, step>>
      BY <2>2 DEF CloseResets, ResetRequestHandle, CloseHandle, SkipHandle, ClearHandle, Handles
    <3>2. CASE CloseHandle(r, x)
      BY <3>1, <3>2 DEF CloseHandle
    <3>3. CASE SkipHandle(r, x) \/ ClearHandle(r, x)
      BY <1>5, <3>1, <3>3 DEF SkipHandle, ClearHandle
    <3>4. QED
      BY <2>2, <3>2, <3>3 DEF CloseResets, ResetRequestHandle
  <2>3. QED
    BY <1>7, <2>1, <2>2 DEF CWebRequestClose
<1>8. QED
  BY <1>2, <1>3, <1>4, <1>6, <1>7

\* Once the behaviour is undefined it stays so.
LEMMA UndefinedStays ==
    ASSUME IInv, Undefined, [Next]_vars
    PROVE  Undefined'
<1>1. /\ "timer" \notin Requests /\ Sessions \subseteq Requests /\ RequestTypeOK
      /\ \A y \in Requests \cup {"timer"} : pc[y] = "undefined"
  BY RequestAssumption, SessionAssumption DEF IInv, AllOrNone, Undefined
<1> USE <1>1 DEF Undefined
<1>2. CASE Tick
  BY <1>2 DEF Tick, TimerThread, CheckCalls, WaitForTimer, TickBegin, ItemWaits, ItemErased,
              ItemExecuted, TickEnd, ItemMissing, Visiting
<1>3. ASSUME NEW r \in Requests, Client(r) \/ RequestThread(r) \/ TimeOut(r) \/ Destructor(r)
      PROVE  Undefined'
  BY <1>3 DEF Client, AsyncRequest, AsyncRequestNoUrl, AsyncRequestTimer, Close, Release,
              RequestThread, Finish, ResetOwn, LeaveCS, MakeResult, TimeOut, ProcessTimeOut,
              ProcessTimeOutTooLate, Destructor
<1>4. ASSUME NEW r \in Requests, NEW x \in {r, "timer"}, ProcessThreadSwitched(x, r)
      PROVE  Undefined'
  BY <1>4 DEF ProcessThreadSwitched, Switched, SwitchedDeletes, CallbackReturns, SwitchedCloses,
              SwitchedClosed, DropResult, SwitchedReturns
<1>5. ASSUME NEW r \in Sessions, NEW x \in Users,
             \/ StartRequest(r) \/ SessionRequest(r) \/ CloseTested(r, x)
             \/ CWebRequestClose(r, x) \/ HeadersRace(r, x)
      PROVE  Undefined'
  <2>1. CASE StartRequest(r) \/ SessionRequest(r) \/ CloseTested(r, x) \/ CWebRequestClose(r, x)
    BY <2>1 DEF StartRequest, SessionRequest, CloseTested, CWebRequestClose, Undefined
  <2>2. CASE HeadersRace(r, x)
    BY <2>2 DEF HeadersRace, RequestTypeOK
  <2>3. QED
    BY <1>5, <2>1, <2>2
<1>6. CASE UNCHANGED vars
  BY <1>6 DEF vars
<1>7. Users # {}
  BY DEF Users
<1>8. QED
  BY <1>2, <1>3, <1>4, <1>5, <1>6, <1>7 DEF Next

\* Every step leaves those in Close where it may be called.
LEMMA ClosersKept ==
    ASSUME IInv, SInv, WInv, [Next]_vars
    PROVE  WInv'
<1> SUFFICES ASSUME ~Undefined', NEW q \in Sessions
             PROVE  Closers(q)'
  BY DEF WInv
<1>1. ~Undefined /\ Closers(q)
  BY UndefinedStays DEF WInv
<1>2. CASE Tick
  BY <1>1, <1>2, ClosersWalk
<1>3. ASSUME NEW r \in Requests, Client(r) \/ RequestThread(r) \/ TimeOut(r) \/ Destructor(r)
      PROVE  Closers(q)'
  BY <1>1, <1>3, ClosersOutside
<1>4. ASSUME NEW r \in Requests, NEW x \in {r, "timer"}, ProcessThreadSwitched(x, r)
      PROVE  Closers(q)'
  BY <1>1, <1>4, ClosersServed
<1>5. ASSUME NEW r \in Sessions, NEW x \in Users,
             \/ StartRequest(r) \/ SessionRequest(r) \/ CloseTested(r, x)
             \/ CWebRequestClose(r, x) \/ HeadersRace(r, x)
      PROVE  Closers(q)'
  BY <1>1, <1>5, ClosersSession
<1>6. CASE UNCHANGED vars
  BY <1>1, <1>6 DEF vars, Closers, Started, sessionVars, resetVars, objectVars, timerVars
<1>7. Users # {}
  BY DEF Users
<1>8. QED
  BY <1>2, <1>3, <1>4, <1>5, <1>6, <1>7 DEF Next
-----------------------------------------------------------------------------
(* The mapping.                                                             *)

\* Only a thread in Close may count as having left.
LEMMA Where ==
    ASSUME NEW y \in Requests \cup {"timer"}
    PROVE  wholePc[y] = pc[y] \/ (pc[y] = "close" /\ wholePc[y] = "drop")
BY DEF wholePc, Left

\* Nobody leaves when nobody moves.
LEMMA StaysLeft ==
    ASSUME UNCHANGED <<pc, item, reset>>
    PROVE  /\ UNCHANGED wholePc
           /\ \A x, r : Left(x, r)' <=> Left(x, r)
<1>1. \A x, r : Left(x, r)' <=> Left(x, r)
  BY DEF Left, Serves, Holder
<1>2. QED
  BY <1>1 DEF wholePc

\* A thread that is not in Close goes on, and not past a Close it has not been in.
LEMMA GoesOn ==
    ASSUME RequestTypeOK, NEW y \in Requests \cup {"timer"}, NEW p, Go(y, p), UNCHANGED reset,
           pc[y] # "close", y = "timer" \/ UNCHANGED item,
           p = "close" => \A r \in Sessions :
                            Serves(y, r)' => reset[r][Holder(y)] \in {"none", "set"}
    PROVE  /\ wholePc' = [wholePc EXCEPT ![y] = p]
           /\ \A x \in Requests \cup {"timer"}, r \in Requests : Left(x, r)' <=> Left(x, r)
<1>1. \A x \in Requests \cup {"timer"} : pc'[x] = IF x = y THEN p ELSE pc[x]
  BY DEF Go, RequestTypeOK
<1>2. ASSUME NEW x \in Requests \cup {"timer"}, NEW r \in Requests
      PROVE  Left(x, r)' <=> Left(x, r)
  <2>1. CASE x = y
    BY <1>1, <2>1 DEF Left
  <2>2. CASE x # y
    <3>1. Serves(x, r)' <=> Serves(x, r)
      BY <2>2 DEF Serves
    <3>2. QED
      BY <1>1, <2>2, <3>1 DEF Left
  <2>3. QED
    BY <2>1, <2>2
<1>3. \A r \in Sessions : ~Left(y, r) /\ ~Left(y, r)'
  BY <1>2, SessionAssumption DEF Left
<1>4. ASSUME NEW x \in Requests \cup {"timer"}
      PROVE  wholePc'[x] = IF x = y THEN p ELSE wholePc[x]
  BY <1>1, <1>2, <1>3, SessionAssumption DEF wholePc
<1>5. wholePc' = [wholePc EXCEPT ![y] = p]
  BY <1>4 DEF wholePc
<1>6. QED
  BY <1>2, <1>5

\* The callback is left alone.
LEMMA CallbackStays ==
    ASSUME UNCHANGED m_callback,
           \A x \in Requests \cup {"timer"}, r \in Requests : Left(x, r)' <=> Left(x, r)
    PROVE  UNCHANGED wholeCallback
BY DEF wholeCallback

\* The callback of a request that nobody has left is set, deleted or forgotten.
LEMMA CallbackMoves ==
    ASSUME RequestTypeOK, NEW r \in Requests, NEW c, m_callback' = [m_callback EXCEPT ![r] = c],
           \A x \in Requests \cup {"timer"}, q \in Requests : Left(x, q)' <=> Left(x, q),
           \A x \in {r, "timer"} : ~Left(x, r)
    PROVE  wholeCallback' = [wholeCallback EXCEPT ![r] = c]
<1>1. \A q \in Requests : m_callback'[q] = IF q = r THEN c ELSE m_callback[q]
  BY DEF RequestTypeOK
<1>2. ASSUME NEW q \in Requests
      PROVE  wholeCallback'[q] = IF q = r THEN c ELSE wholeCallback[q]
  <2>1. CASE q = r
    BY <1>1, <2>1 DEF wholeCallback
  <2>2. CASE q # r
    BY <1>1, <2>2 DEF wholeCallback
  <2>3. QED
    BY <2>1, <2>2
<1>3. QED
  BY <1>2 DEF wholeCallback

\* The list of timers is the same list.
LEMMA SameList ==
    ASSUME NEW x, NEW r \in Requests
    PROVE  /\ Whole!Ticking <=> Ticking
           /\ AddTimer(x, r) => Whole!AddTimer(x, r)
           /\ DeleteTimer(x, r) => Whole!DeleteTimer(x, r)
<1>1. Whole!Ticking <=> Ticking
  BY Where DEF Whole!Ticking, Ticking, Whole!Outside, Outside
<1>2. AddTimer(x, r) => Whole!AddTimer(x, r)
  BY <1>1 DEF AddTimer, Whole!AddTimer, CanLock, Whole!CanLock
<1>3. DeleteTimer(x, r) => Whole!DeleteTimer(x, r)
  BY <1>1 DEF DeleteTimer, Whole!DeleteTimer, CanLock, Whole!CanLock, Timers, Whole!Timers,
              Without, Whole!Without
<1>4. QED
  BY <1>1, <1>2, <1>3
-----------------------------------------------------------------------------
(* Every step is a step of the whole, or none.                              *)

\* The client starts a request, whose result nobody delivers yet.
LEMMA AsyncRequestImplements ==
    ASSUME IInv, ~Undefined, NEW r \in Requests, NEW x \in Threads, AsyncRequest(x, r)
    PROVE  Whole!AsyncRequest(x, r)
<1>1. r # "timer" /\ RequestTypeOK /\ pc[r] = "idle"
  BY RequestAssumption DEF IInv, AsyncRequest
<1>2. UNCHANGED <<item, reset>> /\ Go(r, "request")
  BY DEF AsyncRequest, timerVars, sessionVars, resetVars
<1>3. \A y \in {r, "timer"} : ~Left(y, r)
  BY <1>1 DEF IInv, Defined, FiredOnce, Left, Serves, Switching
<1>4. /\ wholePc' = [wholePc EXCEPT ![r] = "request"]
      /\ \A y \in Requests \cup {"timer"}, q \in Requests : Left(y, q)' <=> Left(y, q)
  BY <1>1, <1>2, GoesOn
<1>5. wholeCallback' = [wholeCallback EXCEPT ![r] = "set"]
  BY <1>1, <1>3, <1>4, CallbackMoves DEF AsyncRequest
<1>6. Whole!ClientThread(x) /\ wholePc[r] = "idle"
  BY <1>1, Where DEF AsyncRequest, ClientThread, Whole!ClientThread, Free, Whole!Free
<1>7. QED
  BY <1>4, <1>5, <1>6
     DEF AsyncRequest, Whole!AsyncRequest, Whole!Go, timerVars, Whole!timerVars,
         objectVars, Whole!objectVars, flagVars, Whole!flagVars, Whole!sessionVars,
         Whole!handleVars, Whole!resetVars, NoSessions

\* The other steps of the client move no thread.
LEMMA ClientImplements ==
    ASSUME IInv, ~Undefined, NEW r \in Requests, Client(r)
    PROVE  Whole!Client(r)
<1>1. r # "timer" /\ RequestTypeOK
  BY RequestAssumption DEF IInv
<1> USE DEF timerVars, Whole!timerVars, objectVars, Whole!objectVars, flagVars, Whole!flagVars,
            Whole!sessionVars, Whole!handleVars, Whole!resetVars, NoSessions
<1>2. ASSUME NEW x \in Threads, Release(x, r)
      PROVE  Whole!Release(x, r)
  <2>1. UNCHANGED <<wholePc, wholeCallback>>
    BY <1>2, StaysLeft, CallbackStays DEF Release, callbackVars, sessionVars, resetVars
  <2>2. Whole!ClientThread(x) /\ Whole!Started(r)
    BY <1>1, <1>2, Where
       DEF Release, ClientThread, Whole!ClientThread, Free, Whole!Free, Started, Whole!Started
  <2>3. QED
    BY <1>2, <2>1, <2>2
       DEF Release, Whole!Release, Drop, Whole!Drop, callbackVars, Whole!callbackVars
<1>3. ASSUME AsyncRequestTimer(r)
      PROVE  Whole!AsyncRequestTimer(r)
  <2>1. UNCHANGED <<wholePc, wholeCallback>>
    BY <1>3, StaysLeft, CallbackStays
       DEF AsyncRequestTimer, AddTimer, callbackVars, sessionVars, resetVars
  <2>2. ~Whole!Undefined
    BY Where DEF Undefined, Whole!Undefined
  <2>3. Whole!AddTimer(adder[r], r)
    BY <1>3, SameList DEF AsyncRequestTimer
  <2>4. QED
    BY <1>3, <2>1, <2>2, <2>3
       DEF AsyncRequestTimer, Whole!AsyncRequestTimer, callbackVars, Whole!callbackVars
<1>4. ASSUME AsyncRequestNoUrl(r)
      PROVE  Whole!AsyncRequestNoUrl(r)
  <2>1. /\ wholePc' = [wholePc EXCEPT ![r] = "done"]
        /\ \A y \in Requests \cup {"timer"}, q \in Requests : Left(y, q)' <=> Left(y, q)
    BY <1>1, <1>4, GoesOn DEF AsyncRequestNoUrl, sessionVars, resetVars
  <2>2. UNCHANGED wholeCallback
    BY <1>4, <2>1, CallbackStays DEF AsyncRequestNoUrl
  <2>3. wholePc[r] = "idle"
    BY <1>4, Where DEF AsyncRequestNoUrl
  <2>4. QED
    BY <1>4, <2>1, <2>2, <2>3 DEF AsyncRequestNoUrl, Whole!AsyncRequestNoUrl, Whole!Go
<1>5. ASSUME Close(r)
      PROVE  Whole!Close(r)
  <2>1. UNCHANGED <<wholePc, wholeCallback>>
    BY <1>5, StaysLeft, CallbackStays DEF Close, callbackVars, sessionVars, resetVars
  <2>2. Whole!Started(r)
    BY <1>1, <1>5, Where DEF Close, Started, Whole!Started
  <2>3. QED
    BY <1>5, <2>1, <2>2 DEF Close, Whole!Close, callbackVars, Whole!callbackVars
<1>6. QED
  BY <1>2, <1>3, <1>4, <1>5, AsyncRequestImplements
     DEF Client, Whole!Client, Threads, Whole!Threads

\* The thread of a request: whether its session has returned is of no concern.
LEMMA RequestThreadImplements ==
    ASSUME IInv, ~Undefined, NEW r \in Requests, RequestThread(r)
    PROVE  Whole!RequestThread(r)
<1>1. PICK p : Go(r, p) /\ p # "close"
  BY DEF RequestThread, Finish, ResetOwn, LeaveCS, MakeResult
<1>2. r # "timer" /\ RequestTypeOK /\ pc[r] # "close"
  BY RequestAssumption DEF IInv, RequestThread, Finish, ResetOwn, LeaveCS, MakeResult
<1>3. UNCHANGED <<item, reset, m_callback>>
  BY DEF RequestThread, Finish, ResetOwn, LeaveCS, MakeResult, timerVars, sessionVars,
         resetVars, callbackVars
<1>4. /\ wholePc' = [wholePc EXCEPT ![r] = p]
      /\ \A y \in Requests \cup {"timer"}, q \in Requests : Left(y, q)' <=> Left(y, q)
  BY <1>1, <1>2, <1>3, GoesOn
<1>5. UNCHANGED wholeCallback
  BY <1>3, <1>4, CallbackStays
<1>6. wholePc[r] = pc[r]
  BY <1>2, Where
<1>7. \A q : Go(r, q) => q = p
  BY <1>1, <1>2 DEF Go, RequestTypeOK
<1>8. \A q : Go(r, q) => Whole!Go(r, q)
  BY <1>4, <1>7 DEF Whole!Go
<1> USE <1>5, <1>6, <1>8
        DEF timerVars, Whole!timerVars, objectVars, Whole!objectVars, flagVars, Whole!flagVars,
            Whole!sessionVars, Whole!handleVars, Whole!resetVars, NoSessions, callbackVars,
            Whole!callbackVars
<1>9. Finish(r) => Whole!Finish(r)
  BY DEF Finish, Whole!Finish
<1>10. ResetOwn(r) => Whole!ResetOwn(r)
  BY DEF ResetOwn, Whole!ResetOwn, Drop, Whole!Drop
<1>11. LeaveCS(r) => Whole!LeaveCS(r)
  BY DEF LeaveCS, Whole!LeaveCS, Free, Whole!Free
<1>12. MakeResult(r) => Whole!MakeResult(r)
  BY DEF MakeResult, Whole!MakeResult
<1>13. QED
  BY <1>9, <1>10, <1>11, <1>12 DEF RequestThread, Whole!RequestThread

\* The timer thread executes a timer, whoever is in Close of its session.
LEMMA TimeOutImplements ==
    ASSUME IInv, ~Undefined, NEW r \in Requests, TimeOut(r)
    PROVE  Whole!TimeOut(r)
<1>1. PICK p : Go("timer", p) /\ p # "close"
  BY DEF TimeOut, ProcessTimeOut, ProcessTimeOutTooLate, ItemDone
<1>2. pc["timer"] = "execute" /\ RequestTypeOK /\ UNCHANGED <<reset, m_callback>>
  BY DEF IInv, TimeOut, ProcessTimeOut, ProcessTimeOutTooLate, sessionVars, resetVars,
         callbackVars
<1>3. /\ wholePc' = [wholePc EXCEPT !["timer"] = p]
      /\ \A y \in Requests \cup {"timer"}, q \in Requests : Left(y, q)' <=> Left(y, q)
  BY <1>1, <1>2, GoesOn
<1>4. UNCHANGED wholeCallback
  BY <1>2, <1>3, CallbackStays
<1>5. wholePc["timer"] = "execute" /\ (~InCS(r) => ~Whole!InCS(r))
  BY <1>2, Where DEF InCS, Whole!InCS
<1>6. \A q : Go("timer", q) => q = p
  BY <1>1, <1>2 DEF Go, RequestTypeOK
<1>7. \A q : Go("timer", q) => Whole!Go("timer", q)
  BY <1>3, <1>6 DEF Whole!Go
<1> USE <1>4, <1>5, <1>7
        DEF timerVars, Whole!timerVars, objectVars, Whole!objectVars, flagVars, Whole!flagVars,
            Whole!sessionVars, Whole!handleVars, Whole!resetVars, NoSessions, callbackVars,
            Whole!callbackVars
<1>8. ProcessTimeOut(r) => Whole!ProcessTimeOut(r)
  BY DEF ProcessTimeOut, Whole!ProcessTimeOut
<1>9. ProcessTimeOutTooLate(r) => Whole!ProcessTimeOutTooLate(r)
  BY DEF ProcessTimeOutTooLate, Whole!ProcessTimeOutTooLate, ItemDone, Whole!ItemDone
<1>10. QED
  BY <1>8, <1>9 DEF TimeOut, Whole!TimeOut

\* The destructor waits for the same lock.
LEMMA DestructorImplements ==
    ASSUME ~Undefined, NEW r \in Requests, Destructor(r)
    PROVE  Whole!Destructor(r)
<1>1. UNCHANGED <<wholePc, wholeCallback>>
  BY StaysLeft, CallbackStays DEF Destructor, DeleteTimer, callbackVars, sessionVars, resetVars
<1>2. ~Whole!Undefined /\ Whole!DeleteTimer(deleter[r], r)
  BY Where, SameList DEF Undefined, Whole!Undefined, Destructor
<1>3. QED
  BY <1>1, <1>2
     DEF Destructor, Whole!Destructor, Threads, Whole!Threads, flagVars, Whole!flagVars,
         callbackVars, Whole!callbackVars, Whole!sessionVars, Whole!handleVars,
         Whole!resetVars, NoSessions

\* The walk of the timers is the same walk.
LEMMA TickImplements ==
    ASSUME IInv, ~Undefined, ~Undefined', Tick
    PROVE  Whole!Tick
<1>1. RequestTypeOK /\ UNCHANGED <<reset, m_callback>> /\ ~ItemMissing
  BY DEF IInv, Tick, ItemMissing, Undefined, RequestTypeOK, sessionVars, resetVars, callbackVars
<1>2. pc["timer"] # "close"
  BY DEF Tick, TimerThread, CheckCalls, WaitForTimer, TickBegin, ItemWaits, ItemErased,
         ItemExecuted, TickEnd, ItemMissing, Visiting
<1>3. wholePc["timer"] = pc["timer"]
  BY <1>2, Where
<1>4. ASSUME NEW p, p # "close", Go("timer", p)
      PROVE  Whole!Go("timer", p) /\ UNCHANGED wholeCallback
  <2>1. /\ wholePc' = [wholePc EXCEPT !["timer"] = p]
        /\ \A y \in Requests \cup {"timer"}, q \in Requests : Left(y, q)' <=> Left(y, q)
    BY <1>1, <1>2, <1>4, GoesOn
  <2>2. QED
    BY <1>1, <2>1, CallbackStays DEF Whole!Go
<1>5. UNCHANGED <<pc, item>> => UNCHANGED <<wholePc, wholeCallback>>
  BY <1>1, StaysLeft, CallbackStays
<1>6. TimerThread => Whole!TimerThread
  <2> USE <1>3, <1>4 DEF timerVars, Whole!timerVars
  <2>1. CheckCalls => Whole!CheckCalls
    BY DEF CheckCalls, Whole!CheckCalls
  <2>2. WaitForTimer => Whole!WaitForTimer
    BY DEF WaitForTimer, Whole!WaitForTimer
  <2>3. TickBegin => Whole!TickBegin
    BY DEF TickBegin, Whole!TickBegin
  <2>4. ItemWaits => Whole!ItemWaits
    BY <1>5 DEF ItemWaits, Whole!ItemWaits, Visiting, Whole!Visiting
  <2>5. ItemErased => Whole!ItemErased
    BY <1>5 DEF ItemErased, Whole!ItemErased, Visiting, Whole!Visiting, Without, Whole!Without
  <2>6. ItemExecuted => Whole!ItemExecuted
    BY DEF ItemExecuted, Whole!ItemExecuted, Visiting, Whole!Visiting
  <2>7. TickEnd => Whole!TickEnd
    BY DEF TickEnd, Whole!TickEnd
  <2>8. QED
    BY <1>1, <2>1, <2>2, <2>3, <2>4, <2>5, <2>6, <2>7 DEF TimerThread, Whole!TimerThread
<1>7. UNCHANGED wholeCallback
  <2>1. UNCHANGED <<pc, item>> \/ \E p : p # "close" /\ Go("timer", p)
    BY <1>1 DEF Tick, TimerThread, CheckCalls, WaitForTimer, TickBegin, ItemWaits, ItemErased,
                ItemExecuted, TickEnd
  <2>2. QED
    BY <1>4, <1>5, <2>1
<1>8. QED
  BY <1>6, <1>7
     DEF Tick, Whole!Tick, objectVars, Whole!objectVars, flagVars, Whole!flagVars,
         callbackVars, Whole!callbackVars, Whole!sessionVars, Whole!handleVars,
         Whole!resetVars, NoSessions

\* A thread leaves Close at the end of the callback of r, which is forgotten.
LEMMA Leaves ==
    ASSUME RequestTypeOK, NEW r \in Requests, NEW y \in {r, "timer"}, Serves(y, r),
           pc[y] = "close", Go(y, "drop"), UNCHANGED item,
           m_callback' = [m_callback EXCEPT ![r] = "none"],
           \A q \in Sessions, h \in {"thread", "timer"} :
                q # r \/ h # Holder(y) => reset'[q][h] = reset[q][h]
    PROVE  /\ wholePc' = [wholePc EXCEPT ![y] = "drop"]
           /\ wholeCallback' = [wholeCallback EXCEPT ![r] = "none"]
<1>1. r # "timer" /\ "timer" \notin Requests
  BY RequestAssumption
<1>2. \A x \in Requests \cup {"timer"} : pc'[x] = IF x = y THEN "drop" ELSE pc[x]
  BY DEF Go, RequestTypeOK
<1>3. \A q \in Requests : m_callback'[q] = IF q = r THEN "none" ELSE m_callback[q]
  BY DEF RequestTypeOK
<1>4. \A q \in Sessions : (q # r => ~Left(y, q)) /\ ~Left(y, q)'
  <2>1. \A q \in Sessions : Serves(y, q) => q = r
    BY <1>1, SessionAssumption DEF Serves
  <2>2. pc'[y] = "drop"
    BY <1>2
  <2>3. QED
    BY <2>1, <2>2 DEF Left
<1>5. ASSUME NEW x \in Requests \cup {"timer"}, x # y, NEW q \in Sessions
      PROVE  Left(x, q)' <=> Left(x, q)
  <2>1. Serves(x, q)' <=> Serves(x, q)
    BY DEF Serves
  <2>2. Serves(x, q) => q # r \/ Holder(x) # Holder(y)
    BY <1>1, <1>5 DEF Serves, Holder
  <2>3. Holder(x) \in {"thread", "timer"}
    BY DEF Holder
  <2>4. Serves(x, q) => reset'[q][Holder(x)] = reset[q][Holder(x)]
    BY <2>2, <2>3
  <2>5. QED
    BY <1>2, <1>5, <2>1, <2>4 DEF Left
<1>6. wholePc' = [wholePc EXCEPT ![y] = "drop"]
  <2>1. \A x \in Requests \cup {"timer"} : wholePc'[x] = IF x = y THEN "drop" ELSE wholePc[x]
    BY <1>2, <1>4, <1>5 DEF wholePc
  <2>2. QED
    BY <2>1 DEF wholePc
<1>7. wholeCallback' = [wholeCallback EXCEPT ![r] = "none"]
  <2>1. ASSUME NEW q \in Requests
        PROVE  wholeCallback'[q] = IF q = r THEN "none" ELSE wholeCallback[q]
    <3>1. CASE q = r
      BY <1>3, <3>1 DEF wholeCallback
    <3>2. CASE q # r
      <4>1. \A x \in {q, "timer"} : Left(x, q)' <=> Left(x, q)
        <5>1. CASE q \in Sessions
          BY <1>4, <1>5, <3>2, <5>1
        <5>2. CASE q \notin Sessions
          BY <5>2 DEF Left
        <5>3. QED
          BY <5>1, <5>2
      <4>2. QED
        BY <1>3, <3>2, <4>1 DEF wholeCallback
    <3>3. QED
      BY <3>1, <3>2
  <2>2. QED
    BY <2>1 DEF wholeCallback
<1>8. QED
  BY <1>6, <1>7

\* The thread that delivers a result: its Close has been one step, or is none.
LEMMA ServedImplements ==
    ASSUME IInv, SInv, WInv, ~Undefined, NEW r \in Requests, NEW x \in {r, "timer"},
           ProcessThreadSwitched(x, r)
    PROVE  Whole!ProcessThreadSwitched(x, r) \/ UNCHANGED Whole!vars
<1>1. /\ RequestTypeOK /\ SessionTypeOK /\ r # "timer" /\ Serves(x, r) /\ Whole!Serves(x, r)
      /\ pc[x] \in Switching /\ x \in Requests \cup {"timer"}
  BY RequestAssumption
     DEF IInv, SInv, ProcessThreadSwitched, Switched, SwitchedDeletes, CallbackReturns,
         SwitchedCloses, SwitchedClosed, DropResult, SwitchedReturns, Switching, Serves,
         Whole!Serves
<1>2. \A y \in {r, "timer"} : y # x => ~Left(y, r)
  <2>1. Alone(x, r)
    BY <1>1, Exclusive DEF IInv
  <2>2. QED
    BY <1>1, <2>1 DEF Alone, Left, Serves, Switching
<1>3. \A q \in Sessions : Serves(x, q) => q = r
  BY <1>1, RequestAssumption, SessionAssumption DEF Serves
<1> USE DEF objectVars, Whole!objectVars, flagVars, Whole!flagVars,
            Whole!sessionVars, Whole!handleVars, Whole!resetVars, NoSessions
<1>4. ASSUME Switched(x, r)
      PROVE  Whole!Switched(x, r)
  <2>1. PICK p : Go(x, p) /\ p \in {"drop", "delete"}
    BY <1>4 DEF Switched
  <2>2. /\ wholePc' = [wholePc EXCEPT ![x] = p]
        /\ \A y \in Requests \cup {"timer"}, q \in Requests : Left(y, q)' <=> Left(y, q)
    BY <1>1, <1>4, <2>1, GoesOn DEF Switched, timerVars, sessionVars, resetVars
  <2>3. \A q : Go(x, q) => Whole!Go(x, q)
    BY <1>1, <2>1, <2>2 DEF Go, Whole!Go, RequestTypeOK
  <2>4. \A y \in {r, "timer"} : ~Left(y, r)
    BY <1>2, <1>4 DEF Left, Switched
  <2>5. \A c : m_callback' = [m_callback EXCEPT ![r] = c] =>
            wholeCallback' = [wholeCallback EXCEPT ![r] = c]
    BY <1>1, <2>2, <2>4, CallbackMoves
  <2>6. UNCHANGED m_callback => UNCHANGED wholeCallback
    BY <2>2, CallbackStays
  <2>7. wholePc[x] = "switched"
    BY <1>1, <1>4, Where DEF Switched
  <2>8. QED
    BY <1>1, <1>4, <2>3, <2>5, <2>6, <2>7
       DEF Switched, Whole!Switched, timerVars, Whole!timerVars
<1>5. ASSUME SwitchedDeletes(x, r)
      PROVE  Whole!SwitchedDeletes(x, r)
  <2>1. /\ wholePc' = [wholePc EXCEPT ![x] = "callback"]
        /\ \A y \in Requests \cup {"timer"}, q \in Requests : Left(y, q)' <=> Left(y, q)
    BY <1>1, <1>5, GoesOn DEF SwitchedDeletes, DeleteTimer, sessionVars, resetVars
  <2>2. UNCHANGED wholeCallback
    BY <1>5, <2>1, CallbackStays DEF SwitchedDeletes
  <2>3. wholePc[x] = "delete" /\ Whole!DeleteTimer(x, r)
    BY <1>1, <1>5, Where, SameList DEF SwitchedDeletes
  <2>4. QED
    BY <1>1, <1>5, <2>1, <2>2, <2>3 DEF SwitchedDeletes, Whole!SwitchedDeletes, Whole!Go
<1>6. ASSUME CallbackReturns(x, r)
      PROVE  Whole!CallbackReturns(x, r)
  <2>1. \A q \in Sessions : Serves(x, q)' => reset[q][Holder(x)] \in {"none", "set"}
    BY <1>1, <1>6, SessionAssumption, RequestAssumption
       DEF CallbackReturns, timerVars, Serves, Holder, WInv, Closers, SInv, Sound, Over
  <2>2. /\ wholePc' = [wholePc EXCEPT ![x] = "close"]
        /\ \A y \in Requests \cup {"timer"}, q \in Requests : Left(y, q)' <=> Left(y, q)
    BY <1>1, <1>6, <2>1, GoesOn DEF CallbackReturns, timerVars, sessionVars, resetVars
  <2>3. \A y \in {r, "timer"} : ~Left(y, r)
    BY <1>2, <1>6 DEF Left, CallbackReturns
  <2>4. wholeCallback' = [wholeCallback EXCEPT ![r] = "freed"]
    BY <1>1, <1>6, <2>2, <2>3, CallbackMoves DEF CallbackReturns
  <2>5. wholePc[x] = "callback"
    BY <1>1, <1>6, Where DEF CallbackReturns
  <2>6. QED
    BY <1>1, <1>6, <2>2, <2>4, <2>5
       DEF CallbackReturns, Whole!CallbackReturns, Whole!Go, Free, Whole!Free, timerVars,
           Whole!timerVars
<1>7. ASSUME SwitchedCloses(x, r)
      PROVE  Whole!SwitchedCloses(x, r)
  <2>1. /\ wholePc' = [wholePc EXCEPT ![x] = "drop"]
        /\ wholeCallback' = [wholeCallback EXCEPT ![r] = "none"]
    BY <1>1, <1>7, Leaves DEF SwitchedCloses, timerVars, sessionVars, resetVars
  <2>2. wholePc[x] = "close"
    BY <1>1, <1>3, <1>7 DEF wholePc, Left, SwitchedCloses
  <2>3. QED
    BY <1>1, <1>7, <2>1, <2>2
       DEF SwitchedCloses, Whole!SwitchedCloses, Whole!Go, timerVars, Whole!timerVars
<1>8. ASSUME SwitchedClosed(x, r)
      PROVE  Whole!SwitchedCloses(x, r) \/ UNCHANGED Whole!vars
  <2>1. r \in Sessions /\ Holder(x) \in Users /\ At(r, Holder(x), "none") /\ UNCHANGED item
    BY <1>8 DEF SwitchedClosed, Holder, Users, timerVars
  <2>2. \A q \in Sessions, h \in {"thread", "timer"} :
            q # r \/ h # Holder(x) => reset'[q][h] = reset[q][h]
    BY <1>1, <2>1, AtMoves DEF Users
  <2>3. /\ wholePc' = [wholePc EXCEPT ![x] = "drop"]
        /\ wholeCallback' = [wholeCallback EXCEPT ![r] = "none"]
    BY <1>1, <1>8, <2>1, <2>2, Leaves DEF SwitchedClosed
  <2>4. CASE reset[r][Holder(x)] = "none"
    <3>1. m_bClosed' = [m_bClosed EXCEPT ![r] = TRUE]
      <4>1. m_bClosed[r] /\ UNCHANGED m_bClosed
        BY <1>8, <2>4 DEF SwitchedClosed
      <4>2. QED
        BY <1>1, <4>1 DEF RequestTypeOK
    <3>2. wholePc[x] = "close"
      BY <1>1, <1>3, <1>8, <2>4 DEF wholePc, Left, SwitchedClosed
    <3>3. QED
      BY <1>1, <1>8, <2>3, <3>1, <3>2
         DEF SwitchedClosed, Whole!SwitchedCloses, Whole!Go, timerVars, Whole!timerVars
  <2>5. CASE reset[r][Holder(x)] # "none"
    <3>1. Left(x, r)
      BY <1>1, <1>8, <2>1, <2>5 DEF Left, SwitchedClosed
    <3>2. wholePc[x] = "drop" /\ wholeCallback[r] = "none"
      BY <1>1, <2>1, <3>1 DEF wholePc, wholeCallback
    <3>3. UNCHANGED <<wholePc, wholeCallback>>
      <4>1. /\ wholePc = [y \in Requests \cup {"timer"} |-> wholePc[y]]
            /\ wholeCallback = [q \in Requests |-> wholeCallback[q]]
        BY DEF wholePc, wholeCallback
      <4>2. QED
        BY <2>3, <3>2, <4>1
    <3>4. QED
      BY <1>8, <3>3
         DEF SwitchedClosed, Whole!vars, timerVars, Whole!timerVars, Whole!callbackVars
  <2>6. QED
    BY <2>4, <2>5
<1>9. ASSUME DropResult(x, r)
      PROVE  Whole!DropResult(x, r)
  <2>1. UNCHANGED <<wholePc, wholeCallback>>
    BY <1>9, StaysLeft, CallbackStays
       DEF DropResult, callbackVars, timerVars, sessionVars, resetVars
  <2>2. wholePc[x] = "drop"
    BY <1>1, <1>9, Where DEF DropResult
  <2>3. QED
    BY <1>1, <1>9, <2>1, <2>2
       DEF DropResult, Whole!DropResult, Drop, Whole!Drop, Holder, Whole!Holder,
           callbackVars, Whole!callbackVars, timerVars, Whole!timerVars
<1>10. ASSUME SwitchedReturns(x, r)
      PROVE  Whole!SwitchedReturns(x, r)
  <2>1. PICK p : Go(x, p) /\ p \in {"visit", "done"}
    BY <1>10 DEF SwitchedReturns, ItemDone
  <2>2. x = "timer" \/ UNCHANGED item
    BY <1>10 DEF SwitchedReturns, timerVars
  <2>3. /\ wholePc' = [wholePc EXCEPT ![x] = p]
        /\ \A y \in Requests \cup {"timer"}, q \in Requests : Left(y, q)' <=> Left(y, q)
    BY <1>1, <1>10, <2>1, <2>2, GoesOn DEF SwitchedReturns, sessionVars, resetVars
  <2>4. \A q : Go(x, q) => Whole!Go(x, q)
    BY <1>1, <2>1, <2>3 DEF Go, Whole!Go, RequestTypeOK
  <2>5. UNCHANGED wholeCallback
    BY <1>10, <2>3, CallbackStays DEF SwitchedReturns, callbackVars
  <2>6. wholePc[x] = "drop"
    BY <1>1, <1>10, Where DEF SwitchedReturns
  <2>7. QED
    BY <1>1, <1>10, <2>4, <2>5, <2>6
       DEF SwitchedReturns, Whole!SwitchedReturns, ItemDone, Whole!ItemDone, Free, Whole!Free,
           Holder, Whole!Holder, callbackVars, Whole!callbackVars, timerVars, Whole!timerVars
<1>11. QED
  BY <1>4, <1>5, <1>6, <1>7, <1>8, <1>9, <1>10
     DEF ProcessThreadSwitched, Whole!ProcessThreadSwitched

\* Nobody leaves by a step of Close that does not set m_bClosed.
LEMMA CloseMovesOn ==
    ASSUME SessionTypeOK, NEW r \in Sessions, NEW x \in Users, NEW p, At(r, x, p),
           UNCHANGED <<pc, item, m_callback>>,
           x = "client" \/ (reset[r][x] \in {"none", "set"} <=> p \in {"none", "set"})
    PROVE  UNCHANGED <<wholePc, wholeCallback>>
<1>1. ASSUME NEW y \in Requests \cup {"timer"}, NEW q \in Requests
      PROVE  Left(y, q)' <=> Left(y, q)
  <2>1. Serves(y, q)' <=> Serves(y, q)
    BY DEF Serves
  <2>2. Holder(y) \in Users \ {"client"}
    BY DEF Holder, Users
  <2>3. ASSUME q \in Sessions
        PROVE  reset'[q][Holder(y)] \in {"none", "set"} <=> reset[q][Holder(y)] \in {"none", "set"}
    BY <2>2, <2>3, AtMoves
  <2>4. QED
    BY <2>1, <2>3 DEF Left
<1>2. UNCHANGED wholePc
  BY <1>1, SessionAssumption DEF wholePc
<1>3. QED
  BY <1>1, <1>2, CallbackStays

\* What the session does between its start and its end is nothing to the whole.
LEMMA RequestStays ==
    ASSUME SInv, NEW r \in Sessions, SessionRequest(r)
    PROVE  UNCHANGED <<wholePc, wholeCallback>>
<1>1. /\ Request(r) /\ UNCHANGED <<pc, item, m_callback>> /\ SessionTypeOK
      /\ \A q \in Sessions : pc[q] = "close" => step[q] = "returned"
  BY DEF SessionRequest, requestVars, timerVars, callbackVars, SInv, Sound, Over
<1>2. step[r] # "returned" /\ pc[r] # "close"
  BY <1>1 DEF Request, JumpRefused, JumpTaken, Connect, InternetOpen, InternetConnect,
              OpenRequest, AddHeaders, Transfer, Send, Retry, Respond, Read, Redirect, Jump,
              AutoClose, AutoClosed
<1>3. UNCHANGED reset \/ \E p : At(r, "thread", p)
  BY <1>1 DEF Request, JumpRefused, JumpTaken, Connect, InternetOpen, InternetConnect,
              OpenRequest, AddHeaders, Transfer, Send, Retry, Respond, Read, Redirect, Jump,
              AutoClose, AutoClosed, SessionClose, resetVars
<1>4. \A q \in Sessions, h \in {"thread", "timer"} :
        q # r \/ h # "thread" => reset'[q][h] = reset[q][h]
  BY <1>1, <1>3, AtMoves DEF Users
<1>5. ASSUME NEW y \in Requests \cup {"timer"}, NEW q \in Requests
      PROVE  Left(y, q)' <=> Left(y, q)
  <2>1. Serves(y, q)' <=> Serves(y, q)
    BY <1>1 DEF Serves
  <2>2. Holder(y) \in {"thread", "timer"} /\ (Holder(y) = "thread" => y # "timer")
    BY DEF Holder
  <2>3. ASSUME q \in Sessions, Serves(y, q), pc[y] = "close"
        PROVE  reset'[q][Holder(y)] = reset[q][Holder(y)]
    BY <1>2, <1>4, <2>2, <2>3 DEF Serves
  <2>4. QED
    BY <1>1, <2>1, <2>3 DEF Left
<1>6. UNCHANGED wholePc
  BY <1>1, <1>5, SessionAssumption DEF wholePc
<1>7. QED
  BY <1>1, <1>5, <1>6, CallbackStays

\* The step of Close that sets m_bClosed is the whole of it.
LEMMA CloseSetImplements ==
    ASSUME IInv, SInv, WInv, ~Undefined, NEW r \in Sessions, NEW x \in Users, CloseSet(r, x)
    PROVE  Whole!Next
<1>1. /\ RequestTypeOK /\ SessionTypeOK /\ ThreadResets(r) /\ Closers(r)
      /\ r \in Requests /\ r # "timer" /\ reset[r][x] = "set"
  BY RequestAssumption, SessionAssumption DEF IInv, SInv, Sound, WInv, CloseSet
<1>2. UNCHANGED <<pc, item, m_callback>> /\ At(r, x, "lock")
  BY DEF CloseSet, requestVars, timerVars, callbackVars
<1> USE DEF objectVars, Whole!objectVars, flagVars, Whole!flagVars, timerVars, Whole!timerVars,
            callbackVars, Whole!callbackVars, Whole!sessionVars, Whole!handleVars,
            Whole!resetVars, NoSessions
<1>3. CASE x = "client"
  <2>1. UNCHANGED <<wholePc, wholeCallback>>
    BY <1>1, <1>2, <1>3, CloseMovesOn
  <2>2. "client" \in refs[r] /\ Whole!Started(r)
    BY <1>1, <1>3, Where DEF Closers, Started, Whole!Started
  <2>3. Whole!Close(r)
    BY <2>1, <2>2 DEF CloseSet, requestVars, Whole!Close
  <2>4. QED
    BY <1>1, <2>3 DEF Whole!Next, Whole!Client
<1>4. CASE x # "client"
  <2>1. PICK y \in {r, "timer"} : Holder(y) = x /\ Serves(y, r) /\ pc[y] = "close"
    <3>1. CASE x = "thread"
      BY <1>1, <3>1 DEF Holder, Serves, ThreadResets, Closers
    <3>2. CASE x = "timer"
      BY <1>1, <3>2 DEF Holder, Serves, Closers
    <3>3. QED
      BY <1>4, <3>1, <3>2 DEF Users
  <2>2. \A z \in Requests \cup {"timer"}, q \in Sessions :
            ~(z = y /\ q = r) /\ Serves(z, q) => q # r \/ Holder(z) # x
    BY <1>1, <2>1, RequestAssumption, SessionAssumption DEF Serves, Holder
  <2>3. \A q \in Sessions, h \in Users :
            reset'[q][h] = IF q = r /\ h = x THEN "lock" ELSE reset[q][h]
    BY <1>1, <1>2, AtMoves
  <2>4. ASSUME NEW z \in Requests \cup {"timer"}, NEW q \in Sessions
        PROVE  Left(z, q)' <=> Left(z, q) \/ (z = y /\ q = r)
    <3>1. CASE z = y /\ q = r
      BY <1>2, <2>1, <2>3, <3>1 DEF Left, Serves
    <3>2. CASE ~(z = y /\ q = r)
      <4>1. Serves(z, q)' <=> Serves(z, q)
        BY <1>2 DEF Serves
      <4>2. Holder(z) \in Users
        BY DEF Holder, Users
      <4>3. Serves(z, q) => reset'[q][Holder(z)] = reset[q][Holder(z)]
        BY <2>2, <2>3, <3>2, <4>2
      <4>4. QED
        BY <1>2, <3>2, <4>1, <4>3 DEF Left
    <3>3. QED
      BY <3>1, <3>2
  <2>5. y \in Requests \cup {"timer"}
    BY <1>1
  <2>6. wholePc' = [wholePc EXCEPT ![y] = "drop"]
    <3>1. \A z \in Requests \cup {"timer"} : wholePc'[z] = IF z = y THEN "drop" ELSE wholePc[z]
      BY <1>2, <2>4 DEF wholePc
    <3>2. QED
      BY <3>1 DEF wholePc
  <2>7. wholeCallback' = [wholeCallback EXCEPT ![r] = "none"]
    <3>1. ASSUME NEW q \in Requests
          PROVE  wholeCallback'[q] = IF q = r THEN "none" ELSE wholeCallback[q]
      <4>1. CASE q = r
        BY <2>4, <2>5, <4>1 DEF wholeCallback
      <4>2. CASE q # r
        <5>1. \A z \in {q, "timer"} : Left(z, q)' <=> Left(z, q)
          BY <2>4, <4>2 DEF Left
        <5>2. QED
          BY <1>2, <4>2, <5>1 DEF wholeCallback
      <4>3. QED
        BY <4>1, <4>2
    <3>2. QED
      BY <3>1 DEF wholeCallback
  <2>8. wholePc[y] = "close"
    <3>1. \A q \in Sessions : Serves(y, q) => q = r
      BY <1>1, <2>1, SessionAssumption, RequestAssumption DEF Serves
    <3>2. QED
      BY <1>1, <2>1, <2>5, <3>1 DEF wholePc, Left
  <2>9. Whole!SwitchedCloses(y, r)
    BY <2>1, <2>6, <2>7, <2>8
       DEF CloseSet, requestVars, Whole!SwitchedCloses, Whole!Go, Serves, Whole!Serves
  <2>10. QED
    BY <1>1, <2>9 DEF Whole!Next, Whole!ProcessThreadSwitched
<1>5. QED
  BY <1>3, <1>4

\* The rest of what is followed is nothing to the whole.
LEMMA FollowedImplements ==
    ASSUME IInv, SInv, WInv, ~Undefined, ~Undefined', NEW r \in Sessions, NEW x \in Users,
           \/ StartRequest(r) \/ SessionRequest(r) \/ CloseTested(r, x)
           \/ CWebRequestClose(r, x) \/ HeadersRace(r, x)
    PROVE  Whole!Next \/ UNCHANGED Whole!vars
<1>1. SessionTypeOK /\ ~HeadersRace(r, x)
  BY DEF IInv, SInv, RequestTypeOK, HeadersRace, Undefined
<1>2. ASSUME UNCHANGED <<wholePc, wholeCallback, requestVars, m_bClosed>>
      PROVE  UNCHANGED Whole!vars
  BY <1>2
     DEF requestVars, callbackVars, objectVars, timerVars, Whole!vars, Whole!timerVars,
         Whole!objectVars, Whole!flagVars, Whole!callbackVars, Whole!sessionVars,
         Whole!handleVars, Whole!resetVars, NoSessions
<1>3. UNCHANGED requestVars => UNCHANGED <<item, m_callback>>
  BY DEF requestVars, timerVars, callbackVars
<1>4. ASSUME NEW p, At(r, x, p), UNCHANGED <<pc, requestVars, m_bClosed>>,
             reset[r][x] \in {"none", "set"} <=> p \in {"none", "set"}
      PROVE  UNCHANGED Whole!vars
  BY <1>1, <1>2, <1>3, <1>4, CloseMovesOn
<1>5. CASE StartRequest(r)
  BY <1>2, <1>3, <1>5, StaysLeft, CallbackStays DEF StartRequest, resetVars
<1>6. CASE SessionRequest(r)
  BY <1>2, <1>6, RequestStays DEF SessionRequest
<1>7. CASE CloseTested(r, x)
  BY <1>4, <1>7 DEF CloseTested
<1>8. CASE CloseSet(r, x)
  BY <1>8, CloseSetImplements
<1>9. CASE CloseLocked(r, x)
  BY <1>4, <1>9 DEF CloseLocked, SessionClose
<1>10. CASE CloseResets(r, x)
  <2>1. UNCHANGED <<pc, requestVars, m_bClosed>> /\ reset[r][x] \in Handles
    BY <1>10 DEF CloseResets, ResetRequestHandle, CloseHandle, SkipHandle, ClearHandle
  <2>2. CASE CloseHandle(r, x)
    BY <1>2, <1>3, <2>1, <2>2, StaysLeft, CallbackStays DEF CloseHandle
  <2>3. CASE SkipHandle(r, x) \/ ClearHandle(r, x)
    BY <1>4, <2>1, <2>3 DEF SkipHandle, ClearHandle, Following, Handles
  <2>4. QED
    BY <1>10, <2>2, <2>3 DEF CloseResets, ResetRequestHandle
<1>11. CASE CloseDone(r, x)
  <2>1. CASE x = "client"
    <3>1. UNCHANGED <<wholePc, wholeCallback>>
      BY <1>1, <1>3, <1>11, <2>1, CloseMovesOn DEF CloseDone
    <3>2. QED
      BY <1>2, <1>11, <3>1 DEF CloseDone
  <2>2. CASE x # "client"
    BY <1>4, <1>11, <2>2 DEF CloseDone
  <2>3. QED
    BY <2>1, <2>2
<1>12. QED
  BY <1>1, <1>5, <1>6, <1>7, <1>8, <1>9, <1>10, <1>11 DEF CWebRequestClose

\* Every step is one of the whole, or none, until the behaviour is undefined.
LEMMA StepImplementsWhole ==
    ASSUME IInv, SInv, WInv, [Next]_vars
    PROVE  [Undefined' \/ Whole!Next]_(Whole!vars)
<1> SUFFICES ASSUME ~Undefined'
             PROVE  Whole!Next \/ UNCHANGED Whole!vars
  OBVIOUS
<1>1. ~Undefined
  BY UndefinedStays
<1>2. CASE Tick
  BY <1>1, <1>2, TickImplements DEF Whole!Next
<1>3. ASSUME NEW r \in Requests, Client(r) \/ RequestThread(r) \/ TimeOut(r) \/ Destructor(r)
      PROVE  Whole!Next
  BY <1>1, <1>3, ClientImplements, RequestThreadImplements, TimeOutImplements,
     DestructorImplements DEF Whole!Next
<1>4. ASSUME NEW r \in Requests, NEW x \in {r, "timer"}, ProcessThreadSwitched(x, r)
      PROVE  Whole!Next \/ UNCHANGED Whole!vars
  BY <1>1, <1>4, ServedImplements DEF Whole!Next
<1>5. ASSUME NEW r \in Sessions, NEW x \in Users,
             \/ StartRequest(r) \/ SessionRequest(r) \/ CloseTested(r, x)
             \/ CWebRequestClose(r, x) \/ HeadersRace(r, x)
      PROVE  Whole!Next \/ UNCHANGED Whole!vars
  BY <1>1, <1>5, FollowedImplements
<1>6. CASE UNCHANGED vars
  <2>1. UNCHANGED <<wholePc, wholeCallback>>
    BY <1>6, StaysLeft, CallbackStays
       DEF vars, timerVars, callbackVars, sessionVars, resetVars
  <2>2. QED
    BY <1>6, <2>1
       DEF vars, objectVars, timerVars, flagVars, callbackVars, Whole!vars, Whole!timerVars,
           Whole!objectVars, Whole!flagVars, Whole!callbackVars, Whole!sessionVars,
           Whole!handleVars, Whole!resetVars, NoSessions
<1>7. Users # {}
  BY DEF Users
<1>8. QED
  BY <1>2, <1>3, <1>4, <1>5, <1>6, <1>7 DEF Next

\* At first nobody has left, and no request is followed.
LEMMA InitImplementsWhole == Init => Whole!Init /\ WInv
<1> SUFFICES ASSUME Init PROVE Whole!Init /\ WInv
  OBVIOUS
<1>1. \A x \in Requests \cup {"timer"} : pc[x] # "close"
  BY DEF Init
<1>2. wholePc = pc /\ wholeCallback = m_callback
  BY <1>1, SessionAssumption, RequestAssumption DEF Init, wholePc, wholeCallback, Left
<1>3. Whole!SessionInit
  BY DEF Whole!SessionInit, NoSessions
<1>4. WInv
  BY SessionAssumption DEF Init, SessionInit, WInv, Closers, Users
<1>5. QED
  BY <1>2, <1>3, <1>4 DEF Init, Whole!Init, GlobalTimerInit, Whole!GlobalTimerInit

\* The users of Close are where Close may be called in every state.
THEOREM ClosersInvariance == Spec => []WInv
<1>1. Init => WInv
  BY InitImplementsWhole
<1>2. IInv /\ SInv /\ WInv /\ [Next]_vars => WInv'
  BY ClosersKept
<1>3. QED
  BY <1>1, <1>2, Invariance, SessionInvariance, PTL DEF Spec

\* A request followed call by call is a request seen as a whole, for any number of
\* requests, sessions and addresses: what holds of the one holds of the other.
THEOREM ImplementsWhole == Spec => WholeSpec
<1>1. Init => Whole!Init
  BY InitImplementsWhole
<1>2. IInv /\ SInv /\ WInv /\ [Next]_vars => [Undefined' \/ Whole!Next]_(Whole!vars)
  BY StepImplementsWhole
<1>3. QED
  BY <1>1, <1>2, ClosersInvariance, Invariance, SessionInvariance, PTL DEF Spec, WholeSpec
=============================================================================
