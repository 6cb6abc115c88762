------------------------- MODULE HttpWebRequestProofs -------------------------
(***************************************************************************)
(* The safety of asynchronous requests, for any set of requests and of     *)
(* sessions that are followed: one callback, on an object that is alive,   *)
(* and no timer of an object that is gone.                                 *)
(*                                                                         *)
(* When the walk of the timers has left the list, or the headers have been *)
(* read while they were removed, every thread is undefined: the invariant  *)
(* then only keeps what is true of the past.                               *)
(***************************************************************************)
EXTENDS HttpWebRequest, SequenceTheorems, TLAPS

\* All threads are undefined, or none is.
AllOrNone == \A r \in Requests : pc[r] = "undefined" <=> Undefined

\* An object without references has been left to a destructor, and only such a one.
Counted == \A r \in Requests : refs[r] = {} <=> deleter[r] # "none"

\* Who works with an object has a reference to it.
Holds ==
    \A r \in Requests :
        /\ pc[r] \in {"idle", "request", "reset", "result"} => "own" \in refs[r]
        /\ pc[r] \in {"switched", "delete", "callback", "close"} => "thread" \in refs[r]
        /\ pc["timer"] \in {"switched", "delete", "callback", "close"} /\ item = r =>
                "timer" \in refs[r]
        /\ adder[r] # "none" => "client" \in refs[r]

\* The timer thread destroys objects in a callback and when it drops a result only.
TimerDeletes == \A r \in Requests : deleter[r] = "timer" => pc["timer"] \in {"callback", "drop"}

\* It works for a request from the execution of its timer on; nobody else executes one.
Working ==
    /\ pc["timer"] \in Switching \cup {"execute"} => item \in Requests /\ visit > 0
    /\ \A r \in Requests : pc[r] # "execute"

\* A timer is added once, to a list that does not have it.
Distinct == \A i, j \in 1..Len(m_calls) : m_calls[i] = m_calls[j] => i = j

OneTimer == \A r \in Timers : adder[r] = "none"

Executes(r) == pc["timer"] = "execute" /\ item = r

\* Its timer does not execute on an object that is gone.
Executed == \A r \in Requests : Executes(r) => deleter[r] # "freed"

\* What has a timer, or is about to get one, has been started.
TimerStarted ==
    \A r \in Requests :
        /\ adder[r] # "none" \/ r \in Timers \/ Executes(r) => pc[r] = "request" \/ m_finished[r]
        /\ m_finished[r] => pc[r] \notin {"idle", "request"}
        /\ pc[r] \in {"result", "switched", "delete", "callback", "close", "drop"} => m_finished[r]

\* A request times out once: its timer is then stopped, and its own thread too late.
FiredOnce ==
    \A r \in Requests :
        /\ Executes(r) \/ m_hasTimeOut[r] =>
                adder[r] = "none" /\ (r \in Timers => r \in m_stoped)
        /\ Executes(r) => ~m_hasTimeOut[r]
        /\ pc["timer"] \in Switching /\ item = r => m_hasTimeOut[r]
        /\ m_hasTimeOut[r] => pc[r] \in {"request", "reset", "leave", "done"}

\* The callback has not been run before the one who serves the request runs it.
NotRun ==
    \A r \in Requests :
        /\ pc[r] \in {"idle", "request", "result", "switched", "delete"} /\ ~m_hasTimeOut[r] =>
                runs[r] = 0
        /\ pc["timer"] \in {"switched", "delete"} /\ item = r => runs[r] = 0
        /\ pc[r] \in {"request", "result", "switched", "delete", "callback"} /\ ~m_hasTimeOut[r] =>
                m_callback[r] = "set"
        /\ pc["timer"] \in {"switched", "delete", "callback"} /\ item = r =>
                m_callback[r] = "set"

AtMostOnce == \A r \in Requests : runs[r] <= 1

Defined ==
    /\ Counted /\ Holds /\ TimerDeletes /\ Working /\ Distinct /\ OneTimer /\ Executed
    /\ TimerStarted /\ FiredOnce /\ NotRun

IInv ==
    /\ RequestTypeOK /\ AllOrNone
    /\ AtMostOnce /\ NoTimerOfFreed /\ TimersSeen
    /\ ~Undefined => Defined
-----------------------------------------------------------------------------
(* The list of timers.                                                      *)

\* What erasing one timer of a list without doubles leaves.
LEMMA WithoutLeaves ==
    ASSUME m_calls \in Seq(Requests), Distinct, NEW i \in 1..Len(m_calls),
           m_calls' = Without(i)
    PROVE  /\ m_calls' \in Seq(Requests)
           /\ Distinct'
           /\ Timers' = Timers \ {m_calls[i]}
<1> DEFINE head == SubSeq(m_calls, 1, i - 1)
           tail == SubSeq(m_calls, i + 1, Len(m_calls))
<1>0. Len(m_calls) \in Nat
  OBVIOUS
<1>a. /\ head \in Seq(Requests) /\ Len(head) = i - 1
      /\ \A j \in 1..(i - 1) : head[j] = m_calls[j]
  BY <1>0
<1>b. /\ tail \in Seq(Requests) /\ Len(tail) = Len(m_calls) - i
      /\ \A j \in 1..(Len(m_calls) - i) : tail[j] = m_calls[j + i]
  BY <1>0
<1> HIDE DEF head, tail
<1>c. m_calls' = head \o tail
  BY DEF Without, head, tail
<1>1. /\ m_calls' \in Seq(Requests)
      /\ Len(m_calls') = Len(m_calls) - 1
  <2>1. /\ head \o tail \in Seq(Requests)
        /\ Len(head \o tail) = Len(head) + Len(tail)
    BY <1>a, <1>b, ConcatProperties
  <2>2. Len(head) + Len(tail) = Len(m_calls) - 1
    BY <1>0, <1>a, <1>b
  <2>3. QED
    BY <2>1, <2>2, <1>c
<1>2. \A j \in 1..Len(m_calls') :
        m_calls'[j] = IF j < i THEN m_calls[j] ELSE m_calls[j + 1]
  BY <1>0, <1>a, <1>b, <1>c, <1>1, ConcatProperties
<1>3. Distinct'
  BY <1>0, <1>1, <1>2 DEF Distinct
<1>4. \A c \in Timers' : c \in Timers /\ c # m_calls[i]
  BY <1>0, <1>1, <1>2 DEF Distinct, Timers
<1>5. ASSUME NEW c \in Timers, c # m_calls[i] PROVE c \in Timers'
  <2>1. PICK j \in 1..Len(m_calls) : m_calls[j] = c
    BY DEF Timers
  <2>2. CASE j < i
    BY <1>0, <1>1, <1>2, <2>1, <2>2 DEF Timers
  <2>3. CASE j > i
    <3>1. j - 1 \in 1..Len(m_calls') /\ m_calls'[j - 1] = c
      BY <1>0, <1>1, <1>2, <2>1, <2>3
    <3>2. QED
      BY <3>1 DEF Timers
  <2>4. QED
    BY <1>5, <2>1, <2>2, <2>3
<1>6. QED
  BY <1>1, <1>3, <1>4, <1>5

\* DeleteTimer takes the timer of the object out, and leaves the others.
LEMMA DeleteTimerLeaves ==
    ASSUME m_calls \in Seq(Requests), Distinct,
           NEW x, NEW o \in Requests, DeleteTimer(x, o)
    PROVE  /\ m_calls' \in Seq(Requests)
           /\ Distinct'
           /\ Timers' = Timers \ {o}
<1>1. CASE \E i \in 1..Len(m_calls) : m_calls[i] = o /\ m_calls' = Without(i)
  BY <1>1, WithoutLeaves
<1>2. CASE o \notin Timers /\ UNCHANGED m_calls
  BY <1>2 DEF Distinct, Timers
<1>3. QED
  BY <1>1, <1>2 DEF DeleteTimer

\* AddTimer adds the timer of an object that has none.
LEMMA AddTimerAdds ==
    ASSUME m_calls \in Seq(Requests), Distinct,
           NEW x, NEW o \in Requests, o \notin Timers, AddTimer(x, o)
    PROVE  /\ m_calls' \in Seq(Requests)
           /\ Distinct'
           /\ Timers' = Timers \cup {o}
<1>1. /\ Len(m_calls) \in Nat /\ Len(m_calls') = Len(m_calls) + 1
      /\ m_calls' \in Seq(Requests)
      /\ \A j \in 1..Len(m_calls) : m_calls'[j] = m_calls[j]
      /\ m_calls'[Len(m_calls) + 1] = o
  BY DEF AddTimer
<1>2. Distinct'
  BY <1>1 DEF Distinct, Timers
<1>3. Timers' = Timers \cup {o}
  BY <1>1 DEF Timers
<1>4. QED
  BY <1>1, <1>2, <1>3

\* A list without new timers is not empty unless it was not.
LEMMA NoNewTimer ==
    ASSUME m_calls' \in Seq(Requests), Timers' \subseteq Timers
    PROVE  m_calls' # <<>> => m_calls # <<>>
<1>1. m_calls' # <<>> => m_calls'[1] \in Timers'
  BY DEF Timers
<1>2. m_calls = <<>> => Timers = {}
  BY DEF Timers
<1>3. QED
  BY <1>1, <1>2

\* Timers are bound to the objects of requests.
LEMMA TimersAreRequests == ASSUME m_calls \in Seq(Requests) PROVE Timers \subseteq Requests
BY DEF Timers
-----------------------------------------------------------------------------
\* Create leaves an object that holds itself, without timer.
LEMMA InitIInv == ASSUME Init PROVE IInv
<1>1. Timers = {} /\ m_calls \in Seq(Requests)
  BY DEF Init, GlobalTimerInit, Timers
<1>2. RequestTypeOK
  BY <1>1 DEF Init, GlobalTimerInit, RequestTypeOK, Places, Outside, Switching, Threads
<1>3. AllOrNone /\ AtMostOnce /\ NoTimerOfFreed /\ TimersSeen
  BY <1>1, RequestAssumption
     DEF Init, GlobalTimerInit, AllOrNone, AtMostOnce, NoTimerOfFreed, TimersSeen, Undefined
<1>4. Counted /\ Holds /\ TimerDeletes /\ Working /\ Executed
  BY RequestAssumption
     DEF Init, GlobalTimerInit, Counted, Holds, TimerDeletes, Working, Executed, Executes, Switching
<1>5. Distinct /\ OneTimer /\ TimerStarted /\ FiredOnce /\ NotRun
  BY <1>1, RequestAssumption
     DEF Init, GlobalTimerInit, Distinct, OneTimer, TimerStarted, FiredOnce, NotRun,
         Executes, Switching
<1>6. QED
  BY <1>2, <1>3, <1>4, <1>5 DEF IInv, Defined

\* Who serves a request is alone in it: its thread when it has not timed out, or
\* else the timer; the callback is there, and has not been run.
Alone(x, r) ==
    /\ x = r => ~m_hasTimeOut[r] /\ ~(pc["timer"] \in Switching /\ item = r)
    /\ x # r => m_hasTimeOut[r] /\ pc[r] \in {"request", "reset", "leave", "done"}
    /\ pc[x] \in {"switched", "delete"} => runs[r] = 0
    /\ pc[x] \in {"switched", "delete", "callback"} => m_callback[r] = "set"

\* Who delivers the result of a request is alone: the other thread can no longer do so.
LEMMA Exclusive ==
    ASSUME RequestTypeOK, Defined, NEW r \in Requests, NEW x \in {r, "timer"},
           pc[x] \in Switching, Serves(x, r)
    PROVE  Alone(x, r)
<1>1. CASE x = r
  <2>1. ~m_hasTimeOut[r]
    BY <1>1 DEF Defined, FiredOnce, Switching
  <2>2. ~(pc["timer"] \in Switching /\ item = r)
    BY <2>1 DEF Defined, FiredOnce
  <2>3. QED
    BY <1>1, <2>1, <2>2 DEF Defined, NotRun, Alone
<1>2. CASE x # r
  <2>1. x = "timer" /\ item = r
    BY <1>2 DEF Serves
  <2>2. m_hasTimeOut[r]
    BY <2>1 DEF Defined, FiredOnce
  <2>3. QED
    BY <1>2, <2>1, <2>2 DEF Defined, FiredOnce, NotRun, Alone
<1>3. QED
  BY <1>1, <1>2

\* A request that is started has no timer yet, and nobody serves it.
LEMMA AsyncRequestKeeps ==
    ASSUME IInv, NEW x \in Threads, NEW r \in Requests, AsyncRequest(x, r) PROVE IInv'
<1>1. ~Undefined /\ Defined /\ RequestTypeOK
  BY RequestAssumption DEF IInv, AllOrNone, Undefined, AsyncRequest
<1>2. m_calls \in Seq(Requests) /\ Timers \subseteq Requests
  BY TimersAreRequests DEF IInv, RequestTypeOK
<1>3. Timers' = Timers /\ m_calls' = m_calls
  BY DEF Timers, AsyncRequest, timerVars
<1> USE DEF RequestTypeOK, AsyncRequest, Go, timerVars, objectVars, flagVars, callbackVars
<1>4. RequestTypeOK'
  <2>1. pc' \in [Requests \cup {"timer"} -> Places]
    BY <1>1, <1>2, <1>3, RequestAssumption DEF Places, Switching, Outside
  <2>2. adder' \in [Requests -> Threads \cup {"none"}]
    BY <1>1, <1>2, <1>3, RequestAssumption
  <2>3. m_callback' \in [Requests -> {"none", "set", "freed"}]
    BY <1>1, <1>2, <1>3, RequestAssumption
  <2>4. QED
    BY <1>1, <1>2, <1>3, <2>1, <2>2, <2>3
<1>5. AllOrNone' /\ NoTimerOfFreed' /\ TimersSeen'
  BY <1>1, <1>2, <1>3, RequestAssumption
     DEF IInv, Defined, AllOrNone, NoTimerOfFreed, TimersSeen, Undefined, Counted, Holds
<1>6. Counted' /\ Holds'
  BY <1>1, <1>2, <1>3, RequestAssumption DEF Defined, Counted, Holds, Threads
<1>7. TimerDeletes' /\ Working' /\ Executed'
  BY <1>1, <1>2, <1>3, RequestAssumption
     DEF IInv, Defined, TimerDeletes, Working, Executed, Switching, Executes, NoTimerOfFreed
<1>8. Distinct' /\ OneTimer' /\ TimerStarted'
  BY <1>1, <1>2, <1>3, RequestAssumption
     DEF Defined, Distinct, OneTimer, TimerStarted, Executes, FiredOnce, Switching
<1>9. FiredOnce'
  BY <1>1, <1>2, <1>3, RequestAssumption
     DEF Defined, FiredOnce, Executes, OneTimer, TimerStarted, Switching
<1>10. NotRun' /\ AtMostOnce'
  BY <1>1, <1>2, <1>3, RequestAssumption
     DEF IInv, Defined, NotRun, AtMostOnce, FiredOnce, TimerStarted, Executes, Switching
<1>11. QED
  BY <1>4, <1>5, <1>6, <1>7, <1>8, <1>9, <1>10 DEF IInv, Defined

\* The callback of a request without URL is run on the spot.
LEMMA AsyncRequestNoUrlKeeps ==
    ASSUME IInv, NEW r \in Requests, AsyncRequestNoUrl(r) PROVE IInv'
<1>1. ~Undefined /\ Defined /\ RequestTypeOK
  BY RequestAssumption DEF IInv, AllOrNone, Undefined, AsyncRequestNoUrl
<1>2. m_calls \in Seq(Requests) /\ Timers \subseteq Requests
  BY TimersAreRequests DEF IInv, RequestTypeOK
<1>3. Timers' = Timers /\ m_calls' = m_calls
  BY DEF Timers, AsyncRequestNoUrl, timerVars
<1>4. runs[r] = 0 /\ ~m_hasTimeOut[r]
  BY <1>1 DEF AsyncRequestNoUrl, Defined, FiredOnce, NotRun
<1> USE DEF RequestTypeOK, AsyncRequestNoUrl, Go, timerVars, objectVars, flagVars, callbackVars
<1>5. RequestTypeOK'
  BY <1>1, <1>2, <1>3, <1>4, RequestAssumption DEF Places, Threads, Switching
<1>6. AllOrNone' /\ NoTimerOfFreed' /\ TimersSeen'
  BY <1>1, <1>2, <1>3, <1>4, RequestAssumption
     DEF IInv, Defined, AllOrNone, NoTimerOfFreed, TimersSeen, Undefined, Counted, Holds
<1>7. Counted' /\ Holds'
  BY <1>1, <1>2, <1>3, <1>4, RequestAssumption DEF Defined, Counted, Holds, Threads
<1>8. TimerDeletes' /\ Working' /\ Executed'
  BY <1>1, <1>2, <1>3, <1>4, RequestAssumption
     DEF IInv, Defined, TimerDeletes, Working, Executed, Switching, Executes, NoTimerOfFreed
<1>9. Distinct' /\ OneTimer' /\ TimerStarted'
  BY <1>1, <1>2, <1>3, <1>4, RequestAssumption
     DEF Defined, Distinct, OneTimer, TimerStarted, Executes, FiredOnce, Switching
<1>10. FiredOnce'
  BY <1>1, <1>2, <1>3, <1>4, RequestAssumption
     DEF Defined, FiredOnce, Executes, OneTimer, TimerStarted, Switching
<1>11. NotRun' /\ AtMostOnce'
  BY <1>1, <1>2, <1>3, <1>4, RequestAssumption
     DEF IInv, Defined, NotRun, AtMostOnce, FiredOnce, TimerStarted, Executes, Switching
<1>12. QED
  BY <1>5, <1>6, <1>7, <1>8, <1>9, <1>10, <1>11 DEF IInv, Defined

\* The timer is added to a list that does not have it, while the client holds the object.
LEMMA AsyncRequestTimerKeeps ==
    ASSUME IInv, NEW r \in Requests, AsyncRequestTimer(r) PROVE IInv'
<1>1. ~Undefined /\ Defined /\ RequestTypeOK
  BY RequestAssumption DEF IInv, AllOrNone, Undefined, AsyncRequestTimer
<1>2. m_calls \in Seq(Requests) /\ Timers \subseteq Requests
  BY TimersAreRequests DEF IInv, RequestTypeOK
<1>3. m_calls' \in Seq(Requests) /\ Distinct' /\ Timers' = Timers \cup {r}
  BY <1>1, <1>2, AddTimerAdds DEF AsyncRequestTimer, Defined, OneTimer
<1> USE DEF RequestTypeOK, AsyncRequestTimer, AddTimer, objectVars, flagVars, callbackVars
<1>4. RequestTypeOK'
  BY <1>1, <1>2, <1>3, RequestAssumption DEF Places, Threads, Switching
<1>5. AllOrNone' /\ NoTimerOfFreed' /\ TimersSeen'
  BY <1>1, <1>2, <1>3, RequestAssumption
     DEF IInv, Defined, AllOrNone, NoTimerOfFreed, TimersSeen, Undefined, Counted, Holds
<1>6. Counted' /\ Holds'
  BY <1>1, <1>2, <1>3, RequestAssumption DEF Defined, Counted, Holds, Threads
<1>7. TimerDeletes' /\ Working' /\ Executed'
  BY <1>1, <1>2, <1>3, RequestAssumption
     DEF IInv, Defined, TimerDeletes, Working, Executed, Switching, Executes, NoTimerOfFreed
<1>8. Distinct' /\ OneTimer' /\ TimerStarted'
  BY <1>1, <1>2, <1>3, RequestAssumption
     DEF Defined, Distinct, OneTimer, TimerStarted, Executes, FiredOnce, Switching
<1>9. FiredOnce'
  BY <1>1, <1>2, <1>3, RequestAssumption
     DEF Defined, FiredOnce, Executes, OneTimer, TimerStarted, Switching
<1>10. NotRun' /\ AtMostOnce'
  BY <1>1, <1>2, <1>3, RequestAssumption
     DEF IInv, Defined, NotRun, AtMostOnce, FiredOnce, TimerStarted, Executes, Switching
<1>11. QED
  BY <1>4, <1>5, <1>6, <1>7, <1>8, <1>9, <1>10 DEF IInv, Defined

\* The client drops its reference: the others are those of who works with the object.
LEMMA ReleaseKeeps ==
    ASSUME IInv, NEW x \in Threads, NEW r \in Requests, Release(x, r) PROVE IInv'
<1>1. ~Undefined /\ Defined /\ RequestTypeOK
  BY RequestAssumption DEF IInv, AllOrNone, Undefined, ClientThread, Started, Release
<1>2. m_calls \in Seq(Requests) /\ Timers \subseteq Requests
  BY TimersAreRequests DEF IInv, RequestTypeOK
<1>3. Timers' = Timers /\ m_calls' = m_calls
  BY DEF Timers, Release, ClientThread, Free, Started, timerVars
<1> USE DEF RequestTypeOK, Release, ClientThread, Free, Drop, Started, timerVars, objectVars,
         flagVars, callbackVars
<1>4. RequestTypeOK'
  BY <1>1, <1>2, <1>3, RequestAssumption DEF Places, Threads, Switching
<1>5. AllOrNone' /\ NoTimerOfFreed' /\ TimersSeen'
  BY <1>1, <1>2, <1>3, RequestAssumption
     DEF IInv, Defined, AllOrNone, NoTimerOfFreed, TimersSeen, Undefined, Counted, Holds
<1>6. Counted' /\ Holds'
  BY <1>1, <1>2, <1>3, RequestAssumption DEF Defined, Counted, Holds, Threads
<1>7. TimerDeletes' /\ Working' /\ Executed'
  BY <1>1, <1>2, <1>3, RequestAssumption
     DEF IInv, Defined, TimerDeletes, Working, Executed, Switching, Executes, NoTimerOfFreed
<1>8. Distinct' /\ OneTimer' /\ TimerStarted'
  BY <1>1, <1>2, <1>3, RequestAssumption
     DEF Defined, Distinct, OneTimer, TimerStarted, Executes, FiredOnce, Switching
<1>9. FiredOnce'
  BY <1>1, <1>2, <1>3, RequestAssumption
     DEF Defined, FiredOnce, Executes, OneTimer, TimerStarted, Switching
<1>10. NotRun' /\ AtMostOnce'
  BY <1>1, <1>2, <1>3, RequestAssumption
     DEF IInv, Defined, NotRun, AtMostOnce, FiredOnce, TimerStarted, Executes, Switching
<1>11. QED
  BY <1>4, <1>5, <1>6, <1>7, <1>8, <1>9, <1>10 DEF IInv, Defined

\* The thread of the request takes the result, or comes too late for it.
LEMMA FinishKeeps ==
    ASSUME IInv, NEW r \in Requests, Finish(r) PROVE IInv'
<1>1. ~Undefined /\ Defined /\ RequestTypeOK
  BY RequestAssumption DEF IInv, AllOrNone, Undefined, Finish
<1>2. m_calls \in Seq(Requests) /\ Timers \subseteq Requests
  BY TimersAreRequests DEF IInv, RequestTypeOK
<1>3. Timers' = Timers /\ m_calls' = m_calls
  BY DEF Timers, Finish, timerVars
<1> USE DEF RequestTypeOK, Finish, Go, timerVars, objectVars, flagVars, callbackVars
<1>4. RequestTypeOK'
  BY <1>1, <1>2, <1>3, RequestAssumption DEF Places, Threads, Switching
<1>5. AllOrNone' /\ NoTimerOfFreed' /\ TimersSeen'
  BY <1>1, <1>2, <1>3, RequestAssumption
     DEF IInv, Defined, AllOrNone, NoTimerOfFreed, TimersSeen, Undefined, Counted, Holds
<1>6. Counted' /\ Holds'
  BY <1>1, <1>2, <1>3, RequestAssumption DEF Defined, Counted, Holds, Threads
<1>7. TimerDeletes' /\ Working' /\ Executed'
  BY <1>1, <1>2, <1>3, RequestAssumption
     DEF IInv, Defined, TimerDeletes, Working, Executed, Switching, Executes, NoTimerOfFreed
<1>8. Distinct' /\ OneTimer' /\ TimerStarted'
  BY <1>1, <1>2, <1>3, RequestAssumption
     DEF Defined, Distinct, OneTimer, TimerStarted, Executes, FiredOnce, Switching
<1>9. FiredOnce'
  BY <1>1, <1>2, <1>3, RequestAssumption
     DEF Defined, FiredOnce, Executes, OneTimer, TimerStarted, Switching
<1>10. NotRun' /\ AtMostOnce'
  BY <1>1, <1>2, <1>3, RequestAssumption
     DEF IInv, Defined, NotRun, AtMostOnce, FiredOnce, TimerStarted, Executes, Switching
<1>11. QED
  BY <1>4, <1>5, <1>6, <1>7, <1>8, <1>9, <1>10 DEF IInv, Defined

\* Too late, the thread drops the object's own reference.
LEMMA ResetOwnKeeps ==
    ASSUME IInv, NEW r \in Requests, ResetOwn(r) PROVE IInv'
<1>1. ~Undefined /\ Defined /\ RequestTypeOK
  BY RequestAssumption DEF IInv, AllOrNone, Undefined, ResetOwn
<1>2. m_calls \in Seq(Requests) /\ Timers \subseteq Requests
  BY TimersAreRequests DEF IInv, RequestTypeOK
<1>3. Timers' = Timers /\ m_calls' = m_calls
  BY DEF Timers, ResetOwn, timerVars
<1> USE DEF RequestTypeOK, ResetOwn, Drop, Go, timerVars, objectVars, flagVars, callbackVars
<1>4. RequestTypeOK'
  BY <1>1, <1>2, <1>3, RequestAssumption DEF Places, Threads, Switching
<1>5. AllOrNone' /\ NoTimerOfFreed' /\ TimersSeen'
  BY <1>1, <1>2, <1>3, RequestAssumption
     DEF IInv, Defined, AllOrNone, NoTimerOfFreed, TimersSeen, Undefined, Counted, Holds
<1>6. Counted' /\ Holds'
  BY <1>1, <1>2, <1>3, RequestAssumption DEF Defined, Counted, Holds, Threads
<1>7. TimerDeletes' /\ Working' /\ Executed'
  BY <1>1, <1>2, <1>3, RequestAssumption
     DEF IInv, Defined, TimerDeletes, Working, Executed, Switching, Executes, NoTimerOfFreed
<1>8. Distinct' /\ OneTimer' /\ TimerStarted'
  BY <1>1, <1>2, <1>3, RequestAssumption
     DEF Defined, Distinct, OneTimer, TimerStarted, Executes, FiredOnce, Switching
<1>9. FiredOnce'
  BY <1>1, <1>2, <1>3, RequestAssumption
     DEF Defined, FiredOnce, Executes, OneTimer, TimerStarted, Switching
<1>10. NotRun' /\ AtMostOnce'
  BY <1>1, <1>2, <1>3, RequestAssumption
     DEF IInv, Defined, NotRun, AtMostOnce, FiredOnce, TimerStarted, Executes, Switching
<1>11. QED
  BY <1>4, <1>5, <1>6, <1>7, <1>8, <1>9, <1>10 DEF IInv, Defined

\* It leaves when the destructor, if it is its, is through.
LEMMA LeaveCSKeeps ==
    ASSUME IInv, NEW r \in Requests, LeaveCS(r) PROVE IInv'
<1>1. ~Undefined /\ Defined /\ RequestTypeOK
  BY RequestAssumption DEF IInv, AllOrNone, Undefined, LeaveCS
<1>2. m_calls \in Seq(Requests) /\ Timers \subseteq Requests
  BY TimersAreRequests DEF IInv, RequestTypeOK
<1>3. Timers' = Timers /\ m_calls' = m_calls
  BY DEF Timers, LeaveCS, timerVars
<1> USE DEF RequestTypeOK, LeaveCS, Go, timerVars, objectVars, flagVars, callbackVars
<1>4. RequestTypeOK'
  BY <1>1, <1>2, <1>3, RequestAssumption DEF Places, Threads, Switching
<1>5. AllOrNone' /\ NoTimerOfFreed' /\ TimersSeen'
  BY <1>1, <1>2, <1>3, RequestAssumption
     DEF IInv, Defined, AllOrNone, NoTimerOfFreed, TimersSeen, Undefined, Counted, Holds
<1>6. Counted' /\ Holds'
  BY <1>1, <1>2, <1>3, RequestAssumption DEF Defined, Counted, Holds, Threads
<1>7. TimerDeletes' /\ Working' /\ Executed'
  BY <1>1, <1>2, <1>3, RequestAssumption
     DEF IInv, Defined, TimerDeletes, Working, Executed, Switching, Executes, NoTimerOfFreed
<1>8. Distinct' /\ OneTimer' /\ TimerStarted'
  BY <1>1, <1>2, <1>3, RequestAssumption
     DEF Defined, Distinct, OneTimer, TimerStarted, Executes, FiredOnce, Switching
<1>9. FiredOnce'
  BY <1>1, <1>2, <1>3, RequestAssumption
     DEF Defined, FiredOnce, Executes, OneTimer, TimerStarted, Switching
<1>10. NotRun' /\ AtMostOnce'
  BY <1>1, <1>2, <1>3, RequestAssumption
     DEF IInv, Defined, NotRun, AtMostOnce, FiredOnce, TimerStarted, Executes, Switching
<1>11. QED
  BY <1>4, <1>5, <1>6, <1>7, <1>8, <1>9, <1>10 DEF IInv, Defined

\* The result holds the object, which holds itself until then.
LEMMA MakeResultKeeps ==
    ASSUME IInv, NEW r \in Requests, MakeResult(r) PROVE IInv'
<1>1. ~Undefined /\ Defined /\ RequestTypeOK
  BY RequestAssumption DEF IInv, AllOrNone, Undefined, MakeResult
<1>2. m_calls \in Seq(Requests) /\ Timers \subseteq Requests
  BY TimersAreRequests DEF IInv, RequestTypeOK
<1>3. Timers' = Timers /\ m_calls' = m_calls
  BY DEF Timers, MakeResult, timerVars
<1>4. "own" \in refs[r] /\ deleter[r] = "none"
  BY <1>1 DEF MakeResult, Defined, Holds, Counted
<1> USE DEF RequestTypeOK, MakeResult, Go, timerVars, objectVars, flagVars, callbackVars
<1>5. RequestTypeOK'
  BY <1>1, <1>2, <1>3, <1>4, RequestAssumption DEF Places, Threads, Switching
<1>6. AllOrNone' /\ NoTimerOfFreed' /\ TimersSeen'
  BY <1>1, <1>2, <1>3, <1>4, RequestAssumption
     DEF IInv, Defined, AllOrNone, NoTimerOfFreed, TimersSeen, Undefined, Counted, Holds
<1>7. Counted'
  BY <1>1, <1>2, <1>3, <1>4, RequestAssumption DEF Defined, Counted, Holds, Threads
<1>8. Holds'
  BY <1>1, <1>2, <1>3, <1>4, RequestAssumption DEF Defined, Holds, Counted
<1>9. TimerDeletes' /\ Working' /\ Executed'
  BY <1>1, <1>2, <1>3, <1>4, RequestAssumption
     DEF IInv, Defined, TimerDeletes, Working, Executed, Switching, Executes, NoTimerOfFreed
<1>10. Distinct' /\ OneTimer' /\ TimerStarted'
  BY <1>1, <1>2, <1>3, <1>4, RequestAssumption
     DEF Defined, Distinct, OneTimer, TimerStarted, Executes, FiredOnce, Switching
<1>11. FiredOnce'
  BY <1>1, <1>2, <1>3, <1>4, RequestAssumption
     DEF Defined, FiredOnce, Executes, OneTimer, TimerStarted, Switching
<1>12. NotRun' /\ AtMostOnce'
  BY <1>1, <1>2, <1>3, <1>4, RequestAssumption
     DEF IInv, Defined, NotRun, AtMostOnce, FiredOnce, TimerStarted, Executes, Switching
<1>13. QED
  BY <1>5, <1>6, <1>7, <1>8, <1>9, <1>10, <1>11, <1>12 DEF IInv, Defined

\* The timer takes the result from a request that is still under way.
LEMMA ProcessTimeOutKeeps ==
    ASSUME IInv, NEW r \in Requests, ProcessTimeOut(r) PROVE IInv'
<1>1. ~Undefined /\ Defined /\ RequestTypeOK
  BY RequestAssumption DEF IInv, AllOrNone, Undefined, ProcessTimeOut
<1>2. m_calls \in Seq(Requests) /\ Timers \subseteq Requests
  BY TimersAreRequests DEF IInv, RequestTypeOK
<1>3. Timers' = Timers /\ m_calls' = m_calls
  BY DEF Timers, ProcessTimeOut, timerVars
<1>4. pc[r] = "request" /\ deleter[r] = "none" /\ runs[r] = 0 /\ m_callback[r] = "set"
  BY <1>1 DEF ProcessTimeOut, Defined, TimerStarted, Executes, Holds, Counted, FiredOnce, NotRun
<1> USE DEF RequestTypeOK, ProcessTimeOut, Go, timerVars, objectVars, flagVars, callbackVars
<1>5. RequestTypeOK'
  BY <1>1, <1>2, <1>3, <1>4, RequestAssumption DEF Places, Threads, Switching
<1>6. AllOrNone' /\ NoTimerOfFreed' /\ TimersSeen'
  BY <1>1, <1>2, <1>3, <1>4, RequestAssumption
     DEF IInv, Defined, AllOrNone, NoTimerOfFreed, TimersSeen, Undefined, Counted, Holds
<1>7. Counted' /\ Holds'
  BY <1>1, <1>2, <1>3, <1>4, RequestAssumption DEF Defined, Counted, Holds, Threads
<1>8. TimerDeletes' /\ Working' /\ Executed'
  BY <1>1, <1>2, <1>3, <1>4, RequestAssumption
     DEF IInv, Defined, TimerDeletes, Working, Executed, Switching, Executes, NoTimerOfFreed
<1>9. Distinct' /\ OneTimer' /\ TimerStarted'
  BY <1>1, <1>2, <1>3, <1>4, RequestAssumption
     DEF Defined, Distinct, OneTimer, TimerStarted, Executes, FiredOnce, Switching
<1>10. FiredOnce'
  BY <1>1, <1>2, <1>3, <1>4, RequestAssumption
     DEF Defined, FiredOnce, Executes, OneTimer, TimerStarted, Switching
<1>11. NotRun' /\ AtMostOnce'
  BY <1>1, <1>2, <1>3, <1>4, RequestAssumption
     DEF IInv, Defined, NotRun, AtMostOnce, FiredOnce, TimerStarted, Executes, Switching
<1>12. QED
  BY <1>5, <1>6, <1>7, <1>8, <1>9, <1>10, <1>11 DEF IInv, Defined

\* Or comes too late for it.
LEMMA ProcessTimeOutTooLateKeeps ==
    ASSUME IInv, NEW r \in Requests, ProcessTimeOutTooLate(r) PROVE IInv'
<1>1. ~Undefined /\ Defined /\ RequestTypeOK
  BY RequestAssumption DEF IInv, AllOrNone, Undefined, ProcessTimeOutTooLate
<1>2. m_calls \in Seq(Requests) /\ Timers \subseteq Requests
  BY TimersAreRequests DEF IInv, RequestTypeOK
<1>3. Timers' = Timers /\ m_calls' = m_calls
  BY DEF Timers, ProcessTimeOutTooLate, ItemDone
<1> USE DEF RequestTypeOK, ProcessTimeOutTooLate, ItemDone, Go, objectVars, flagVars,
         callbackVars
<1>4. RequestTypeOK'
  BY <1>1, <1>2, <1>3, RequestAssumption DEF Places, Threads, Switching, Working, Defined
<1>5. AllOrNone' /\ NoTimerOfFreed' /\ TimersSeen'
  BY <1>1, <1>2, <1>3, RequestAssumption
     DEF IInv, Defined, AllOrNone, NoTimerOfFreed, TimersSeen, Undefined, Counted, Holds
<1>6. Counted' /\ Holds'
  BY <1>1, <1>2, <1>3, RequestAssumption DEF Defined, Counted, Holds, Threads
<1>7. TimerDeletes' /\ Working' /\ Executed'
  BY <1>1, <1>2, <1>3, RequestAssumption
     DEF IInv, Defined, TimerDeletes, Working, Executed, Switching, Executes, NoTimerOfFreed
<1>8. Distinct' /\ OneTimer' /\ TimerStarted'
  BY <1>1, <1>2, <1>3, RequestAssumption
     DEF Defined, Distinct, OneTimer, TimerStarted, Executes, FiredOnce, Switching
<1>9. FiredOnce'
  BY <1>1, <1>2, <1>3, RequestAssumption
     DEF Defined, FiredOnce, Executes, OneTimer, TimerStarted, Switching
<1>10. NotRun' /\ AtMostOnce'
  BY <1>1, <1>2, <1>3, RequestAssumption
     DEF IInv, Defined, NotRun, AtMostOnce, FiredOnce, TimerStarted, Executes, Switching
<1>11. QED
  BY <1>4, <1>5, <1>6, <1>7, <1>8, <1>9, <1>10 DEF IInv, Defined

\* The destructor waits while the timer executes, and takes the timer with it.
LEMMA DestructorKeeps ==
    ASSUME IInv, NEW r \in Requests, Destructor(r) PROVE IInv'
<1>1. ~Undefined /\ Defined /\ RequestTypeOK
  BY RequestAssumption DEF IInv, AllOrNone, Undefined, Destructor
<1>2. m_calls \in Seq(Requests) /\ Timers \subseteq Requests
  BY TimersAreRequests DEF IInv, RequestTypeOK
<1>3. m_calls' \in Seq(Requests) /\ Distinct' /\ Timers' = Timers \ {r}
  BY <1>1, <1>2, DeleteTimerLeaves DEF Destructor, Defined
<1>4. m_calls' # <<>> => m_calls # <<>>
  BY <1>3, NoNewTimer
<1> USE DEF RequestTypeOK, Destructor, DeleteTimer, CanLock, Ticking, Outside, objectVars,
         flagVars, callbackVars
<1>5. RequestTypeOK'
  BY <1>1, <1>2, <1>3, <1>4, RequestAssumption DEF Places, Threads, Switching
<1>6. AllOrNone' /\ NoTimerOfFreed' /\ TimersSeen'
  BY <1>1, <1>2, <1>3, <1>4, RequestAssumption
     DEF IInv, Defined, AllOrNone, NoTimerOfFreed, TimersSeen, Undefined, Counted, Holds
<1>7. Counted' /\ Holds'
  BY <1>1, <1>2, <1>3, <1>4, RequestAssumption DEF Defined, Counted, Holds, Threads
<1>8. TimerDeletes' /\ Working' /\ Executed'
  BY <1>1, <1>2, <1>3, <1>4, RequestAssumption
     DEF IInv, Defined, TimerDeletes, Working, Executed, Switching, Executes, NoTimerOfFreed
<1>9. Distinct' /\ OneTimer' /\ TimerStarted'
  BY <1>1, <1>2, <1>3, <1>4, RequestAssumption
     DEF Defined, Distinct, OneTimer, TimerStarted, Executes, FiredOnce, Switching
<1>10. FiredOnce'
  BY <1>1, <1>2, <1>3, <1>4, RequestAssumption
     DEF Defined, FiredOnce, Executes, OneTimer, TimerStarted, Switching
<1>11. NotRun' /\ AtMostOnce'
  BY <1>1, <1>2, <1>3, <1>4, RequestAssumption
     DEF IInv, Defined, NotRun, AtMostOnce, FiredOnce, TimerStarted, Executes, Switching
<1>12. QED
  BY <1>5, <1>6, <1>7, <1>8, <1>9, <1>10, <1>11 DEF IInv, Defined

\* The callback is run, or dropped when the request is closed.
LEMMA SwitchedKeeps ==
    ASSUME IInv, NEW r \in Requests, NEW x \in {r, "timer"}, Switched(x, r) PROVE IInv'
<1>1. ~Undefined /\ Defined /\ RequestTypeOK
  BY RequestAssumption DEF IInv, AllOrNone, Undefined, Serves, Switched
<1>2. m_calls \in Seq(Requests) /\ Timers \subseteq Requests
  BY TimersAreRequests DEF IInv, RequestTypeOK
<1>3. Timers' = Timers /\ m_calls' = m_calls
  BY DEF Timers, Switched, Serves, timerVars
<1>4. Alone(x, r)
  <2>1. pc[x] \in Switching /\ Serves(x, r)
    BY DEF Switched, Switching
  <2>2. QED
    BY <1>1, <2>1, Exclusive
<1>5. /\ \E p \in {"drop", "delete"} : pc' = [pc EXCEPT ![x] = p]
      /\ m_callback' \in {m_callback, [m_callback EXCEPT ![r] = "freed"]}
  BY <1>2, <1>3 DEF Go, Switched
<1> USE DEF RequestTypeOK, Switched, Serves, Go, timerVars, objectVars, flagVars, callbackVars
<1>6. RequestTypeOK'
  <2>1. pc' \in [Requests \cup {"timer"} -> Places]
    BY <1>1, <1>2, <1>3, <1>4, <1>5, RequestAssumption DEF Places, Switching, Outside
  <2>2. m_callback' \in [Requests -> {"none", "set", "freed"}]
    BY <1>1, <1>2, <1>3, <1>4, <1>5, RequestAssumption
  <2>3. QED
    BY <1>1, <1>2, <1>3, <2>1, <2>2
<1>7. AllOrNone' /\ NoTimerOfFreed' /\ TimersSeen'
  BY <1>1, <1>2, <1>3, <1>4, <1>5, RequestAssumption
     DEF IInv, Defined, AllOrNone, NoTimerOfFreed, TimersSeen, Undefined, Counted, Holds
<1>8. Counted' /\ Holds'
  BY <1>1, <1>2, <1>3, <1>4, <1>5, RequestAssumption DEF Defined, Counted, Holds, Threads
<1>9. TimerDeletes' /\ Working' /\ Executed'
  BY <1>1, <1>2, <1>3, <1>4, <1>5, RequestAssumption
     DEF IInv, Defined, TimerDeletes, Working, Executed, Switching, Executes, NoTimerOfFreed
<1>10. Distinct' /\ OneTimer' /\ TimerStarted'
  BY <1>1, <1>2, <1>3, <1>4, <1>5, RequestAssumption
     DEF Defined, Distinct, OneTimer, TimerStarted, Executes, FiredOnce, Switching
<1>11. FiredOnce'
  BY <1>1, <1>2, <1>3, <1>4, <1>5, RequestAssumption
     DEF Defined, FiredOnce, Executes, OneTimer, TimerStarted, Switching
<1>12. NotRun' /\ AtMostOnce'
  <2>1. CASE x = r
    BY <1>1, <1>2, <1>3, <1>4, <1>5, RequestAssumption, <2>1
       DEF IInv, Defined, NotRun, AtMostOnce, Alone, FiredOnce, TimerStarted, Executes,
           Switching
  <2>2. CASE x # r /\ x = "timer"
    BY <1>1, <1>2, <1>3, <1>4, <1>5, RequestAssumption, <2>2
       DEF IInv, Defined, NotRun, AtMostOnce, Alone, FiredOnce, TimerStarted, Executes,
           Switching
  <2>3. QED
    BY <2>1, <2>2
<1>13. QED
  BY <1>6, <1>7, <1>8, <1>9, <1>10, <1>11, <1>12 DEF IInv, Defined

\* The callback is run, by the one who serves the request.
LEMMA SwitchedDeletesKeeps ==
    ASSUME IInv, NEW r \in Requests, NEW x \in {r, "timer"}, SwitchedDeletes(x, r) PROVE IInv'
<1>1. ~Undefined /\ Defined /\ RequestTypeOK
  BY RequestAssumption DEF IInv, AllOrNone, Undefined, Serves, SwitchedDeletes
<1>2. m_calls \in Seq(Requests) /\ Timers \subseteq Requests
  BY TimersAreRequests DEF IInv, RequestTypeOK
<1>3. m_calls' \in Seq(Requests) /\ Distinct' /\ Timers' = Timers \ {r}
  BY <1>1, <1>2, DeleteTimerLeaves DEF SwitchedDeletes, Defined
<1>4. Alone(x, r)
  <2>1. pc[x] \in Switching /\ Serves(x, r)
    BY DEF SwitchedDeletes, Switching
  <2>2. QED
    BY <1>1, <2>1, Exclusive
<1>5. m_calls' # <<>> => m_calls # <<>>
  BY <1>2, <1>3, NoNewTimer
<1> USE DEF RequestTypeOK, SwitchedDeletes, DeleteTimer, Serves, Go, objectVars, flagVars,
         callbackVars
<1>6. RequestTypeOK'
  BY <1>1, <1>2, <1>3, <1>4, <1>5, RequestAssumption DEF Places, Threads, Switching
<1>7. AllOrNone' /\ NoTimerOfFreed' /\ TimersSeen'
  BY <1>1, <1>2, <1>3, <1>4, <1>5, RequestAssumption
     DEF IInv, Defined, AllOrNone, NoTimerOfFreed, TimersSeen, Undefined, Counted, Holds
<1>8. Counted' /\ Holds'
  BY <1>1, <1>2, <1>3, <1>4, <1>5, RequestAssumption DEF Defined, Counted, Holds, Threads
<1>9. TimerDeletes' /\ Working' /\ Executed'
  BY <1>1, <1>2, <1>3, <1>4, <1>5, RequestAssumption
     DEF IInv, Defined, TimerDeletes, Working, Executed, Switching, Executes, NoTimerOfFreed
<1>10. Distinct' /\ OneTimer' /\ TimerStarted'
  BY <1>1, <1>2, <1>3, <1>4, <1>5, RequestAssumption
     DEF Defined, Distinct, OneTimer, TimerStarted, Executes, FiredOnce, Switching
<1>11. FiredOnce'
  BY <1>1, <1>2, <1>3, <1>4, <1>5, RequestAssumption
     DEF Defined, FiredOnce, Executes, OneTimer, TimerStarted, Switching
<1>12. NotRun' /\ AtMostOnce'
  <2>1. CASE x = r
    BY <1>1, <1>2, <1>3, <1>4, <1>5, RequestAssumption, <2>1
       DEF IInv, Defined, NotRun, AtMostOnce, Alone, FiredOnce, TimerStarted, Executes,
           Switching
  <2>2. CASE x # r /\ x = "timer"
    BY <1>1, <1>2, <1>3, <1>4, <1>5, RequestAssumption, <2>2
       DEF IInv, Defined, NotRun, AtMostOnce, Alone, FiredOnce, TimerStarted, Executes,
           Switching
  <2>3. QED
    BY <2>1, <2>2
<1>13. QED
  BY <1>6, <1>7, <1>8, <1>9, <1>10, <1>11, <1>12 DEF IInv, Defined

\* The callback returns when the destructors that its thread runs are through.
LEMMA CallbackReturnsKeeps ==
    ASSUME IInv, NEW r \in Requests, NEW x \in {r, "timer"}, CallbackReturns(x, r) PROVE IInv'
<1>1. ~Undefined /\ Defined /\ RequestTypeOK
  BY RequestAssumption DEF IInv, AllOrNone, Undefined, Serves, CallbackReturns
<1>2. m_calls \in Seq(Requests) /\ Timers \subseteq Requests
  BY TimersAreRequests DEF IInv, RequestTypeOK
<1>3. Timers' = Timers /\ m_calls' = m_calls
  BY DEF Timers, CallbackReturns, Serves, Free, timerVars
<1>4. Alone(x, r)
  <2>1. pc[x] \in Switching /\ Serves(x, r)
    BY DEF CallbackReturns, Switching
  <2>2. QED
    BY <1>1, <2>1, Exclusive
<1> USE DEF RequestTypeOK, CallbackReturns, Serves, Free, Go, timerVars, objectVars, flagVars,
         callbackVars
<1>5. RequestTypeOK'
  BY <1>1, <1>2, <1>3, <1>4, RequestAssumption DEF Places, Threads, Switching
<1>6. AllOrNone' /\ NoTimerOfFreed' /\ TimersSeen'
  BY <1>1, <1>2, <1>3, <1>4, RequestAssumption
     DEF IInv, Defined, AllOrNone, NoTimerOfFreed, TimersSeen, Undefined, Counted, Holds
<1>7. Counted' /\ Holds'
  BY <1>1, <1>2, <1>3, <1>4, RequestAssumption DEF Defined, Counted, Holds, Threads
<1>8. TimerDeletes' /\ Working' /\ Executed'
  BY <1>1, <1>2, <1>3, <1>4, RequestAssumption
     DEF IInv, Defined, TimerDeletes, Working, Executed, Switching, Executes, NoTimerOfFreed
<1>9. Distinct' /\ OneTimer' /\ TimerStarted'
  BY <1>1, <1>2, <1>3, <1>4, RequestAssumption
     DEF Defined, Distinct, OneTimer, TimerStarted, Executes, FiredOnce, Switching
<1>10. FiredOnce'
  BY <1>1, <1>2, <1>3, <1>4, RequestAssumption
     DEF Defined, FiredOnce, Executes, OneTimer, TimerStarted, Switching
<1>11. NotRun' /\ AtMostOnce'
  <2>1. CASE x = r
    BY <1>1, <1>2, <1>3, <1>4, RequestAssumption, <2>1
       DEF IInv, Defined, NotRun, AtMostOnce, Alone, FiredOnce, TimerStarted, Executes,
           Switching
  <2>2. CASE x # r /\ x = "timer"
    BY <1>1, <1>2, <1>3, <1>4, RequestAssumption, <2>2
       DEF IInv, Defined, NotRun, AtMostOnce, Alone, FiredOnce, TimerStarted, Executes,
           Switching
  <2>3. QED
    BY <2>1, <2>2
<1>12. QED
  BY <1>5, <1>6, <1>7, <1>8, <1>9, <1>10, <1>11 DEF IInv, Defined

\* The request is closed after its callback.
LEMMA SwitchedClosesKeeps ==
    ASSUME IInv, NEW r \in Requests, NEW x \in {r, "timer"}, SwitchedCloses(x, r) PROVE IInv'
<1>1. ~Undefined /\ Defined /\ RequestTypeOK
  BY RequestAssumption DEF IInv, AllOrNone, Undefined, Serves, SwitchedCloses
<1>2. m_calls \in Seq(Requests) /\ Timers \subseteq Requests
  BY TimersAreRequests DEF IInv, RequestTypeOK
<1>3. Timers' = Timers /\ m_calls' = m_calls
  BY DEF Timers, SwitchedCloses, Serves, timerVars
<1>4. Alone(x, r)
  <2>1. pc[x] \in Switching /\ Serves(x, r)
    BY DEF SwitchedCloses, Switching
  <2>2. QED
    BY <1>1, <2>1, Exclusive
<1> USE DEF RequestTypeOK, SwitchedCloses, Serves, Go, timerVars, objectVars, flagVars,
         callbackVars
<1>5. RequestTypeOK'
  BY <1>1, <1>2, <1>3, <1>4, RequestAssumption DEF Places, Threads, Switching
<1>6. AllOrNone' /\ NoTimerOfFreed' /\ TimersSeen'
  BY <1>1, <1>2, <1>3, <1>4, RequestAssumption
     DEF IInv, Defined, AllOrNone, NoTimerOfFreed, TimersSeen, Undefined, Counted, Holds
<1>7. Counted' /\ Holds'
  BY <1>1, <1>2, <1>3, <1>4, RequestAssumption DEF Defined, Counted, Holds, Threads
<1>8. TimerDeletes' /\ Working' /\ Executed'
  BY <1>1, <1>2, <1>3, <1>4, RequestAssumption
     DEF IInv, Defined, TimerDeletes, Working, Executed, Switching, Executes, NoTimerOfFreed
<1>9. Distinct' /\ OneTimer' /\ TimerStarted'
  BY <1>1, <1>2, <1>3, <1>4, RequestAssumption
     DEF Defined, Distinct, OneTimer, TimerStarted, Executes, FiredOnce, Switching
<1>10. FiredOnce'
  BY <1>1, <1>2, <1>3, <1>4, RequestAssumption
     DEF Defined, FiredOnce, Executes, OneTimer, TimerStarted, Switching
<1>11. NotRun' /\ AtMostOnce'
  <2>1. CASE x = r
    BY <1>1, <1>2, <1>3, <1>4, RequestAssumption, <2>1
       DEF IInv, Defined, NotRun, AtMostOnce, Alone, FiredOnce, TimerStarted, Executes,
           Switching
  <2>2. CASE x # r /\ x = "timer"
    BY <1>1, <1>2, <1>3, <1>4, RequestAssumption, <2>2
       DEF IInv, Defined, NotRun, AtMostOnce, Alone, FiredOnce, TimerStarted, Executes,
           Switching
  <2>3. QED
    BY <2>1, <2>2
<1>12. QED
  BY <1>5, <1>6, <1>7, <1>8, <1>9, <1>10, <1>11 DEF IInv, Defined

\* The session is closed after the callback.
LEMMA SwitchedClosedKeeps ==
    ASSUME IInv, NEW r \in Requests, NEW x \in {r, "timer"}, SwitchedClosed(x, r) PROVE IInv'
<1>1. ~Undefined /\ Defined /\ RequestTypeOK
  BY RequestAssumption DEF IInv, AllOrNone, Undefined, Serves, SwitchedClosed
<1>2. m_calls \in Seq(Requests) /\ Timers \subseteq Requests
  BY TimersAreRequests DEF IInv, RequestTypeOK
<1>3. Timers' = Timers /\ m_calls' = m_calls
  BY DEF Timers, SwitchedClosed, Serves, timerVars
<1>4. Alone(x, r)
  <2>1. pc[x] \in Switching /\ Serves(x, r)
    BY DEF SwitchedClosed, Switching
  <2>2. QED
    BY <1>1, <2>1, Exclusive
<1> USE DEF RequestTypeOK, SwitchedClosed, Serves, Go, timerVars, objectVars, flagVars,
         callbackVars
<1>5. RequestTypeOK'
  BY <1>1, <1>2, <1>3, <1>4, RequestAssumption DEF Places, Threads, Switching
<1>6. AllOrNone' /\ NoTimerOfFreed' /\ TimersSeen'
  BY <1>1, <1>2, <1>3, <1>4, RequestAssumption
     DEF IInv, Defined, AllOrNone, NoTimerOfFreed, TimersSeen, Undefined, Counted, Holds
<1>7. Counted' /\ Holds'
  BY <1>1, <1>2, <1>3, <1>4, RequestAssumption DEF Defined, Counted, Holds, Threads
<1>8. TimerDeletes' /\ Working' /\ Executed'
  BY <1>1, <1>2, <1>3, <1>4, RequestAssumption
     DEF IInv, Defined, TimerDeletes, Working, Executed, Switching, Executes, NoTimerOfFreed
<1>9. Distinct' /\ OneTimer' /\ TimerStarted'
  BY <1>1, <1>2, <1>3, <1>4, RequestAssumption
     DEF Defined, Distinct, OneTimer, TimerStarted, Executes, FiredOnce, Switching
<1>10. FiredOnce'
  BY <1>1, <1>2, <1>3, <1>4, RequestAssumption
     DEF Defined, FiredOnce, Executes, OneTimer, TimerStarted, Switching
<1>11. NotRun' /\ AtMostOnce'
  <2>1. CASE x = r
    BY <1>1, <1>2, <1>3, <1>4, RequestAssumption, <2>1
       DEF IInv, Defined, NotRun, AtMostOnce, Alone, FiredOnce, TimerStarted, Executes,
           Switching
  <2>2. CASE x # r /\ x = "timer"
    BY <1>1, <1>2, <1>3, <1>4, RequestAssumption, <2>2
       DEF IInv, Defined, NotRun, AtMostOnce, Alone, FiredOnce, TimerStarted, Executes,
           Switching
  <2>3. QED
    BY <2>1, <2>2
<1>12. QED
  BY <1>5, <1>6, <1>7, <1>8, <1>9, <1>10, <1>11 DEF IInv, Defined

\* The result goes, and its thread may have to destroy the object.
LEMMA DropResultKeeps ==
    ASSUME IInv, NEW r \in Requests, NEW x \in {r, "timer"}, DropResult(x, r) PROVE IInv'
<1>1. ~Undefined /\ Defined /\ RequestTypeOK
  BY RequestAssumption DEF IInv, AllOrNone, Undefined, Serves, DropResult
<1>2. m_calls \in Seq(Requests) /\ Timers \subseteq Requests
  BY TimersAreRequests DEF IInv, RequestTypeOK
<1>3. Timers' = Timers /\ m_calls' = m_calls
  BY DEF Timers, DropResult, Serves, Holder, timerVars
<1> USE DEF RequestTypeOK, DropResult, Drop, Serves, Holder, timerVars, objectVars, flagVars,
         callbackVars
<1>4. RequestTypeOK'
  BY <1>1, <1>2, <1>3, RequestAssumption DEF Places, Threads, Switching
<1>5. AllOrNone' /\ NoTimerOfFreed' /\ TimersSeen'
  BY <1>1, <1>2, <1>3, RequestAssumption
     DEF IInv, Defined, AllOrNone, NoTimerOfFreed, TimersSeen, Undefined, Counted, Holds
<1>6. Counted' /\ Holds'
  BY <1>1, <1>2, <1>3, RequestAssumption DEF Defined, Counted, Holds, Threads
<1>7. TimerDeletes' /\ Working' /\ Executed'
  BY <1>1, <1>2, <1>3, RequestAssumption
     DEF IInv, Defined, TimerDeletes, Working, Executed, Switching, Executes, NoTimerOfFreed
<1>8. Distinct' /\ OneTimer' /\ TimerStarted'
  BY <1>1, <1>2, <1>3, RequestAssumption
     DEF Defined, Distinct, OneTimer, TimerStarted, Executes, FiredOnce, Switching
<1>9. FiredOnce'
  BY <1>1, <1>2, <1>3, RequestAssumption
     DEF Defined, FiredOnce, Executes, OneTimer, TimerStarted, Switching
<1>10. NotRun' /\ AtMostOnce'
  BY <1>1, <1>2, <1>3, RequestAssumption
     DEF IInv, Defined, NotRun, AtMostOnce, FiredOnce, TimerStarted, Executes, Switching
<1>11. QED
  BY <1>4, <1>5, <1>6, <1>7, <1>8, <1>9, <1>10 DEF IInv, Defined

\* The one who served the request is through with it.
LEMMA SwitchedReturnsKeeps ==
    ASSUME IInv, NEW r \in Requests, NEW x \in {r, "timer"}, SwitchedReturns(x, r) PROVE IInv'
<1>1. ~Undefined /\ Defined /\ RequestTypeOK
  BY RequestAssumption DEF IInv, AllOrNone, Undefined, Serves, SwitchedReturns
<1>2. m_calls \in Seq(Requests) /\ Timers \subseteq Requests
  BY TimersAreRequests DEF IInv, RequestTypeOK
<1>3. Timers' = Timers /\ m_calls' = m_calls
  BY DEF SwitchedReturns, ItemDone, timerVars, Timers
<1> USE DEF RequestTypeOK, SwitchedReturns, ItemDone, Serves, Free, Go, timerVars, objectVars,
         flagVars, callbackVars
<1>4. RequestTypeOK'
  <2>1. pc' \in [Requests \cup {"timer"} -> Places]
    BY <1>1, <1>2, <1>3, RequestAssumption DEF Places, Switching, Outside
  <2>2. visit' \in Nat /\ item' \in Requests \cup {"none"}
    BY <1>1, <1>2, <1>3, RequestAssumption DEF Defined, Working, Switching
  <2>3. QED
    BY <1>1, <1>2, <1>3, <2>1, <2>2 DEF Defined, Working, Switching
<1>5. AllOrNone' /\ NoTimerOfFreed' /\ TimersSeen'
  BY <1>1, <1>2, <1>3, RequestAssumption
     DEF IInv, Defined, AllOrNone, NoTimerOfFreed, TimersSeen, Undefined, Counted, Holds
<1>6. Counted' /\ Holds'
  BY <1>1, <1>2, <1>3, RequestAssumption DEF Defined, Counted, Holds, Threads
<1>7. TimerDeletes' /\ Working' /\ Executed'
  BY <1>1, <1>2, <1>3, RequestAssumption
     DEF IInv, Defined, TimerDeletes, Working, Executed, Switching, Executes, NoTimerOfFreed
<1>8. Distinct' /\ OneTimer' /\ TimerStarted'
  BY <1>1, <1>2, <1>3, RequestAssumption
     DEF Defined, Distinct, OneTimer, TimerStarted, Executes, FiredOnce, Switching
<1>9. FiredOnce'
  BY <1>1, <1>2, <1>3, RequestAssumption
     DEF Defined, FiredOnce, Executes, OneTimer, TimerStarted, Switching
<1>10. NotRun' /\ AtMostOnce'
  BY <1>1, <1>2, <1>3, RequestAssumption
     DEF IInv, Defined, NotRun, AtMostOnce, FiredOnce, TimerStarted, Executes, Switching
<1>11. QED
  BY <1>4, <1>5, <1>6, <1>7, <1>8, <1>9, <1>10 DEF IInv, Defined

\* A timer that is stopped leaves the list.
LEMMA ItemErasedKeeps ==
    ASSUME IInv, ItemErased,
           UNCHANGED <<objectVars, adder, flagVars, callbackVars, sessionVars>> PROVE IInv'
<1>1. ~Undefined /\ Defined /\ RequestTypeOK
  BY RequestAssumption DEF IInv, AllOrNone, Undefined, Visiting, ItemErased
<1>2. m_calls \in Seq(Requests) /\ Timers \subseteq Requests
  BY TimersAreRequests DEF IInv, RequestTypeOK
<1>3. /\ m_calls' \in Seq(Requests) /\ Distinct'
      /\ Timers' = Timers \ {m_calls[visit]}
  BY <1>1, <1>2, WithoutLeaves DEF ItemErased, Visiting, Defined
<1>4. m_calls' # <<>> => m_calls # <<>>
  BY <1>3, NoNewTimer
<1> USE DEF RequestTypeOK, ItemErased, Visiting, objectVars, flagVars, callbackVars
<1>5. RequestTypeOK'
  BY <1>1, <1>2, <1>3, <1>4, RequestAssumption
     DEF Places, Threads, Switching, Working, Defined
<1>6. AllOrNone' /\ NoTimerOfFreed' /\ TimersSeen'
  BY <1>1, <1>2, <1>3, <1>4, RequestAssumption
     DEF IInv, Defined, AllOrNone, NoTimerOfFreed, TimersSeen, Undefined, Counted, Holds
<1>7. Counted' /\ Holds'
  BY <1>1, <1>2, <1>3, <1>4, RequestAssumption DEF Defined, Counted, Holds, Threads
<1>8. TimerDeletes' /\ Working' /\ Executed'
  BY <1>1, <1>2, <1>3, <1>4, RequestAssumption
     DEF IInv, Defined, TimerDeletes, Working, Executed, Switching, Executes, NoTimerOfFreed
<1>9. Distinct' /\ OneTimer' /\ TimerStarted'
  BY <1>1, <1>2, <1>3, <1>4, RequestAssumption
     DEF Defined, Distinct, OneTimer, TimerStarted, Executes, FiredOnce, Switching
<1>10. FiredOnce'
  BY <1>1, <1>2, <1>3, <1>4, RequestAssumption
     DEF Defined, FiredOnce, Executes, OneTimer, TimerStarted, Switching
<1>11. NotRun' /\ AtMostOnce'
  BY <1>1, <1>2, <1>3, <1>4, RequestAssumption
     DEF IInv, Defined, NotRun, AtMostOnce, FiredOnce, TimerStarted, Executes, Switching
<1>12. QED
  BY <1>5, <1>6, <1>7, <1>8, <1>9, <1>10, <1>11 DEF IInv, Defined

\* A timer executes on the object of a request that is under way.
LEMMA ItemExecutedKeeps ==
    ASSUME IInv, ItemExecuted,
           UNCHANGED <<objectVars, adder, flagVars, callbackVars, sessionVars>> PROVE IInv'
<1>1. ~Undefined /\ Defined /\ RequestTypeOK
  BY RequestAssumption DEF IInv, AllOrNone, Undefined, Visiting, ItemExecuted
<1>2. m_calls \in Seq(Requests) /\ Timers \subseteq Requests
  BY TimersAreRequests DEF IInv, RequestTypeOK
<1>3. Timers' = Timers /\ m_calls' = m_calls
  BY DEF Timers, ItemExecuted, Visiting
<1>4. m_calls[visit] \in Timers
  BY DEF ItemExecuted, Visiting, Timers
<1> USE DEF RequestTypeOK, ItemExecuted, Visiting, Go, objectVars, flagVars, callbackVars
<1>5. RequestTypeOK'
  BY <1>1, <1>2, <1>3, <1>4, RequestAssumption DEF Places, Threads, Switching
<1>6. AllOrNone' /\ NoTimerOfFreed' /\ TimersSeen'
  BY <1>1, <1>2, <1>3, <1>4, RequestAssumption
     DEF IInv, Defined, AllOrNone, NoTimerOfFreed, TimersSeen, Undefined, Counted, Holds
<1>7. Counted' /\ Holds'
  BY <1>1, <1>2, <1>3, <1>4, RequestAssumption DEF Defined, Counted, Holds, Threads
<1>8. TimerDeletes' /\ Working' /\ Executed'
  BY <1>1, <1>2, <1>3, <1>4, RequestAssumption
     DEF IInv, Defined, TimerDeletes, Working, Executed, Switching, Executes, NoTimerOfFreed
<1>9. Distinct' /\ OneTimer' /\ TimerStarted'
  BY <1>1, <1>2, <1>3, <1>4, RequestAssumption
     DEF Defined, Distinct, OneTimer, TimerStarted, Executes, FiredOnce, Switching
<1>10. FiredOnce'
  BY <1>1, <1>2, <1>3, <1>4, RequestAssumption
     DEF Defined, FiredOnce, Executes, OneTimer, TimerStarted, Switching
<1>11. NotRun' /\ AtMostOnce'
  BY <1>1, <1>2, <1>3, <1>4, RequestAssumption
     DEF IInv, Defined, NotRun, AtMostOnce, FiredOnce, TimerStarted, Executes, Switching
<1>12. QED
  BY <1>5, <1>6, <1>7, <1>8, <1>9, <1>10, <1>11 DEF IInv, Defined

\* The other steps of the walk change neither the list nor the requests.
LEMMA WalkKeeps ==
    ASSUME IInv, CheckCalls \/ WaitForTimer \/ TickBegin \/ ItemWaits \/ TickEnd,
           UNCHANGED <<objectVars, adder, flagVars, callbackVars, sessionVars>> PROVE IInv'
<1>1. ~Undefined /\ Defined /\ RequestTypeOK
  BY RequestAssumption DEF IInv, AllOrNone, Undefined, CheckCalls, WaitForTimer, TickBegin, ItemWaits,
         TickEnd,
         Visiting
<1>2. m_calls \in Seq(Requests) /\ Timers \subseteq Requests
  BY TimersAreRequests DEF IInv, RequestTypeOK
<1>3. Timers' = Timers /\ m_calls' = m_calls
  BY DEF Timers, CheckCalls, WaitForTimer, TickBegin, ItemWaits, TickEnd, Visiting, timerVars
<1> USE DEF RequestTypeOK, CheckCalls, WaitForTimer, TickBegin, ItemWaits, TickEnd, Visiting,
         Go, timerVars, objectVars, flagVars, callbackVars
<1>4. RequestTypeOK'
  <2>1. pc' \in [Requests \cup {"timer"} -> Places]
    BY <1>1, <1>2, <1>3, RequestAssumption DEF Places, Switching, Outside
  <2>2. visit' \in Nat
    BY <1>1, <1>2, <1>3, RequestAssumption
  <2>3. QED
    BY <1>1, <1>2, <1>3, <2>1, <2>2
<1>5. AllOrNone' /\ NoTimerOfFreed' /\ TimersSeen'
  BY <1>1, <1>2, <1>3, RequestAssumption
     DEF IInv, Defined, AllOrNone, NoTimerOfFreed, TimersSeen, Undefined, Counted, Holds
<1>6. Counted' /\ Holds'
  BY <1>1, <1>2, <1>3, RequestAssumption DEF Defined, Counted, Holds, Threads
<1>7. TimerDeletes' /\ Working' /\ Executed'
  BY <1>1, <1>2, <1>3, RequestAssumption
     DEF IInv, Defined, TimerDeletes, Working, Executed, Switching, Executes, NoTimerOfFreed
<1>8. Distinct' /\ OneTimer' /\ TimerStarted'
  BY <1>1, <1>2, <1>3, RequestAssumption
     DEF Defined, Distinct, OneTimer, TimerStarted, Executes, FiredOnce, Switching
<1>9. FiredOnce'
  BY <1>1, <1>2, <1>3, RequestAssumption
     DEF Defined, FiredOnce, Executes, OneTimer, TimerStarted, Switching
<1>10. NotRun' /\ AtMostOnce'
  BY <1>1, <1>2, <1>3, RequestAssumption
     DEF IInv, Defined, NotRun, AtMostOnce, FiredOnce, TimerStarted, Executes, Switching
<1>11. QED
  BY <1>4, <1>5, <1>6, <1>7, <1>8, <1>9, <1>10 DEF IInv, Defined

\* The rest of Close, and the transfer, concern neither the timers nor the references.
LEMMA SessionKeeps ==
    ASSUME IInv, UNCHANGED <<pc, requestVars>>, m_bClosed' \in [Requests -> BOOLEAN]
    PROVE  IInv'
<1>1. Timers' = Timers
  BY DEF Timers, requestVars, timerVars
<1> USE DEF requestVars, timerVars, objectVars, callbackVars
<1>2. RequestTypeOK'
  BY DEF IInv, RequestTypeOK
<1>3. AllOrNone' /\ AtMostOnce' /\ NoTimerOfFreed' /\ TimersSeen'
  BY <1>1 DEF IInv, AllOrNone, AtMostOnce, NoTimerOfFreed, TimersSeen, Undefined
<1>4. ASSUME ~Undefined' PROVE Defined'
  <2>1. Defined
    BY <1>4 DEF IInv, Undefined
  <2>2. Counted' /\ Holds' /\ TimerDeletes' /\ Working' /\ Executed'
    BY <2>1 DEF Defined, Counted, Holds, TimerDeletes, Working, Executed, Executes
  <2>3. Distinct' /\ OneTimer' /\ TimerStarted' /\ FiredOnce' /\ NotRun'
    BY <1>1, <2>1 DEF Defined, Distinct, OneTimer, TimerStarted, FiredOnce, NotRun, Executes
  <2>4. QED
    BY <2>2, <2>3 DEF Defined
<1>5. QED
  BY <1>2, <1>3, <1>4 DEF IInv

\* When the behaviour is undefined from here on, what is past stays as it was.
LEMMA UndefinedKeeps ==
    ASSUME IInv, pc' = [x \in DOMAIN pc |-> "undefined"], UNCHANGED <<requestVars, m_bClosed>>
    PROVE  IInv'
<1>1. DOMAIN pc = Requests \cup {"timer"}
  BY DEF IInv, RequestTypeOK
<1>2. Timers' = Timers
  BY DEF Timers, requestVars, timerVars
<1>3. RequestTypeOK'
  BY <1>1 DEF IInv, RequestTypeOK, Places, requestVars, timerVars, objectVars, callbackVars
<1>4. Undefined' /\ AllOrNone' /\ AtMostOnce' /\ NoTimerOfFreed' /\ TimersSeen'
  BY <1>1, <1>2 DEF IInv, AllOrNone, AtMostOnce, NoTimerOfFreed, TimersSeen, Undefined,
                    requestVars, objectVars, callbackVars
<1>5. QED
  BY <1>3, <1>4 DEF IInv

\* Nothing happens.
LEMMA StutterKeeps == ASSUME IInv, UNCHANGED vars PROVE IInv'
BY SessionKeeps DEF IInv, RequestTypeOK, vars, requestVars, flagVars
-----------------------------------------------------------------------------
\* Every step of the client keeps the invariant.
LEMMA ClientKeeps == ASSUME IInv, NEW r \in Requests, Client(r) PROVE IInv'
<1>1. CASE Close(r)
  BY <1>1, SessionKeeps DEF Close, IInv, RequestTypeOK, requestVars
<1>2. CASE AsyncRequestNoUrl(r)
  BY <1>2, AsyncRequestNoUrlKeeps
<1>3. CASE AsyncRequestTimer(r)
  BY <1>3, AsyncRequestTimerKeeps
<1>4. CASE \E x \in Threads : AsyncRequest(x, r)
  BY <1>4, AsyncRequestKeeps
<1>5. CASE \E x \in Threads : Release(x, r)
  BY <1>5, ReleaseKeeps
<1>6. QED
  BY <1>1, <1>2, <1>3, <1>4, <1>5 DEF Client

\* Every step of DoSyncStartRequest keeps it.
LEMMA RequestThreadKeeps == ASSUME IInv, NEW r \in Requests, RequestThread(r) PROVE IInv'
BY FinishKeeps, ResetOwnKeeps, LeaveCSKeeps, MakeResultKeeps DEF RequestThread

\* Every step of the walk keeps it.
LEMMA TickKeeps == ASSUME IInv, Tick PROVE IInv'
<1>1. UNCHANGED <<objectVars, adder, flagVars, callbackVars, sessionVars>>
  BY DEF Tick
<1>2. CASE ItemErased
  BY <1>1, <1>2, ItemErasedKeeps
<1>3. CASE ItemExecuted
  BY <1>1, <1>3, ItemExecutedKeeps
<1>4. CASE ItemMissing
  BY <1>1, <1>4, UndefinedKeeps DEF ItemMissing, requestVars, flagVars
<1>5. CASE CheckCalls \/ WaitForTimer \/ TickBegin \/ ItemWaits \/ TickEnd
  BY <1>1, <1>5, WalkKeeps
<1>6. QED
  BY <1>2, <1>3, <1>4, <1>5 DEF Tick, TimerThread

\* Every step of ProcessThreadSwitched keeps it, on either thread.
LEMMA ProcessThreadSwitchedKeeps ==
    ASSUME IInv, NEW r \in Requests, NEW x \in {r, "timer"}, ProcessThreadSwitched(x, r)
    PROVE  IInv'
BY SwitchedKeeps, SwitchedDeletesKeeps, CallbackReturnsKeeps, SwitchedClosesKeeps,
   SwitchedClosedKeeps, DropResultKeeps, SwitchedReturnsKeeps DEF ProcessThreadSwitched

\* Every step of a session that is followed keeps it.
LEMMA FollowedKeeps ==
    ASSUME IInv, NEW r \in Sessions, NEW x \in Users,
           \/ StartRequest(r) \/ SessionRequest(r)
           \/ CloseTested(r, x) \/ CWebRequestClose(r, x) \/ HeadersRace(r, x)
    PROVE  IInv'
<1>1. m_bClosed \in [Requests -> BOOLEAN]
  BY DEF IInv, RequestTypeOK
<1>2. CASE StartRequest(r) \/ SessionRequest(r) \/ CloseTested(r, x)
  BY <1>1, <1>2, SessionKeeps DEF StartRequest, SessionRequest, CloseTested
<1>3. CASE CWebRequestClose(r, x)
  BY <1>1, <1>3, SessionKeeps
     DEF CWebRequestClose, CloseSet, CloseLocked, CloseResets, CloseDone
<1>4. CASE HeadersRace(r, x)
  BY <1>4, UndefinedKeeps DEF HeadersRace
<1>5. QED
  BY <1>2, <1>3, <1>4

\* Every step of the program keeps it.
LEMMA NextKeeps == ASSUME IInv, [Next]_vars PROVE IInv'
<1>1. CASE Tick
  BY <1>1, TickKeeps
<1>2. ASSUME NEW r \in Requests,
             Client(r) \/ RequestThread(r) \/ TimeOut(r) \/ Destructor(r)
      PROVE  IInv'
  BY <1>2, ClientKeeps, RequestThreadKeeps, DestructorKeeps,
     ProcessTimeOutKeeps, ProcessTimeOutTooLateKeeps DEF TimeOut
<1>3. ASSUME NEW r \in Requests, NEW x \in {r, "timer"}, ProcessThreadSwitched(x, r)
      PROVE  IInv'
  BY <1>3, ProcessThreadSwitchedKeeps
<1>4. ASSUME NEW r \in Sessions,
             \/ StartRequest(r) \/ SessionRequest(r)
             \/ \E x \in Users :
                  CloseTested(r, x) \/ CWebRequestClose(r, x) \/ HeadersRace(r, x)
      PROVE  IInv'
  BY <1>4, FollowedKeeps DEF Users
<1>5. CASE UNCHANGED vars
  BY <1>5, StutterKeeps
<1>6. QED
  BY <1>1, <1>2, <1>3, <1>4, <1>5 DEF Next

\* The inductive invariant holds of every reachable state.
THEOREM Invariance == Spec => []IInv
<1>1. Init => IInv
  BY InitIInv
<1>2. IInv /\ [Next]_vars => IInv'
  BY NextKeeps
<1>3. QED
  BY <1>1, <1>2, PTL DEF Spec
-----------------------------------------------------------------------------
(* What follows from it.                                                    *)

\* The one who runs the callback is alone with it.
LEMMA IInvCallbackOnce == ASSUME IInv PROVE CallbackOnce
<1>1. \A r \in Requests : runs[r] <= 1
  BY DEF IInv, AtMostOnce
<1>2. ASSUME NEW r \in Requests, NEW x \in Requests \cup {"timer"},
             pc[x] \in {"delete", "callback"}, Serves(x, r)
      PROVE  m_callback[r] = "set"
  <2>1. x \in {r, "timer"} /\ pc[x] \in Switching
    BY <1>2 DEF Serves, Switching
  <2>2. RequestTypeOK /\ Defined
    BY <1>2 DEF IInv, AllOrNone, Undefined
  <2>3. QED
    BY <1>2, <2>1, <2>2, Exclusive DEF Alone
<1>3. QED
  BY <1>1, <1>2 DEF CallbackOnce

\* The references of who works with an object keep it.
LEMMA IInvAliveInCallback == ASSUME IInv PROVE AliveInCallback
<1>1. SUFFICES ASSUME NEW r \in Requests, NEW x \in Requests \cup {"timer"}, Serves(x, r)
               PROVE  /\ pc[x] = "execute" => deleter[r] # "freed"
                      /\ pc[x] \in {"switched", "delete", "callback", "close"} =>
                            deleter[r] = "none"
  BY DEF AliveInCallback
<1>2. ASSUME pc[x] \in {"execute", "switched", "delete", "callback", "close"} PROVE Defined
  BY <1>2 DEF IInv, AllOrNone, Undefined
<1>3. ASSUME pc[x] = "execute" PROVE deleter[r] # "freed"
  BY <1>1, <1>2, <1>3 DEF Defined, Executed, Executes, Working, Serves
<1>4. ASSUME pc[x] \in {"switched", "delete", "callback", "close"} PROVE deleter[r] = "none"
  BY <1>1, <1>2, <1>4 DEF Defined, Holds, Counted, Serves
<1>5. QED
  BY <1>3, <1>4

\* The state of a request, its timer and its object is of its type.
THEOREM RequestTypes == Spec => []RequestTypeOK
<1>1. IInv => RequestTypeOK
  BY DEF IInv
<1>2. QED
  BY <1>1, Invariance, PTL

\* However the thread of a request, the timer and the client interleave, the callback
\* is run at most once, and not after it has deleted itself.
THEOREM CallbackIsRunOnce == Spec => []CallbackOnce
<1>1. IInv => CallbackOnce
  BY IInvCallbackOnce
<1>2. QED
  BY <1>1, Invariance, PTL

\* No thread that delivers a result works on an object that has been deleted.
THEOREM ObjectIsAlive == Spec => []AliveInCallback
<1>1. IInv => AliveInCallback
  BY IInvAliveInCallback
<1>2. QED
  BY <1>1, Invariance, PTL

\* The list holds no timer of an object that has been deleted.
THEOREM TimersGo == Spec => []NoTimerOfFreed
<1>1. IInv => NoTimerOfFreed
  BY DEF IInv
<1>2. QED
  BY <1>1, Invariance, PTL

\* The timer thread does not wait for ever with a timer in the list.
THEOREM TimersAreSeen == Spec => []TimersSeen
<1>1. IInv => TimersSeen
  BY DEF IInv
<1>2. QED
  BY <1>1, Invariance, PTL
-----------------------------------------------------------------------------
(* The answer comes, the object goes: the part of Answered and Collected    *)
(* that does not depend on fairness.                                        *)

\* Somebody is on the way to the callback of a request that is over: its thread with
\* the result, or the timer thread.
Delivers(r) ==
    \/ pc[r] \in {"result", "switched", "delete", "callback"}
    \/ pc["timer"] \in {"switched", "delete", "callback"} /\ item = r

\* The callback of a request that is over, or has timed out, is not left behind.
Remembered(r) == m_callback[r] = "set" /\ (m_finished[r] \/ m_hasTimeOut[r]) => Delivers(r)

\* Whoever holds an object whose request is over is about to let go of it, the client
\* excepted; whoever let go of it last destroys it.
LetGo(r) ==
    /\ "own" \in refs[r] /\ m_finished[r] => pc[r] \in {"reset", "result"}
    /\ "thread" \in refs[r] => pc[r] \in Switching
    /\ "timer" \in refs[r] => pc["timer"] \in Switching /\ item = r
    /\ refs[r] = {} => deleter[r] # "none"

\* Only a request that has timed out resets m_own inside _CS.
TooLate(r) == InCS(r) => m_hasTimeOut[r]

Ending(r) == Remembered(r) /\ LetGo(r) /\ TooLate(r)

\* No callback is left behind, and no cycle of references.
NoneLeftBehind == ~Undefined => \A r \in Requests : Ending(r)

\* The answer to a request is still to come: from its timer, or from somebody above.
Awaited(r) ==
    \/ adder[r] # "none" \/ r \in Timers \ m_stoped \/ Executes(r)
    \/ Delivers(r)

StaysAwaited(r) == Awaited(r) => Awaited(r)' \/ m_callback'[r] # "set" \/ Undefined'

AnswerKept == [][\A r \in Requests : StaysAwaited(r)]_vars

\* References to an object whose request is over are only dropped, but for the one that
\* the result takes over; and no second destructor follows the first.
Nearer(r) ==
    /\ \/ refs'[r] \subseteq refs[r]
       \/ pc[r] = "result" /\ refs'[r] = (refs[r] \ {"own"}) \cup {"thread"}
    /\ deleter[r] # "none" => refs'[r] = {} /\ deleter'[r] \in {deleter[r], "freed"}

CollectionNears == [][\A r \in Requests : m_finished[r] /\ ~Undefined' => Nearer(r)]_vars

\* The steps of the walk over the timers that are left, eight for each at most.
StepsFor ==
    CASE pc["timer"] = "visit" -> 0
      [] pc["timer"] = "execute" -> 1
      [] pc["timer"] = "switched" -> 2
      [] pc["timer"] = "delete" -> 3
      [] pc["timer"] = "callback" -> 4
      [] pc["timer"] = "close" -> 5
      [] pc["timer"] = "drop" -> IF "timer" \in refs[item] THEN 6 ELSE 7
      [] OTHER -> 7

WalkLeft == 8 * visit - StepsFor

WalkNears ==
    /\ WalkLeft' <= WalkLeft
    /\ TimerSteps => WalkLeft' \in Nat /\ WalkLeft' < WalkLeft

WalkShrinks == [][Ticking /\ Ticking' /\ ~Undefined' => WalkNears]_vars

\* While the timer thread has the list, it does not wait for the _CS of a request: who
\* is in there may be waiting for the list.
WalkGoesOn ==
    Ticking /\ ~Undefined /\ pc["timer"] # "visit" =>
        item \in Requests /\ (pc["timer"] = "execute" => ~InCS(item))
-----------------------------------------------------------------------------
\* What a step does that starts from a state in which the behaviour is defined.
Forward(s) == Ending(s)' /\ StaysAwaited(s) /\ (m_finished[s] => Nearer(s))

AllIsWell == RequestTypeOK /\ ~Undefined /\ Defined /\ \A r \in Requests : Ending(r)

\* A request that is over, or has timed out, is awaited as long as it is remembered.
LEMMA OverIsAwaited ==
    ASSUME NEW s \in Requests, Ending(s)', m_finished[s] => Nearer(s),
           \/ m_finished'[s] \/ m_hasTimeOut'[s] \/ StaysAwaited(s)
    PROVE  Forward(s)
BY DEF Forward, Ending, Remembered, StaysAwaited, Awaited

\* The client, whichever thread it is on, starts requests that are not over, and lets go
\* of them.
LEMMA ClientEnds ==
    ASSUME AllIsWell, Defined', ~Undefined', NEW r \in Requests, Client(r),
           NEW s \in Requests
    PROVE  Forward(s)
<1> USE RequestAssumption
    DEF AllIsWell, RequestTypeOK, Ending, Defined, Working, TimerStarted, FiredOnce, Executes,
        Switching, timerVars, objectVars, flagVars, callbackVars
<1>0. m_calls \in Seq(Requests) /\ Timers \subseteq Requests
  BY TimersAreRequests
<1>1. CASE \E x \in Threads : AsyncRequest(x, r)
  <2>1. Timers' = Timers
    BY <1>1, <1>0 DEF AsyncRequest, Go, Timers
  <2>2. LetGo(s)' /\ TooLate(s)'
    BY <1>1 DEF TooLate, InCS, LetGo, Counted, Holds, AsyncRequest, Go
  <2>3. Remembered(s)'
    <3>1. CASE pc[s] = "idle"
      <4>1. ~m_finished[s] /\ ~m_hasTimeOut[s]
        BY <3>1
      <4>2. QED
        BY <1>1, <4>1 DEF Remembered, AsyncRequest
    <3>2. CASE pc[s] # "idle"
      BY <1>1, <3>2 DEF Remembered, Delivers, AsyncRequest, Go
    <3>3. QED
      BY <3>1, <3>2
  <2>4. m_finished[s] => Nearer(s)
    BY <1>1 DEF Nearer, LetGo, Counted, Holds, AsyncRequest, Go
  <2>5. m_finished'[s] \/ m_hasTimeOut'[s] \/ StaysAwaited(s)
    BY <1>1, <1>0, <2>1
       DEF StaysAwaited, Awaited, Delivers, Counted, Holds, OneTimer, NotRun,
           AsyncRequest, Go
  <2>6. QED
    BY <2>2, <2>3, <2>4, <2>5, OverIsAwaited
<1>2. CASE AsyncRequestNoUrl(r)
  <2>1. Timers' = Timers
    BY <1>2, <1>0 DEF AsyncRequestNoUrl, Go, Timers
  <2>2. LetGo(s)' /\ TooLate(s)'
    BY <1>2 DEF TooLate, InCS, LetGo, Counted, Holds, AsyncRequestNoUrl, Go
  <2>3. Remembered(s)'
    BY <1>2 DEF Remembered, Delivers, NotRun, AsyncRequestNoUrl, Go
  <2>4. m_finished[s] => Nearer(s)
    BY <1>2 DEF Nearer, LetGo, Counted, Holds, AsyncRequestNoUrl, Go
  <2>5. m_finished'[s] \/ m_hasTimeOut'[s] \/ StaysAwaited(s)
    BY <1>2, <1>0, <2>1
       DEF StaysAwaited, Awaited, Delivers, Counted, Holds, OneTimer, NotRun,
           AsyncRequestNoUrl, Go
  <2>6. QED
    BY <2>2, <2>3, <2>4, <2>5, OverIsAwaited
<1>3. CASE AsyncRequestTimer(r)
  <2>1. Timers' = Timers \cup {r}
    BY <1>3, <1>0, AddTimerAdds DEF AsyncRequestTimer, AddTimer, OneTimer
  <2>2. LetGo(s)' /\ TooLate(s)'
    BY <1>3 DEF TooLate, InCS, LetGo, Counted, Holds, AsyncRequestTimer, AddTimer
  <2>3. Remembered(s)'
    BY <1>3 DEF Remembered, Delivers, NotRun, AsyncRequestTimer, AddTimer
  <2>4. m_finished[s] => Nearer(s)
    BY <1>3 DEF Nearer, LetGo, Counted, Holds, AsyncRequestTimer, AddTimer
  <2>5. m_finished'[s] \/ m_hasTimeOut'[s] \/ StaysAwaited(s)
    BY <1>3, <1>0, <2>1
       DEF StaysAwaited, Awaited, Delivers, Counted, Holds, OneTimer, NotRun,
           AsyncRequestTimer, AddTimer
  <2>6. QED
    BY <2>2, <2>3, <2>4, <2>5, OverIsAwaited
<1>4. CASE Close(r)
  <2>1. Timers' = Timers
    BY <1>4, <1>0 DEF Close, Timers
  <2>2. LetGo(s)' /\ TooLate(s)'
    BY <1>4 DEF TooLate, InCS, LetGo, Counted, Holds, Close
  <2>3. Remembered(s)'
    BY <1>4 DEF Remembered, Delivers, NotRun, Close
  <2>4. m_finished[s] => Nearer(s)
    BY <1>4 DEF Nearer, LetGo, Counted, Holds, Close
  <2>5. m_finished'[s] \/ m_hasTimeOut'[s] \/ StaysAwaited(s)
    BY <1>4, <1>0, <2>1
       DEF StaysAwaited, Awaited, Delivers, Counted, Holds, OneTimer, NotRun, Close
  <2>6. QED
    BY <2>2, <2>3, <2>4, <2>5, OverIsAwaited
<1>5. CASE \E x \in Threads : Release(x, r)
  <2>1. Timers' = Timers
    BY <1>5, <1>0 DEF Release, Drop, Timers
  <2>2. LetGo(s)' /\ TooLate(s)'
    BY <1>5 DEF TooLate, InCS, LetGo, Counted, Holds, Release, Drop
  <2>3. Remembered(s)'
    BY <1>5 DEF Remembered, Delivers, NotRun, Release, Drop
  <2>4. m_finished[s] => Nearer(s)
    BY <1>5 DEF Nearer, LetGo, Counted, Holds, Release, Drop
  <2>5. m_finished'[s] \/ m_hasTimeOut'[s] \/ StaysAwaited(s)
    BY <1>5, <1>0, <2>1
       DEF StaysAwaited, Awaited, Delivers, Counted, Holds, OneTimer, NotRun, Release,
           Drop
  <2>6. QED
    BY <2>2, <2>3, <2>4, <2>5, OverIsAwaited
<1>6. QED
  BY <1>1, <1>2, <1>3, <1>4, <1>5 DEF Client

\* The thread of the request hands its reference over to the result, or gives it up when
\* the timer was first.
LEMMA RequestEnds ==
    ASSUME AllIsWell, Defined', ~Undefined', NEW r \in Requests, RequestThread(r),
           NEW s \in Requests
    PROVE  Forward(s)
<1> USE RequestAssumption
    DEF AllIsWell, RequestTypeOK, Ending, Defined, Working, TimerStarted, FiredOnce, Executes,
        Switching, timerVars, objectVars, flagVars, callbackVars
<1>0. m_calls \in Seq(Requests) /\ Timers \subseteq Requests
  BY TimersAreRequests
<1>1. CASE Finish(r)
  <2>1. Timers' = Timers
    BY <1>1, <1>0 DEF Finish, Go, Timers
  <2>2. LetGo(s)' /\ TooLate(s)'
    BY <1>1 DEF TooLate, InCS, LetGo, Counted, Holds, Finish, Go
  <2>3. Remembered(s)'
    BY <1>1 DEF Remembered, Delivers, NotRun, Finish, Go
  <2>4. m_finished[s] => Nearer(s)
    BY <1>1 DEF Nearer, LetGo, Counted, Holds, Finish, Go
  <2>5. m_finished'[s] \/ m_hasTimeOut'[s] \/ StaysAwaited(s)
    BY <1>1, <1>0, <2>1
       DEF StaysAwaited, Awaited, Delivers, Counted, Holds, OneTimer, NotRun, Finish,
           Go
  <2>6. QED
    BY <2>2, <2>3, <2>4, <2>5, OverIsAwaited
<1>2. CASE ResetOwn(r)
  <2>1. Timers' = Timers
    BY <1>2, <1>0 DEF ResetOwn, Drop, Go, Timers
  <2>2. LetGo(s)' /\ TooLate(s)'
    BY <1>2 DEF TooLate, InCS, LetGo, Counted, Holds, ResetOwn, Drop, Go
  <2>3. Remembered(s)'
    BY <1>2 DEF Remembered, Delivers, NotRun, ResetOwn, Drop, Go
  <2>4. m_finished[s] => Nearer(s)
    BY <1>2 DEF Nearer, LetGo, Counted, Holds, ResetOwn, Drop, Go
  <2>5. m_finished'[s] \/ m_hasTimeOut'[s] \/ StaysAwaited(s)
    BY <1>2, <1>0, <2>1
       DEF StaysAwaited, Awaited, Delivers, Counted, Holds, OneTimer, NotRun,
           ResetOwn, Drop, Go
  <2>6. QED
    BY <2>2, <2>3, <2>4, <2>5, OverIsAwaited
<1>3. CASE LeaveCS(r)
  <2>1. Timers' = Timers
    BY <1>3, <1>0 DEF LeaveCS, Go, Timers
  <2>2. LetGo(s)' /\ TooLate(s)'
    BY <1>3 DEF TooLate, InCS, LetGo, Counted, Holds, LeaveCS, Go
  <2>3. Remembered(s)'
    BY <1>3 DEF Remembered, Delivers, NotRun, LeaveCS, Go
  <2>4. m_finished[s] => Nearer(s)
    BY <1>3 DEF Nearer, LetGo, Counted, Holds, LeaveCS, Go
  <2>5. m_finished'[s] \/ m_hasTimeOut'[s] \/ StaysAwaited(s)
    BY <1>3, <1>0, <2>1
       DEF StaysAwaited, Awaited, Delivers, Counted, Holds, OneTimer, NotRun, LeaveCS,
           Go
  <2>6. QED
    BY <2>2, <2>3, <2>4, <2>5, OverIsAwaited
<1>4. CASE MakeResult(r)
  <2>1. Timers' = Timers
    BY <1>4, <1>0 DEF MakeResult, Go, Timers
  <2>2. LetGo(s)' /\ TooLate(s)'
    BY <1>4 DEF TooLate, InCS, LetGo, Counted, Holds, MakeResult, Go
  <2>3. Remembered(s)'
    BY <1>4 DEF Remembered, Delivers, NotRun, MakeResult, Go
  <2>4. m_finished[s] => Nearer(s)
    BY <1>4 DEF Nearer, LetGo, Counted, Holds, MakeResult, Go
  <2>5. m_finished'[s] \/ m_hasTimeOut'[s] \/ StaysAwaited(s)
    BY <1>4, <1>0, <2>1
       DEF StaysAwaited, Awaited, Delivers, Counted, Holds, OneTimer, NotRun,
           MakeResult, Go
  <2>6. QED
    BY <2>2, <2>3, <2>4, <2>5, OverIsAwaited
<1>5. QED
  BY <1>1, <1>2, <1>3, <1>4 DEF RequestThread

\* The timer takes the answer over, unless the thread of the request delivers it.
LEMMA TimeOutEnds ==
    ASSUME AllIsWell, Defined', ~Undefined', NEW r \in Requests, TimeOut(r),
           NEW s \in Requests
    PROVE  Forward(s)
<1> USE RequestAssumption
    DEF AllIsWell, RequestTypeOK, Ending, Defined, Working, TimerStarted, FiredOnce, Executes,
        Switching, timerVars, objectVars, flagVars, callbackVars
<1>0. m_calls \in Seq(Requests) /\ Timers \subseteq Requests
  BY TimersAreRequests
<1>1. CASE ProcessTimeOut(r)
  <2>1. Timers' = Timers
    BY <1>1, <1>0 DEF ProcessTimeOut, Go, Timers
  <2>2. LetGo(s)' /\ TooLate(s)'
    BY <1>1 DEF TooLate, InCS, LetGo, Counted, Holds, ProcessTimeOut, Go
  <2>3. Remembered(s)'
    BY <1>1 DEF Remembered, Delivers, NotRun, ProcessTimeOut, Go
  <2>4. m_finished[s] => Nearer(s)
    BY <1>1 DEF Nearer, LetGo, Counted, Holds, ProcessTimeOut, Go
  <2>5. m_finished'[s] \/ m_hasTimeOut'[s] \/ StaysAwaited(s)
    BY <1>1, <1>0, <2>1
       DEF StaysAwaited, Awaited, Delivers, Counted, Holds, OneTimer, NotRun,
           ProcessTimeOut, Go
  <2>6. QED
    BY <2>2, <2>3, <2>4, <2>5, OverIsAwaited
<1>2. CASE ProcessTimeOutTooLate(r)
  <2>1. Timers' = Timers
    BY <1>2, <1>0 DEF ProcessTimeOutTooLate, ItemDone, Go, Timers
  <2>2. LetGo(s)' /\ TooLate(s)'
    BY <1>2
       DEF TooLate, InCS, LetGo, Counted, Holds, ProcessTimeOutTooLate, ItemDone, Go
  <2>3. Remembered(s)'
    BY <1>2 DEF Remembered, Delivers, NotRun, ProcessTimeOutTooLate, ItemDone, Go
  <2>4. m_finished[s] => Nearer(s)
    BY <1>2 DEF Nearer, LetGo, Counted, Holds, ProcessTimeOutTooLate, ItemDone, Go
  <2>5. m_finished'[s] \/ m_hasTimeOut'[s] \/ StaysAwaited(s)
    BY <1>2, <1>0, <2>1
       DEF StaysAwaited, Awaited, Delivers, Counted, Holds, OneTimer, NotRun,
           ProcessTimeOutTooLate, ItemDone, Go
  <2>6. QED
    BY <2>2, <2>3, <2>4, <2>5, OverIsAwaited
<1>3. QED
  BY <1>1, <1>2 DEF TimeOut

\* The destructor deletes the timer of an object whose callback is done with.
LEMMA DestructorEnds ==
    ASSUME AllIsWell, Defined', ~Undefined', NEW r \in Requests, Destructor(r),
           NEW s \in Requests
    PROVE  Forward(s)
<1> USE RequestAssumption
    DEF AllIsWell, RequestTypeOK, Ending, Defined, Working, TimerStarted, FiredOnce, Executes,
        Switching, timerVars, objectVars, flagVars, callbackVars
<1>0. m_calls \in Seq(Requests) /\ Timers \subseteq Requests
  BY TimersAreRequests
<1>1. Timers' = Timers \ {r}
  BY <1>0, DeleteTimerLeaves DEF Destructor
<1>2. LetGo(s)' /\ TooLate(s)'
  BY  DEF TooLate, InCS, LetGo, Counted, Holds, Destructor, DeleteTimer
<1>3. Remembered(s)'
  BY  DEF Remembered, Delivers, NotRun, Destructor, DeleteTimer
<1>4. m_finished[s] => Nearer(s)
  BY  DEF Nearer, LetGo, Counted, Holds, Destructor, DeleteTimer
<1>5. m_finished'[s] \/ m_hasTimeOut'[s] \/ StaysAwaited(s)
  BY <1>0, <1>1
     DEF StaysAwaited, Awaited, Delivers, Counted, Holds, OneTimer, NotRun,
         Destructor, DeleteTimer
<1>6. QED
  BY <1>2, <1>3, <1>4, <1>5, OverIsAwaited

\* Who serves a request goes on to its callback, and lets go of the object after it.
LEMMA ServingEnds ==
    ASSUME AllIsWell, Defined', ~Undefined', NEW r \in Requests, NEW x \in {r, "timer"}, ProcessThreadSwitched(x, r),
           NEW s \in Requests
    PROVE  Forward(s)
<1> USE RequestAssumption
    DEF AllIsWell, RequestTypeOK, Ending, Defined, Working, TimerStarted, FiredOnce, Executes,
        Switching, timerVars, objectVars, flagVars, callbackVars
<1>0. m_calls \in Seq(Requests) /\ Timers \subseteq Requests
  BY TimersAreRequests
<1>1. CASE Switched(x, r)
  <2>1. Timers' = Timers
    BY <1>1, <1>0 DEF Switched, Go, Serves, Timers
  <2>2. LetGo(s)' /\ TooLate(s)'
    BY <1>1 DEF TooLate, InCS, LetGo, Counted, Holds, Switched, Go, Serves
  <2>3. Remembered(s)'
    BY <1>1 DEF Remembered, Delivers, NotRun, Switched, Go, Serves
  <2>4. m_finished[s] => Nearer(s)
    BY <1>1 DEF Nearer, LetGo, Counted, Holds, Switched, Go, Serves
  <2>5. m_finished'[s] \/ m_hasTimeOut'[s] \/ StaysAwaited(s)
    BY <1>1, <1>0, <2>1
       DEF StaysAwaited, Awaited, Delivers, Counted, Holds, OneTimer, NotRun,
           Switched, Go, Serves
  <2>6. QED
    BY <2>2, <2>3, <2>4, <2>5, OverIsAwaited
<1>2. CASE SwitchedDeletes(x, r)
  <2>1. Timers' = Timers \ {r}
    BY <1>2, <1>0, DeleteTimerLeaves DEF SwitchedDeletes, Go, Serves
  <2>2. LetGo(s)' /\ TooLate(s)'
    BY <1>2
       DEF TooLate, InCS, LetGo, Counted, Holds, SwitchedDeletes, DeleteTimer, Go,
           Serves
  <2>3. Remembered(s)'
    BY <1>2 DEF Remembered, Delivers, NotRun, SwitchedDeletes, DeleteTimer, Go, Serves
  <2>4. m_finished[s] => Nearer(s)
    BY <1>2 DEF Nearer, LetGo, Counted, Holds, SwitchedDeletes, DeleteTimer, Go, Serves
  <2>5. m_finished'[s] \/ m_hasTimeOut'[s] \/ StaysAwaited(s)
    BY <1>2, <1>0, <2>1
       DEF StaysAwaited, Awaited, Delivers, Counted, Holds, OneTimer, NotRun,
           SwitchedDeletes, DeleteTimer, Go, Serves
  <2>6. QED
    BY <2>2, <2>3, <2>4, <2>5, OverIsAwaited
<1>3. CASE CallbackReturns(x, r)
  <2>1. Timers' = Timers
    BY <1>3, <1>0 DEF CallbackReturns, Go, Serves, Timers
  <2>2. LetGo(s)' /\ TooLate(s)'
    BY <1>3 DEF TooLate, InCS, LetGo, Counted, Holds, CallbackReturns, Go, Serves
  <2>3. Remembered(s)'
    BY <1>3 DEF Remembered, Delivers, NotRun, CallbackReturns, Go, Serves
  <2>4. m_finished[s] => Nearer(s)
    BY <1>3 DEF Nearer, LetGo, Counted, Holds, CallbackReturns, Go, Serves
  <2>5. m_finished'[s] \/ m_hasTimeOut'[s] \/ StaysAwaited(s)
    BY <1>3, <1>0, <2>1
       DEF StaysAwaited, Awaited, Delivers, Counted, Holds, OneTimer, NotRun,
           CallbackReturns, Go, Serves
  <2>6. QED
    BY <2>2, <2>3, <2>4, <2>5, OverIsAwaited
<1>4. CASE SwitchedCloses(x, r)
  <2>1. Timers' = Timers
    BY <1>4, <1>0 DEF SwitchedCloses, Go, Serves, Timers
  <2>2. LetGo(s)' /\ TooLate(s)'
    BY <1>4 DEF TooLate, InCS, LetGo, Counted, Holds, SwitchedCloses, Go, Serves
  <2>3. Remembered(s)'
    BY <1>4 DEF Remembered, Delivers, NotRun, SwitchedCloses, Go, Serves
  <2>4. m_finished[s] => Nearer(s)
    BY <1>4 DEF Nearer, LetGo, Counted, Holds, SwitchedCloses, Go, Serves
  <2>5. m_finished'[s] \/ m_hasTimeOut'[s] \/ StaysAwaited(s)
    BY <1>4, <1>0, <2>1
       DEF StaysAwaited, Awaited, Delivers, Counted, Holds, OneTimer, NotRun,
           SwitchedCloses, Go, Serves
  <2>6. QED
    BY <2>2, <2>3, <2>4, <2>5, OverIsAwaited
<1>5. CASE SwitchedClosed(x, r)
  <2>1. Timers' = Timers
    BY <1>5, <1>0 DEF SwitchedClosed, Go, Serves, Timers
  <2>2. LetGo(s)' /\ TooLate(s)'
    BY <1>5 DEF TooLate, InCS, LetGo, Counted, Holds, SwitchedClosed, Go, Serves
  <2>3. Remembered(s)'
    BY <1>5 DEF Remembered, Delivers, NotRun, SwitchedClosed, Go, Serves
  <2>4. m_finished[s] => Nearer(s)
    BY <1>5 DEF Nearer, LetGo, Counted, Holds, SwitchedClosed, Go, Serves
  <2>5. m_finished'[s] \/ m_hasTimeOut'[s] \/ StaysAwaited(s)
    BY <1>5, <1>0, <2>1
       DEF StaysAwaited, Awaited, Delivers, Counted, Holds, OneTimer, NotRun,
           SwitchedClosed, Go, Serves
  <2>6. QED
    BY <2>2, <2>3, <2>4, <2>5, OverIsAwaited
<1>6. CASE DropResult(x, r)
  <2>1. Timers' = Timers
    BY <1>6, <1>0 DEF DropResult, Drop, Serves, Holder, Timers
  <2>2. LetGo(s)' /\ TooLate(s)'
    BY <1>6 DEF TooLate, InCS, LetGo, Counted, Holds, DropResult, Drop, Serves, Holder
  <2>3. Remembered(s)'
    BY <1>6 DEF Remembered, Delivers, NotRun, DropResult, Drop, Serves, Holder
  <2>4. m_finished[s] => Nearer(s)
    BY <1>6 DEF Nearer, LetGo, Counted, Holds, DropResult, Drop, Serves, Holder
  <2>5. m_finished'[s] \/ m_hasTimeOut'[s] \/ StaysAwaited(s)
    BY <1>6, <1>0, <2>1
       DEF StaysAwaited, Awaited, Delivers, Counted, Holds, OneTimer, NotRun,
           DropResult, Drop, Serves, Holder
  <2>6. QED
    BY <2>2, <2>3, <2>4, <2>5, OverIsAwaited
<1>7. CASE SwitchedReturns(x, r)
  <2>1. Timers' = Timers
    BY <1>7, <1>0 DEF SwitchedReturns, ItemDone, Go, Serves, Holder, Timers
  <2>2. LetGo(s)' /\ TooLate(s)'
    BY <1>7
       DEF TooLate, InCS, LetGo, Counted, Holds, SwitchedReturns, ItemDone, Go,
           Serves, Holder
  <2>3. Remembered(s)'
    BY <1>7
       DEF Remembered, Delivers, NotRun, SwitchedReturns, ItemDone, Go, Serves, Holder
  <2>4. m_finished[s] => Nearer(s)
    BY <1>7
       DEF Nearer, LetGo, Counted, Holds, SwitchedReturns, ItemDone, Go, Serves,
           Holder
  <2>5. m_finished'[s] \/ m_hasTimeOut'[s] \/ StaysAwaited(s)
    BY <1>7, <1>0, <2>1
       DEF StaysAwaited, Awaited, Delivers, Counted, Holds, OneTimer, NotRun,
           SwitchedReturns, ItemDone, Go, Serves, Holder
  <2>6. QED
    BY <2>2, <2>3, <2>4, <2>5, OverIsAwaited
<1>8. QED
  BY <1>1, <1>2, <1>3, <1>4, <1>5, <1>6, <1>7 DEF ProcessThreadSwitched

\* The walk executes a timer or erases one that has run.
LEMMA WalkEnds ==
    ASSUME AllIsWell, Defined', ~Undefined', Tick,
           NEW s \in Requests
    PROVE  Forward(s)
<1> USE RequestAssumption
    DEF AllIsWell, RequestTypeOK, Ending, Defined, Working, TimerStarted, FiredOnce, Executes,
        Switching, timerVars, objectVars, flagVars, callbackVars
<1>0. m_calls \in Seq(Requests) /\ Timers \subseteq Requests
  BY TimersAreRequests
<1>u. UNCHANGED <<objectVars, adder, flagVars, callbackVars, sessionVars>>
  BY DEF Tick
<1>1. CASE ItemErased
  <2>1. Timers' = Timers \ {m_calls[visit]}
    BY <1>1, <1>u, <1>0, WithoutLeaves DEF ItemErased, Visiting
  <2>2. LetGo(s)' /\ TooLate(s)'
    BY <1>1, <1>u DEF TooLate, InCS, LetGo, Counted, Holds, ItemErased, Visiting
  <2>3. Remembered(s)'
    BY <1>1, <1>u DEF Remembered, Delivers, NotRun, ItemErased, Visiting
  <2>4. m_finished[s] => Nearer(s)
    BY <1>1, <1>u DEF Nearer, LetGo, Counted, Holds, ItemErased, Visiting
  <2>5. m_finished'[s] \/ m_hasTimeOut'[s] \/ StaysAwaited(s)
    BY <1>1, <1>u, <1>0, <2>1
       DEF StaysAwaited, Awaited, Delivers, Counted, Holds, OneTimer, NotRun,
           ItemErased, Visiting
  <2>6. QED
    BY <2>2, <2>3, <2>4, <2>5, OverIsAwaited
<1>2. CASE ItemExecuted
  <2>1. Timers' = Timers
    BY <1>2, <1>u, <1>0 DEF ItemExecuted, Go, Visiting, Timers
  <2>2. LetGo(s)' /\ TooLate(s)'
    BY <1>2, <1>u DEF TooLate, InCS, LetGo, Counted, Holds, ItemExecuted, Go, Visiting
  <2>3. Remembered(s)'
    BY <1>2, <1>u DEF Remembered, Delivers, NotRun, ItemExecuted, Go, Visiting
  <2>4. m_finished[s] => Nearer(s)
    BY <1>2, <1>u DEF Nearer, LetGo, Counted, Holds, ItemExecuted, Go, Visiting
  <2>5. m_finished'[s] \/ m_hasTimeOut'[s] \/ StaysAwaited(s)
    BY <1>2, <1>u, <1>0, <2>1
       DEF StaysAwaited, Awaited, Delivers, Counted, Holds, OneTimer, NotRun,
           ItemExecuted, Go, Visiting
  <2>6. QED
    BY <2>2, <2>3, <2>4, <2>5, OverIsAwaited
<1>3. CASE CheckCalls \/ WaitForTimer \/ TickBegin \/ ItemWaits \/ TickEnd
  <2>1. Timers' = Timers
    BY <1>3, <1>u, <1>0
       DEF CheckCalls, WaitForTimer, TickBegin, ItemWaits, TickEnd, Go, Visiting,
           Timers
  <2>2. LetGo(s)' /\ TooLate(s)'
    BY <1>3, <1>u
       DEF TooLate, InCS, LetGo, Counted, Holds, CheckCalls, WaitForTimer, TickBegin,
           ItemWaits, TickEnd, Go, Visiting
  <2>3. Remembered(s)'
    BY <1>3, <1>u
       DEF Remembered, Delivers, NotRun, CheckCalls, WaitForTimer, TickBegin,
           ItemWaits, TickEnd, Go, Visiting
  <2>4. m_finished[s] => Nearer(s)
    BY <1>3, <1>u
       DEF Nearer, LetGo, Counted, Holds, CheckCalls, WaitForTimer, TickBegin,
           ItemWaits, TickEnd, Go, Visiting
  <2>5. m_finished'[s] \/ m_hasTimeOut'[s] \/ StaysAwaited(s)
    BY <1>3, <1>u, <1>0, <2>1
       DEF StaysAwaited, Awaited, Delivers, Counted, Holds, OneTimer, NotRun,
           CheckCalls, WaitForTimer, TickBegin, ItemWaits, TickEnd, Go, Visiting
  <2>6. QED
    BY <2>2, <2>3, <2>4, <2>5, OverIsAwaited
<1>4. CASE ItemMissing
  BY <1>4 DEF ItemMissing, Undefined
<1>5. QED
  BY <1>1, <1>2, <1>3, <1>4 DEF Tick, TimerThread

\* The sessions, and a program that stands still, leave the requests as they are.
LEMMA OthersEnd ==
    ASSUME AllIsWell, UNCHANGED <<pc, requestVars>>, NEW s \in Requests PROVE Forward(s)
<1>1. Timers' = Timers
  BY DEF Timers, requestVars, timerVars
<1>2. UNCHANGED <<adder, m_stoped, refs, deleter, m_finished, m_hasTimeOut, m_callback, item>>
  BY DEF requestVars, timerVars, objectVars, callbackVars
<1>3. Ending(s)'
  BY <1>2 DEF AllIsWell, Ending, Remembered, Delivers, LetGo, TooLate, InCS
<1>4. StaysAwaited(s)
  BY <1>1, <1>2 DEF StaysAwaited, Awaited, Executes, Delivers
<1>5. Nearer(s)
  BY <1>2 DEF AllIsWell, Ending, LetGo, Nearer, Defined, Counted
<1>6. QED
  BY <1>3, <1>4, <1>5 DEF Forward

\* A session that is followed leaves its request alone, or the behaviour is undefined.
LEMMA FollowedFrame ==
    ASSUME IInv, NEW r \in Sessions, NEW x \in Users, ~Undefined',
           \/ StartRequest(r) \/ SessionRequest(r)
           \/ CloseTested(r, x) \/ CWebRequestClose(r, x) \/ HeadersRace(r, x)
    PROVE  UNCHANGED <<pc, requestVars>>
<1>1. CASE HeadersRace(r, x)
  BY <1>1 DEF HeadersRace, Undefined, IInv, RequestTypeOK
<1>2. CASE StartRequest(r) \/ SessionRequest(r) \/ CloseTested(r, x)
  BY <1>2 DEF StartRequest, SessionRequest, CloseTested
<1>3. CASE CWebRequestClose(r, x)
  BY <1>3 DEF CWebRequestClose, CloseSet, CloseLocked, CloseResets, CloseDone
<1>4. QED
  BY <1>1, <1>2, <1>3

\* Every step of the program is one of these.
LEMMA NextEnds ==
    ASSUME AllIsWell, IInv, IInv', [Next]_vars, ~Undefined', NEW s \in Requests
    PROVE  Forward(s)
<1>0. Defined'
  BY DEF IInv
<1>1. CASE Tick
  BY <1>0, <1>1, WalkEnds
<1>2. ASSUME NEW r \in Requests,
             Client(r) \/ RequestThread(r) \/ TimeOut(r) \/ Destructor(r)
      PROVE  Forward(s)
  BY <1>0, <1>2, ClientEnds, RequestEnds, TimeOutEnds, DestructorEnds
<1>3. ASSUME NEW r \in Requests, NEW x \in {r, "timer"}, ProcessThreadSwitched(x, r)
      PROVE  Forward(s)
  BY <1>0, <1>3, ServingEnds
<1>4. ASSUME NEW r \in Sessions,
             \/ StartRequest(r) \/ SessionRequest(r)
             \/ \E x \in Users :
                  CloseTested(r, x) \/ CWebRequestClose(r, x) \/ HeadersRace(r, x)
      PROVE  Forward(s)
  BY <1>4, FollowedFrame, OthersEnd DEF Users
<1>5. CASE UNCHANGED vars
  BY <1>5, OthersEnd DEF vars, requestVars, flagVars
<1>6. QED
  BY <1>1, <1>2, <1>3, <1>4, <1>5 DEF Next

\* A behaviour that is undefined stays so.
LEMMA StaysUndefined == ASSUME IInv, IInv', [Next]_vars, Undefined PROVE Undefined'
<1>1. /\ \A r \in Requests : pc[r] = "undefined"
      /\ pc \in [Requests \cup {"timer"} -> Places]
      /\ pc["timer"] = "undefined"
  BY DEF IInv, AllOrNone, Undefined, RequestTypeOK
<1>2. ASSUME NEW r \in Requests, Client(r) \/ Destructor(r) PROVE Undefined'
  BY <1>1, <1>2, RequestAssumption
     DEF Client, AsyncRequest, AsyncRequestNoUrl, AsyncRequestTimer, Close, Release, Destructor,
         Started, Undefined
<1>3. ASSUME NEW r \in Requests, RequestThread(r) \/ TimeOut(r) PROVE Undefined'
  BY <1>1, <1>3
     DEF RequestThread, Finish, ResetOwn, LeaveCS, MakeResult, TimeOut, ProcessTimeOut,
         ProcessTimeOutTooLate
<1>4. ASSUME NEW r \in Requests, NEW x \in {r, "timer"}, ProcessThreadSwitched(x, r)
      PROVE  Undefined'
  BY <1>1, <1>4
     DEF ProcessThreadSwitched, Switched, SwitchedDeletes, CallbackReturns, SwitchedCloses,
         SwitchedClosed, DropResult, SwitchedReturns
<1>5. CASE Tick
  BY <1>1, <1>5
     DEF Tick, TimerThread, CheckCalls, WaitForTimer, TickBegin, Visiting, ItemWaits, ItemErased,
         ItemExecuted, TickEnd, ItemMissing
<1>6. ASSUME NEW r \in Sessions,
             \/ StartRequest(r) \/ SessionRequest(r)
             \/ \E x \in Users :
                  CloseTested(r, x) \/ CWebRequestClose(r, x) \/ HeadersRace(r, x)
      PROVE  Undefined'
  BY <1>6, FollowedFrame DEF Users, Undefined
<1>7. CASE UNCHANGED vars
  BY <1>7 DEF vars, Undefined
<1>8. QED
  BY <1>2, <1>3, <1>4, <1>5, <1>6, <1>7 DEF Next

\* A state that keeps both invariants.
LEMMA Well ==
    ASSUME IInv, NoneLeftBehind, ~Undefined PROVE AllIsWell
BY DEF AllIsWell, IInv, NoneLeftBehind

\* Whoever holds an object whose request is over lets go of it, and the callback of a
\* request that is over, or has timed out, has somebody who runs it or drops it: no
\* cycle of references is left, with m_own among them (HttpWebRequest.cpp:162-193,
\* 242-283).
THEOREM NobodyLeftBehind == Spec => []NoneLeftBehind
<1>1. ASSUME Init PROVE NoneLeftBehind
  <2>1. ASSUME NEW r \in Requests PROVE Ending(r)
    <3>1. /\ refs[r] = {"client", "own"} /\ pc[r] = "idle"
          /\ m_finished[r] = FALSE /\ m_hasTimeOut[r] = FALSE
      BY <1>1, RequestAssumption DEF Init
    <3>2. QED
      BY <3>1 DEF Ending, Remembered, LetGo, TooLate, InCS
  <2>2. QED
    BY <2>1, Zenon DEF NoneLeftBehind
<1>2. ASSUME IInv, IInv', NoneLeftBehind, [Next]_vars PROVE NoneLeftBehind'
  <2>1. SUFFICES ASSUME ~Undefined', NEW s \in Requests PROVE Ending(s)'
    BY DEF NoneLeftBehind
  <2>2. AllIsWell
    BY <1>2, <2>1, StaysUndefined, Well
  <2>3. QED
    BY <1>2, <2>1, <2>2, NextEnds DEF Forward
<1>3. QED
  BY <1>1, <1>2, Invariance, PTL DEF Spec

\* The answer to a request with a timer is not lost on its way: the timer stays in the
\* list until it executes or the other thread answers, and what executes is delivered,
\* unless the callback is dropped because the request was closed
\* (HttpWebRequest.cpp:83, 162-193, 242-283).
THEOREM AnswerIsKept == Spec => AnswerKept
<1>1. ASSUME IInv, IInv', NoneLeftBehind, [Next]_vars, NEW s \in Requests
      PROVE  StaysAwaited(s)
  <2>1. CASE Undefined'
    BY <2>1 DEF StaysAwaited
  <2>2. CASE ~Undefined'
    <3>1. AllIsWell
      BY <1>1, <2>2, StaysUndefined, Well
    <3>2. QED
      BY <1>1, <2>2, <3>1, NextEnds DEF Forward
  <2>3. QED
    BY <2>1, <2>2
<1>2. IInv /\ IInv' /\ NoneLeftBehind /\ [Next]_vars => \A r \in Requests : StaysAwaited(r)
  BY <1>1
<1>3. QED
  BY <1>2, Invariance, NobodyLeftBehind, PTL DEF Spec, AnswerKept

\* The references to an object whose request is over are dropped one by one, and the last
\* leaves it to one destructor, which no other follows (HttpWebRequest.cpp:169, 191-193,
\* 288).
THEOREM CollectionComesNearer == Spec => CollectionNears
<1>1. ASSUME IInv, IInv', NoneLeftBehind, [Next]_vars, NEW s \in Requests,
             m_finished[s], ~Undefined'
      PROVE  Nearer(s)
  <2>1. AllIsWell
    BY <1>1, StaysUndefined, Well
  <2>2. QED
    BY <1>1, <2>1, NextEnds DEF Forward
<1>2. IInv /\ IInv' /\ NoneLeftBehind /\ [Next]_vars =>
        \A r \in Requests : m_finished[r] /\ ~Undefined' => Nearer(r)
  BY <1>1
<1>3. QED
  BY <1>2, Invariance, NobodyLeftBehind, PTL DEF Spec, CollectionNears
-----------------------------------------------------------------------------
(* The walk of the timers, for which destructors wait.                      *)

\* The timer thread walks, serves a request, waits, or is undefined.
TimerAtWork == pc["timer"] \in Outside \cup Switching \cup {"visit", "execute", "undefined"}

\* Dropping a reference adds none.
LEMMA DropOnlyDrops ==
    ASSUME RequestTypeOK, NEW r \in Requests, NEW x, NEW h, Drop(x, r, h), NEW q \in Requests
    PROVE  refs'[q] \subseteq refs[q]
BY DEF RequestTypeOK, Drop

\* Whatever is not a step of the timer thread leaves the walk as it is.
LEMMA OthersWalk ==
    ASSUME IInv, [Next]_vars, ~Undefined', ~TimerSteps
    PROVE  /\ pc'["timer"] = pc["timer"] /\ visit' = visit /\ item' = item
           /\ \A q \in Requests : "timer" \notin refs[q] => "timer" \notin refs'[q]
<1> DEFINE Leaves == /\ pc'["timer"] = pc["timer"] /\ visit' = visit /\ item' = item
                     /\ \A q \in Requests : "timer" \notin refs[q] => "timer" \notin refs'[q]
<1>0. /\ RequestTypeOK /\ pc \in [Requests \cup {"timer"} -> Places]
      /\ refs \in [Requests -> SUBSET {"client", "own", "thread", "timer"}]
  BY DEF IInv, RequestTypeOK
<1> USE <1>0, RequestAssumption DEF Go, timerVars, objectVars, flagVars, callbackVars
<1>1. ASSUME NEW r \in Requests, Client(r) PROVE Leaves
  <2>1. CASE AsyncRequestNoUrl(r) \/ AsyncRequestTimer(r) \/ Close(r)
    BY <2>1 DEF AsyncRequestNoUrl, AsyncRequestTimer, AddTimer, Close
  <2>2. ASSUME NEW x \in Threads, AsyncRequest(x, r) PROVE Leaves
    BY <2>2 DEF AsyncRequest
  <2>3. ASSUME NEW x \in Threads, Release(x, r) PROVE Leaves
    BY <2>3, DropOnlyDrops DEF Release
  <2>4. QED
    BY <1>1, <2>1, <2>2, <2>3 DEF Client
<1>2. ASSUME NEW r \in Requests, RequestThread(r) PROVE Leaves
  <2>1. CASE ResetOwn(r)
    BY <2>1, DropOnlyDrops DEF ResetOwn
  <2>2. CASE MakeResult(r)
    BY <2>2 DEF MakeResult
  <2>3. CASE Finish(r) \/ LeaveCS(r)
    BY <2>3 DEF Finish, LeaveCS
  <2>4. QED
    BY <1>2, <2>1, <2>2, <2>3 DEF RequestThread
<1>3. ASSUME NEW r \in Requests, Destructor(r) PROVE Leaves
  BY <1>3 DEF Destructor, DeleteTimer
<1>4. ASSUME NEW r \in Requests, ProcessThreadSwitched(r, r) PROVE Leaves
  <2>1. CASE DropResult(r, r)
    BY <2>1, DropOnlyDrops DEF DropResult
  <2>2. CASE Switched(r, r) \/ SwitchedDeletes(r, r) \/ CallbackReturns(r, r)
    BY <2>2 DEF Switched, SwitchedDeletes, DeleteTimer, CallbackReturns
  <2>3. CASE SwitchedCloses(r, r) \/ SwitchedClosed(r, r) \/ SwitchedReturns(r, r)
    BY <2>3 DEF SwitchedCloses, SwitchedClosed, SwitchedReturns
  <2>4. QED
    BY <1>4, <2>1, <2>2, <2>3 DEF ProcessThreadSwitched
<1>5. ASSUME NEW r \in Sessions,
             \/ StartRequest(r) \/ SessionRequest(r)
             \/ \E x \in Users :
                  CloseTested(r, x) \/ CWebRequestClose(r, x) \/ HeadersRace(r, x)
      PROVE  Leaves
  BY <1>5, FollowedFrame DEF Users, requestVars
<1>6. CASE UNCHANGED vars
  BY <1>6 DEF vars
<1>7. QED
  BY <1>1, <1>2, <1>3, <1>4, <1>5, <1>6 DEF Next, TimerSteps

\* Every step of the timer thread brings the end of the walk nearer.
LEMMA TimerWalks ==
    ASSUME IInv, IInv', TimerSteps, Ticking, Ticking', ~Undefined, ~Undefined'
    PROVE  WalkLeft' \in Nat /\ WalkLeft' < WalkLeft
<1>0. Defined /\ RequestTypeOK /\ Defined' /\ RequestTypeOK'
  BY DEF IInv
<1> USE <1>0, RequestAssumption
    DEF RequestTypeOK, StepsFor, WalkLeft, Ticking, Outside, Undefined, Go, timerVars, objectVars
<1>1. CASE Tick
  <2>1. visit' \in Nat /\ visit \in Nat /\ pc["timer"] = "visit"
    BY <1>1
       DEF Tick, TimerThread, CheckCalls, WaitForTimer, TickBegin, Visiting, ItemWaits,
           ItemErased, ItemExecuted, TickEnd, ItemMissing
  <2>2. CASE ItemWaits \/ ItemErased
    <3>1. visit > 0 /\ visit' = visit - 1 /\ pc' = pc
      BY <2>1, <2>2 DEF ItemWaits, ItemErased, Visiting
    <3>2. WalkLeft = 8 * visit /\ WalkLeft' = 8 * (visit - 1)
      BY <2>1, <3>1
    <3>3. QED
      BY <2>1, <3>1, <3>2
  <2>3. CASE ItemExecuted
    BY <2>1, <2>3 DEF ItemExecuted, Visiting
  <2>4. QED
    BY <1>1, <2>1, <2>2, <2>3
       DEF Tick, TimerThread, CheckCalls, WaitForTimer, TickBegin, TickEnd, ItemMissing
<1>2. ASSUME pc["timer"] \in Switching \cup {"execute"}
      PROVE  visit \in Nat /\ visit > 0 /\ item \in Requests
  BY <1>2 DEF Defined, Working
<1>3. ASSUME NEW r \in Requests, TimeOut(r) PROVE WalkLeft' \in Nat /\ WalkLeft' < WalkLeft
  BY <1>2, <1>3 DEF TimeOut, ProcessTimeOut, ProcessTimeOutTooLate, ItemDone
<1>4. ASSUME NEW r \in Requests, ProcessThreadSwitched("timer", r)
      PROVE  WalkLeft' \in Nat /\ WalkLeft' < WalkLeft
  <2>0. pc["timer"] \in Switching /\ item = r
    BY <1>4
       DEF ProcessThreadSwitched, Switched, SwitchedDeletes, CallbackReturns, SwitchedCloses,
           SwitchedClosed, DropResult, SwitchedReturns, Serves, Switching
  <2> USE <1>2, <2>0
  <2>1. CASE Switched("timer", r)
    <3>1. visit' = visit /\ pc["timer"] = "switched" /\ pc'["timer"] \in {"drop", "delete"}
      BY <2>1 DEF Switched
    <3>2. QED
      BY <3>1
  <2>2. CASE SwitchedDeletes("timer", r) \/ CallbackReturns("timer", r)
    BY <2>2 DEF SwitchedDeletes, DeleteTimer, CallbackReturns
  <2>3. CASE SwitchedCloses("timer", r) \/ SwitchedClosed("timer", r)
    BY <2>3 DEF SwitchedCloses, SwitchedClosed
  <2>4. CASE DropResult("timer", r)
    BY <2>4 DEF DropResult, Drop, Holder
  <2>5. CASE SwitchedReturns("timer", r)
    BY <2>5 DEF SwitchedReturns, ItemDone, Holder
  <2>6. QED
    BY <1>4, <2>1, <2>2, <2>3, <2>4, <2>5 DEF ProcessThreadSwitched
<1>5. QED
  BY <1>1, <1>3, <1>4 DEF TimerSteps

\* Where a step of the timer thread leads.
LEMMA TimerStaysAtWork ==
    ASSUME IInv, IInv', TimerSteps, TimerAtWork PROVE TimerAtWork'
<1>0. pc \in [Requests \cup {"timer"} -> Places] /\ "timer" \notin Requests
  BY RequestAssumption DEF IInv, RequestTypeOK
<1> USE <1>0 DEF TimerAtWork, Outside, Switching, Go, timerVars
<1>1. CASE Tick
  BY <1>1
     DEF Tick, TimerThread, CheckCalls, WaitForTimer, TickBegin, Visiting, ItemWaits, ItemErased,
         ItemExecuted, TickEnd, ItemMissing
<1>2. ASSUME NEW r \in Requests, TimeOut(r) PROVE TimerAtWork'
  BY <1>2 DEF TimeOut, ProcessTimeOut, ProcessTimeOutTooLate, ItemDone
<1>3. ASSUME NEW r \in Requests, ProcessThreadSwitched("timer", r) PROVE TimerAtWork'
  BY <1>3
     DEF ProcessThreadSwitched, Switched, SwitchedDeletes, CallbackReturns, SwitchedCloses,
         SwitchedClosed, DropResult, SwitchedReturns, ItemDone
<1>4. QED
  BY <1>1, <1>2, <1>3 DEF TimerSteps

\* The walk ends: each step of the timer thread that holds the list brings the end
\* nearer, and no other thread puts it off, not even by adding timers meanwhile
\* (GlobalTimer.cpp:83-117). Destructors wait for nothing else.
THEOREM WalkComesNearer == Spec => WalkShrinks
<1>1. ASSUME IInv, IInv', [Next]_vars, Ticking, Ticking', ~Undefined' PROVE WalkNears
  <2>1. ~Undefined
    BY <1>1, StaysUndefined
  <2>2. CASE TimerSteps
    <3>1. visit \in Nat /\ WalkLeft \in Int
      BY <1>1 DEF IInv, RequestTypeOK, WalkLeft, StepsFor
    <3>2. WalkLeft' \in Nat /\ WalkLeft' < WalkLeft
      BY <1>1, <2>1, <2>2, TimerWalks
    <3>3. QED
      BY <3>1, <3>2 DEF WalkNears
  <2>3. CASE ~TimerSteps
    <3>1. /\ pc'["timer"] = pc["timer"] /\ visit' = visit /\ item' = item
          /\ \A q \in Requests : "timer" \notin refs[q] => "timer" \notin refs'[q]
      BY <1>1, <2>3, OthersWalk
    <3>2. visit \in Nat /\ Defined
      BY <1>1, <2>1 DEF IInv, RequestTypeOK
    <3>3. pc["timer"] = "drop" => item \in Requests
      BY <3>2 DEF Defined, Working, Switching
    <3>4. WalkLeft' <= WalkLeft
      BY <3>1, <3>2, <3>3 DEF WalkLeft, StepsFor
    <3>5. QED
      BY <2>3, <3>4 DEF WalkNears
  <2>4. QED
    BY <2>2, <2>3
<1>2. IInv /\ IInv' /\ [Next]_vars => (Ticking /\ Ticking' /\ ~Undefined' => WalkNears)
  BY <1>1
<1>3. QED
  BY <1>2, Invariance, PTL DEF Spec, WalkShrinks

\* The timer thread does not stop on its way: it has the object of the timer at hand,
\* and nobody is inside the _CS that ProcessTimeOut takes, where he might be waiting
\* for the list in the destructor (GlobalTimer.cpp:83-117, HttpWebRequest.cpp:162-169,
\* 264, 291).
THEOREM WalkNeverStuck == Spec => []WalkGoesOn
<1>1. Init => TimerAtWork
  BY RequestAssumption DEF Init, TimerAtWork, Outside
<1>2. ASSUME IInv, IInv', [Next]_vars, TimerAtWork PROVE TimerAtWork'
  <2>1. CASE Undefined'
    BY <2>1 DEF Undefined, TimerAtWork
  <2>2. CASE ~Undefined' /\ ~TimerSteps
    BY <1>2, <2>2, OthersWalk DEF TimerAtWork
  <2>3. CASE TimerSteps
    BY <1>2, <2>3, TimerStaysAtWork
  <2>4. QED
    BY <2>1, <2>2, <2>3
<1>3. ASSUME IInv, NoneLeftBehind, TimerAtWork PROVE WalkGoesOn
  <2>1. SUFFICES ASSUME Ticking, ~Undefined, pc["timer"] # "visit"
                 PROVE  item \in Requests /\ (pc["timer"] = "execute" => ~InCS(item))
    BY DEF WalkGoesOn
  <2>2. Defined /\ \A r \in Requests : TooLate(r)
    BY <1>3, <2>1 DEF IInv, NoneLeftBehind, Ending
  <2>3. item \in Requests
    BY <1>3, <2>1, <2>2 DEF TimerAtWork, Ticking, Undefined, Defined, Working
  <2>4. ASSUME pc["timer"] = "execute" PROVE ~InCS(item)
    BY <2>2, <2>3, <2>4 DEF Defined, FiredOnce, Executes, TooLate
  <2>5. QED
    BY <2>3, <2>4
<1>4. QED
  BY <1>1, <1>2, <1>3, Invariance, NobodyLeftBehind, PTL DEF Spec
=============================================================================
