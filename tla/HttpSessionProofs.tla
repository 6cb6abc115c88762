--------------------------- MODULE HttpSessionProofs ---------------------------
(***************************************************************************)
(* The handles of a session, for any number of sessions and of addresses:  *)
(* none is left when the request has returned, and none of a request is    *)
(* opened once the session has been closed.                                *)
(***************************************************************************)
EXTENDS HttpWebRequestProofs

One(b) == IF b THEN 1 ELSE 0

Opened(r) ==
    One(handle[r]["request"] = "open") + One(handle[r]["connect"] = "open")
        + One(handle[r]["open"] = "open")

Resetting == Handles \cup {"end"}

\* WinInet has open what the members say.
Live(r) == live[r] = Opened(r)

\* A handle that a user has closed and not set to NULL yet is not opened in between:
\* if the thread has set it to NULL meanwhile, it will open none again.
Dangles(r) ==
    \A x \in dangling[r] :
        /\ reset[r][x] \in Handles
        /\ handle[r][reset[r][x]] # "open"
        /\ \/ x = "thread"
           \/ handle[r][reset[r][x]] = "closed"
           \/ step[r] \in {"redirect", "close", "jump", "returned"}

\* Who resets the handles has closed the session, but for a redirect.
Flagged(r) ==
    \A x \in Users :
        reset[r][x] \in Resetting /\ (x = "thread" => step[r] # "redirect") => m_bHttpClosed[r]

Locked(r) == \A x, y \in Users : HoldsLock(r, x) /\ HoldsLock(r, y) => x = y

\* The handles that the thread has not opened yet, or has reset.
Cleared(r) ==
    /\ step[r] \in {"idle", "jump", "connect", "open", "returned"} =>
            \A h \in Handles : handle[r][h] = "null"
    /\ step[r] = "attach" => handle[r]["connect"] = "null"
    /\ step[r] \in {"attach", "request"} => handle[r]["request"] = "null"
    /\ step[r] \in {"redirect", "close"} =>
        /\ reset[r]["thread"] \in {"connect", "open", "end"} => handle[r]["request"] = "null"
        /\ reset[r]["thread"] \in {"open", "end"} => handle[r]["connect"] = "null"
        /\ reset[r]["thread"] = "end" => handle[r]["open"] = "null"

ThreadResets(r) ==
    /\ reset[r]["thread"] # "none" => step[r] \in {"redirect", "close", "returned"}
    /\ reset[r]["thread"] \in {"set", "lock", "done"} => step[r] = "returned"
    /\ step[r] = "redirect" => reset[r]["thread"] \in Resetting

Jumped(r) ==
    step[r] \notin {"idle", "jump", "close", "returned"} => nJumpRetryCount[r] <= MaxJumpRetry

\* The thread has a result to deliver when Request has returned.
Over(r) ==
    pc[r] \in {"result", "switched", "delete", "callback", "close"} => step[r] = "returned"

Others == {"client", "timer"}

\* A Close that has passed its test is on its way to the session, or has been there.
Closing(r) ==
    /\ m_bClosed[r] /\ step[r] # "returned" =>
            m_bHttpClosed[r] \/ \E x \in Others : reset[r][x] = "lock"
    /\ \A x \in Others :
            reset[r][x] \in {"connect", "open", "end"} => handle[r]["request"] # "open"

Closed(r) ==
    m_bClosed[r] /\ (\A x \in Others : reset[r][x] \in {"none", "done"}) =>
        handle[r]["request"] # "open"

Sound(r) ==
    /\ Live(r) /\ Dangles(r) /\ Flagged(r) /\ Locked(r) /\ Cleared(r)
    /\ ThreadResets(r) /\ Jumped(r) /\ Over(r) /\ Closing(r) /\ Closed(r)

SInv == SessionTypeOK /\ \A r \in Sessions : Sound(r)
-----------------------------------------------------------------------------
\* The thread starts the session, unless it is closed.
LEMMA StartRequestSound ==
    ASSUME SessionTypeOK, RequestTypeOK, NEW r \in Sessions, Sound(r),
           StartRequest(r), UNCHANGED m_bClosed
    PROVE  SessionTypeOK' /\ Sound(r)'
<1> USE SessionAssumption, JumpAssumption
        DEF SessionTypeOK, Sound, Users, Handles, StartRequest, Move, handleVars, resetVars
<1>1. SessionTypeOK'
  BY DEF Live, Opened, One, Jumped, Cleared, Blocking, Following
<1>2. Live(r)' /\ Dangles(r)'
  BY DEF Live, Dangles, Opened, One, Locked, HoldsLock, Flagged, Resetting, ThreadResets
<1>3. Flagged(r)' /\ Locked(r)'
  BY DEF Flagged, Locked, Resetting, ThreadResets, HoldsLock, LockFree
<1>4. Cleared(r)'
  BY DEF Cleared, Dangles, Resetting, ThreadResets
<1>5. ThreadResets(r)' /\ Jumped(r)' /\ Over(r)'
  BY DEF ThreadResets, Jumped, Over, Resetting, HoldsLock
<1>6. Closing(r)' /\ Closed(r)'
  BY DEF Closing, Closed, Others, Cleared, ThreadResets, Flagged, Resetting
<1>7. QED
  BY <1>1, <1>2, <1>3, <1>4, <1>5, <1>6

\* Request returns before anything is opened.
LEMMA JumpRefusedSound ==
    ASSUME SessionTypeOK, RequestTypeOK, NEW r \in Sessions, Sound(r),
           JumpRefused(r), UNCHANGED <<pc, m_bClosed>>
    PROVE  SessionTypeOK' /\ Sound(r)'
<1> USE SessionAssumption, JumpAssumption
        DEF SessionTypeOK, Sound, Users, Handles, JumpRefused, Move, handleVars, resetVars
<1>1. SessionTypeOK'
  BY DEF Live, Opened, One, Jumped, Cleared, Blocking, Following
<1>2. Live(r)' /\ Dangles(r)'
  BY DEF Live, Dangles, Opened, One, Locked, HoldsLock, Flagged, Resetting, ThreadResets
<1>3. Flagged(r)' /\ Locked(r)'
  BY DEF Flagged, Locked, Resetting, ThreadResets, HoldsLock, LockFree
<1>4. Cleared(r)'
  BY DEF Cleared, Dangles, Resetting, ThreadResets
<1>5. ThreadResets(r)' /\ Jumped(r)' /\ Over(r)'
  BY DEF ThreadResets, Jumped, Over, Resetting, HoldsLock
<1>6. Closing(r)' /\ Closed(r)'
  BY DEF Closing, Closed, Others, Cleared, ThreadResets, Flagged, Resetting
<1>7. QED
  BY <1>1, <1>2, <1>3, <1>4, <1>5, <1>6

\* An address is tried.
LEMMA JumpTakenSound ==
    ASSUME SessionTypeOK, RequestTypeOK, NEW r \in Sessions, Sound(r),
           JumpTaken(r), UNCHANGED <<pc, m_bClosed>>
    PROVE  SessionTypeOK' /\ Sound(r)'
<1> USE SessionAssumption, JumpAssumption
        DEF SessionTypeOK, Sound, Users, Handles, JumpTaken, Move, handleVars, resetVars
<1>1. SessionTypeOK'
  BY DEF Live, Opened, One, Jumped, Cleared, Blocking, Following
<1>2. Live(r)' /\ Dangles(r)'
  BY DEF Live, Dangles, Opened, One, Locked, HoldsLock, Flagged, Resetting, ThreadResets
<1>3. Flagged(r)' /\ Locked(r)'
  BY DEF Flagged, Locked, Resetting, ThreadResets, HoldsLock, LockFree
<1>4. Cleared(r)'
  BY DEF Cleared, Dangles, Resetting, ThreadResets
<1>5. ThreadResets(r)' /\ Jumped(r)' /\ Over(r)'
  BY DEF ThreadResets, Jumped, Over, Resetting, HoldsLock
<1>6. Closing(r)' /\ Closed(r)'
  BY DEF Closing, Closed, Others, Cleared, ThreadResets, Flagged, Resetting
<1>7. QED
  BY <1>1, <1>2, <1>3, <1>4, <1>5, <1>6

\* Connect looks at the flag.
LEMMA ConnectSound ==
    ASSUME SessionTypeOK, RequestTypeOK, NEW r \in Sessions, Sound(r),
           Connect(r), UNCHANGED <<pc, m_bClosed>>
    PROVE  SessionTypeOK' /\ Sound(r)'
<1> USE SessionAssumption, JumpAssumption
        DEF SessionTypeOK, Sound, Users, Handles, Connect, Move, handleVars, resetVars
<1>1. SessionTypeOK'
  BY DEF Live, Opened, One, Jumped, Cleared, Blocking, Following
<1>2. Live(r)' /\ Dangles(r)'
  BY DEF Live, Dangles, Opened, One, Locked, HoldsLock, Flagged, Resetting, ThreadResets
<1>3. Flagged(r)' /\ Locked(r)'
  BY DEF Flagged, Locked, Resetting, ThreadResets, HoldsLock, LockFree
<1>4. Cleared(r)'
  BY DEF Cleared, Dangles, Resetting, ThreadResets
<1>5. ThreadResets(r)' /\ Jumped(r)' /\ Over(r)'
  BY DEF ThreadResets, Jumped, Over, Resetting, HoldsLock
<1>6. Closing(r)' /\ Closed(r)'
  BY DEF Closing, Closed, Others, Cleared, ThreadResets, Flagged, Resetting
<1>7. QED
  BY <1>1, <1>2, <1>3, <1>4, <1>5, <1>6

\* The headers are added.
LEMMA AddHeadersSound ==
    ASSUME SessionTypeOK, RequestTypeOK, NEW r \in Sessions, Sound(r),
           AddHeaders(r), UNCHANGED <<pc, m_bClosed>>
    PROVE  SessionTypeOK' /\ Sound(r)'
<1> USE SessionAssumption, JumpAssumption
        DEF SessionTypeOK, Sound, Users, Handles, AddHeaders, Move, handleVars, resetVars
<1>1. SessionTypeOK'
  BY DEF Live, Opened, One, Jumped, Cleared, Blocking, Following
<1>2. Live(r)' /\ Dangles(r)'
  BY DEF Live, Dangles, Opened, One, Locked, HoldsLock, Flagged, Resetting, ThreadResets
<1>3. Flagged(r)' /\ Locked(r)'
  BY DEF Flagged, Locked, Resetting, ThreadResets, HoldsLock, LockFree
<1>4. Cleared(r)'
  BY DEF Cleared, Dangles, Resetting, ThreadResets
<1>5. ThreadResets(r)' /\ Jumped(r)' /\ Over(r)'
  BY DEF ThreadResets, Jumped, Over, Resetting, HoldsLock
<1>6. Closing(r)' /\ Closed(r)'
  BY DEF Closing, Closed, Others, Cleared, ThreadResets, Flagged, Resetting
<1>7. QED
  BY <1>1, <1>2, <1>3, <1>4, <1>5, <1>6

\* The request is sent, or not.
LEMMA SendSound ==
    ASSUME SessionTypeOK, RequestTypeOK, NEW r \in Sessions, Sound(r),
           Send(r), UNCHANGED <<pc, m_bClosed>>
    PROVE  SessionTypeOK' /\ Sound(r)'
<1> USE SessionAssumption, JumpAssumption
        DEF SessionTypeOK, Sound, Users, Handles, Send, Answers, Move, handleVars, resetVars
<1>1. SessionTypeOK'
  BY DEF Live, Opened, One, Jumped, Cleared, Blocking, Following
<1>2. Live(r)' /\ Dangles(r)'
  BY DEF Live, Dangles, Opened, One, Locked, HoldsLock, Flagged, Resetting, ThreadResets
<1>3. Flagged(r)' /\ Locked(r)'
  BY DEF Flagged, Locked, Resetting, ThreadResets, HoldsLock, LockFree
<1>4. Cleared(r)'
  BY DEF Cleared, Dangles, Resetting, ThreadResets
<1>5. ThreadResets(r)' /\ Jumped(r)' /\ Over(r)'
  BY DEF ThreadResets, Jumped, Over, Resetting, HoldsLock
<1>6. Closing(r)' /\ Closed(r)'
  BY DEF Closing, Closed, Others, Cleared, ThreadResets, Flagged, Resetting
<1>7. QED
  BY <1>1, <1>2, <1>3, <1>4, <1>5, <1>6

\* It is sent again, or not.
LEMMA RetrySound ==
    ASSUME SessionTypeOK, RequestTypeOK, NEW r \in Sessions, Sound(r),
           Retry(r), UNCHANGED <<pc, m_bClosed>>
    PROVE  SessionTypeOK' /\ Sound(r)'
<1> USE SessionAssumption, JumpAssumption
        DEF SessionTypeOK, Sound, Users, Handles, Retry, Answers, Move, handleVars, resetVars
<1>1. SessionTypeOK'
  BY DEF Live, Opened, One, Jumped, Cleared, Blocking, Following
<1>2. Live(r)' /\ Dangles(r)'
  BY DEF Live, Dangles, Opened, One, Locked, HoldsLock, Flagged, Resetting, ThreadResets
<1>3. Flagged(r)' /\ Locked(r)'
  BY DEF Flagged, Locked, Resetting, ThreadResets, HoldsLock, LockFree
<1>4. Cleared(r)'
  BY DEF Cleared, Dangles, Resetting, ThreadResets
<1>5. ThreadResets(r)' /\ Jumped(r)' /\ Over(r)'
  BY DEF ThreadResets, Jumped, Over, Resetting, HoldsLock
<1>6. Closing(r)' /\ Closed(r)'
  BY DEF Closing, Closed, Others, Cleared, ThreadResets, Flagged, Resetting
<1>7. QED
  BY <1>1, <1>2, <1>3, <1>4, <1>5, <1>6

\* The length of the answer is known.
LEMMA RespondSound ==
    ASSUME SessionTypeOK, RequestTypeOK, NEW r \in Sessions, Sound(r),
           Respond(r), UNCHANGED <<pc, m_bClosed>>
    PROVE  SessionTypeOK' /\ Sound(r)'
<1> USE SessionAssumption, JumpAssumption
        DEF SessionTypeOK, Sound, Users, Handles, Respond, Answers, Move, handleVars, resetVars
<1>1. SessionTypeOK'
  BY DEF Live, Opened, One, Jumped, Cleared, Blocking, Following
<1>2. Live(r)' /\ Dangles(r)'
  BY DEF Live, Dangles, Opened, One, Locked, HoldsLock, Flagged, Resetting, ThreadResets
<1>3. Flagged(r)' /\ Locked(r)'
  BY DEF Flagged, Locked, Resetting, ThreadResets, HoldsLock, LockFree
<1>4. Cleared(r)'
  BY DEF Cleared, Dangles, Resetting, ThreadResets
<1>5. ThreadResets(r)' /\ Jumped(r)' /\ Over(r)'
  BY DEF ThreadResets, Jumped, Over, Resetting, HoldsLock
<1>6. Closing(r)' /\ Closed(r)'
  BY DEF Closing, Closed, Others, Cleared, ThreadResets, Flagged, Resetting
<1>7. QED
  BY <1>1, <1>2, <1>3, <1>4, <1>5, <1>6

\* The answer is read.
LEMMA ReadSound ==
    ASSUME SessionTypeOK, RequestTypeOK, NEW r \in Sessions, Sound(r),
           Read(r), UNCHANGED <<pc, m_bClosed>>
    PROVE  SessionTypeOK' /\ Sound(r)'
<1> USE SessionAssumption, JumpAssumption
        DEF SessionTypeOK, Sound, Users, Handles, Read, Move, handleVars, resetVars
<1>1. SessionTypeOK'
  BY DEF Live, Opened, One, Jumped, Cleared, Blocking, Following
<1>2. Live(r)' /\ Dangles(r)'
  BY DEF Live, Dangles, Opened, One, Locked, HoldsLock, Flagged, Resetting, ThreadResets
<1>3. Flagged(r)' /\ Locked(r)'
  BY DEF Flagged, Locked, Resetting, ThreadResets, HoldsLock, LockFree
<1>4. Cleared(r)'
  BY DEF Cleared, Dangles, Resetting, ThreadResets
<1>5. ThreadResets(r)' /\ Jumped(r)' /\ Over(r)'
  BY DEF ThreadResets, Jumped, Over, Resetting, HoldsLock
<1>6. Closing(r)' /\ Closed(r)'
  BY DEF Closing, Closed, Others, Cleared, ThreadResets, Flagged, Resetting
<1>7. QED
  BY <1>1, <1>2, <1>3, <1>4, <1>5, <1>6

\* A redirect starts to reset the handles.
LEMMA RedirectSound ==
    ASSUME SessionTypeOK, RequestTypeOK, NEW r \in Sessions, Sound(r),
           Redirect(r), UNCHANGED <<pc, m_bClosed>>
    PROVE  SessionTypeOK' /\ Sound(r)'
<1> USE SessionAssumption, JumpAssumption
        DEF SessionTypeOK, Sound, Users, Handles, Redirect, Answers, Move, At, handleVars,
            resetVars
<1>1. SessionTypeOK'
  BY DEF Live, Opened, One, Jumped, Cleared, Blocking, Following
<1>2. Live(r)' /\ Dangles(r)'
  BY DEF Live, Dangles, Opened, One, Locked, HoldsLock, Flagged, Resetting, ThreadResets
<1>3. Flagged(r)' /\ Locked(r)'
  BY DEF Flagged, Locked, Resetting, ThreadResets, HoldsLock, LockFree
<1>4. Cleared(r)'
  BY DEF Cleared, Dangles, Resetting, ThreadResets
<1>5. ThreadResets(r)' /\ Jumped(r)' /\ Over(r)'
  BY DEF ThreadResets, Jumped, Over, Resetting, HoldsLock
<1>6. Closing(r)' /\ Closed(r)'
  BY DEF Closing, Closed, Others, Cleared, ThreadResets, Flagged, Resetting
<1>7. QED
  BY <1>1, <1>2, <1>3, <1>4, <1>5, <1>6

\* The next address is tried when the handles are reset.
LEMMA JumpSound ==
    ASSUME SessionTypeOK, RequestTypeOK, NEW r \in Sessions, Sound(r),
           Jump(r), UNCHANGED <<pc, m_bClosed>>
    PROVE  SessionTypeOK' /\ Sound(r)'
<1> USE SessionAssumption, JumpAssumption
        DEF SessionTypeOK, Sound, Users, Handles, Jump, Move, At, handleVars, resetVars
<1>1. SessionTypeOK'
  BY DEF Live, Opened, One, Jumped, Cleared, Blocking, Following
<1>2. Live(r)' /\ Dangles(r)'
  BY DEF Live, Dangles, Opened, One, Locked, HoldsLock, Flagged, Resetting, ThreadResets
<1>3. Flagged(r)' /\ Locked(r)'
  BY DEF Flagged, Locked, Resetting, ThreadResets, HoldsLock, LockFree
<1>4. Cleared(r)'
  BY DEF Cleared, Dangles, Resetting, ThreadResets
<1>5. ThreadResets(r)' /\ Jumped(r)' /\ Over(r)'
  BY DEF ThreadResets, Jumped, Over, Resetting, HoldsLock
<1>6. Closing(r)' /\ Closed(r)'
  BY DEF Closing, Closed, Others, Cleared, ThreadResets, Flagged, Resetting
<1>7. QED
  BY <1>1, <1>2, <1>3, <1>4, <1>5, <1>6

\* The end of Request closes the session.
LEMMA AutoCloseSound ==
    ASSUME SessionTypeOK, RequestTypeOK, NEW r \in Sessions, Sound(r),
           AutoClose(r), UNCHANGED <<pc, m_bClosed>>
    PROVE  SessionTypeOK' /\ Sound(r)'
<1> USE SessionAssumption, JumpAssumption
        DEF SessionTypeOK, Sound, Users, Handles, AutoClose, SessionClose, At, handleVars,
            resetVars
<1>1. SessionTypeOK'
  BY DEF Live, Opened, One, Jumped, Cleared, Blocking, Following
<1>2. Live(r)' /\ Dangles(r)'
  BY DEF Live, Dangles, Opened, One, Locked, HoldsLock, Flagged, Resetting, ThreadResets
<1>3. Flagged(r)' /\ Locked(r)'
  BY DEF Flagged, Locked, Resetting, ThreadResets, HoldsLock, LockFree
<1>4. Cleared(r)'
  BY DEF Cleared, Dangles, Resetting, ThreadResets
<1>5. ThreadResets(r)' /\ Jumped(r)' /\ Over(r)'
  BY DEF ThreadResets, Jumped, Over, Resetting, HoldsLock
<1>6. Closing(r)' /\ Closed(r)'
  BY DEF Closing, Closed, Others, Cleared, ThreadResets, Flagged, Resetting
<1>7. QED
  BY <1>1, <1>2, <1>3, <1>4, <1>5, <1>6

\* Request returns when the handles are reset.
LEMMA AutoClosedSound ==
    ASSUME SessionTypeOK, RequestTypeOK, NEW r \in Sessions, Sound(r),
           AutoClosed(r), UNCHANGED <<pc, m_bClosed>>
    PROVE  SessionTypeOK' /\ Sound(r)'
<1> USE SessionAssumption, JumpAssumption
        DEF SessionTypeOK, Sound, Users, Handles, AutoClosed, Move, At, handleVars, resetVars
<1>1. SessionTypeOK'
  BY DEF Live, Opened, One, Jumped, Cleared, Blocking, Following
<1>2. Live(r)' /\ Dangles(r)'
  BY DEF Live, Dangles, Opened, One, Locked, HoldsLock, Flagged, Resetting, ThreadResets
<1>3. Flagged(r)' /\ Locked(r)'
  BY DEF Flagged, Locked, Resetting, ThreadResets, HoldsLock, LockFree
<1>4. Cleared(r)'
  BY DEF Cleared, Dangles, Resetting, ThreadResets
<1>5. ThreadResets(r)' /\ Jumped(r)' /\ Over(r)'
  BY DEF ThreadResets, Jumped, Over, Resetting, HoldsLock
<1>6. Closing(r)' /\ Closed(r)'
  BY DEF Closing, Closed, Others, Cleared, ThreadResets, Flagged, Resetting
<1>7. QED
  BY <1>1, <1>2, <1>3, <1>4, <1>5, <1>6

\* The first handle is opened.
LEMMA InternetOpenSound ==
    ASSUME SessionTypeOK, RequestTypeOK, NEW r \in Sessions, Sound(r),
           InternetOpen(r), UNCHANGED <<pc, m_bClosed>>
    PROVE  SessionTypeOK' /\ Sound(r)'
<1> USE SessionAssumption, JumpAssumption
        DEF SessionTypeOK, Sound, Users, Handles, InternetOpen, OpenHandle, Move, handleVars,
            resetVars
<1>1. handle[r]["open"] = "null" /\ live[r] \in 0..2
  BY DEF InternetOpen, Cleared, Live, Opened, One
<1>2. \A x \in dangling[r] : reset[r][x] # "open"
  BY <1>1 DEF InternetOpen, Dangles, ThreadResets, HoldsLock, LockFree
<1>3. \/ /\ handle' = [handle EXCEPT ![r]["open"] = "open"]
         /\ live' = [live EXCEPT ![r] = @ + 1]
      \/ UNCHANGED handleVars
  BY <1>1 DEF InternetOpen, OpenHandle
<1>4. /\ \E p \in {"attach", "request", "headers", "close"} : step' = [step EXCEPT ![r] = p]
      /\ UNCHANGED <<resetVars, m_bHttpClosed, nJumpRetryCount>>
  BY DEF InternetOpen, OpenHandle, Move
<1>5. SessionTypeOK'
  <2>1. handle' \in [Sessions -> [Handles -> {"null", "open", "closed"}]]
    <3>1. CASE handle' = [handle EXCEPT ![r]["open"] = "open"]
      BY <3>1
    <3>2. CASE handle' = handle
      BY <3>2
    <3>3. QED
      BY <1>3, <3>1, <3>2
  <2>2. live' \in [Sessions -> 0..3]
    BY <1>1, <1>3
  <2>3. PICK p \in {"attach", "request", "headers", "close"} : step' = [step EXCEPT ![r] = p]
    BY <1>4
  <2>4. QED
    BY <1>4, <2>1, <2>2, <2>3
<1>6. Live(r)' /\ Dangles(r)'
  BY <1>1, <1>2, <1>3, <1>4 DEF Live, Dangles, Opened, One, Locked, HoldsLock, Flagged,
         Resetting, ThreadResets
<1>7. Flagged(r)' /\ Locked(r)'
  BY <1>1, <1>2, <1>3, <1>4 DEF Flagged, Locked, Resetting, ThreadResets, HoldsLock,
         LockFree
<1>8. Cleared(r)'
  BY <1>1, <1>2, <1>3, <1>4 DEF Cleared, Dangles, Resetting, ThreadResets
<1>9. ThreadResets(r)' /\ Jumped(r)' /\ Over(r)'
  BY <1>1, <1>2, <1>3, <1>4 DEF ThreadResets, Jumped, Over, Resetting, HoldsLock
<1>10. Closing(r)' /\ Closed(r)'
  BY <1>1, <1>2, <1>3, <1>4 DEF Closing, Closed, Others, Cleared, ThreadResets, Flagged,
         Resetting
<1>11. QED
  BY <1>5, <1>6, <1>7, <1>8, <1>9, <1>10

\* The second handle is opened.
LEMMA InternetConnectSound ==
    ASSUME SessionTypeOK, RequestTypeOK, NEW r \in Sessions, Sound(r),
           InternetConnect(r), UNCHANGED <<pc, m_bClosed>>
    PROVE  SessionTypeOK' /\ Sound(r)'
<1> USE SessionAssumption, JumpAssumption
        DEF SessionTypeOK, Sound, Users, Handles, InternetConnect, OpenHandle, Move, handleVars,
            resetVars
<1>1. handle[r]["connect"] = "null" /\ live[r] \in 0..2
  BY DEF InternetConnect, Cleared, Live, Opened, One
<1>2. \A x \in dangling[r] : reset[r][x] # "connect"
  BY <1>1 DEF InternetConnect, Dangles, ThreadResets, HoldsLock, LockFree
<1>3. \/ /\ handle' = [handle EXCEPT ![r]["connect"] = "open"]
         /\ live' = [live EXCEPT ![r] = @ + 1]
      \/ UNCHANGED handleVars
  BY <1>1 DEF InternetConnect, OpenHandle
<1>4. /\ \E p \in {"attach", "request", "headers", "close"} : step' = [step EXCEPT ![r] = p]
      /\ UNCHANGED <<resetVars, m_bHttpClosed, nJumpRetryCount>>
  BY DEF InternetConnect, OpenHandle, Move
<1>5. SessionTypeOK'
  <2>1. handle' \in [Sessions -> [Handles -> {"null", "open", "closed"}]]
    <3>1. CASE handle' = [handle EXCEPT ![r]["connect"] = "open"]
      BY <3>1
    <3>2. CASE handle' = handle
      BY <3>2
    <3>3. QED
      BY <1>3, <3>1, <3>2
  <2>2. live' \in [Sessions -> 0..3]
    BY <1>1, <1>3
  <2>3. PICK p \in {"attach", "request", "headers", "close"} : step' = [step EXCEPT ![r] = p]
    BY <1>4
  <2>4. QED
    BY <1>4, <2>1, <2>2, <2>3
<1>6. Live(r)' /\ Dangles(r)'
  BY <1>1, <1>2, <1>3, <1>4 DEF Live, Dangles, Opened, One, Locked, HoldsLock, Flagged,
         Resetting, ThreadResets
<1>7. Flagged(r)' /\ Locked(r)'
  BY <1>1, <1>2, <1>3, <1>4 DEF Flagged, Locked, Resetting, ThreadResets, HoldsLock,
         LockFree
<1>8. Cleared(r)'
  BY <1>1, <1>2, <1>3, <1>4 DEF Cleared, Dangles, Resetting, ThreadResets
<1>9. ThreadResets(r)' /\ Jumped(r)' /\ Over(r)'
  BY <1>1, <1>2, <1>3, <1>4 DEF ThreadResets, Jumped, Over, Resetting, HoldsLock
<1>10. Closing(r)' /\ Closed(r)'
  BY <1>1, <1>2, <1>3, <1>4 DEF Closing, Closed, Others, Cleared, ThreadResets, Flagged,
         Resetting
<1>11. QED
  BY <1>5, <1>6, <1>7, <1>8, <1>9, <1>10

\* The handle of the request is opened, unless the session is closed.
LEMMA OpenRequestSound ==
    ASSUME SessionTypeOK, RequestTypeOK, NEW r \in Sessions, Sound(r),
           OpenRequest(r), UNCHANGED <<pc, m_bClosed>>
    PROVE  SessionTypeOK' /\ Sound(r)'
<1> USE SessionAssumption, JumpAssumption
        DEF SessionTypeOK, Sound, Users, Handles, OpenRequest, OpenHandle, Move, handleVars,
            resetVars
<1>1. handle[r]["request"] = "null" /\ live[r] \in 0..2
  BY DEF OpenRequest, Cleared, Live, Opened, One
<1>2. \A x \in dangling[r] : reset[r][x] # "request"
  BY <1>1 DEF OpenRequest, Dangles, ThreadResets, HoldsLock, LockFree
<1>3. \/ /\ handle' = [handle EXCEPT ![r]["request"] = "open"]
         /\ live' = [live EXCEPT ![r] = @ + 1]
      \/ UNCHANGED handleVars
  BY <1>1 DEF OpenRequest, OpenHandle
<1>4. /\ \E p \in {"attach", "request", "headers", "close"} : step' = [step EXCEPT ![r] = p]
      /\ UNCHANGED <<resetVars, m_bHttpClosed, nJumpRetryCount>>
  BY DEF OpenRequest, OpenHandle, Move
<1>5. SessionTypeOK'
  <2>1. handle' \in [Sessions -> [Handles -> {"null", "open", "closed"}]]
    <3>1. CASE handle' = [handle EXCEPT ![r]["request"] = "open"]
      BY <3>1
    <3>2. CASE handle' = handle
      BY <3>2
    <3>3. QED
      BY <1>3, <3>1, <3>2
  <2>2. live' \in [Sessions -> 0..3]
    <3>1. CASE live' = [live EXCEPT ![r] = @ + 1]
      <4>1. live[r] + 1 \in 0..3
        BY <1>1
      <4>2. QED
        BY <3>1, <4>1
    <3>2. CASE live' = live
      BY <3>2
    <3>3. QED
      BY <1>3, <3>1, <3>2
  <2>3. PICK p \in {"attach", "request", "headers", "close"} : step' = [step EXCEPT ![r] = p]
    BY <1>4
  <2>4. QED
    BY <1>4, <2>1, <2>2, <2>3
<1>6. Live(r)' /\ Dangles(r)'
  BY <1>1, <1>2, <1>3, <1>4 DEF Live, Dangles, Opened, One, Locked, HoldsLock, Flagged,
         Resetting, ThreadResets
<1>7. Flagged(r)' /\ Locked(r)'
  BY <1>1, <1>2, <1>3, <1>4 DEF Flagged, Locked, Resetting, ThreadResets, HoldsLock,
         LockFree
<1>8. Cleared(r)'
  BY <1>1, <1>2, <1>3, <1>4 DEF Cleared, Dangles, Resetting, ThreadResets
<1>9. ThreadResets(r)' /\ Jumped(r)' /\ Over(r)'
  BY <1>1, <1>2, <1>3, <1>4 DEF ThreadResets, Jumped, Over, Resetting, HoldsLock
<1>10. Closing(r)' /\ Closed(r)'
  BY <1>1, <1>2, <1>3, <1>4 DEF Closing, Closed, Others, Cleared, ThreadResets, Flagged,
         Resetting
<1>11. QED
  BY <1>5, <1>6, <1>7, <1>8, <1>9, <1>10

\* A Close passes its test.
LEMMA CloseTestedSound ==
    ASSUME SessionTypeOK, RequestTypeOK, NEW r \in Sessions, Sound(r),
           NEW x \in Users, CloseTested(r, x), UNCHANGED <<pc, m_bClosed>>
    PROVE  SessionTypeOK' /\ Sound(r)'
<1> USE SessionAssumption, JumpAssumption
        DEF SessionTypeOK, Sound, Users, Handles, CloseTested, At, requestVars, handleVars,
            resetVars
<1>1. SessionTypeOK'
  BY DEF Live, Opened, One, Jumped, Cleared, Blocking, Following
<1>2. Live(r)' /\ Dangles(r)'
  BY DEF Live, Dangles, Opened, One, Locked, HoldsLock, Flagged, Resetting, ThreadResets
<1>3. Flagged(r)' /\ Locked(r)'
  BY DEF Flagged, Locked, Resetting, ThreadResets, HoldsLock, LockFree
<1>4. Cleared(r)'
  BY DEF Cleared, Dangles, Resetting, ThreadResets
<1>5. ThreadResets(r)' /\ Jumped(r)' /\ Over(r)'
  <2>1. x = "thread" => step[r] = "returned"
    BY DEF Over
  <2>2. ThreadResets(r)'
    BY <2>1 DEF ThreadResets, Resetting
  <2>3. Jumped(r)' /\ Over(r)'
    BY DEF Jumped, Over
  <2>4. QED
    BY <2>2, <2>3
<1>6. Closing(r)' /\ Closed(r)'
  BY DEF Closing, Closed, Others, Cleared, ThreadResets, Flagged, Resetting
<1>7. QED
  BY <1>1, <1>2, <1>3, <1>4, <1>5, <1>6

\* It closes the session, alone.
LEMMA CloseLockedSound ==
    ASSUME SessionTypeOK, RequestTypeOK, NEW r \in Sessions, Sound(r),
           NEW x \in Users, CloseLocked(r, x), UNCHANGED <<pc, m_bClosed>>
    PROVE  SessionTypeOK' /\ Sound(r)'
<1> USE SessionAssumption, JumpAssumption
        DEF SessionTypeOK, Sound, Users, Handles, CloseLocked, LockFree, SessionClose, At,
            handleVars, resetVars
<1>1. SessionTypeOK'
  BY DEF Live, Opened, One, Jumped, Cleared, Blocking, Following
<1>2. Live(r)' /\ Dangles(r)'
  BY DEF Live, Dangles, Opened, One, Locked, HoldsLock, Flagged, Resetting, ThreadResets
<1>3. Flagged(r)' /\ Locked(r)'
  BY DEF Flagged, Locked, Resetting, ThreadResets, HoldsLock, LockFree
<1>4. Cleared(r)'
  BY DEF Cleared, Dangles, Resetting, ThreadResets
<1>5. ThreadResets(r)' /\ Jumped(r)' /\ Over(r)'
  BY DEF ThreadResets, Jumped, Over, Resetting, HoldsLock
<1>6. Closing(r)' /\ Closed(r)'
  BY DEF Closing, Closed, Others, Cleared, ThreadResets, Flagged, Resetting
<1>7. QED
  BY <1>1, <1>2, <1>3, <1>4, <1>5, <1>6

\* A handle is closed.
LEMMA CloseHandleSound ==
    ASSUME SessionTypeOK, RequestTypeOK, NEW r \in Sessions, Sound(r),
           NEW x \in Users, CloseHandle(r, x), UNCHANGED <<pc, m_bClosed>>
    PROVE  SessionTypeOK' /\ Sound(r)'
<1> USE SessionAssumption, JumpAssumption
        DEF SessionTypeOK, Sound, Users, Handles, CloseHandle, handleVars, resetVars
<1>1. SessionTypeOK'
  BY DEF Live, Opened, One, Jumped, Cleared, Blocking, Following
<1>2. Live(r)' /\ Dangles(r)'
  BY DEF Live, Dangles, Opened, One, Locked, HoldsLock, Flagged, Resetting, ThreadResets
<1>3. Flagged(r)' /\ Locked(r)'
  BY DEF Flagged, Locked, Resetting, ThreadResets, HoldsLock, LockFree
<1>4. Cleared(r)'
  BY DEF Cleared, Dangles, Resetting, ThreadResets
<1>5. ThreadResets(r)' /\ Jumped(r)' /\ Over(r)'
  BY DEF ThreadResets, Jumped, Over, Resetting, HoldsLock
<1>6. Closing(r)' /\ Closed(r)'
  BY DEF Closing, Closed, Others, Cleared, ThreadResets, Flagged, Resetting
<1>7. QED
  BY <1>1, <1>2, <1>3, <1>4, <1>5, <1>6

\* A handle that is not there is passed over.
LEMMA SkipHandleSound ==
    ASSUME SessionTypeOK, RequestTypeOK, NEW r \in Sessions, Sound(r),
           NEW x \in Users, SkipHandle(r, x), UNCHANGED <<pc, m_bClosed>>
    PROVE  SessionTypeOK' /\ Sound(r)'
<1> USE SessionAssumption, JumpAssumption
        DEF SessionTypeOK, Sound, Users, Handles, SkipHandle, Following, At, handleVars,
            resetVars
<1>1. SessionTypeOK'
  BY DEF Live, Opened, One, Jumped, Cleared, Blocking, Following
<1>2. Live(r)' /\ Dangles(r)'
  BY DEF Live, Dangles, Opened, One, Locked, HoldsLock, Flagged, Resetting, ThreadResets
<1>3. Flagged(r)' /\ Locked(r)'
  BY DEF Flagged, Locked, Resetting, ThreadResets, HoldsLock, LockFree
<1>4. Cleared(r)'
  BY DEF Cleared, Dangles, Resetting, ThreadResets
<1>5. ThreadResets(r)' /\ Jumped(r)' /\ Over(r)'
  BY DEF ThreadResets, Jumped, Over, Resetting, HoldsLock
<1>6. Closing(r)' /\ Closed(r)'
  BY DEF Closing, Closed, Others, Cleared, ThreadResets, Flagged, Resetting
<1>7. QED
  BY <1>1, <1>2, <1>3, <1>4, <1>5, <1>6

\* A handle that has been closed is set to NULL.
LEMMA ClearHandleSound ==
    ASSUME SessionTypeOK, RequestTypeOK, NEW r \in Sessions, Sound(r),
           NEW x \in Users, ClearHandle(r, x), UNCHANGED <<pc, m_bClosed>>
    PROVE  SessionTypeOK' /\ Sound(r)'
<1> USE SessionAssumption, JumpAssumption
        DEF SessionTypeOK, Sound, Users, Handles, ClearHandle, Following, At, handleVars,
            resetVars
<1>1. \A y \in dangling[r] \ {x} :
        y = "thread" \/ step[r] \in {"redirect", "close", "returned"}
  BY DEF Dangles, Locked, HoldsLock, ThreadResets
<1>2. SessionTypeOK'
  BY <1>1 DEF Live, Opened, One, Jumped, Cleared, Blocking, Following
<1>3. Live(r)' /\ Dangles(r)'
  BY <1>1 DEF Live, Dangles, Opened, One, Locked, HoldsLock, Flagged, Resetting,
         ThreadResets
<1>4. Flagged(r)' /\ Locked(r)'
  BY <1>1 DEF Flagged, Locked, Resetting, ThreadResets, HoldsLock, LockFree
<1>5. Cleared(r)'
  BY <1>1 DEF Cleared, Dangles, Resetting, ThreadResets
<1>6. ThreadResets(r)' /\ Jumped(r)' /\ Over(r)'
  BY <1>1 DEF ThreadResets, Jumped, Over, Resetting, HoldsLock
<1>7. Closing(r)' /\ Closed(r)'
  BY <1>1 DEF Closing, Closed, Others, Cleared, ThreadResets, Flagged, Resetting
<1>8. QED
  BY <1>2, <1>3, <1>4, <1>5, <1>6, <1>7

\* A Close is over.
LEMMA CloseDoneSound ==
    ASSUME SessionTypeOK, RequestTypeOK, NEW r \in Sessions, Sound(r),
           NEW x \in Users, CloseDone(r, x), UNCHANGED <<pc, m_bClosed>>
    PROVE  SessionTypeOK' /\ Sound(r)'
<1> USE SessionAssumption, JumpAssumption
        DEF SessionTypeOK, Sound, Users, Handles, CloseDone, At, handleVars, resetVars
<1>1. SessionTypeOK'
  BY DEF Live, Opened, One, Jumped, Cleared, Blocking, Following
<1>2. Live(r)' /\ Dangles(r)'
  BY DEF Live, Dangles, Opened, One, Locked, HoldsLock, Flagged, Resetting, ThreadResets
<1>3. Flagged(r)' /\ Locked(r)'
  BY DEF Flagged, Locked, Resetting, ThreadResets, HoldsLock, LockFree
<1>4. Cleared(r)'
  BY DEF Cleared, Dangles, Resetting, ThreadResets
<1>5. ThreadResets(r)' /\ Jumped(r)' /\ Over(r)'
  BY DEF ThreadResets, Jumped, Over, Resetting, HoldsLock
<1>6. Closing(r)' /\ Closed(r)'
  BY DEF Closing, Closed, Others, Cleared, ThreadResets, Flagged, Resetting
<1>7. QED
  BY <1>1, <1>2, <1>3, <1>4, <1>5, <1>6

\* It sets m_bClosed.
LEMMA CloseSetSound ==
    ASSUME SessionTypeOK, RequestTypeOK, NEW r \in Sessions, Sound(r),
           NEW x \in Users, CloseSet(r, x), pc' = pc
    PROVE  SessionTypeOK' /\ Sound(r)'
<1> USE SessionAssumption, JumpAssumption
        DEF SessionTypeOK, Sound, Users, Handles, CloseSet, At, handleVars, resetVars
<1>1. SessionTypeOK'
  BY DEF Live, Opened, One, Jumped, Cleared, Blocking, Following
<1>2. Live(r)' /\ Dangles(r)'
  BY DEF Live, Dangles, Opened, One, Locked, HoldsLock, Flagged, Resetting, ThreadResets
<1>3. Flagged(r)' /\ Locked(r)'
  BY DEF Flagged, Locked, Resetting, ThreadResets, HoldsLock, LockFree
<1>4. Cleared(r)'
  BY DEF Cleared, Dangles, Resetting, ThreadResets
<1>5. ThreadResets(r)' /\ Jumped(r)' /\ Over(r)'
  BY DEF ThreadResets, Jumped, Over, Resetting, HoldsLock
<1>6. Closing(r)' /\ Closed(r)'
  BY DEF Closing, Closed, Others, Cleared, ThreadResets, Flagged, Resetting
<1>7. QED
  BY <1>1, <1>2, <1>3, <1>4, <1>5, <1>6

\* The close after the callback is through.
LEMMA SwitchedClosedSound ==
    ASSUME SessionTypeOK, RequestTypeOK, NEW r \in Sessions, Sound(r),
           NEW x \in {r, "timer"}, SwitchedClosed(x, r)
    PROVE  SessionTypeOK' /\ Sound(r)'
<1> USE SessionAssumption, JumpAssumption
        DEF SessionTypeOK, Sound, Users, Handles, SwitchedClosed, Serves, Holder, Go, At,
            flagVars, handleVars, resetVars
<1>1. r # "timer" /\ pc[x] = "close"
  BY RequestAssumption DEF SwitchedClosed
<1>2. SessionTypeOK'
  BY <1>1 DEF Live, Opened, One, Jumped, Cleared, Blocking, Following
<1>3. Live(r)' /\ Dangles(r)'
  BY <1>1 DEF Live, Dangles, Opened, One, Locked, HoldsLock, Flagged, Resetting,
         ThreadResets
<1>4. Flagged(r)' /\ Locked(r)'
  BY <1>1 DEF Flagged, Locked, Resetting, ThreadResets, HoldsLock, LockFree
<1>5. Cleared(r)'
  BY <1>1 DEF Cleared, Dangles, Resetting, ThreadResets
<1>6. ThreadResets(r)' /\ Jumped(r)' /\ Over(r)'
  BY <1>1 DEF ThreadResets, Jumped, Over, Resetting, HoldsLock
<1>7. Closing(r)' /\ Closed(r)'
  BY <1>1 DEF Closing, Closed, Others, Cleared, ThreadResets, Flagged, Resetting
<1>8. QED
  BY <1>2, <1>3, <1>4, <1>5, <1>6, <1>7

-----------------------------------------------------------------------------
(* Every step of the program.                                               *)

Same(q) ==
    /\ step'[q] = step[q] /\ handle'[q] = handle[q] /\ live'[q] = live[q]
    /\ reset'[q] = reset[q] /\ dangling'[q] = dangling[q]
    /\ m_bHttpClosed'[q] = m_bHttpClosed[q] /\ nJumpRetryCount'[q] = nJumpRetryCount[q]
    /\ m_bClosed'[q] = m_bClosed[q]

\* A session about which nothing changes stays as it is.
LEMMA SameSound ==
    ASSUME NEW q \in Sessions, Sound(q), Same(q), Over(q)'
    PROVE  Sound(q)'
<1> USE DEF Sound, Same
<1>1. Live(q)' /\ Dangles(q)' /\ Flagged(q)' /\ Cleared(q)' /\ ThreadResets(q)' /\ Jumped(q)'
  BY DEF Live, Opened, One, Dangles, Flagged, Cleared, ThreadResets, Jumped
<1>2. Locked(q)'
  BY DEF Locked, HoldsLock
<1>3. Closing(q)' /\ Closed(q)'
  BY DEF Closing, Closed
<1>4. QED
  BY <1>1, <1>2, <1>3

\* A step of one session leaves the others alone.
LEMMA OneSession ==
    ASSUME SInv, NEW r \in Sessions, SessionTypeOK', Sound(r)',
           \A q \in Sessions \ {r} : Same(q) /\ pc'[q] = pc[q]
    PROVE  SInv'
<1>1. ASSUME NEW q \in Sessions \ {r} PROVE Sound(q)'
  <2>1. Over(q)'
    BY <1>1 DEF SInv, Sound, Over, Same
  <2>2. QED
    BY <1>1, <2>1, SameSound DEF SInv
<1>2. QED
  BY <1>1 DEF SInv

\* A step outside the sessions concerns them only by what the thread delivers.
LEMMA OutsideKeeps ==
    ASSUME SInv, UNCHANGED sessionVars,
           \A q \in Sessions : m_bClosed'[q] = m_bClosed[q] /\ Over(q)'
    PROVE  SInv'
<1> USE DEF sessionVars, handleVars, resetVars
<1>1. SessionTypeOK'
  BY DEF SInv, SessionTypeOK
<1>2. \A q \in Sessions : Same(q)
  BY DEF Same
<1>3. QED
  BY <1>1, <1>2, SameSound DEF SInv

\* A step of Request.
LEMMA RequestKeeps ==
    ASSUME SInv, RequestTypeOK, NEW r \in Sessions, SessionRequest(r)
    PROVE  SInv'
<1>1. UNCHANGED <<pc, m_bClosed>> /\ Request(r)
  BY DEF SessionRequest
<1>2. SessionTypeOK /\ Sound(r)
  BY DEF SInv
<1>3. SessionTypeOK' /\ Sound(r)'
  BY <1>1, <1>2, JumpRefusedSound, JumpTakenSound, ConnectSound, InternetOpenSound,
     InternetConnectSound, OpenRequestSound, AddHeadersSound, SendSound, RetrySound,
     RespondSound, ReadSound, RedirectSound, JumpSound, AutoCloseSound, AutoClosedSound
     DEF Request, Transfer
<1>4. \A q \in Sessions \ {r} : Same(q)
  <2> USE <1>1, <1>2 DEF SessionTypeOK, Same, Move, At, handleVars, resetVars
  <2>1. CASE JumpRefused(r) \/ JumpTaken(r) \/ Connect(r) \/ AddHeaders(r)
    BY <2>1 DEF JumpRefused, JumpTaken, Connect, AddHeaders
  <2>2. CASE InternetOpen(r) \/ InternetConnect(r) \/ OpenRequest(r)
    BY <2>2 DEF InternetOpen, InternetConnect, OpenRequest, OpenHandle
  <2>3. CASE Transfer(r)
    BY <2>3 DEF Transfer, Send, Retry, Respond, Read, Redirect
  <2>4. CASE Jump(r) \/ AutoClose(r) \/ AutoClosed(r)
    BY <2>4 DEF Jump, AutoClose, AutoClosed, SessionClose
  <2>5. QED
    BY <2>1, <2>2, <2>3, <2>4 DEF Request
<1>5. QED
  BY <1>1, <1>3, <1>4, OneSession

\* A step of CWebRequest::Close.
LEMMA CloseKeeps ==
    ASSUME SInv, RequestTypeOK, NEW r \in Sessions, NEW x \in Users,
           CloseTested(r, x) \/ CWebRequestClose(r, x)
    PROVE  SInv'
<1>1. SessionTypeOK /\ Sound(r) /\ pc' = pc
  BY DEF SInv, CloseTested, CWebRequestClose, CloseSet, CloseLocked, CloseResets, CloseDone
<1>2. CASE CloseTested(r, x) \/ CloseLocked(r, x) \/ CloseDone(r, x)
  <2>1. UNCHANGED <<pc, m_bClosed>>
    BY <1>2 DEF CloseTested, CloseLocked, CloseDone
  <2>2. SessionTypeOK' /\ Sound(r)'
    BY <1>1, <1>2, <2>1, CloseTestedSound, CloseLockedSound, CloseDoneSound
  <2>3. \A q \in Sessions \ {r} : Same(q)
    BY <1>1, <1>2, <2>1
       DEF CloseTested, CloseLocked, CloseDone, SessionClose, At, Same, SessionTypeOK,
           handleVars, resetVars
  <2>4. QED
    BY <1>1, <2>2, <2>3, OneSession
<1>3. CASE CloseSet(r, x)
  <2>1. SessionTypeOK' /\ Sound(r)'
    BY <1>1, <1>3, CloseSetSound
  <2>2. \A q \in Sessions \ {r} : Same(q)
    BY <1>1, <1>3, SessionAssumption
       DEF CloseSet, At, Same, SessionTypeOK, RequestTypeOK, handleVars, resetVars
  <2>3. QED
    BY <1>1, <2>1, <2>2, OneSession
<1>4. CASE CloseResets(r, x)
  <2>1. UNCHANGED <<pc, m_bClosed>> /\ ResetRequestHandle(r, x)
    BY <1>4 DEF CloseResets
  <2>2. SessionTypeOK' /\ Sound(r)'
    BY <1>1, <2>1, CloseHandleSound, SkipHandleSound, ClearHandleSound DEF ResetRequestHandle
  <2>3. \A q \in Sessions \ {r} : Same(q)
    BY <1>1, <2>1
       DEF ResetRequestHandle, CloseHandle, SkipHandle, ClearHandle, At, Same, SessionTypeOK,
           handleVars, resetVars
  <2>4. QED
    BY <1>1, <2>2, <2>3, OneSession
<1>5. QED
  BY <1>2, <1>3, <1>4 DEF CWebRequestClose

\* The steps of the client, the timer and the destructors, outside the sessions.
LEMMA OthersKeep ==
    ASSUME SInv, RequestTypeOK, NEW r \in Requests,
           Client(r) \/ TimeOut(r) \/ Destructor(r)
    PROVE  SInv'
<1>0. \A q \in Sessions : Over(q) /\ q \in Requests /\ q # "timer"
  BY RequestAssumption, SessionAssumption DEF SInv, Sound
<1> USE DEF RequestTypeOK, Go, flagVars
<1>1. CASE TimeOut(r)
  <2>1. UNCHANGED sessionVars
    BY <1>1 DEF TimeOut, ProcessTimeOut, ProcessTimeOutTooLate, ItemDone
  <2>2. \A q \in Sessions : m_bClosed'[q] = m_bClosed[q] /\ Over(q)'
    BY <1>0, <1>1, <2>1, RequestAssumption DEF Over, sessionVars, TimeOut, ProcessTimeOut,
           ProcessTimeOutTooLate, ItemDone
  <2>3. QED
    BY <2>1, <2>2, OutsideKeeps
<1>2. CASE Destructor(r) \/ AsyncRequestTimer(r) \/ \E x \in Threads : Release(x, r)
  <2>1. UNCHANGED <<sessionVars, m_bClosed, pc>>
    BY <1>2 DEF Destructor, AsyncRequestTimer, Release
  <2>2. \A q \in Sessions : m_bClosed'[q] = m_bClosed[q] /\ Over(q)'
    BY <1>0, <2>1 DEF Over, sessionVars
  <2>3. QED
    BY <2>1, <2>2, OutsideKeeps
<1>3. CASE AsyncRequestNoUrl(r) \/ \E x \in Threads : AsyncRequest(x, r)
  <2>1. UNCHANGED sessionVars
    BY <1>3 DEF AsyncRequestNoUrl, AsyncRequest
  <2>2. \A q \in Sessions : m_bClosed'[q] = m_bClosed[q] /\ Over(q)'
    BY <1>0, <1>3, <2>1, RequestAssumption DEF Over, sessionVars, AsyncRequestNoUrl,
           AsyncRequest
  <2>3. QED
    BY <2>1, <2>2, OutsideKeeps
<1>4. CASE Close(r)
  <2>1. UNCHANGED sessionVars
    BY <1>4 DEF Close
  <2>2. \A q \in Sessions : m_bClosed'[q] = m_bClosed[q] /\ Over(q)'
    BY <1>0, <1>4, <2>1, RequestAssumption DEF Over, sessionVars, Close
  <2>3. QED
    BY <2>1, <2>2, OutsideKeeps
<1>5. QED
  BY <1>1, <1>2, <1>3, <1>4 DEF Client

\* The steps of the thread of a request, and of who serves it.
LEMMA ThreadsKeep ==
    ASSUME SInv, RequestTypeOK, NEW r \in Requests, NEW x \in {r, "timer"},
           RequestThread(r) \/ ProcessThreadSwitched(x, r)
    PROVE  SInv'
<1>0. \A q \in Sessions : Over(q) /\ q \in Requests /\ q # "timer"
  BY RequestAssumption, SessionAssumption DEF SInv, Sound
<1> USE DEF RequestTypeOK, Go, flagVars
<1>1. CASE RequestThread(r)
  <2>1. UNCHANGED sessionVars
    BY <1>1 DEF RequestThread, Finish, ResetOwn, LeaveCS, MakeResult
  <2>2. \A q \in Sessions : m_bClosed'[q] = m_bClosed[q] /\ Over(q)'
    BY <1>0, <1>1, <2>1, RequestAssumption DEF Over, sessionVars, RequestThread, Finish,
           ResetOwn, LeaveCS, MakeResult
  <2>3. QED
    BY <2>1, <2>2, OutsideKeeps
<1>2. CASE Switched(x, r) \/ SwitchedDeletes(x, r) \/ CallbackReturns(x, r)
  <2>1. UNCHANGED sessionVars
    BY <1>2 DEF Switched, SwitchedDeletes, CallbackReturns
  <2>2. \A q \in Sessions : m_bClosed'[q] = m_bClosed[q] /\ Over(q)'
    BY <1>0, <1>2, <2>1, RequestAssumption DEF Over, sessionVars, Switched,
           SwitchedDeletes, CallbackReturns
  <2>3. QED
    BY <2>1, <2>2, OutsideKeeps
<1>3. CASE SwitchedCloses(x, r) \/ DropResult(x, r) \/ SwitchedReturns(x, r)
  <2>1. UNCHANGED sessionVars
    BY <1>3 DEF SwitchedCloses, DropResult, SwitchedReturns, ItemDone
  <2>2. \A q \in Sessions : m_bClosed'[q] = m_bClosed[q] /\ Over(q)'
    BY <1>0, <1>3, <2>1, RequestAssumption DEF Over, sessionVars, SwitchedCloses,
           DropResult, SwitchedReturns, ItemDone
  <2>3. QED
    BY <2>1, <2>2, OutsideKeeps
<1>4. CASE SwitchedClosed(x, r)
  <2>1. r \in Sessions
    BY <1>4 DEF SwitchedClosed
  <2>0. SessionTypeOK /\ Sound(r)
    BY <2>1 DEF SInv
  <2>2. SessionTypeOK' /\ Sound(r)'
    BY <1>4, <2>0, <2>1, SwitchedClosedSound
  <2>3. \A q \in Sessions \ {r} : Same(q) /\ pc'[q] = pc[q]
    BY <1>0, <1>4, <2>0, <2>1 DEF SwitchedClosed, At, Same, SessionTypeOK, handleVars,
           resetVars
  <2>4. QED
    BY <2>1, <2>2, <2>3, OneSession
<1>5. QED
  BY <1>1, <1>2, <1>3, <1>4 DEF ProcessThreadSwitched

\* The walk of the timers.
LEMMA WalkKeepsSessions == ASSUME SInv, RequestTypeOK, Tick PROVE SInv'
<1>1. UNCHANGED <<sessionVars, m_bClosed>>
  BY DEF Tick, flagVars
<1>2. \A q \in Sessions : pc'[q] = pc[q] \/ pc'[q] = "undefined"
  BY RequestAssumption, SessionAssumption
     DEF Tick, TimerThread, CheckCalls, WaitForTimer, TickBegin, ItemWaits, ItemErased,
         ItemExecuted, TickEnd, ItemMissing, Visiting, Go, RequestTypeOK
<1>3. \A q \in Sessions : Over(q)'
  BY <1>1, <1>2 DEF SInv, Sound, Over, sessionVars
<1>4. QED
  BY <1>1, <1>3, OutsideKeeps

\* The thread starts the request, or the headers are read while they are removed.
LEMMA StartKeeps ==
    ASSUME SInv, RequestTypeOK, NEW r \in Sessions, NEW x \in Users,
           StartRequest(r) \/ HeadersRace(r, x)
    PROVE  SInv'
<1>1. CASE StartRequest(r)
  <2>1. SessionTypeOK /\ Sound(r)
    BY DEF SInv
  <2>2. SessionTypeOK' /\ Sound(r)'
    BY <1>1, <2>1, StartRequestSound DEF StartRequest
  <2>3. \A q \in Sessions \ {r} : Same(q) /\ pc'[q] = pc[q]
    BY <1>1, <2>1 DEF StartRequest, Move, Same, SessionTypeOK, handleVars, resetVars
  <2>4. QED
    BY <2>2, <2>3, OneSession
<1>2. CASE HeadersRace(r, x)
  <2>1. UNCHANGED <<sessionVars, m_bClosed>>
    BY <1>2 DEF HeadersRace
  <2>2. \A q \in Sessions : Over(q)'
    BY <1>2, SessionAssumption DEF HeadersRace, Over, RequestTypeOK
  <2>3. QED
    BY <2>1, <2>2, OutsideKeeps
<1>3. QED
  BY <1>1, <1>2

\* Nothing has been opened yet.
LEMMA InitSInv == ASSUME Init PROVE SInv
<1> USE RequestAssumption, SessionAssumption, JumpAssumption
        DEF Init, SessionInit, Handles, Users
<1>1. SessionTypeOK
  BY DEF SessionTypeOK
<1>2. ASSUME NEW r \in Sessions PROVE Sound(r)
  <2>1. Live(r) /\ Dangles(r) /\ Flagged(r) /\ Locked(r) /\ Cleared(r)
    BY <1>2 DEF Live, Opened, One, Dangles, Flagged, Locked, HoldsLock, Resetting, Cleared
  <2>2. ThreadResets(r) /\ Jumped(r) /\ Over(r) /\ Closing(r) /\ Closed(r)
    BY <1>2 DEF ThreadResets, Jumped, Over, Closing, Closed, Others
  <2>3. QED
    BY <2>1, <2>2 DEF Sound
<1>3. QED
  BY <1>1, <1>2 DEF SInv

\* Every step of the program keeps the invariant of the sessions.
LEMMA NextKeepsSessions == ASSUME SInv, RequestTypeOK, [Next]_vars PROVE SInv'
<1>1. CASE Tick
  BY <1>1, WalkKeepsSessions
<1>2. ASSUME NEW r \in Requests, Client(r) \/ RequestThread(r) \/ TimeOut(r) \/ Destructor(r)
      PROVE  SInv'
  BY <1>2, OthersKeep, ThreadsKeep
<1>3. ASSUME NEW r \in Requests, NEW x \in {r, "timer"}, ProcessThreadSwitched(x, r)
      PROVE  SInv'
  BY <1>3, ThreadsKeep
<1>4. ASSUME NEW r \in Sessions,
             \/ StartRequest(r) \/ SessionRequest(r)
             \/ \E x \in Users :
                  CloseTested(r, x) \/ CWebRequestClose(r, x) \/ HeadersRace(r, x)
      PROVE  SInv'
  BY <1>4, StartKeeps, RequestKeeps, CloseKeeps DEF Users
<1>5. CASE UNCHANGED vars
  <2>1. UNCHANGED <<sessionVars, m_bClosed, pc>>
    BY <1>5 DEF vars, flagVars
  <2>2. QED
    BY <2>1, OutsideKeeps DEF SInv, Sound, Over, sessionVars
<1>6. QED
  BY <1>1, <1>2, <1>3, <1>4, <1>5 DEF Next

\* The invariant of the sessions holds of every reachable state.
THEOREM SessionInvariance == Spec => []SInv
<1>1. Init => SInv
  BY InitSInv
<1>2. SInv /\ RequestTypeOK /\ [Next]_vars => SInv'
  BY NextKeepsSessions
<1>3. Spec => []RequestTypeOK
  BY RequestTypes
<1>4. QED
  BY <1>1, <1>2, <1>3, PTL DEF Spec
-----------------------------------------------------------------------------
\* The state of requests and sessions is of its type; in particular WinInet has
\* never more than three handles open for a session, nor fewer than none.
THEOREM Types == Spec => []TypeOK
<1>1. RequestTypeOK /\ SInv => TypeOK
  BY DEF SInv, TypeOK
<1>2. QED
  BY <1>1, SessionInvariance, RequestTypes, PTL

\* Whichever way Request returns, and whoever closes the session meanwhile, no handle
\* is left open or forgotten.
THEOREM HandlesAreClosed == Spec => []NoHandleLeft
<1>1. ASSUME SInv, NEW r \in Sessions, step[r] = "returned"
      PROVE  live[r] = 0 /\ handle[r] = [h \in Handles |-> "null"]
  <2>1. handle[r] \in [Handles -> {"null", "open", "closed"}]
    BY <1>1 DEF SInv, SessionTypeOK
  <2>2. \A h \in Handles : handle[r][h] = "null"
    BY <1>1 DEF SInv, Sound, Cleared
  <2>3. live[r] = 0
    BY <1>1, <2>2 DEF SInv, Sound, Live, Opened, One, Handles
  <2>4. QED
    BY <2>1, <2>2, <2>3
<1>2. SInv => NoHandleLeft
  BY <1>1 DEF NoHandleLeft
<1>3. QED
  BY <1>2, SessionInvariance, PTL

\* A session that has been closed has no request on its way, and opens none.
THEOREM ClosedIsFinal == Spec => []ClosedStaysClosed
<1>1. SInv => ClosedStaysClosed
  BY DEF SInv, Sound, Closed, ClosedStaysClosed, Others, Users
<1>2. QED
  BY <1>1, SessionInvariance, PTL
-----------------------------------------------------------------------------
(* What RequestReturns rests on, short of fairness: a request can always go  *)
(* on but for the network, and has a bounded number of steps before it.      *)

\* A request that asks for the length of an answer whose handle is gone finds the
\* session closed; one in its own Close or redirect is at one of the handles.
CanGoOn(r) ==
    /\ step[r] = "respond" => Answers(r) \/ m_bHttpClosed[r]
    /\ step[r] = "redirect" => reset[r]["thread"] \in Resetting
    /\ step[r] = "close" => reset[r]["thread"] \in Resetting \cup {"none"}

RequestNotStuck == \A r \in Sessions : CanGoOn(r)

\* The steps that are left of the handles the thread is resetting.
ResetLeft(r) ==
    IF reset[r]["thread"] = "request" THEN 7 - One("thread" \in dangling[r])
    ELSE IF reset[r]["thread"] = "connect" THEN 5 - One("thread" \in dangling[r])
    ELSE IF reset[r]["thread"] = "open" THEN 3 - One("thread" \in dangling[r])
    ELSE IF reset[r]["thread"] = "end" THEN 1 ELSE 8

\* The steps that are left of the pass through Request.
PassLeft(r) ==
    IF step[r] \in {"redirect", "close"} THEN ResetLeft(r)
    ELSE IF step[r] = "read" THEN 9
    ELSE IF step[r] = "respond" THEN 10
    ELSE IF step[r] = "resend" THEN 11
    ELSE IF step[r] = "sleep" THEN 12
    ELSE IF step[r] = "send" THEN 13
    ELSE IF step[r] = "headers" THEN 14
    ELSE IF step[r] = "request" THEN 15
    ELSE IF step[r] = "attach" THEN 16
    ELSE IF step[r] = "open" THEN 17
    ELSE IF step[r] = "connect" THEN 18
    ELSE IF step[r] = "jump" THEN 19 ELSE 0

\* And of the addresses that may still be tried.
RequestLeft(r) == 20 * (MaxJumpRetry + 1 - nJumpRetryCount[r]) + PassLeft(r)

UnderWay(r) == step[r] \notin {"idle", "returned"}

\* The thread of the request takes a step of its own.
ThreadMoves(r) ==
    \/ step'[r] # step[r]
    \/ reset'[r]["thread"] # reset[r]["thread"]
    \/ ~("thread" \in dangling'[r] <=> "thread" \in dangling[r])

Shrinks(r) ==
    UnderWay(r) =>
        /\ RequestLeft(r)' <= RequestLeft(r)
        /\ ThreadMoves(r) => RequestLeft(r)' < RequestLeft(r)

\* Each step of the thread brings the end of the request nearer, through all its
\* redirects and second attempts, and no Close of another thread puts it off.
RequestShrinks == [][\A r \in Sessions : Shrinks(r)]_vars

\* What the measure and CanGoOn are about.
Frame(q) ==
    /\ step'[q] = step[q] /\ handle'[q] = handle[q]
    /\ reset'[q] = reset[q] /\ dangling'[q] = dangling[q]
    /\ m_bHttpClosed'[q] = m_bHttpClosed[q] /\ nJumpRetryCount'[q] = nJumpRetryCount[q]

\* The steps that concern session q.
Own(q) ==
    \/ StartRequest(q) \/ SessionRequest(q)
    \/ \E x \in Users : CloseTested(q, x) \/ CWebRequestClose(q, x)
    \/ \E x \in {q, "timer"} : SwitchedClosed(x, q)

\* The own steps of a session leave the others alone.
LEMMA OwnLeavesOthers ==
    ASSUME SInv, RequestTypeOK, NEW r \in Sessions, Own(r), NEW q \in Sessions \ {r}
    PROVE  Frame(q)
<1>0. SessionTypeOK /\ Sound(r)
  BY DEF SInv
<1> USE <1>0 DEF SessionTypeOK, Frame, Move, At, handleVars, resetVars
<1>1. ASSUME SessionRequest(r)
      PROVE  Frame(q)
  <2>1. CASE JumpRefused(r) \/ JumpTaken(r) \/ Connect(r) \/ AddHeaders(r)
    BY <2>1 DEF JumpRefused, JumpTaken, Connect, AddHeaders
  <2>2. CASE InternetOpen(r) \/ InternetConnect(r) \/ OpenRequest(r)
    BY <2>2 DEF InternetOpen, InternetConnect, OpenRequest, OpenHandle
  <2>3. CASE Transfer(r)
    BY <2>3 DEF Transfer, Send, Retry, Respond, Read, Redirect
  <2>4. CASE Jump(r) \/ AutoClose(r) \/ AutoClosed(r)
    BY <2>4 DEF Jump, AutoClose, AutoClosed, SessionClose
  <2>5. QED
    BY <1>1, <2>1, <2>2, <2>3, <2>4 DEF SessionRequest, Request
<1>2. CASE StartRequest(r)
  BY <1>2 DEF StartRequest
<1>3. ASSUME NEW x \in Users, CloseTested(r, x) \/ CWebRequestClose(r, x)
      PROVE  Frame(q)
  <2>1. CASE CloseTested(r, x) \/ CloseSet(r, x) \/ CloseDone(r, x)
    BY <2>1 DEF CloseTested, CloseSet, CloseDone
  <2>2. CASE CloseLocked(r, x)
    BY <2>2 DEF CloseLocked, SessionClose
  <2>3. CASE CloseResets(r, x)
    BY <2>3 DEF CloseResets, ResetRequestHandle, CloseHandle, SkipHandle, ClearHandle
  <2>4. QED
    BY <1>3, <2>1, <2>2, <2>3 DEF CWebRequestClose
<1>4. ASSUME NEW x \in {r, "timer"}, SwitchedClosed(x, r)
      PROVE  Frame(q)
  BY <1>4 DEF SwitchedClosed
<1>5. QED
  BY <1>1, <1>2, <1>3, <1>4 DEF Own

\* Every other step leaves a session as it is.
LEMMA OthersLeaveSession ==
    ASSUME SInv, RequestTypeOK, [Next]_vars, NEW q \in Sessions, ~Own(q)
    PROVE  Frame(q)
<1>1. UNCHANGED sessionVars => Frame(q)
  BY DEF sessionVars, handleVars, resetVars, Frame
<1>2. ASSUME NEW r \in Requests, Client(r) \/ RequestThread(r) \/ TimeOut(r) \/ Destructor(r)
      PROVE  UNCHANGED sessionVars
  <2>1. CASE Client(r)
    BY <2>1 DEF Client, AsyncRequestNoUrl, AsyncRequestTimer, Close, AsyncRequest, Release
  <2>2. CASE RequestThread(r)
    BY <2>2 DEF RequestThread, Finish, ResetOwn, LeaveCS, MakeResult
  <2>3. CASE TimeOut(r) \/ Destructor(r)
    BY <2>3 DEF TimeOut, ProcessTimeOut, ProcessTimeOutTooLate, ItemDone, Destructor
  <2>4. QED
    BY <1>2, <2>1, <2>2, <2>3
<1>3. ASSUME NEW r \in Requests, NEW x \in {r, "timer"}, ProcessThreadSwitched(x, r)
      PROVE  Frame(q)
  <2>1. CASE SwitchedClosed(x, r)
    <3>1. r \in Sessions /\ Own(r)
      BY <2>1 DEF SwitchedClosed, Own
    <3>2. QED
      BY <3>1, OwnLeavesOthers
  <2>2. CASE ~SwitchedClosed(x, r)
    <3>1. UNCHANGED sessionVars
      BY <1>3, <2>2 DEF ProcessThreadSwitched, Switched, SwitchedDeletes, CallbackReturns,
         SwitchedCloses, DropResult, SwitchedReturns, ItemDone
    <3>2. QED
      BY <1>1, <3>1
  <2>3. QED
    BY <2>1, <2>2
<1>4. ASSUME NEW r \in Sessions, NEW x \in Users,
             StartRequest(r) \/ SessionRequest(r) \/ CloseTested(r, x) \/ CWebRequestClose(r, x)
      PROVE  Frame(q)
  BY <1>4, OwnLeavesOthers DEF Own
<1>5. ASSUME NEW r \in Sessions, NEW x \in Users, HeadersRace(r, x)
      PROVE  UNCHANGED sessionVars
  BY <1>5 DEF HeadersRace
<1>6. CASE Tick
  BY <1>1, <1>6 DEF Tick
<1>7. CASE UNCHANGED vars
  BY <1>1, <1>7 DEF vars
<1>8. "thread" \in Users
  BY DEF Users
<1>9. QED
  BY <1>1, <1>2, <1>3, <1>4, <1>5, <1>6, <1>7, <1>8 DEF Next

\* What nothing happens to comes no farther from its end.
LEMMA FrameShrinks == ASSUME NEW q \in Sessions, SessionTypeOK, Frame(q) PROVE Shrinks(q)
<1>1. RequestLeft(q)' = RequestLeft(q) /\ ~ThreadMoves(q)
  BY DEF Frame, RequestLeft, PassLeft, ResetLeft, ThreadMoves
<1>2. RequestLeft(q) \in Int
  BY JumpAssumption DEF SessionTypeOK, RequestLeft, PassLeft, ResetLeft, One
<1>3. QED
  BY <1>1, <1>2 DEF Shrinks

\* A step of the thread of a request brings its end nearer.
LEMMA RequestStepShrinks ==
    ASSUME SInv, NEW q \in Sessions, Request(q)
    PROVE  RequestLeft(q)' < RequestLeft(q) \/ ~UnderWay(q)
<1>0. SessionTypeOK /\ Sound(q)
  BY DEF SInv
<1> USE <1>0, JumpAssumption
        DEF SessionTypeOK, Move, At, handleVars, resetVars, RequestLeft, One, Users, Handles
<1>1. CASE JumpRefused(q) \/ JumpTaken(q) \/ Connect(q) \/ AddHeaders(q)
  BY <1>1 DEF JumpRefused, JumpTaken, Connect, AddHeaders, PassLeft, ResetLeft
<1>2. CASE InternetOpen(q) \/ InternetConnect(q) \/ OpenRequest(q)
  BY <1>2 DEF InternetOpen, InternetConnect, OpenRequest, OpenHandle, PassLeft, ResetLeft
<1>3. CASE Send(q) \/ Retry(q) \/ Respond(q) \/ Read(q) \/ Redirect(q)
  BY <1>3 DEF Send, Retry, Respond, Read, Redirect, PassLeft, ResetLeft
<1>4. CASE Jump(q)
  BY <1>4 DEF Jump, PassLeft, ResetLeft
<1>5. CASE AutoClose(q)
  BY <1>5 DEF AutoClose, SessionClose, PassLeft, ResetLeft
<1>6. CASE AutoClosed(q)
  BY <1>6 DEF AutoClosed, PassLeft, ResetLeft
<1>7. QED
  BY <1>1, <1>2, <1>3, <1>4, <1>5, <1>6 DEF Request, Transfer

\* So does a step of it in the reset of the handles, and a step of another does not
\* concern it.
LEMMA ResetStepShrinks ==
    ASSUME SInv, NEW q \in Sessions, NEW x \in Users, ResetRequestHandle(q, x)
    PROVE  Shrinks(q)
<1>0. SessionTypeOK /\ Sound(q)
  BY DEF SInv
<1>1. UNCHANGED <<step, nJumpRetryCount>>
  BY DEF ResetRequestHandle, CloseHandle, SkipHandle, ClearHandle
<1>2. ASSUME x # "thread"
      PROVE  /\ reset'[q]["thread"] = reset[q]["thread"]
             /\ "thread" \in dangling'[q] <=> "thread" \in dangling[q]
  BY <1>0, <1>2 DEF ResetRequestHandle, CloseHandle, SkipHandle, ClearHandle, At, SessionTypeOK,
     handleVars, Users
<1>3. ASSUME x = "thread", UnderWay(q)
      PROVE  ResetLeft(q)' < ResetLeft(q) /\ step[q] \in {"redirect", "close"}
  <2>1. step[q] \in {"redirect", "close"}
    BY <1>0, <1>3 DEF UnderWay, Sound, ThreadResets, ResetRequestHandle, CloseHandle, SkipHandle,
       ClearHandle, Handles
  <2> USE <1>0, <1>3 DEF SessionTypeOK, At, handleVars, ResetLeft, One, Users, Handles, Following
  <2>2. CASE CloseHandle(q, x)
    BY <2>1, <2>2 DEF CloseHandle
  <2>3. CASE SkipHandle(q, x)
    BY <2>1, <2>3 DEF SkipHandle
  <2>4. CASE ClearHandle(q, x)
    BY <2>1, <2>4 DEF ClearHandle
  <2>5. QED
    BY <2>1, <2>2, <2>3, <2>4 DEF ResetRequestHandle
<1>4. RequestLeft(q) \in Int /\ ResetLeft(q) \in Int /\ MaxJumpRetry + 1 - nJumpRetryCount[q] \in Int
  BY <1>0, JumpAssumption DEF SessionTypeOK, RequestLeft, PassLeft, ResetLeft, One
<1>5. CASE x # "thread"
  BY <1>1, <1>2, <1>4, <1>5 DEF Shrinks, RequestLeft, PassLeft, ResetLeft, ThreadMoves
<1>6. CASE x = "thread"
  <2>1. UnderWay(q) => ResetLeft(q)' \in Int
    BY <1>0, <1>3, <1>6 DEF ResetLeft, One
  <2>2. QED
    BY <1>1, <1>3, <1>4, <1>6, <2>1 DEF Shrinks, RequestLeft, PassLeft
<1>7. QED
  BY <1>5, <1>6

\* The other steps of a Close leave the thread where it is, or come after Request.
LEMMA CloseStepShrinks ==
    ASSUME SInv, NEW q \in Sessions, NEW x \in Users,
           CloseTested(q, x) \/ CloseSet(q, x) \/ CloseLocked(q, x) \/ CloseDone(q, x)
    PROVE  Shrinks(q)
<1>0. SessionTypeOK /\ Sound(q)
  BY DEF SInv
<1>1. UNCHANGED <<step, dangling, nJumpRetryCount>>
  BY DEF CloseTested, CloseSet, CloseLocked, CloseDone, SessionClose
<1>2. CASE x = "thread"
  <2>1. step[q] = "returned"
    <3>1. CASE CloseTested(q, x)
      BY <1>0, <1>2, <3>1 DEF CloseTested, Sound, Over
    <3>2. CASE CloseSet(q, x) \/ CloseLocked(q, x)
      BY <1>0, <1>2, <3>2 DEF CloseSet, CloseLocked, Sound, ThreadResets
    <3>3. CASE CloseDone(q, x)
      BY <1>0, <1>2, <3>3 DEF CloseDone, HoldsLock, Sound, ThreadResets
    <3>4. QED
      BY <3>1, <3>2, <3>3
  <2>2. QED
    BY <2>1 DEF Shrinks, UnderWay
<1>3. CASE x # "thread"
  <2>1. reset'[q]["thread"] = reset[q]["thread"]
    BY <1>0, <1>3 DEF CloseTested, CloseSet, CloseLocked, CloseDone, SessionClose, At, SessionTypeOK, Users
  <2>2. RequestLeft(q)' = RequestLeft(q) /\ ~ThreadMoves(q)
    BY <1>1, <2>1 DEF RequestLeft, PassLeft, ResetLeft, ThreadMoves
  <2>3. RequestLeft(q) \in Int
    BY <1>0, JumpAssumption DEF SessionTypeOK, RequestLeft, PassLeft, ResetLeft, One
  <2>4. QED
    BY <2>2, <2>3 DEF Shrinks
<1>4. QED
  BY <1>2, <1>3

\* Nor does who closes the session at the end of the callback.
LEMMA SwitchedShrinks ==
    ASSUME SInv, NEW q \in Sessions, NEW x \in {q, "timer"}, SwitchedClosed(x, q)
    PROVE  Shrinks(q)
<1>0. SessionTypeOK /\ Sound(q) /\ q # "timer"
  BY RequestAssumption, SessionAssumption DEF SInv
<1>1. UNCHANGED <<step, dangling, nJumpRetryCount>>
  BY DEF SwitchedClosed
<1>2. CASE x = q
  BY <1>0, <1>2 DEF SwitchedClosed, Serves, Sound, Over, Shrinks, UnderWay
<1>3. CASE x = "timer"
  <2>1. reset'[q]["thread"] = reset[q]["thread"]
    BY <1>0, <1>3 DEF SwitchedClosed, Holder, At, SessionTypeOK, Users
  <2>2. RequestLeft(q)' = RequestLeft(q) /\ ~ThreadMoves(q)
    BY <1>1, <2>1 DEF RequestLeft, PassLeft, ResetLeft, ThreadMoves
  <2>3. RequestLeft(q) \in Int
    BY <1>0, JumpAssumption DEF SessionTypeOK, RequestLeft, PassLeft, ResetLeft, One
  <2>4. QED
    BY <2>2, <2>3 DEF Shrinks
<1>4. QED
  BY <1>2, <1>3

\* No step of the program puts the end of a request off.
LEMMA StepShrinks ==
    ASSUME SInv, RequestTypeOK, [Next]_vars, NEW q \in Sessions
    PROVE  Shrinks(q)
<1>0. SessionTypeOK
  BY DEF SInv
<1>1. CASE ~Own(q)
  BY <1>0, <1>1, OthersLeaveSession, FrameShrinks
<1>2. CASE StartRequest(q)
  BY <1>2 DEF StartRequest, Shrinks, UnderWay
<1>3. CASE SessionRequest(q)
  <2>1. Request(q)
    BY <1>3 DEF SessionRequest
  <2>2. RequestLeft(q) \in Int
    BY <1>0, JumpAssumption DEF SessionTypeOK, RequestLeft, PassLeft, ResetLeft, One
  <2>3. RequestLeft(q)' < RequestLeft(q) \/ ~UnderWay(q)
    BY <2>1, RequestStepShrinks
  <2>4. RequestLeft(q)' \in Int
    <3>1. SInv'
      BY <1>3, RequestKeeps
    <3>2. SessionTypeOK'
      BY <3>1 DEF SInv
    <3>3. QED
      BY <3>2, JumpAssumption DEF SessionTypeOK, RequestLeft, PassLeft, ResetLeft, One
  <2>5. QED
    BY <2>2, <2>3, <2>4 DEF Shrinks
<1>4. ASSUME NEW x \in Users, CloseTested(q, x) \/ CWebRequestClose(q, x)
      PROVE  Shrinks(q)
  BY <1>4, CloseStepShrinks, ResetStepShrinks DEF CWebRequestClose, CloseResets
<1>5. ASSUME NEW x \in {q, "timer"}, SwitchedClosed(x, q)
      PROVE  Shrinks(q)
  BY <1>5, SwitchedShrinks
<1>6. QED
  BY <1>1, <1>2, <1>3, <1>4, <1>5 DEF Own

\* A request has at most 20 steps for each address it may try, and the network's
\* calls are steps too: whatever redirects and failures it meets, and whoever closes
\* the session meanwhile, it comes nearer to its return (Request, lines 375-516).
THEOREM RequestComesNearer == Spec => RequestShrinks
<1>1. SInv /\ RequestTypeOK /\ [Next]_vars => [\A r \in Sessions : Shrinks(r)]_vars
  BY StepShrinks
<1>2. QED
  BY <1>1, SessionInvariance, RequestTypes, PTL DEF Spec, RequestShrinks

\* The handle of a request that is asking for its answer is closed only by who has
\* marked the session closed before.
LEMMA RespondKept ==
    ASSUME SInv, RequestTypeOK, [Next]_vars, NEW q \in Sessions,
           step[q] = "respond" => Answers(q) \/ m_bHttpClosed[q]
    PROVE  step'[q] = "respond" => handle'[q]["request"] = "open" \/ m_bHttpClosed'[q]
<1>0. SessionTypeOK /\ Sound(q)
  BY DEF SInv
<1> USE <1>0 DEF SessionTypeOK, Answers
<1>1. CASE ~Own(q)
  BY <1>1, OthersLeaveSession DEF Frame
<1>2. CASE StartRequest(q)
  BY <1>2 DEF StartRequest, Move
<1>3. CASE SessionRequest(q)
  <2> USE DEF Move, At, handleVars, resetVars
  <2>1. CASE JumpRefused(q) \/ JumpTaken(q) \/ Connect(q) \/ AddHeaders(q)
    BY <2>1 DEF JumpRefused, JumpTaken, Connect, AddHeaders
  <2>2. CASE InternetOpen(q) \/ InternetConnect(q) \/ OpenRequest(q)
    BY <2>2 DEF InternetOpen, InternetConnect, OpenRequest, OpenHandle
  <2>3. CASE Transfer(q)
    BY <2>3 DEF Transfer, Send, Retry, Respond, Read, Redirect
  <2>4. CASE Jump(q) \/ AutoClose(q) \/ AutoClosed(q)
    BY <2>4 DEF Jump, AutoClose, AutoClosed, SessionClose
  <2>5. QED
    BY <1>3, <2>1, <2>2, <2>3, <2>4 DEF SessionRequest, Request
<1>4. ASSUME NEW x \in Users, CloseTested(q, x) \/ CloseSet(q, x) \/ CloseLocked(q, x) \/ CloseDone(q, x)
      PROVE  step'[q] = "respond" => handle'[q]["request"] = "open" \/ m_bHttpClosed'[q]
  BY <1>4 DEF CloseTested, CloseSet, CloseLocked, CloseDone, SessionClose, handleVars
<1>5. ASSUME NEW x \in Users, CloseResets(q, x), step[q] = "respond"
      PROVE  m_bHttpClosed'[q]
  <2>1. m_bHttpClosed[q]
    BY <1>5 DEF CloseResets, ResetRequestHandle, CloseHandle, SkipHandle, ClearHandle, Sound, Flagged,
       Resetting
  <2>2. QED
    BY <1>5, <2>1 DEF CloseResets, ResetRequestHandle, CloseHandle, SkipHandle, ClearHandle
<1>6. ASSUME NEW x \in Users, CloseResets(q, x)
      PROVE  step' = step
  BY <1>6 DEF CloseResets, ResetRequestHandle, CloseHandle, SkipHandle, ClearHandle
<1>7. ASSUME NEW x \in {q, "timer"}, SwitchedClosed(x, q)
      PROVE  step'[q] = "respond" => handle'[q]["request"] = "open" \/ m_bHttpClosed'[q]
  BY <1>7 DEF SwitchedClosed, handleVars
<1>8. QED
  BY <1>1, <1>2, <1>3, <1>4, <1>5, <1>6, <1>7 DEF Own, CWebRequestClose

\* A request is never stuck but in the network: the loop of Response does not go on
\* asking a handle that is gone (lines 997-1010), and Close and redirect are always
\* at one of the handles.
THEOREM RequestGoesOn == Spec => []RequestNotStuck
<1> DEFINE Responds == \A r \in Sessions : step[r] = "respond" => Answers(r) \/ m_bHttpClosed[r]
<1>1. Init => Responds
  BY DEF Init, SessionInit
<1>2. SInv /\ RequestTypeOK /\ Responds /\ [Next]_vars => Responds'
  BY RespondKept DEF Answers
<1>3. SInv /\ Responds => RequestNotStuck
  BY DEF SInv, Sound, SessionTypeOK, ThreadResets, Resetting, Users, RequestNotStuck, CanGoOn
<1> HIDE DEF Responds
<1>4. QED
  BY <1>1, <1>2, <1>3, SessionInvariance, RequestTypes, PTL DEF Spec
=============================================================================
