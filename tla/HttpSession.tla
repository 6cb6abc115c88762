------------------------------ MODULE HttpSession ------------------------------
(***************************************************************************)
(* CHttpClientSession: one HTTP request over the three WinInet handles of  *)
(* a session, with its redirects and its second attempts to send.  Request *)
(* runs on a thread; another one may Close the session at any moment, and  *)
(* that is the only thing that ends a call the network does not answer.    *)
(*                                                                         *)
(* Connect and Close are not virtual in CHttpClientSession: Request calls  *)
(* its own, without the m_csLock that CWebRequest takes.  OpenRequest is   *)
(* virtual, and takes it.                                                  *)
(*                                                                         *)
(* The URL, the method and the data are not there: a step that depends on  *)
(* them may go either way.                                                 *)
(***************************************************************************)
EXTENDS Integers

CONSTANTS
    Sessions,       \* the requests whose session is followed call by call
    MaxJumpRetry    \* nMaxJumpRetry

ASSUME JumpAssumption == MaxJumpRetry \in Nat \ {0}

Users == {"thread", "client", "timer"}     \* who may be resetting the handles
Handles == {"request", "connect", "open"}  \* in the order they are reset

Following(h) == [request |-> "connect", connect |-> "open", open |-> "end"][h]

VARIABLES
    step,             \* where Request is
    handle,           \* "closed" until the member is set to NULL
    live,             \* how many handles WinInet has open for the session
    reset,            \* where each user is in Close or ResetRequestHandle
    dangling,         \* the users that have closed the handle they are at
    m_bHttpClosed,
    nJumpRetryCount

handleVars == <<handle, live>>
resetVars == <<reset, dangling>>
sessionVars == <<step, handleVars, resetVars, m_bHttpClosed, nJumpRetryCount>>

\* The thread is in a call that the network may never answer.
Blocking == {"send", "resend", "respond", "read"}

SessionTypeOK ==
    /\ step \in [Sessions -> {"idle", "jump", "connect", "open", "attach", "request",
                              "headers", "sleep", "redirect", "close", "returned"} \cup Blocking]
    /\ handle \in [Sessions -> [Handles -> {"null", "open", "closed"}]]
    /\ live \in [Sessions -> 0..3]
    /\ reset \in [Sessions -> [Users -> Handles \cup {"none", "set", "lock", "end", "done"}]]
    /\ dangling \in [Sessions -> SUBSET Users]
    /\ m_bHttpClosed \in [Sessions -> BOOLEAN]
    /\ nJumpRetryCount \in [Sessions -> 1..MaxJumpRetry + 1]

SessionInit ==
    /\ step = [r \in Sessions |-> "idle"]
    /\ handle = [r \in Sessions |-> [h \in Handles |-> "null"]]
    /\ live = [r \in Sessions |-> 0]
    /\ reset = [r \in Sessions |-> [x \in Users |-> "none"]]
    /\ dangling = [r \in Sessions |-> {}]
    /\ m_bHttpClosed = [r \in Sessions |-> FALSE]
    /\ nJumpRetryCount = [r \in Sessions |-> 1]

Move(r, p) == step' = [step EXCEPT ![r] = p]

At(r, x, p) == reset' = [reset EXCEPT ![r][x] = p]

\* A user that resets the handles inside CWebRequest::Close.
HoldsLock(r, x) ==
    /\ reset[r][x] \in Handles \cup {"end"}
    /\ x = "thread" => step[r] \notin {"redirect", "close"}

LockFree(r) == \A x \in Users : ~HoldsLock(r, x)
-----------------------------------------------------------------------------
(* ResetRequestHandle: each handle is closed, and its member then set to    *)
(* NULL.  A second user may close the same handle in between: the call has  *)
(* nothing to close.                                                        *)

\* Faulty form: a handle that another user has closed is taken for open.
CloseHandleCounts(r, x) ==
    /\ reset[r][x] \in Handles /\ x \notin dangling[r]
    /\ handle[r][reset[r][x]] # "null"
    /\ live' = [live EXCEPT ![r] = @ - 1]
    /\ handle' = [handle EXCEPT ![r][reset[r][x]] = "closed"]
    /\ dangling' = [dangling EXCEPT ![r] = @ \cup {x}]
    /\ UNCHANGED <<step, reset, m_bHttpClosed, nJumpRetryCount>>

CloseHandle(r, x) ==
    /\ reset[r][x] \in Handles /\ x \notin dangling[r]
    /\ handle[r][reset[r][x]] # "null"
    /\ live' = [live EXCEPT ![r] = IF handle[r][reset[r][x]] = "open" THEN @ - 1 ELSE @]
    /\ handle' = [handle EXCEPT ![r][reset[r][x]] = "closed"]
    /\ dangling' = [dangling EXCEPT ![r] = @ \cup {x}]
    /\ UNCHANGED <<step, reset, m_bHttpClosed, nJumpRetryCount>>

SkipHandle(r, x) ==
    /\ reset[r][x] \in Handles /\ x \notin dangling[r]
    /\ handle[r][reset[r][x]] = "null"
    /\ At(r, x, Following(reset[r][x]))
    /\ UNCHANGED <<step, handleVars, dangling, m_bHttpClosed, nJumpRetryCount>>

ClearHandle(r, x) ==
    /\ reset[r][x] \in Handles /\ x \in dangling[r]
    /\ handle' = [handle EXCEPT ![r][reset[r][x]] = "null"]
    /\ dangling' = [dangling EXCEPT ![r] = @ \ {x}]
    /\ At(r, x, Following(reset[r][x]))
    /\ UNCHANGED <<step, live, m_bHttpClosed, nJumpRetryCount>>

ResetRequestHandle(r, x) == CloseHandle(r, x) \/ SkipHandle(r, x) \/ ClearHandle(r, x)

\* The session's Close raises the flag before it resets the handles.
SessionClose(r, x) ==
    /\ m_bHttpClosed' = [m_bHttpClosed EXCEPT ![r] = TRUE]
    /\ At(r, x, "request")
-----------------------------------------------------------------------------
(* Request, from JUMPRETRY on.                                              *)

\* It is closed, has jumped too often, or the protocol is not one it knows:
\* Request returns without Close.
JumpRefused(r) ==
    /\ step[r] = "jump"
    /\ Move(r, "returned")
    /\ UNCHANGED <<handleVars, resetVars, m_bHttpClosed, nJumpRetryCount>>

JumpTaken(r) ==
    /\ step[r] = "jump" /\ ~m_bHttpClosed[r] /\ nJumpRetryCount[r] <= MaxJumpRetry
    /\ Move(r, "connect")
    /\ UNCHANGED <<handleVars, resetVars, m_bHttpClosed, nJumpRetryCount>>

Connect(r) ==
    /\ step[r] = "connect"
    /\ Move(r, IF m_bHttpClosed[r] THEN "close" ELSE "open")
    /\ UNCHANGED <<handleVars, resetVars, m_bHttpClosed, nJumpRetryCount>>

\* WinInet opens handle h for step p, unless it is open or cannot be.
OpenHandle(r, h, parent, next) ==
    \/ /\ parent
       /\ handle' = [handle EXCEPT ![r][h] = "open"]
       /\ live' = [live EXCEPT ![r] = @ + 1]
       /\ Move(r, next)
    \/ Move(r, "close") /\ UNCHANGED handleVars

InternetOpen(r) ==
    /\ step[r] = "open"
    /\ IF handle[r]["open"] = "null"
       THEN OpenHandle(r, "open", TRUE, "attach")
       ELSE Move(r, "attach") /\ UNCHANGED handleVars
    /\ UNCHANGED <<resetVars, m_bHttpClosed, nJumpRetryCount>>

\* With the handle there may still be no network: it is kept, and Connect fails.
InternetConnect(r) ==
    /\ step[r] = "attach"
    /\ IF handle[r]["connect"] = "null"
       THEN \E next \in {"request", "close"} :
                OpenHandle(r, "connect", handle[r]["open"] = "open", next)
       ELSE Move(r, "request") /\ UNCHANGED handleVars
    /\ UNCHANGED <<resetVars, m_bHttpClosed, nJumpRetryCount>>

\* Faulty form: the flag is not looked at again once the lock is held.
OpenRequestUnchecked(r) ==
    /\ step[r] = "request" /\ LockFree(r)
    /\ OpenHandle(r, "request", handle[r]["connect"] = "open", "headers")
    /\ UNCHANGED <<resetVars, m_bHttpClosed, nJumpRetryCount>>

\* Under m_csLock.  The handle of an earlier request has been reset.
OpenRequest(r) ==
    /\ step[r] = "request" /\ LockFree(r)
    /\ IF m_bHttpClosed[r]
       THEN Move(r, "close") /\ UNCHANGED handleVars
       ELSE OpenHandle(r, "request", handle[r]["connect"] = "open", "headers")
    /\ UNCHANGED <<resetVars, m_bHttpClosed, nJumpRetryCount>>

\* A header that cannot be added ends a GET; a POST goes on without it.
AddHeaders(r) ==
    /\ step[r] = "headers"
    /\ \E next \in {"send", "close"} : Move(r, next)
    /\ UNCHANGED <<handleVars, resetVars, m_bHttpClosed, nJumpRetryCount>>
-----------------------------------------------------------------------------
(* The calls that wait for the network: they fail on a handle that is not   *)
(* open, and while it is they may do so, or not return at all.              *)

Answers(r) == handle[r]["request"] = "open"

\* Sent, with its body, or it fails; under https the first failure is slept over.
Send(r) ==
    /\ step[r] \in {"send", "resend"}
    /\ \E next \in {"respond", "sleep", "close"} :
        /\ next = "respond" => Answers(r)
        /\ next = "sleep" => step[r] = "send"
        /\ Move(r, next)
    /\ UNCHANGED <<handleVars, resetVars, m_bHttpClosed, nJumpRetryCount>>

\* Unless the session is closed now, the request is sent again.  A multi-part one is
\* not, for its loop ends with while( false ): its body is written all the same.
Retry(r) ==
    /\ step[r] = "sleep"
    /\ \E next \in {"resend", "respond", "close"} :
        /\ next = "resend" => ~m_bHttpClosed[r]
        /\ next = "respond" => ~m_bHttpClosed[r] /\ Answers(r)
        /\ Move(r, next)
    /\ UNCHANGED <<handleVars, resetVars, m_bHttpClosed, nJumpRetryCount>>

\* Faulty form: the loop goes on until the length is known.
RespondUntilKnown(r) ==
    /\ step[r] = "respond" /\ Answers(r)
    /\ Move(r, "read")
    /\ UNCHANGED <<handleVars, resetVars, m_bHttpClosed, nJumpRetryCount>>

\* The length of the answer is asked for until it is known, or the session closed.
Respond(r) ==
    /\ step[r] = "respond" /\ (Answers(r) \/ m_bHttpClosed[r])
    /\ Move(r, "read")
    /\ UNCHANGED <<handleVars, resetVars, m_bHttpClosed, nJumpRetryCount>>

\* All of it is read, in one buffer or chunk by chunk, and the headers; or one of
\* the calls fails.
Read(r) ==
    /\ step[r] = "read"
    /\ Move(r, "close")
    /\ UNCHANGED <<handleVars, resetVars, m_bHttpClosed, nJumpRetryCount>>

\* The headers say where to go instead: the handles of this address are reset.
Redirect(r) ==
    /\ step[r] = "read" /\ Answers(r)
    /\ Move(r, "redirect")
    /\ At(r, "thread", "request")
    /\ UNCHANGED <<handleVars, dangling, m_bHttpClosed, nJumpRetryCount>>

Transfer(r) == Send(r) \/ Retry(r) \/ Respond(r) \/ Read(r) \/ Redirect(r)
-----------------------------------------------------------------------------
(* The end of a pass.                                                       *)

\* Faulty form: the next address is tried over the handles of the last one.
JumpKeepsHandles(r) ==
    /\ step[r] = "redirect"
    /\ nJumpRetryCount' = [nJumpRetryCount EXCEPT ![r] = @ + 1]
    /\ Move(r, "jump")
    /\ At(r, "thread", "none")
    /\ UNCHANGED <<handleVars, dangling, m_bHttpClosed>>

Jump(r) ==
    /\ step[r] = "redirect" /\ reset[r]["thread"] = "end"
    /\ nJumpRetryCount' = [nJumpRetryCount EXCEPT ![r] = @ + 1]
    /\ Move(r, "jump")
    /\ At(r, "thread", "none")
    /\ UNCHANGED <<handleVars, dangling, m_bHttpClosed>>

AutoClose(r) ==
    /\ step[r] = "close" /\ reset[r]["thread"] = "none"
    /\ SessionClose(r, "thread")
    /\ UNCHANGED <<step, handleVars, dangling, nJumpRetryCount>>

AutoClosed(r) ==
    /\ step[r] = "close" /\ reset[r]["thread"] = "end"
    /\ Move(r, "returned")
    /\ At(r, "thread", "none")
    /\ UNCHANGED <<handleVars, dangling, m_bHttpClosed, nJumpRetryCount>>

Request(r) ==
    \/ JumpRefused(r) \/ JumpTaken(r) \/ Connect(r)
    \/ InternetOpen(r) \/ InternetConnect(r) \/ OpenRequest(r) \/ AddHeaders(r)
    \/ Transfer(r)
    \/ Jump(r) \/ AutoClose(r) \/ AutoClosed(r)

\* What the thread does without the network: everything, once the handle of the
\* request is closed.
Unblocked(r) ==
    /\ step[r] \in Blocking => ~Answers(r)
    /\ Request(r)
=============================================================================
