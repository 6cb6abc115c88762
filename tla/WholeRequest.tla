----------------------------- MODULE WholeRequest -----------------------------
(***************************************************************************)
(* A request seen as a whole: HttpWebRequest with Sessions = {} has of a   *)
(* transfer the end only, and of CWebRequest::Close one step.  The request *)
(* followed call by call is shown to be one of those.                      *)
(*                                                                         *)
(* The Close at the end of the callback is, as a whole, the step that sets *)
(* m_bClosed, or the return if another Close has set it: from there on the *)
(* thread counts as having left, and the callback as forgotten.  The Close *)
(* of the client is the step that sets m_bClosed too.                      *)
(***************************************************************************)
EXTENDS HttpWebRequest

\* Thread x has set m_bClosed at the end of the callback of r, and is still in Close.
Left(x, r) ==
    /\ r \in Sessions /\ Serves(x, r) /\ pc[x] = "close"
    /\ reset[r][Holder(x)] \notin {"none", "set"}

wholePc ==
    [x \in Requests \cup {"timer"} |->
        IF \E r \in Sessions : Left(x, r) THEN "drop" ELSE pc[x]]

wholeCallback ==
    [r \in Requests |->
        IF \E x \in {r, "timer"} : Left(x, r) THEN "none" ELSE m_callback[r]]

NoSessions == [r \in {} |-> {}]

Whole == INSTANCE HttpWebRequest WITH
    Sessions <- {},
    pc <- wholePc,
    m_callback <- wholeCallback,
    step <- NoSessions,
    handle <- NoSessions,
    live <- NoSessions,
    reset <- NoSessions,
    dangling <- NoSessions,
    m_bHttpClosed <- NoSessions,
    nJumpRetryCount <- NoSessions

\* A request followed call by call does nothing that a request seen as a whole does
\* not, as long as the behaviour of the program is defined: two threads may be in
\* CWebRequest::Close at once, and the client may let go of the object meanwhile, but
\* it is closed once, and by somebody who holds it (WebRequest.cpp:182-194,
\* HttpWebRequest.cpp:242-259).
WholeSpec == Whole!Init /\ [][Undefined' \/ Whole!Next]_(Whole!vars)
=============================================================================
