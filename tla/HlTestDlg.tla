------------------------------- MODULE HlTestDlg -------------------------------
(***************************************************************************)
(* The dialog: its thread handles one message after the other, and a        *)
(* handler may take long: it replays the log that was dropped on the        *)
(* dialog, waits in the SDK for the answer to an action, or waits for the    *)
(* user to press ESC.  The SDK meanwhile calls back on a thread of its own.  *)
(*                                                                         *)
(* The queue of the GUI thread is not there: nothing in the repository      *)
(* puts data into it.  The thread itself is, for nothing ever stops it.     *)
(***************************************************************************)
EXTENDS LogParser

CONSTANTS
    Callbacks,     \* the calls of the SDK
    MaxLines,      \* bound: the lines of all the logs that are dropped
    StartTimes     \* the clock may show these times when the program starts

ASSUME DlgAssumption == MaxLines \in Nat /\ StartTimes \subseteq Nat

VARIABLES
    main,          \* where the thread of the dialog is
    after,         \* where it goes when the SDK has answered
    pos,           \* the entry it replays: <<service, index>>
    lines,         \* the lines dropped so far
    call,          \* how far each call of the SDK has come
    posted,        \* WM_USER_CALLBACK in the queue of the dialog
    m_bRunning

dlgVars == <<main, after, pos, lines, m_bRunning>>
callVars == <<call, posted>>
vars == <<now, parseVars, dlgVars, callVars>>

TypeOK ==
    /\ ParserTypeOK
    /\ main \in {"init", "loop", "parse", "replay", "send", "keys", "closed", "exit", "undefined"}
    /\ after \in {"loop", "replay", "closed"}
    /\ pos \in Nat \X Nat /\ lines \in 0..MaxLines
    /\ call \in [Callbacks -> {"none", "called", "posted", "shown", "refused"}]
    /\ posted \in Seq(Callbacks)
    /\ m_bRunning \in BOOLEAN

Init ==
    /\ now \in StartTimes
    /\ ParserInit
    /\ main = "init" /\ after = "loop"
    /\ pos = <<1, 1>> /\ lines = 0
    /\ call = [c \in Callbacks |-> "none"] /\ posted = <<>>
    /\ m_bRunning = FALSE

Go(p) == main' = p

\* DoAction: the dialog waits in seinvoke_send.
DoAction(next) == Go("send") /\ after' = next
-----------------------------------------------------------------------------
(* The SDK.                                                                 *)

Registered == main \notin {"init", "exit", "undefined"} /\ m_bRunning

\* TestSyncChrCallBack: without a main window, or without data, it returns at once and
\* nothing has changed.
SdkCalls(c) ==
    /\ Registered /\ main # "closed" /\ call[c] = "none"
    /\ call' = [call EXCEPT ![c] = "called"]
    /\ UNCHANGED <<now, parseVars, dlgVars, posted>>

\* Faulty form: SendMessage, which returns when the dialog has handled the message.
CallbackSends(c) ==
    /\ call[c] = "called" /\ main = "loop"
    /\ call' = [call EXCEPT ![c] = "shown"]
    /\ UNCHANGED <<now, parseVars, dlgVars, posted>>

\* Faulty form: a dialog that is busy is not told.
CallbackSkips(c) ==
    /\ call[c] = "called" /\ main \notin {"exit", "undefined"}
    /\ IF main = "loop"
       THEN posted' = Append(posted, c) /\ call' = [call EXCEPT ![c] = "posted"]
       ELSE UNCHANGED posted /\ call' = [call EXCEPT ![c] = "lost"]
    /\ UNCHANGED <<now, parseVars, dlgVars>>

\* PostMessage does not wait.  It may fail, as it does when the window is gone: its
\* result is not looked at, and the two copies are lost.
CallbackPosts(c) ==
    /\ call[c] = "called" /\ main \notin {"exit", "undefined"}
    /\ \/ main # "closed" /\ posted' = Append(posted, c)
          /\ call' = [call EXCEPT ![c] = "posted"]
       \/ UNCHANGED posted /\ call' = [call EXCEPT ![c] = "refused"]
    /\ UNCHANGED <<now, parseVars, dlgVars>>

\* The SDK need not answer an action before the callback it is in has returned.
SendReturns ==
    /\ main = "send" /\ \A c \in Callbacks : call[c] # "called"
    /\ Go(after)
    /\ UNCHANGED <<now, parseVars, after, pos, lines, m_bRunning, callVars>>
-----------------------------------------------------------------------------
(* The handlers of the dialog.                                              *)

\* seinvoke_init may fail: then the SDK does not call, and no thread is started.
OnInitDialog ==
    /\ main = "init"
    /\ \/ m_bRunning' = TRUE /\ DoAction("loop")
       \/ UNCHANGED <<m_bRunning, after>> /\ Go("loop")
    /\ UNCHANGED <<now, parseVars, pos, lines, callVars>>

OnAction ==
    /\ main = "loop"
    /\ DoAction("loop")
    /\ UNCHANGED <<now, parseVars, pos, lines, m_bRunning, callVars>>

OnAgentCallBack ==
    /\ main = "loop" /\ posted # <<>>
    /\ call' = [call EXCEPT ![Head(posted)] = "shown"]
    /\ posted' = Tail(posted)
    /\ UNCHANGED <<now, parseVars, dlgVars>>

\* TestKeyEvent polls until ESC is pressed.
TestKeyEvent ==
    /\ main = "loop" /\ Go("keys")
    /\ UNCHANGED <<now, parseVars, after, pos, lines, m_bRunning, callVars>>

EscapePressed ==
    /\ main = "keys" /\ Go("loop")
    /\ UNCHANGED <<now, parseVars, after, pos, lines, m_bRunning, callVars>>

OnDropFiles(log) ==
    /\ main = "loop"
    /\ ParseLog(log)
    /\ lines' = lines + Len(log)
    /\ Go("parse")
    /\ UNCHANGED <<now, after, pos, m_bRunning, callVars>>

Parse ==
    /\ main = "parse"
    /\ ParseLine
    /\ UNCHANGED <<now, dlgVars, callVars>>

ParseDone ==
    /\ main = "parse"
    /\ ParseEnd
    /\ Go("replay")
    /\ pos' = <<1, 1>>
    /\ UNCHANGED <<now, after, lines, m_bRunning, callVars>>

ParsePastEnd ==
    /\ main = "parse" /\ PastEnd
    /\ Go("undefined")
    /\ UNCHANGED <<now, parseVars, after, pos, lines, m_bRunning, callVars>>
-----------------------------------------------------------------------------
(* ProcessLogData, for every entry of every service, those of earlier logs   *)
(* too.                                                                     *)

Replaying == main = "replay" /\ pos[1] <= Len(m_Services)

Service == m_Services[pos[1]]
Data == Service.m_vecData[pos[2]]

Due == GetPastTime(Data.m_time) > Service.m_timeGap

NextPos ==
    IF pos[2] < Len(Service.m_vecData) THEN <<pos[1], pos[2] + 1>> ELSE <<pos[1] + 1, 1>>

ProcessLogData ==
    /\ Replaying /\ Due
    /\ pos' = NextPos
    /\ IF Data.m_type = "TrigHL" THEN DoAction("replay") ELSE UNCHANGED <<main, after>>
    /\ UNCHANGED <<now, parseVars, lines, m_bRunning, callVars>>

\* 200 ms later; time is looked at nowhere else.
SleepFor ==
    /\ Replaying /\ ~Due
    /\ now' = now + 1
    /\ UNCHANGED <<parseVars, dlgVars, callVars>>

ReplayEnds ==
    /\ main = "replay" /\ pos[1] > Len(m_Services)
    /\ Go("loop")
    /\ UNCHANGED <<now, parseVars, after, pos, lines, m_bRunning, callVars>>
-----------------------------------------------------------------------------
(* The end: the messages that are left are not handled, and m_bRunning is    *)
(* not reset.                                                               *)

OnClose ==
    /\ main = "loop"
    /\ DoAction("closed")
    /\ UNCHANGED <<now, parseVars, pos, lines, m_bRunning, callVars>>

\* The GUI thread polls a dialog that is gone.
GuiThreadProc ==
    /\ main = "closed" /\ m_bRunning
    /\ Go("undefined")
    /\ UNCHANGED <<now, parseVars, after, pos, lines, m_bRunning, callVars>>

ExitProcess ==
    /\ main = "closed"
    /\ Go("exit")
    /\ UNCHANGED <<now, parseVars, after, pos, lines, m_bRunning, callVars>>

Logs == UNION {[1..n -> Line] : n \in 0..MaxLines - lines}

Handler ==
    \/ OnInitDialog
    \/ Parse \/ ParseDone \/ ParsePastEnd \/ ProcessLogData \/ SleepFor \/ ReplayEnds

Next ==
    \/ Handler \/ SendReturns \/ OnAction \/ OnAgentCallBack \/ TestKeyEvent \/ EscapePressed
    \/ \E log \in Logs : OnDropFiles(log)
    \/ \E c \in Callbacks : SdkCalls(c) \/ CallbackPosts(c)
    \/ OnClose \/ GuiThreadProc \/ ExitProcess

(* The dialog's thread runs, and so does that of the SDK, which answers an
   action once it may.  A message that was posted is handled before the user's
   next mouse click or key, so the user cannot keep it waiting.  Nobody has to
   press ESC.                                                               *)
Fairness ==
    /\ WF_vars(Handler)
    /\ WF_vars(SendReturns)
    /\ SF_vars(OnAgentCallBack)
    /\ \A c \in Callbacks : WF_vars(CallbackPosts(c))

Spec == Init /\ [][Next]_vars /\ Fairness
-----------------------------------------------------------------------------
Covers(j, i) == strList[j].kind = "image" /\ i \in j + 1..j + strList[j].cnt

\* The lines that are read on their own: those that are not a detail of one.
IsHeads(S) == \A i \in 1..Len(strList) : i \in S <=> \A j \in S : ~Covers(j, i)

Heads == CHOOSE S \in SUBSET (1..Len(strList)) : IsHeads(S)

HeadsOf(kind) == {i \in Heads : strList[i].kind = kind}

Times(service, type) ==
    {service.m_vecData[i].m_time : i \in {j \in 1..Len(service.m_vecData) :
                                            service.m_vecData[j].m_type = type}}

AllTimes(service) == Times(service, "Unknown") \cup Times(service, "TrigHL")

InOrder(service) ==
    \A i, j \in 1..Len(service.m_vecData) :
        i < j => service.m_vecData[i].m_time < service.m_vecData[j].m_time

Latest(times) == CHOOSE t \in times : \A u \in times : u <= t

\* The lines of a run: from its start s up to the next one of starts, and all before
\* it if it is the first.
InRun(i, s, starts) ==
    /\ \A u \in starts : u > s => i < u
    /\ i < s => \A u \in starts : s <= u

\* The runs of the last log are those of the starts of the past, one each and in
\* order, with the images of the run that have a game and no others.
RunsAre(starts, images) ==
    LET runs == known + 1..Len(m_Services)
        past == {s \in starts : s < readAt}
    IN /\ \A r \in runs : \E s \in past :
            /\ m_Services[r].m_timeGap = readAt - s
            /\ Times(m_Services[r], "Unknown") = {s}
            /\ Times(m_Services[r], "TrigHL") \subseteq {i \in images : InRun(i, s, starts)}
            /\ \A i \in images :
                    InRun(i, s, starts) /\ ~GameUnknown(i) => i \in Times(m_Services[r], "TrigHL")
            /\ InOrder(m_Services[r])
       /\ \A s \in past : \E r \in runs : s \in Times(m_Services[r], "Unknown")
       /\ \A r, q \in runs : r < q =>
            \A t \in AllTimes(m_Services[r]), u \in AllTimes(m_Services[q]) : t < u

\* However a log is made, the lines that are read on their own are cut into runs at
\* the starts: a run that has started in the past never has the entries of another in
\* it, though one that has not is neither pushed nor reset (LogParser.cpp:72-105).
\* Which lines those are is the code's choice: the cnt lines after an image, whatever
\* they are, are not.
Parsed == main = "replay" => RunsAre(HeadsOf("start"), HeadsOf("image"))

LinesOf(kind) == {i \in 1..Len(strList) : strList[i].kind = kind}

\* Each image is followed by the details it announces.
Orderly ==
    \A i \in LinesOf("image"), n \in 1..MaxCount :
        n <= strList[i].cnt => i + n \in LinesOf("detail")

\* Of a log whose images are complete nothing of the past is lost: every start line is a
\* run, and every image line after it, up to the next start, is in that run, once; those
\* before any start are in the first (LogParser.cpp:66-112).
OrderlyParsed ==
    main = "replay" /\ Orderly => RunsAre(LinesOf("start"), LinesOf("image"))

\* The image that is handed to the SDK is, since its log was read, as old as it was in
\* the log since the start of its run, each of several images of a run, and whatever
\* the handler waited for before (HlTestDlg.cpp:617-636).
Spaced ==
    [][main = "replay" /\ main' = "send" =>
          /\ Data.m_type = "TrigHL"
          /\ now - parsedAt[pos[1]] > Data.m_time - Latest(Times(Service, "Unknown"))]_vars

\* A replay comes to its end, with calls of the SDK on the way: neither waits for the
\* other (HlTestDlg.cpp:62, 508).
DropEnds == main \in {"parse", "replay"} ~> main \in {"loop", "undefined"}

\* A call of the SDK that has data is shown, unless PostMessage fails, or the program
\* ends first or waits for the user to press ESC (HlTestDlg.cpp:542-569, 709).
CallbackShown ==
    \A c \in Callbacks :
        call[c] = "called" ~> (\/ call[c] \in {"shown", "refused"}
                               \/ main \in {"keys", "closed", "exit", "undefined"})
=============================================================================
