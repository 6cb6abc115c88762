----------------------------- MODULE GlobalTimer -----------------------------
(***************************************************************************)
(* CGlobalTimer of SinglePro/libHttp_consoletest/utility: one thread walks *)
(* the list of timers, from the last to the first, with the lock of the    *)
(* list held while it runs what has expired.  The lock is recursive: what  *)
(* a timer runs may change the list that is being walked.                  *)
(*                                                                         *)
(* The timers are the one-shot timers that CHttpWebRequest adds, one for   *)
(* an object.  SwitchToMainThread runs its argument on the calling thread: *)
(* g_moduleMainThreadID is 0, and nothing in the repository sets it.       *)
(***************************************************************************)
EXTENDS Integers, Sequences

CONSTANT Requests   \* the objects that timers are bound to

VARIABLES
    pc,        \* where each thread is
    m_calls,   \* the timers, by the object they are bound to
    m_stoped,  \* the timers that have run or are deleted
    m_event,   \* the event that ends the wait for a first timer
    visit,     \* the index OnThreadTimer is at
    item       \* the object of the timer it executes

timerVars == <<m_calls, m_stoped, m_event, visit, item>>

Go(x, p) == pc' = [pc EXCEPT ![x] = p]

Outside == {"check", "wait", "begin"}

\* The timer thread holds the lock of the list from the first visit to the last.
Ticking == pc["timer"] \notin Outside

CanLock(x) == Ticking => x = "timer"

GlobalTimerInit ==
    /\ m_calls = <<>>
    /\ m_stoped = {}
    /\ m_event = FALSE
    /\ visit = 0
    /\ item = "none"
-----------------------------------------------------------------------------
\* Faulty form: the event is left alone when the list has a timer already.
AddTimerFirstOnly(x, o) ==
    /\ CanLock(x)
    /\ m_calls' = Append(m_calls, o)
    /\ m_stoped' = m_stoped \ {o}
    /\ m_event' = (m_event \/ Len(m_calls) = 1)
    /\ UNCHANGED <<visit, item>>

AddTimer(x, o) ==
    /\ CanLock(x)
    /\ m_calls' = Append(m_calls, o)
    /\ m_stoped' = m_stoped \ {o}
    /\ m_event' = TRUE
    /\ UNCHANGED <<visit, item>>

\* m_calls.erase
Without(i) == SubSeq(m_calls, 1, i - 1) \o SubSeq(m_calls, i + 1, Len(m_calls))

\* The objects that have a timer.
Timers == {m_calls[i] : i \in 1..Len(m_calls)}

\* The loop of DeleteTimer finds the one timer of the object, or none.
DeleteTimer(x, o) ==
    /\ CanLock(x)
    /\ \/ \E i \in 1..Len(m_calls) : m_calls[i] = o /\ m_calls' = Without(i)
       \/ o \notin Timers /\ UNCHANGED m_calls
    /\ m_stoped' = m_stoped \cup {o}
    /\ UNCHANGED <<m_event, visit, item>>
-----------------------------------------------------------------------------
(* ThreadCall.                                                              *)

CheckCalls ==
    /\ pc["timer"] = "check"
    /\ Go("timer", IF m_calls = <<>> THEN "wait" ELSE "begin")
    /\ UNCHANGED timerVars

WaitForTimer ==
    /\ pc["timer"] = "wait" /\ m_event
    /\ m_event' = FALSE
    /\ Go("timer", "begin")
    /\ UNCHANGED <<m_calls, m_stoped, visit, item>>
-----------------------------------------------------------------------------
(* OnThreadTimer.                                                           *)

TickBegin ==
    /\ pc["timer"] = "begin"
    /\ visit' = Len(m_calls)
    /\ Go("timer", "visit")
    /\ UNCHANGED <<m_calls, m_stoped, m_event, item>>

Visiting == pc["timer"] = "visit" /\ visit \in 1..Len(m_calls)

\* The interval is not over, as it is for a timer that has run: the next timer,
\* down to the first.
ItemWaits ==
    /\ Visiting /\ m_calls[visit] \notin m_stoped
    /\ visit' = visit - 1
    /\ UNCHANGED <<pc, m_calls, m_stoped, m_event, item>>

ItemErased ==
    /\ Visiting /\ m_calls[visit] \in m_stoped
    /\ m_calls' = Without(visit)
    /\ visit' = visit - 1
    /\ UNCHANGED <<pc, m_stoped, m_event, item>>

\* Execute marks the one-shot timer and runs what it is bound to.
ItemExecuted ==
    /\ Visiting /\ m_calls[visit] \notin m_stoped
    /\ m_stoped' = m_stoped \cup {m_calls[visit]}
    /\ item' = m_calls[visit]
    /\ Go("timer", "execute")
    /\ UNCHANGED <<m_calls, m_event, visit>>

\* The call has returned to OnThreadTimer.
ItemDone ==
    /\ Go("timer", "visit")
    /\ visit' = visit - 1
    /\ item' = "none"
    /\ UNCHANGED <<m_calls, m_stoped, m_event>>

TickEnd ==
    /\ pc["timer"] = "visit" /\ visit = 0
    /\ Go("timer", "check")
    /\ UNCHANGED timerVars

\* m_calls[visit] is past the end: the behaviour of every thread is undefined
\* from here on, and no action follows.
ItemMissing ==
    /\ pc["timer"] = "visit" /\ visit > Len(m_calls)
    /\ pc' = [x \in DOMAIN pc |-> "undefined"]
    /\ UNCHANGED timerVars

TimerThread ==
    \/ CheckCalls \/ WaitForTimer
    \/ TickBegin \/ ItemWaits \/ ItemErased \/ ItemExecuted \/ TickEnd \/ ItemMissing
=============================================================================
