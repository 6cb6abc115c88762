------------------------------ MODULE Condition ------------------------------
(***************************************************************************)
(* CCondition of SinglePro/libHttp_consoletest/utility: a condition        *)
(* variable built from two semaphores and three counters.  The gate is     *)
(* shut while a wakeup is under way, so that nobody joins the waiters it   *)
(* was counted for; a token in the queue is passed from one woken thread   *)
(* to the next, and the last one opens the gate.                           *)
(*                                                                         *)
(* A section under m_internal waits for nothing: it is one step.           *)
(***************************************************************************)
EXTENDS Integers

CONSTANT Threads

VARIABLES
    pc,           \* where each thread is, see Inside and the users of this module
    m_gate,       \* semaphore, open at 1
    m_queue,      \* semaphore, 0 at first
    m_blocked,    \* waiters counted in since the last count
    m_unblocked,  \* of these, the ones that have left
    m_toUnblock   \* how many are still to leave for the wakeup under way

conditionVars == <<m_gate, m_queue, m_blocked, m_unblocked, m_toUnblock>>

Go(t, p) == pc' = [pc EXCEPT ![t] = p]

\* The places of a thread inside _wake and _postWait; "waiting" in _dowait.
Waking == {"wake_gate", "wake", "post_queue", "post_gate"}
Leaving == {"woken", "timedout", "absorb_last", "absorb_pass", "open_gate", "pass_on"}
Inside == Waking \cup {"prewait", "unlock_wait", "waiting"} \cup Leaving

ConditionTypes ==
    /\ m_gate \in 0..1
    /\ m_queue \in 0..1
    /\ m_blocked \in Nat
    /\ m_unblocked \in Nat
    /\ m_toUnblock \in Nat

ConditionInit ==
    /\ m_gate = 1
    /\ m_queue = 0
    /\ m_blocked = 0
    /\ m_unblocked = 0
    /\ m_toUnblock = 0
-----------------------------------------------------------------------------
(* _wake, for a signal or a broadcast; the thread goes on to `next`.        *)

WakeEnter(t) ==
    /\ pc[t] = "wake_gate" /\ m_gate > 0
    /\ m_gate' = m_gate - 1
    /\ Go(t, "wake")
    /\ UNCHANGED <<m_queue, m_blocked, m_unblocked, m_toUnblock>>

\* Faulty form: the waiters that left are forgotten instead of taken off.
WakeCountStale(t, broadcast) ==
    /\ pc[t] = "wake"
    /\ m_unblocked' = 0
    /\ IF m_blocked > 0
       THEN /\ m_toUnblock' = IF broadcast THEN m_blocked ELSE 1
            /\ Go(t, "post_queue")
       ELSE /\ UNCHANGED m_toUnblock
            /\ Go(t, "post_gate")
    /\ UNCHANGED <<m_gate, m_queue, m_blocked>>

\* Faulty form: the waiters that left are taken off but not forgotten.
WakeCountTwice(t, broadcast) ==
    /\ pc[t] = "wake"
    /\ m_blocked' = m_blocked - m_unblocked
    /\ IF m_blocked' > 0
       THEN /\ m_toUnblock' = IF broadcast THEN m_blocked' ELSE 1
            /\ Go(t, "post_queue")
       ELSE /\ UNCHANGED m_toUnblock
            /\ Go(t, "post_gate")
    /\ UNCHANGED <<m_gate, m_queue, m_unblocked>>

WakeCount(t, broadcast) ==
    /\ pc[t] = "wake"
    /\ m_blocked' = m_blocked - m_unblocked
    /\ m_unblocked' = 0
    /\ IF m_blocked' > 0
       THEN /\ m_toUnblock' = IF broadcast THEN m_blocked' ELSE 1
            /\ Go(t, "post_queue")
       ELSE /\ UNCHANGED m_toUnblock
            /\ Go(t, "post_gate")
    /\ UNCHANGED <<m_gate, m_queue>>

\* Faulty form: the gate is opened as soon as the token is given.
WakePostOpensGate(t, next) ==
    /\ pc[t] \in {"post_queue", "post_gate"}
    /\ m_gate' = m_gate + 1
    /\ m_queue' = IF pc[t] = "post_queue" THEN m_queue + 1 ELSE m_queue
    /\ Go(t, next)
    /\ UNCHANGED <<m_blocked, m_unblocked, m_toUnblock>>

WakePost(t, next) ==
    /\ \/ /\ pc[t] = "post_queue"
          /\ m_queue' = m_queue + 1
          /\ UNCHANGED m_gate
       \/ /\ pc[t] = "post_gate"
          /\ m_gate' = m_gate + 1
          /\ UNCHANGED m_queue
    /\ Go(t, next)
    /\ UNCHANGED <<m_blocked, m_unblocked, m_toUnblock>>
-----------------------------------------------------------------------------
(* _preWait, _dowait / _timedDowait and _postWait.                          *)

\* Faulty form: a waiter is counted in without passing the gate.
PreWaitNoGate(t) ==
    /\ pc[t] = "prewait"
    /\ m_blocked' = m_blocked + 1
    /\ Go(t, "unlock_wait")
    /\ UNCHANGED <<m_gate, m_queue, m_unblocked, m_toUnblock>>

\* The gate is taken, the waiter counted and the gate given back: m_blocked
\* changes behind the gate only.
PreWait(t) ==
    /\ pc[t] = "prewait" /\ m_gate > 0
    /\ m_blocked' = m_blocked + 1
    /\ Go(t, "unlock_wait")
    /\ UNCHANGED <<m_gate, m_queue, m_unblocked, m_toUnblock>>

TakeToken(t) ==
    /\ pc[t] = "waiting" /\ m_queue > 0
    /\ m_queue' = m_queue - 1
    /\ Go(t, "woken")
    /\ UNCHANGED <<m_gate, m_blocked, m_unblocked, m_toUnblock>>

TimeOut(t) ==
    /\ pc[t] = "waiting"
    /\ Go(t, "timedout")
    /\ UNCHANGED conditionVars

\* Faulty form: the token is passed on by the last thread too.
PostWaitNeverLast(t, next) ==
    /\ pc[t] \in {"woken", "timedout"}
    /\ m_unblocked' = m_unblocked + 1
    /\ IF m_toUnblock # 0
       THEN /\ m_toUnblock' = m_toUnblock - 1
            /\ Go(t, IF pc[t] = "timedout" THEN "absorb_pass" ELSE "pass_on")
       ELSE /\ UNCHANGED m_toUnblock
            /\ Go(t, next)
    /\ UNCHANGED <<m_gate, m_queue, m_blocked>>

PostWait(t, next) ==
    /\ pc[t] \in {"woken", "timedout"}
    /\ m_unblocked' = m_unblocked + 1
    /\ IF m_toUnblock # 0
       THEN LET last == m_toUnblock = 1 IN
            /\ m_toUnblock' = m_toUnblock - 1
            /\ IF pc[t] = "timedout"
               THEN Go(t, IF last THEN "absorb_last" ELSE "absorb_pass")
               ELSE Go(t, IF last THEN "open_gate" ELSE "pass_on")
       ELSE /\ UNCHANGED m_toUnblock
            /\ Go(t, next)
    /\ UNCHANGED <<m_gate, m_queue, m_blocked>>

\* A thread that timed out waits for the token of the wakeup it is part of.
Absorb(t) ==
    /\ pc[t] \in {"absorb_last", "absorb_pass"} /\ m_queue > 0
    /\ m_queue' = m_queue - 1
    /\ Go(t, IF pc[t] = "absorb_last" THEN "open_gate" ELSE "pass_on")
    /\ UNCHANGED <<m_gate, m_blocked, m_unblocked, m_toUnblock>>

PostWaitEnd(t, next) ==
    /\ \/ /\ pc[t] = "open_gate"
          /\ m_gate' = m_gate + 1
          /\ UNCHANGED m_queue
       \/ /\ pc[t] = "pass_on"
          /\ m_queue' = m_queue + 1
          /\ UNCHANGED m_gate
    /\ Go(t, next)
    /\ UNCHANGED <<m_blocked, m_unblocked, m_toUnblock>>
=============================================================================
