------------------------------- MODULE CondVar -------------------------------
(***************************************************************************)
(* What a condition variable promises: a wakeup is granted to threads that *)
(* sleep when it is given, one of them for a signal and all of them for a  *)
(* broadcast; a thread that goes to sleep later cannot take it, and no     *)
(* thread wakes without one.                                               *)
(***************************************************************************)
EXTENDS Naturals, FiniteSets

CONSTANT Threads

VARIABLES
    sleeping,   \* the threads asleep
    granted     \* the wakeups given and not yet taken

vars == <<sleeping, granted>>

Init ==
    /\ sleeping = {}
    /\ granted = 0

Sleep(t) ==
    /\ granted = 0 /\ t \notin sleeping
    /\ sleeping' = sleeping \cup {t}
    /\ UNCHANGED granted

Grant(n) ==
    /\ granted = 0 /\ sleeping # {}
    /\ granted' = n
    /\ UNCHANGED sleeping

Signal == Grant(1)
Broadcast == Grant(Cardinality(sleeping))

Wake(t) ==
    /\ granted > 0 /\ t \in sleeping
    /\ granted' = granted - 1
    /\ sleeping' = sleeping \ {t}

Next ==
    \/ Signal
    \/ Broadcast
    \/ \E t \in Threads : Sleep(t) \/ Wake(t)

Spec == Init /\ [][Next]_vars
=============================================================================
