----------------------------- MODULE AsyncService -----------------------------
(***************************************************************************)
(* What HttpLib, and the thread pool, promise to the code that uses them   *)
(* asynchronously: a request that has been handed in is answered at most   *)
(* once, only while the service is open, and a closed service neither      *)
(* accepts nor answers.                                                    *)
(***************************************************************************)
CONSTANT Requests

VARIABLES
    state,    \* of each request: "new", "pending" or "answered"
    open      \* whether the service still runs

vars == <<state, open>>

Init ==
    /\ state = [r \in Requests |-> "new"]
    /\ open = TRUE

Submit(r) ==
    /\ open /\ state[r] = "new"
    /\ state' = [state EXCEPT ![r] = "pending"]
    /\ UNCHANGED open

Answer(r) ==
    /\ open /\ state[r] = "pending"
    /\ state' = [state EXCEPT ![r] = "answered"]
    /\ UNCHANGED open

Close ==
    /\ open
    /\ open' = FALSE
    /\ UNCHANGED state

Next == Close \/ \E r \in Requests : Submit(r) \/ Answer(r)

Spec == Init /\ [][Next]_vars
=============================================================================
