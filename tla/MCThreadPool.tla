---------------------------- MODULE MCThreadPool ----------------------------
(***************************************************************************)
(* Three tasks for the model checker, two of them of the same object.      *)
(***************************************************************************)
EXTENDS ThreadPool, TLC

CONSTANTS t1, t2, t3, o1, o2

MCObject == (t1 :> o1) @@ (t2 :> o1) @@ (t3 :> o2)
=============================================================================
