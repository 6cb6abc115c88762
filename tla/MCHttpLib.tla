------------------------------ MODULE MCHttpLib ------------------------------
(* Four requests: a download notified by a function, a download of the same *)
(* file notified through the interface, a data request notified through the *)
(* interface and a synchronous one.                                         *)
EXTENDS HttpLib

CONSTANTS f, i, d, s, path

MCRequests == {f, i, d, s}
MCSaveAs == [r \in {f, i} |-> path]
=============================================================================
