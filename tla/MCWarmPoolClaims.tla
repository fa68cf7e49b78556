-------------------------- MODULE MCWarmPoolClaims --------------------------
(* The pool, and which of the two sentences no step so far has refuted.    *)
EXTENDS WarmPool

VARIABLE kept

ClaimsInit == Init /\ kept = {"StopsEveryServer", "ReusesRunning"}
ClaimsNext ==
  /\ Next
  /\ kept' = {n \in kept : IF n = "ReusesRunning" THEN ReusesRunning ELSE StopsEveryServer}
ClaimsSpec == ClaimsInit /\ [][ClaimsNext]_<<vars, kept>>

(* At least one of the two sentences about the pool is kept: that a request*)
(* is only given a server that runs (ReusesRunning), and that Shutdown     *)
(* leaves none running (StopsEveryServer).                                 *)
OnePromiseKept == kept # {}
=============================================================================
