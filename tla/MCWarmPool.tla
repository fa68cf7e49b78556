---------------------------- MODULE MCWarmPool ----------------------------
(* Three starts on two ports: a port is handed out twice, and two requests *)
(* for one model start a server each.                                      *)
EXTENDS WarmPool, TLC

Interchangeable == Permutations(Runs) \cup Permutations(Keys) \cup Permutations(Ports)
=============================================================================
