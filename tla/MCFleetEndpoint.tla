-------------------------- MODULE MCFleetEndpoint --------------------------
(* Two handlers contend for the mutex with the serving goroutine, while    *)
(* two releases follow the one that may be active at the start.            *)
EXTENDS FleetEndpoint
=============================================================================
