---------------------------- MODULE MCMcpClient ----------------------------
(* Two callers and two calls: the answer to a call that gave up arrives    *)
(* while the other waits, and either caller may make both.                 *)
EXTENDS McpClient
=============================================================================
