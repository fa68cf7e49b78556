--------------------------- MODULE MCWorkflowRun ---------------------------
(* Every routing of three agents, cycles included, with at most one        *)
(* depends_on and at most one agent, known or unknown, named by --only.    *)
(* The bus file is new, or was left by a run that ended well or was        *)
(* killed while it wrote.                                                  *)
EXTENDS WorkflowRun

MCAgents == 1..3
Pairs == {e \in MCAgents \X MCAgents : e[1] # e[2]}
AtMostOne(S) == {{}} \cup {{x} : x \in S}

MCGraphs ==
  [depends : AtMostOne(Pairs), routes : SUBSET Pairs, only : AtMostOne({0, 2, 3})]

Chain == {[depends |-> {}, routes |-> {<<1, 2>>, <<2, 3>>}, only |-> {}]}

MCLogs == {[log |-> <<>>, ragged |-> FALSE],
           [log |-> <<<<Record(<<1, 2>>, FALSE)>>>>, ragged |-> TRUE]}

Empty == {[log |-> <<>>, ragged |-> FALSE]}
=============================================================================
