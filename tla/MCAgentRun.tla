----------------------------- MODULE MCAgentRun -----------------------------
(* A script unit with two secrets mounted under one name and one that is   *)
(* missing; an agent with a tool and two servers, the names of which join  *)
(* with their tools' to the same; and an agent without tools.              *)
EXTENDS AgentRun

A == <<"a">>
AB == <<"a", "b">>
C == <<"c">>
BC == <<"b", "c">>

Secret(n, r, b) == [name |-> n, required |-> r, base |-> b]
NoServers == [s \in {} |-> {}]

MCUnits ==
  {[script |-> TRUE, servers |-> <<>>, allow |-> NoServers, tools |-> {},
    secrets |-> <<Secret("cert", TRUE, "pem"), Secret("key", FALSE, "pem"),
                  Secret("none", FALSE, "")>>],
   [script |-> FALSE, servers |-> <<A, AB>>, allow |-> A :> {} @@ AB :> {C}, tools |-> {C},
    secrets |-> <<Secret("cert", TRUE, "pem")>>],
   [script |-> FALSE, servers |-> <<>>, allow |-> NoServers, tools |-> {},
    secrets |-> <<Secret("none", TRUE, "")>>]}

Job(p, r, t, i) == [persist |-> p, restore |-> r, trim |-> t, ids |-> i]
MCJobs == {Job(TRUE, FALSE, 0, TRUE), Job(TRUE, FALSE, 2, FALSE), Job(FALSE, FALSE, 0, TRUE),
           Job(TRUE, TRUE, 4, TRUE)}
MCOffers == {{C}, {BC}}

(* A run that failed at the second call of its first turn, and one that    *)
(* ended well.                                                             *)
Said(r, cs, n) == [role |-> r, run |-> 0, calls |-> cs, id |-> <<>>, name |-> n]
Wanted == [id |-> <<>>, name |-> C]
MCEarlier ==
  {<<Said("user", <<>>, <<>>), Said("assistant", <<Wanted, Wanted>>, <<>>),
     [Said("tool", <<>>, C) EXCEPT !.id = <<1, 0, C>>],
     Said("user", <<>>, <<>>), Said("assistant", <<>>, <<>>)>>}

MCCalls == {<<>>, <<C, C>>, <<Full(AB, C), <<"x">>>>}
=============================================================================
