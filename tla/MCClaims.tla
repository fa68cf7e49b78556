------------------------------ MODULE MCClaims ------------------------------
(* The smallest instances of the parts on which the sentences are false.   *)
EXTENDS Claims, MCLocal

(* Conditions that compare what one of two agents said or used.            *)
Tests ==
  {Binary(op, Ref(<<a, "output">>), Text(s)) : op \in {"==", "<"}, a \in {"a", "b"}, s \in {"", "x"}}
    \cup {Binary(op, Ref(<<a, "tokens">>), Number(5)) : op \in {"==", ">"}, a \in {"a", "b"}}

(* A unit with no choice of models, and one that must call tools; the      *)
(* options of an ordinary run.                                             *)
Required == {Profile(0, 0, 0, TRUE, FALSE, "best"), Profile(0, 0, 0, FALSE, FALSE, "best")}
Ordinary == {Option(<<"npu", "cpu">>, FALSE, FALSE, FALSE, "any")}
OneTruth == {<<Ran(1, 1), Ran(0, 2)>>}
OneFiles == {[a |-> 1, b |-> 2]}

(* What two cases do on two targets.                                       *)
Works == <<<<"pass">>, <<"pass">>>>
Limps == <<<<"pass">>, <<"fail">>>>
TwoOutcomes == {<<Works, Works>>, <<Limps, Works>>}

(* One unit that is built here, or comes in a file or from a registry,     *)
(* sealed with the weights of one model or of the two it chooses among.    *)
Single == {Linked}
Sent == {Choosing, Earlier(Linked, <<"w1">>), Earlier(Linked, <<"w2">>)}

(* A unit that needs a model, a runtime and a tool from npm, and a build of*)
(* it that came with another model.                                        *)
Npm(m) == Unit({m}, FALSE, {"npm"}, {}, FALSE)
TwoBuilds == {Npm("w1"), Npm("w2")}
TwoEntries == <<"file", "link">>
OneHost == {Host(TRUE, FALSE, TRUE)}

(* A script with a secret, and an agent with a tool of one server; runs    *)
(* that keep a session, with a backend that gives no ids.                  *)
Server == <<"a">>
Tool == <<"t">>
Name == <<"a", "t">>
MCUnits ==
  {[script |-> TRUE, servers |-> <<>>, allow |-> [s \in {} |-> {}], tools |-> {},
    secrets |-> <<[name |-> "cert", required |-> TRUE, base |-> "pem"]>>],
   [script |-> FALSE, servers |-> <<Server>>, allow |-> Server :> {}, tools |-> {}, secrets |-> <<>>]}
MCFlags == {[persist |-> TRUE, restore |-> FALSE, trim |-> 0, ids |-> FALSE]}
MCOffers == {{Tool}}
MCCalls == {<<>>, <<Name, Name>>}
=============================================================================
