------------------------------ MODULE MCLocal ------------------------------
(* Small instances of the parts.                                           *)
EXTENDS Local, FiniteSetsExt, TLC

-----------------------------------------------------------------------------
(* Conditions of two levels over a choice of operators and names.          *)
Literal(x) == [node |-> "literal", value |-> x]
Text(s) == Literal([type |-> "text", text |-> s])
Number(n) == Literal([type |-> "number", number |-> n])
Ref(parts) == [node |-> "ref", parts |-> parts]
Binary(op, l, r) == [node |-> "binary", op |-> op, l |-> l, r |-> r]
Not(x) == [node |-> "unary", x |-> x]
Call(f, args) == [node |-> "call", name |-> f, args |-> args]

Leaves ==
  {Number(1), Text("x"), Text("("), Ref(<<"input">>), Ref(<<"a", "output">>),
   Ref(<<"a", "tokens">>), Ref(<<"b", "ok">>)}
Astray ==
  {Literal([type |-> "boolean", bool |-> TRUE]), Ref(<<"a">>), Ref(<<"c", "ok">>),
   Ref(<<"b", "putput">>), Ref(<<"never">>), Call("nosuch", <<>>)}
Over(L, R) ==
  {Binary(op, l, r) : op \in {"or", "and", "==", "<"}, l \in L, r \in R}
    \cup {Not(l) : l \in L} \cup {Call(f, <<l>>) : f \in {"len", "contains"}, l \in L}
    \cup {Call("matches", <<l, r>>) : l \in L, r \in R}
One == Over(Leaves \cup Astray, Leaves)
Few == {Number(1), Ref(<<"b", "ok">>)}
Trees == Leaves \cup Astray \cup One \cup Over(One, Few) \cup Over(Few, One)

(* Dependencies and routes of three agents; 9 is no agent.                 *)
Arcs == {1, 2, 3} \X {1, 2, 3}
Depends == {p \in Arcs : p[1] # p[2]} \cup {<<1, 1>>, <<2, 9>>}
MCGraphs ==
  [depends |-> UNION {kSubset(k, Depends) : k \in 0..3},
   routes |-> {<<>>} \cup {<<p>> : p \in Arcs}
                \cup {<<p, q>> : p \in {<<1, 2>>, <<3, 1>>}, q \in {<<1, 2>>, <<2, 3>>, <<9, 1>>}}]
State(backend, path, absolute, encrypted) ==
  [backend |-> backend, path |-> path, absolute |-> absolute, encrypted |-> encrypted]
MCStates ==
  {State("file", <<"s", "..", "..", "s">>, FALSE, TRUE), State("file", <<"s", "..", "t">>, FALSE, TRUE),
   State("file", <<"t">>, TRUE, TRUE), State("file", <<"..", "s">>, FALSE, TRUE),
   State("", <<>>, FALSE, TRUE), State("memory", <<"s">>, FALSE, FALSE), State("", <<>>, FALSE, FALSE)}

(* What two cases do on two targets, repeated.                             *)
Good == <<<<"pass", "pass">>, <<"pass", "pass">>>>
Shaky == <<<<"pass", "pass">>, <<"pass", "fail", "pass">>>>
Broken == <<<<"fail", "fail">>, <<"pass", "error">>>>
Dead == <<<<"error">>, <<"pass">>>>

(* A unit with linked weights and one with pinned weights; sealed ones that*)
(* were built elsewhere, with linked weights and with a choice among two.  *)
Entry(p) == [source |-> "hf", pin |-> p]
Linked == [auto |-> FALSE, entries |-> <<Entry(None)>>, complete |-> TRUE]
Pinned == [auto |-> FALSE, entries |-> <<Entry("w1")>>, complete |-> TRUE]
Earlier(p, ls) ==
  [name |-> "u", edition |-> 0, tree |-> 0, sealed |-> TRUE, layers |-> ls, plan |-> p]
Choosing ==
  Earlier([auto |-> TRUE, entries |-> <<Entry(None), Entry("w2")>>, complete |-> TRUE], <<"w1", "w2">>)

(* A unit that needs everything, and a sealed one that needs a runtime;    *)
(* machines on which it can be installed, or is there but memory is short. *)
Unit(ms, whole, ts, ks, tested) ==
  [models |-> ms, sealed |-> whole, sized |-> whole, chat |-> TRUE, tools |-> ts, keys |-> ks,
   suite |-> tested]
Tooled == Unit({"w1", "w2"}, FALSE, {"git", "npm"}, {"k"}, TRUE)
Sealed == Unit({"w1"}, TRUE, {}, {}, FALSE)
Host(o, p, m) == [offered |-> o, present |-> p, roomy |-> m]

MCOutcomes == {<<Good, Shaky>>, <<Shaky, Broken>>, <<Dead, Good>>, <<Dead, Dead>>}
MCSizes == <<0, 5>>
MCTargets == <<"gpu", "cpu">>
MCLocalName == "r1" :> "u"
MCPlans == {Linked, Pinned}
MCReceived == {Choosing}
MCBuilds == {Tooled, Sealed}
MCArchive == <<"file", "link", "file">>
MCHosts == {Host(TRUE, FALSE, TRUE), Host(FALSE, TRUE, FALSE)}
MCWeights == <<"w1", "w2">>

(* Machines with llama.cpp and an NPU, with Ollama and the ONNX runtime,   *)
(* with Ollama alone, and with Ollama beside the one-shot llama.cpp.       *)
Equipped(cli, serves, ollama, onnx, hw) ==
  [cli |-> cli, server |-> serves, ollama |-> ollama, onnx |-> onnx, hw |-> hw]
MCMachines ==
  [m1 |-> Equipped("gpu", "gpu", FALSE, TRUE, {"npu"}), m2 |-> Equipped("absent", "absent", TRUE, TRUE, {}),
   m3 |-> Equipped("absent", "absent", TRUE, FALSE, {"gpu"}),
   m4 |-> Equipped("gpu", "absent", TRUE, FALSE, {"gpu"})]
MCCandidates ==
  <<[source |-> "a", store |-> "ollama", window |-> 4, weight |-> 1],
    [source |-> "b", store |-> "hf", window |-> 0, weight |-> 2]>>
Profile(context, size, quality, tools, needs, strategy) ==
  [minContext |-> context, maxSize |-> size, minQuality |-> quality, tools |-> tools,
   needs |-> needs, strategy |-> strategy]
MCProfiles ==
  {Profile(0, 0, 0, FALSE, FALSE, "best"), Profile(8, 1, 1, FALSE, FALSE, "fastest"),
   Profile(0, 0, 1, TRUE, TRUE, "smallest")}
Ran(n, v) == [runs |-> TRUE, passed |-> n, total |-> 2, speed |-> v]
Fails == [runs |-> FALSE, passed |-> 0, total |-> 0, speed |-> 0]
MCTruths == {<<Ran(1, 1), Ran(0, 2)>>, <<Fails, Ran(2, 1)>>}
MCFiles == {[a |-> 1, b |-> 2], [a |-> 2, b |-> 1]}
Option(prefer, forced, refresh, talks, backend) ==
  [prefer |-> prefer, forced |-> forced, refresh |-> refresh, talks |-> talks, backend |-> backend]
MCOptions ==
  {Option(<<"npu", "cpu">>, FALSE, FALSE, FALSE, "any"), Option(<<"npu", "cpu">>, FALSE, FALSE, TRUE, "any"),
   Option(<<"cpu">>, TRUE, TRUE, FALSE, "any"),
   Option(<<"npu", "cpu">>, FALSE, FALSE, FALSE, "ollama")}
=============================================================================
