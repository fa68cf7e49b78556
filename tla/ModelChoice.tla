---------------------------- MODULE ModelChoice ----------------------------
(***************************************************************************)
(* Which model a unit runs, and on what: the probing of backends and their *)
(* choice for a model (src/internal/engine), the targets of an evaluation  *)
(* (src/internal/eval), the benchmark cache (src/internal/bench/cache.go)  *)
(* and the selection by measurement that rests on it                       *)
(* (src/internal/automodel), as `nexus run` and `nexus bench` use them.    *)
(*                                                                         *)
(* A digest is the number of the build it names, 0 for the "" of a unit    *)
(* that runs from its directory.  Entries remember, besides what the code  *)
(* writes, which edition of the unit was measured, where, and on which     *)
(* machine.                                                                *)
(***************************************************************************)
EXTENDS Integers, Sequences

CONSTANTS
  Candidates,  \* the unit's list: records of source, store, window and weight
  Machines,
  Installed,   \* per machine: cli, server, ollama, onnx; and hw, its accelerators
  Profiles,    \* requirements and strategy of the unit's model entry, its tools
  Options,     \* of run: a preference, from the manifest or --device; --backend, or "any"
  Truths,      \* per candidate: whether it runs, what it passes, tokens per second
  Files,       \* per source: 0, or the size of what the store resolves it to
  Scale,       \* of the rates: a common multiple of the numbers of cases
  TTL, MaxNow, MaxEdition, NoTarget, NoChoice

(* Sizes and counts are numbers, preferences are of device classes, and a  *)
(* model passes none of no cases.                                          *)
ModelChoiceAssumption ==
  /\ Candidates \in Seq({Candidates[i] : i \in DOMAIN Candidates})
  /\ Scale \in Nat \ {0}
  /\ \A o \in Options :
       /\ o.prefer \in Seq({"npu", "gpu", "cpu"}) /\ (o.forced => Len(o.prefer) = 1)
       /\ {o.forced, o.refresh, o.talks} \subseteq BOOLEAN
       /\ o.backend \in {"any", "llama.cpp", "llama.cpp/server", "ollama"}
  /\ \A p \in Profiles :
       /\ p.minContext \in Nat /\ p.maxSize \in Nat /\ p.minQuality \in Nat
       /\ p.tools \in BOOLEAN /\ p.needs \in BOOLEAN
  /\ \A i \in DOMAIN Candidates :
       /\ Candidates[i].window \in Nat /\ Candidates[i].weight \in Nat
       /\ \A f \in Files : f[Candidates[i].source] \in Nat
       /\ \A t \in Truths : LET got == t[i] IN
            /\ got.passed \in Nat /\ got.total \in Nat /\ got.speed \in Nat
            /\ IF got.total = 0 THEN got.passed = 0 ELSE (Scale \div got.total) * got.total = Scale
  /\ \A b \in {"llama.cpp", "llama.cpp/server", "ollama", "onnxruntime"} :
       \A d \in {"npu", "gpu", "cpu", "auto"} : NoTarget # [backend |-> b, device |-> d]

VARIABLES
  machine,     \* where the store is
  profile,     \* of the unit
  edition,     \* of the unit's directory: its prompt, its suite
  suite,       \* whether that edition has a suite
  built,       \* the edition of the last build, its suite, whether it is sealed
  files,       \* per source: what the store would resolve it to
  truth,       \* per candidate: what a measurement of this edition yields here
  cache,       \* benchmarks.json: the machine it is of and its entries
  now,
  choice       \* the last decision, and the target of the run after it

vars == <<machine, profile, edition, suite, built, files, truth, cache, now, choice>>

-----------------------------------------------------------------------------
(* Probing.  A llama.cpp build drives the GPU if it was compiled for it,   *)
(* whatever the machine has.                                               *)
Drives(build) == IF build = "gpu" THEN <<"gpu", "cpu">> ELSE <<"cpu">>

Probe(b, host) ==
  LET m == Installed[host] IN
  CASE b = "llama.cpp" ->
         [available |-> m.cli # "absent", byPath |-> TRUE, tools |-> FALSE, devices |-> Drives(m.cli)]
    [] b = "llama.cpp/server" ->
         [available |-> m.server # "absent", byPath |-> TRUE, tools |-> TRUE, devices |-> Drives(m.server)]
    [] b = "ollama" ->
         [available |-> m.ollama, byPath |-> FALSE, tools |-> TRUE, devices |-> <<"gpu", "cpu">>]
    [] b = "onnxruntime" ->
         [available |-> m.onnx, byPath |-> TRUE, tools |-> FALSE,
          devices |-> IF "npu" \in m.hw THEN <<"npu", "cpu">> ELSE <<"cpu">>]

Has(m, d) == d = "cpu" \/ d \in Installed[m].hw
All == <<"llama.cpp", "ollama", "onnxruntime">>
ToolCapable == <<"llama.cpp/server", "ollama">>

(* An evaluation prefers the server, which loads the weights once.         *)
EvalBackends(m) ==
  IF Installed[m].server # "absent" THEN <<"llama.cpp/server", "ollama", "onnxruntime">> ELSE All

(* A target has its place among the backends of a list and their devices.  *)
Target(bs, i, k, d) == [place |-> <<i, k>>, backend |-> bs[i], device |-> d]

(* The devices of backends that take paths that they drive and the machine *)
(* has.                                                                    *)
Pairs(bs, m) ==
  LET some(i) == Probe(bs[i], m).available /\ Probe(bs[i], m).byPath
      ds(i) == Probe(bs[i], m).devices
  IN  UNION {{Target(bs, i, k, ds(i)[k]) : k \in {n \in DOMAIN ds(i) : Has(m, ds(i)[n])}} :
               i \in {n \in DOMAIN bs : some(n)}}

(* A backend that is addressed by name runs what its own store holds, on a *)
(* device of its choice.                                                   *)
Named(bs, m, store) ==
  {Target(bs, i, 1, "auto") :
     i \in {n \in DOMAIN bs : Probe(bs[n], m).available /\ ~Probe(bs[n], m).byPath /\ store = bs[n]}}

Liking(t, prefer) ==
  LET liked == {i \in DOMAIN prefer : prefer[i] = t.device}
  IN  IF liked = {} THEN Len(prefer) + 1 ELSE CHOOSE i \in liked : \A j \in liked : i <= j

Before(x, y) == x[1] < y[1] \/ (x[1] = y[1] /\ x[2] <= y[2])

(* Class by class in the order of preference, then in their own order.     *)
Preferred(ts, prefer) ==
  IF ts = {} THEN NoTarget
  ELSE LET t == CHOOSE x \in ts : \A y \in ts :
             \/ Liking(x, prefer) < Liking(y, prefer)
             \/ Liking(x, prefer) = Liking(y, prefer) /\ Before(x.place, y.place)
       IN  [backend |-> t.backend, device |-> t.device]

SelectForModel(bs, m, prefer, store) ==
  Preferred(IF Pairs(bs, m) # {} THEN Pairs(bs, m) ELSE Named(bs, m, store), prefer)

(* The one target of an evaluation: here the named backends stand in the   *)
(* order of the list, not after the others.                                *)
EvalTarget(m, prefer, bs, store) ==
  Preferred(Pairs(bs, m) \cup Named(bs, m, store), prefer)

(* A unit that needs tools is measured on backends that carry them.        *)
SelectBackends(m, tools) ==
  LET bs == EvalBackends(m)
      carrying(b) == IF Probe(b, m).available /\ Probe(b, m).tools THEN <<b>> ELSE <<>>
  IN  IF tools THEN carrying(bs[1]) \o carrying(bs[2]) \o carrying(bs[3]) ELSE bs

(* What a candidate is measured on: with a suite by eval.Run, without one  *)
(* by a single generation on a target that takes a path.                   *)
MeasuredOn(m, tools, prefer, store, evals) ==
  IF evals THEN EvalTarget(m, prefer, SelectBackends(m, tools), store)
           ELSE SelectForModel(SelectBackends(m, tools), m, prefer, "none")

(* What it then runs on.  A unit that has tools or MCP servers, or talks on*)
(* (--session, --restore), needs backends that carry a conversation.       *)
RunBackends(carries, named) ==
  LET bs == IF carries THEN ToolCapable ELSE All
  IN  IF named = "any" THEN bs
      ELSE IF named = "llama.cpp/server" THEN <<named>> ELSE SelectSeq(bs, LAMBDA b : b = named)

RunOn(m, carries, named, prefer, store) ==
  SelectForModel(RunBackends(carries, named), m, prefer, store)

(* --device, and the weights of a sealed unit, leave no room for a backend *)
(* that chooses its own device or runs what its own store holds.           *)
AddressOf(u, c, o) == IF o.forced \/ u.sealed THEN "none" ELSE c.store

RunsOn(u, c, o) ==
  RunOn(machine, profile.needs \/ o.talks, o.backend, o.prefer, AddressOf(u, c, o))

-----------------------------------------------------------------------------
(* The cache.                                                              *)
LoadCache == IF cache.machine = machine THEN cache.entries ELSE {}

(* Broken: a digest that differs is taken for another measurement of the   *)
(* same unit.                                                              *)
LookupAnyBuild(entries, source, digest) ==
  {e \in entries : e.source = source /\ now - e.at < TTL}

(* At most one: Put leaves one entry for a source.                         *)
Lookup(entries, source, digest) ==
  {e \in entries : /\ e.source = source
                   /\ digest = 0 \/ e.digest = 0 \/ e.digest = digest
                   /\ now - e.at < TTL}

Put(entries, new) == {e \in entries : \A n \in new : n.source # e.source} \cup new

-----------------------------------------------------------------------------
(* Select.  A candidate's row: why it was rejected, or "ok"; the           *)
(* measurement it rests on; whether that came from the cache.              *)
NoMeasure == [passed |-> 0, total |-> 0, speed |-> 0]
Row(verdict, cached, e) == [verdict |-> verdict, cached |-> cached, e |-> e]
Rejected(why) == Row(why, FALSE, NoMeasure)

Measured(u, c, target, got) ==
  [source |-> c.source, digest |-> u.digest, at |-> now, target |-> target,
   passed |-> IF u.suite THEN got.passed ELSE 0, total |-> IF u.suite THEN got.total ELSE 0,
   speed |-> got.speed, edition |-> u.edition, machine |-> machine]

(* The requirements that cost nothing are looked at first.                 *)
Bars(c) ==
  IF profile.minContext > 0 /\ c.window > 0 /\ c.window < profile.minContext THEN "context"
  ELSE IF files[c.source] = 0 THEN "unavailable"
  ELSE IF profile.maxSize > 0 /\ files[c.source] > profile.maxSize THEN "size" ELSE "ok"

(* `got` is what the measurement yields if there is one, a model that does *)
(* not run included; onnxruntime runs none.                                *)
Consider(u, c, o, got) ==
  LET hit == IF o.refresh THEN {} ELSE Lookup(LoadCache, c.source, u.digest)
      target == MeasuredOn(machine, profile.tools, o.prefer, c.store, u.suite)
  IN  IF Bars(c) # "ok" THEN Rejected(Bars(c))
      ELSE IF hit # {} THEN Row("ok", TRUE, CHOOSE e \in hit : TRUE)
      ELSE IF target = NoTarget \/ ~got.runs \/ target.backend = "onnxruntime" THEN Rejected("unrunnable")
      ELSE Row("ok", FALSE, Measured(u, c, target, got))

WithQuality(row) ==
  IF row.verdict = "ok" /\ profile.minQuality > 0 /\ row.e.passed < profile.minQuality
    THEN [row EXCEPT !.verdict = "quality"] ELSE row

(* What share was passed, in parts of Scale; of nothing it is 0.           *)
Rate(e) == IF e.total = 0 THEN 0 ELSE e.passed * (Scale \div e.total)

(* i is put before j, for another reason than that it stands before it.    *)
Better(i, j, rows) ==
  LET x == rows[i].e  y == rows[j].e
      weighed(k) == Rate(rows[k].e) * Candidates[k].weight
  IN  IF profile.strategy = "fastest" THEN x.speed > y.speed
      ELSE IF profile.strategy = "smallest" THEN files[x.source] < files[y.source]
      ELSE \/ Rate(x) > Rate(y)
           \/ Rate(x) = Rate(y) /\ weighed(i) > weighed(j)
           \/ Rate(x) = Rate(y) /\ weighed(i) = weighed(j) /\ x.speed > y.speed

Eligible(rows) == {i \in DOMAIN rows : rows[i].verdict = "ok"}
Pick(rows) ==
  CHOOSE i \in Eligible(rows) :
    \A j \in Eligible(rows) \ {i} : Better(i, j, rows) \/ (i < j /\ ~Better(j, i, rows))

(* What a unit is when it runs from its directory, and from its build.     *)
Directory == [digest |-> 0, edition |-> edition, suite |-> suite, sealed |-> FALSE]
Build ==
  [digest |-> built.edition, edition |-> built.edition, suite |-> built.suite, sealed |-> built.sealed]

Refused(u) ==
  \/ profile.minQuality > 0 /\ ~u.suite
  \/ profile.tools /\ SelectBackends(machine, TRUE) = <<>>
  \/ \A i \in DOMAIN Candidates : Bars(Candidates[i]) # "ok"

(* The cache is saved before the choice, which may fail.                   *)
Select(u, o) ==
  /\ choice = NoChoice /\ ~Refused(u)
  /\ \E first \in {[i \in DOMAIN Candidates |-> Consider(u, Candidates[i], o, truth[i])]} :
       LET rows == [i \in DOMAIN Candidates |-> WithQuality(first[i])]
           won == IF Eligible(rows) = {} THEN 0 ELSE Pick(rows)
           new == {first[i].e : i \in {k \in DOMAIN first : first[k].verdict = "ok" /\ ~first[k].cached}}
       IN  /\ cache' = [machine |-> machine, entries |-> Put(LoadCache, new)]
           /\ choice' = [rows |-> rows, unit |-> u, opts |-> o,
                         winner |-> won,
                         run |-> IF won = 0 THEN NoTarget
                                 ELSE RunsOn(u, Candidates[won], o)]
  /\ UNCHANGED <<machine, profile, edition, suite, built, files, truth, now>>

-----------------------------------------------------------------------------
(* The run ends.  The rest of the world: the author, the machine, the clock*)
(* move on between runs.                                                   *)
RunEnds ==
  /\ choice # NoChoice /\ choice' = NoChoice
  /\ UNCHANGED <<machine, profile, edition, suite, built, files, truth, cache, now>>

ClearCache ==
  /\ choice = NoChoice /\ cache' = [machine |-> cache.machine, entries |-> {}]
  /\ UNCHANGED <<machine, profile, edition, suite, built, files, truth, now, choice>>

Edit(s, t) ==
  /\ choice = NoChoice /\ edition < MaxEdition
  /\ edition' = edition + 1 /\ suite' = s /\ truth' = t
  /\ UNCHANGED <<machine, profile, built, files, cache, now, choice>>

Rebuild(whole) ==
  /\ choice = NoChoice /\ built.edition # edition
  /\ built' = [edition |-> edition, suite |-> suite, sealed |-> whole]
  /\ UNCHANGED <<machine, profile, edition, suite, files, truth, cache, now, choice>>

Move(m) ==
  /\ choice = NoChoice /\ machine' = m
  /\ UNCHANGED <<profile, edition, suite, built, files, truth, cache, now, choice>>

Tick ==
  /\ choice = NoChoice /\ now < MaxNow /\ now' = now + 1
  /\ UNCHANGED <<machine, profile, edition, suite, built, files, truth, cache, choice>>

Init ==
  /\ machine \in Machines /\ profile \in Profiles /\ edition = 1 /\ suite \in BOOLEAN
  /\ built = [edition |-> 0, suite |-> FALSE, sealed |-> FALSE]
  /\ files \in Files /\ truth \in Truths
  /\ cache = [machine |-> machine, entries |-> {}] /\ now = 0 /\ choice = NoChoice

Next ==
  \/ \E o \in Options : Select(Directory, o) \/ (built.edition > 0 /\ Select(Build, o))
  \/ RunEnds \/ ClearCache \/ Tick \/ \E whole \in BOOLEAN : Rebuild(whole)
  \/ \E s \in BOOLEAN, t \in Truths : Edit(s, t)
  \/ \E m \in Machines \ {machine} : Move(m)

Spec == Init /\ [][Next]_vars

-----------------------------------------------------------------------------
(* A cached row is evidence about this unit here: it was measured on this  *)
(* machine, not longer ago than the limit, against the very build that is  *)
(* chosen for.  A digest is needed to tell: between a unit that runs from  *)
(* its directory and any other see EvidenceIsOfThisEdition.                *)
EvidenceIsOfThisUnit ==
  choice # NoChoice => \A i \in DOMAIN choice.rows :
    LET r == choice.rows[i] IN
    r.cached => /\ r.e.machine = machine /\ now - r.e.at < TTL /\ ~choice.opts.refresh
                /\ 0 \in {r.e.digest, choice.unit.digest} \/ r.e.edition = choice.unit.edition

(* "pinned to the unit digest it was measured against: a rebuilt unit with *)
(* a changed prompt is a different unit, and inheriting its predecessor's  *)
(* score would report a measurement never taken" (docs/AUTOMODEL.md:146).  *)
EvidenceIsOfThisEdition ==
  choice # NoChoice /\ choice.unit.digest # 0 => \A i \in DOMAIN choice.rows :
    choice.rows[i].cached => choice.rows[i].e.edition = choice.unit.edition

(* The choice can be defended: what won was resolved, is large enough and  *)
(* small enough, ran, and passed what was asked for; and of the others that*)
(* did, none passed a larger share of the suite (or, where the strategy    *)
(* says so, is faster, or smaller).                                        *)
DecisionStands ==
  choice # NoChoice /\ choice.winner # 0 =>
    LET w == choice.rows[choice.winner]
        fits(i) == LET c == Candidates[i] IN
          /\ files[c.source] > 0
          /\ profile.maxSize = 0 \/ files[c.source] <= profile.maxSize
          /\ c.window = 0 \/ c.window >= profile.minContext
          /\ choice.rows[i].e # NoMeasure /\ choice.rows[i].e.passed >= profile.minQuality
    IN  /\ fits(choice.winner)
        /\ \A i \in DOMAIN choice.rows : fits(i) =>
             CASE profile.strategy = "fastest" -> choice.rows[i].e.speed <= w.e.speed
               [] profile.strategy = "smallest" ->
                    files[Candidates[choice.winner].source] <= files[Candidates[i].source]
               [] OTHER -> choice.rows[i].e.passed * w.e.total <= w.e.passed * choice.rows[i].e.total

(* llama.cpp's two programs are one engine.                                *)
Engine(b) == IF b = "llama.cpp/server" THEN "llama.cpp" ELSE b

(* A suite that was just measured was measured by the engine, and on the   *)
(* device, that the run then uses, whatever is preferred and installed.    *)
(* Not so, by what the code does, when tool_calling: required and the tools*)
(* or the session of the run do not go together (MeasuredOnItsDevice);     *)
(* when --backend names another; when a model of a backend that chooses its*)
(* own device is sealed in the unit or meets --device, and is refused; when*)
(* the machine has llama.cpp's two programs in different builds, or no     *)
(* llama.cpp beside an onnxruntime that run prefers to a named backend and *)
(* eval does not.                                                          *)
MeasuredWhereItRuns ==
  choice # NoChoice /\ choice.winner # 0 /\ choice.unit.suite =>
    LET r == choice.rows[choice.winner]  here == Installed[machine] IN
    \/ r.cached \/ choice.opts.backend # "any" \/ profile.tools # (profile.needs \/ choice.opts.talks)
    \/ (choice.opts.forced \/ choice.unit.sealed) /\ r.e.target.device = "auto"
    \/ here.server \notin {here.cli, "absent"} \/ (here.onnx /\ here.cli = "absent")
    \/ /\ choice.run # NoTarget
       /\ Engine(r.e.target.backend) = Engine(choice.run.backend)
       /\ r.e.target.device = choice.run.device

(* "auto-selection has to measure candidates on the device the unit will   *)
(* actually run on" (commands.go:309): it is the one that run chooses when *)
(* no --backend is given.                                                  *)
MeasuredOnItsDevice ==
  choice # NoChoice /\ choice.winner # 0 /\ choice.run # NoTarget /\ choice.opts.backend = "any" =>
    LET r == choice.rows[choice.winner]
    IN  r.cached \/ r.e.target.device = choice.run.device
=============================================================================
