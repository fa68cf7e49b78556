----------------------------- MODULE Evaluation -----------------------------
(***************************************************************************)
(* `nexus eval` (src/internal/eval, newEvalCmd): a suite is run on the     *)
(* targets of a unit, the report is saved, set against a saved one, ranked *)
(* beside those of other models, and decides the exit status.              *)
(*                                                                         *)
(* A digest of 0 is the code's "": of a unit that runs from its directory, *)
(* of weights sealed into it or in a file that its manifest, or --model,   *)
(* names by path.  Reports remember, besides what the code writes, which   *)
(* edition of the unit and which weights they measured.                    *)
(***************************************************************************)
EXTENDS Naturals, Sequences, FiniteSets, FiniteSetsExt, Functions

CONSTANTS
  Models,      \* the weights: a number each, the unit's own being 1
  Addressed,   \* the models whose source tells their digest: ollama:, hf:, a URL
  Sizes,       \* per model, in MB, 0 if unknown
  Targets,     \* of this machine, in the order the unit prefers them
  Outcomes,    \* what a suite may do: per target and case, what each repeat does
  Bar,         \* --fail-under, in percent
  MaxEdition, MaxClock, NoReport, NoDiff

(* A unit has a target to run on, a suite has cases, and a case is repeated*)
(* once at least (Validate in suite.go, Run in eval.go).                   *)
Repeats == Seq({"pass", "fail", "error"}) \ {<<>>}
EvaluationAssumption ==
  /\ 1 \in Models /\ Addressed \subseteq Models /\ Sizes \in [Models -> Nat] /\ Bar \in Nat /\ MaxClock \in Nat
  /\ Targets \in Seq(Range(Targets)) \ {<<>>}
  /\ Outcomes \subseteq [DOMAIN Targets -> Seq(Repeats) \ {<<>>}]

VARIABLES
  edition,     \* of the unit
  sealed,      \* whether its weights are in its package
  clock,       \* in seconds, the resolution of a report's identifier
  saved,       \* the reports in the store
  shown        \* what the last evaluation said

vars == <<edition, sealed, clock, saved, shown>>

-----------------------------------------------------------------------------
(* One case: repeats stop at the first that fails to generate.             *)
UpToError(outs) ==
  LET bad == {i \in DOMAIN outs : outs[i] = "error"}
  IN  IF bad = {} THEN outs ELSE SubSeq(outs, 1, Min(bad) - 1)

CaseResult(outs) ==
  LET ran == UpToError(outs)
  IN  [runs |-> Len(ran), passes |-> Cardinality({i \in DOMAIN ran : ran[i] = "pass"}),
       error |-> \E i \in DOMAIN outs : outs[i] = "error"]

(* Broken: a case that passes more often than not has passed.              *)
PassedMostly(c) == c.runs > 0 /\ 2 * c.passes > c.runs /\ ~c.error

Passed(c) == c.runs > 0 /\ c.passes = c.runs /\ ~c.error

Status(c) ==
  CASE c.error -> "error"
    [] Passed(c) -> "pass"
    [] ~Passed(c) /\ ~c.error /\ c.passes > 0 -> "flaky"
    [] OTHER -> "fail"

(* A backend whose very first generation fails cannot run the suite at all.*)
RunTarget(label, outs) ==
  LET dead == outs[1][1] = "error"
      cases == IF dead THEN <<>> ELSE [i \in DOMAIN outs |-> CaseResult(outs[i])]
  IN  [label |-> label, error |-> dead, cases |-> cases, total |-> Len(cases),
       passed |-> Cardinality({i \in DOMAIN cases : Passed(cases[i])})]

Rate(t) == IF t.total = 0 THEN 0 ELSE (100 * t.passed) \div t.total

(* The first of the targets with the highest rate, or none that ran: 0.    *)
Best(r) ==
  LET ran == {i \in DOMAIN r.targets : ~r.targets[i].error}
      top == {i \in ran : \A j \in ran : Rate(r.targets[j]) <= Rate(r.targets[i])}
  IN  IF ran = {} THEN 0 ELSE Min(top)
BestRate(r) == Rate(r.targets[Best(r)])

-----------------------------------------------------------------------------
(* Diff.                                                                   *)
Differ(x, y) == x # 0 /\ y # 0 /\ x # y

Comparable(before, after) ==
  ~Differ(before.digest, after.digest) /\ ~Differ(before.weights, after.weights)

On(r, label) == {i \in DOMAIN r.targets : r.targets[i].label = label}
StatusOn(r, label, case) ==
  IF \E i \in On(r, label) : case \in DOMAIN r.targets[i].cases
    THEN Status(r.targets[CHOOSE i \in On(r, label) : TRUE].cases[case]) ELSE "absent"

Cases == 1..Max({Len(o[1]) : o \in Outcomes})

(* Broken: a case that passes now and then is not counted.                 *)
OnlyFailures(before, after) ==
  {x \in {Targets[i] : i \in DOMAIN Targets} \X Cases :
     /\ StatusOn(before, x[1], x[2]) = "pass"
     /\ StatusOn(after, x[1], x[2]) \in {"fail", "error", "absent"}}

(* Cases that stopped passing, per target: those of a target that was not  *)
(* evaluated again are among them.                                         *)
Regressions(before, after) ==
  {x \in {Targets[i] : i \in DOMAIN Targets} \X Cases :
     StatusOn(before, x[1], x[2]) = "pass" /\ StatusOn(after, x[1], x[2]) # "pass"}

Diff(before, after) ==
  [before |-> before, after |-> after, comparable |-> Comparable(before, after),
   regressions |-> Regressions(before, after)]

-----------------------------------------------------------------------------
(* The ranking of several models, by rate; and the smallest of those that  *)
(* match the best.                                                         *)
Row(r) == [model |-> r.model, size |-> Sizes[r.model], error |-> Best(r) = 0,
           rate |-> IF Best(r) = 0 THEN 0 ELSE BestRate(r)]

Above(rows, i, j) ==
  IF rows[i].error # rows[j].error THEN ~rows[i].error
  ELSE IF rows[i].rate # rows[j].rate THEN rows[i].rate > rows[j].rate ELSE i < j

Cheapest(rows) ==
  LET ran == {i \in DOMAIN rows : ~rows[i].error}
      top == CHOOSE i \in ran : \A j \in ran \ {i} : Above(rows, i, j)
      sized == {i \in ran : rows[i].rate = rows[top].rate /\ rows[i].size > 0}
      least == {i \in sized : \A j \in sized : rows[i].size <= rows[j].size}
  IN  IF ran = {} THEN 0
      ELSE IF sized = {} \/ top \in least THEN top
      ELSE CHOOSE i \in least : \A j \in least \ {i} : Above(rows, i, j)

-----------------------------------------------------------------------------
(* One report per model, the unit's own first.  Resolve gives no digest for*)
(* a path, and weights that come out of the package are not resolved.      *)
Report(id, packed, m, targets) ==
  [id |-> id, digest |-> IF packed THEN edition ELSE 0, model |-> m, override |-> m # 1,
   weights |-> IF m \notin Addressed \/ (m = 1 /\ sealed /\ packed) THEN 0 ELSE m,
   edition |-> edition, measured |-> m, targets |-> targets]

Latest == IF saved = {} THEN NoReport ELSE CHOOSE r \in saved : \A q \in saved : q.id <= r.id

(* A report replaces one that was made in the same second.                 *)
Save(old, new) == {r \in old : r.id # new.id} \cup {new}

Exit(reports) ==
  LET ran == {i \in DOMAIN reports : Best(reports[i]) # 0}
  IN  ran # {} /\ (Bar = 0 \/ \E i \in ran : BestRate(reports[i]) >= Bar)

(* The targets run the suite one after the other; a second model begins in *)
(* the second in which the first ended, or in a later one.                 *)
Eval(packed, all, other, outs, outs2, took, compare) ==
  LET on == IF all THEN Targets ELSE <<Targets[1]>>
      results(o) == [i \in DOMAIN on |-> RunTarget(on[i], o[i])]
      own == Report(clock, packed, 1, results(outs))
      second == Report(clock + took, packed, other, results(outs2))
      reports == IF other = 1 THEN <<own>> ELSE <<own, second>>
      before == IF compare THEN Latest ELSE NoReport
  IN  /\ shown = NoReport /\ clock + took < MaxClock
      /\ clock' = clock + took + 1
      /\ saved' = IF other = 1 THEN Save(saved, own) ELSE Save(Save(saved, own), second)
      /\ shown' = [reports |-> reports, ok |-> Exit(reports),
                   raw |-> IF other = 1 THEN <<outs>> ELSE <<outs, outs2>>,
                   diff |-> IF before = NoReport THEN NoDiff ELSE Diff(before, own),
                   cheapest |-> Cheapest([i \in DOMAIN reports |-> Row(reports[i])])]
      /\ UNCHANGED <<edition, sealed>>

(* The output was read.                                                    *)
Done == shown # NoReport /\ shown' = NoReport /\ UNCHANGED <<edition, sealed, clock, saved>>

(* The author changes the unit, and builds it again.                       *)
Edit(seal) ==
  /\ shown = NoReport /\ edition < MaxEdition
  /\ edition' = edition + 1 /\ sealed' = seal
  /\ UNCHANGED <<clock, saved, shown>>

Init ==
  /\ edition = 1 /\ sealed \in BOOLEAN /\ clock = 1 /\ saved = {} /\ shown = NoReport

Next ==
  \/ \E packed, all, compare \in BOOLEAN, other \in Models, took \in 0..1 :
       \E outs, outs2 \in Outcomes :
         /\ other = 1 => outs2 = outs /\ took = 0
         /\ Eval(packed, all, other, outs, outs2, took, compare)
  \/ Done \/ \E seal \in BOOLEAN : Edit(seal)

Spec == Init /\ [][Next]_vars

-----------------------------------------------------------------------------
(* "A diff states when the two runs are not comparable: a different suite, *)
(* a different unit build, different model weights, or a different         *)
(* temperature" (docs/EVAL.md:233): here the unit's own report, against the*)
(* latest that was saved, which may be of --model.                         *)
DifferentWeightsAreSaid ==
  shown # NoReport /\ shown.diff # NoDiff =>
    (shown.diff.comparable => shown.diff.before.measured = shown.diff.after.measured)

(* "Anything leaving "pass" is a regression, including becoming flaky"     *)
(* (diff.go:21): a target that passes fewer cases than it did, because they*)
(* fail now and then, no longer run, or are gone from the suite, is shown  *)
(* with a case that regressed.                                             *)
LossesAreShown ==
  shown # NoReport /\ shown.diff # NoDiff =>
    LET b == shown.diff.before.targets  a == shown.diff.after.targets IN
    \A i \in DOMAIN b, j \in DOMAIN a :
      b[i].label = a[j].label /\ b[i].passed > a[j].passed =>
        \E x \in shown.diff.regressions : x[1] = b[i].label

(* A suite that passes the bar has earned it: on some target of some model *)
(* that share of its cases passed every single repeat, none of them failing*)
(* to generate, the very first least of all; and the model that is called  *)
(* the cheapest did as well as the best, and no smaller one did.           *)
ScoreIsEarned ==
  shown # NoReport =>
    LET solid(m, t) == {c \in DOMAIN shown.raw[m][t] :
                          /\ shown.raw[m][t][1][1] # "error"
                          /\ \A i \in DOMAIN shown.raw[m][t][c] : shown.raw[m][t][c][i] = "pass"}
        share(m) == Max({(100 * Cardinality(solid(m, t))) \div Len(shown.raw[m][t]) :
                           t \in DOMAIN shown.reports[m].targets})
        size(m) == Sizes[shown.reports[m].model]
        ran(m) == \E t \in DOMAIN shown.reports[m].targets : shown.raw[m][t][1][1] # "error"
    IN  /\ shown.ok => \E m \in DOMAIN shown.raw : share(m) >= Bar
        /\ shown.cheapest # 0 => \A m \in DOMAIN shown.raw :
             /\ share(m) <= share(shown.cheapest)
             /\ share(m) = share(shown.cheapest) /\ ran(m) /\ size(m) > 0 =>
                  size(shown.cheapest) \in 1..size(m)
=============================================================================
