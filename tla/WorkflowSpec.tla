---------------------------- MODULE WorkflowSpec ----------------------------
(***************************************************************************)
(* The validation of a workflow file and the order of its agents           *)
(* (src/internal/workflow/spec.go, graph.go).  An agent is a number, and   *)
(* the order of the numbers is the alphabetical order of the names; what   *)
(* is no agent's name is a number too.  A path is the sequence of its      *)
(* parts.                                                                  *)
(***************************************************************************)
EXTENDS Naturals, Sequences, FiniteSets, Functions

CONSTANTS
  Agents,  \* of the workflow
  Edges,   \* choices of depends_on (pairs: who, on whom) and of routes
  States,  \* choices of shared_state: backend, path, absolute and encrypted
  Up       \* the part `..` of a path

(* Dependencies are entries of the agents, of which there is one at least  *)
(* (Validate refuses a file without).                                      *)
WorkflowSpecAssumption ==
  /\ Agents \subseteq Nat /\ IsFiniteSet(Agents) /\ Agents # {}
  /\ \A d \in Edges.depends : d \subseteq Agents \X Nat
  /\ Edges.routes \subseteq Seq(Nat \X Nat)
  /\ \A s \in States : s.path \in Seq(Range(s.path))

VARIABLES
  spec,       \* depends: a set of pairs; routes: a sequence of pairs; state
  phase,      \* "order", "walk", and the outcomes "ordered", "cycle", "refused"
  remaining,  \* agents that have no place in the order yet
  order,
  stack,      \* of the walk that looks for a cycle
  found       \* the cycle that is reported: who feeds whom

vars == <<spec, phase, remaining, order, stack, found>>

Least(S) == CHOOSE n \in S : \A m \in S : n <= m

-----------------------------------------------------------------------------
(* Broken: a route is no dependency.                                       *)
DepsDeclared(n) == {d \in Agents : <<n, d>> \in spec.depends}

(* The edges of the graph: declared dependencies, and routes backwards.    *)
Deps(n) ==
  {d \in Agents : <<n, d>> \in spec.depends \/ <<d, n>> \in Range(spec.routes)}

(* filepath.Clean: `..` takes back the part before it, if there is one.    *)
Clean(path) ==
  LET kept[n \in 0..Len(path)] ==
        IF n = 0 THEN <<>>
        ELSE LET k == kept[n - 1] IN
             IF path[n] = Up /\ k # <<>> /\ k[Len(k)] # Up THEN SubSeq(k, 1, Len(k) - 1)
             ELSE Append(k, path[n])
  IN  kept[Len(path)]

Escapes(state) ==
  \/ state.absolute
  \/ Clean(state.path) # <<>> /\ Head(Clean(state.path)) = Up

(* Diagnostics without the order: each problem with its place in the file. *)
DependsDiagnostics ==
  {e \in spec.depends : e[2] \notin Agents \/ e[1] = e[2]}

RoutingDiagnostics ==
  LET routes == spec.routes IN
  {i \in DOMAIN routes :
     \/ routes[i][1] \notin Agents \/ routes[i][2] \notin Agents
     \/ routes[i][1] = routes[i][2]
     \/ \E k \in 1 .. i - 1 : routes[k] = routes[i]}

StateDiagnostics ==
  LET state == spec.state IN
  {d \in {"backend", "path", "encryption"} :
     CASE d = "backend" -> state.backend \notin {"", "memory", "file"}
       [] d = "path" -> state.path # <<>> /\ (state.backend = "memory" \/ Escapes(state))
       [] d = "encryption" -> state.encrypted /\ state.backend # "file"}

Valid == DependsDiagnostics = {} /\ RoutingDiagnostics = {} /\ StateDiagnostics = {}

(* Routes into an agent, and from it; who gets the input and whose output  *)
(* is the workflow's.                                                      *)
Inbound(n) == {i \in DOMAIN spec.routes : spec.routes[i][2] = n}
Outbound(n) == {i \in DOMAIN spec.routes : spec.routes[i][1] = n}
Sources == {n \in Agents : Inbound(n) = {}}
Sinks == {n \in Agents : Outbound(n) = {}}

-----------------------------------------------------------------------------
Init ==
  /\ spec \in [depends : Edges.depends, routes : Edges.routes, state : States]
  /\ phase = "order" /\ remaining = Agents /\ order = <<>>
  /\ stack = <<>> /\ found = <<>>

(* The order is asked for only if there is no other problem.               *)
Refuse ==
  /\ phase = "order" /\ order = <<>> /\ ~Valid
  /\ phase' = "refused"
  /\ UNCHANGED <<spec, remaining, order, stack, found>>

Ready == {n \in remaining : Deps(n) \cap remaining = {}}

(* Order: all the agents that are ready take their places together, in the *)
(* order of their names.                                                   *)
Place ==
  /\ phase = "order" /\ Valid /\ Ready # {}
  /\ \E s \in [1..Cardinality(Ready) -> Ready] :
       (\A i, j \in DOMAIN s : i < j => s[i] < s[j]) /\ order' = order \o s
  /\ remaining' = remaining \ Ready
  /\ UNCHANGED <<spec, phase, stack, found>>

Finish ==
  /\ phase = "order" /\ Valid /\ remaining = {}
  /\ phase' = "ordered"
  /\ UNCHANGED <<spec, remaining, order, stack, found>>

Stuck ==
  /\ phase = "order" /\ Valid /\ Ready = {} /\ remaining # {}
  /\ phase' = "walk"
  /\ UNCHANGED <<spec, remaining, order, stack, found>>

(* describeCycle: a walk along the dependencies that remain, from the first*)
(* name.  That the code turns back where there is no way on, and lists     *)
(* names when it has found nothing, is left out: see WalkGoesOn.           *)
Onwards == Deps(stack[Len(stack)]) \cap remaining

Start ==
  /\ phase = "walk" /\ stack = <<>>
  /\ stack' = <<Least(remaining)>>
  /\ UNCHANGED <<spec, phase, remaining, order, found>>

Visit ==
  /\ phase = "walk" /\ stack # <<>>
  /\ Least(Onwards) \notin Range(stack)
  /\ stack' = Append(stack, Least(Onwards))
  /\ UNCHANGED <<spec, phase, remaining, order, found>>

Close ==
  /\ phase = "walk" /\ stack # <<>>
  /\ LET d == Least(Onwards) IN
       \E i \in DOMAIN stack :
         /\ stack[i] = d
         /\ found' = <<d>> \o [k \in 1 .. Len(stack) + 1 - i |-> stack[Len(stack) + 1 - k]]
  /\ phase' = "cycle"
  /\ UNCHANGED <<spec, remaining, order, stack>>

Next == Refuse \/ Place \/ Finish \/ Stuck \/ Start \/ Visit \/ Close

Spec == Init /\ [][Next]_vars

-----------------------------------------------------------------------------
(* A workflow that is accepted has an order in which every agent comes     *)
(* once and after all it depends on and all that route to it, so that      *)
(* whatever is delivered to it is there; it has an agent that gets the     *)
(* input and one whose output is the result.                               *)
AcceptedRuns ==
  phase = "ordered" =>
    /\ Len(order) = Cardinality(Agents) /\ Range(order) = Agents
    /\ \A i, j \in DOMAIN order :
         <<order[i], order[j]>> \in spec.depends \/ <<order[j], order[i]>> \in Range(spec.routes) => j < i
    /\ Sources # {} /\ Sinks # {}

(* The walk never needs to turn back: whoever has no place in the order    *)
(* waits for another one that has none.                                    *)
WalkGoesOn == phase = "walk" /\ stack # <<>> => Onwards # {}

(* A reported cycle is one of the file: each of its agents feeds the next, *)
(* none comes twice, and the last is the first; the walk never turns back.  *)
ReportedCycleIsReal ==
  /\ WalkGoesOn
  /\ phase = "cycle" =>
    /\ Len(found) >= 2 /\ found[1] = found[Len(found)]
    /\ \A i \in 1 .. Len(found) - 1 : found[i] \in Deps(found[i + 1])
    /\ Cardinality(Range(found)) = Len(found) - 1

(* The file of an accepted workflow's state is inside the folder of the    *)
(* workflow: along its path one never ends up above where one started.     *)
Height(path) ==
  LET h[n \in 0 .. Len(path)] ==
        IF n = 0 THEN [above |-> 0, below |-> 0]
        ELSE IF path[n] # Up THEN [h[n - 1] EXCEPT !.below = @ + 1]
        ELSE IF h[n - 1].below > 0 THEN [h[n - 1] EXCEPT !.below = @ - 1]
        ELSE [h[n - 1] EXCEPT !.above = @ + 1]
  IN  h[Len(path)]

StateStaysInside ==
  phase \in {"ordered", "cycle"} /\ spec.state.path # <<>> =>
    ~spec.state.absolute /\ Height(spec.state.path).above = 0
=============================================================================
