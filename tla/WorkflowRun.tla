---------------------------- MODULE WorkflowRun ----------------------------
(***************************************************************************)
(* Agent Compose: one run of a workflow (src/internal/workflow/graph.go    *)
(* and run.go).  Agents are ordered by their dependencies, narrowed by     *)
(* --only, and run one at a time: each is fed by the routes into it that   *)
(* fire, skipped when none does, and retried when it fails.  Messages are  *)
(* recorded on the state bus; events report the run as it goes.            *)
(*                                                                         *)
(* Agents are numbers in the alphabetical order of their names.  What a    *)
(* condition or a template yields is a choice made when it is evaluated.   *)
(***************************************************************************)
EXTENDS StateBus, FiniteSets, SequencesExt

CONSTANTS
  Agents,     \* a set of numbers
  Graphs,     \* the workflows: depends_on, routing and --only
  Restart,    \* how often a failed agent is retried
  Logs        \* bus files left by earlier runs: [log, ragged]

Edge == Agents \X Agents

(* A workflow without agents is refused (spec.go:244).                     *)
ASSUME ConstantsAssumption ==
  /\ Agents \subseteq Nat /\ IsFiniteSet(Agents) /\ Agents # {} /\ Restart \in Nat
  /\ \A g \in Graphs : g.depends \subseteq Edge /\ g.routes \subseteq Edge

Message == Edge
Entry == [msg : Message, whole : BOOLEAN]

ASSUME LogsAssumption ==
  \A f \in Logs : /\ f.log \in Seq(Seq(Entry)) /\ f.ragged \in BOOLEAN
                  /\ f.ragged => f.log # <<>>

VARIABLES
  graph,      \* the workflow
  phase,      \* where Run is
  remaining,  \* agents Order has not placed
  order,      \* the order agents run in
  next,       \* how many of them have been taken up
  outcome,    \* what became of each agent
  queue,      \* messages to the current agent, not recorded yet
  messages,   \* the messages delivered, in order
  tries,      \* how often the current agent was executed
  cancelled,  \* the run's context
  events,     \* what was reported
  output,     \* the agents whose outputs the run returned
  earlier     \* the bus file when it was opened

orderVars == <<graph, remaining, order>>
agentVars == <<next, outcome, queue, messages, tries>>
vars == <<busVars, phase, orderVars, agentVars, cancelled, events, output, earlier>>

Init ==
  /\ graph \in Graphs
  /\ \E file \in Logs : log = file.log /\ ragged = file.ragged
  /\ earlier = log
  /\ phase = "ordering" /\ remaining = Agents /\ order = <<>>
  /\ next = 0 /\ outcome = [n \in Agents |-> "none"]
  /\ queue = <<>> /\ messages = <<>> /\ tries = 0
  /\ cancelled = FALSE /\ events = <<>> /\ output = {}

-----------------------------------------------------------------------------
(* The dependencies of an agent: depends_on and the routes into it.        *)
Edges(n) == {m \in Agents : <<m, n>> \in graph.depends \cup graph.routes}
Inbound(n) == {m \in Agents : <<m, n>> \in graph.routes}
Sinks == {m \in Agents : \A n \in Agents : <<m, n>> \notin graph.routes}

Ascending(s) == \A i, j \in DOMAIN s : i < j => s[i] < s[j]
Sorted(S) == CHOOSE s \in [1..Cardinality(S) -> S] : Ascending(s)

(* The elements of s that are in S, in their order.                        *)
Among(s, S) ==
  LET places == Sorted({i \in DOMAIN s : s[i] \in S})
  IN  [k \in DOMAIN places |-> s[places[k]]]

Event(kind, n) == [kind |-> kind, agent |-> n]
Emit(e) == events' = Append(events, e)

(* Run returns: the deferred "done" reports whether it failed.             *)
Finish(kind) ==
  /\ phase' = "done"
  /\ events' = Append(events, Event(kind, 0))

-----------------------------------------------------------------------------
(* Broken: an agent is ready when one of its dependencies is placed.       *)
ReadyEarly == {n \in remaining : Edges(n) = {} \/ Edges(n) \ remaining # {}}

(* Order, one pass of its loop at a time.                                  *)
Ready == {n \in remaining : Edges(n) \cap remaining = {}}

OrderLayer ==
  /\ phase = "ordering" /\ Ready # {}
  /\ order' = order \o Sorted(Ready)
  /\ remaining' = remaining \ Ready
  /\ UNCHANGED <<busVars, phase, graph, agentVars, cancelled, events, output, earlier>>

(* A cycle: nothing was reported yet, and nothing is.                      *)
OrderFails ==
  /\ phase = "ordering" /\ remaining # {} /\ Ready = {}
  /\ phase' = "done"
  /\ UNCHANGED <<busVars, orderVars, agentVars, cancelled, events, output, earlier>>

(* restrict: the agents named and, again and again, their dependencies:    *)
(* the least set that holds both.                                          *)
Closed(S) == graph.only \cap Agents \subseteq S /\ \A n \in S : Edges(n) \subseteq S
Wanted == {n \in Agents : \A S \in SUBSET Agents : Closed(S) => n \in S}

StartRun ==
  /\ phase = "ordering" /\ remaining = {}
  /\ graph.only \subseteq Agents
  /\ order' = IF graph.only = {} THEN order ELSE Among(order, Wanted)
  /\ phase' = "next"
  /\ Emit(Event("start", 0))
  /\ UNCHANGED <<busVars, graph, remaining, agentVars, cancelled, output, earlier>>

(* --only names no agent, or the bus cannot be opened.                     *)
StartFails ==
  /\ phase = "ordering" /\ remaining = {}
  /\ phase' = "done"
  /\ UNCHANGED <<busVars, orderVars, agentVars, cancelled, events, output, earlier>>

-----------------------------------------------------------------------------
(* One agent after the other.                                              *)
Current == order[next]

TakeNext ==
  /\ phase = "next" /\ next < Len(order)
  /\ next' = next + 1
  /\ tries' = 0
  /\ phase' = "gather"
  /\ UNCHANGED <<busVars, orderVars, outcome, queue, messages, cancelled, events, output, earlier>>

(* Broken: a route fires whether or not its sender ran.                    *)
CanFireAlways(n) == Inbound(n)

(* The routes into an agent whose senders produced something.              *)
CanFire(n) == {m \in Inbound(n) : outcome[m] = "done"}

(* Each route into the agent is reported, fired or not, in order.          *)
Routes(n, fired) ==
  LET senders == Sorted(Inbound(n))
  IN  [i \in 1..Len(senders) |->
         Event(IF senders[i] \in fired THEN "fired" ELSE "blocked", n)]

(* gather, and the delivery of what it gathered.                           *)
Gather ==
  /\ phase = "gather"
  /\ \E fired \in SUBSET CanFire(Current) :
       /\ fired # {} \/ Inbound(Current) = {}
       /\ queue' = [i \in 1..Cardinality(fired) |-> <<Sorted(fired)[i], Current>>]
       /\ events' = events \o Routes(Current, fired)
  /\ phase' = "deliver"
  /\ UNCHANGED <<busVars, orderVars, next, outcome, messages, tries, cancelled, output, earlier>>

(* No route into the agent fired.                                          *)
Skip ==
  /\ phase = "gather" /\ Inbound(Current) # {}
  /\ outcome' = [outcome EXCEPT ![Current] = "skipped"]
  /\ events' = Append(events \o Routes(Current, {}), Event("skipped", Current))
  /\ phase' = "next"
  /\ UNCHANGED <<busVars, orderVars, next, queue, messages, tries, cancelled, output, earlier>>

(* A condition or a template failed: the run ends.                         *)
GatherFails ==
  /\ phase = "gather" /\ CanFire(Current) # {}
  /\ outcome' = [outcome EXCEPT ![Current] = "failed"]
  /\ phase' = "done"
  /\ events' = Append(events \o Routes(Current, {}), Event("run failed", 0))
  /\ UNCHANGED <<busVars, orderVars, next, queue, messages, tries, cancelled, output, earlier>>

(* Each message is published; one that cannot be is only warned about.     *)
Deliver ==
  /\ phase = "deliver" /\ queue # <<>>
  /\ Publish(Head(queue)) \/ PublishCutShort(Head(queue))
  /\ messages' = Append(messages, Head(queue))
  /\ queue' = Tail(queue)
  /\ UNCHANGED <<phase, orderVars, next, outcome, tries, cancelled, events, output, earlier>>

StartAgent ==
  /\ phase = "deliver" /\ queue = <<>>
  /\ phase' = "try"
  /\ Emit(Event("started", Current))
  /\ UNCHANGED <<busVars, orderVars, agentVars, cancelled, output, earlier>>

(* attempt: the agent is executed; it answers, or there is something left  *)
(* to try.                                                                 *)
AgentDone ==
  /\ phase = "try"
  /\ outcome' = [outcome EXCEPT ![Current] = "done"]
  /\ tries' = tries + 1
  /\ Emit(Event("done", Current))
  /\ phase' = "next"
  /\ UNCHANGED <<busVars, orderVars, next, queue, messages, cancelled, output, earlier>>

(* Broken: one execution too many.                                         *)
AttemptFailsOnceMore ==
  /\ phase = "try" /\ ~cancelled /\ tries <= Restart
  /\ tries' = tries + 1
  /\ phase' = "backoff"
  /\ UNCHANGED <<busVars, orderVars, next, outcome, queue, messages, cancelled, events, output, earlier>>

(* Broken: a failed execution is tried again however often it failed.      *)
AttemptFailsForever ==
  /\ phase = "try" /\ ~cancelled
  /\ tries' = IF tries <= Restart THEN tries + 1 ELSE tries
  /\ phase' = "backoff"
  /\ UNCHANGED <<busVars, orderVars, next, outcome, queue, messages, cancelled, events, output, earlier>>

AttemptFails ==
  /\ phase = "try" /\ ~cancelled /\ tries < Restart
  /\ tries' = tries + 1
  /\ phase' = "backoff"
  /\ UNCHANGED <<busVars, orderVars, next, outcome, queue, messages, cancelled, events, output, earlier>>

(* The wait is over; when the run was cancelled meanwhile, either may win. *)
Retry ==
  /\ phase = "backoff"
  /\ phase' = "try"
  /\ UNCHANGED <<busVars, orderVars, agentVars, cancelled, events, output, earlier>>

(* No try is left, the run is cancelled, or the answer is empty: the agent *)
(* has failed and the run ends.                                            *)
AgentFails ==
  /\ \/ phase = "try" /\ tries' = tries + 1
     \/ phase = "backoff" /\ cancelled /\ UNCHANGED tries
  /\ outcome' = [outcome EXCEPT ![Current] = "failed"]
  /\ phase' = "done"
  /\ events' = events \o <<Event("failed", Current), Event("run failed", 0)>>
  /\ UNCHANGED <<busVars, orderVars, next, queue, messages, cancelled, output, earlier>>

Produced == {n \in Agents : outcome[n] = "done"}

(* Broken: a workflow returns its sinks' outputs, none when all were       *)
(* skipped.                                                                *)
FinalOutputOfSinks == Sinks \cap Produced

(* The sinks' outputs, or every output when no sink ran.                   *)
FinalOutput == IF Sinks \cap Produced # {} THEN Sinks \cap Produced ELSE Produced

EndRun ==
  /\ phase = "next" /\ next = Len(order)
  /\ output' = FinalOutput
  /\ Finish("run ok")
  /\ UNCHANGED <<busVars, orderVars, agentVars, cancelled, earlier>>

Cancel ==
  /\ phase \notin {"done", "killed"} /\ ~cancelled
  /\ cancelled' = TRUE
  /\ UNCHANGED <<busVars, phase, orderVars, agentVars, events, output, earlier>>

(* The process is killed; a record it was writing is cut short.            *)
Killed ==
  /\ phase \notin {"done", "killed"}
  /\ phase' = "killed"
  /\ \/ UNCHANGED busVars
     \/ phase = "deliver" /\ queue # <<>> /\ PublishCutShort(Head(queue))
  /\ UNCHANGED <<orderVars, agentVars, cancelled, events, output, earlier>>

Done == phase \in {"done", "killed"} /\ UNCHANGED vars

Step ==
  \/ OrderLayer \/ OrderFails \/ StartRun \/ StartFails \/ TakeNext
  \/ Gather \/ Skip \/ GatherFails \/ Deliver \/ StartAgent
  \/ AgentDone \/ AttemptFails \/ Retry \/ AgentFails \/ EndRun

Next == Step \/ Cancel \/ Killed \/ Done

Spec == Init /\ [][Next]_vars

(* An execution and a wait end, and the run goes on.                       *)
FairSpec == Spec /\ WF_vars(Step)

-----------------------------------------------------------------------------
Kinds == {"start", "fired", "blocked", "skipped", "started", "done", "failed",
          "run ok", "run failed"}

TypeOK ==
  /\ graph \in Graphs
  /\ log \in Seq(Seq(Entry)) /\ ragged \in BOOLEAN
  /\ phase \in {"ordering", "next", "gather", "deliver", "try", "backoff", "done", "killed"}
  /\ remaining \subseteq Agents /\ order \in Seq(Agents)
  /\ next \in 0..Len(order) /\ tries \in 0..Restart + 1
  /\ outcome \in [Agents -> {"none", "done", "skipped", "failed"}]
  /\ queue \in Seq(Message) /\ messages \in Seq(Message)
  /\ cancelled \in BOOLEAN /\ output \subseteq Agents
  /\ events \in Seq([kind : Kinds, agent : Agents \cup {0}])

TakenUp(n) == \E i \in 1..next : order[i] = n
Reported(e) == \E i \in 1..Len(events) : events[i] = e
Delivered(m, n) == \E i \in 1..Len(messages) : messages[i] = <<m, n>>

(* No agent is taken up before everything it depends on, by depends_on or  *)
(* by a route, has run or was skipped: through Order, and through --only,  *)
(* which would otherwise feed an agent without its upstream.               *)
DependenciesFirst ==
  \A n \in Agents : TakenUp(n) =>
    \A m \in Edges(n) : outcome[m] \in {"done", "skipped"}

(* An agent that something routes into runs only on messages from agents   *)
(* that ran, so a skip propagates down the branch; no message comes from   *)
(* another one.                                                            *)
SkipsPropagate ==
  /\ \A n \in Agents : Inbound(n) # {} /\ Reported(Event("started", n)) =>
       \E m \in Inbound(n) : Delivered(m, n) /\ outcome[m] = "done"
  /\ \A m, n \in Agents : Delivered(m, n) => outcome[m] = "done"

(* Events tell the run as the result does: what became of each agent, an   *)
(* end right after each start, and nothing after a failure (only a failed  *)
(* condition or template is not reported of its agent).  A run that is     *)
(* reported to succeed ran or skipped every agent it ordered, and returns  *)
(* some output, whatever was skipped and whatever --only left out.         *)
EventsTellTheRun ==
  /\ Reported(Event("run ok", 0)) =>
       /\ output # {} /\ output \subseteq Produced
       /\ \A i \in 1..Len(order) : outcome[order[i]] \in {"done", "skipped"}
  /\ \A n \in Agents : outcome[n] \in {"done", "skipped"} <=>
       Reported(Event("done", n)) \/ Reported(Event("skipped", n))
  /\ \A i \in 1..Len(events) - 1 :
       /\ events[i].kind = "started" =>
            events[i + 1] \in {Event("done", events[i].agent), Event("failed", events[i].agent)}
       /\ events[i].kind = "failed" => events[i + 1] = Event("run failed", 0)
  /\ \A n \in Agents : outcome[n] = "failed" => phase = "done"

(* What this run has appended to the bus: to the line it found cut short,  *)
(* and after it.                                                           *)
Found(i) == IF i <= Len(earlier) THEN Len(earlier[i]) ELSE 0
NewRecords == UNION {{i} \X (Found(i) + 1..Len(log[i])) : i \in DOMAIN log}
Before(x, y) == x[1] < y[1] \/ (x[1] = y[1] /\ x[2] < y[2])

(* The bus file is an audit trail: what earlier runs wrote is still there, *)
(* and what this run wrote are messages it delivered, each once and in     *)
(* their order.                                                            *)
AuditTrail ==
  /\ Len(earlier) <= Len(log)
  /\ \A i \in 1..Len(earlier) : IsPrefix(earlier[i], log[i])
  /\ phase # "killed" =>
       \E delivery \in [NewRecords -> DOMAIN messages] :
         /\ \A x \in NewRecords : messages[delivery[x]] = log[x[1]][x[2]].msg
         /\ \A x, y \in NewRecords : Before(x, y) => delivery[x] < delivery[y]

(* A run ends, whatever fails: there is no cycle it could wait on, and no  *)
(* agent is retried for ever.                                              *)
RunEnds == phase = "ordering" ~> phase \in {"done", "killed"}

-----------------------------------------------------------------------------
(* What the documentation says and the code does not do.                   *)

(* A partial write costs one message rather than the log (COMPOSE.md, and  *)
(* the comment on seal): what was written whole can be read.               *)
PartialCostsOne ==
  \A i \in 1..Len(log) : Legible(log[i]) =>
    \E j \in 1..Len(Messages) : Messages[j] = log[i][1].msg
=============================================================================
