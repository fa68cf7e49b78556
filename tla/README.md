# nexusrun in TLA+

TLA+ models of the parts of nexusrun whose correctness depends on *order*: what a
crash, a lost reply, a concurrent request, a timeout or a cancelled context can
do between two lines of Go; and the algorithms (an expression parser, a graph
order, a selection by measurement) whose cases are too many for a test table.
Each model is checked with TLC on a small instance; most of the safety properties
so checked are also proved with TLAPS for every value of the constants.
`PROJECT.json` lists the components, the runs, which source lines each definition
stands for, the theorems, and the hazards the properties are aimed at.

nexusrun packages small language-model agents as *units* (a model, prompts,
acceptance tests), runs them with a local inference engine, composes them into
workflows, and deploys them to fleets of machines. It has no database and no
consensus: its hard parts are files replaced by rename, child processes, pipes,
mutexes and an HTTP control plane that is not always there.

- [The system](#the-system): components, state, interactions, what makes them correct
- [The modules](#the-modules): how each corresponds to the code
- [The runs](#the-runs): what each checks, bounds, fairness
- [The proofs](#the-proofs)
- [Where code and documentation disagree](#where-code-and-documentation-disagree)
- [What is not modelled](#what-is-not-modelled)
- [Plan](#plan)

## The system

Paths are below `src/internal/` unless they start with `src/`.

| Component | Code | State it keeps | Operations | Correct when | Module |
|---|---|---|---|---|---|
| fleet sync | `fleet/sync.go`, `state.go`, `attest.go`, `client.go`, `lock_*.go` | `state.json`: active and previous release, the report owed with its signed statement, the last error code | `Sync`, run by `sync` and polled by `watch` and `serve`; a rollback is a release the control plane publishes | a host runs only what passed here and was authorised *after* it passed; no decision is lost; it tells only what is on disk | `FleetSync`, `FleetGate` |
| fleet endpoint | `fleet/serve.go`, `native.go` | the open agent, the mutex, the testing flag | `Prepare`, `load`, `chat`, `models`, `Close`, the polling loop | a candidate is tested alone; nobody is answered by a stale or closed agent; nothing blocks for ever | `FleetEndpoint` |
| warm servers | `engine/llamaserver.go`, used by `daemon/daemon.go` | a table from (model, device, templating) to a llama-server process; the processes; their ports | `acquire`, `waitReady`, `Generate`, `IsWarm`, `EvictIdle`, `Shutdown` | a run is answered by its own model; killed servers are forgotten; no server is lost track of | `WarmPool` |
| MCP client | `mcp/client.go` | pending requests by id, answer channels, two pipes, a child process | `call`, `readLoop`, `Close` | an answer reaches its own call; the reader never blocks; every call returns, and so does `Close` unless what the server started stays | `McpClient` |
| workflow run | `workflow/graph.go`, `run.go`, `events.go` | the order of agents, what became of each, messages, events | `Order`, `restrict`, `Run`, `gather`, `attempt`, `finalOutput` | dependencies first; skips propagate; success has output; events tell the run | `WorkflowRun` |
| workflow bus | `workflow/bus.go` | an append-only file of records | `Publish`, `Messages` | an audit trail: nothing written is lost or reordered | `StateBus` |
| workflow file | `workflow/spec.go`, `graph.go`, `expr.go` | none | `Validate`, `Order`, `describeCycle`, `CheckCondition`, `Eval` | an accepted file has an order, a reported cycle is one, a validated condition fails only for what a run brings | `WorkflowSpec`, `Expressions` |
| workflow sessions | `workflow/session.go`, `src/cmd/nexus/compose.go` | a JSON record per detached run | `up -d`, `down`, `ls` | a workflow has one detached run, and it can be found | `Detached` |
| agent run | `src/cmd/nexus/commands.go`, `agent/agent.go`, `mcp/manager.go`, `session/session.go` | the conversation in memory and in the session's file, MCP servers, secret files | resolve, inject, start servers, generate, call tools, save, clean up | a saved conversation is well formed and only grows; a run has what its unit asks for and leaves nothing behind | `AgentRun` |
| secrets | `secrets/secrets.go`, `inject.go` | `secrets.json` sealed with `master.key` | `Set`, `Rotate`, `Remove`, `Import`, `Export`, `Env` | a run gets what was last written for it | `Secrets` |
| shared files | `secrets`, `store`, `session`, `bench/cache.go`, `credentials`, `fleet/serve.go`, `workflow/session.go` | eight small files without a lock | load, change, replace | legible at every moment; what was reported as stored stays | `SharedFiles` |
| unit packing, store | `unit/*.go`, `store/store.go` | a directory, OCI tags, blobs, `downloads.json`, `.nx` files | build, seal, push, pull, export, import, validate; the reads of run, eval, serve, fleet | one command sees one build; pins and seals hold | `Packages` |
| install | `install/install.go`, `runtimeinstall/runtime.go`, `mcp/resolve.go` | a runtime's directory and `current.json`, models, tools, secrets | plan, approve, `Apply` | only what was approved is fetched; what is called installed is whole | `Installation` |
| checkpoint | `checkpoint/checkpoint.go`, `src/cmd/nexus/checkpoint.go` | one file, plain or encrypted | `Save`, `Inspect`, `Load` | what is restored is what was saved | `CheckpointFile` |
| model choice | `engine/engine.go`, `automodel/automodel.go`, `bench/*.go` | `benchmarks.json` | `Probe`, `SelectForModel`, `Select`, the cache | the choice rests on evidence of this unit on this machine, and runs where it was measured | `ModelChoice` |
| eval | `eval/*.go` | saved reports | repeats, cases, targets, report, matrix, diff | a pass was earned; a comparison shows what was lost | `Evaluation` |
| studio | `studio/workspace.go`, `run.go` | the page's liveness, one run slot, a child process | ping, close, start, cancel, the watcher | at most one run; never stops under a page; stops when nobody is there | `Studio` |
| the rest | `bundle/`, `compose/`, `manifest/`, `login/`, `server/`, `sandbox/`, `hardware/`, `modelscan/`, `usage/` | small or none | parse, validate, route, confine, print | see [below](#what-is-not-modelled) | |

### How they interact

    control plane <--HTTP-- fleet sync --Prepare--> fleet endpoint <--HTTP-- clients
                               |                        |
                          state.json               agent (native.go) --> warm servers
                                                        |
    nexus compose --> workflow run --> agent loop --> MCP manager --> MCP client --pipes--> server
       | up -d            |                 |
    records, pids     state bus          session, checkpoint, secret files
    nexus run, eval, serve --> store --tags, blobs--> unit packing <-- push, pull, export, import
         |                       ^
    model choice --> engine      +-- nexus install: runtime, models, tools, secrets
         |
    benchmarks.json
    nexus daemon --> Pool.Run --> warm servers --processes, ports--> llama-server

- **Calls with a lock held.** The endpoint's one mutex covers generations, tests
  and closing. The MCP client's mutex covers a write that may block. The server
  table's mutex covers a lookup or an insertion but never the start between them.
- **Shared files.** Every store is a file read whole, changed in memory and
  replaced by rename. Only fleet sync takes a lock for the whole of that.
- **Messages.** A check-in may be processed although its reply is lost. An MCP
  server may answer late, twice, in any order or never.
- **Processes.** llama-servers and MCP servers are children that can exit at any
  time; some outlive their parent.

### What is hard

Crash and lost-reply recovery in fleet sync; contention between tests, requests
and shutdown in the endpoint; the unlocked window in `acquire` and ports handed
out twice; late and repeated answers and full pipes in the MCP client; skips,
retries and cancellation in a workflow, and a bus file cut short; the many exits
of `nexus run`; files replaced by several processes through one temporary name;
process ids that come back; tags that move between two reads; a page that reloads
while its server counts down; measurements that outlive what they measured. The 40
hazards of `PROJECT.json` name each at its line, with the properties that cover it.

## The modules

| Module | Models | Kind |
|---|---|---|
| `FleetGate` | what a host promises about the release it runs | abstract specification |
| `FleetSync` | `syncLocked`, a host's state file, check-ins | implements `FleetGate` |
| `FleetEndpoint` | `nexus fleet serve` | specification |
| `WarmPool` | llama-servers, the daemon around them | specification |
| `McpClient` | a connection to an MCP server | specification |
| `StateBus` | the bus file, as state and operators | extended by `WorkflowRun` |
| `WorkflowRun` | one run of a workflow, composed with its bus | specification |
| `AgentRun` | `nexus run`, again and again, composed with its servers, session, checkpoint and secrets | specification |
| `SharedFiles` | the files of the store that processes replace without a lock | specification |
| `Detached` | `up -d`, `down`, `ls` | specification |
| `Secrets` | the commands on the secret store, and `Env` | specification |
| `Studio` | the editor's server, its pages and its one run | specification |
| `Expressions` | conditions: tokens, parser, check, evaluation | operators and a specification around them |
| `WorkflowSpec` | `Validate`, `Order`, `describeCycle` | specification |
| `ModelChoice` | `Probe`, `SelectForModel`, `Select`, the cache | specification |
| `Evaluation` | `nexus eval` from a repeat to the exit status | specification |
| `CheckpointFile` | a checkpoint's file, piece by piece | specification |
| `Packages` | units from a directory to a run | specification |
| `Installation` | `nexus install` | specification |
| `Local` | the eleven parts that work alone, side by side | composition |
| `Claims` | the parts of `Local` and `AgentRun`, one after the other, each to where a sentence about it is false | composition |
| `FleetSyncProofs`, `FleetEndpointProofs`, `WarmPoolProofs`, `McpClientProofs`, `WorkflowRunProofs`, `AgentRunProofs`, `LocalProofs` | | theorems about the module they are named after |
| `LocalDataProofs` | | theorems about the parts of `Local` that are about data: secrets, checkpoints, evaluations, workflow files, the choice of a model |
| `MC...` | constants, bounds and symmetry for TLC | instances |

Two conventions hold in all of them. A definition introduced by a comment
beginning with *Broken:* is a plausible bug, never part of the specification; it
documents what breaks a property (each property has one, listed under `mutants`).
The properties at the end of a module that quote a comment, a document or a test are
sentences the code does not keep. They are put to the test in five runs that expect a
violation; the theorems and the passing runs state beside them what is kept.

### FleetGate and FleetSync

`FleetGate` has four variables: the active and previous candidate, the set whose
newest test passed, and the set authorised since. Its actions are a passed test, a
failed test, a grant and a promotion.

`FleetSync` is `syncLocked` with a program counter `pc` at each place where it
talks to the network or the disk. `state` is the file; `s` is the copy the sync
works on; `reply`, `r`, `out` are its locals; `cancelled` is `ctx.Err() # nil`.

| `pc` | Code | Actions |
|---|---|---|
| `idle` | no process holds the lock | `Start` |
| `checkin`, `recheck` | `client.Checkin`, the retry without the report after a 409 | `FirstReply`, `Conflict`, `CheckinFails` |
| `clear` | the delivered report is cleared and saved; is there something to test? | `ClearThenDecide` |
| `prepare` | `prepare`, the verdict, `attest`, `SaveState` | `Prepare` |
| `reportRejected` | the rejection is sent | `RejectionHeard`, `CheckinFails` |
| `authorize` | the check-in after the test | `Authorize`, `CheckinFails` |
| `activate` | pointer and report move in one save | `Activate`, `ActivateCancelled` |
| `reportActive` | the activation is sent | `ActivationHeard`, `CheckinFails` |
| `clearAndReturn` | the last save | `ClearAndReturn` |

Every save may fail before or after the rename (`SaveFailed`), every check-in may
be processed although it failed (`CheckinFails`), and `Cancel` and `Crash` are
possible wherever a sync is under way. The lock is the program counter: one sync
at a time, released by the operating system when the process dies. `sent`,
`unreported`, `passed` and `granted` are history: they record what happened and
guard nothing.

Abstracted: a candidate's artifact stands for its digest and runtime, a channel
for channel and repository, an outcome for the whole of a suite run. What a
signature binds is kept (`Statement` names the candidate and repeats the
evaluation), its cryptography is not. The control plane is unconstrained: any
answer the wire format allows may come at any time.

### FleetEndpoint

One process `loop` (poll, test, decide, wait, drain, close, exit), any number of
handlers, one mutex `mu`. The flag is raised before the mutex is taken and lowered
after it is released, in the order of `Endpoint.Prepare`. `loaded` is the open agent
and `process` whether its model server runs. `load` reads the active release
afresh on every request, so a handler is a sequence: flag, mutex, load, generate,
answer. Shutdown waits five seconds for handlers and then closes with them still
running, as `Serve` does. Decisions of the sync are summarised in `Decide`:
`FleetSync` has the detail.

### WarmPool

A server is the number of the start it came from. The table `instances` is what
the code locks; `process`, `key` and `port` are what the machine knows. A request
goes through `IsWarm`, lookup, `freePort`, `Start`, `waitReady`, insertion and
post, with the table unlocked between lookup and insertion. `alive` is true of
everything in the table, because `cmd.ProcessState` is filled in only by
`cmd.Wait`, which nothing calls. A port may be given out twice; the second server
exits, and `waitReady` believes whoever answers. Keys are why that is harmless:
a server refuses a request with another's API key (`Accepts`).

### McpClient

Callers, the reader goroutine, the server and `Close` over two bounded pipes.
`mu` is held across a write only, the one critical section that can block; the
others are single steps guarded by `Free`. A request's number names its answer
channel, so `OwnAnswer` can say that an answer is the one to this very call. The
server may read or not, answer what it has read once or twice, in any order, and
exit. It may have started a process of its own that holds its standard error: the kill
in `Close` does not reach that one (`server.child`), and `cmd.Wait`, which copies the
standard error and has no `WaitDelay`, returns only when it ends (`CloseReturns`).

### StateBus and WorkflowRun

`StateBus` is the bus file at the grain at which it can be torn: lines, each the
records that landed on it, whole or cut short. `WorkflowRun` `EXTENDS` it.
Agents are numbers in alphabetical order, which is the order `Order` breaks ties
by. `OrderLayer` is one pass of the loop in `Order`; `Wanted` is `restrict`;
`Gather`, `Skip` and `GatherFails` are the three ways `gather` ends; `AgentDone`,
`AttemptFails`, `Retry` and `AgentFails` are `attempt`. What a condition or
template yields is a choice at the moment it is evaluated. `Killed` may cut a
record short.

### AgentRun

`nexus run` from `Start` to `idle`, run after run on one session. `pc` is the place in
`newRunCmd`: resolve the model, write secret files, run a script or bring the
servers up one by one, generate and call tools up to `MaxTurns`, save, clean up. A
message is [role, run, calls, id, name]: who said it in which run, what it asks for
and which request it answers. Names of tools and servers are sequences of parts, so
that `a` with `b__c` and `a__b` with `c` can meet, as strings joined with
`NameSeparator` do. `Fails` is the exit of every step that can fail; `InjectFails` that
of a secret file which could not be written: `Inject` has not noted its path, so what
was written of it stays, with its directory. `Hang` is a wait that never ends (for a
download, a backend, a tool whose pipe is full, a script's output that a child holds, and
the manager's `Close`); `Kill` is an interrupt, which nothing catches; between runs the session may be removed or saved
to a checkpoint (which may be cut short), and the machine may go offline.
`Trimmed` is `session.Trim`; `LastTurn` the limit; `InstallFails` may leave the directory
npm was to fill. `up` and `files` are tagged with the run that made them.

### SharedFiles

Eight files differ in four ways, a `Policy`: replaced through a temporary name that
processes share, through a name of their own, or in place; a file that does not
parse is an error or an empty file; written once or again and again; read before it
is written or not. An inode has entries and is empty, torn or whole; `main` and `temp`
name inodes, so that two processes with one temporary name write one inode, and a
rename takes away what another is still writing. Each process does one operation,
and may be killed, or fail to write, anywhere. `Race` is the same without kills and failed
writes: what the comments say of operations that overlap is judged there.

### Detached

The record (none, cut while it is written, whole), process ids that are nobody's, a
run's, a stopping run's or another program's, and the three commands step by step:
`Load`, `Ask` (is the process alive?), `Spawn`, `Truncate`, `Write`, `Stop`, `Remove` (after
at most five seconds, whether the run has ended or not). Each may fail or be killed where
it stands (`Fails`, `Kill`): `SaveSession` after the run was started, which leaves a run
without a record, or the signal, which leaves the record. `lost` are the runs left so, and
those whose `down` did not wait for their end. `Reuse` gives an id to another program.

### Secrets

Commands as atomic steps (what happens when they overlap is in `SharedFiles`) over
scopes of agent, device and key, with two master keys, a clock and a backup. The
ghost `log` is what was written, in order; `Meant` says what it amounts to without
looking at the store, and is what `Env` is compared with.

### Studio

Pages send pings and a closing beacon; requests are in `flight` until they are
handled, in any order. Time is kept as ages that stop at the limits that matter.
The watcher looks at the ages (`Look`), then at the slot (`CheckSlot`), then has the server
stopped (`Stop`), and pages and runs go on in between; `looked` are the pages it had heard
from when it looked. `AskRun`, `Claim`, the child process and `WindsUp` are a run in the one
slot `busy`; `gone` are the pages whose request has ended, because they left or because
Stop was pressed (`StopButton`), and such a page is told nothing more.

### Expressions and WorkflowSpec

`Expressions` parses a sequence of tokens by recursive descent (one operator per rule,
which calls the others through the function `p` from rule and position), checks and
evaluates it; `Words` writes a tree with the parentheses
its precedence asks for, and is the reference the parser is compared with.
`WorkflowSpec` refuses what `Validate` refuses, places agents as `Order` does, all that
are ready at a time, and walks as `describeCycle` does with its stack, so that "a cycle" is checked
for every graph and every start.

### ModelChoice

Machines hold backends and accelerators; `Probe` says what each can drive,
`SelectForModel` picks among the backends `run` chooses from: those that call tools if
the unit has tools or servers, those that hold a conversation with `--session` or
`--restore`, else all (`RunBackends`), or the one of `--backend`; the requirements of the
profile do not come into it. The targets of an evaluation are built as `eval`
builds them, `Select` goes through the candidates, with the cache, `--refresh`,
`--device` and a time limit. The unit is edited, built, moved to another machine and
its weights change in between. Ghost fields of a cached entry say which edition it
measured and where: `Lookup` does not see them, the property does.

### Evaluation

Repeats of a case, cases of a target, targets of a model, the report and the name it
is saved under (a clock of seconds), the matrix over models, the comparison with a
saved report, the exit status. Outcomes of repeats are inputs. A report has the digest
of its weights if they were resolved from an address (`Addressed`); a file of this
machine, or weights that come out of the package, leave it empty, and `Diff` then does
not compare weights.

### CheckpointFile

A sequence of pieces: cells of a compressed archive, or a magic number, a salt and
frames of `FrameSize` cells. A save writes one piece at a time over the file it
replaces and may stop; the file may be cut, put together from two, or changed;
older builds wrote another magic number. A reader takes one piece at a time and
extracts in place. Passphrases are names, and a frame opens with its own.

### Packages

An artifact is its own digest: what it holds is what it is. Tags move; origins change
what they serve; directories are edited. `run`, `eval`, `serve` and a fleet read the
tag for the manifest, for the digest and for the files in steps of their own, in the
order each does; `build` reads manifest and tree; `export --offline` resolves the tag,
unpacks it under the name again, validates, and resolves it once more to write the file
(`ReadManifest`, `Unpack`, `Validate`, `ExportFile`). `moved` is a ghost: the tag (or the
tree) changed since the command's first read.

### Installation

`Inspect` shows a plan, `Apply` takes the approval and decides again what to do. The
archive is entries, each a file or a link; a file is created, then written; a link
fails if it is there. Tools come by git (cleaned up on failure) or npm (not). The
machine has a runtime or can be offered one, and room for the models or not.
`took`, `open`, `stopped`, `broken` and `moved` are ghosts that say what was fetched,
what the plan showed, and what was broken off.

## The runs

| Run | Instance | States | Asks |
|---|---|---|---|
| `fleet_sync` | 2 release ids, 2 artifacts, 2 channels, 5 offers, 4 outcomes | 207,450 | does a host keep its promises under crashes, lost replies, failed writes and any control plane? |
| `fleet_endpoint` | 2 handlers, 2 releases | 53,635 | do handlers, tests and shutdown share one mutex correctly? |
| `warm_pool` | 2 requests, 2 keys, 2 ports, 3 servers, symmetric | 2.1 million | is the server table consistent with the processes? |
| `mcp_client` | 2 callers, 2 calls, pipes of 2 and 1 | 68,793 | do answers reach their calls, and does everything end? |
| `workflow_run` | all routings of 3 agents, at most one `depends_on`, `--only` absent, unknown or one agent, one retry, two bus files | 305,460 | is every run ordered, fed, retried, reported and recorded as documented? |
| `agent_run` | 3 units (script, tools, plain), 4 sets of flags, 2 runs of 2 turns, 2 servers | 202,056 | does a run keep its conversation, have what it needs and clean up, wherever it stops? |
| `local` | eleven parts, below | 1,540,676 | does each part that works alone keep what its comments say? |
| `fleet_endpoint_turned_away`, `warm_pool_claims`, `mcp_client_blocked`, `workflow_run_torn` | as above, or smaller | | is a sentence kept? See [below](#where-code-and-documentation-disagree) |
| `claims` | the parts of `local` and `agent_run`, smaller | | is one of 21 sentences about them kept? |

### fleet_sync

- `PendingHoldsTogether`: the report, its signed statement and the active pointer never
  come apart, whatever fails between them.
- `PassClaimsAreTested`: nothing is called passing that was not tested here in full;
  an empty suite does not pass.
- `DecisionsNotLost`, `EventuallyReported`: a decision stays on disk until the
  control plane took or refused it, and it eventually does.
- `OnlyDurableTold`: the control plane never hears of anything a crash could undo.
- `GateSpec`: `FleetSync` implements `FleetGate`; so the host runs what passed its newest
  test and was authorised after that test (`ActiveIsGated`, proved for every instance).

*Bounds.* Two ids and two artifacts let the control plane republish an id with
another artifact, the case the second authorisation is there for; a paused offer
and one of another channel are what `Wanted` and `StillAuthorized` refuse; an
outcome passes, fails, is empty or does not verify. Three candidates suffice for
active, previous and candidate under test to differ. Nothing is counted, so the
state space is finite without a bound on time.

*Fairness.* Weak on `Start` and `Step`: `watch` and `serve` poll in a loop and a sync
has a deadline. Strong on `FirstReply`: the control plane is reachable again and
again, without which no report could be delivered. Nothing is assumed of crashes,
cancellation or write errors: they may happen for ever.

### fleet_endpoint

- `TestedAlone`: no agent is open and no model server runs while a candidate is
  tested, whatever was in flight when the test began.
- `CurrentAnswerHeld`: a request is answered by a release at least as new as the one
  active when it arrived, with an agent that is not closed or replaced underneath
  it by a test, another handler or `Close`.
- `NobodyWaitsForEver`: no waiter starves and the flag comes down.

*Bounds.* Two handlers contend with each other and with the loop; two releases after
an initial one give a switch during a request and another after it.

*Fairness.* Goroutines are scheduled and generations and tests end (a token limit
and the HTTP client's 30 minutes, `opts.Timeout`): weak fairness on the loop and each handler. `sync.Mutex` hands
over to a waiter after 1 ms of starvation: strong fairness on the three actions
that take it.

### warm_pool

- `OwnModelAnswers`: although ports are reused and dead servers stay in the table, a
  run is answered by a server of its own model, device and templating.
- `OnlyDuplicatesEscape`: the *only* way a running server is lost track of is that
  two were started for one key. It fences in the second defect of `warm_pool_claims`.

*Bounds.* Two requests for one key give the duplicate start; two ports and three
servers give a port handed out again to a server of another key, and to one of the
same. Requests, keys and ports are symmetric: all properties are invariants and
none tells them apart.

### mcp_client

- `OwnAnswer`: late, repeated, reordered answers reach their call or nobody.
- `ReaderServesAll`: no answer blocks or panics the reader, and when the output ends
  no earlier call is left to its timeout.
- `NobodyHangs`: every call returns; `Close` returns and the process is gone, unless a
  process that the server started holds its standard error for ever: then `Close` waits
  as long (`[]server.child`).

*Bounds.* Two calls are the least at which one answer can reach the other's call.
The output pipe holds one answer, so the server blocks on it. The input pipe
holds every request of the instance: `NobodyHangs` is a statement about a pipe
with room, and `mcp_client_blocked` is the same question of one without.

*Fairness.* Weak, on the client's own goroutines and on `Close`. None on the server.

### workflow_run

- `DependenciesFirst`: through ordering and through `--only`.
- `SkipsPropagate`: what depends on a skipped agent alone is skipped, and a skipped
  agent feeds nobody.
- `EventsTellTheRun`: what Studio draws agrees with what happened, in order; a
  successful run returns something, whatever was skipped.
- `AuditTrail`: the file keeps what earlier runs wrote and holds what this run
  delivered, in order, minus what could not be written.
- `RunEnds`: cycles are refused, retries are finite.

*Bounds.* Three agents are the least with a branch and a join, a skip that
propagates, and a cycle not through the whole graph. All 64 routings are tried
with each `depends_on` and `--only`. The second bus file ends in a torn record.

*Fairness.* Weak on the run's own steps: an execution and a backoff end.

### agent_run

- `ConversationsWhole`: in memory, in the session's file and in a checkpoint, a
  conversation starts with the user, every result stands behind the turn that asked, in
  the place of its call, never without an id and never under another id than the backend
  gave, and only the last turn of a run that failed, or is in its calls, has calls left
  unanswered; after turn limits, failing tools, `--trim`, restores and kills. That a
  backend accepts such a conversation is what `ResumesComplete` and `MatchedById` say, and
  it is refuted in `claims`.
- `HistoryKept`: a session's file grows by the exchange of the run that saved it and
  loses what `--trim` drops, whole exchanges, and nothing else.
- `NothingLeft`: a run that returns, by whichever of its exits, leaves no server
  running and no secret on disk, but for the file of one it could not write to its end
  (`SecretsRemoved`, refuted in `claims`). A *killed* one leaves everything.
- `Equipped`: what runs has every required secret under the name its environment
  gives, and reaches every tool its unit allows at the server that listed it. The
  property names the two exceptions it found: two secrets mounted under one base
  name, and names that join to the same string.
- `RunEnds`: a run comes to its end, or to a wait that has none: no exit is missing and
  the turn limit holds through every failure.

*Bounds.* Two runs are the least in which one meets what another left. Two turns are
the least with a turn after tool results. Two calls of one tool without ids in one
turn give equal synthesised ids. `Earlier` starts the session with a failed run, for
`--trim` to cut into.

*Fairness.* Weak on `Step`, which says only that a wait that ends at all, ends. That a
wait ends is not assumed: no deadline bounds a write to a full pipe (`mcp/client.go:223`,
see `mcp_client_blocked`), the manager's `Close` (`mcp/client.go:344-351`) or a script whose
child holds its output (`agent/script.go:160-176`), and `Hang` is that case at every place
where a run waits. Nothing of kills and failures.

### local

Eleven parts share no state, so each behaviour of `Local` is a behaviour of one of
them, chosen by `part`; the variables of the others keep the value `None`. The reachable
states are the sum of the parts', not their product. A property says what its part
keeps and is a conjunction of the named properties of the module.

| Property | Part | States that |
|---|---|---|
| `FilesHold` | `SharedFiles` | a file can be read at every moment, and what was reported as stored stays, *unless* operations overlapped on a shared temporary name or an in-place write was cut short (`Legible`, `KeptUntilOverlap`); a file with a temporary name of each writer's own is always legible. What the comments promise of overlaps is in `claims` |
| `DetachedRunsAreFound` | `Detached` | until two commands overlap, whichever fail or are killed and whatever becomes of process ids, there is one detached run, and the record names it once `up` has reported it; but for runs in `lost`: those an `up` could not record, and those a `down` did not wait for (`OneFindableRun`) |
| `SecretsAreWhatWasWritten` | `Secrets` | `Env` gives what the history of commands amounts to (`EnvIsWhatWasWritten`); a backup holds all its agent's scopes held, and nothing of another's (`BackupIsComplete`) |
| `EditorOutlivesItsPages` | `Studio` | the watcher never finds its time expired under a page whose pings arrived (`NeverUnderAPage`), does once nobody is there (`AbandonedExpires`); one run at a time, no child without a handler (`OneRunAtATime`); a page that stays and did not press Stop hears once that its run is done (`ToldOnce`). A page that comes while the watcher goes from its look to the stop loses its server (`StopsOnceClosed`, in `claims`) |
| `ConditionsAreUnderstood` | `Expressions` | the parser reads what precedence means (`ReadAsMeant`); a validated condition fails only for a comparison without order, of which what a skipped agent said is one, or a pattern that does not compile (`ValidatedIsBound`); `a.ok and ...` guards everything about `a` (`OkGuards`). That a route about a skipped agent does not fire (`SkippedDoesNotFire`) is refuted in `claims` |
| `WorkflowsAreOrdered` | `WorkflowSpec` | an accepted graph has an order in which each agent comes once and after all it needs, a source and a sink (`AcceptedRuns`); a reported cycle is one of the file (`ReportedCycleIsReal`); the state file stays in the folder (`StateStaysInside`) |
| `ChoiceIsDefensible` | `ModelChoice` | cached evidence is of this machine, fresh, and of this build if both have a digest (`EvidenceIsOfThisUnit`); the winner fits and nobody that fits beats it (`DecisionStands`); a suite that was just measured was measured on the engine and device that run it, but for the cases the property lists (`MeasuredWhereItRuns`). What the documents say of the others is in `claims` (`EvidenceIsOfThisEdition`, `MeasuredOnItsDevice`) |
| `EvaluationsAreEarned` | `Evaluation` | who passes the bar passed every repeat of that share of cases, and the cheapest is as good as the best (`ScoreIsEarned`) |
| `ComparisonsShowLosses` | `Evaluation` | a target that passes fewer cases than in the saved report has a case among the regressions, whether it fails, is flaky, or no longer runs (`LossesAreShown`) |
| `CheckpointsRestore` | `CheckpointFile` | what is restored or inspected is all that was saved, of an encrypted file whatever happened to it, of a plain one if it was only cut (`RestoredIsSaved`); an intact one restores, and a wrong key is told apart from none (`RefusedForAReason`) |
| `UnitsArriveWhole` | `Packages`, `Installation` | a command uses one artifact unless the tag moved, a fleet always (`OneArtifact`); pins hold, and seals for `run --no-daemon`, `eval` and the fleet of a unit with one model (`PinsHold`, `SealedRunsAsBuilt`); the index promises what is there (`IndexIsBacked`); a validated offline file lacks nothing unless the tag moved (`ValidatedIsWhole`); `install` fetches what was approved unless its reference moved (`Consented`), `current.json` names an unpacked runtime but for entries that are being written over or broke off (`CurrentIsWhole`), and "completed" is true up to tools that were half fetched (`CompleteIsEarned`). The sentences about the excepted cases are in `claims` |

*Bounds* (in `Local.cfg` and `MCLocal`). Three processes, two that add and one that removes, over
eight policies: the least in which a rename meets two writers. Three commands and two
process ids, so that an id is used again while a third command looks. Three writes of
two agents' secrets under two master keys and one tick of the clock: a rotation, its
grace and an expiry. Two pages, for one to close while the other stays. Conditions of
two operators over literals, references, calls and mistakes (wrong fields, unknown
agents and functions). Graphs of three agents with up to three dependencies and two
routes, a loop and a name that is nobody's. Three machines: llama.cpp with an NPU,
Ollama with onnxruntime, Ollama alone; two candidates, three profiles, runs with and
without a session and with `--backend`. Two cases on
two targets, up to three repeats, two editions, three seconds. A checkpoint saved
twice, with two cells of weights and frames of three cells. Two homes, one of them
offline, one repository, one edit or change at the origin, two commands at a time.
Two installers with two tries, an archive of file, link, file, and one move of the tag.

*Fairness.* None: these properties are invariants. That an abandoned editor stops is
stated without it (`AbandonedExpires`): once time can change nothing any more, the
watcher's condition holds, and its ticker looks at it every second.

## The proofs

Proved with TLAPS for every value of the constants that satisfies the named
assumptions of the module (TLC evaluates them on the run's instance):

| Theorem | Says |
|---|---|
| `FleetSyncProofs!TypeCorrect` | types |
| `FleetSyncProofs!DecisionsSafe`, `PendingTogether` | no decision is lost; report, statement and pointer are of one decision (`DecisionsNotLost`, `PendingHoldsTogether`) |
| `FleetSyncProofs!ClaimsTrue` | what is claimed as passing was tested; report and pointer agree |
| `FleetSyncProofs!ActiveGated` | the active release passed and was authorised after it |
| `FleetSyncProofs!OnlyDurable` | the control plane is told only what is on disk |
| `FleetSyncProofs!ImplementsGate` | `FleetSync` implements `FleetGate` |
| `FleetEndpointProofs!TypeCorrect`, `TestsAlone`, `AnswersCurrent` | types; a candidate is tested alone; agents are held and current (`CurrentAnswerHeld`) |
| `WarmPoolProofs!TypeCorrect`, `AnswersOwn`, `NeverHandsOutKilled` | types; a run is answered by its own model; killed servers are forgotten |
| `WarmPoolProofs!EscapesAreDuplicates` | only a duplicate start loses a server (`OnlyDuplicatesEscape`) |
| `McpClientProofs!TypeCorrect`, `AnswersOwn`, `ReaderServes` | types; answers reach their call; the reader serves everyone (`OwnAnswer`, `ReaderServesAll`) |
| `WorkflowRunProofs!TypeCorrect`, `UpstreamFirst`, `NothingFromNothing` | types; dependencies first; skips propagate (`DependenciesFirst`, `SkipsPropagate`) |
| `WorkflowRunProofs!EventsTrue`, `AuditTrailKept` | the events tell the run; the bus keeps what was written (`EventsTellTheRun`, `AuditTrail`) |
| `AgentRunProofs!TypeCorrect`, `LeavesNothing`, `RunsEquipped` | types; no process and no secret file is left behind, but for one that could not be written; a run has what it needs (`NothingLeft`, `Equipped`) |
| `AgentRunProofs!HistorySafe`, `AlwaysWhole` | a session only grows, less what is trimmed; conversations keep results behind their calls (`HistoryKept`, an action property; `ConversationsWhole`) |
| `LocalProofs!FilesSafe`, `DetachedFindable`, `EditorStays` | `FilesHold`, `DetachedRunsAreFound`, `EditorOutlivesItsPages` |
| `LocalProofs!UnitsWhole` | a unit arrives whole while its tag and reference stay, with the exceptions above (`UnitsArriveWhole`) |
| `LocalDataProofs!SecretsKept` | `Env` gives what the commands amount to; a backup is complete (`SecretsAreWhatWasWritten`) |
| `LocalDataProofs!CheckpointsKept` | what is restored is all that was saved; an intact file is refused for its key alone (`CheckpointsRestore`) |
| `LocalDataProofs!EvaluationsKept` | a suite that passed has earned it (`EvaluationsAreEarned`) |
| `LocalDataProofs!WorkflowsOrdered` | an order or a real cycle is found; the state stays in its folder (`WorkflowsAreOrdered`) |
| `LocalDataProofs!ChoiceStands` | a choice rests on evidence from this machine, of this build where digests tell; no other candidate beats it; and it runs where it was measured, but for the cases above (`ChoiceIsDefensible`) |

*FleetSync.* None of the properties is inductive: each depends on what the sync
holds in memory at its program counter. `IInv` adds `Local`, seven facts about
program points: memory equals disk whenever a sync runs (`MemoryIsDisk`); there is
an answer to act on (`AnswerKept`) and a candidate in hand that is not the active
one (`CandidateKept`); a candidate past its test passed it (`PassKept`) and past its
authorisation was granted (`GrantKept`); nothing is owed at the points where the
report has just been cleared or refused (`OwedElsewhere`); and the report is gone
when a test begins (`ClearedBeforeTest`). It adds `GrantsFollowPasses`. `DiskStep`
then reduces every step to one of four things it can do to the disk (keep it,
clear the report, decide, activate), and each property is preserved by each of
the four. `ImplementsGate` maps the steps of `FleetSync` to those of `FleetGate` under the
same invariant: a decision is `Pass` or `Fail`, authorisation is `Grant`, activation is
`Promote`, and everything else stutters.

*FleetEndpoint.* `IInv` says who holds the mutex: the loop exactly while it tests, a
handler exactly at its points after `Acquire` (`MutexHeld`). With it, whatever a
holder established stays true until it lets go, whoever else moves
(`HolderMove`, `QuietMove`). `CandidateNewer` and `SinceSeen` make `active` grow.

*WarmPool.* `IInv` says that the table and every request name servers that were
started for their own key (`TableKeyed`, `RunKeyed`), and that a server still
loading belongs to one request and no table entry (`LoadingAlone`): so the server
`NeverReady` kills is in nobody's hands. `KilledForgotten` and `OwnModelAnswers` follow.
`EscapeStep` goes through every way a server can leave the table or a request: an
insertion over another is a duplicate, and every other way kills it.

*McpClient.* An id that a table entry, the reader's hand or an answer channel holds is
in one place only: `EntriesOwn` (an entry waits for its own call, which has nothing
yet), `HandsOver` (the call the reader answers is off the table) and `NobodyLost` (who
waits is in the table, being answered, or was). `NothingBehind` then says of an ended
output that no earlier id is in the table, whence `ReaderServesAll`.

*WorkflowRun.* `InOrder` says that `order` names every agent once and after its
dependencies; that `--only` keeps it is about the *places* its agents have in the order
(`Among`), which are the ascending listing of a set. A finite set of naturals has
such a listing (`HasAscending`) and any set of them a least element (`HasLeast`). The
library's induction takes an operator as its parameter; its well-foundedness of `<`
on the naturals does not, and gives the least number for which something would fail.
`Settled`
says that those taken up have run or were skipped but for the current one, `Upstream`
that messages come along routes from agents that ran, `Told` that the last event
waits for the next exactly while the agent runs, `Trail` that the file is the earlier
one, line by line a prefix, with delivered messages in order behind it.

*AgentRun.* `Base` says what a run holds at each program point (no server before
`servers`, no conversation before `generate`) and `OfThisRun` that what is up or on
disk belongs to a killed run or to this one. Every exit closes what this one has
(`Blank`) and leaves one part-written file at most (`OverLeaves`), so `NothingLeft` follows;
a run that waits for ever (`hung`) ends only by being killed. For `Equipped`, secrets and servers are dealt
with one after another, and the invariant says it of those dealt with so far. `Goes` is
the history: the conversation extends the one it was given. `Whole` is the interplay
of three conversations and a turn in progress: results stand behind their call, calls
left open are exactly those still to execute (`AsksAt`), and a cut in front of a user
turn (`TrimmedIs`) cannot separate them.

*Local, files and processes.* A step of the whole is a step of the part that runs (`StepOfPart`), so each
part has its own inductive invariant. *Detached*: until commands
overlap, what runs and is not lost is what the record names or what a command under way
is about to write to it, and a command knows it (`Known`). *Studio*: an open page
whose pings arrive keeps every age the watcher looks at below its limit (`Heeded`), and
the run slot is held by one handler, which alone may have a child (`Slot`); pages that are
away have ended their requests, which is why only those that stay are told.
*SharedFiles*: a process that has opened a file of its own is alone with it, one with
the shared name is while nothing overlapped (`Private`, `Shared`, `InPlace`); and an entry
that was told to be stored is in the file and in what every later writer read, or
something happened that cannot be taken back (`Stays`, `Lost`: a finished removal, an
overlap, an interrupted write in place). *Packages*: `JobOK` says what a command has read
and fetched by its step. What it read is the artifact the tag still names, unless the
tag moved under it (`ReadOnce`); what it has got, followed by what it has left to fetch,
is the models block of that artifact in order and by its pins (`Fetched`, `Aligned`); and
a sealed model was there before anything was fetched (`Sealed`). A step of one command
disturbs another's only by moving its tag, which the other's `moved` remembers. Units
that came from elsewhere are assumed to be what `Build` writes: sealed, they have a layer
for every entry, of its pin (`Made`). *Installation*: what others do to the home only
fills it, but for a clone git removes, which `stopped` remembers (`Fuller`), so what an
installer knows stays true (`OthersSee`): what it may take was open in its plan
(`Approved`), the entries of the archive behind it are there (`Passed`), what its review
found is there (`Reviewed`), and what is there in part is being fetched or was stopped
(`HalfDone`). The archive is assumed to have an entry.

*Local, data.* *Secrets*: every entry is what the last write to its scope made of it
(`HeldAsWritten`, `MadeBy`), and every scope whose last write is no removal has one
(`WrittenIsHeld`); so `Env`, which looks at the entries, and `Meant`, which looks at the
log, agree (`GivenIsMeant`). Only the last write and, of a rotation, the one before
matter, so no induction over the log is needed. *CheckpointFile*: a frame says its
place and holds the cells of the archive that belong there, and only a cut or changed
one says nothing (`PieceIs`); a reader holds a stretch of the archive, from the cell it
takes next to the end of the last frame it opened, and what it took is the archive up
to there (`Follows`). Frames that were swapped, dropped or of another save fail to open,
since their place and key are in what is authenticated (`PieceRead`). That the frames
are the archive needs one fact about them, that frame `i` begins at cell
`i * FrameSize` (`FramesAre`). *Evaluation*: each function between the repeats and the
exit status is related to the share of cases all of whose repeats passed: a target
(`TargetIs`), a report (`ReportIs`), a matrix and its cheapest row (`CheapestIs`). The
*WorkflowSpec*: what remains is what is not in the order, and what is placed has all it
needs before it (`Placed`); where nothing is ready, each that remains waits for another
that remains (`Decided`), so the walk goes on (`OnwardsIs`); it visits no agent twice and
each after one that waits for it (`Walked`), so the place where it closes begins a cycle
(`GraphCloses`). For the path, `Clean` and `Height` are recursive functions, which
exist for every length (`CleanRuns`, `HeightRuns`), and after every part what is kept is
one `..` for each level above the start followed by the levels below it (`Agree`): a
path that goes above begins with `..` when it is cleaned, which `Validate` refuses.
*ModelChoice*: every entry of the cache, and every measured row, is evidence of its
edition on its machine whose numbers can be shares (`Evidence`), and what a row says
follows from its verdict (`RowOK`, `Judged`). The criteria make an order in which of any
three, if one is ahead of another, the third is behind the one or ahead of the other
(`AheadOrders`); so of finitely many one leads (`Foremost`), `Pick` is defined, and no other
is ahead of it. Shares are compared as numbers of `Scale`-ths, and so as the fractions
they are (`Compare`). A list of targets has one best (`BestThere`, `BestAlone`); the targets
of an evaluation and of a run that take paths stand at the same places with the same
devices (`Covers`, `BestMatch`), no named backend is preferred to them (`FirstLeads`), and
where there are none both come down to the store's own backend (`OnlyNamed`). Assumed is
that the numbers of cases divide `Scale`, that no case passes of none, and that
preferences are of the three device classes (`ModelChoiceAssumption`).

*Model-checked only.*

- Liveness (`EventuallyReported`, `NobodyWaitsForEver`, `NobodyHangs`, both `RunEnds`): out
  of the prover's reach.
- `ComparisonsShowLosses`, and every sentence of `claims`: the latter are false.
- `ConditionsAreUnderstood`: what the parser, a function of rules and positions that
  calls itself, reads of every condition is an induction over trees.

## Where code and documentation disagree

Five runs refute sentences of the repository. A run that is about several has one
behaviour in which each of them is false in turn: its property says that at least one
is kept. `PROJECT.json` has every finding with its lines.

1. **`fleet_endpoint_turned_away`.** *"requests turned away until it finishes"*
   (`fleet/serve.go:103`). A handler that passed the flag just before a test raised it
   waits on the mutex for the whole test, and is answered after it.
2. **`warm_pool_claims`.** *"acquire returns a ready server for the model, reusing a
   running one"* (`engine/llamaserver.go:299`; `ReusesRunning`): `alive` looks at a field
   nothing fills in, so a crashed server stays in the table, every request to it fails,
   and each failure renews its `lastUsed`. *"Shutdown stops every running server"*
   (`engine/llamaserver.go:416`; `StopsEveryServer`): two requests that both miss start two
   servers, and the second insertion forgets the first. The run keeps a set of the
   sentences no step has refuted.
3. **`mcp_client_blocked`.** *"DefaultTimeout bounds a single request"*
   (`mcp/client.go:36`). A write to a full pipe, with the mutex held, is not bounded by
   anything.
4. **`workflow_run_torn`.** *"a partial write costs one message rather than the log"*
   (`src/docs/COMPOSE.md:254`). Reading fails at the first record that does not parse, and
   the next append joins the torn line.
5. **`claims`.** `Claims` goes through the table below from top to bottom. The part a
   sentence is about begins at its initial state and takes its own steps until the
   sentence is false (`Refute`); then its variables are forgotten and the next part
   begins. What is explored is the sum of the parts, one after the other.

| Sentence | Said in | What happens |
|---|---|---|
| `AtWorstOneDropped` | `store/store.go:397` | two processes write one temporary file; an index that does not parse reads as empty, so all entries are gone |
| `SavedAtomically` | `session/session.go:122`, `bench/cache.go:146` | one process truncates what the other is about to rename |
| `KeyStays` | `fleet/serve.go:38` | two first starts find no API key; the one that was given out first is replaced |
| `FoundAgain` | `src/cmd/nexus/compose.go:408` | `SaveSession` fails after the run was started: nothing finds it, and the next `up -d` starts another |
| `PrunesTheExited` | `src/docs/COMPOSE.md:284` | `ls` asks about the process of one record and removes, by name, that of a run started since |
| `ListsWhatRuns` | `src/docs/COMPOSE.md:285` | the process id of a finished run is another program's by now |
| `StopsOnceClosed` | `studio/studio.go:78` | a page reloads between the look at the ages and the stop |
| `SkippedDoesNotFire` | `workflow/expr.go:128`, `expr_test.go:84` | `skipped.tokens > 5` fails the run, `skipped.output == ""` fires |
| `EvidenceIsOfThisEdition` | `src/docs/AUTOMODEL.md:146`, `bench/cache.go:185` | a measurement made without a digest, of a directory, matches every build |
| `MeasuredOnItsDevice` | `src/cmd/nexus/commands.go:308` | `tool_calling: required` in a unit without tools: measured among backends that call tools, run on any |
| `DifferentWeightsAreSaid` | `src/docs/EVAL.md:233`, `eval/diff.go:45` | a unit's own weights from a file have no digest, and are compared with a report of `--model` |
| `OfflineFileIsWhole` | `src/docs/REFERENCE.md:248` | the tag moves between `ValidateOffline` and `ExportFile` |
| `ScoreIsOfItsDigest` | `eval/eval.go:30` | the tag moves between the three reads of `eval` |
| `SealedCandidatesAtHand` | `unit/pack.go:125`, `src/docs/REFERENCE.md:731` | candidates are resolved by their sources, not from what was unpacked: offline there are none |
| `SealedWeightsAnswer` | `src/docs/REFERENCE.md:29` | the daemon and workflows never unpack a sealed unit |
| `OnlyWhatWasShown` | `server/server.go:135`, `src/docs/REFERENCE.md:51` | `Apply` loads a reference that has moved since the plan |
| `ToolsAreFetched` | `mcp/resolve.go:178` | npm failed in a directory that was made for it, which then counts as fetched |
| `RuntimeIsUnpacked` | `src/cmd/nexus/install.go:22` | an unpacking over an installed runtime was broken off |
| `SecretsRemoved` | `src/docs/SECRETS.md:80` | the secret file that could not be written is not among those removed |
| `MatchedById` | `agent/agent.go:168` | the id is made up after the call was recorded without one, and two calls of one tool get the same |
| `ResumesComplete` | `src/docs/CHECKPOINT.md:40` | the turn limit, or a failing tool, leaves calls unanswered in the transcript that is saved |

### Observed

What the models made visible and no sentence of the repository we know of rules out;
some of it is an exception a property above has to name.

- *Endpoint.* A handler that gets the mutex after `Close` opens the release again
  (`fleet/serve.go:420`) and starts a model server, which outlives the process.
  `readPrivate` refuses files over 1 MB that `writePrivate` wrote (`fleet/state.go:53`).
- *Daemon.* `IsWarm` is asked before `acquire` (`daemon/daemon.go:118`), so warm and cold
  starts are miscounted; run ids have a resolution of a second, like evaluation reports.
- *MCP client.* `Close` waits without limit for a process the server started and left
  with its standard error; the kill reaches the direct child alone (`mcp/client.go:344-351`;
  `src/docs/MCP.md:86` says "then kill if needed", and that is done).
- *Agent run.* An interrupt leaves secret files and servers behind. Two secrets with one
  mount name overwrite each other. Server names may contain `__`, so two tools can have
  one full name. Restoring a checkpoint with `--session` overwrites that session; a sealed
  checkpoint still resolves the model from the store, and `res.SealedModel` is unused.
- *Install.* An unpacking that stopped makes every later one fail at the first link
  (`runtimeinstall/runtime.go:255`). Models are fetched even when memory is known to be too
  small.
- *Detached.* `down` may signal another program after its id was reused, and forgets a
  run that takes more than five seconds; two `up -d` lose the first one's record.
- *Secrets.* `Rotate` keeps the old expiry; an expired secret of a device hides a valid
  one for all; a second rotation within the grace drops the value before it; `Import`
  drops previous values.
- *Studio.* The orderly end of a run holds only for `compose up`; SIGTERM leaves the
  child and its private input file. The pings of a hidden tab are throttled by its browser.
- *Workflow files.* An agent may be called `always`, `never` or `input`.
- *Model choice.* With libonnxruntime and no llama.cpp, an `ollama:` model is measured on
  Ollama and run on onnxruntime, where it fails. `--device` is refused for a backend
  that chooses its own, after it was measured there. The cache key has no device.
- *Evaluation.* A target that is only in the earlier report counts as a regression.
- *Checkpoint.* A save truncates the file it replaces. The checksum of a plain one is
  never read to, damaged memory or context is dropped silently, and weights are
  extracted in place. `checkpoint list <session>` hides what it cannot read.
- *Packages.* `localRefFor` drops registry and namespace, so two repositories can share a
  tag. The pin of a local or `ollama:` source is not checked; a relative one is resolved
  against the working directory by `run` and the unit's by `install`. A script unit whose
  model cannot be resolved runs with an empty path.

Two sentences are not kept, but are outside what is modelled: `src/docs/CHECKPOINT.md:105-106`
says a sealed checkpoint brings its weights along, and `src/docs/SECRETS.md:80-81` that
mounted secret files are granted to a sandbox, which is so for script units alone.

## What is not modelled

- *Bundle, compose file, manifest, usage, hardware and modelscan*: one pass over their
  input, without state another step could meet; unit tests reach them as well.
- *Presentation and transport*: flag parsing, output, HTTP routing, archive members and
  the OCI wire format, browser login (one request after another), `runtimepkg` (packs a
  runtime for an offline export).
- *Kernel confinement* (`sandbox/`, `runner/`): it is what the system calls do, not an
  order of steps of this code; that a script runs, fails or cannot be confined is in
  `AgentRun`.
- *Cryptography*: a signature binds what it names, a sealed record opens with its
  key; nothing about the algorithms. `Record.Verify` in the fleet is a function of a
  signature and is left out with them.
- *What a model answers*, and so whether a suite ought to pass: an outcome is a choice.
  Timing a backend and estimating memory are choices for the same reason.
- *Fleet enrolment and the file checks* of `lock_*.go` and `state.go`: enrolment runs once,
  under the lock; whether a host has a key is part of `FleetSync`'s initial states.
- *Run records of the daemon and listings*: written once, read by people.
- *The memory bus* never fails, and a workflow on it is `StateBus` without
  `PublishCutShort`.
- *Text of templates and prompts*: what a template puts together is a choice in
  `WorkflowRun`.

## Plan

Every part of the system whose order matters is modelled, and every safety property
but two is proved. What is left is `ConditionsAreUnderstood`, of which `OkGuards` needs no
more than the evaluation of two operators, and `ComparisonsShowLosses`, which needs what
`Passes` counts of the cases of two targets.
