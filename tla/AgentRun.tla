------------------------------ MODULE AgentRun ------------------------------
(***************************************************************************)
(* `nexus run` on one machine, again and again (src/cmd/nexus/commands.go, *)
(* newRunCmd): a run resolves the unit's model and secrets, brings its MCP *)
(* servers up, continues a session or a checkpoint, and lets the model and *)
(* its tools talk until the model is done (internal/agent); the session is *)
(* saved whatever happened, and what was started is stopped.  Between runs *)
(* the session may be removed or saved to a checkpoint.  A run may be      *)
(* killed at any step: nothing catches the interrupt.                      *)
(*                                                                         *)
(* Names of servers and tools are sequences of parts, so that joining the  *)
(* two is what NameSeparator does to strings.                              *)
(***************************************************************************)
EXTENDS Naturals, FiniteSets, SequencesExt

CONSTANTS
  Units,     \* the units: [script, secrets, servers, allow, tools]
  Jobs,      \* the flags of a run: [persist, restore, trim, ids]
  Offers,    \* what an MCP server may list: sets of tool names
  Calls,     \* what a model may ask for in one turn: sequences of full names
  Earlier,   \* conversations that earlier runs, which failed, left in the session
  Stored,    \* the secrets in the local store
  MaxTurns,  \* --max-turns
  MaxRuns    \* bound: how often the command is run

ASSUME ConstantsAssumption ==
  /\ MaxTurns \in Nat \ {0} /\ MaxRuns \in Nat \ {0}
  /\ Units # {} /\ Jobs # {}
  /\ \A j \in Jobs : j.trim \in Nat

(* The names of a unit's servers are the keys of a map, and so are those   *)
(* its secrets get in the environment (validateSecrets).                   *)
ASSUME UnitsAssumption ==
  \A u \in Units :
    /\ u.servers \in Seq(Range(u.servers)) /\ IsInjective(u.servers)
    /\ u.secrets \in Seq(Range(u.secrets))
    /\ \A j, k \in DOMAIN u.secrets : u.secrets[j].name = u.secrets[k].name => j = k

ServerNames == UNION {Range(u.servers) : u \in Units}

-----------------------------------------------------------------------------
(* Messages and calls.  An id is what the backend gave, what runCall       *)
(* synthesises from the turn and the name, or empty.                       *)
Asked == UNION {Range(names) : names \in Calls}
Ids == {<<>>} \cup (Nat \X Nat) \cup (Nat \X {0} \X Asked)
ToolCall == [id : Ids, name : Asked]
Message == [role : {"user", "assistant", "tool"}, run : Nat, calls : Seq(ToolCall),
            id : Ids, name : Asked \cup {<<>>}]

(* What a conversation keeps whatever happens: it starts with the user,    *)
(* every result stands in the place of its call, right behind the turn     *)
(* that asked, with the id the backend gave or one that was made up; a     *)
(* turn whose calls are not all answered ends its exchange, and is of a    *)
(* run that may leave calls unanswered.                                    *)
Results(m, a) ==
  CHOOSE n \in 0..Len(m) - a :
    /\ \A i \in a + 1..a + n : m[i].role = "tool"
    /\ a + n < Len(m) => m[a + n + 1].role # "tool"

Answers(result, c) ==
  /\ result.name = c.name
  /\ result.id # <<>> /\ (c.id # <<>> => result.id = c.id)

Fits(m, a, runs) ==
  /\ Results(m, a) <= Len(m[a].calls)
  /\ \A k \in 1..Results(m, a) : Answers(m[a + k], m[a].calls[k])
  /\ Results(m, a) < Len(m[a].calls) =>
       /\ a + Results(m, a) < Len(m) => m[a + Results(m, a) + 1].role = "user"
       /\ m[a].run \in runs

Turns(m) == {a \in DOMAIN m : m[a].role # "tool"}
WellFormed(m, runs) ==
  (m # <<>> => m[1].role = "user") /\ \A a \in Turns(m) : Fits(m, a, runs)

ASSUME CallsAssumption ==
  /\ \A names \in Calls : names \in Seq(Asked)
  /\ \A m \in Earlier : m \in Seq(Message) /\ WellFormed(m, {0})

-----------------------------------------------------------------------------
VARIABLES
  here,       \* the store has, or can fetch, the units' weights
  installed,  \* per MCP server, its tree in the cache: "no", "partial", "yes"
  saved,      \* the session's file
  checkpoint, \* the checkpoint's file, which may be cut short
  run,        \* how many runs were started
  unit, job,  \* what the current run runs, and how
  pc,         \* where it is
  env,        \* what its programs get: per secret, a value or a file's name
  files,      \* secrets on disk: [run, base, secret, whole]
  up,         \* processes it started: [run, name]
  tried,      \* how many MCP servers it has dealt with
  clients,    \* the manager's clients, in order
  lists,      \* what each client's server listed
  byTool,     \* the manager's map from full names
  sess,       \* the conversation in memory
  fresh,      \* how many of its last messages this run added
  turn,       \* the turn the model is in
  calls,      \* the calls of that turn not executed yet: [id, name]
  failed,     \* runs that returned an error
  killed      \* runs that were killed

machine == <<here, installed, saved, checkpoint>>
servers == <<tried, clients, lists, byTool>>
talk == <<sess, fresh, turn, calls>>
ends == <<failed, killed>>
vars == <<machine, run, unit, job, pc, env, files, up, servers, talk, ends>>

NoFile == [state |-> "none", messages |-> <<>>, sealed |-> FALSE]
TornFile == [NoFile EXCEPT !.state = "torn"]
File(ms, sealed) == [state |-> "whole", messages |-> ms, sealed |-> sealed]
Empty == [x \in {} |-> x]
AnyUnit == CHOOSE u \in Units : TRUE
AnyJob == CHOOSE j \in Jobs : TRUE

Init ==
  /\ here \in BOOLEAN
  /\ installed \in [ServerNames -> {"no", "yes"}]
  /\ saved \in {NoFile} \cup {File(m, FALSE) : m \in Earlier}
  /\ checkpoint = NoFile
  /\ run = 0 /\ unit = AnyUnit /\ job = AnyJob /\ pc = "idle"
  /\ env = Empty /\ files = {} /\ up = {}
  /\ tried = 0 /\ clients = <<>> /\ lists = Empty /\ byTool = Empty
  /\ sess = <<>> /\ fresh = 0 /\ turn = 0 /\ calls = <<>>
  /\ failed = {0} /\ killed = {}

-----------------------------------------------------------------------------
(* What a turn adds to a conversation.                                     *)
User == [role |-> "user", run |-> run, calls |-> <<>>, id |-> <<>>, name |-> <<>>]
Assistant(cs) == [User EXCEPT !.role = "assistant", !.calls = cs]
ToolResult(i, n) == [User EXCEPT !.role = "tool", !.id = i, !.name = n]

(* runCall synthesises an id from the turn and the name.                   *)
ReplyId(c) == IF c.id = <<>> THEN <<turn, 0, c.name>> ELSE c.id

(* Broken: cuts exactly, in the middle of an exchange if it falls there.   *)
TrimmedExactly(s, n) ==
  IF n = 0 \/ Len(s) <= n THEN s ELSE SubSeq(s, Len(s) - n + 1, Len(s))

(* Trim cuts at the first user turn after what is to go; 0 keeps all.      *)
Trimmed(s, n) ==
  LET starts == {i \in 1..Len(s) : i > Len(s) - n /\ s[i].role = "user"}
      first == CHOOSE i \in starts : \A k \in starts : i <= k
  IN  IF n = 0 \/ Len(s) <= n \/ starts = {} THEN s
      ELSE SubSeq(s, first, Len(s))

-----------------------------------------------------------------------------
(* What the deferred calls undo when the command returns: the manager's    *)
(* clients, the injection's files, the servers of the backends.  Of its    *)
(* files the injection knows those it wrote to the end.                    *)
MgrClosed(procs) == {p \in procs : p.run # run \/ p.name \notin Range(clients)}
Backend == [run |-> run, name |-> <<"llama">>]
Cleared == {f \in files : f.run # run}

Forget ==
  /\ env' = Empty /\ clients' = <<>> /\ lists' = Empty /\ byTool' = Empty
  /\ tried' = 0 /\ turn' = 0 /\ calls' = <<>> /\ sess' = <<>> /\ fresh' = 0
  /\ unit' = AnyUnit /\ job' = AnyJob

Return(procs, error) ==
  /\ pc' = "idle" /\ Forget
  /\ up' = procs \ {Backend}
  /\ failed' = IF error THEN failed \cup {run} ELSE failed
  /\ UNCHANGED <<installed, run, killed>>

Leave(procs, error) == Return(procs, error) /\ files' = Cleared

(* Broken: an early error return closes no server.                         *)
FailsOpen == Leave(up, TRUE) /\ UNCHANGED machine

Fails == Leave(MgrClosed(up), TRUE) /\ UNCHANGED machine

-----------------------------------------------------------------------------
Start ==
  /\ pc = "idle" /\ run < MaxRuns
  /\ run' = run + 1
  /\ unit' \in Units /\ job' \in Jobs
  /\ pc' = "resolve"
  /\ UNCHANGED <<machine, env, files, up, servers, talk, ends>>

(* The model is resolved, and a backend chosen that can carry the run.  A  *)
(* script unit goes without a model it cannot find.                        *)
Resolve ==
  /\ pc = "resolve" /\ (here \/ unit.script)
  /\ pc' = "secrets"
  /\ UNCHANGED <<machine, run, unit, job, env, files, up, servers, talk, ends>>

ResolveFails ==
  /\ pc = "resolve" /\ ~unit.script
  /\ Fails

(* Store.Inject.  Every mounted file goes to one directory of this run,    *)
(* under the base of its declared path.                                    *)
Present == {k \in DOMAIN unit.secrets : unit.secrets[k].name \in Stored}
Mounts == {k \in Present : unit.secrets[k].base # ""}

(* Broken: a secret that is missing never stops a run.                     *)
NoneMissing == FALSE

RequiredMissing == \E k \in DOMAIN unit.secrets \ Present : unit.secrets[k].required

Injected ==
  [n \in {unit.secrets[k].name : k \in Present} |->
     (CHOOSE k \in Present : unit.secrets[k].name = n)]

LastOf(b) == CHOOSE k \in Mounts : /\ unit.secrets[k].base = b
                                   /\ \A j \in Mounts : unit.secrets[j].base = b => j <= k
Written == {[run |-> run, base |-> unit.secrets[k].base,
             secret |-> unit.secrets[LastOf(unit.secrets[k].base)].name,
             whole |-> TRUE] : k \in Mounts}

Inject ==
  /\ pc = "secrets" /\ ~RequiredMissing
  /\ env' = [n \in DOMAIN Injected |-> unit.secrets[Injected[n]].base]
  /\ files' = files \cup Written
  /\ pc' = IF unit.script THEN "script" ELSE "servers"
  /\ UNCHANGED <<machine, run, unit, job, up, servers, talk, ends>>

(* A required secret is missing.                                           *)
InjectRefuses ==
  /\ pc = "secrets" /\ RequiredMissing
  /\ Fails

(* A file cannot be written: Inject removes those it wrote before.  What   *)
(* was written of this one stays, and its directory with it, unless an     *)
(* earlier secret has the same path.                                       *)
Unrecorded(k) ==
  IF \E j \in Mounts : j < k /\ unit.secrets[j].base = unit.secrets[k].base THEN {}
  ELSE {[run |-> run, base |-> unit.secrets[k].base, secret |-> unit.secrets[k].name,
         whole |-> FALSE]}

InjectFails ==
  /\ pc = "secrets" /\ ~RequiredMissing
  /\ \E k \in Mounts : files' \in {Cleared, Cleared \cup Unrecorded(k)}
  /\ Return(MgrClosed(up), TRUE) /\ UNCHANGED machine

(* runner.Run: the script starts, or is refused, and ends well or not.     *)
Script ==
  /\ pc = "script"
  /\ \E error \in BOOLEAN : Leave(MgrClosed(up), error) /\ UNCHANGED machine

-----------------------------------------------------------------------------
(* mcp.Start: one server after the other, in the order of their names.     *)
Server == unit.servers[tried + 1]
Starting == pc = "servers" /\ tried < Len(unit.servers)

(* Source.Install, when the cache has no tree for the source.  npm gets a  *)
(* directory first, and leaves it when it fails.                           *)
Install ==
  /\ Starting /\ installed[Server] = "no"
  /\ installed' = [installed EXCEPT ![Server] = "yes"]
  /\ UNCHANGED <<here, saved, checkpoint, run, unit, job, pc, env, files, up, servers, talk, ends>>

InstallFails ==
  /\ Starting /\ installed[Server] = "no"
  /\ pc' = "abort"
  /\ \E left \in {"no", "partial"} : installed' = [installed EXCEPT ![Server] = left]
  /\ UNCHANGED <<here, saved, checkpoint, run, unit, job, env, files, up, servers, talk, ends>>

(* serverCommand and Connect: the process starts and answers the           *)
(* handshake.  Its tools enter the map; those the unit does not list are   *)
(* left out.                                                               *)
Full(s, t) == s \o t

Chosen(listed) ==
  LET allowed == unit.allow[Server]
  IN  IF allowed = {} THEN listed ELSE listed \cap allowed

Connect ==
  /\ Starting /\ installed[Server] = "yes"
  /\ up' = up \cup {[run |-> run, name |-> Server]}
  /\ clients' = Append(clients, Server)
  /\ \E listed \in Offers :
       /\ lists' = [s \in DOMAIN lists \cup {Server} |->
                      IF s = Server THEN listed ELSE lists[s]]
       /\ byTool' = [f \in DOMAIN byTool \cup {Full(Server, t) : t \in Chosen(listed)} |->
                       IF \E t \in Chosen(listed) : f = Full(Server, t)
                         THEN Server ELSE byTool[f]]
       /\ pc' = IF unit.allow[Server] # {} /\ Chosen(listed) = {} THEN "abort" ELSE pc
  /\ tried' = tried + 1
  /\ UNCHANGED <<machine, run, unit, job, env, files, talk, ends>>

(* Broken: a server that does not come up is fetched again.                *)
ConnectRetried ==
  /\ Starting /\ installed[Server] # "no"
  /\ installed' = [installed EXCEPT ![Server] = "no"]
  /\ UNCHANGED <<here, saved, checkpoint, run, unit, job, pc, env, files, up, servers, talk, ends>>

(* No command, no sandbox helper, or Connect fails: it ends the process it *)
(* started before it returns.                                              *)
ConnectFails ==
  /\ Starting /\ installed[Server] # "no"
  /\ Fails

(* An error of Start: the manager is closed before it returns.             *)
Abort == pc = "abort" /\ Fails

-----------------------------------------------------------------------------
(* openSession, Trim and AddUser, once every server is up.                 *)
History ==
  IF job.restore THEN checkpoint.messages
  ELSE IF job.persist THEN saved.messages ELSE <<>>
Restorable == job.restore => checkpoint.state = "whole"

OpenSession ==
  /\ pc = "servers" /\ tried = Len(unit.servers)
  /\ Restorable
  /\ sess' = Append(Trimmed(History, job.trim), User)
  /\ fresh' = 1 /\ turn' = 1
  /\ pc' = "generate"
  /\ UNCHANGED <<machine, run, unit, job, env, files, up, servers, calls, ends>>

OpenFails ==
  /\ pc = "servers" /\ tried = Len(unit.servers)
  /\ ~Restorable
  /\ Fails

Say(ms) == sess' = sess \o ms /\ fresh' = fresh + Len(ms)

(* Broken: one turn too many.                                              *)
LastTurnLate == turn > MaxTurns

LastTurn == turn >= MaxTurns

(* One turn of agent.Run: the model answers, with calls or without.        *)
Answer ==
  /\ pc = "generate"
  /\ \E names \in Calls :
       LET cs == [k \in DOMAIN names |->
                    [id |-> IF job.ids THEN <<turn, k>> ELSE <<>>, name |-> names[k]]]
       IN  /\ Say(<<Assistant(cs)>>)
           /\ IF cs = <<>> THEN pc' = "save" /\ calls' = <<>> /\ UNCHANGED failed
              ELSE IF LastTurn
                     THEN pc' = "save" /\ calls' = <<>> /\ failed' = failed \cup {run}
                     ELSE pc' = "calls" /\ calls' = cs /\ UNCHANGED failed
  /\ up' = up \cup {Backend}
  /\ UNCHANGED <<machine, run, unit, job, env, files, servers, turn, killed>>

GenerateFails ==
  /\ pc = "generate"
  /\ up' \in {up, up \cup {Backend}}
  /\ pc' = "save"
  /\ failed' = failed \cup {run}
  /\ UNCHANGED <<machine, run, unit, job, env, files, servers, talk, killed>>

(* runCall: the unit's own tools come before the servers'.  A name nobody  *)
(* owns, bad arguments and a tool's own failure are answers too.           *)
Owner(n) ==
  IF n \in unit.tools THEN "script" ELSE IF n \in DOMAIN byTool THEN "mcp" ELSE "nobody"

Call ==
  /\ pc = "calls"
  /\ Say(<<ToolResult(ReplyId(Head(calls)), Head(calls).name)>>)
  /\ calls' = Tail(calls)
  /\ IF Tail(calls) = <<>> THEN pc' = "generate" /\ turn' = turn + 1
                           ELSE UNCHANGED <<pc, turn>>
  /\ UNCHANGED <<machine, run, unit, job, env, files, up, servers, ends>>

(* The tool cannot be run at all: no sandbox, or a dead server.            *)
CallFails ==
  /\ pc = "calls" /\ Owner(Head(calls).name) # "nobody"
  /\ pc' = "save" /\ calls' = <<>>
  /\ failed' = failed \cup {run}
  /\ UNCHANGED <<machine, run, unit, job, env, files, up, servers, sess, fresh, turn, killed>>

(* Broken: saves the turns of this run only.                               *)
TranscriptFresh == SubSeq(sess, Len(sess) - fresh + 1, Len(sess))

Transcript == sess

(* The session is saved, by rename, unless that fails; only a warning      *)
(* tells.                                                                  *)
Save ==
  /\ pc = "save"
  /\ saved' \in IF job.persist THEN {File(Transcript, FALSE), saved} ELSE {saved}
  /\ Leave(MgrClosed(up), FALSE)
  /\ UNCHANGED <<here, checkpoint>>

-----------------------------------------------------------------------------
(* What a tree is that was being fetched when the run stopped.             *)
Interrupted ==
  {installed} \cup
    IF Starting /\ installed[Server] = "no"
      THEN {[installed EXCEPT ![Server] = "partial"]} ELSE {}

(* A wait that never ends: for a download or an installation, for a        *)
(* backend, for a tool whose pipe is full, for a script's output or a      *)
(* server's stderr that a child of theirs holds.  Closing the manager, on  *)
(* whichever return, is such a wait.  The run stays until it is killed,    *)
(* and nothing reads what it has in memory.                                *)
Waits == pc \in {"resolve", "script", "generate", "calls"} \/ Starting \/ clients # <<>>

Hang ==
  /\ pc \notin {"idle", "hung"} /\ Waits
  /\ pc' = "hung" /\ Forget
  /\ installed' \in Interrupted
  /\ saved' \in {saved} \cup
       IF pc = "save" /\ job.persist THEN {File(Transcript, FALSE)} ELSE {}
  /\ up' \in {up} \cup IF pc = "generate" THEN {up \cup {Backend}} ELSE {}
  /\ UNCHANGED <<here, checkpoint, run, files, ends>>

(* Ctrl-C, or worse: what the run started and wrote stays as it is, a tree *)
(* it was fetching included.                                               *)
Kill ==
  /\ pc # "idle"
  /\ pc' = "idle" /\ Forget /\ killed' = killed \cup {run}
  /\ installed' \in Interrupted
  /\ UNCHANGED <<here, saved, checkpoint, run, files, up, failed>>

(* `nexus session remove`.                                                 *)
RemoveSession ==
  /\ pc = "idle" /\ saved # NoFile
  /\ saved' = NoFile
  /\ UNCHANGED <<here, installed, checkpoint, run, unit, job, pc, env, files, up,
                 servers, talk, ends>>

(* `nexus checkpoint save -o`: the file is truncated and written in place; *)
(* --seal needs the weights.                                               *)
SaveCheckpoint ==
  /\ pc = "idle" /\ saved # NoFile
  /\ \E sealed \in BOOLEAN :
       /\ sealed => here
       /\ checkpoint' \in {File(saved.messages, sealed), TornFile}
  /\ UNCHANGED <<here, installed, saved, run, unit, job, pc, env, files, up,
                 servers, talk, ends>>

(* The machine loses its way to the weights, or the checkpoint is carried  *)
(* to one that never had it.                                               *)
GoOffline ==
  /\ pc = "idle" /\ here
  /\ here' = FALSE
  /\ UNCHANGED <<installed, saved, checkpoint, run, unit, job, pc, env, files, up,
                 servers, talk, ends>>

-----------------------------------------------------------------------------
Step ==
  \/ Resolve \/ ResolveFails
  \/ Inject \/ InjectRefuses \/ InjectFails \/ Script
  \/ Install \/ InstallFails \/ Connect \/ ConnectFails \/ Abort
  \/ OpenSession \/ OpenFails
  \/ Answer \/ GenerateFails \/ Call \/ CallFails \/ Save

Next == Start \/ Step \/ Hang \/ Kill \/ RemoveSession \/ SaveCheckpoint \/ GoOffline

Spec == Init /\ [][Next]_vars

(* A wait that ends at all, ends: Hang is the other case.                  *)
FairSpec == Spec /\ WF_vars(Step)
-----------------------------------------------------------------------------
Conversations == {sess, saved.messages, checkpoint.messages}

(* Every variable keeps its type.                                          *)
TypeOK ==
  /\ here \in BOOLEAN /\ installed \in [ServerNames -> {"no", "partial", "yes"}]
  /\ saved.state \in {"none", "whole"} /\ checkpoint.state \in {"none", "torn", "whole"}
  /\ Conversations \subseteq Seq(Message)
  /\ run \in 0..MaxRuns /\ unit \in Units /\ job \in Jobs
  /\ pc \in {"idle", "resolve", "secrets", "script", "servers", "abort",
             "generate", "calls", "save", "hung"}
  /\ tried \in 0..Len(unit.servers) /\ clients \in Seq(ServerNames)
  /\ DOMAIN lists = Range(clients)
  /\ turn \in 0..MaxTurns /\ fresh \in 0..Len(sess) /\ calls \in Seq(ToolCall)
  /\ failed \subseteq 0..run /\ killed \subseteq 1..run

(* In memory, in the session and in the checkpoint, whatever failed runs,  *)
(* restored checkpoints and trims leave, a result is never severed from    *)
(* its call (session.go:213), never stands without an id                   *)
(* (agent_test.go:131) and never under another id than the one the backend *)
(* gave; and only the last turn of a run that failed, or of one that is in *)
(* the middle of its calls, has left calls unanswered.  That a backend     *)
(* takes such a conversation is not said: see ResumesComplete.             *)
MayLeaveOpen == failed \cup (IF pc = "calls" THEN {run} ELSE {})

ConversationsWhole == \A m \in Conversations : WellFormed(m, MayLeaveOpen)

(* "Tool exchanges are kept whole", both parts in the transcript, "so a    *)
(* resumed conversation is one a backend will accept"                      *)
(* (docs/CHECKPOINT.md:40): what a model is sent has every call answered.  *)
(* The code saves the transcript of a run that failed between the two.     *)
ResumesComplete ==
  pc = "generate" => \A a \in Turns(sess) : Results(sess, a) = Len(sess[a].calls)

(* "A call ID is how a result is matched to its request" (agent.go:168):   *)
(* of the calls of the turn exactly one has the result's id.  The id that  *)
(* is made up is not written into the call, and two calls of one tool get  *)
(* the same.                                                               *)
MatchedById ==
  \A m \in Conversations : \A a \in Turns(m) : \A k \in 1..Results(m, a) :
    Cardinality({j \in DOMAIN m[a].calls : m[a].calls[j].id = m[a + k].id}) = 1

(* The file of a session only ever grows by the exchange of the run that   *)
(* saved it, and loses at its start what --trim drops, whole exchanges:    *)
(* whether the run ended well, failed, or continued a checkpoint           *)
(* (commands.go:525).                                                      *)
Continues(new, old) ==
  \E k \in 0..Len(old) :
    LET kept == SubSeq(old, k + 1, Len(old))
    IN  /\ k > 0 => kept # <<>> /\ kept[1].role = "user" /\ Len(kept) <= job.trim
        /\ Len(new) > Len(kept) /\ IsPrefix(kept, new)
        /\ new[Len(kept) + 1].role = "user"
        /\ \A i \in Len(kept) + 1..Len(new) : new[i].run = run

HistoryKept ==
  [][saved' \notin {saved, NoFile} => Continues(saved'.messages, History)]_vars

(* A run that returns, by whichever of its exits, leaves no server of its  *)
(* own running and no secret on disk that it wrote to the end; only a      *)
(* killed one does.  What a run leaves of a file it could not write is one *)
(* file at most.                                                           *)
NothingLeft ==
  pc = "idle" =>
    /\ \A x \in up \cup files : x.run \notin killed => x \in files /\ ~x.whole
    /\ \A x, y \in files : x.run = y.run /\ x.run \notin killed => x = y

(* "The file is removed when the run ends" (docs/SECRETS.md:80).  Inject   *)
(* returns from a write that failed without having noted the path.         *)
SecretsRemoved == pc = "idle" => \A f \in files : f.run \in killed

(* Whatever a run starts has every secret it requires, and a variable that *)
(* names a file names one that is there and holds that secret, unless two  *)
(* secrets were given one base name.                                       *)
SecretsReady ==
  pc \in {"script", "servers", "abort", "generate", "calls"} =>
    \A k \in DOMAIN unit.secrets :
      LET s == unit.secrets[k]
      IN  /\ s.required => s.name \in DOMAIN env
          /\ s.name \in DOMAIN env /\ env[s.name] # "" =>
               \/ [run |-> run, base |-> s.base, secret |-> s.name,
                    whole |-> TRUE] \in files
               \/ \E j \in DOMAIN unit.secrets : j > k /\ unit.secrets[j].base = s.base

(* The map sends every tool the unit allows to the server that listed it,  *)
(* and nothing else, unless the names of two servers and their tools join  *)
(* to one.                                                                 *)
Offered(s) == IF unit.allow[s] = {} THEN lists[s] ELSE lists[s] \cap unit.allow[s]

ToolsReachTheirServer ==
  /\ \A f \in DOMAIN byTool : \E t \in Offered(byTool[f]) : f = Full(byTool[f], t)
  /\ \A s \in Range(clients) : \A t \in Offered(s) :
       /\ Full(s, t) \in DOMAIN byTool
       /\ \/ byTool[Full(s, t)] = s
          \/ \E other \in Range(clients) \ {s} :
               \E u \in Offered(other) : Full(other, u) = Full(s, t)

(* A run works with the secrets and the tools its unit asks for.           *)
Equipped == SecretsReady /\ ToolsReachTheirServer

(* Every run comes to its end or to a wait that has none: no return is     *)
(* missing, nothing is tried again and again, and the model is cut off     *)
(* after MaxTurns.                                                         *)
RunEnds == pc # "idle" ~> pc \in {"idle", "hung"}
=============================================================================
