------------------------------- MODULE Local -------------------------------
(***************************************************************************)
(* The parts of the program that share no state with one another: the      *)
(* files of the store, detached workflows, the secrets, Studio, conditions,*)
(* workflow files, the choice of a model, evaluations, checkpoints,        *)
(* packages and installations.  Each behaviour is one of one part; the     *)
(* variables of the others keep an initial value.                          *)
(***************************************************************************)
EXTENDS ModelChoice, FiniteSets

CONSTANTS
  None,
  Procs, Adds, Removes, Nobody,                             \* SharedFiles
  Commands, Pids, NoPid,                                    \* Detached
  Agents, Devices, KeyNames, Values, MasterKeys, Passphrases, \* Secrets
  Lifetimes, Grace, MaxTime, MaxOps,
  Pages, PingEvery, CloseGrace, Silence, NeverOpened,       \* Studio
  Conditions, Outputs, Counts, MaxDepth,                    \* Expressions
  Members, Graphs, States, Up,                              \* WorkflowSpec
  Models, Addressed, Sizes, Targets, Outcomes, Bar, MaxClock,          \* Evaluation
  Sessions, Phrases, NoKey, Weights, FrameSize, Other,      \* CheckpointFile
  MaxSaves,
  Homes, Online, Repositories, LocalName, Names, Origins,   \* Packages
  Contents, Plans, Received, MaxChanges, MaxCopies, MaxJobs,
  Installers, Builds, Git, Unzipped, Hosts, InStore,        \* Installation
  MaxMoves, MaxTries

-----------------------------------------------------------------------------
VARIABLES
  part,
  policy, main, temp, inode, pc, view, fd, told, overlaps,
  record, named, procs, verb, at, seen, lost, met,
  secrets, backup, today, ops, log,
  server, page, due, flight, closing, pinged, lastPing, sinceStart, watcher, looked,
  busy, req, phase, gone, child, dones,
  condition, stage, made, result,
  spec, progress, remaining, order, stack, found,
  version, sealed, clock, saved, shown,
  file, pending, stored, damaged, weights, reader, outcome,
  origin, changes, dir, tags, blobs, index, registry, bundle, job, copies, begun,
  box, reference, moves, have, fetched, stopped, keys, unpacked, current, broken,
  installer, tries

filesVars == <<policy, main, temp, inode, pc, view, fd, told, overlaps>>
detachedVars == <<record, named, procs, verb, at, seen, lost, met>>
secretsVars == <<secrets, backup, today, ops, log>>
studioVars == <<server, page, due, flight, closing, pinged, lastPing, sinceStart, watcher,
                looked, busy, req, phase, gone, child, dones>>
exprVars == <<condition, stage, made, result>>
graphVars == <<spec, progress, remaining, order, stack, found>>
evalVars == <<version, sealed, clock, saved, shown>>
checkpointVars == <<file, pending, stored, damaged, weights, reader, outcome>>
packageVars == <<origin, changes, dir, tags, blobs, index, registry, bundle, job, copies, begun>>
installVars == <<box, reference, moves, have, fetched, stopped, keys, unpacked, current, broken,
                 installer, tries>>

OnDisk == INSTANCE SharedFiles
Detached == INSTANCE Detached WITH pc <- at, overlaps <- met
Secrets == INSTANCE Secrets WITH
  Keys <- KeyNames, Everywhere <- None, NoValue <- None, Never <- None, now <- today
Studio == INSTANCE Studio
Expr == INSTANCE Expressions WITH phase <- stage
Graph == INSTANCE WorkflowSpec WITH Agents <- Members, Edges <- Graphs, phase <- progress
Eval == INSTANCE Evaluation WITH NoReport <- None, NoDiff <- None, edition <- version
Checkpoint == INSTANCE CheckpointFile WITH Passphrases <- Phrases, saved <- stored
Packages == INSTANCE Packages WITH Sources <- Origins, weights <- blobs, file <- bundle, started <- begun
Install == INSTANCE Installation WITH
  Archive <- Unzipped, Held <- InStore, Machines <- Hosts, host <- box, cached <- have

ASSUME ChoiceAssumption == ModelChoiceAssumption
ASSUME FilesAssumption == OnDisk!SharedFilesAssumption
ASSUME DetachedAssumption == Detached!DetachedAssumption
ASSUME SecretsAssumption == Secrets!SecretsAssumption
ASSUME StudioAssumption == Studio!StudioAssumption
ASSUME GraphAssumption == Graph!WorkflowSpecAssumption
ASSUME EvalAssumption == Eval!EvaluationAssumption
ASSUME CheckpointAssumption == Checkpoint!CheckpointFileAssumption
ASSUME PackagesAssumption == Packages!PackagesAssumption
ASSUME InstallationAssumption == Install!InstallationAssumption

-----------------------------------------------------------------------------
Parts == {"files", "detached", "secrets", "studio", "expressions", "graph", "choice",
          "evaluation", "checkpoint", "packages", "installation"}

(* The variables of the other parts stand for nothing.                     *)
PartsInit ==
  /\ part \in Parts
  /\ IF part = "files" THEN OnDisk!Init
     ELSE /\ policy = None /\ main = None /\ temp = None /\ inode = None
          /\ pc = None /\ view = None /\ fd = None /\ told = None
          /\ overlaps = None
  /\ IF part = "detached" THEN Detached!Init
     ELSE /\ record = None /\ named = None /\ procs = None /\ verb = None
          /\ at = None /\ seen = None /\ lost = None /\ met = None
  /\ IF part = "secrets" THEN Secrets!Init
     ELSE /\ secrets = None /\ backup = None /\ today = None /\ ops = None
          /\ log = None
  /\ IF part = "studio" THEN Studio!Init
     ELSE /\ server = None /\ page = None /\ due = None /\ flight = None
          /\ closing = None /\ pinged = None /\ lastPing = None
          /\ sinceStart = None /\ watcher = None /\ looked = None /\ busy = None
          /\ req = None /\ phase = None /\ gone = None /\ child = None /\ dones = None
  /\ IF part = "expressions" THEN Expr!Init
     ELSE condition = None /\ stage = None /\ made = None /\ result = None
  /\ IF part = "graph" THEN Graph!Init
     ELSE /\ spec = None /\ progress = None /\ remaining = None /\ order = None
          /\ stack = None /\ found = None
  /\ IF part = "choice" THEN Init
     ELSE /\ machine = None /\ profile = None /\ edition = None /\ suite = None
          /\ built = None /\ files = None /\ truth = None /\ cache = None
          /\ now = None /\ choice = None
  /\ IF part = "evaluation" THEN Eval!Init
     ELSE /\ version = None /\ sealed = None /\ clock = None /\ saved = None
          /\ shown = None
  /\ IF part = "checkpoint" THEN Checkpoint!Init
     ELSE /\ file = None /\ pending = None /\ stored = None /\ damaged = None
          /\ weights = None /\ reader = None /\ outcome = None
  /\ IF part = "packages" THEN Packages!Init
     ELSE /\ origin = None /\ changes = None /\ dir = None /\ tags = None
          /\ blobs = None /\ index = None /\ registry = None /\ bundle = None
          /\ job = None /\ copies = None /\ begun = None
  /\ IF part = "installation" THEN Install!Init
     ELSE /\ box = None /\ reference = None /\ moves = None /\ have = None
          /\ fetched = None /\ stopped = None /\ keys = None /\ unpacked = None
          /\ current = None /\ broken = None /\ installer = None /\ tries = None

Idle1 == UNCHANGED <<filesVars, detachedVars, secretsVars, studioVars>>
Idle2 == UNCHANGED <<exprVars, graphVars, vars, evalVars>>
Idle3 == UNCHANGED <<checkpointVars, packageVars, installVars>>

PartsNext == part' = part /\
  \/ /\ part = "files" /\ OnDisk!Next /\ Idle2 /\ Idle3
     /\ UNCHANGED <<detachedVars, secretsVars, studioVars>>
  \/ /\ part = "detached" /\ Detached!Next /\ Idle2 /\ Idle3
     /\ UNCHANGED <<filesVars, secretsVars, studioVars>>
  \/ /\ part = "secrets" /\ Secrets!Next /\ Idle2 /\ Idle3
     /\ UNCHANGED <<filesVars, detachedVars, studioVars>>
  \/ /\ part = "studio" /\ Studio!Next /\ Idle2 /\ Idle3
     /\ UNCHANGED <<filesVars, detachedVars, secretsVars>>
  \/ /\ part = "expressions" /\ Expr!Next /\ Idle1 /\ Idle3
     /\ UNCHANGED <<graphVars, vars, evalVars>>
  \/ /\ part = "graph" /\ Graph!Next /\ Idle1 /\ Idle3
     /\ UNCHANGED <<exprVars, vars, evalVars>>
  \/ /\ part = "choice" /\ Next /\ Idle1 /\ Idle3
     /\ UNCHANGED <<exprVars, graphVars, evalVars>>
  \/ /\ part = "evaluation" /\ Eval!Next /\ Idle1 /\ Idle3
     /\ UNCHANGED <<exprVars, graphVars, vars>>
  \/ /\ part = "checkpoint" /\ Checkpoint!Next /\ Idle1 /\ Idle2
     /\ UNCHANGED <<packageVars, installVars>>
  \/ /\ part = "packages" /\ Packages!Next /\ Idle1 /\ Idle2
     /\ UNCHANGED <<checkpointVars, installVars>>
  \/ /\ part = "installation" /\ Install!Next /\ Idle1 /\ Idle2
     /\ UNCHANGED <<checkpointVars, packageVars>>

all == <<part, filesVars, detachedVars, secretsVars, studioVars, exprVars, graphVars,
         vars, evalVars, checkpointVars, packageVars, installVars>>
PartsSpec == PartsInit /\ [][PartsNext]_all

-----------------------------------------------------------------------------
(* secrets.json, downloads.json, benchmarks.json, sessions, credentials and*)
(* keys can be read by everyone at every moment, and what a process was    *)
(* told is stored stays, for as long as no operations overlap (save in     *)
(* secrets.go, recordDownload in store.go, SaveCache, session.Save,        *)
(* APIKey).  What the code says of operations that do overlap is           *)
(* AtWorstOneDropped, SavedAtomically and KeyStays.                        *)
FilesHold ==
  part = "files" => OnDisk!TypeOK /\ OnDisk!Legible /\ OnDisk!KeptUntilOverlap

(* `up -d`, `down` and `ls` (compose.go, workflow/session.go): a workflow  *)
(* has one detached run that its record names, until commands overlap,     *)
(* whichever of them fail or are killed and whatever becomes of process    *)
(* ids; but for a run whose `up` could not record it or whose `down` did   *)
(* not wait for it.                                                        *)
DetachedRunsAreFound == part = "detached" => Detached!TypeOK /\ Detached!OneFindableRun

(* What Env gives a run is what the history of Set, Rotate, Remove and     *)
(* Import amounts to, and a backup (Export in secrets.go) is complete.     *)
SecretsAreWhatWasWritten ==
  part = "secrets" =>
    Secrets!TypeOK /\ Secrets!EnvIsWhatWasWritten /\ Secrets!BackupIsComplete

(* Studio (workspace.go, run.go) never expires under a page whose pings    *)
(* come, and does once nobody is there; it runs one thing at a time, and   *)
(* tells a page once how that ended, unless the page stopped it.           *)
EditorOutlivesItsPages ==
  part = "studio" =>
    /\ Studio!TypeOK /\ Studio!NeverUnderAPage /\ Studio!AbandonedExpires
    /\ Studio!OneRunAtATime /\ Studio!ToldOnce

(* Conditions are read by their precedence, and validated ones fail only   *)
(* for what depends on the run (expr.go), which agents were skipped        *)
(* included: what the code says of those is SkippedDoesNotFire.            *)
ConditionsAreUnderstood ==
  part = "expressions" => Expr!ReadAsMeant /\ Expr!ValidatedIsBound /\ Expr!OkGuards

(* Order and describeCycle (graph.go) find an order or a real cycle of the *)
(* file, and Validate (spec.go) keeps its state inside its folder.         *)
WorkflowsAreOrdered ==
  part = "graph" => Graph!AcceptedRuns /\ Graph!ReportedCycleIsReal /\ Graph!StateStaysInside

(* The model Select (automodel.go) chooses rests on evidence about this    *)
(* unit on this machine, stands against the other candidates, and was      *)
(* measured where SelectForModel (engine.go) then runs it.                 *)
ChoiceIsDefensible ==
  part = "choice" => EvidenceIsOfThisUnit /\ DecisionStands /\ MeasuredWhereItRuns

(* A suite that passed has earned it (eval.go, matrix.go).                 *)
EvaluationsAreEarned == part = "evaluation" => Eval!ScoreIsEarned

(* What a target lost since the report it is set against is among the      *)
(* regressions (Regressed and Diff in diff.go).                            *)
ComparisonsShowLosses == part = "evaluation" => Eval!LossesAreShown

(* A checkpoint restores all that was saved or is refused with the reason, *)
(* however it was cut or changed (Save and Load in checkpoint.go).         *)
CheckpointsRestore ==
  part = "checkpoint" =>
    Checkpoint!TypeOK /\ Checkpoint!RestoredIsSaved /\ Checkpoint!RefusedForAReason

(* While its tag stays, a unit runs as one build with the weights that are *)
(* pinned or, for `run --no-daemon`, `eval` and the fleet, sealed in it,   *)
(* and `export --offline` writes what it validated (pack.go, pinned.go,    *)
(* store.go, offline.go).  While its reference stays, `install` fetches    *)
(* what its plan showed, and what it calls complete has been fetched, or   *)
(* was half fetched by another (install.go, runtime.go).  What is promised *)
(* beyond these conditions, and not kept, is in Packages                   *)
(* (OfflineFileIsWhole, ScoreIsOfItsDigest, SealedCandidatesAtHand,        *)
(* SealedWeightsAnswer) and in Installation (OnlyWhatWasShown,             *)
(* ToolsAreFetched, RuntimeIsUnpacked).                                    *)
UnitsArriveWhole ==
  /\ part = "packages" =>
       /\ Packages!OneArtifact /\ Packages!PinsHold /\ Packages!IndexIsBacked
       /\ Packages!SealedRunsAsBuilt /\ Packages!ValidatedIsWhole
  /\ part = "installation" =>
       Install!Consented /\ Install!CurrentIsWhole /\ Install!CompleteIsEarned
=============================================================================
