------------------------------ MODULE Packages ------------------------------
(***************************************************************************)
(* Units on their way from a directory to a run: packed into the local OCI *)
(* store under a tag, pushed, pulled, exported and imported, and run with  *)
(* weights that are sealed in them or fetched from their origin.           *)
(*                                                                         *)
(* An artifact is its own digest: the OCI stores and the blob store are    *)
(* content-addressed, so that two artifacts or two files of weights with   *)
(* one digest are one.  A tag is a name that moves.  Every command reads   *)
(* the tag anew for the manifest, for the digest and for the files, and    *)
(* other commands and the editor go on meanwhile.  index.json and          *)
(* downloads.json are changed in one step here; what two commands that     *)
(* write one of them together do to it is in SharedFiles.                  *)
(***************************************************************************)
EXTENDS Naturals, Sequences, Functions

CONSTANTS
  Homes,        \* NexusRun homes, one per machine
  Online,       \* those that reach the registry and the origins
  Repositories, \* host/org/name:tag
  LocalName,    \* the tag localRefFor gives each of them
  Names,        \* local tags, name:version
  Sources,      \* hf: and https: sources of weights
  Contents,     \* files of weights, named by their digests
  Plans,        \* models blocks: [auto, entries, complete]
  Received,     \* artifacts from elsewhere, in a .nx file or a registry
  MaxChanges,   \* bounds the edits of the directory and changes at the origins
  MaxCopies,    \* bounds pushes, pulls, exports and imports
  MaxJobs,      \* bounds the commands started, to build or to run
  None

(* A models block: one model, or a choice among candidates.  What a build  *)
(* makes of it: sealed, it has a layer for every entry, of its pin.        *)
Entry == [source : Sources, pin : Contents \cup {None}]
Block == {p \in [auto : BOOLEAN, entries : Seq(Entry), complete : BOOLEAN] :
            p.auto \/ Len(p.entries) = 1}
Package == [name : Names, edition : Nat, plan : Block, tree : Nat, sealed : BOOLEAN,
            layers : Seq(Contents)]
Follows(layers, entries) ==
  /\ Len(layers) = Len(entries)
  /\ \A i \in DOMAIN layers : entries[i].pin \in {None, layers[i]}
Made == {a \in Package : a.sealed => Follows(a.layers, a.plan.entries)}

PackagesAssumption ==
  /\ Online \subseteq Homes
  /\ LocalName \in [Repositories -> Names]
  /\ Plans \subseteq Block /\ Received \subseteq Made

Jobs == 1..MaxJobs

VARIABLES
  origin,    \* what each source serves today
  changes,   \* edits and changes at the origins
  dir,       \* the directory of the unit that is being written
  tags,      \* the index of each home's OCI store
  weights,   \* each home's blob store
  index,     \* downloads.json
  registry,  \* tags of the registries
  file,      \* a .nx file: the tag and the artifact in it, whether it was validated
  job,       \* the commands under way
  copies,    \* artifacts pushed, pulled, exported and imported
  started    \* commands started

vars == <<origin, changes, dir, tags, weights, index, registry, file, job, copies, started>>
world == <<origin, changes, dir, registry, file, copies>>

-----------------------------------------------------------------------------
(* An artifact: the manifest it was packed from, the source tree, whether  *)
(* it is annotated as sealed, and a layer of weights for each entry.       *)
Artifact(m, tree, whole, layers) ==
  [name |-> m.name, edition |-> m.edition, plan |-> m.plan, tree |-> tree,
   sealed |-> whole, layers |-> layers]
Holding(n, a) == [ref |-> n, artifact |-> a, validated |-> FALSE, moved |-> FALSE]

(* What a command's reference stands for: a tag or, in a fleet, a digest. *)
At(x) == IF x.kind = "fleet" THEN x.digest ELSE tags[x.home][x.ref]

Idle == [kind |-> "none", home |-> None, ref |-> None, seal |-> FALSE, step |-> "idle",
         manifest |-> None, digest |-> None, files |-> None, todo |-> <<>>, got |-> <<>>,
         body |-> None, moved |-> FALSE]

Init ==
  /\ origin \in [Sources -> Contents] /\ changes = 0
  /\ dir \in {[name |-> n, edition |-> 1, plan |-> p] : n \in Names, p \in Plans}
  /\ tags = [h \in Homes |-> [n \in Names |-> None]]
  /\ weights = [h \in Homes |-> {}]
  /\ index = [h \in Homes |-> [s \in Sources |-> None]]
  /\ registry \in [Repositories -> {None} \cup Received]
  /\ file \in {Holding(a.name, a) : a \in Received}
  /\ job = [j \in Jobs |-> Idle]
  /\ copies = 0 /\ started = 0

Go(j, step, e) == job' = [job EXCEPT ![j] = [e EXCEPT !.step = step]]

(* Tag sets a tag of the home's OCI store: commands that are reading it    *)
(* will read something else from here on.                                  *)
Moves(h, n, js) == [j \in Jobs |->
  IF js[j].home = h /\ js[j].ref = n /\ js[j].kind # "build"
  THEN [js[j] EXCEPT !.moved = @ \/ tags[h][n] # tags'[h][n]] ELSE js[j]]
Tag(h, n, a, js) == tags' = [tags EXCEPT ![h][n] = a] /\ job' = Moves(h, n, js)

-----------------------------------------------------------------------------
(* The world outside: the author edits, an origin serves something else.   *)
Changed == changes < MaxChanges /\ changes' = changes + 1

Edit ==
  /\ Changed
  /\ \E p \in Plans : dir' = [dir EXCEPT !.edition = @ + 1, !.plan = p]
  /\ job' = [j \in Jobs |-> IF job[j].kind = "build" THEN [job[j] EXCEPT !.moved = TRUE] ELSE job[j]]
  /\ UNCHANGED <<origin, tags, weights, index, registry, file, copies, started>>

Republish(s, c) ==
  /\ Changed /\ c # origin[s]
  /\ origin' = [origin EXCEPT ![s] = c]
  /\ UNCHANGED <<dir, tags, weights, index, registry, file, job, copies, started>>

-----------------------------------------------------------------------------
(* Store.Resolve of the first entry in todo.  A pin that is in the blob    *)
(* store, or the digest the index has for a source without one, is used as *)
(* it is.                                                                  *)
Cached(h, e) ==
  LET d == IF e.pin # None THEN e.pin ELSE index[h][e.source]
  IN IF d \in weights[h] THEN d ELSE None

Use(j) == LET x == job[j] IN
  /\ x.step = "resolve" /\ x.todo # <<>> /\ Cached(x.home, Head(x.todo)) # None
  /\ Go(j, "resolve", [x EXCEPT !.todo = Tail(@), !.got = Append(@, Cached(x.home, Head(x.todo)))])
  /\ UNCHANGED <<world, tags, weights, index, started>>

(* Otherwise it is downloaded: the body, in the temporary file, is what    *)
(* the origin serves now.                                                  *)
Download(j) == LET x == job[j] IN
  /\ x.step = "resolve" /\ x.todo # <<>> /\ Cached(x.home, Head(x.todo)) = None
  /\ x.home \in Online
  /\ Go(j, "check", [x EXCEPT !.body = origin[Head(x.todo).source]])
  /\ UNCHANGED <<world, tags, weights, index, started>>

(* Broken: what was downloaded is not held against the pin.                *)
MatchesUnchecked(e, c) == TRUE

Matches(e, c) == e.pin \in {None, c}

(* The body is checked against the pin and renamed into the blob store. *)
Keep(j) == LET x == job[j] IN
  /\ x.step = "check" /\ Matches(Head(x.todo), x.body)
  /\ weights' = [weights EXCEPT ![x.home] = @ \cup {x.body}]
  /\ Go(j, "record", x)
  /\ UNCHANGED <<world, tags, index, started>>

(* recordDownload, for a source without a pin. *)
Record(j) == LET x == job[j]  e == Head(x.todo) IN
  /\ x.step = "record"
  /\ index' = IF e.pin = None THEN [index EXCEPT ![x.home][e.source] = x.body] ELSE index
  /\ Go(j, "resolve", [x EXCEPT !.todo = Tail(@), !.got = Append(@, x.body), !.body = None])
  /\ UNCHANGED <<world, tags, weights, started>>

(* No network, or the integrity check failed.  A command that chooses      *)
(* among candidates goes on without this one.                              *)
Unavailable(x) ==
  \/ x.step = "resolve" /\ x.todo # <<>> /\ Cached(x.home, Head(x.todo)) = None /\ x.home \notin Online
  \/ x.step = "check" /\ ~Matches(Head(x.todo), x.body)
Misses(j) == LET x == job[j] IN
  /\ Unavailable(x)
  /\ IF x.kind = "run" /\ x.manifest.plan.auto
     THEN Go(j, "resolve", [x EXCEPT !.todo = Tail(@), !.body = None])
     ELSE Go(j, "unavailable", x)
  /\ UNCHANGED <<world, tags, weights, index, started>>

-----------------------------------------------------------------------------
(* Build: the manifest is loaded, the tree is packed, the weights of every *)
(* entry are embedded when sealing, and the artifact is tagged.            *)
StartBuild(j, h, seal) ==
  /\ j = started + 1 /\ started' = j
  /\ Go(j, "pack", [Idle EXCEPT !.kind = "build", !.home = h, !.ref = dir.name, !.seal = seal,
                                !.manifest = dir])
  /\ UNCHANGED <<world, tags, weights, index>>

Pack(j) == LET x == job[j] IN
  /\ x.step = "pack"
  /\ Go(j, "resolve", [x EXCEPT !.files = dir.edition,
                                !.todo = IF x.seal THEN x.manifest.plan.entries ELSE <<>>])
  /\ UNCHANGED <<world, tags, weights, index, started>>

Built(j) == LET x == job[j] IN
  /\ x.kind = "build" /\ x.step = "resolve" /\ x.todo = <<>>
  /\ LET a == Artifact(x.manifest, x.files, x.seal, x.got) IN
     Tag(x.home, x.ref, a, [job EXCEPT ![j].step = "done", ![j].digest = a])
  /\ UNCHANGED <<world, weights, index, started>>

(* Push and Pull: oras copies the whole artifact and then tags it; pulled, *)
(* it is tagged with the last part of the repository's path alone.         *)
Copied == copies < MaxCopies /\ copies' = copies + 1

Push(h, n, r) ==
  /\ Copied
  /\ h \in Online /\ tags[h][n] # None
  /\ registry' = [registry EXCEPT ![r] = tags[h][n]]
  /\ UNCHANGED <<origin, changes, dir, tags, weights, index, file, job, started>>

Pull(h, r) ==
  /\ Copied
  /\ h \in Online /\ registry[r] # None
  /\ Tag(h, LocalName[r], registry[r], job)
  /\ UNCHANGED <<origin, changes, dir, registry, file, weights, index, started>>

(* What Unpack leaves in the blob store: every layer of weights. *)
Unpacked(h, a) == weights' = [weights EXCEPT ![h] = @ \cup Range(a.layers)]

Export(h, n) ==
  /\ Copied
  /\ tags[h][n] # None /\ file' = Holding(n, tags[h][n])
  /\ UNCHANGED <<origin, changes, dir, tags, weights, index, registry, job, started>>

Import(h) ==
  /\ Copied
  /\ Tag(h, file.ref, file.artifact, job)
  /\ UNCHANGED <<origin, changes, dir, registry, file, weights, index, started>>

-----------------------------------------------------------------------------
(* A command reads an artifact: `run`, which here is `run --no-daemon`, and*)
(* `eval` the manifest and then the files, `eval` the digest in between;   *)
(* "serve" stands for the daemon, which `run` asks first, and the agents of*)
(* a workflow, which read the manifest alone; "export" for `export         *)
(* --offline`; "fleet" knows the digest and reads nothing else.            *)
Start(j, h, kind, n, a) ==
  /\ j = started + 1 /\ started' = j
  /\ Go(j, "manifest", [Idle EXCEPT !.kind = kind, !.home = h, !.ref = n, !.digest = a])
  /\ UNCHANGED <<world, tags, weights, index>>

StartByName(j, h) ==
  \E kind \in {"run", "eval", "serve", "export"}, n \in Names : tags[h][n] # None /\ Start(j, h, kind, n, None)

(* PullPinned copies the digest itself into the release's own store, and   *)
(* Verify hashes all of it.                                                *)
StartPinned(j, h) ==
  \E r \in Repositories :
    h \in Online /\ registry[r] # None /\ registry[r].sealed /\ ~registry[r].plan.auto
      /\ Start(j, h, "fleet", None, registry[r])

ReadManifest(j) == LET x == job[j]  a == At(x) IN
  /\ x.step = "manifest"
  /\ IF x.kind = "serve"
     THEN IF a.plan.auto THEN Go(j, "refused", [x EXCEPT !.manifest = a])
          ELSE Go(j, "resolve", [x EXCEPT !.manifest = a, !.todo = a.plan.entries])
     ELSE Go(j, CASE x.kind = "eval" -> "digest" [] x.kind = "export" -> "validate"
                  [] OTHER -> "unpack", [x EXCEPT !.manifest = a])
  /\ UNCHANGED <<world, tags, weights, index, started>>

ReadDigest(j) == LET x == job[j] IN
  /\ x.step = "digest"
  /\ Go(j, "unpack", [x EXCEPT !.digest = At(x)])
  /\ UNCHANGED <<world, tags, weights, index, started>>

(* The layer of a single model carries its id, those of candidates the id  *)
(* and a number: a choice among candidates asks the store for each, and    *)
(* never looks at the layers.  `eval` knows no choice: the empty source of *)
(* such a unit resolves to the working directory, which nothing can load.  *)
Unpack(j) == LET x == job[j]  a == At(x) IN
  /\ x.step = "unpack"
  /\ Unpacked(x.home, a)
  /\ IF ~x.manifest.plan.auto /\ ~a.plan.auto /\ a.sealed
     THEN Go(j, "resolve", [x EXCEPT !.files = a, !.got = a.layers])
     ELSE IF x.kind = "eval" /\ x.manifest.plan.auto THEN Go(j, "unavailable", [x EXCEPT !.files = a])
     ELSE Go(j, "resolve", [x EXCEPT !.files = a, !.todo = x.manifest.plan.entries])
  /\ UNCHANGED <<world, tags, index, started>>

(* ValidateOffline: annotated as sealed, as many layers as entries, and    *)
(* nothing else it needs is outside (the runtime, tools, servers).  It     *)
(* resolves the tag again to unpack the files and look for what the        *)
(* manifest names, which another artifact may have or not.                 *)
Validates(a) == a.sealed /\ Len(a.layers) >= Len(a.plan.entries) /\ a.plan.complete

Validate(j) == LET x == job[j]  a == At(x) IN
  /\ x.step = "validate"
  /\ Unpacked(x.home, a)
  /\ \/ Validates(x.manifest) /\ Go(j, "export", [x EXCEPT !.files = a])
     \/ ~(Validates(x.manifest) /\ x.manifest = a) /\ Go(j, "refused", [x EXCEPT !.files = a])
  /\ UNCHANGED <<world, tags, index, started>>

(* ExportFile resolves it once more. *)
ExportFile(j) == LET x == job[j] IN
  /\ x.step = "export"
  /\ file' = [ref |-> x.ref, artifact |-> At(x), validated |-> TRUE, moved |-> x.moved]
  /\ Go(j, "exported", x)
  /\ UNCHANGED <<origin, changes, dir, registry, copies, tags, weights, index, started>>

(* Ready to generate with the weights in got. *)
Ends(j) == LET x == job[j] IN
  /\ x.kind \notin {"none", "build"} /\ x.step = "resolve" /\ x.todo = <<>>
  /\ Go(j, IF x.got = <<>> THEN "unavailable" ELSE "done", x)
  /\ UNCHANGED <<world, tags, weights, index, started>>

(* The command has returned, or was killed on its way. *)
Gone(j) ==
  /\ job[j] # Idle /\ job' = [job EXCEPT ![j] = Idle]
  /\ UNCHANGED <<world, tags, weights, index, started>>

Next ==
  \/ Edit
  \/ \E s \in Sources, c \in Contents : Republish(s, c)
  \/ \E h \in Homes, n \in Names, r \in Repositories : Push(h, n, r)
  \/ \E h \in Homes, r \in Repositories : Pull(h, r)
  \/ \E h \in Homes, n \in Names : Export(h, n)
  \/ \E h \in Homes : Import(h)
  \/ \E j \in Jobs, h \in Homes :
       (\E seal \in BOOLEAN : StartBuild(j, h, seal)) \/ StartByName(j, h) \/ StartPinned(j, h)
  \/ \E j \in Jobs :
       \/ Use(j) \/ Download(j) \/ Keep(j) \/ Record(j) \/ Misses(j)
       \/ Pack(j) \/ Built(j) \/ ReadManifest(j) \/ ReadDigest(j) \/ Unpack(j) \/ Validate(j)
       \/ ExportFile(j) \/ Ends(j) \/ Gone(j)

Spec == Init /\ [][Next]_vars

-----------------------------------------------------------------------------
Finished(x) == x.step = "done" /\ x.kind # "build"

(* What a command reads in several steps is of one artifact, unless the    *)
(* tag moved meanwhile, and always in a fleet; and a build packs the tree  *)
(* its manifest describes unless it was edited meanwhile (commands.go      *)
(* 232-246 and 967-983, pack.go 75-110, pinned.go 37-62).                  *)
OneArtifact == \A j \in Jobs : LET x == job[j] IN
  /\ Finished(x) /\ (~x.moved \/ x.kind = "fleet") =>
       /\ x.kind # "serve" => x.files = x.manifest
       /\ x.kind \in {"eval", "fleet"} => x.digest = x.manifest
  /\ x.kind = "build" /\ x.step = "done" /\ ~x.moved => x.files = x.manifest.edition

(* Whatever way a unit comes to run, and however its origin has changed,   *)
(* a pinned entry runs with the weights of its pin (store.go 283-340).     *)
PinsHold == \A j \in Jobs : LET x == job[j] IN
  Finished(x) /\ ~x.manifest.plan.auto /\ ~x.moved =>
    LET pin == x.manifest.plan.entries[1].pin IN pin # None => x.got = <<pin>>

(* What the index promises is in the blob store, whenever a command dies   *)
(* (store.go 343-354): a promise without it would be looked for for ever.  *)
IndexIsBacked == \A h \in Homes, s \in Sources :
  index[h][s] = None \/ index[h][s] \in weights[h]

(* `run --no-daemon`, `eval` and the fleet answer for a unit with one      *)
(* sealed model with the weights it was sealed with, and never miss them,  *)
(* network or not (pack.go 353-404).  For the daemon and workflows see     *)
(* SealedWeightsAnswer, for candidates SealedCandidatesAtHand.             *)
SealedRunsAsBuilt == \A j \in Jobs : LET x == job[j] IN
  x.kind \in {"run", "eval", "fleet"} /\ x.manifest # None /\ ~x.moved
    /\ x.manifest.sealed /\ ~x.manifest.plan.auto =>
      /\ x.step # "unavailable"
      /\ x.step = "done" => x.got = x.manifest.layers

(* A file that passed ValidateOffline lacks nothing and holds a layer for  *)
(* every entry, of the entry's pin when it has one (offline.go 68-88),     *)
(* unless the tag moved before it was written (OfflineFileIsWhole).        *)
ValidatedIsWhole == file.validated /\ ~file.moved =>
  /\ Validates(file.artifact)
  /\ \A i \in DOMAIN file.artifact.plan.entries :
       file.artifact.plan.entries[i].pin \in {None, file.artifact.layers[i]}

-----------------------------------------------------------------------------
(* What is said of packages and is not so.                                 *)

(* `export --offline` "validates before writing the file.  The artifact    *)
(* must [...] have sealed every model" (docs/REFERENCE.md:248): the file   *)
(* that was written is what was validated.                                 *)
OfflineFileIsWhole == file.validated => Validates(file.artifact)

(* "UnitDigest is what makes a score citable: the same suite against a     *)
(* different digest is a different measurement" (eval.go:30): the digest   *)
(* that `eval` records is of the files and the manifest it measured.       *)
ScoreIsOfItsDigest == \A j \in Jobs : LET x == job[j] IN
  x.kind = "eval" /\ x.step = "done" => x.files = x.digest /\ x.manifest = x.digest

(* "Sealing one means embedding every candidate: the target machine has to *)
(* measure them to choose, and an air-gapped device cannot fetch what is   *)
(* missing" (pack.go:126): a run has every candidate of a sealed unit.     *)
SealedCandidatesAtHand == \A j \in Jobs : LET x == job[j] IN
  x.kind = "run" /\ x.step \in {"done", "unavailable"} /\ ~x.moved
    /\ x.manifest.sealed /\ x.manifest.plan.auto => x.got = x.manifest.layers

(* --seal: "Embed model weights as layers, for offline/air-gapped use"     *)
(* (docs/REFERENCE.md:29): what the daemon, or a workflow, answers for a   *)
(* sealed unit is generated with those weights, network or not.            *)
SealedWeightsAnswer == \A j \in Jobs : LET x == job[j] IN
  x.kind = "serve" /\ x.step \in {"done", "unavailable"} /\ ~x.moved
    /\ x.manifest.sealed /\ ~x.manifest.plan.auto => x.got = x.manifest.layers
=============================================================================
