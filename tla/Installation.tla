--------------------------- MODULE Installation ---------------------------
(* `nexus install` (cmd/nexus/install.go, install/install.go) and the      *)
(* console's two-step API for it (server.go 135-180): a plan is shown, the *)
(* user approves kinds of actions, and Apply carries them out over the     *)
(* reference as it is by then.  The runtime is unpacked in place from a    *)
(* verified archive (runtimeinstall/runtime.go), tool servers are fetched  *)
(* by git or npm (mcp/resolve.go).  Several installers share one home, and *)
(* each may be killed at any step.                                         *)
EXTENDS Naturals, Sequences, FiniteSets

CONSTANTS
  Installers,   \* processes of `nexus install`, and requests of a console
  Builds,       \* [models, sealed, sized, chat, tools, keys, suite]
  Git,          \* tools fetched by git; the others are npm packages
  Archive,      \* entries of a release's archive, each "file" or "link"
  Machines,     \* [offered: the catalog has a release for the platform,
                \*  present: a runtime of the user's is on the PATH,
                \*  roomy: the models fit into memory]
  Held,         \* models that are in the store before
  MaxMoves,     \* bounds how often the reference is moved to another build
  MaxTries,     \* bounds the installations started
  None

InstallationAssumption == Archive \in Seq({"file", "link"}) /\ Archive # <<>>

Entries == 1..Len(Archive)

VARIABLES
  host,       \* the machine
  reference,  \* the build the reference stands for now
  moves,
  cached,     \* models in the store
  fetched,    \* per tool: "none", "part" or "whole"
  keys,       \* secrets stored for the unit
  unpacked,   \* per entry of the archive: "none", "torn" or "whole"
  current,    \* current.json: "none", "torn" or "whole"
  broken,     \* entries whose writing was broken off
  stopped,    \* tools whose fetch was
  installer,  \* the installers
  tries

vars == <<host, reference, moves, cached, fetched, keys, unpacked,
          current, broken, stopped, installer, tries>>
downloads == <<cached, fetched, stopped, keys>>
runtime == <<unpacked, current, broken>>

Tools == UNION {b.tools : b \in Builds}
Keys == UNION {b.keys : b \in Builds}

Idle == [step |-> "idle", open |-> {}, agreed |-> {}, given |-> {}, tests |-> FALSE,
         build |-> None, moved |-> FALSE, entry |-> 1, tool |-> None, took |-> {}]

Init ==
  /\ host \in Machines
  /\ reference \in Builds /\ moves = 0
  /\ cached = Held
  /\ fetched = [t \in Tools |-> "none"] /\ stopped = {} /\ keys = {}
  /\ unpacked = [e \in Entries |-> "none"] /\ current = "none" /\ broken = {}
  /\ installer = [i \in Installers |-> Idle] /\ tries = 0

Go(i, step, x) == installer' = [installer EXCEPT ![i] = [x EXCEPT !.step = step]]

-----------------------------------------------------------------------------
(* inspectLoaded: what is open for a build.  managedRuntimeBinary believes *)
(* a current.json it can read when the file it names is there; a model's   *)
(* size is known when it is declared or the model is at hand; Installed    *)
(* believes a directory.                                                   *)
Runs == host.present \/ (current = "whole" /\ unpacked[Len(Archive)] # "none")

Missing(b) == IF b.sealed THEN {} ELSE b.models \ cached
Unfetched(b) == {t \in b.tools : fetched[t] = "none"}
Unsized(b) == b.chat /\ ~b.sized /\ ~b.sealed /\ b.models \cap cached = {}

Open(b) ==
  Missing(b) \cup Unfetched(b) \cup (IF b.chat /\ ~Runs THEN {"runtime"} ELSE {})

(* The plan's checks are all ready or skipped. *)
Clear(b) ==
  /\ Open(b) = {} /\ ~Unsized(b)
  /\ b.chat => host.roomy
  /\ b.keys \subseteq keys

(* Which kinds of actions the plan asks for; a runtime that the catalog    *)
(* lacks is blocked, there is nothing to approve.                          *)
Asks(b) ==
  (IF Missing(b) # {} \/ Unsized(b) THEN {"models"} ELSE {})
    \cup (IF b.chat /\ ~Runs /\ host.offered THEN {"runtime"} ELSE {})
    \cup (IF Unfetched(b) # {} THEN {"tools"} ELSE {})

-----------------------------------------------------------------------------
(* The plan is shown.  It was one of the build that was tagged then.       *)
Inspect(i) ==
  /\ installer[i].step \in {"idle", "done"}
  /\ tries < MaxTries /\ tries' = tries + 1
  /\ Go(i, "shown", [Idle EXCEPT !.open = Open(reference), !.agreed = Asks(reference)])
  /\ UNCHANGED <<host, reference, moves, downloads, runtime>>

(* The user declines, or only asked for the plan (--json). *)
Decline(i) ==
  /\ installer[i].step = "shown"
  /\ Go(i, "idle", Idle)
  /\ UNCHANGED <<host, reference, moves, downloads, runtime, tries>>

(* The user agrees, with values for some secrets and with or without tests;*)
(* Apply loads the reference again.                                        *)
Apply(i, given, tests) == LET x == installer[i] IN
  /\ x.step = "shown"
  /\ Go(i, IF "runtime" \in x.agreed /\ reference.chat /\ host.offered THEN "runtime" ELSE "models",
        [x EXCEPT !.given = given, !.tests = tests, !.build = reference])
  /\ UNCHANGED <<host, reference, moves, downloads, runtime, tries>>

-----------------------------------------------------------------------------
(* The archive is downloaded and verified, and unpacked entry by entry: a  *)
(* file is created or truncated and then written, a link must not exist.   *)
Entry(x) == Archive[x.entry]

Fetch(i) == LET x == installer[i] IN
  /\ x.step = "runtime"
  /\ Go(i, "unpack", [x EXCEPT !.took = @ \cup {"runtime"}])
  /\ UNCHANGED <<host, reference, moves, downloads, runtime, tries>>

Truncate(i) == LET x == installer[i] IN
  /\ x.step = "unpack" /\ x.entry \in Entries /\ Entry(x) = "file"
  /\ unpacked' = [unpacked EXCEPT ![x.entry] = "torn"]
  /\ Go(i, "write", x)
  /\ UNCHANGED <<host, reference, moves, downloads, current, broken, tries>>

Write(i) == LET x == installer[i] IN
  /\ x.step = "write"
  /\ unpacked' = [unpacked EXCEPT ![x.entry] = "whole"]
  /\ Go(i, "unpack", [x EXCEPT !.entry = @ + 1])
  /\ UNCHANGED <<host, reference, moves, downloads, current, broken, tries>>

Link(i) == LET x == installer[i] IN
  /\ x.step = "unpack" /\ x.entry \in Entries /\ Entry(x) = "link"
  /\ IF unpacked[x.entry] = "none"
     THEN /\ unpacked' = [unpacked EXCEPT ![x.entry] = "whole"]
          /\ Go(i, "unpack", [x EXCEPT !.entry = @ + 1])
     ELSE Go(i, "idle", Idle) /\ UNCHANGED unpacked
  /\ UNCHANGED <<host, reference, moves, downloads, current, broken, tries>>

Unpacked(x) == x.entry > Len(Archive)

(* current.json is written in place, in two steps. *)
Record(i) == LET x == installer[i] IN
  /\ \/ x.step = "unpack" /\ Unpacked(x) /\ current' = "torn" /\ Go(i, "record", x)
     \/ x.step = "record" /\ current' = "whole" /\ Go(i, "models", x)
  /\ UNCHANGED <<host, reference, moves, downloads, unpacked, broken, tries>>

-----------------------------------------------------------------------------
(* Models: each one that is not in the store, whether the build carries it *)
(* or not.                                                                 *)
Wanted(x) == IF "models" \in x.agreed THEN x.build.models \ cached ELSE {}

Resolve(i) == LET x == installer[i] IN
  /\ x.step = "models"
  /\ IF Wanted(x) = {} THEN Go(i, "tools", x) /\ UNCHANGED cached
     ELSE \E m \in Wanted(x) :
            cached' = cached \cup {m} /\ Go(i, "models", [x EXCEPT !.took = @ \cup {m}])
  /\ UNCHANGED <<host, reference, moves, fetched, stopped, keys, runtime, tries>>

(* Tools: `git clone` and `npm install` fill a directory that is there from*)
(* the start.                                                              *)
Lacking(x) == IF "tools" \in x.agreed THEN Unfetched(x.build) ELSE {}

StartTool(i) == LET x == installer[i] IN
  /\ x.step = "tools"
  /\ IF Lacking(x) = {} THEN Go(i, "secrets", x) /\ UNCHANGED fetched
     ELSE \E t \in Lacking(x) :
            /\ fetched' = [fetched EXCEPT ![t] = "part"]
            /\ Go(i, "tool", [x EXCEPT !.tool = t, !.took = @ \cup {t}])
  /\ UNCHANGED <<host, reference, moves, cached, stopped, keys, runtime, tries>>

EndTool(i) == LET x == installer[i] IN
  /\ x.step = "tool"
  /\ fetched' = [fetched EXCEPT ![x.tool] = "whole"]
  /\ Go(i, "tools", [x EXCEPT !.tool = None])
  /\ UNCHANGED <<host, reference, moves, cached, stopped, keys, runtime, tries>>

(* Secrets must be declared by the build that was loaded. *)
Store(i) == LET x == installer[i] IN
  /\ x.step = "secrets"
  /\ IF x.given \subseteq x.build.keys
     THEN keys' = keys \cup x.given /\ Go(i, "review", x)
     ELSE Go(i, "idle", Idle) /\ UNCHANGED keys
  /\ UNCHANGED <<host, reference, moves, cached, fetched, stopped, runtime, tries>>

(* The loaded build is inspected again; its suite is run only when nothing *)
(* is open, and what is open is an incomplete installation.                *)
Review(i) == LET x == installer[i] IN
  /\ x.step = "review"
  /\ IF ~Clear(x.build) THEN Go(i, "idle", Idle)
     ELSE Go(i, IF x.build.suite /\ x.tests THEN "test" ELSE "done", x)
  /\ UNCHANGED <<host, reference, moves, downloads, runtime, tries>>

(* A torn runtime cannot run a case. *)
Usable == host.present \/ \A e \in Entries : unpacked[e] = "whole"

RunTests(i) == LET x == installer[i] IN
  /\ x.step = "test"
  /\ Go(i, "idle", Idle) \/ ((x.build.chat => Usable) /\ Go(i, "done", x))
  /\ UNCHANGED <<host, reference, moves, downloads, runtime, tries>>

-----------------------------------------------------------------------------
(* A download, an unpacking, a tool or a disk fails: the installation ends *)
(* there, and what was half done stays, except a clone, which git removes. *)
(* After a kill that stays as well.                                        *)
Fails(i, killed) == LET x == installer[i] IN
  /\ x.step \in {"runtime", "unpack", "write", "record", "models", "tool"}
  /\ killed => x.step = "tool" /\ x.tool \in Git
  /\ Go(i, "idle", Idle)
  /\ broken' = IF x.step = "write" THEN broken \cup {x.entry} ELSE broken
  /\ stopped' = IF x.step = "tool" THEN stopped \cup {x.tool} ELSE stopped
  /\ fetched' = IF x.step = "tool" /\ x.tool \in Git /\ ~killed
                THEN [fetched EXCEPT ![x.tool] = "none"] ELSE fetched
  /\ UNCHANGED <<host, reference, moves, cached, keys, unpacked, current, tries>>

(* `build`, `pull` or `import` tags another build. *)
Move ==
  /\ moves < MaxMoves /\ moves' = moves + 1
  /\ reference' \in Builds \ {reference}
  /\ installer' = [i \in Installers |->
       IF installer[i].step = "shown" THEN [installer[i] EXCEPT !.moved = TRUE] ELSE installer[i]]
  /\ UNCHANGED <<host, downloads, runtime, tries>>

Next ==
  \/ Move
  \/ \E i \in Installers :
       \/ Inspect(i) \/ Decline(i)
       \/ \E given \in SUBSET Keys, tests \in BOOLEAN : Apply(i, given, tests)
       \/ Fetch(i) \/ Truncate(i) \/ Write(i) \/ Link(i) \/ Record(i)
       \/ Resolve(i) \/ StartTool(i) \/ EndTool(i) \/ Store(i)
       \/ Review(i) \/ RunTests(i) \/ (\E killed \in BOOLEAN : Fails(i, killed))

Spec == Init /\ [][Next]_vars

-----------------------------------------------------------------------------
Busy(step) == {i \in Installers : installer[i].step = step}

(* While the reference stands for the build whose plan was shown, nothing  *)
(* is fetched that the plan did not show as open, although what is approved*)
(* are kinds and Apply decides again what to fetch; but for a clone that   *)
(* failed since (install.go 289-470).  Without `moved` and `stopped` it is *)
(* OnlyWhatWasShown.                                                       *)
Consented == \A i \in Installers :
  installer[i].moved \/ installer[i].took \subseteq installer[i].open \cup stopped

(* What current.json names was unpacked to the last entry, but for files   *)
(* that another installer is writing over or was stopped writing over      *)
(* (runtime.go 160-187).                                                   *)
CurrentIsWhole ==
  current # "none" => \A e \in Entries :
    /\ unpacked[e] # "none"
    /\ \/ unpacked[e] = "whole" \/ e \in broken
       \/ \E i \in Busy("write") : installer[i].entry = e

(* "Installed; all required checks completed" (install.go 102) is said of a*)
(* build that has its models and secrets, memory, a runtime and, of each of*)
(* its tools, at least what a fetch under way or stopped has left: more    *)
(* than that it does not see (ToolsAreFetched, RuntimeIsUnpacked).         *)
CompleteIsEarned == \A i \in Installers : LET x == installer[i]  b == x.build IN
  x.step = "done" =>
    /\ Missing(b) = {} /\ b.keys \subseteq keys
    /\ b.chat => host.roomy /\ (host.present \/ current # "none")
    /\ \A t \in b.tools :
         fetched[t] = "whole" \/ t \in stopped \/ \E o \in Busy("tool") : installer[o].tool = t

-----------------------------------------------------------------------------
(* What is said of an installation and is not so.                          *)

(* "POST performs only the actions the user approved in that plan"         *)
(* (server.go:135), "its approval button performs only the actions         *)
(* shown" (docs/REFERENCE.md:51-52): Apply loads the reference again.      *)
OnlyWhatWasShown == \A i \in Installers : installer[i].took \subseteq installer[i].open

(* "Installed reports whether the source is already fetched"               *)
(* (resolve.go:178): a unit of which `install` says that all required      *)
(* checks completed has its tools.                                         *)
ToolsAreFetched == \A i \in Installers : LET x == installer[i] IN
  x.step = "done" => \A t \in x.build.tools : fetched[t] = "whole"

(* "Install checks the unit as a whole: model weights, an inference        *)
(* runtime, [...]" (cmd/nexus/install.go:22): a runtime that passes the    *)
(* check was unpacked whole.                                               *)
RuntimeIsUnpacked == \A i \in Installers : LET x == installer[i] IN
  x.step = "review" /\ x.build.chat /\ Clear(x.build) => Usable

=============================================================================
