------------------------------ MODULE Detached ------------------------------
(***************************************************************************)
(* Detached runs of one workflow: `nexus compose up -d`, `down` and `ls`   *)
(* (src/cmd/nexus/compose.go) around a record that names the run's process *)
(* (src/internal/workflow/session.go).  There is no supervisor and no      *)
(* lock: the commands are processes of their own, which read the record,   *)
(* ask the system about the process id, and write or remove the record.    *)
(***************************************************************************)
EXTENDS FiniteSets

CONSTANTS
  Commands,   \* processes of the three commands
  Pids,       \* process ids the system hands out, one after the other
  NoPid

DetachedAssumption == NoPid \notin Pids /\ IsFiniteSet(Pids)

VARIABLES
  record,    \* the record's file: "none", "cut" while it is written, "whole"
  named,     \* the process id the record names
  procs,     \* who has each process id: nobody, a run, a stopping run, others
  verb,      \* what each command is
  pc,        \* where it is
  seen,      \* the process id it read, or started
  lost,      \* runs whose `up` could not record them, or whose `down` gave up
  overlaps   \* commands that were under way together with another

vars == <<record, named, procs, verb, pc, seen, lost, overlaps>>

Verbs == {"up", "down", "ls"}
Ended == {"idle", "done", "failed", "killed"}
Running(p) == procs[p] \in {"run", "stopping"}
Alive(p) == p # NoPid /\ procs[p] # "nobody"
UnderWay == {c \in Commands : pc[c] \notin Ended}

Init ==
  /\ record = "none" /\ named = NoPid
  /\ procs = [p \in Pids |-> "nobody"]
  /\ verb \in [Commands -> Verbs]
  /\ pc = [c \in Commands |-> "idle"] /\ seen = [c \in Commands |-> NoPid]
  /\ lost = {} /\ overlaps = {}

Become(c, where) == pc' = [pc EXCEPT ![c] = where]

-----------------------------------------------------------------------------
(* LoadSession.  No record ends `down` and `ls`; one that does not parse   *)
(* ends them too, and is as good as none for `up`.                         *)
Load(c) ==
  /\ pc[c] = "idle"
  /\ seen' = [seen EXCEPT ![c] = IF record = "whole" THEN named ELSE NoPid]
  /\ overlaps' = IF UnderWay = {} THEN overlaps ELSE overlaps \cup UnderWay \cup {c}
  /\ Become(c, IF record = "whole" THEN "ask"
               ELSE IF verb[c] = "up" THEN "spawn" ELSE "done")
  /\ UNCHANGED <<record, named, procs, verb, lost>>

(* Broken: `up` starts another run whatever the record says.               *)
AskNobody(c) ==
  /\ pc[c] = "ask"
  /\ Become(c, CASE verb[c] = "up" -> "spawn"
                 [] verb[c] = "down" -> IF Alive(seen[c]) THEN "stop" ELSE "remove"
                 [] verb[c] = "ls" -> IF Alive(seen[c]) THEN "done" ELSE "remove")
  /\ UNCHANGED <<record, named, procs, verb, seen, lost, overlaps>>

(* Alive: whoever has the process id now.                                  *)
Ask(c) ==
  /\ pc[c] = "ask"
  /\ Become(c, CASE verb[c] = "up" -> IF Alive(seen[c]) THEN "done" ELSE "spawn"
                 [] verb[c] = "down" -> IF Alive(seen[c]) THEN "stop" ELSE "remove"
                 [] verb[c] = "ls" -> IF Alive(seen[c]) THEN "done" ELSE "remove")
  /\ UNCHANGED <<record, named, procs, verb, seen, lost, overlaps>>

(* detachWorkflow starts the run and then writes the record, in place.     *)
Spawn(c) ==
  /\ pc[c] = "spawn"
  /\ \E p \in Pids :
       /\ procs[p] = "nobody"
       /\ procs' = [procs EXCEPT ![p] = "run"]
       /\ seen' = [seen EXCEPT ![c] = p]
  /\ Become(c, "truncate")
  /\ UNCHANGED <<record, named, verb, lost, overlaps>>

Truncate(c) ==
  /\ pc[c] = "truncate"
  /\ record' = "cut" /\ named' = NoPid
  /\ Become(c, "write")
  /\ UNCHANGED <<procs, verb, seen, lost, overlaps>>

Write(c) ==
  /\ pc[c] = "write"
  /\ IF record = "none" THEN UNCHANGED <<record, named>>
                        ELSE record' = "whole" /\ named' = seen[c]
  /\ Become(c, "done")
  /\ UNCHANGED <<procs, verb, seen, lost, overlaps>>

(* `down` signals the process id, waits up to five seconds for it to go    *)
(* away, and forgets the record in any case.                               *)
Stop(c) ==
  /\ pc[c] = "stop" /\ procs[seen[c]] # "nobody"
  /\ procs' = [procs EXCEPT ![seen[c]] = IF @ = "other" THEN "nobody" ELSE "stopping"]
  /\ Become(c, "remove")
  /\ UNCHANGED <<record, named, verb, seen, lost, overlaps>>

Remove(c) ==
  /\ pc[c] = "remove"
  /\ record' = "none" /\ named' = NoPid
  /\ lost' = IF Running(seen[c]) THEN lost \cup {seen[c]} ELSE lost
  /\ Become(c, "done")
  /\ UNCHANGED <<procs, verb, seen, overlaps>>

(* An error, or a kill, leaves everything as it is: the run that was       *)
(* started, a record that was truncated, and, when the process cannot be   *)
(* signalled, the record that names it.                                    *)
Unrecorded(c) ==
  IF pc[c] \in {"truncate", "write"} /\ Running(seen[c]) THEN {seen[c]} ELSE {}

Fails(c) ==
  /\ pc[c] \in {"spawn", "truncate", "write", "stop"}
  /\ lost' = lost \cup Unrecorded(c)
  /\ Become(c, "failed")
  /\ UNCHANGED <<record, named, procs, verb, seen, overlaps>>

Kill(c) ==
  /\ c \in UnderWay
  /\ lost' = lost \cup Unrecorded(c)
  /\ Become(c, "killed")
  /\ UNCHANGED <<record, named, procs, verb, seen, overlaps>>

(* The run comes to its end, by itself or after the signal; its id may be  *)
(* given to an unrelated process.                                          *)
RunEnds(p) ==
  /\ Running(p)
  /\ procs' = [procs EXCEPT ![p] = "nobody"]
  /\ lost' = lost \ {p}
  /\ UNCHANGED <<record, named, verb, pc, seen, overlaps>>

Reuse(p) ==
  /\ procs[p] = "nobody" /\ named = p
  /\ procs' = [procs EXCEPT ![p] = "other"]
  /\ UNCHANGED <<record, named, verb, pc, seen, lost, overlaps>>

Next ==
  \/ \E c \in Commands :
       \/ Load(c) \/ Ask(c) \/ Spawn(c) \/ Truncate(c) \/ Write(c)
       \/ Stop(c) \/ Remove(c) \/ Fails(c) \/ Kill(c)
  \/ \E p \in Pids : RunEnds(p) \/ Reuse(p)

Spec == Init /\ [][Next]_vars

-----------------------------------------------------------------------------
(* Every variable keeps its type.                                          *)
TypeOK ==
  /\ record \in {"none", "cut", "whole"} /\ named \in Pids \cup {NoPid}
  /\ record = "whole" <=> named # NoPid
  /\ procs \in [Pids -> {"nobody", "run", "stopping", "other"}]
  /\ pc \in [Commands -> Ended \cup {"ask", "spawn", "truncate", "write", "stop", "remove"}]
  /\ seen \in [Commands -> Pids \cup {NoPid}]
  /\ lost \subseteq Pids /\ overlaps \subseteq Commands

(* While no two commands overlap, whatever fails or is killed, a workflow  *)
(* has one detached run, and `down` and `ls` find it from the moment `up`  *)
(* reports it to its end: two run at once, and one has no record, only     *)
(* when an `up` could not record what it had started, or a `down` did not  *)
(* wait for it to end.                                                     *)
Named(p) == record = "whole" /\ named = p
Recording(p) == \E c \in Commands : pc[c] \in {"truncate", "write"} /\ seen[c] = p

OneFindableRun ==
  overlaps = {} =>
    \A p \in Pids \ lost :
      Running(p) => /\ Named(p) \/ Recording(p)
                    /\ \A q \in Pids \ lost : Running(q) => q = p

(* "The session file is how it is found again" (compose.go:409): between   *)
(* commands the record names every run that is not being stopped.          *)
FoundAgain == UnderWay = {} => \A p \in Pids : procs[p] = "run" => Named(p)

(* "A record whose process has exited is pruned" (docs/COMPOSE.md:284):    *)
(* and no other, when a listing comes to remove one.                       *)
PrunesTheExited ==
  \A c \in Commands : verb[c] = "ls" /\ pc[c] = "remove" =>
    \A p \in Pids : Named(p) => ~Running(p)

(* "so `ls` never lists a workflow that already finished" (the same line): *)
(* a process that is alive when a listing asks is the run.                 *)
ListsWhatRuns ==
  \A c \in Commands : verb[c] = "ls" /\ pc[c] = "ask" /\ Alive(seen[c]) => Running(seen[c])
=============================================================================
