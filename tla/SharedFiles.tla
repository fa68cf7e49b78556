---------------------------- MODULE SharedFiles ----------------------------
(***************************************************************************)
(* The small files under ~/.nexusrun that every nexus process reads,       *)
(* changes and writes back, without a lock: secrets, the master key,       *)
(* logins, the downloads index, the benchmark cache, sessions, records of  *)
(* detached workflows and the fleet's API key.  They differ in how they    *)
(* are replaced and in what a reader makes of a file it cannot parse.      *)
(*                                                                         *)
(* Each process performs one operation on one of them; any may be killed   *)
(* between two steps, and any write may fail half way.                     *)
(***************************************************************************)
EXTENDS Naturals, FiniteSets

CONSTANTS
  Procs,     \* processes, one operation each
  Adds,      \* those that add an entry of their own
  Removes,   \* those that take out whatever entries they find
  Nobody     \* the inode of the file as it was found

SharedFilesAssumption ==
  /\ Adds \cup Removes = Procs /\ Adds \cap Removes = {}
  /\ Nobody \notin Procs

(* How a file is replaced: through a temporary file the processes share by *)
(* name, through one of their own, or in place.  What a reader makes of a  *)
(* file that does not parse: an error, or an empty file.  And whether the  *)
(* file is written only when there is none, and whether a writer reads it  *)
(* first.                                                                  *)
Policy(through, garbage, once, reads) ==
  [temp |-> through, garbage |-> garbage, once |-> once, reads |-> reads]

SecretsFile == Policy("shared", "error", FALSE, TRUE)
DownloadsFile == Policy("shared", "empty", FALSE, TRUE)
BenchmarksFile == Policy("shared", "empty", FALSE, TRUE)
SessionFile == Policy("shared", "error", FALSE, TRUE)
CredentialsFile == Policy("private", "error", FALSE, TRUE)
ApiKeyFile == Policy("private", "error", TRUE, TRUE)
MasterKeyFile == Policy("place", "error", TRUE, TRUE)
WorkflowRecord == Policy("place", "empty", FALSE, FALSE)

Policies ==
  {SecretsFile, DownloadsFile, BenchmarksFile, SessionFile, CredentialsFile,
   ApiKeyFile, MasterKeyFile, WorkflowRecord}

VARIABLES
  policy,    \* the file the processes work on
  main,      \* the inode its name stands for, or none
  temp,      \* the inode the shared temporary name stands for, or none
  inode,     \* what each inode holds: [entries, state]
  pc,        \* where each process is
  view,      \* the entries each process is about to write
  fd,        \* the inode each process writes to
  told,      \* the entries each process has reported success with
  overlaps   \* pairs of operations that were under way together

vars == <<policy, main, temp, inode, pc, view, fd, told, overlaps>>

Inodes == Procs \cup {Nobody}
NoInode == {}
Blank == [entries |-> {}, state |-> "empty"]
Whole(S) == [entries |-> S, state |-> "whole"]
TornInode == [entries |-> {}, state |-> "torn"]

Ended == {"start", "done", "failed", "killed"}
UnderWay == {q \in Procs : pc[q] \notin Ended}

Init ==
  /\ policy \in Policies
  /\ inode = [i \in Inodes |-> IF i = Nobody THEN Whole({Nobody}) ELSE Blank]
  /\ main \in {NoInode, {Nobody}} /\ temp = NoInode
  /\ pc = [p \in Procs |-> "start"]
  /\ view = [p \in Procs |-> {}] /\ fd = [p \in Procs |-> Nobody]
  /\ told = [p \in Procs |-> {}] /\ overlaps = {}

Content == IF main = NoInode THEN Whole({}) ELSE inode[CHOOSE i \in main : TRUE]

Become(p, where) == pc' = [pc EXCEPT ![p] = where]

-----------------------------------------------------------------------------
(* Reading, before a change.  A removal that finds nothing, and a key that *)
(* is there already, end the operation.                                    *)

Changed(p, S) == IF p \in Adds THEN S \cup {p} ELSE {}

Load(p) ==
  /\ pc[p] = "start"
  /\ overlaps' = overlaps \cup {{p, q} : q \in UnderWay}
  /\ LET legible == main = NoInode \/ Content.state = "whole"
         got == IF legible /\ policy.reads THEN Content.entries ELSE {}
     IN  IF ~legible /\ policy.garbage = "error" /\ policy.reads
           THEN Become(p, "failed") /\ UNCHANGED <<view, told>>
         ELSE IF policy.once /\ main # NoInode
           THEN /\ Become(p, "done")
                /\ told' = [told EXCEPT ![p] = got] /\ UNCHANGED view
         ELSE IF p \in Removes /\ Content.entries = {}
           THEN Become(p, "done") /\ UNCHANGED <<view, told>>
         ELSE /\ Become(p, "loaded")
              /\ view' = [view EXCEPT ![p] = Changed(p, got)] /\ UNCHANGED told
  /\ UNCHANGED <<policy, main, temp, inode, fd>>

(* Opening the file that is written truncates it.  A record of a workflow  *)
(* is removed by its name.                                                 *)
Open(p) ==
  /\ pc[p] = "loaded" /\ (p \in Adds \/ policy # WorkflowRecord)
  /\ Become(p, "open")
  /\ LET there == CASE policy.temp = "shared" -> temp
                    [] policy.temp = "private" -> NoInode
                    [] policy.temp = "place" -> main
         target == IF there = NoInode THEN p ELSE CHOOSE i \in there : TRUE
     IN  /\ fd' = [fd EXCEPT ![p] = target]
         /\ inode' = [inode EXCEPT ![target] = Blank]
         /\ temp' = IF policy.temp = "shared" THEN {target} ELSE temp
         /\ main' = IF policy.temp = "place" THEN {target} ELSE main
  /\ UNCHANGED <<policy, view, told, overlaps>>

Unlink(p) ==
  /\ pc[p] = "loaded" /\ p \in Removes /\ policy = WorkflowRecord
  /\ Become(p, "done") /\ main' = NoInode
  /\ UNCHANGED <<policy, temp, inode, view, fd, told, overlaps>>

(* Writing from the start of the file: what another process wrote there    *)
(* since it was truncated stays where it is longer.                        *)
Success(p) == Become(p, "done") /\ told' = [told EXCEPT ![p] = view[p]]

Write(p) ==
  /\ pc[p] = "open"
  /\ \E c \in {Whole(view[p])} \cup (IF inode[fd[p]] = Blank THEN {} ELSE {TornInode}) :
       inode' = [inode EXCEPT ![fd[p]] = c]
  /\ IF policy.temp = "place" THEN Success(p) ELSE Become(p, "written") /\ UNCHANGED told
  /\ UNCHANGED <<policy, main, temp, view, fd, overlaps>>

(* A write that fails part of the way, or, with a temporary file of its    *)
(* own, before anything can be seen of it.                                 *)
WriteFails(p) ==
  /\ pc[p] = "open"
  /\ inode' = [inode EXCEPT ![fd[p]] = TornInode]
  /\ Become(p, "failed")
  /\ UNCHANGED <<policy, main, temp, view, fd, told, overlaps>>

(* Broken: the temporary file is renamed before it is written.             *)
RenameEarly(p) ==
  /\ pc[p] \in {"open", "written"}
  /\ LET from == IF policy.temp = "shared" THEN temp ELSE {fd[p]}
     IN  IF from = NoInode THEN Become(p, "failed") /\ UNCHANGED <<main, told>>
         ELSE /\ main' = from
              /\ IF pc[p] = "open" THEN UNCHANGED <<pc, told>> ELSE Success(p)
  /\ temp' = NoInode
  /\ UNCHANGED <<policy, inode, view, fd, overlaps>>

(* The rename; it fails when another process has renamed the shared        *)
(* temporary file away.                                                    *)
Rename(p) ==
  /\ pc[p] = "written"
  /\ LET from == IF policy.temp = "shared" THEN temp ELSE {fd[p]}
     IN  IF from = NoInode THEN Become(p, "failed") /\ UNCHANGED <<main, told>>
         ELSE main' = from /\ Success(p)
  /\ temp' = NoInode
  /\ UNCHANGED <<policy, inode, view, fd, overlaps>>

Kill(p) ==
  /\ p \in UnderWay
  /\ Become(p, "killed")
  /\ UNCHANGED <<policy, main, temp, inode, view, fd, told, overlaps>>

-----------------------------------------------------------------------------
Next == \E p \in Procs :
  Load(p) \/ Open(p) \/ Unlink(p) \/ Write(p) \/ WriteFails(p) \/ Rename(p) \/ Kill(p)

Spec == Init /\ [][Next]_vars

-----------------------------------------------------------------------------
(* Every variable keeps its type.                                          *)
TypeOK ==
  /\ policy \in Policies
  /\ main \in SUBSET Inodes /\ Cardinality(main) <= 1
  /\ temp \in SUBSET Inodes /\ Cardinality(temp) <= 1
  /\ inode \in [Inodes -> [entries : SUBSET Inodes, state : {"empty", "torn", "whole"}]]
  /\ pc \in [Procs -> Ended \cup {"loaded", "open", "written"}]
  /\ view \in [Procs -> SUBSET Inodes] /\ fd \in [Procs -> Inodes]
  /\ told \in [Procs -> SUBSET Inodes] /\ overlaps \subseteq SUBSET Procs

(* The file can be read by everyone at every moment, kills and failed      *)
(* writes included.  With a temporary file of its own that holds whatever  *)
(* runs at once; with a shared one only while no two operations have       *)
(* overlapped; in place, only if besides no writer is under way or was cut *)
(* short.                                                                  *)
CutShort == overlaps # {} \/ \E p \in Procs : pc[p] \in {"open", "failed", "killed"}

Legible ==
  \/ main = NoInode \/ Content.state = "whole"
  \/ policy.temp = "shared" /\ overlaps # {}
  \/ policy.temp = "place" /\ CutShort

(* What a process reported as stored is there until it is removed, and     *)
(* what it found and kept is there too, for as long as no operation has    *)
(* overlapped with its own: whatever failed or was killed before.          *)
Undone(p, e) ==
  \/ \E q \in Removes : pc[q] \in {"done", "killed", "failed"}
  \/ \E q \in Procs : {p, q} \in overlaps
  \/ policy.temp = "shared" /\ overlaps # {}
  \/ policy.temp = "place" /\ CutShort
  \/ ~policy.reads

KeptUntilOverlap ==
  \A p \in Procs : \A e \in told[p] : e \in Content.entries \/ Undone(p, e)

-----------------------------------------------------------------------------
(* What the code says of operations that do overlap, when none is killed   *)
(* and no write fails; judged when all have come to their end.             *)
Race == \E p \in Procs : Load(p) \/ Open(p) \/ Unlink(p) \/ Write(p) \/ Rename(p)

Reported == UNION {told[p] : p \in Procs}

(* "races between concurrent CLI runs at worst drop an entry"              *)
(* (store.go:397): of all that two runs were told is recorded, at most one *)
(* entry is missing.  They write to one temporary file; what they mix in   *)
(* it does not parse, and reads as empty.                                  *)
AtWorstOneDropped ==
  policy = DownloadsFile /\ UnderWay = {} => Cardinality(Reported \ Content.entries) <= 1

(* "Save writes a session atomically" (session.go:122), "SaveCache writes  *)
(* the cache atomically" (cache.go:146): what is found is what one save    *)
(* wrote.                                                                  *)
SavedAtomically ==
  policy \in {SessionFile, BenchmarksFile} /\ UnderWay = {} =>
    main = NoInode \/ Content.state = "whole"

(* "It stays the same across restarts so an application configured once    *)
(* keeps working" (serve.go:38): a key that was given out stays.           *)
KeyStays == policy = ApiKeyFile /\ UnderWay = {} => Reported \subseteq Content.entries
=============================================================================
