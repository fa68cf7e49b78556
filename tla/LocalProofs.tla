----------------------------- MODULE LocalProofs -----------------------------
(***************************************************************************)
(* What the parts of Local keep that are about files, processes and units, *)
(* for every value of their constants.                                     *)
(***************************************************************************)
EXTENDS Local, FiniteSetTheorems, TLAPS

-----------------------------------------------------------------------------
(* A step of the whole is a step of the part that runs, or none at all.    *)
LEMMA StepOfPart ==
  ASSUME [PartsNext]_all
  PROVE  /\ part' = part
         /\ part = "detached" => Detached!Next \/ UNCHANGED detachedVars
         /\ part = "files" => OnDisk!Next \/ UNCHANGED filesVars
         /\ part = "studio" => Studio!Next \/ UNCHANGED studioVars
         /\ part = "packages" => Packages!Next \/ UNCHANGED packageVars
         /\ part = "installation" => Install!Next \/ UNCHANGED installVars
BY DEF PartsNext, all

LEMMA AtMostOne ==
  ASSUME NEW S, \A x, y \in S : x = y
  PROVE  IsFiniteSet(S) /\ Cardinality(S) <= 1
<1>1. CASE S = {}
  BY <1>1, FS_EmptySet
<1>2. CASE S # {}
  <2>1. PICK x \in S : TRUE
    BY <1>2
  <2>2. S = {x}
    BY <2>1
  <2>3. IsFiniteSet({x}) /\ Cardinality({x}) = 1
    BY FS_Singleton
  <2> QED
    BY <2>2, <2>3
<1> QED
  BY <1>1, <1>2

(* A part's Cardinality is the library's.                                  *)
LEMMA SameCardinality ==
  \A S : OnDisk!Cardinality(S) = Cardinality(S) /\ Studio!Cardinality(S) = Cardinality(S)
BY DEF Cardinality, OnDisk!Cardinality, Studio!Cardinality

-----------------------------------------------------------------------------
(* Detached: a command that is past its reading has a process id in hand.  *)
InHand ==
  /\ verb \in [Commands -> Detached!Verbs]
  /\ \A c \in Commands :
       at[c] \in {"ask", "truncate", "write", "stop", "remove"} => seen[c] \in Pids
  /\ met = {} => \A c, d \in Detached!UnderWay : c = d

(* Until commands overlap, what runs and is not lost is what the record    *)
(* names or a command is about to write to it, and a command knows it.     *)
Writing == {c \in Commands : at[c] \in {"truncate", "write"}}

Known ==
  met = {} =>
    /\ \A p \in Pids \ lost : Detached!Running(p) =>
         (record = "whole" /\ named = p) \/ \E c \in Writing : seen[c] = p
    /\ \A c \in Writing : \A p \in Pids \ lost : Detached!Running(p) => p = seen[c]
    /\ \A c \in Commands :
         /\ at[c] \in {"ask", "stop", "remove"} => record = "whole" /\ named = seen[c]
         /\ at[c] = "spawn" => \A p \in Pids \ lost : ~Detached!Running(p)
         /\ at[c] = "write" => record = "cut"

DetachedInv == part = "detached" => Detached!TypeOK /\ InHand /\ Known

LEMMA DetachedStarts == PartsInit => DetachedInv
<1> SUFFICES ASSUME PartsInit, part = "detached"
             PROVE  Detached!TypeOK /\ InHand /\ Known
  BY DEF DetachedInv
<1>1. Detached!Init
  BY DEF PartsInit
<1> QED
  BY <1>1 DEF Detached!Init, Detached!TypeOK, InHand, Known, Detached!Running, Detached!UnderWay,
              Detached!Ended, Writing, Detached!Verbs

LEMMA DetachedLoads ==
  ASSUME Detached!DetachedAssumption, Detached!TypeOK, InHand, Known,
         NEW c \in Commands, Detached!Load(c)
  PROVE  Detached!TypeOK' /\ InHand' /\ Known'
<1>1. Detached!TypeOK'
  BY DEF Detached!TypeOK, Detached!Load, Detached!Become, Detached!UnderWay, Detached!Ended
<1>2. InHand'
  BY DEF Detached!TypeOK, InHand, Detached!Load, Detached!Become, Detached!UnderWay,
         Detached!Ended, Detached!Running, Detached!DetachedAssumption
<1>3. Known'
  BY DEF Detached!TypeOK, InHand, Known, Detached!Load, Detached!Become, Detached!UnderWay,
         Detached!Ended, Detached!Running, Writing, Detached!DetachedAssumption
<1> QED
  BY <1>1, <1>2, <1>3

LEMMA DetachedSteps ==
  ASSUME Detached!DetachedAssumption, Detached!TypeOK, InHand, Known,
         Detached!Next \/ UNCHANGED detachedVars
  PROVE  Detached!TypeOK' /\ InHand' /\ Known'
<1> USE DEF Detached!DetachedAssumption, Detached!TypeOK, InHand, Known, Detached!Become,
            Detached!UnderWay, Detached!Ended, Detached!Running, Writing, Detached!Verbs
<1>1. ASSUME NEW c \in Commands, Detached!Load(c)
      PROVE  Detached!TypeOK' /\ InHand' /\ Known'
  BY <1>1, DetachedLoads
<1>2. ASSUME NEW c \in Commands, Detached!Ask(c)
      PROVE  Detached!TypeOK' /\ InHand' /\ Known'
  BY <1>2 DEF Detached!Ask, Detached!Alive
<1>3. ASSUME NEW c \in Commands, Detached!Spawn(c)
      PROVE  Detached!TypeOK' /\ InHand' /\ Known'
  BY <1>3 DEF Detached!Spawn
<1>4. ASSUME NEW c \in Commands, Detached!Truncate(c)
      PROVE  Detached!TypeOK' /\ InHand' /\ Known'
  BY <1>4 DEF Detached!Truncate
<1>5. ASSUME NEW c \in Commands, Detached!Write(c)
      PROVE  Detached!TypeOK' /\ InHand' /\ Known'
  BY <1>5 DEF Detached!Write
<1>6. ASSUME NEW c \in Commands, Detached!Stop(c)
      PROVE  Detached!TypeOK' /\ InHand' /\ Known'
  BY <1>6 DEF Detached!Stop
<1>7. ASSUME NEW c \in Commands, Detached!Remove(c)
      PROVE  Detached!TypeOK' /\ InHand' /\ Known'
  BY <1>7 DEF Detached!Remove
<1>8. ASSUME NEW c \in Commands, Detached!Fails(c)
      PROVE  Detached!TypeOK' /\ InHand' /\ Known'
  BY <1>8 DEF Detached!Fails, Detached!Unrecorded
<1>9. ASSUME NEW c \in Commands, Detached!Kill(c)
      PROVE  Detached!TypeOK' /\ InHand' /\ Known'
  BY <1>9 DEF Detached!Kill, Detached!Unrecorded
<1>10. ASSUME NEW p \in Pids, Detached!RunEnds(p)
       PROVE  Detached!TypeOK' /\ InHand' /\ Known'
  BY <1>10 DEF Detached!RunEnds
<1>11. ASSUME NEW p \in Pids, Detached!Reuse(p)
       PROVE  Detached!TypeOK' /\ InHand' /\ Known'
  BY <1>11 DEF Detached!Reuse
<1>12. CASE UNCHANGED detachedVars
  BY <1>12 DEF detachedVars
<1> QED
  BY <1>1, <1>2, <1>3, <1>4, <1>5, <1>6, <1>7, <1>8, <1>9, <1>10, <1>11, <1>12 DEF Detached!Next

LEMMA DetachedFound ==
  ASSUME Detached!TypeOK, InHand, Known
  PROVE  Detached!OneFindableRun
BY DEF Known, InHand, Writing, Detached!TypeOK, Detached!OneFindableRun, Detached!Named,
       Detached!Recording

(* Until commands overlap, and whichever of them fail or are killed, a     *)
(* workflow has one detached run, and its record names it or is being      *)
(* written by the command that started it; but for runs whose `up` could   *)
(* not record them or whose `down` did not wait for them (compose.go,      *)
(* workflow/session.go), for any number of commands and process ids.       *)
THEOREM DetachedFindable == PartsSpec => []DetachedRunsAreFound
<1>1. PartsInit => DetachedInv
  BY DetachedStarts
<1>2. DetachedInv /\ [PartsNext]_all => DetachedInv'
  BY StepOfPart, DetachedSteps, DetachedAssumption DEF DetachedInv
<1>3. DetachedInv => DetachedRunsAreFound
  BY DetachedFound DEF DetachedInv, DetachedRunsAreFound
<1> QED
  BY <1>1, <1>2, <1>3, PTL DEF PartsSpec

-----------------------------------------------------------------------------
(* Studio: an open page whose pings have arrived keeps every age the       *)
(* watcher looks at below its limit.                                       *)
Ages ==
  /\ busy \in BOOLEAN /\ pinged \in BOOLEAN /\ dones \in [Pages -> {0, 1}]
  /\ closing \in 0..CloseGrace + 1 \cup {Studio!NotClosing}
  /\ lastPing \in Nat /\ sinceStart \in Nat

Heeded ==
  \A p \in Studio!Heard :
    /\ pinged /\ lastPing + due[p] <= PingEvery
    /\ closing # Studio!NotClosing => closing + due[p] <= PingEvery

(* The slot is taken by the one handler that claimed it, which alone has a *)
(* process.                                                                *)
Slot ==
  /\ gone \subseteq {p \in Pages : phase[p] # "none"}
  /\ \A p \in Pages : page[p] = "away" /\ phase[p] # "none" => p \in gone
  /\ server = "up" =>
       /\ \A p \in Studio!Held : busy
       /\ \A p, q \in Studio!Held : p = q
       /\ busy => Studio!Held # {}
       /\ \A p \in Pages : child[p] # "none" => phase[p] = "waiting"

Watched == Studio!TypeOK /\ Ages /\ Heeded /\ Studio!NeverUnderAPage

StudioInv == part = "studio" => Watched /\ Slot /\ Studio!ToldOnce

LEMMA StudioStarts == PartsInit => StudioInv
<1> SUFFICES ASSUME Studio!Init PROVE Watched /\ Slot /\ Studio!ToldOnce
  BY DEF StudioInv, PartsInit
<1>1. /\ PingEvery \in Nat /\ CloseGrace \in Nat /\ Silence \in Nat
  BY StudioAssumption DEF Studio!StudioAssumption
<1>2. Studio!TypeOK /\ Studio!NeverUnderAPage
  BY <1>1 DEF Studio!Init, Studio!TypeOK, Studio!NeverUnderAPage
<1>3. Ages /\ Heeded
  BY <1>1 DEF Studio!Init, Ages, Heeded, Studio!Heard, Studio!OpenPages, Studio!NotClosing
<1>4. Slot /\ Studio!ToldOnce
  BY DEF Studio!Init, Slot, Studio!ToldOnce, Studio!Held
<1> QED
  BY <1>2, <1>3, <1>4 DEF Watched

(* What the steps of a run do not touch.                                   *)
RunTypes ==
  /\ busy \in BOOLEAN /\ req \in [Pages -> {"none", "run", "test"}]
  /\ phase \in [Pages -> {"none", "asked", "claimed", "waiting"}]
  /\ child \in [Pages -> {"none", "alive", "asked", "ended", "killed"}]
  /\ dones \in [Pages -> {0, 1}] /\ gone \subseteq Pages

RunStep(p) ==
  \/ Studio!AskRun(p) \/ Studio!StopButton(p)
  \/ Studio!Handler(p) \/ Studio!Interrupt(p) \/ Studio!ChildEnds(p)
  \/ Studio!WindsUp(p) \/ Studio!KillChild(p)

LEMMA RunSteps ==
  ASSUME RunTypes, NEW p \in Pages, RunStep(p)
  PROVE  /\ RunTypes'
         /\ UNCHANGED <<server, page, due, flight, closing, pinged, lastPing, sinceStart,
                      watcher, looked>>
<1> USE DEF RunTypes, Studio!Release, Studio!liveness, Studio!watch
<1>1. CASE Studio!AskRun(p)
  BY <1>1 DEF Studio!AskRun
<1>2. CASE Studio!Claim(p)
  BY <1>2 DEF Studio!Claim
<1>3. CASE Studio!Start(p)
  BY <1>3 DEF Studio!Start
<1>4. CASE Studio!StartFails(p)
  BY <1>4 DEF Studio!StartFails
<1>5. CASE Studio!Finish(p)
  BY <1>5 DEF Studio!Finish
<1>6. CASE Studio!Interrupt(p)
  BY <1>6 DEF Studio!Interrupt
<1>7. CASE Studio!ChildEnds(p)
  BY <1>7 DEF Studio!ChildEnds
<1>8. CASE Studio!WindsUp(p) \/ Studio!KillChild(p)
  BY <1>8 DEF Studio!WindsUp, Studio!KillChild
<1>9. CASE Studio!StopButton(p)
  BY <1>9 DEF Studio!StopButton
<1> QED
  BY <1>1, <1>2, <1>3, <1>4, <1>5, <1>6, <1>7, <1>8, <1>9 DEF RunStep, Studio!Handler

(* The pages and the watcher.                                              *)
LEMMA WatchedSteps ==
  ASSUME Watched, Studio!Next \/ UNCHANGED studioVars
  PROVE  Watched'
<1>1. /\ PingEvery \in Nat \ {0} /\ CloseGrace \in Nat /\ Silence \in Nat /\ NeverOpened \in Nat
      /\ PingEvery <= CloseGrace /\ CloseGrace <= Silence
  BY StudioAssumption DEF Studio!StudioAssumption
<1> USE <1>1 DEF Watched, Studio!TypeOK, Ages, Heeded, Studio!Heard, Studio!OpenPages,
                 Studio!NeverUnderAPage, Studio!NotClosing, Studio!watch
<1>2. ASSUME NEW p \in Pages, Studio!OpenPage(p) PROVE Watched'
  BY <1>2 DEF Studio!OpenPage, Studio!liveness
<1>3. ASSUME NEW p \in Pages, Studio!Ping(p) PROVE Watched'
  BY <1>3 DEF Studio!Ping, Studio!liveness, Studio!runs
<1>4. ASSUME NEW p \in Pages, Studio!LeavePage(p) PROVE Watched'
  BY <1>4 DEF Studio!LeavePage, Studio!liveness
<1>5. CASE Studio!Handle
  <2>1. PICK m \in flight : /\ flight' = flight \ {m}
                            /\ IF m[1] = "ping"
                                 THEN pinged' = TRUE /\ lastPing' = 0 /\ closing' = Studio!NotClosing
                                 ELSE closing' = 0 /\ UNCHANGED <<pinged, lastPing>>
                            /\ UNCHANGED <<server, page, due, sinceStart, watcher, looked, busy,
                                           req, phase, gone, child, dones>>
    BY <1>5 DEF Studio!Handle, Studio!runs
  <2>2. Studio!TypeOK' /\ Studio!NeverUnderAPage'
    BY <2>1
  <2>4. Ages'
    <3>1. closing \in 0..CloseGrace + 1 \cup {Studio!NotClosing} /\ lastPing \in Nat
      OBVIOUS
    <3>2. closing' \in 0..CloseGrace + 1 \cup {Studio!NotClosing} /\ lastPing' \in Nat
      BY ONLY <1>1, <2>1, <3>1
    <3>3. pinged' \in BOOLEAN
      BY <2>1, Zenon
    <3> QED
      BY <2>1, <3>2, <3>3
  <2>3. Heeded'
    <3>1. m \in {"ping", "closing"} \X Pages
      BY <2>1
    <3>2. PICK q \in Pages : m = <<m[1], q>>
      BY <3>1
    <3>3. \A p \in Pages : page[p] = "open" /\ <<"ping", p>> \notin flight' =>
            p \in Studio!Heard \/ m = <<"ping", p>>
      BY <2>1
    <3> QED
      BY <2>1, <3>2, <3>3
  <2> QED
    BY <2>2, <2>3, <2>4
<1>6. CASE Studio!Tick
  <2>1. Studio!TypeOK' /\ Studio!NeverUnderAPage'
    BY <1>6 DEF Studio!Tick, Studio!runs
  <2>2. Ages'
    BY <1>6 DEF Studio!Tick, Studio!Older, Studio!runs
  <2>3. Heeded'
    BY <1>6 DEF Studio!Tick, Studio!Older, Studio!runs
  <2> QED
    BY <2>1, <2>2, <2>3
<1>7. CASE Studio!Look
  BY <1>7 DEF Studio!Look, Studio!Expired, Studio!liveness, Studio!runs
<1>8. ASSUME NEW why \in {"closed", "signal"}, Studio!Gone(why) PROVE Watched'
  <2>1. Studio!TypeOK' /\ Studio!NeverUnderAPage'
    BY <1>8 DEF Studio!Gone
  <2>2. Ages' /\ Heeded'
    BY <1>8 DEF Studio!Gone
  <2> QED
    BY <2>1, <2>2
<1>9. CASE Studio!CheckSlot \/ Studio!Stop \/ Studio!Terminate
  BY <1>8, <1>9 DEF Studio!CheckSlot, Studio!Stop, Studio!Terminate, Studio!liveness, Studio!runs
<1>10. ASSUME NEW p \in Pages, RunStep(p) PROVE Watched'
  <2>1. RunTypes
    BY DEF RunTypes
  <2>2. /\ RunTypes'
        /\ UNCHANGED <<server, page, due, flight, closing, pinged, lastPing, sinceStart,
                       watcher, looked>>
    BY <1>10, <2>1, RunSteps
  <2> QED
    BY <2>2 DEF RunTypes
<1>11. CASE UNCHANGED studioVars
  BY <1>11 DEF studioVars
<1> QED
  BY <1>2, <1>3, <1>4, <1>5, <1>6, <1>7, <1>9, <1>10, <1>11 DEF Studio!Next, RunStep

(* The slot and its handler, and what a page hears of its run.             *)
LEMMA SlotSteps ==
  ASSUME Watched, Slot, Studio!ToldOnce, Studio!Next \/ UNCHANGED studioVars
  PROVE  Slot' /\ Studio!ToldOnce'
<1> USE DEF Slot, Studio!ToldOnce, Studio!Held
<1>1. /\ busy \in BOOLEAN /\ dones \in [Pages -> {0, 1}] /\ page \in [Pages -> {"away", "open"}]
      /\ req \in [Pages -> {"none", "run", "test"}]
      /\ phase \in [Pages -> {"none", "asked", "claimed", "waiting"}]
      /\ child \in [Pages -> {"none", "alive", "asked", "ended", "killed"}]
  BY DEF Watched, Studio!TypeOK, Ages
<1>2. ASSUME NEW p \in Pages, Studio!OpenPage(p) \/ Studio!Ping(p) \/ Studio!LeavePage(p)
      PROVE  Slot' /\ Studio!ToldOnce'
  BY <1>1, <1>2 DEF Studio!OpenPage, Studio!Ping, Studio!LeavePage, Studio!liveness, Studio!runs
<1>3. CASE Studio!Handle \/ Studio!Tick \/ Studio!Look
  BY <1>1, <1>3 DEF Studio!Handle, Studio!Tick, Studio!Look, Studio!liveness, Studio!runs
<1>4. CASE Studio!CheckSlot
  BY <1>1, <1>4 DEF Studio!CheckSlot, Studio!liveness, Studio!runs
<1>5. CASE Studio!Stop \/ Studio!Terminate
  BY <1>1, <1>5 DEF Studio!Stop, Studio!Terminate, Studio!Gone
<1>6. ASSUME NEW p \in Pages, Studio!AskRun(p) \/ Studio!StopButton(p) \/ Studio!Claim(p)
      PROVE  Slot' /\ Studio!ToldOnce'
  BY <1>1, <1>6 DEF Studio!AskRun, Studio!StopButton, Studio!Claim
<1>7. ASSUME NEW p \in Pages, Studio!Start(p) \/ Studio!StartFails(p) \/ Studio!Finish(p)
      PROVE  Slot' /\ Studio!ToldOnce'
  BY <1>1, <1>7 DEF Studio!Start, Studio!StartFails, Studio!Finish, Studio!Release
<1>8. ASSUME NEW p \in Pages,
             \/ Studio!Interrupt(p) \/ Studio!ChildEnds(p) \/ Studio!WindsUp(p)
             \/ Studio!KillChild(p)
      PROVE  Slot' /\ Studio!ToldOnce'
  BY <1>1, <1>8 DEF Studio!Interrupt, Studio!ChildEnds, Studio!WindsUp, Studio!KillChild
<1>9. CASE UNCHANGED studioVars
  BY <1>9 DEF studioVars
<1> QED
  BY <1>2, <1>3, <1>4, <1>5, <1>6, <1>7, <1>8, <1>9 DEF Studio!Next, Studio!Handler

LEMMA StudioHolds ==
  ASSUME Watched, Slot, Studio!ToldOnce
  PROVE  Studio!OneRunAtATime /\ Studio!AbandonedExpires
<1>1. server = "up" => Cardinality(Studio!Held) = IF busy THEN 1 ELSE 0
  <2>1. CASE server = "up" /\ ~busy
    <3>1. Studio!Held = {}
      BY <2>1 DEF Slot
    <3> QED
      BY <2>1, <3>1, FS_EmptySet
  <2>2. CASE server = "up" /\ busy
    <3>1. PICK p : Studio!Held = {p}
      BY <2>2 DEF Slot
    <3> QED
      BY <2>2, <3>1, FS_Singleton
  <2> QED
    BY <2>1, <2>2
<1>2. server = "up" => {p \in Pages : child[p] # "none"} \subseteq Studio!Held
  BY DEF Slot, Studio!Held
<1> QED
  BY <1>1, <1>2, SameCardinality DEF Studio!OneRunAtATime, Studio!AbandonedExpires, Studio!Settled,
                                     Studio!Expired

(* The editor does not find its time expired under a page whose pings      *)
(* arrive, does when it is abandoned, runs one thing at a time and says    *)
(* once, to a page that did not stop it, how that ended (workspace.go,     *)
(* run.go), for any number of pages and all limits in the order of the     *)
(* code's.                                                                 *)
THEOREM EditorStays == PartsSpec => []EditorOutlivesItsPages
<1>1. PartsInit => StudioInv
  BY StudioStarts
<1>2. StudioInv /\ [PartsNext]_all => StudioInv'
  BY StepOfPart, WatchedSteps, SlotSteps DEF StudioInv
<1>3. StudioInv => EditorOutlivesItsPages
  BY StudioHolds DEF StudioInv, Watched, EditorOutlivesItsPages
<1> QED
  BY <1>1, <1>2, <1>3, PTL DEF PartsSpec

-----------------------------------------------------------------------------
(* SharedFiles: what the places of the processes say of the files.  Two    *)
(* operations that are under way have met, and an inode that is not made   *)
(* yet has no name.                                                        *)
FileTypes ==
  /\ policy \in OnDisk!Policies
  /\ main \in SUBSET OnDisk!Inodes /\ \A i, j \in main : i = j
  /\ temp \in SUBSET OnDisk!Inodes /\ \A i, j \in temp : i = j
  /\ inode \in [OnDisk!Inodes -> [entries : SUBSET OnDisk!Inodes, state : {"empty", "torn", "whole"}]]
  /\ pc \in [Procs -> OnDisk!Ended \cup {"loaded", "open", "written"}]
  /\ view \in [Procs -> SUBSET OnDisk!Inodes] /\ fd \in [Procs -> OnDisk!Inodes]
  /\ told \in [Procs -> SUBSET OnDisk!Inodes] /\ overlaps \subseteq SUBSET Procs

Met ==
  /\ \A p, q \in OnDisk!UnderWay : p # q => {p, q} \in overlaps
  /\ \A p \in Procs : pc[p] \in {"start", "loaded"} => p \notin main \cup temp

(* A process that has opened a file is alone with it, if it has one of its *)
(* own, or if no operations have overlapped.                               *)
Alone(p, i) ==
  /\ pc[p] = "open" => inode[i] = OnDisk!Blank
  /\ pc[p] = "written" => inode[i] = OnDisk!Whole(view[p])

AllWhole == \A i \in main : inode[i].state = "whole"

Private ==
  policy.temp = "private" =>
    /\ AllWhole
    /\ \A p \in Procs : pc[p] \in {"open", "written"} => fd[p] = p /\ p \notin main /\ Alone(p, p)

Shared ==
  policy.temp = "shared" /\ overlaps = {} =>
    /\ AllWhole /\ main \cap temp = {}
    /\ \A p \in Procs : pc[p] \in {"open", "written"} => temp = {fd[p]} /\ Alone(p, fd[p])

InPlace ==
  policy.temp = "place" =>
    /\ \A p \in Procs : pc[p] # "written"
    /\ overlaps = {} => \A p \in Procs : pc[p] = "open" => main = {fd[p]} /\ Alone(p, fd[p])
    /\ OnDisk!CutShort \/ AllWhole

(* An entry that was reported as stored is on its way to stay: it is in    *)
(* the file and in what every writer is about to write, unless something   *)
(* happened that may undo it and cannot be taken back.                     *)
Lost(p) ==
  \/ \E q \in Removes : pc[q] \in {"done", "killed", "failed"}
  \/ \E q \in Procs : {p, q} \in overlaps
  \/ policy.temp = "shared" /\ overlaps # {}
  \/ policy.temp = "place" /\ (overlaps # {} \/ \E q \in Procs : pc[q] \in {"failed", "killed"})
  \/ ~policy.reads

InFile(e) == \E i \in main : e \in inode[i].entries

Stays ==
  \A p \in Procs : Lost(p) \/ \A e \in told[p] :
    /\ InFile(e) \/ (policy.temp = "place" /\ \E q \in Procs : pc[q] = "open")
    /\ \A q \in Adds : pc[q] \in {"loaded", "open", "written"} => e \in view[q]

FileState == FileTypes /\ Met /\ Private /\ Shared /\ InPlace

FilesInv == part = "files" => FileState /\ Stays

LEMMA PolicyFacts ==
  /\ \A f \in OnDisk!Policies :
       /\ f.temp \in {"shared", "private", "place"} /\ f.reads \in BOOLEAN
       /\ f.reads => f # OnDisk!WorkflowRecord
  /\ OnDisk!WorkflowRecord.temp = "place"
BY DEF OnDisk!Policies, OnDisk!Policy, OnDisk!SecretsFile, OnDisk!DownloadsFile, OnDisk!BenchmarksFile,
       OnDisk!SessionFile, OnDisk!CredentialsFile, OnDisk!ApiKeyFile, OnDisk!MasterKeyFile,
       OnDisk!WorkflowRecord

LEMMA FilesStart == PartsInit => FilesInv
<1> SUFFICES ASSUME OnDisk!Init PROVE FileState /\ Stays
  BY DEF FilesInv, PartsInit
<1> USE DEF OnDisk!Init, OnDisk!NoInode, OnDisk!Inodes
<1>1. Nobody \notin Procs
  BY FilesAssumption DEF OnDisk!SharedFilesAssumption
<1>2. FileTypes
  BY DEF FileTypes, OnDisk!Blank, OnDisk!Whole, OnDisk!Ended
<1>3. Met
  BY <1>1 DEF Met, OnDisk!UnderWay, OnDisk!Ended
<1>4. AllWhole
  BY <1>1 DEF AllWhole, OnDisk!Whole
<1>5. Private /\ Shared /\ InPlace
  BY <1>4 DEF Private, Shared, InPlace, Alone
<1>6. Stays
  BY DEF Stays
<1> QED
  BY <1>2, <1>3, <1>5, <1>6 DEF FileState

(* What the file's name stands for.                                        *)
LEMMA ContentIs ==
  ASSUME FileTypes
  PROVE  /\ main = {} => OnDisk!Content = OnDisk!Whole({})
         /\ \A i \in main : OnDisk!Content = inode[i] /\ main = {i}
         /\ \A e : e \in OnDisk!Content.entries <=> InFile(e)
<1>1. main = {} => OnDisk!Content = OnDisk!Whole({})
  BY DEF OnDisk!Content, OnDisk!NoInode
<1>2. \A i \in main : OnDisk!Content = inode[i] /\ main = {i}
  <2> SUFFICES ASSUME NEW i \in main PROVE OnDisk!Content = inode[i] /\ main = {i}
    OBVIOUS
  <2>1. main = {i}
    BY DEF FileTypes
  <2>2. (CHOOSE k \in main : TRUE) = i
    BY <2>1
  <2> QED
    BY <2>1, <2>2 DEF OnDisk!Content, OnDisk!NoInode
<1>3. \A e : e \in OnDisk!Content.entries <=> InFile(e)
  <2>1. CASE main = {}
    BY <1>1, <2>1 DEF InFile, OnDisk!Whole
  <2>2. CASE main # {}
    <3>1. PICK i \in main : TRUE
      BY <2>2
    <3> QED
      BY <1>2, <3>1 DEF InFile
  <2> QED
    BY <2>1, <2>2
<1> QED
  BY <1>1, <1>2, <1>3

(* The four ends of a reading.                                             *)
LEMMA LoadIs ==
  ASSUME FileTypes, NEW p \in Procs, OnDisk!Load(p)
  PROVE  /\ pc[p] = "start" /\ UNCHANGED <<policy, main, temp, inode, fd>>
         /\ overlaps' = overlaps \cup {{p, q} : q \in OnDisk!UnderWay}
         /\ \/ /\ pc' = [pc EXCEPT ![p] = "failed"] /\ view' = view /\ told' = told
               /\ ~AllWhole
            \/ /\ pc' = [pc EXCEPT ![p] = "done"] /\ view' = view
               /\ \E S \in SUBSET OnDisk!Content.entries : told' = [told EXCEPT ![p] = S]
            \/ /\ pc' = [pc EXCEPT ![p] = "done"] /\ view' = view /\ told' = told /\ p \in Removes
            \/ /\ pc' = [pc EXCEPT ![p] = "loaded"] /\ told' = told
               /\ \E S \in SUBSET OnDisk!Content.entries :
                    /\ view' = [view EXCEPT ![p] = OnDisk!Changed(p, S)]
                    /\ AllWhole /\ policy.reads => S = OnDisk!Content.entries
<1>1. AllWhole => main = {} \/ OnDisk!Content.state = "whole"
  BY ContentIs DEF AllWhole
<1>2. PICK legible : legible = (main = {} \/ OnDisk!Content.state = "whole")
  OBVIOUS
<1>3. PICK got : got = IF legible /\ policy.reads THEN OnDisk!Content.entries ELSE {}
  OBVIOUS
<1>4. got \in SUBSET OnDisk!Content.entries /\ (AllWhole /\ policy.reads => got = OnDisk!Content.entries)
  BY <1>1, <1>2, <1>3
<1>5. /\ pc[p] = "start" /\ UNCHANGED <<policy, main, temp, inode, fd>>
      /\ overlaps' = overlaps \cup {{p, q} : q \in OnDisk!UnderWay}
  BY DEF OnDisk!Load
<1>6. \/ ~legible /\ pc' = [pc EXCEPT ![p] = "failed"] /\ UNCHANGED <<view, told>>
      \/ /\ pc' = [pc EXCEPT ![p] = "done"]
         /\ told' = [told EXCEPT ![p] = got] /\ UNCHANGED view
      \/ p \in Removes /\ pc' = [pc EXCEPT ![p] = "done"] /\ UNCHANGED <<view, told>>
      \/ /\ pc' = [pc EXCEPT ![p] = "loaded"]
         /\ view' = [view EXCEPT ![p] = OnDisk!Changed(p, got)] /\ UNCHANGED told
  BY <1>2, <1>3 DEF OnDisk!Load, OnDisk!Become, OnDisk!NoInode
<1> QED
  BY <1>1, <1>2, <1>4, <1>5, <1>6

(* Operations that did not overlap were not under way together, and then,  *)
(* or with a temporary file of its own, what a process writes is not the   *)
(* file yet.                                                               *)
Sheltered == policy.temp = "private" \/ (policy.temp = "shared" /\ overlaps = {})

LEMMA OneUnderWay ==
  ASSUME Met, overlaps = {}
  PROVE  \A p, q \in OnDisk!UnderWay : p = q
BY DEF Met

LEMMA OwnFile ==
  ASSUME FileState, Sheltered, NEW p \in Procs, pc[p] \in {"open", "written"}
  PROVE  fd[p] \notin main /\ Alone(p, fd[p])
<1>1. CASE policy.temp = "private"
  BY <1>1 DEF FileState, Private
<1>2. CASE policy.temp = "shared" /\ overlaps = {}
  BY <1>2 DEF FileState, Shared
<1> QED
  BY <1>1, <1>2 DEF Sheltered

LEMMA OneOfThree ==
  ASSUME FileTypes
  PROVE  /\ policy.temp \in {"shared", "private", "place"} /\ policy.reads \in BOOLEAN
         /\ policy.reads => policy # OnDisk!WorkflowRecord
         /\ policy = OnDisk!WorkflowRecord => policy.temp = "place"
BY PolicyFacts DEF FileTypes

(* What may undo an entry cannot be taken back.                            *)
LEMMA LostStays ==
  ASSUME policy' = policy, overlaps \subseteq overlaps',
         \A q \in Procs : pc[q] \in {"done", "killed", "failed"} => pc'[q] = pc[q],
         NEW r \in Procs, Lost(r), Removes \subseteq Procs
  PROVE  Lost(r)'
BY DEF Lost

LEMMA FilesLoad ==
  ASSUME OnDisk!SharedFilesAssumption, FileState, Stays, NEW p \in Procs, OnDisk!Load(p)
  PROVE  FileState' /\ Stays'
<1> USE DEF FileState
<1>0. PICK who : who = {{p, q} : q \in OnDisk!UnderWay}
  OBVIOUS
<1>1. /\ pc[p] = "start" /\ UNCHANGED <<policy, main, temp, inode, fd>>
      /\ overlaps' = overlaps \cup who
      /\ \/ /\ pc' = [pc EXCEPT ![p] = "failed"] /\ view' = view /\ told' = told
            /\ ~AllWhole
         \/ /\ pc' = [pc EXCEPT ![p] = "done"] /\ view' = view
            /\ \E S \in SUBSET OnDisk!Content.entries : told' = [told EXCEPT ![p] = S]
         \/ /\ pc' = [pc EXCEPT ![p] = "done"] /\ view' = view /\ told' = told /\ p \in Removes
         \/ /\ pc' = [pc EXCEPT ![p] = "loaded"] /\ told' = told
            /\ \E S \in SUBSET OnDisk!Content.entries :
                 /\ view' = [view EXCEPT ![p] = OnDisk!Changed(p, S)]
                 /\ AllWhole /\ policy.reads => S = OnDisk!Content.entries
  BY ONLY <1>0, FileState, OnDisk!Load(p), p \in Procs, LoadIs DEF FileState
<1>2. /\ \A q \in OnDisk!UnderWay : {p, q} \in overlaps'
      /\ OnDisk!UnderWay \subseteq Procs /\ who \subseteq SUBSET Procs
      /\ overlaps' = {} => overlaps = {} /\ OnDisk!UnderWay = {}
  <2>1. \A q \in OnDisk!UnderWay : {p, q} \in who
    BY ONLY <1>0
  <2>2. OnDisk!UnderWay \subseteq Procs
    BY ONLY DEF OnDisk!UnderWay
  <2>3. who \subseteq SUBSET Procs
    BY ONLY <1>0, <2>2, p \in Procs
  <2>4. overlaps' = overlaps \cup who
    BY ONLY <1>1
  <2> QED
    BY ONLY <2>1, <2>2, <2>3, <2>4
<1>3. /\ pc \in [Procs -> OnDisk!Ended \cup {"loaded", "open", "written"}]
      /\ view \in [Procs -> SUBSET OnDisk!Inodes] /\ told \in [Procs -> SUBSET OnDisk!Inodes]
  BY DEF FileTypes
<1>4. \E x \in {"failed", "done", "loaded"} : pc' = [pc EXCEPT ![p] = x]
  BY ONLY <1>1
<1>5. \A q \in Procs : q # p => pc'[q] = pc[q] /\ view'[q] = view[q] /\ told'[q] = told[q]
  BY ONLY <1>1, <1>3
<1>6. pc'[p] \in {"failed", "done", "loaded"}
  BY ONLY <1>3, <1>4, p \in Procs
<1>7. OnDisk!UnderWay' \subseteq OnDisk!UnderWay \cup {p}
  BY ONLY <1>5, p \in Procs DEF OnDisk!UnderWay
<1>8. FileTypes'
  <2>1. OnDisk!Content.entries \in SUBSET OnDisk!Inodes
    BY ContentIs DEF FileTypes, InFile
  <2>2. pc' \in [Procs -> OnDisk!Ended \cup {"loaded", "open", "written"}]
    BY ONLY <1>3, <1>4 DEF OnDisk!Ended
  <2>3. \A S \in SUBSET OnDisk!Content.entries : OnDisk!Changed(p, S) \in SUBSET OnDisk!Inodes
    BY <2>1 DEF OnDisk!Changed, OnDisk!Inodes
  <2>4. view' \in [Procs -> SUBSET OnDisk!Inodes]
    BY ONLY <1>1, <1>3, <2>3
  <2>5. told' \in [Procs -> SUBSET OnDisk!Inodes]
    BY ONLY <1>1, <1>3, <2>1
  <2>6. overlaps' \subseteq SUBSET Procs
    BY <1>1, <1>2 DEF FileTypes
  <2> QED
    BY <1>1, <2>2, <2>4, <2>5, <2>6 DEF FileTypes
<1>9. Met'
  <2>1. \A q, r \in OnDisk!UnderWay' : q # r => {q, r} \in overlaps'
    <3> SUFFICES ASSUME NEW q \in OnDisk!UnderWay', NEW r \in OnDisk!UnderWay', q # r
                 PROVE  {q, r} \in overlaps'
      OBVIOUS
    <3>1. CASE q = p
      BY <1>2, <1>7, <3>1
    <3>2. CASE r = p
      <4>1. {q, r} = {p, q}
        BY <3>2
      <4> QED
        BY <1>2, <1>7, <3>2, <4>1
    <3>3. CASE q # p /\ r # p
      BY <1>1, <1>7, <3>3 DEF Met
    <3> QED
      BY <3>1, <3>2, <3>3
  <2>2. \A q \in Procs : pc'[q] \in {"start", "loaded"} => q \notin main' \cup temp'
    BY <1>1, <1>5 DEF Met
  <2> QED
    BY <2>1, <2>2 DEF Met
<1>10. AllWhole' = AllWhole
  BY <1>1 DEF AllWhole
<1>11. Private'
  <2> SUFFICES ASSUME policy.temp = "private"
               PROVE  /\ AllWhole'
                      /\ \A q \in Procs : pc'[q] \in {"open", "written"} =>
                           fd'[q] = q /\ q \notin main' /\ Alone(q, q)'
    BY <1>1 DEF Private
  <2> QED
    BY <1>1, <1>5, <1>6, <1>10 DEF Private, Alone
<1>12. overlaps' = {} => \A q \in Procs : pc'[q] \notin {"open", "written"}
  BY <1>2, <1>5, <1>6 DEF OnDisk!UnderWay, OnDisk!Ended
<1>13. Shared'
  <2> SUFFICES ASSUME policy.temp = "shared", overlaps' = {}
               PROVE  AllWhole' /\ main' \cap temp' = {}
    BY <1>1, <1>12 DEF Shared
  <2> QED
    BY <1>1, <1>2, <1>10 DEF Shared
<1>14. InPlace'
  <2> SUFFICES ASSUME policy.temp = "place"
               PROVE  (\A q \in Procs : pc'[q] # "written") /\ (OnDisk!CutShort' \/ AllWhole')
    BY <1>1, <1>12 DEF InPlace
  <2>1. \A q \in Procs : pc'[q] # "written"
    BY <1>5, <1>6 DEF InPlace
  <2>2. OnDisk!CutShort => OnDisk!CutShort'
    BY <1>1, <1>5 DEF OnDisk!CutShort
  <2> QED
    BY <1>10, <2>1, <2>2 DEF InPlace
<1>15. Stays'
  <2> SUFFICES ASSUME NEW r \in Procs, ~Lost(r)', NEW e \in told'[r]
               PROVE  /\ InFile(e)' \/ (policy.temp = "place" /\ \E q \in Procs : pc'[q] = "open")
                      /\ \A q \in Adds : pc'[q] \in {"loaded", "open", "written"} => e \in view'[q]
    BY <1>1 DEF Stays
  <2>0. Adds \subseteq Procs /\ Removes \subseteq Procs
    BY DEF OnDisk!SharedFilesAssumption
  <2>1. ~Lost(r)
    BY <1>1, <1>5, <2>0, LostStays
  <2>2. InFile(e)' = InFile(e)
    BY <1>1 DEF InFile
  <2>3. CASE e \in told[r]
    <3>1. /\ InFile(e) \/ (policy.temp = "place" /\ \E q \in Procs : pc[q] = "open")
          /\ \A q \in Adds : pc[q] \in {"loaded", "open", "written"} => e \in view[q]
      BY <2>1, <2>3 DEF Stays
    <3>2. \A q \in Procs : pc[q] = "open" => pc'[q] = "open"
      BY <1>1, <1>5
    <3>3. ASSUME p \in Adds, pc'[p] \in {"loaded", "open", "written"} PROVE e \in view'[p]
      <4>1. PICK S \in SUBSET OnDisk!Content.entries :
               /\ view' = [view EXCEPT ![p] = OnDisk!Changed(p, S)]
               /\ AllWhole /\ policy.reads => S = OnDisk!Content.entries
        BY ONLY <1>1, <1>3, <3>3, p \in Procs
      <4>2. /\ policy.reads /\ (policy.temp = "shared" => overlaps = {})
            /\ policy.temp = "place" => overlaps' = {} /\ \A q \in Procs : pc'[q] \notin {"failed", "killed"}
        BY <1>1, <1>2 DEF Lost
      <4>3. policy.temp = "place" => ~OnDisk!CutShort
        BY <1>2, <1>3, <1>5, <4>2, <1>1 DEF OnDisk!CutShort, OnDisk!UnderWay, OnDisk!Ended
      <4>4. AllWhole
        BY <4>2, <4>3, OneOfThree DEF Private, Shared, InPlace
      <4>5. InFile(e)
        BY <3>1, <4>3 DEF OnDisk!CutShort
      <4>6. e \in S
        BY <4>1, <4>2, <4>4, <4>5, ContentIs
      <4> QED
        BY <1>3, <3>3, <4>1, <4>6 DEF OnDisk!Changed
    <3>4. \A q \in Adds : pc'[q] \in {"loaded", "open", "written"} => e \in view'[q]
      BY <1>5, <2>0, <3>1, <3>3
    <3> QED
      BY <2>2, <3>1, <3>2, <3>4
  <2>4. CASE e \notin told[r]
    <3>1. r = p
      BY <1>5, <2>4
    <3>2. PICK S \in SUBSET OnDisk!Content.entries :
            pc' = [pc EXCEPT ![p] = "done"] /\ told' = [told EXCEPT ![p] = S]
      BY ONLY <1>1, <2>4, <3>1, e \in told'[r]
    <3>3. e \in S
      BY <1>3, <3>1, <3>2
    <3>4. InFile(e)
      BY <3>3, ContentIs
    <3>5. \A q \in Procs : pc'[q] \in {"loaded", "open", "written"} => q \in OnDisk!UnderWay
      BY <1>3, <1>5, <3>2 DEF OnDisk!UnderWay, OnDisk!Ended
    <3>6. \A q \in Procs : pc'[q] \notin {"loaded", "open", "written"}
      BY <1>2, <3>1, <3>5 DEF Lost
    <3> QED
      BY <2>0, <2>2, <3>4, <3>6
  <2> QED
    BY <2>3, <2>4
<1> QED
  BY <1>8, <1>9, <1>11, <1>13, <1>14, <1>15

(* What every step of a process after its reading has in common.           *)
LEMMA Onward ==
  ASSUME OnDisk!SharedFilesAssumption, FileState, NEW p \in Procs,
         NEW x \in {"open", "written", "done", "failed", "killed"},
         pc[p] \in {"loaded", "open", "written"}, pc' = [pc EXCEPT ![p] = x],
         policy' = policy, overlaps' = overlaps, main' \cup temp' \subseteq main \cup temp \cup {p}
  PROVE  /\ Met' /\ pc'[p] = x /\ \A q \in Procs : q # p => pc'[q] = pc[q]
         /\ pc' \in [Procs -> OnDisk!Ended \cup {"loaded", "open", "written"}]
         /\ \A r \in Procs : Lost(r) => Lost(r)'
         /\ \A q \in Procs : q # p /\ pc[q] \in {"loaded", "open", "written"} => {p, q} \in overlaps
<1>1. pc \in [Procs -> OnDisk!Ended \cup {"loaded", "open", "written"}]
  BY DEF FileState, FileTypes
<1>2. pc'[p] = x /\ \A q \in Procs : q # p => pc'[q] = pc[q]
  BY ONLY <1>1, pc' = [pc EXCEPT ![p] = x], p \in Procs
<1>3. pc' \in [Procs -> OnDisk!Ended \cup {"loaded", "open", "written"}]
  BY ONLY <1>1, pc' = [pc EXCEPT ![p] = x], x \in {"open", "written", "done", "failed", "killed"}
     DEF OnDisk!Ended
<1>4. p \in OnDisk!UnderWay
  BY DEF OnDisk!UnderWay, OnDisk!Ended
<1>5. OnDisk!UnderWay' \subseteq OnDisk!UnderWay
  BY <1>2, <1>4 DEF OnDisk!UnderWay
<1>6. Met'
  BY <1>2, <1>5 DEF FileState, Met
<1>7. Removes \subseteq Procs
  BY DEF OnDisk!SharedFilesAssumption
<1>8. \A r \in Procs : Lost(r) => Lost(r)'
  BY <1>2, <1>7, LostStays
<1>9. \A q \in Procs : pc[q] \in {"loaded", "open", "written"} => q \in OnDisk!UnderWay
  BY DEF OnDisk!UnderWay, OnDisk!Ended
<1>10. \A q \in Procs : q # p /\ pc[q] \in {"loaded", "open", "written"} => {p, q} \in overlaps
  BY <1>4, <1>9 DEF FileState, Met
<1> QED
  BY <1>2, <1>3, <1>6, <1>8, <1>10

LEMMA FilesOpen ==
  ASSUME OnDisk!SharedFilesAssumption, FileState, Stays, NEW p \in Procs, OnDisk!Open(p)
  PROVE  FileState' /\ Stays'
<1> USE DEF FileState
<1>1. PICK there : there = CASE policy.temp = "shared" -> temp
                             [] policy.temp = "private" -> {}
                             [] policy.temp = "place" -> main
  OBVIOUS
<1>2. PICK target : target = IF there = {} THEN p ELSE CHOOSE i \in there : TRUE
  OBVIOUS
<1>3. /\ pc[p] = "loaded" /\ pc' = [pc EXCEPT ![p] = "open"]
      /\ fd' = [fd EXCEPT ![p] = target] /\ inode' = [inode EXCEPT ![target] = OnDisk!Blank]
      /\ temp' = (IF policy.temp = "shared" THEN {target} ELSE temp)
      /\ main' = (IF policy.temp = "place" THEN {target} ELSE main)
      /\ UNCHANGED <<policy, view, told, overlaps>>
  BY ONLY <1>1, <1>2, OnDisk!Open(p) DEF OnDisk!Open, OnDisk!Become, OnDisk!NoInode
<1>4. /\ policy.temp = "shared" => there = temp
      /\ policy.temp = "private" => there = {}
      /\ policy.temp = "place" => there = main
  BY <1>1
<1>5. target = p \/ target \in there
  BY ONLY <1>2
<1>6. /\ policy.temp = "private" => target = p
      /\ policy.temp = "shared" => target \in temp \cup {p}
      /\ policy.temp = "place" => target \in main \cup {p}
  BY ONLY <1>4, <1>5
<1>7. policy.temp \in {"shared", "private", "place"}
  BY OneOfThree
<1>8. target \in OnDisk!Inodes
  BY <1>6, <1>7 DEF FileTypes, OnDisk!Inodes
<1>9. main' \cup temp' \subseteq main \cup temp \cup {p}
  BY <1>3, <1>6
<1>10. /\ Met' /\ pc'[p] = "open" /\ \A q \in Procs : q # p => pc'[q] = pc[q]
       /\ pc' \in [Procs -> OnDisk!Ended \cup {"loaded", "open", "written"}]
       /\ \A r \in Procs : Lost(r) => Lost(r)'
       /\ \A q \in Procs : q # p /\ pc[q] \in {"loaded", "open", "written"} => {p, q} \in overlaps
  BY <1>3, <1>9, Onward
<1>11. FileTypes'
  <2>1. OnDisk!Blank \in [entries : SUBSET OnDisk!Inodes, state : {"empty", "torn", "whole"}]
    BY DEF OnDisk!Blank
  <2>2. inode' \in [OnDisk!Inodes -> [entries : SUBSET OnDisk!Inodes, state : {"empty", "torn", "whole"}]]
    BY <1>3, <2>1 DEF FileTypes
  <2>3. fd' \in [Procs -> OnDisk!Inodes]
    BY <1>3, <1>8 DEF FileTypes
  <2>4. /\ main' \in SUBSET OnDisk!Inodes /\ \A i, j \in main' : i = j
        /\ temp' \in SUBSET OnDisk!Inodes /\ \A i, j \in temp' : i = j
    BY <1>3, <1>8 DEF FileTypes
  <2> QED
    BY <1>3, <1>10, <2>2, <2>3, <2>4 DEF FileTypes
<1>12. /\ inode'[target] = OnDisk!Blank /\ \A i \in OnDisk!Inodes : i # target => inode'[i] = inode[i]
       /\ fd'[p] = target /\ \A q \in Procs : q # p => fd'[q] = fd[q]
  BY <1>3, <1>8 DEF FileTypes
<1>13. Procs \subseteq OnDisk!Inodes /\ main \subseteq OnDisk!Inodes
  BY DEF FileTypes, OnDisk!Inodes
<1>14. p \notin main
  BY <1>3 DEF Met
<1>15. Sheltered => main' = main /\ target \notin main
  BY <1>3, <1>6, <1>14 DEF Sheltered, Shared
<1>16. Sheltered => AllWhole' /\ \A e : InFile(e)' = InFile(e)
  BY <1>12, <1>13, <1>15 DEF Sheltered, Private, Shared, AllWhole, InFile
<1>17. Private'
  <2> SUFFICES ASSUME policy.temp = "private", NEW q \in Procs, pc'[q] \in {"open", "written"}
               PROVE  fd'[q] = q /\ q \notin main /\ Alone(q, q)'
    BY <1>3, <1>15, <1>16 DEF Private, Sheltered
  <2>1. CASE q = p
    BY <1>6, <1>10, <1>12, <1>14, <2>1 DEF Alone
  <2>2. CASE q # p
    BY <1>3, <1>6, <1>10, <1>12, <1>13, <2>2 DEF Private, Alone
  <2> QED
    BY <2>1, <2>2
<1>18. overlaps' = {} => \A q \in Procs : pc'[q] \in {"open", "written"} => q = p
  BY <1>3, <1>10
<1>19. Shared'
  <2> SUFFICES ASSUME policy.temp = "shared", overlaps = {}
               PROVE  /\ main' \cap temp' = {}
                      /\ \A q \in Procs : pc'[q] \in {"open", "written"} =>
                           temp' = {fd'[q]} /\ Alone(q, fd[q])'
    BY <1>3, <1>16 DEF Shared, Sheltered
  <2> QED
    BY <1>3, <1>10, <1>12, <1>15, <1>18 DEF Sheltered, Alone
<1>20. InPlace'
  <2> SUFFICES ASSUME policy.temp = "place"
               PROVE  /\ \A q \in Procs : pc'[q] # "written"
                      /\ overlaps = {} => \A q \in Procs : pc'[q] = "open" => main' = {fd'[q]} /\ Alone(q, fd[q])'
                      /\ OnDisk!CutShort'
    BY <1>3 DEF InPlace
  <2> QED
    BY <1>3, <1>10, <1>12, <1>18 DEF InPlace, OnDisk!CutShort, Alone
<1>21. Stays'
  <2> SUFFICES ASSUME NEW r \in Procs, ~Lost(r)', NEW e \in told[r]
               PROVE  /\ InFile(e)' \/ (policy.temp = "place" /\ \E q \in Procs : pc'[q] = "open")
                      /\ \A q \in Adds : pc'[q] \in {"loaded", "open", "written"} => e \in view[q]
    BY <1>3 DEF Stays
  <2>1. /\ InFile(e) \/ (policy.temp = "place" /\ \E q \in Procs : pc[q] = "open")
        /\ \A q \in Adds : pc[q] \in {"loaded", "open", "written"} => e \in view[q]
    BY <1>10 DEF Stays
  <2>2. policy.temp = "place" \/ Sheltered
    BY <1>3, <1>7 DEF Lost, Sheltered
  <2>3. Adds \subseteq Procs
    BY DEF OnDisk!SharedFilesAssumption
  <2> QED
    BY <1>3, <1>10, <1>16, <2>1, <2>2, <2>3 DEF Sheltered
<1> QED
  BY <1>10, <1>11, <1>17, <1>19, <1>20, <1>21

LEMMA FilesWriting ==
  ASSUME OnDisk!SharedFilesAssumption, FileState, Stays, NEW p \in Procs,
         OnDisk!Write(p) \/ OnDisk!WriteFails(p)
  PROVE  FileState' /\ Stays'
<1> USE DEF FileState
<1>1. PICK x, c :
        /\ pc[p] = "open" /\ pc' = [pc EXCEPT ![p] = x]
        /\ inode' = [inode EXCEPT ![fd[p]] = c]
        /\ UNCHANGED <<policy, main, temp, view, fd, overlaps>>
        /\ \/ /\ x = "failed" /\ c = OnDisk!TornInode /\ told' = told
           \/ /\ x = (IF policy.temp = "place" THEN "done" ELSE "written")
              /\ told' = (IF policy.temp = "place" THEN [told EXCEPT ![p] = view[p]] ELSE told)
              /\ c \in {OnDisk!Whole(view[p]), OnDisk!TornInode}
              /\ inode[fd[p]] = OnDisk!Blank => c = OnDisk!Whole(view[p])
  <2>1. CASE OnDisk!WriteFails(p)
    BY ONLY <2>1 DEF OnDisk!WriteFails, OnDisk!Become
  <2>2. CASE OnDisk!Write(p)
    <3>1. PICK c \in {OnDisk!Whole(view[p])} \cup
                       (IF inode[fd[p]] = OnDisk!Blank THEN {} ELSE {OnDisk!TornInode}) :
            inode' = [inode EXCEPT ![fd[p]] = c]
      BY ONLY <2>2 DEF OnDisk!Write
    <3>2. /\ c \in {OnDisk!Whole(view[p]), OnDisk!TornInode}
          /\ inode[fd[p]] = OnDisk!Blank => c = OnDisk!Whole(view[p])
      OBVIOUS
    <3>3. /\ pc[p] = "open" /\ UNCHANGED <<policy, main, temp, view, fd, overlaps>>
          /\ pc' = [pc EXCEPT ![p] = IF policy.temp = "place" THEN "done" ELSE "written"]
          /\ told' = (IF policy.temp = "place" THEN [told EXCEPT ![p] = view[p]] ELSE told)
      BY ONLY <2>2 DEF OnDisk!Write, OnDisk!Success, OnDisk!Become
    <3> QED
      BY ONLY <3>1, <3>2, <3>3
  <2> QED
    BY <2>1, <2>2
<1>2. x \in {"written", "done", "failed"}
  BY ONLY <1>1
<1>3. /\ Met' /\ pc'[p] = x /\ \A q \in Procs : q # p => pc'[q] = pc[q]
      /\ pc' \in [Procs -> OnDisk!Ended \cup {"loaded", "open", "written"}]
      /\ \A r \in Procs : Lost(r) => Lost(r)'
      /\ \A q \in Procs : q # p /\ pc[q] \in {"loaded", "open", "written"} => {p, q} \in overlaps
  <2>1. /\ pc[p] \in {"loaded", "open", "written"} /\ pc' = [pc EXCEPT ![p] = x]
        /\ x \in {"open", "written", "done", "failed", "killed"}
        /\ policy' = policy /\ overlaps' = overlaps
        /\ main' \cup temp' \subseteq main \cup temp \cup {p}
    BY ONLY <1>1, <1>2
  <2> QED
    BY ONLY <2>1, Onward, OnDisk!SharedFilesAssumption, FileState, p \in Procs
<1>4. /\ view \in [Procs -> SUBSET OnDisk!Inodes] /\ told \in [Procs -> SUBSET OnDisk!Inodes]
      /\ inode \in [OnDisk!Inodes -> [entries : SUBSET OnDisk!Inodes, state : {"empty", "torn", "whole"}]]
      /\ fd \in [Procs -> OnDisk!Inodes] /\ main \subseteq OnDisk!Inodes
      /\ Procs \subseteq OnDisk!Inodes
  BY DEF FileTypes, OnDisk!Inodes
<1>5. c \in [entries : SUBSET OnDisk!Inodes, state : {"empty", "torn", "whole"}]
  BY <1>1, <1>4 DEF OnDisk!Whole, OnDisk!TornInode
<1>6. FileTypes'
  <2>1. inode' \in [OnDisk!Inodes -> [entries : SUBSET OnDisk!Inodes, state : {"empty", "torn", "whole"}]]
    BY ONLY <1>1, <1>4, <1>5
  <2>2. told' \in [Procs -> SUBSET OnDisk!Inodes]
    BY ONLY <1>1, <1>4, p \in Procs
  <2> QED
    BY <1>1, <1>3, <2>1, <2>2 DEF FileTypes
<1>7. inode'[fd[p]] = c /\ \A i \in OnDisk!Inodes : i # fd[p] => inode'[i] = inode[i]
  BY ONLY <1>1, <1>4, p \in Procs
<1>8. /\ x = "written" => policy.temp # "place" /\ told' = told
      /\ x = "done" => policy.temp = "place" /\ told' = [told EXCEPT ![p] = view[p]]
      /\ x # "done" => told' = told
  BY ONLY <1>1
<1>9. Sheltered => /\ fd[p] \notin main /\ inode[fd[p]] = OnDisk!Blank
                   /\ x = "written" => c = OnDisk!Whole(view[p])
  BY <1>1, OwnFile DEF Alone
<1>10. Sheltered => AllWhole' /\ \A e : InFile(e)' = InFile(e)
  BY <1>1, <1>4, <1>7, <1>9 DEF Sheltered, Private, Shared, AllWhole, InFile
<1>11. overlaps = {} => \A q \in Procs : pc'[q] \in {"loaded", "open", "written"} => q = p /\ x = "written"
  BY <1>2, <1>3
<1>12. Private'
  <2> SUFFICES ASSUME policy.temp = "private", NEW q \in Procs, pc'[q] \in {"open", "written"}
               PROVE  fd[q] = q /\ q \notin main /\ Alone(q, q)'
    BY <1>1, <1>10 DEF Private, Sheltered
  <2>1. fd[p] = p /\ p \notin main
    BY <1>1 DEF Private
  <2>2. CASE q = p
    BY <1>1, <1>2, <1>3, <1>7, <1>9, <2>1, <2>2 DEF Alone, Sheltered
  <2>3. CASE q # p
    BY <1>1, <1>3, <1>4, <1>7, <2>1, <2>3 DEF Private, Alone
  <2> QED
    BY <2>2, <2>3
<1>13. Shared'
  <2> SUFFICES ASSUME policy.temp = "shared", overlaps = {}
               PROVE  /\ main \cap temp = {}
                      /\ \A q \in Procs : pc'[q] \in {"open", "written"} =>
                           temp = {fd[q]} /\ Alone(q, fd[q])'
    BY <1>1, <1>10 DEF Shared, Sheltered
  <2>1. main \cap temp = {} /\ temp = {fd[p]}
    BY <1>1 DEF Shared
  <2> QED
    BY <1>1, <1>3, <1>7, <1>9, <1>11, <2>1 DEF Sheltered, Alone
<1>14. policy.temp = "place" /\ overlaps = {} =>
         /\ main = {fd[p]} /\ c \in {OnDisk!Whole(view[p]), OnDisk!TornInode}
         /\ x = "done" => c = OnDisk!Whole(view[p])
  <2> SUFFICES ASSUME policy.temp = "place", overlaps = {}
               PROVE  /\ main = {fd[p]} /\ c \in {OnDisk!Whole(view[p]), OnDisk!TornInode}
                      /\ x = "done" => c = OnDisk!Whole(view[p])
    OBVIOUS
  <2>1. main = {fd[p]} /\ inode[fd[p]] = OnDisk!Blank
    BY <1>1 DEF InPlace, Alone
  <2> QED
    BY ONLY <1>1, <2>1
<1>15. InPlace'
  <2> SUFFICES ASSUME policy.temp = "place"
               PROVE  /\ \A q \in Procs : pc'[q] # "written"
                      /\ overlaps = {} => \A q \in Procs : pc'[q] = "open" => main = {fd[q]} /\ Alone(q, fd[q])'
                      /\ OnDisk!CutShort' \/ AllWhole'
    BY <1>1 DEF InPlace
  <2>1. \A q \in Procs : pc'[q] # "written"
    BY <1>2, <1>3, <1>8 DEF InPlace
  <2>2. CASE overlaps # {} \/ x = "failed"
    BY <1>1, <1>3, <1>11, <2>1, <2>2 DEF OnDisk!CutShort
  <2>3. CASE overlaps = {} /\ x = "done"
    <3>1. AllWhole'
      BY <1>1, <1>7, <1>14, <2>3 DEF AllWhole, OnDisk!Whole
    <3> QED
      BY <1>11, <2>1, <2>3, <3>1
  <2> QED
    BY <1>2, <1>8, <2>2, <2>3
<1>16. Stays'
  <2> SUFFICES ASSUME NEW r \in Procs, ~Lost(r)', NEW e \in told'[r]
               PROVE  /\ InFile(e)' \/ (policy.temp = "place" /\ \E q \in Procs : pc'[q] = "open")
                      /\ \A q \in Adds : pc'[q] \in {"loaded", "open", "written"} => e \in view[q]
    BY <1>1 DEF Stays
  <2>1. ~Lost(r) /\ Adds \cup Removes = Procs
    BY <1>3 DEF OnDisk!SharedFilesAssumption
  <2>2. CASE policy.temp = "place"
    <3>1. overlaps = {} /\ x = "done" /\ p \in Adds
      BY <1>1, <1>2, <1>3, <1>8, <2>1, <2>2 DEF Lost
    <3>2. \A q \in Adds : pc'[q] \notin {"loaded", "open", "written"}
      BY <1>11, <2>1, <3>1
    <3>3. e \in view[p]
      <4>1. CASE r = p
        BY <1>4, <1>8, <3>1, <4>1
      <4>2. CASE r # p
        <5>1. e \in told[r]
          BY <1>4, <1>8, <3>1, <4>2
        <5> QED
          BY <1>1, <2>1, <3>1, <5>1 DEF Stays
      <4> QED
        BY <4>1, <4>2
    <3>4. InFile(e)'
      BY <1>1, <1>7, <1>14, <2>2, <3>1, <3>3 DEF InFile, OnDisk!Whole
    <3> QED
      BY <3>2, <3>4
  <2>3. CASE policy.temp # "place"
    <3>1. Sheltered /\ e \in told[r]
      BY <1>1, <1>2, <1>8, <2>1, <2>3, OneOfThree DEF Lost, Sheltered
    <3>2. InFile(e) /\ \A q \in Adds : pc[q] \in {"loaded", "open", "written"} => e \in view[q]
      BY <2>1, <2>3, <3>1 DEF Stays
    <3> QED
      BY <1>1, <1>3, <1>10, <2>1, <3>1, <3>2
  <2> QED
    BY <2>2, <2>3
<1> QED
  BY <1>3, <1>6, <1>12, <1>13, <1>15, <1>16

LEMMA FilesRename ==
  ASSUME OnDisk!SharedFilesAssumption, FileState, Stays, NEW p \in Procs, OnDisk!Rename(p)
  PROVE  FileState' /\ Stays'
<1> USE DEF FileState
<1>1. PICK from : from = IF policy.temp = "shared" THEN temp ELSE {fd[p]}
  OBVIOUS
<1>2. /\ pc[p] = "written" /\ temp' = {} /\ UNCHANGED <<policy, inode, view, fd, overlaps>>
      /\ \/ /\ from = {} /\ pc' = [pc EXCEPT ![p] = "failed"] /\ UNCHANGED <<main, told>>
         \/ /\ from # {} /\ main' = from /\ pc' = [pc EXCEPT ![p] = "done"]
            /\ told' = [told EXCEPT ![p] = view[p]]
  BY ONLY <1>1, OnDisk!Rename(p) DEF OnDisk!Rename, OnDisk!Become, OnDisk!Success, OnDisk!NoInode
<1>3. PICK x \in {"failed", "done"} : pc' = [pc EXCEPT ![p] = x]
  BY ONLY <1>2
<1>4. policy.temp \in {"private", "shared"}
  BY <1>2, OneOfThree DEF InPlace
<1>5. main' \cup temp' \subseteq main \cup temp \cup {p}
  BY <1>1, <1>2, <1>4 DEF Private
<1>6. /\ Met' /\ pc'[p] = x /\ \A q \in Procs : q # p => pc'[q] = pc[q]
      /\ pc' \in [Procs -> OnDisk!Ended \cup {"loaded", "open", "written"}]
      /\ \A r \in Procs : Lost(r) => Lost(r)'
      /\ \A q \in Procs : q # p /\ pc[q] \in {"loaded", "open", "written"} => {p, q} \in overlaps
  <2>1. /\ pc[p] \in {"loaded", "open", "written"} /\ pc' = [pc EXCEPT ![p] = x]
        /\ x \in {"open", "written", "done", "failed", "killed"}
        /\ policy' = policy /\ overlaps' = overlaps
        /\ main' \cup temp' \subseteq main \cup temp \cup {p}
    BY ONLY <1>2, <1>3, <1>5
  <2> QED
    BY ONLY <2>1, Onward, OnDisk!SharedFilesAssumption, FileState, p \in Procs
<1>7. /\ view \in [Procs -> SUBSET OnDisk!Inodes] /\ told \in [Procs -> SUBSET OnDisk!Inodes]
      /\ fd \in [Procs -> OnDisk!Inodes]
  BY DEF FileTypes
<1>8. FileTypes'
  <2>1. main' \in SUBSET OnDisk!Inodes /\ \A i, j \in main' : i = j
    BY <1>1, <1>2, <1>7 DEF FileTypes
  <2>2. told' \in [Procs -> SUBSET OnDisk!Inodes]
    BY ONLY <1>2, <1>7, p \in Procs
  <2> QED
    BY <1>2, <1>6, <2>1, <2>2 DEF FileTypes
<1>9. Sheltered => /\ main' = {fd[p]} /\ x = "done" /\ told' = [told EXCEPT ![p] = view[p]]
                   /\ inode[fd[p]] = OnDisk!Whole(view[p])
  <2> SUFFICES ASSUME Sheltered
               PROVE  /\ main' = {fd[p]} /\ x = "done" /\ told' = [told EXCEPT ![p] = view[p]]
                      /\ inode[fd[p]] = OnDisk!Whole(view[p])
    OBVIOUS
  <2>1. from = {fd[p]}
    BY <1>1, <1>2 DEF Sheltered, Shared
  <2>2. inode[fd[p]] = OnDisk!Whole(view[p])
    BY <1>2, OwnFile DEF Alone
  <2>3. main' = {fd[p]} /\ pc' = [pc EXCEPT ![p] = "done"] /\ told' = [told EXCEPT ![p] = view[p]]
    BY ONLY <1>2, <2>1
  <2>4. x = "done"
    BY <1>6, <1>7, <2>3 DEF FileTypes
  <2> QED
    BY <2>2, <2>3, <2>4
<1>10. Sheltered => AllWhole' /\ \A e \in view[p] : InFile(e)'
  BY <1>2, <1>9 DEF AllWhole, InFile, OnDisk!Whole
<1>11. overlaps = {} => \A q \in Procs : pc'[q] \notin {"loaded", "open", "written"}
  BY <1>6
<1>12. Private'
  <2> SUFFICES ASSUME policy.temp = "private", NEW q \in Procs, pc'[q] \in {"open", "written"}
               PROVE  fd[q] = q /\ q \notin main' /\ Alone(q, q)'
    BY <1>2, <1>10 DEF Private, Sheltered
  <2>1. q # p /\ fd[p] = p /\ main' = {p}
    BY <1>2, <1>6, <1>9 DEF Private, Sheltered
  <2> QED
    BY <1>2, <1>6, <2>1 DEF Private, Alone
<1>13. Shared'
  BY <1>2, <1>10, <1>11 DEF Shared, Sheltered
<1>14. InPlace'
  BY <1>2, <1>4 DEF InPlace
<1>15. Stays'
  <2> SUFFICES ASSUME NEW r \in Procs, ~Lost(r)', NEW e \in told'[r]
               PROVE  /\ InFile(e)'
                      /\ \A q \in Adds : pc'[q] \in {"loaded", "open", "written"} => e \in view[q]
    BY <1>2 DEF Stays
  <2>1. ~Lost(r) /\ Adds \cup Removes = Procs
    BY <1>6 DEF OnDisk!SharedFilesAssumption
  <2>2. Sheltered
    BY <1>4, <2>1 DEF Lost, Sheltered
  <2>3. p \in Adds
    BY <1>6, <1>9, <2>1, <2>2 DEF Lost
  <2>4. CASE r = p
    <3>1. e \in view[p]
      BY <1>7, <1>9, <2>2, <2>4
    <3>2. \A q \in Procs : pc'[q] \notin {"loaded", "open", "written"}
      BY <1>6, <1>9, <2>1, <2>2, <2>4 DEF Lost
    <3> QED
      BY <1>10, <2>1, <2>2, <3>1, <3>2
  <2>5. CASE r # p
    <3>1. e \in told[r]
      BY <1>7, <1>9, <2>2, <2>5
    <3>2. \A q \in Adds : pc[q] \in {"loaded", "open", "written"} => e \in view[q]
      BY <2>1, <3>1 DEF Stays
    <3> QED
      BY <1>2, <1>6, <1>9, <1>10, <2>1, <2>2, <2>3, <3>2
  <2> QED
    BY <2>4, <2>5
<1> QED
  BY <1>6, <1>8, <1>12, <1>13, <1>14, <1>15

(* A process that is killed, and a record that is removed by its name.     *)
LEMMA FilesEnding ==
  ASSUME OnDisk!SharedFilesAssumption, FileState, Stays, NEW p \in Procs,
         OnDisk!Kill(p) \/ OnDisk!Unlink(p)
  PROVE  FileState' /\ Stays'
<1> USE DEF FileState
<1>1. PICK x \in {"killed", "done"} :
        /\ pc[p] \in {"loaded", "open", "written"} /\ pc' = [pc EXCEPT ![p] = x]
        /\ UNCHANGED <<policy, temp, inode, view, fd, told, overlaps>>
        /\ x = "killed" => main' = main
        /\ x = "done" => main' = {} /\ p \in Removes /\ policy = OnDisk!WorkflowRecord
  <2>1. CASE OnDisk!Kill(p)
    <3>1. pc[p] \in {"loaded", "open", "written"}
      BY <2>1 DEF OnDisk!Kill, OnDisk!UnderWay, FileTypes
    <3> QED
      BY ONLY <2>1, <3>1 DEF OnDisk!Kill, OnDisk!Become
  <2>2. CASE OnDisk!Unlink(p)
    BY ONLY <2>2 DEF OnDisk!Unlink, OnDisk!Become, OnDisk!NoInode
  <2> QED
    BY <2>1, <2>2
<1>2. main' \subseteq main
  BY ONLY <1>1
<1>3. /\ Met' /\ pc'[p] = x /\ \A q \in Procs : q # p => pc'[q] = pc[q]
      /\ pc' \in [Procs -> OnDisk!Ended \cup {"loaded", "open", "written"}]
      /\ \A r \in Procs : Lost(r) => Lost(r)'
      /\ \A q \in Procs : q # p /\ pc[q] \in {"loaded", "open", "written"} => {p, q} \in overlaps
  <2>1. /\ pc[p] \in {"loaded", "open", "written"} /\ pc' = [pc EXCEPT ![p] = x]
        /\ x \in {"open", "written", "done", "failed", "killed"}
        /\ policy' = policy /\ overlaps' = overlaps
        /\ main' \cup temp' \subseteq main \cup temp \cup {p}
    BY ONLY <1>1, <1>2
  <2> QED
    BY ONLY <2>1, Onward, OnDisk!SharedFilesAssumption, FileState, p \in Procs
<1>4. FileTypes'
  BY <1>1, <1>2, <1>3 DEF FileTypes
<1>5. \A q \in Procs : pc'[q] \in {"loaded", "open", "written"} => q # p /\ pc'[q] = pc[q]
  BY <1>3
<1>6. AllWhole => AllWhole'
  BY <1>1, <1>2 DEF AllWhole
<1>7. x = "done" => policy.temp = "place" /\ ~policy.reads
  BY <1>1, OneOfThree
<1>8. Private'
  BY <1>1, <1>2, <1>5, <1>6 DEF Private, Alone
<1>9. overlaps = {} => \A q \in Procs : pc'[q] \notin {"loaded", "open", "written"}
  BY <1>3, <1>5
<1>10. Shared'
  BY <1>1, <1>2, <1>6, <1>9 DEF Shared
<1>11. InPlace'
  <2> SUFFICES ASSUME policy.temp = "place"
               PROVE  (\A q \in Procs : pc'[q] # "written") /\ (OnDisk!CutShort' \/ AllWhole')
    BY <1>1, <1>9 DEF InPlace
  <2>1. \A q \in Procs : pc'[q] # "written"
    BY <1>5 DEF InPlace
  <2>2. CASE x = "killed"
    BY <1>3, <2>1, <2>2 DEF OnDisk!CutShort
  <2>3. CASE x = "done"
    BY <1>1, <2>1, <2>3 DEF AllWhole
  <2> QED
    BY <2>1, <2>2, <2>3
<1>12. Stays'
  <2> SUFFICES ASSUME NEW r \in Procs, ~Lost(r)', NEW e \in told[r]
               PROVE  /\ InFile(e)' \/ (policy.temp = "place" /\ \E q \in Procs : pc'[q] = "open")
                      /\ \A q \in Adds : pc'[q] \in {"loaded", "open", "written"} => e \in view[q]
    BY <1>1 DEF Stays
  <2>1. ~Lost(r) /\ Adds \subseteq Procs
    BY <1>3 DEF OnDisk!SharedFilesAssumption
  <2>2. x = "killed" /\ policy.temp # "place"
    BY <1>1, <1>3, <1>7 DEF Lost
  <2>3. InFile(e) /\ \A q \in Adds : pc[q] \in {"loaded", "open", "written"} => e \in view[q]
    BY <2>1, <2>2 DEF Stays
  <2> QED
    BY <1>1, <1>5, <2>1, <2>2, <2>3 DEF InFile
<1> QED
  BY <1>3, <1>4, <1>8, <1>10, <1>11, <1>12

LEMMA FilesSteps ==
  ASSUME OnDisk!SharedFilesAssumption, FileState, Stays, OnDisk!Next \/ UNCHANGED filesVars
  PROVE  FileState' /\ Stays'
<1>1. CASE OnDisk!Next
  BY <1>1, FilesLoad, FilesOpen, FilesWriting, FilesRename, FilesEnding DEF OnDisk!Next
<1>2. CASE UNCHANGED filesVars
  <2>1. FileState'
    BY <1>2 DEF filesVars, FileState, FileTypes, Met, Private, Shared, InPlace, AllWhole, Alone,
                OnDisk!UnderWay, OnDisk!CutShort
  <2>2. Stays'
    BY <1>2 DEF filesVars, Stays, Lost, InFile
  <2> QED
    BY <2>1, <2>2
<1> QED
  BY <1>1, <1>2

LEMMA FilesKept ==
  ASSUME FileState, Stays
  PROVE  OnDisk!TypeOK /\ OnDisk!Legible /\ OnDisk!KeptUntilOverlap
<1> USE DEF FileState
<1>1. Cardinality(main) <= 1 /\ Cardinality(temp) <= 1
  BY AtMostOne DEF FileTypes
<1>2. OnDisk!TypeOK
  BY <1>1, SameCardinality DEF FileTypes, OnDisk!TypeOK
<1>3. OnDisk!Legible
  <2>1. AllWhole => main = {} \/ OnDisk!Content.state = "whole"
    BY ContentIs DEF AllWhole
  <2> QED
    BY <2>1, OneOfThree DEF OnDisk!Legible, OnDisk!NoInode, Private, Shared, InPlace
<1>4. OnDisk!KeptUntilOverlap
  <2> SUFFICES ASSUME NEW p \in Procs, NEW e \in told[p], ~OnDisk!Undone(p, e)
               PROVE  InFile(e)
    BY ContentIs DEF OnDisk!KeptUntilOverlap
  <2>1. ~Lost(p)
    BY DEF Lost, OnDisk!Undone, OnDisk!CutShort
  <2>2. ~(policy.temp = "place" /\ \E q \in Procs : pc[q] = "open")
    BY DEF OnDisk!Undone, OnDisk!CutShort
  <2> QED
    BY <2>1, <2>2 DEF Stays
<1> QED
  BY <1>2, <1>3, <1>4

(* The small files under ~/.nexusrun can be read at every moment, and what *)
(* a process was told is stored stays until it is removed, as far as the   *)
(* way each file is replaced allows (secrets.go, store.go, session.go,     *)
(* credentials.go), for any number of processes and whatever fails or is   *)
(* killed on the way.                                                      *)
THEOREM FilesSafe == PartsSpec => []FilesHold
<1>1. PartsInit => FilesInv
  BY FilesStart
<1>2. FilesInv /\ [PartsNext]_all => FilesInv'
  BY StepOfPart, FilesSteps, FilesAssumption DEF FilesInv
<1>3. FilesInv => FilesHold
  BY FilesKept DEF FilesInv, FilesHold
<1> QED
  BY <1>1, <1>2, <1>3, PTL DEF PartsSpec

-----------------------------------------------------------------------------
(* Packages: what a command has read and fetched, by its step.  The tags,  *)
(* the blob store and the directory are parameters, for the command whose  *)
(* turn it is not.                                                         *)
Drafts == [name : Names, edition : Nat, plan : Plans]
Readers == {"run", "eval", "serve", "export"}
Fetching == {"resolve", "check", "record", "done"}

JobSteps ==
  {"idle", "pack", "manifest", "digest", "unpack", "unavailable", "refused", "validate", "export",
   "exported"} \cup Fetching

JobType ==
  [kind : {"none", "build", "fleet"} \cup Readers, home : Homes \cup {None},
   ref : Names \cup {None}, seal : BOOLEAN,
   step : JobSteps,
   manifest : Packages!Made \cup Drafts \cup {None}, digest : Packages!Made \cup {None},
   files : Packages!Made \cup Nat \cup {None}, todo : Seq(Packages!Entry), got : Seq(Contents),
   body : Contents \cup {None}, moved : BOOLEAN]

Calm(x) == ~x.moved \/ x.kind = "fleet"

(* Which command it is, and where.                                         *)
Placed(x, T, D) ==
  /\ x.kind = "none" => x.step = "idle"
  /\ x.kind # "none" => x.home \in Homes
  /\ x.kind \in Readers => x.ref \in Names /\ T[x.home][x.ref] \in Packages!Made
  /\ x.kind = "fleet" => x.digest \in Packages!Made /\ x.digest.sealed /\ ~x.digest.plan.auto
  /\ x.kind = "build" => x.manifest \in Drafts /\ x.ref = x.manifest.name
  /\ x.kind = "build" => x.step \notin {"manifest", "digest", "unpack", "refused", "validate", "export",
                                    "exported"}
  /\ x.kind # "build" => x.step # "pack"
  /\ x.step = "digest" => x.kind = "eval"
  /\ x.step = "unpack" => x.kind # "serve"
  /\ x.step \in {"validate", "export", "exported"} => x.kind = "export"
  /\ x.kind = "export" => x.step \in {"manifest", "refused", "validate", "export", "exported"}
  /\ x.step = "pack" /\ ~x.moved => D = x.manifest

(* What it has read is of one artifact, while the tag stays.               *)
ReadOnce(x, T) ==
  /\ x.kind \in Readers \cup {"fleet"} /\ x.step # "manifest" =>
       /\ x.manifest \in Packages!Made
       /\ x.kind = "fleet" => x.digest = x.manifest
       /\ x.kind \in Readers /\ ~x.moved => T[x.home][x.ref] = x.manifest
       /\ x.kind = "eval" /\ x.step # "digest" /\ ~x.moved => x.digest = x.manifest
       /\ x.step \in Fetching \cup {"unavailable"} /\ x.kind # "serve" /\ Calm(x) =>
            x.files = x.manifest
       /\ x.step = "export" => Packages!Validates(x.manifest)
  /\ x.kind = "build" /\ x.step # "pack" =>
       x.files \in Nat /\ (~x.moved => x.files = x.manifest.edition)

(* What it has fetched follows the block that it read.                     *)
Aligned(got, todo, entries) ==
  /\ Len(got) + Len(todo) = Len(entries)
  /\ \A i \in 1..Len(todo) : todo[i] = entries[Len(got) + i]
  /\ \A i \in 1..Len(got) : entries[i].pin \in {None, got[i]}

Bound(x) ==
  \/ x.kind = "build" /\ x.seal
  \/ x.kind \in Readers \cup {"fleet"} /\ Calm(x) /\ ~x.manifest.plan.auto

Fetched(x, W) ==
  /\ x.step \in {"pack", "manifest", "digest", "unpack", "validate", "export", "exported"} =>
       x.todo = <<>> /\ x.got = <<>>
  /\ x.step \in Fetching /\ Bound(x) => Aligned(x.got, x.todo, x.manifest.plan.entries)
  /\ x.step = "done" => x.todo = <<>>
  /\ x.step \in {"check", "record"} => x.todo # <<>> /\ x.body \in Contents
  /\ x.step = "record" => x.body \in W[x.home] /\ Head(x.todo).pin \in {None, x.body}

(* A sealed model is there from the start.                                 *)
FromSeal(x) ==
  /\ x.kind \in {"run", "eval", "fleet"} /\ x.step \in Fetching \cup {"unavailable"}
  /\ Calm(x) /\ x.manifest.sealed /\ ~x.manifest.plan.auto
Sealed(x) == FromSeal(x) => x.todo = <<>> /\ x.got = x.manifest.layers /\ x.step # "unavailable"

JobOK(x, T, W, D) ==
  x \in JobType /\ Placed(x, T, D) /\ ReadOnce(x, T) /\ Fetched(x, W) /\ Sealed(x)

BundleType ==
  [ref : Names, artifact : Packages!Made, validated : BOOLEAN, moved : BOOLEAN]

PackTypes ==
  /\ origin \in [Origins -> Contents] /\ dir \in Drafts
  /\ tags \in [Homes -> [Names -> Packages!Made \cup {None}]]
  /\ blobs \in [Homes -> SUBSET Contents] /\ index \in [Homes -> [Origins -> Contents \cup {None}]]
  /\ registry \in [Repositories -> Packages!Made \cup {None}]
  /\ bundle \in BundleType
  /\ bundle.validated /\ ~bundle.moved => Packages!Validates(bundle.artifact)
  /\ DOMAIN job = Packages!Jobs

PackState ==
  /\ PackTypes /\ Packages!IndexIsBacked
  /\ \A j \in Packages!Jobs : JobOK(job[j], tags, blobs, dir)

PackInv == part = "packages" => PackState

LEMMA StepsAre ==
  "resolve" \in JobSteps /\ "check" \in JobSteps /\ "record" \in JobSteps /\ "done" \in JobSteps
BY DEF JobSteps, Fetching

LEMMA MadeFacts ==
  \A a \in Packages!Made :
    /\ a.name \in Names /\ a.edition \in Nat /\ a.sealed \in BOOLEAN /\ a.layers \in Seq(Contents)
    /\ a.plan \in Packages!Block
    /\ a.sealed => Packages!Follows(a.layers, a.plan.entries)
BY DEF Packages!Made, Packages!Package

LEMMA BlockFacts ==
  \A p \in Packages!Block :
    /\ p.auto \in BOOLEAN /\ p.entries \in Seq(Packages!Entry) /\ p.complete \in BOOLEAN
    /\ ~p.auto => Len(p.entries) = 1
BY DEF Packages!Block

LEMMA FollowsAligned ==
  ASSUME NEW entries \in Seq(Packages!Entry), NEW got \in Seq(Contents)
  PROVE  /\ Aligned(<<>>, entries, entries)
         /\ Packages!Follows(got, entries) <=> Aligned(got, <<>>, entries)
<1>1. Aligned(<<>>, entries, entries)
  BY DEF Aligned
<1>2. DOMAIN got = 1..Len(got) /\ Len(got) \in Nat /\ Len(<<>>) = 0 /\ Len(entries) \in Nat
  OBVIOUS
<1>3. Packages!Follows(got, entries) <=> Aligned(got, <<>>, entries)
  BY <1>2 DEF Aligned, Packages!Follows
<1> QED
  BY <1>1, <1>3

LEMMA AlignedOn ==
  ASSUME NEW entries \in Seq(Packages!Entry), NEW got \in Seq(Contents), NEW c \in Contents,
         NEW todo \in Seq(Packages!Entry), todo # <<>>, Aligned(got, todo, entries),
         Head(todo).pin \in {None, c}
  PROVE  Aligned(Append(got, c), Tail(todo), entries)
<1>1. /\ Len(Append(got, c)) = Len(got) + 1 /\ Len(Tail(todo)) = Len(todo) - 1
      /\ Len(got) \in Nat /\ Len(todo) \in Nat \ {0} /\ Len(entries) \in Nat
      /\ Head(todo) = todo[1]
  OBVIOUS
<1>2. \A i \in 1..Len(todo) - 1 : Tail(todo)[i] = todo[i + 1]
  OBVIOUS
<1>3. \A i \in 1..Len(got) + 1 : Append(got, c)[i] = IF i = Len(got) + 1 THEN c ELSE got[i]
  OBVIOUS
<1>4. entries[Len(got) + 1] = Head(todo)
  BY <1>1 DEF Aligned
<1>5. \A i \in 1..Len(got) + 1 : entries[i].pin \in {None, Append(got, c)[i]}
  BY <1>1, <1>3, <1>4 DEF Aligned
<1>6. \A i \in 1..Len(todo) - 1 : Tail(todo)[i] = entries[Len(got) + 1 + i]
  <2> SUFFICES ASSUME NEW i \in 1..Len(todo) - 1 PROVE Tail(todo)[i] = entries[Len(got) + 1 + i]
    OBVIOUS
  <2>1. i + 1 \in 1..Len(todo) /\ Len(got) + (i + 1) = Len(got) + 1 + i
    BY <1>1
  <2> QED
    BY <1>2, <2>1 DEF Aligned
<1> QED
  BY <1>1, <1>5, <1>6 DEF Aligned

(* The files in a blob store only become more.                             *)
LEMMA MoreFiles ==
  ASSUME NEW x, NEW T, NEW W, NEW V, NEW D, JobOK(x, T, W, D),
         \A h \in Homes : W[h] \subseteq V[h]
  PROVE  JobOK(x, T, V, D)
<1>1. x.step = "record" => x.home \in Homes
  BY DEF JobOK, Placed
<1>2. Fetched(x, V)
  BY <1>1 DEF JobOK, Fetched
<1> QED
  BY <1>2 DEF JobOK

(* One command makes a step, and the others only see more files.           *)
LEMMA OwnStep ==
  ASSUME PackState, NEW j \in Packages!Jobs, NEW y, job' = [job EXCEPT ![j] = y],
         UNCHANGED <<tags, dir>>, \A h \in Homes : blobs[h] \subseteq blobs'[h],
         JobOK(y, tags, blobs', dir)
  PROVE  /\ DOMAIN job' = Packages!Jobs
         /\ \A k \in Packages!Jobs : JobOK(job'[k], tags', blobs', dir')
<1>1. DOMAIN job = Packages!Jobs
  BY DEF PackState, PackTypes
<1>2. \A k \in Packages!Jobs : job'[k] = IF k = j THEN y ELSE job[k]
  BY <1>1
<1>3. \A k \in Packages!Jobs : JobOK(job[k], tags, blobs', dir)
  BY MoreFiles DEF PackState
<1> QED
  BY <1>1, <1>2, <1>3

(* A tag is set: whoever is reading it has it moved, or reads the same.    *)
LEMMA Retagged ==
  ASSUME NEW x, NEW W, NEW D, NEW h \in Homes, NEW n \in Names, NEW a \in Packages!Made,
         NEW T \in [Homes -> [Names -> Packages!Made \cup {None}]], JobOK(x, T, W, D),
         NEW y, y = IF x.home = h /\ x.ref = n /\ x.kind # "build"
                    THEN [x EXCEPT !.moved = @ \/ T[h][n] # a] ELSE x
  PROVE  JobOK(y, [T EXCEPT ![h][n] = a], W, D)
<1> DEFINE T2 == [T EXCEPT ![h][n] = a]
<1>1. \A g \in Homes, m \in Names :
        T2[g][m] = IF g = h /\ m = n THEN a ELSE T[g][m]
  OBVIOUS
<1>2. x \in JobType
  BY DEF JobOK
<1>3. y \in JobType
  <2>1. PICK m \in BOOLEAN : m = (x.moved \/ T[h][n] # a)
    OBVIOUS
  <2>2. y = x \/ y = [x EXCEPT !.moved = m]
    BY <2>1
  <2>3. [x EXCEPT !.moved = m] \in JobType
    BY <1>2 DEF JobType, JobSteps
  <2> QED
    BY <1>2, <2>2, <2>3
<1>4. /\ y.kind = x.kind /\ y.home = x.home /\ y.ref = x.ref /\ y.seal = x.seal /\ y.step = x.step
      /\ y.manifest = x.manifest /\ y.digest = x.digest /\ y.files = x.files /\ y.todo = x.todo
      /\ y.got = x.got /\ y.body = x.body /\ (x.moved => y.moved)
      /\ x.kind = "build" => y.moved = x.moved
  BY <1>2 DEF JobType, JobSteps
<1>5. x.kind \in Readers /\ ~y.moved => T2[x.home][x.ref] = T[x.home][x.ref] /\ ~x.moved
  BY <1>1, <1>2, <1>4 DEF JobOK, Placed, JobType, JobSteps, Readers
<1> HIDE DEF T2
<1>6. Placed(y, T2, D)
  BY <1>1, <1>4 DEF JobOK, Placed, Readers
<1>7. ReadOnce(y, T2)
  BY <1>4, <1>5 DEF JobOK, ReadOnce, Calm, Readers
<1>8. Fetched(y, W)
  BY <1>4 DEF JobOK, Fetched, Bound, Calm
<1>9. Sealed(y)
  BY <1>4 DEF JobOK, Sealed, FromSeal, Calm
<1> QED
  BY <1>3, <1>6, <1>7, <1>8, <1>9 DEF JobOK, T2

(* The tags of a home with one of them set.                                *)
LEMMA Tagging ==
  ASSUME PackTypes, NEW js, DOMAIN js = Packages!Jobs,
         \A k \in Packages!Jobs : JobOK(js[k], tags, blobs, dir),
         NEW h \in Homes, NEW n \in Names, NEW a \in Packages!Made,
         Packages!Tag(h, n, a, js), UNCHANGED <<blobs, dir>>
  PROVE  /\ tags' \in [Homes -> [Names -> Packages!Made \cup {None}]]
         /\ DOMAIN job' = Packages!Jobs
         /\ \A k \in Packages!Jobs : JobOK(job'[k], tags', blobs', dir')
<1>1. /\ tags \in [Homes -> [Names -> Packages!Made \cup {None}]]
      /\ tags' = [tags EXCEPT ![h][n] = a] /\ tags'[h][n] = a
  BY DEF Packages!Tag, PackTypes
<1>2. \A k \in Packages!Jobs :
        job'[k] = IF js[k].home = h /\ js[k].ref = n /\ js[k].kind # "build"
                  THEN [js[k] EXCEPT !.moved = @ \/ tags[h][n] # a] ELSE js[k]
  BY <1>1 DEF Packages!Tag, Packages!Moves
<1>3. \A k \in Packages!Jobs : JobOK(job'[k], [tags EXCEPT ![h][n] = a], blobs, dir)
  BY <1>1, <1>2, Retagged
<1>4. DOMAIN job' = Packages!Jobs
  BY DEF Packages!Tag, Packages!Moves
<1> QED
  BY <1>1, <1>3, <1>4

(* The directory is edited while builds read it.                           *)
LEMMA Edited ==
  ASSUME NEW x, NEW T, NEW W, NEW D, NEW D2, JobOK(x, T, W, D),
         NEW y, y = IF x.kind = "build" THEN [x EXCEPT !.moved = TRUE] ELSE x
  PROVE  JobOK(y, T, W, D2)
<1>1. x \in JobType
  BY DEF JobOK
<1>2. /\ y \in JobType
      /\ y.kind = x.kind /\ y.home = x.home /\ y.ref = x.ref /\ y.seal = x.seal /\ y.step = x.step
      /\ y.manifest = x.manifest /\ y.digest = x.digest /\ y.files = x.files /\ y.todo = x.todo
      /\ y.got = x.got /\ y.body = x.body
      /\ y.kind = "build" => y.moved
      /\ y.kind # "build" => y.moved = x.moved
  BY <1>1, StepsAre, Zenon DEF JobType
<1>3. Placed(y, T, D2)
  BY <1>2 DEF JobOK, Placed
<1>4. ReadOnce(y, T)
  BY <1>2 DEF JobOK, ReadOnce, Calm, Readers
<1>5. Fetched(y, W)
  BY <1>2 DEF JobOK, Fetched, Bound, Calm, Readers
<1>6. Sealed(y)
  BY <1>2 DEF JobOK, Sealed, FromSeal, Calm
<1> QED
  BY <1>2, <1>3, <1>4, <1>5, <1>6 DEF JobOK

-----------------------------------------------------------------------------
(* A command goes on with what it has read.                                *)
Same(x, y) ==
  /\ y.kind = x.kind /\ y.home = x.home /\ y.ref = x.ref /\ y.seal = x.seal
  /\ y.manifest = x.manifest /\ y.digest = x.digest /\ y.files = x.files /\ y.moved = x.moved

LEMMA StillFetching ==
  ASSUME NEW x, NEW T, NEW W, NEW D, JobOK(x, T, W, D), x.step \in Fetching,
         NEW y \in JobType, Same(x, y), y.step \in Fetching \cup {"unavailable"}
  PROVE  /\ x.kind # "none" /\ x.home \in Homes
         /\ Placed(y, T, D) /\ ReadOnce(y, T)
         /\ Bound(y) = Bound(x) /\ FromSeal(y) = FromSeal(x)
<1> USE DEF JobOK, Same, Fetching
<1>1. x.kind # "none" /\ x.home \in Homes
  BY DEF Placed
<1>2. Placed(y, T, D)
  BY DEF Placed
<1>3. ReadOnce(y, T)
  BY <1>1 DEF ReadOnce, Calm
<1>4. Bound(y) = Bound(x) /\ FromSeal(y) = FromSeal(x)
  BY DEF Bound, FromSeal, Calm
<1> QED
  BY <1>1, <1>2, <1>3, <1>4

LEMMA EntriesOf ==
  ASSUME Packages!PackagesAssumption, NEW x, NEW T, NEW W, NEW D, JobOK(x, T, W, D),
         x.step \in Fetching, Bound(x)
  PROVE  x.manifest.plan.entries \in Seq(Packages!Entry)
<1>1. CASE x.kind = "build"
  <2>1. x.manifest.plan \in Packages!Block
    BY <1>1 DEF JobOK, Placed, Drafts, Packages!PackagesAssumption
  <2> QED
    BY <2>1, BlockFacts
<1>2. CASE x.kind # "build"
  <2>1. x.manifest \in Packages!Made
    BY <1>2 DEF JobOK, ReadOnce, Bound, Fetching
  <2> QED
    BY <2>1, MadeFacts, BlockFacts
<1> QED
  BY <1>1, <1>2

(* An entry is had.                                                        *)
LEMMA HasOne ==
  ASSUME Packages!PackagesAssumption, NEW x, NEW T, NEW W, NEW D, JobOK(x, T, W, D),
         x.step \in {"resolve", "record"}, x.todo # <<>>,
         NEW c \in Contents, Head(x.todo).pin \in {None, c},
         NEW y \in JobType, Same(x, y), y.step = "resolve",
         y.todo = Tail(x.todo), y.got = Append(x.got, c)
  PROVE  JobOK(y, T, W, D)
<1>1. /\ x.step \in Fetching /\ y.step \in Fetching /\ x \in JobType
      /\ x.todo \in Seq(Packages!Entry) /\ x.got \in Seq(Contents)
  BY DEF Fetching, JobOK, JobType, JobSteps
<1>2. /\ Placed(y, T, D) /\ ReadOnce(y, T)
      /\ Bound(y) = Bound(x) /\ FromSeal(y) = FromSeal(x) /\ y.manifest = x.manifest
  BY <1>1, StillFetching DEF Same
<1>3. Bound(x) => Aligned(y.got, y.todo, y.manifest.plan.entries)
  <2> HAVE Bound(x)
  <2>1. Aligned(x.got, x.todo, x.manifest.plan.entries)
    BY <1>1 DEF JobOK, Fetched
  <2> QED
    BY <1>1, <1>2, <2>1, EntriesOf, AlignedOn
<1>4. Fetched(y, W)
  BY <1>2, <1>3 DEF Fetched
<1>5. Sealed(y)
  BY <1>2 DEF JobOK, Sealed
<1> QED
  BY <1>2, <1>4, <1>5 DEF JobOK

-----------------------------------------------------------------------------
(* Store.Resolve.                                                          *)
LEMMA UseStep ==
  ASSUME Packages!PackagesAssumption, PackState, NEW j \in Packages!Jobs, Packages!Use(j)
  PROVE  PackState'
<1> DEFINE x == job[j]
           c == Packages!Cached(x.home, Head(x.todo))
           y == [[x EXCEPT !.todo = Tail(@), !.got = Append(@, c)] EXCEPT !.step = "resolve"]
<1>1. /\ x.step = "resolve" /\ x.todo # <<>> /\ c # None /\ job' = [job EXCEPT ![j] = y]
      /\ UNCHANGED <<origin, dir, registry, bundle, tags, blobs, index>>
  BY DEF Packages!Use, Packages!Go, Packages!world
<1>2. JobOK(x, tags, blobs, dir) /\ x \in JobType
  BY DEF PackState, JobOK
<1>3. x.home \in Homes
  BY <1>1, <1>2 DEF JobOK, Placed
<1>4. c \in Contents /\ Head(x.todo).pin \in {None, c}
  BY <1>1, <1>3 DEF Packages!Cached, PackState, PackTypes
<1>5. Tail(x.todo) \in Seq(Packages!Entry) /\ Append(x.got, c) \in Seq(Contents)
  BY <1>1, <1>2, <1>4 DEF JobType, JobSteps
<1>6. /\ y \in JobType /\ Same(x, y) /\ y.step = "resolve" /\ y.todo = Tail(x.todo)
      /\ y.got = Append(x.got, c)
  <2> HIDE DEF c
  <2> QED
    BY <1>2, <1>5, StepsAre, Zenon DEF JobType, Same
<1> HIDE DEF x, y, c
<1>7. JobOK(y, tags, blobs', dir)
  BY <1>1, <1>2, <1>4, <1>6, HasOne
<1> QED
  BY <1>1, <1>7, OwnStep DEF PackState, PackTypes, Packages!IndexIsBacked

LEMMA DownloadStep ==
  ASSUME PackState, NEW j \in Packages!Jobs, Packages!Download(j)
  PROVE  PackState'
<1> DEFINE x == job[j]
           c == origin[Head(x.todo).source]
           y == [[x EXCEPT !.body = c] EXCEPT !.step = "check"]
<1>1. /\ x.step = "resolve" /\ x.todo # <<>> /\ job' = [job EXCEPT ![j] = y]
      /\ UNCHANGED <<origin, dir, registry, bundle, tags, blobs, index>>
  BY DEF Packages!Download, Packages!Go, Packages!world
<1>2. JobOK(x, tags, blobs, dir) /\ x \in JobType
  BY DEF PackState, JobOK
<1>3. c \in Contents
  <2>1. Head(x.todo) \in Packages!Entry
    BY <1>1, <1>2 DEF JobType, JobSteps
  <2> QED
    BY <2>1 DEF Packages!Entry, PackState, PackTypes
<1>4. /\ y \in JobType /\ Same(x, y) /\ y.step = "check" /\ y.todo = x.todo
      /\ y.got = x.got /\ y.body = c
  <2> HIDE DEF c
  <2> QED
    BY <1>2, <1>3, StepsAre, Zenon DEF JobType, Same
<1> HIDE DEF x, y, c
<1>5. /\ Placed(y, tags, dir) /\ ReadOnce(y, tags)
      /\ Bound(y) = Bound(x) /\ FromSeal(y) = FromSeal(x) /\ y.manifest = x.manifest
  BY <1>1, <1>2, <1>4, StillFetching DEF Same, Fetching
<1>6. Fetched(y, blobs)
  BY <1>1, <1>2, <1>3, <1>4, <1>5 DEF JobOK, Fetched, Fetching
<1>7. JobOK(y, tags, blobs', dir)
  BY <1>1, <1>2, <1>4, <1>5, <1>6 DEF JobOK, Sealed
<1> QED
  BY <1>1, <1>7, OwnStep DEF PackState, PackTypes, Packages!IndexIsBacked

LEMMA KeepStep ==
  ASSUME PackState, NEW j \in Packages!Jobs, Packages!Keep(j)
  PROVE  PackState'
<1> DEFINE x == job[j]
           y == [x EXCEPT !.step = "record"]
<1>1. /\ x.step = "check" /\ Head(x.todo).pin \in {None, x.body} /\ job' = [job EXCEPT ![j] = y]
      /\ blobs' = [blobs EXCEPT ![x.home] = @ \cup {x.body}]
      /\ UNCHANGED <<origin, dir, registry, bundle, tags, index>>
  BY DEF Packages!Keep, Packages!Matches, Packages!Go, Packages!world
<1>2. JobOK(x, tags, blobs, dir) /\ x \in JobType
  BY DEF PackState, JobOK
<1>3. x.home \in Homes /\ x.body \in Contents /\ x.todo # <<>>
  BY <1>1, <1>2 DEF JobOK, Placed, Fetched
<1>4. /\ y \in JobType /\ Same(x, y) /\ y.step = "record" /\ y.todo = x.todo
      /\ y.got = x.got /\ y.body = x.body
  BY <1>2 DEF JobType, JobSteps, Same, Fetching
<1> HIDE DEF x, y
<1>5. /\ blobs' \in [Homes -> SUBSET Contents] /\ x.body \in blobs'[x.home]
      /\ \A h \in Homes : blobs[h] \subseteq blobs'[h]
  BY <1>1, <1>3 DEF PackState, PackTypes
<1>6. /\ Placed(y, tags, dir) /\ ReadOnce(y, tags) /\ y.home = x.home
      /\ Bound(y) = Bound(x) /\ FromSeal(y) = FromSeal(x) /\ y.manifest = x.manifest
  BY <1>1, <1>2, <1>4, StillFetching DEF Same, Fetching
<1>7. Fetched(y, blobs')
  BY <1>1, <1>2, <1>3, <1>4, <1>5, <1>6 DEF JobOK, Fetched, Fetching
<1>8. JobOK(y, tags, blobs', dir)
  BY <1>1, <1>2, <1>4, <1>6, <1>7 DEF JobOK, Sealed
<1>9. Packages!IndexIsBacked'
  BY <1>1, <1>5 DEF PackState, Packages!IndexIsBacked
<1> QED
  BY <1>1, <1>5, <1>8, <1>9, OwnStep DEF PackState, PackTypes

LEMMA RecordStep ==
  ASSUME Packages!PackagesAssumption, PackState, NEW j \in Packages!Jobs, Packages!Record(j)
  PROVE  PackState'
<1> DEFINE x == job[j]
           e == Head(x.todo)
           y == [[x EXCEPT !.todo = Tail(@), !.got = Append(@, x.body), !.body = None]
                   EXCEPT !.step = "resolve"]
<1>1. /\ x.step = "record" /\ job' = [job EXCEPT ![j] = y]
      /\ index' = IF e.pin = None THEN [index EXCEPT ![x.home][e.source] = x.body] ELSE index
      /\ UNCHANGED <<origin, dir, registry, bundle, tags, blobs>>
  BY DEF Packages!Record, Packages!Go, Packages!world
<1>2. JobOK(x, tags, blobs, dir) /\ x \in JobType
  BY DEF PackState, JobOK
<1>3. /\ x.home \in Homes /\ x.body \in Contents /\ x.todo # <<>> /\ x.body \in blobs[x.home]
      /\ e.pin \in {None, x.body}
  BY <1>1, <1>2 DEF JobOK, Placed, Fetched
<1>4. e.source \in Origins
  <2>1. e \in Packages!Entry
    BY <1>2, <1>3 DEF JobType, JobSteps
  <2> QED
    BY <2>1 DEF Packages!Entry
<1>5. Tail(x.todo) \in Seq(Packages!Entry) /\ Append(x.got, x.body) \in Seq(Contents)
  BY <1>2, <1>3 DEF JobType, JobSteps
<1>6. /\ y \in JobType /\ Same(x, y) /\ y.step = "resolve" /\ y.todo = Tail(x.todo)
      /\ y.got = Append(x.got, x.body)
  BY <1>2, <1>5, StepsAre, Zenon DEF JobType, Same
<1> HIDE DEF x, y, e
<1>7. JobOK(y, tags, blobs', dir)
  BY <1>1, <1>2, <1>3, <1>6, HasOne DEF e
<1>8. index' \in [Homes -> [Origins -> Contents \cup {None}]] /\ Packages!IndexIsBacked'
  <2>1. index \in [Homes -> [Origins -> Contents \cup {None}]] /\ Packages!IndexIsBacked
    BY DEF PackState, PackTypes
  <2>2. CASE e.pin = None
    <3>1. index' = [index EXCEPT ![x.home][e.source] = x.body]
      BY <1>1, <2>2
    <3>2. \A h \in Homes, s \in Origins :
            index'[h][s] = IF h = x.home /\ s = e.source THEN x.body ELSE index[h][s]
      BY <1>3, <1>4, <2>1, <3>1
    <3> QED
      BY <1>1, <1>3, <1>4, <2>1, <3>1, <3>2 DEF Packages!IndexIsBacked
  <2> QED
    BY <1>1, <2>1, <2>2 DEF Packages!IndexIsBacked
<1> QED
  BY <1>1, <1>7, <1>8, OwnStep DEF PackState, PackTypes

LEMMA MissesStep ==
  ASSUME PackState, NEW j \in Packages!Jobs, Packages!Misses(j)
  PROVE  PackState'
<1> DEFINE x == job[j]
           y == [[x EXCEPT !.todo = Tail(@), !.body = None] EXCEPT !.step = "resolve"]
           z == [x EXCEPT !.step = "unavailable"]
<1>1. /\ (x.step \in {"resolve", "check"} /\ x.todo # <<>>) \/ x.step = "check"
      /\ IF x.kind = "run" /\ x.manifest.plan.auto THEN job' = [job EXCEPT ![j] = y]
         ELSE job' = [job EXCEPT ![j] = z]
      /\ UNCHANGED <<origin, dir, registry, bundle, tags, blobs, index>>
  BY DEF Packages!Misses, Packages!Unavailable, Packages!Go, Packages!world
<1>2. JobOK(x, tags, blobs, dir) /\ x \in JobType
  BY DEF PackState, JobOK
<1>3. x.step \in Fetching /\ x.todo # <<>>
  BY <1>1, <1>2 DEF JobOK, Fetched, Fetching
<1>4. Tail(x.todo) \in Seq(Packages!Entry)
  BY <1>2, <1>3 DEF JobType, JobSteps
<1>5. y \in JobType /\ Same(x, y) /\ y.step = "resolve" /\ y.todo = Tail(x.todo) /\ y.got = x.got
  BY <1>2, <1>4, StepsAre, Zenon DEF JobType, Same
<1>6. z \in JobType /\ Same(x, z) /\ z.step = "unavailable" /\ z.todo = x.todo /\ z.got = x.got
  BY <1>2 DEF JobType, JobSteps, Same, Fetching
<1>7. ~FromSeal(x)
  BY <1>2, <1>3 DEF JobOK, Sealed
<1> HIDE DEF x, y, z
<1>8. CASE x.kind = "run" /\ x.manifest.plan.auto
  <2>1. /\ Placed(y, tags, dir) /\ ReadOnce(y, tags) /\ ~FromSeal(y) /\ Bound(y) = Bound(x)
    BY <1>2, <1>3, <1>5, <1>7, StillFetching DEF Fetching
  <2>2. ~Bound(x)
    BY <1>8 DEF Bound
  <2>3. JobOK(y, tags, blobs', dir)
    BY <1>5, <2>1, <2>2 DEF JobOK, Fetched, Sealed
  <2> QED
    BY <1>1, <1>8, <2>3, OwnStep DEF PackState, PackTypes, Packages!IndexIsBacked
<1>9. CASE ~(x.kind = "run" /\ x.manifest.plan.auto)
  <2>1. /\ Placed(z, tags, dir) /\ ReadOnce(z, tags) /\ ~FromSeal(z)
    BY <1>2, <1>3, <1>6, <1>7, StillFetching
  <2>2. JobOK(z, tags, blobs', dir)
    BY <1>6, <2>1 DEF JobOK, Fetched, Sealed, Fetching
  <2> QED
    BY <1>1, <1>9, <2>2, OwnStep DEF PackState, PackTypes, Packages!IndexIsBacked
<1> QED
  BY <1>8, <1>9

(* Ready to generate.                                                      *)
LEMMA EndsStep ==
  ASSUME PackState, NEW j \in Packages!Jobs, Packages!Ends(j)
  PROVE  PackState'
<1> DEFINE x == job[j]
           y(step) == [x EXCEPT !.step = step]
<1>1. PICK step \in {"unavailable", "done"} :
        /\ x.kind \notin {"none", "build"} /\ x.step = "resolve" /\ x.todo = <<>>
        /\ step = (IF x.got = <<>> THEN "unavailable" ELSE "done")
        /\ job' = [job EXCEPT ![j] = y(step)]
        /\ UNCHANGED <<origin, dir, registry, bundle, tags, blobs, index>>
  BY DEF Packages!Ends, Packages!Go, Packages!world
<1>2. JobOK(x, tags, blobs, dir) /\ x \in JobType
  BY DEF PackState, JobOK
<1>3. /\ y(step) \in JobType /\ Same(x, y(step)) /\ y(step).step = step
      /\ y(step).todo = x.todo /\ y(step).got = x.got
  BY <1>2 DEF JobType, JobSteps, Same, Fetching
<1>4. PICK z \in JobType : z = y(step)
  BY <1>3
<1> HIDE DEF x, y
<1>5. /\ Placed(z, tags, dir) /\ ReadOnce(z, tags)
      /\ Bound(z) = Bound(x) /\ FromSeal(z) = FromSeal(x) /\ z.manifest = x.manifest
  BY <1>1, <1>2, <1>3, <1>4, StillFetching DEF Same, Fetching
<1>6. FromSeal(x) => step = "done"
  <2> HAVE FromSeal(x)
  <2>1. x.manifest \in Packages!Made /\ x.manifest.sealed /\ ~x.manifest.plan.auto
    BY <1>1, <1>2 DEF JobOK, ReadOnce, FromSeal, Readers
  <2>2. Len(x.manifest.layers) = 1 /\ x.got = x.manifest.layers
    BY <1>2, <2>1, MadeFacts, BlockFacts DEF JobOK, Sealed, Packages!Follows
  <2>3. x.got # <<>>
    <3>1. Len(<<>>) = 0 /\ Len(x.got) = 1
      BY <2>2
    <3> QED
      BY <3>1
  <2> QED
    BY <1>1, <2>3
<1>7. Fetched(z, blobs')
  BY <1>1, <1>2, <1>3, <1>4, <1>5 DEF JobOK, Fetched, Fetching
<1>8. JobOK(z, tags, blobs', dir)
  BY <1>2, <1>3, <1>4, <1>5, <1>6, <1>7 DEF JobOK, Sealed
<1> QED
  BY <1>1, <1>4, <1>8, OwnStep DEF PackState, PackTypes, Packages!IndexIsBacked

-----------------------------------------------------------------------------
(* Commands start and are gone.                                            *)
LEMMA IdleIs ==
  /\ Packages!Idle \in JobType /\ Packages!Idle.kind = "none" /\ Packages!Idle.step = "idle"
  /\ Packages!Idle.todo = <<>> /\ Packages!Idle.got = <<>> /\ Packages!Idle.moved = FALSE
BY DEF JobType, JobSteps, Packages!Idle

LEMMA IdleOK == \A T, W, D : JobOK(Packages!Idle, T, W, D)
BY IdleIs DEF JobOK, Placed, ReadOnce, Fetched, Sealed, FromSeal, Bound, Readers, Fetching

LEMMA GoneStep ==
  ASSUME PackState, NEW j \in Packages!Jobs, Packages!Gone(j)
  PROVE  PackState'
<1>1. /\ job' = [job EXCEPT ![j] = Packages!Idle]
      /\ UNCHANGED <<origin, dir, registry, bundle, tags, blobs, index>>
  BY DEF Packages!Gone, Packages!world
<1> QED
  BY <1>1, IdleOK, OwnStep DEF PackState, PackTypes, Packages!IndexIsBacked

LEMMA StartBuildStep ==
  ASSUME PackState, NEW j \in Packages!Jobs, NEW h \in Homes, NEW seal \in BOOLEAN,
         Packages!StartBuild(j, h, seal)
  PROVE  PackState'
<1> DEFINE y == [[Packages!Idle EXCEPT !.kind = "build", !.home = h, !.ref = dir.name, !.seal = seal,
                                       !.manifest = dir] EXCEPT !.step = "pack"]
<1>1. /\ job' = [job EXCEPT ![j] = y]
      /\ UNCHANGED <<origin, dir, registry, bundle, tags, blobs, index>>
  BY DEF Packages!StartBuild, Packages!Go, Packages!world
<1>2. dir \in Drafts /\ dir.name \in Names
  BY DEF PackState, PackTypes, Drafts
<1>3. /\ y \in JobType /\ y.kind = "build" /\ y.home = h /\ y.ref = dir.name /\ y.manifest = dir
      /\ y.step = "pack" /\ y.todo = <<>> /\ y.got = <<>>
  BY <1>2, IdleIs DEF JobType, JobSteps
<1> HIDE DEF y
<1>4. Placed(y, tags, dir) /\ ReadOnce(y, tags) /\ Fetched(y, blobs) /\ Sealed(y)
  BY <1>2, <1>3 DEF Placed, ReadOnce, Fetched, Sealed, FromSeal, Readers, Fetching
<1>5. JobOK(y, tags, blobs', dir)
  BY <1>1, <1>3, <1>4 DEF JobOK
<1> QED
  BY <1>1, <1>5, OwnStep DEF PackState, PackTypes, Packages!IndexIsBacked

LEMMA StartStep ==
  ASSUME PackState, NEW j \in Packages!Jobs, NEW h \in Homes,
         Packages!StartByName(j, h) \/ Packages!StartPinned(j, h)
  PROVE  PackState'
<1> DEFINE y(kind, n, a) ==
      [[Packages!Idle EXCEPT !.kind = kind, !.home = h, !.ref = n, !.digest = a]
         EXCEPT !.step = "manifest"]
<1>1. PICK kind \in Readers \cup {"fleet"}, n \in Names \cup {None}, a \in Packages!Made \cup {None} :
        /\ kind \in Readers => n \in Names /\ tags[h][n] \in Packages!Made
        /\ kind = "fleet" => a \in Packages!Made /\ a.sealed /\ ~a.plan.auto
        /\ job' = [job EXCEPT ![j] = y(kind, n, a)]
        /\ UNCHANGED <<origin, dir, registry, bundle, tags, blobs, index>>
  <2>1. CASE Packages!StartByName(j, h)
    <3>1. PICK kind \in Readers, n \in Names :
            tags[h][n] # None /\ Packages!Start(j, h, kind, n, None)
      BY <2>1 DEF Packages!StartByName, Readers
    <3>2. tags[h][n] \in Packages!Made
      BY <3>1 DEF PackState, PackTypes
    <3>3. kind # "fleet"
      BY DEF Readers
    <3> QED
      BY <3>1, <3>2, <3>3, Zenon DEF Packages!Start, Packages!Go, Packages!world
  <2>2. CASE Packages!StartPinned(j, h)
    <3>1. PICK r \in Repositories :
            /\ registry[r] # None /\ registry[r].sealed /\ ~registry[r].plan.auto
            /\ Packages!Start(j, h, "fleet", None, registry[r])
      BY <2>2 DEF Packages!StartPinned
    <3>2. registry[r] \in Packages!Made
      BY <3>1 DEF PackState, PackTypes
    <3>3. "fleet" \notin Readers
      BY DEF Readers
    <3> QED
      BY <3>1, <3>2, <3>3, Zenon DEF Packages!Start, Packages!Go, Packages!world
  <2> QED
    BY <2>1, <2>2, Zenon
<1>2. PICK u \in JobType : u = Packages!Idle
  BY IdleIs
<1>3. PICK z : z = y(kind, n, a)
  OBVIOUS
<1>4. /\ z \in JobType /\ z.kind = kind /\ z.home = h /\ z.ref = n /\ z.digest = a
      /\ z.step = "manifest" /\ z.todo = <<>> /\ z.got = <<>>
  <2>1. z = [u EXCEPT !.kind = kind, !.home = h, !.ref = n, !.digest = a, !.step = "manifest"]
    BY <1>2, <1>3 DEF JobType, JobSteps
  <2>2. /\ kind \in {"none", "build", "fleet"} \cup Readers /\ h \in Homes \cup {None}
        /\ u.todo = <<>> /\ u.got = <<>>
    BY <1>2, IdleIs
  <2> QED
    BY <2>1, <2>2 DEF JobType, JobSteps
<1> HIDE DEF y
<1>5. Placed(z, tags, dir) /\ ReadOnce(z, tags) /\ Fetched(z, blobs) /\ Sealed(z)
  BY <1>1, <1>4 DEF Placed, ReadOnce, Fetched, Sealed, FromSeal, Readers, Fetching
<1>6. JobOK(z, tags, blobs', dir)
  BY <1>1, <1>4, <1>5 DEF JobOK
<1> QED
  BY <1>1, <1>3, <1>6, OwnStep DEF PackState, PackTypes, Packages!IndexIsBacked

-----------------------------------------------------------------------------
(* A build: the tree it packs is the manifest's unless it was edited, and  *)
(* what it tags is made as it should be.                                   *)
LEMMA PackStep ==
  ASSUME Packages!PackagesAssumption, PackState, NEW j \in Packages!Jobs, Packages!Pack(j)
  PROVE  PackState'
<1> DEFINE x == job[j]
           todo == IF x.seal THEN x.manifest.plan.entries ELSE <<>>
           y == [[x EXCEPT !.files = dir.edition, !.todo = todo] EXCEPT !.step = "resolve"]
<1>1. /\ x.step = "pack" /\ job' = [job EXCEPT ![j] = y]
      /\ UNCHANGED <<origin, dir, registry, bundle, tags, blobs, index>>
  BY DEF Packages!Pack, Packages!Go, Packages!world
<1>2. JobOK(x, tags, blobs, dir) /\ x \in JobType
  BY DEF PackState, JobOK
<1>3. /\ x.kind = "build" /\ x.home \in Homes /\ x.manifest \in Drafts /\ x.ref = x.manifest.name
      /\ x.got = <<>> /\ (~x.moved => dir = x.manifest)
  BY <1>1, <1>2 DEF JobOK, Placed, Fetched, Readers
<1>4. x.manifest.plan.entries \in Seq(Packages!Entry) /\ dir.edition \in Nat
  <2>1. x.manifest.plan \in Packages!Block
    BY <1>3 DEF Drafts, Packages!PackagesAssumption
  <2> QED
    BY <2>1, BlockFacts DEF PackState, PackTypes, Drafts
<1>5. todo \in Seq(Packages!Entry)
  BY <1>4
<1>6. /\ y \in JobType /\ y.kind = x.kind /\ y.home = x.home /\ y.ref = x.ref /\ y.seal = x.seal
      /\ y.manifest = x.manifest /\ y.moved = x.moved /\ y.files = dir.edition /\ y.todo = todo
      /\ y.got = x.got /\ y.step = "resolve"
  <2> HIDE DEF todo
  <2> QED
    BY <1>2, <1>4, <1>5, StepsAre, Zenon DEF JobType
<1>7. Bound(y) => Aligned(y.got, y.todo, y.manifest.plan.entries)
  <2>1. Bound(y) => x.seal
    BY <1>3, <1>6 DEF Bound, Readers
  <2>2. <<>> \in Seq(Contents) /\ (x.seal => y.todo = x.manifest.plan.entries) /\ y.got = <<>>
    BY <1>3, <1>6
  <2> HIDE DEF x, y, todo
  <2>3. Aligned(<<>>, x.manifest.plan.entries, x.manifest.plan.entries)
    BY <1>4, <2>2, FollowsAligned
  <2> QED
    BY <1>6, <2>1, <2>2, <2>3
<1> HIDE DEF x, y, todo
<1>8. Placed(y, tags, dir) /\ ReadOnce(y, tags) /\ Fetched(y, blobs) /\ Sealed(y)
  BY <1>3, <1>4, <1>6, <1>7 DEF Placed, ReadOnce, Fetched, Sealed, FromSeal, Readers, Fetching
<1>9. JobOK(y, tags, blobs', dir)
  BY <1>1, <1>6, <1>8 DEF JobOK
<1> QED
  BY <1>1, <1>9, OwnStep DEF PackState, PackTypes, Packages!IndexIsBacked

LEMMA BuiltStep ==
  ASSUME Packages!PackagesAssumption, PackState, NEW j \in Packages!Jobs, Packages!Built(j)
  PROVE  PackState'
<1> DEFINE x == job[j]
           a == Packages!Artifact(x.manifest, x.files, x.seal, x.got)
           y == [x EXCEPT !.step = "done", !.digest = a]
           js == [job EXCEPT ![j].step = "done", ![j].digest = a]
<1>1. /\ x.kind = "build" /\ x.step = "resolve" /\ x.todo = <<>>
      /\ Packages!Tag(x.home, x.ref, a, js)
      /\ UNCHANGED <<origin, dir, registry, bundle, blobs, index>>
  BY DEF Packages!Built, Packages!world
<1>2. JobOK(x, tags, blobs, dir) /\ x \in JobType /\ DOMAIN job = Packages!Jobs
  BY DEF PackState, JobOK, PackTypes
<1>3. /\ x.home \in Homes /\ x.manifest \in Drafts /\ x.ref = x.manifest.name /\ x.ref \in Names
      /\ x.files \in Nat /\ (~x.moved => x.files = x.manifest.edition)
      /\ x.manifest.plan \in Packages!Block
  BY <1>1, <1>2 DEF JobOK, Placed, ReadOnce, Drafts, Packages!PackagesAssumption
<1>4. /\ x.seal \in BOOLEAN /\ x.got \in Seq(Contents) /\ x.manifest.edition \in Nat
      /\ x.manifest.plan.entries \in Seq(Packages!Entry)
  BY <1>2, <1>3, BlockFacts DEF JobType, JobSteps, Drafts
<1>5. x.seal => Packages!Follows(x.got, x.manifest.plan.entries)
  <2> HAVE x.seal
  <2>1. Aligned(x.got, <<>>, x.manifest.plan.entries)
    BY <1>1, <1>2 DEF JobOK, Fetched, Bound, Fetching
  <2> QED
    BY <1>4, <2>1, FollowsAligned
<1>6. a \in Packages!Made
  BY <1>3, <1>4, <1>5 DEF Packages!Artifact, Packages!Made, Packages!Package
<1>7. /\ y \in JobType /\ y.kind = x.kind /\ y.home = x.home /\ y.ref = x.ref /\ y.seal = x.seal
      /\ y.manifest = x.manifest /\ y.moved = x.moved /\ y.files = x.files /\ y.todo = x.todo
      /\ y.got = x.got /\ y.step = "done"
  <2> HIDE DEF a
  <2> QED
    BY <1>2, <1>6, StepsAre, Zenon DEF JobType
<1>8. JobOK(y, tags, blobs, dir)
  BY <1>1, <1>2, <1>7 DEF JobOK, Placed, ReadOnce, Fetched, Sealed, FromSeal, Bound, Readers, Fetching
<1>9. DOMAIN js = Packages!Jobs /\ \A k \in Packages!Jobs : JobOK(js[k], tags, blobs, dir)
  <2>1. js = [job EXCEPT ![j] = y]
    <3> HIDE DEF a
    <3> QED
      BY <1>2 DEF JobType, JobSteps
  <2> HIDE DEF js, y
  <2>2. \A k \in Packages!Jobs : js[k] = IF k = j THEN y ELSE job[k]
    BY <1>2, <2>1
  <2> QED
    BY <1>2, <1>8, <2>1, <2>2 DEF PackState
<1> HIDE DEF x, a, y, js
<1> QED
  BY <1>1, <1>3, <1>6, <1>9, Tagging DEF PackState, PackTypes, Packages!IndexIsBacked

-----------------------------------------------------------------------------
(* What is edited, published and copied.                                   *)
LEMMA EditStep ==
  ASSUME PackState, Packages!Edit
  PROVE  PackState'
<1>1. PICK p \in Plans : dir' = [dir EXCEPT !.edition = @ + 1, !.plan = p]
  BY Zenon DEF Packages!Edit
<1>2. dir' \in Drafts
  <2>1. dir \in Drafts
    BY DEF PackState, PackTypes
  <2>2. PICK k \in Nat : k = dir.edition
    BY <2>1 DEF Drafts
  <2>3. dir' = [dir EXCEPT !.edition = k + 1, !.plan = p] /\ k + 1 \in Nat
    BY <1>1, <2>2
  <2> QED
    BY <2>1, <2>3 DEF Drafts
<1>3. /\ job' = [j \in Packages!Jobs |->
                   IF job[j].kind = "build" THEN [job[j] EXCEPT !.moved = TRUE] ELSE job[j]]
      /\ UNCHANGED <<origin, tags, blobs, index, registry, bundle>>
  BY DEF Packages!Edit
<1>4. \A j \in Packages!Jobs : JobOK(job'[j], tags, blobs, dir')
  BY <1>3, Edited DEF PackState
<1> QED
  BY <1>2, <1>3, <1>4 DEF PackState, PackTypes, Packages!IndexIsBacked

LEMMA CopySteps ==
  ASSUME PackState,
         \/ \E s \in Origins, c \in Contents : Packages!Republish(s, c)
         \/ \E h \in Homes, n \in Names, r \in Repositories : Packages!Push(h, n, r)
         \/ \E h \in Homes, r \in Repositories : Packages!Pull(h, r)
         \/ \E h \in Homes : Packages!Import(h),
         Packages!PackagesAssumption
  PROVE  PackState'
<1>1. ASSUME NEW s \in Origins, NEW c \in Contents, Packages!Republish(s, c)
      PROVE  PackState'
  BY <1>1 DEF Packages!Republish, PackState, PackTypes, Packages!IndexIsBacked
<1>2. ASSUME NEW h \in Homes, NEW n \in Names, NEW r \in Repositories, Packages!Push(h, n, r)
      PROVE  PackState'
  BY <1>2 DEF Packages!Push, PackState, PackTypes, Packages!IndexIsBacked
<1>3. ASSUME NEW h \in Homes, NEW r \in Repositories, Packages!Pull(h, r)
      PROVE  PackState'
  <2>1. /\ registry[r] \in Packages!Made /\ LocalName[r] \in Names
        /\ Packages!Tag(h, LocalName[r], registry[r], job)
        /\ UNCHANGED <<origin, dir, registry, bundle, blobs, index>>
    BY <1>3 DEF Packages!Pull, PackState, PackTypes, Packages!PackagesAssumption
  <2> QED
    BY <2>1, Tagging DEF PackState, PackTypes, Packages!IndexIsBacked
<1>4. ASSUME NEW h \in Homes, Packages!Import(h)
      PROVE  PackState'
  <2>1. /\ bundle.artifact \in Packages!Made /\ bundle.ref \in Names
        /\ Packages!Tag(h, bundle.ref, bundle.artifact, job)
        /\ UNCHANGED <<origin, dir, registry, bundle, blobs, index>>
    BY <1>4 DEF Packages!Import, PackState, PackTypes, BundleType
  <2> QED
    BY <2>1, Tagging DEF PackState, PackTypes, Packages!IndexIsBacked
<1> QED
  BY <1>1, <1>2, <1>3, <1>4

LEMMA UnpackedFiles ==
  ASSUME blobs \in [Homes -> SUBSET Contents], NEW h \in Homes, NEW a, a.layers \in Seq(Contents),
         Packages!Unpacked(h, a) \/ UNCHANGED blobs
  PROVE  blobs' \in [Homes -> SUBSET Contents] /\ \A g \in Homes : blobs[g] \subseteq blobs'[g]
<1>1. Packages!Range(a.layers) \subseteq Contents
  <2>1. \A i \in DOMAIN a.layers : a.layers[i] \in Contents
    OBVIOUS
  <2> QED
    BY <2>1 DEF Packages!Range
<1> QED
  BY <1>1 DEF Packages!Unpacked

LEMMA ExportStep ==
  ASSUME PackState, NEW h \in Homes, NEW n \in Names, Packages!Export(h, n)
  PROVE  PackState'
<1>1. /\ tags[h][n] \in Packages!Made /\ bundle' = Packages!Holding(n, tags[h][n])
      /\ UNCHANGED <<origin, dir, registry, tags, blobs, index, job>>
  BY DEF Packages!Export, PackState, PackTypes
<1>2. bundle' \in BundleType /\ ~bundle'.validated
  BY <1>1 DEF Packages!Holding, BundleType
<1> QED
  BY <1>1, <1>2 DEF PackState, PackTypes, Packages!IndexIsBacked

-----------------------------------------------------------------------------
(* A command reads the artifact its tag, or its digest, stands for.        *)
LEMMA AtIs ==
  ASSUME NEW x, NEW D, JobOK(x, tags, blobs, D), x.kind \in Readers \cup {"fleet"}
  PROVE  /\ Packages!At(x) \in Packages!Made /\ x.home \in Homes
         /\ x.kind # "none" /\ x.kind # "build" /\ x.step # "pack"
         /\ x.kind = "fleet" => Packages!At(x) = x.digest
         /\ x.kind \in Readers => Packages!At(x) = tags[x.home][x.ref]
BY DEF JobOK, Placed, Readers, Packages!At

LEMMA ReadManifestStep ==
  ASSUME PackState, NEW j \in Packages!Jobs, Packages!ReadManifest(j)
  PROVE  PackState'
<1> DEFINE x == job[j]
           a == Packages!At(x)
           y(step, todo) == [[x EXCEPT !.manifest = a, !.todo = todo] EXCEPT !.step = step]
<1>1. JobOK(x, tags, blobs, dir) /\ x \in JobType /\ x.step = "manifest"
  BY DEF PackState, JobOK, Packages!ReadManifest
<1>2. x.kind \in Readers \cup {"fleet"} /\ x.todo = <<>> /\ x.got = <<>>
  BY <1>1 DEF JobOK, Placed, JobType, JobSteps, Fetched
<1>3. a \in Packages!Made
  BY <1>1, <1>2, AtIs
<1>4. a.plan.entries \in Seq(Packages!Entry)
  BY <1>3, MadeFacts, BlockFacts
<1>5. PICK step \in {"refused", "resolve", "digest", "unpack", "validate"}, todo \in Seq(Packages!Entry) :
        /\ step = "resolve" => x.kind = "serve" /\ ~a.plan.auto /\ todo = a.plan.entries
        /\ step # "resolve" => todo = <<>>
        /\ x.kind = "serve" => step \in {"refused", "resolve"}
        /\ x.kind # "serve" => step = CASE x.kind = "eval" -> "digest"
                                          [] x.kind = "export" -> "validate"
                                          [] OTHER -> "unpack"
        /\ job' = [job EXCEPT ![j] = y(step, todo)]
        /\ UNCHANGED <<origin, dir, registry, bundle, tags, blobs, index>>
  <2>1. <<>> \in Seq(Packages!Entry)
    OBVIOUS
  <2>2. \A step : [[x EXCEPT !.manifest = a] EXCEPT !.step = step] = y(step, <<>>)
    <3> HIDE DEF a
    <3> QED
      BY <1>1, <1>2 DEF JobType, JobSteps
  <2>3. UNCHANGED <<origin, dir, registry, bundle, tags, blobs, index>>
    BY DEF Packages!ReadManifest, Packages!world
  <2>4. CASE x.kind = "serve" /\ a.plan.auto
    <3>1. job' = [job EXCEPT ![j] = y("refused", <<>>)]
      BY <2>2, <2>4, Zenon DEF Packages!ReadManifest, Packages!Go
    <3> QED
      BY <2>1, <2>3, <2>4, <3>1, Zenon
  <2>5. CASE x.kind = "serve" /\ ~a.plan.auto
    <3>1. job' = [job EXCEPT ![j] = y("resolve", a.plan.entries)]
      BY <2>5 DEF Packages!ReadManifest, Packages!Go
    <3> QED
      BY <1>4, <2>3, <2>5, <3>1, Zenon
  <2>6. CASE x.kind # "serve"
    <3> DEFINE step == CASE x.kind = "eval" -> "digest" [] x.kind = "export" -> "validate"
                         [] OTHER -> "unpack"
    <3>1. job' = [job EXCEPT ![j] = y(step, <<>>)]
      BY <2>2, <2>6, Zenon DEF Packages!ReadManifest, Packages!Go
    <3> QED
      BY <2>1, <2>3, <2>6, <3>1, Zenon
  <2> QED
    BY <2>4, <2>5, <2>6
<1>6. PICK z : z = y(step, todo)
  OBVIOUS
<1>7. /\ z \in JobType /\ z.kind = x.kind /\ z.home = x.home /\ z.ref = x.ref /\ z.seal = x.seal
      /\ z.manifest = a /\ z.digest = x.digest /\ z.files = x.files /\ z.moved = x.moved
      /\ z.todo = todo /\ z.got = <<>> /\ z.step = step
  <2> HIDE DEF a
  <2> QED
    BY <1>1, <1>2, <1>3, <1>6 DEF JobType, JobSteps, Fetching
<1>8. step = "resolve" => Aligned(<<>>, todo, a.plan.entries)
  <2>1. <<>> \in Seq(Contents)
    OBVIOUS
  <2> QED
    BY <1>4, <1>5, <2>1, FollowsAligned
<1>9. /\ x.kind = "fleet" => a = x.digest
      /\ x.kind \in Readers => a = tags[x.home][x.ref]
  BY <1>1, <1>2, AtIs
<1> HIDE DEF x, y, a
<1>10. Placed(z, tags, dir)
  BY <1>1, <1>2, <1>5, <1>7 DEF JobOK, Placed, Readers
<1>11. ReadOnce(z, tags)
  BY <1>2, <1>3, <1>5, <1>7, <1>9 DEF ReadOnce, Readers, Fetching
<1>12. Fetched(z, blobs)
  BY <1>2, <1>5, <1>7, <1>8 DEF Fetched, Fetching
<1>13. Sealed(z)
  BY <1>5, <1>7 DEF Sealed, FromSeal, Fetching
<1>14. JobOK(z, tags, blobs', dir)
  BY <1>5, <1>7, <1>10, <1>11, <1>12, <1>13 DEF JobOK
<1> QED
  BY <1>5, <1>6, <1>14, OwnStep DEF PackState, PackTypes, Packages!IndexIsBacked

LEMMA ReadDigestStep ==
  ASSUME PackState, NEW j \in Packages!Jobs, Packages!ReadDigest(j)
  PROVE  PackState'
<1> DEFINE x == job[j]
           a == Packages!At(x)
           y == [[x EXCEPT !.digest = a] EXCEPT !.step = "unpack"]
<1>1. /\ JobOK(x, tags, blobs, dir) /\ x \in JobType /\ x.step = "digest"
      /\ job' = [job EXCEPT ![j] = y]
      /\ UNCHANGED <<origin, dir, registry, bundle, tags, blobs, index>>
  BY DEF PackState, JobOK, Packages!ReadDigest, Packages!Go, Packages!world
<1>2. x.kind = "eval" /\ x.kind \in Readers /\ x.todo = <<>> /\ x.got = <<>>
  BY <1>1 DEF JobOK, Placed, Fetched, Readers
<1>3. a \in Packages!Made /\ a = tags[x.home][x.ref]
  BY <1>1, <1>2, AtIs
<1>4. /\ y \in JobType /\ y.kind = x.kind /\ y.home = x.home /\ y.ref = x.ref /\ y.seal = x.seal
      /\ y.manifest = x.manifest /\ y.digest = a /\ y.files = x.files /\ y.moved = x.moved
      /\ y.todo = <<>> /\ y.got = <<>> /\ y.step = "unpack"
  <2> HIDE DEF a
  <2> QED
    BY <1>1, <1>2, <1>3 DEF JobType, JobSteps, Fetching
<1> HIDE DEF x, y, a
<1>5. Placed(y, tags, dir)
  BY <1>1, <1>2, <1>4 DEF JobOK, Placed, Readers
<1>6. ReadOnce(y, tags)
  BY <1>1, <1>2, <1>3, <1>4 DEF JobOK, ReadOnce, Readers, Fetching
<1>7. Fetched(y, blobs) /\ Sealed(y)
  BY <1>4 DEF Fetched, Sealed, FromSeal, Fetching
<1>8. JobOK(y, tags, blobs', dir)
  BY <1>1, <1>4, <1>5, <1>6, <1>7 DEF JobOK
<1> QED
  BY <1>1, <1>8, OwnStep DEF PackState, PackTypes, Packages!IndexIsBacked

LEMMA UnpackStep ==
  ASSUME PackState, NEW j \in Packages!Jobs, Packages!Unpack(j)
  PROVE  PackState'
<1> DEFINE x == job[j]
           a == Packages!At(x)
           y(step, todo, got) ==
             [[x EXCEPT !.files = a, !.todo = todo, !.got = got] EXCEPT !.step = step]
           Whole == ~x.manifest.plan.auto /\ ~a.plan.auto /\ a.sealed
<1>1. /\ JobOK(x, tags, blobs, dir) /\ x \in JobType /\ x.step = "unpack"
      /\ Packages!Unpacked(x.home, a) /\ UNCHANGED <<origin, dir, registry, bundle, tags, index>>
  BY DEF PackState, JobOK, Packages!Unpack, Packages!world
<1>2. /\ x.kind \in Readers \cup {"fleet"} /\ x.kind # "serve" /\ x.todo = <<>> /\ x.got = <<>>
      /\ x.manifest \in Packages!Made
  BY <1>1 DEF JobOK, Placed, ReadOnce, JobType, JobSteps, Fetched, Readers
<1>3. a \in Packages!Made /\ a.layers \in Seq(Contents) /\ x.home \in Homes
  BY <1>1, <1>2, AtIs, MadeFacts
<1>4. x.manifest.plan.entries \in Seq(Packages!Entry)
  BY <1>2, MadeFacts, BlockFacts
<1>5. PICK step \in {"resolve", "unavailable"}, todo \in Seq(Packages!Entry), got \in Seq(Contents) :
        /\ step = "resolve" =>
             \/ Whole /\ todo = <<>> /\ got = a.layers
             \/ ~Whole /\ todo = x.manifest.plan.entries /\ got = <<>>
        /\ step = "unavailable" => x.manifest.plan.auto
        /\ job' = [job EXCEPT ![j] = y(step, todo, got)]
  <2>1. <<>> \in Seq(Packages!Entry) /\ <<>> \in Seq(Contents)
    OBVIOUS
  <2>2. /\ [[x EXCEPT !.files = a, !.got = a.layers] EXCEPT !.step = "resolve"]
             = y("resolve", <<>>, a.layers)
        /\ [[x EXCEPT !.files = a] EXCEPT !.step = "unavailable"] = y("unavailable", <<>>, <<>>)
        /\ [[x EXCEPT !.files = a, !.todo = x.manifest.plan.entries] EXCEPT !.step = "resolve"]
             = y("resolve", x.manifest.plan.entries, <<>>)
    <3> HIDE DEF a
    <3> QED
      BY <1>1, <1>2 DEF JobType, JobSteps
  <2>3. CASE Whole
    <3>1. job' = [job EXCEPT ![j] = y("resolve", <<>>, a.layers)]
      BY <2>2, <2>3 DEF Packages!Unpack, Packages!Go
    <3> QED
      BY <1>3, <2>1, <2>3, <3>1, Zenon
  <2>4. CASE ~Whole /\ x.kind = "eval" /\ x.manifest.plan.auto
    <3>1. job' = [job EXCEPT ![j] = y("unavailable", <<>>, <<>>)]
      BY <2>2, <2>4 DEF Packages!Unpack, Packages!Go
    <3> QED
      BY <2>1, <2>4, <3>1, Zenon
  <2>5. CASE ~Whole /\ ~(x.kind = "eval" /\ x.manifest.plan.auto)
    <3>1. job' = [job EXCEPT ![j] = y("resolve", x.manifest.plan.entries, <<>>)]
      BY <2>2, <2>5 DEF Packages!Unpack, Packages!Go
    <3> QED
      BY <1>4, <2>1, <2>5, <3>1, Zenon
  <2> QED
    BY <2>3, <2>4, <2>5
<1>6. PICK z : z = y(step, todo, got)
  OBVIOUS
<1>7. /\ z \in JobType /\ z.kind = x.kind /\ z.home = x.home /\ z.ref = x.ref /\ z.seal = x.seal
      /\ z.manifest = x.manifest /\ z.digest = x.digest /\ z.files = a /\ z.moved = x.moved
      /\ z.todo = todo /\ z.got = got /\ z.step = step
  <2> HIDE DEF a
  <2> QED
    BY <1>1, <1>2, <1>3, <1>6 DEF JobType, JobSteps, Fetching
<1>8. Calm(x) => a = x.manifest
  <2>1. /\ x.kind = "fleet" => a = x.digest
        /\ x.kind \in Readers => a = tags[x.home][x.ref]
    BY <1>1, <1>2, AtIs
  <2> HIDE DEF x, a
  <2> QED
    BY <1>1, <1>2, <2>1 DEF JobOK, ReadOnce, Calm, Readers
<1>9. blobs' \in [Homes -> SUBSET Contents] /\ \A h \in Homes : blobs[h] \subseteq blobs'[h]
  BY <1>1, <1>3, UnpackedFiles DEF PackState, PackTypes
<1>10. Bound(z) /\ step = "resolve" => Aligned(got, todo, x.manifest.plan.entries)
  <2> HAVE Bound(z) /\ step = "resolve"
  <2>1. Calm(x) /\ ~x.manifest.plan.auto
    BY <1>2, <1>7 DEF Bound, Calm, Readers
  <2>2. CASE Whole
    <3>1. Packages!Follows(a.layers, a.plan.entries)
      BY <1>3, <2>2, MadeFacts
    <3> QED
      BY <1>3, <1>4, <1>5, <1>8, <2>1, <2>2, <3>1, FollowsAligned
  <2>3. CASE ~Whole
    <3>1. <<>> \in Seq(Contents)
      OBVIOUS
    <3> QED
      BY <1>4, <1>5, <2>3, <3>1, FollowsAligned
  <2> QED
    BY <2>2, <2>3
<1>11. FromSeal(z) => step = "resolve" /\ Whole
  BY <1>5, <1>7, <1>8 DEF FromSeal, Calm
<1>12. FromSeal(z) => got = x.manifest.layers /\ todo = <<>>
  BY <1>5, <1>7, <1>8, <1>11 DEF FromSeal, Calm
<1> HIDE DEF x, y, a, Whole
<1>13. Placed(z, tags, dir)
  BY <1>1, <1>2, <1>7 DEF JobOK, Placed, Readers
<1>14. ReadOnce(z, tags)
  BY <1>1, <1>2, <1>7, <1>8 DEF JobOK, ReadOnce, Calm, Readers, Fetching
<1>15. Fetched(z, blobs')
  BY <1>7, <1>10 DEF Fetched, Fetching
<1>16. Sealed(z)
  BY <1>7, <1>11, <1>12 DEF Sealed
<1>17. JobOK(z, tags, blobs', dir)
  BY <1>7, <1>13, <1>14, <1>15, <1>16 DEF JobOK
<1>18. Packages!IndexIsBacked'
  BY <1>1, <1>9 DEF PackState, PackTypes, Packages!IndexIsBacked
<1> QED
  BY <1>1, <1>5, <1>6, <1>9, <1>17, <1>18, OwnStep DEF PackState, PackTypes

(* ValidateOffline unpacks what it looks at.                               *)
LEMMA ValidateStep ==
  ASSUME PackState, NEW j \in Packages!Jobs, Packages!Validate(j)
  PROVE  PackState'
<1> DEFINE x == job[j]
           a == Packages!At(x)
           y(step) == [[x EXCEPT !.files = a] EXCEPT !.step = step]
<1>1. /\ JobOK(x, tags, blobs, dir) /\ x \in JobType /\ x.step = "validate"
      /\ Packages!Unpacked(x.home, a) /\ UNCHANGED <<origin, dir, registry, bundle, tags, index>>
  BY DEF PackState, JobOK, Packages!Validate, Packages!world
<1>2. PICK step \in {"export", "refused"} :
        /\ step = "export" => Packages!Validates(x.manifest)
        /\ job' = [job EXCEPT ![j] = y(step)]
  BY Zenon DEF Packages!Validate, Packages!Go
<1>3. x.kind = "export" /\ x.kind \in Readers /\ x.todo = <<>> /\ x.got = <<>>
  BY <1>1 DEF JobOK, Placed, Fetched, Readers
<1>4. a \in Packages!Made /\ a.layers \in Seq(Contents) /\ x.home \in Homes
  BY <1>1, <1>3, AtIs, MadeFacts
<1>5. PICK z : z = y(step)
  OBVIOUS
<1>6. /\ z \in JobType /\ z.kind = x.kind /\ z.home = x.home /\ z.ref = x.ref /\ z.seal = x.seal
      /\ z.manifest = x.manifest /\ z.digest = x.digest /\ z.files = a /\ z.moved = x.moved
      /\ z.todo = <<>> /\ z.got = <<>> /\ z.step = step
  <2> HIDE DEF a
  <2> QED
    BY <1>1, <1>3, <1>4, <1>5 DEF JobType, JobSteps
<1>7. blobs' \in [Homes -> SUBSET Contents] /\ \A h \in Homes : blobs[h] \subseteq blobs'[h]
  BY <1>1, <1>4, UnpackedFiles DEF PackState, PackTypes
<1> HIDE DEF x, y, a
<1>8. Placed(z, tags, dir)
  BY <1>1, <1>3, <1>6 DEF JobOK, Placed, Readers
<1>9. ReadOnce(z, tags)
  BY <1>1, <1>2, <1>3, <1>6 DEF JobOK, ReadOnce, Readers, Fetching
<1>10. Fetched(z, blobs') /\ Sealed(z)
  BY <1>3, <1>6 DEF Fetched, Sealed, FromSeal, Fetching
<1>11. JobOK(z, tags, blobs', dir)
  BY <1>6, <1>8, <1>9, <1>10 DEF JobOK
<1>12. Packages!IndexIsBacked'
  BY <1>1, <1>7 DEF PackState, PackTypes, Packages!IndexIsBacked
<1> QED
  BY <1>1, <1>2, <1>5, <1>7, <1>11, <1>12, OwnStep DEF PackState, PackTypes

(* The file holds what was validated, unless the tag moved.                *)
LEMMA ExportFileStep ==
  ASSUME PackState, NEW j \in Packages!Jobs, Packages!ExportFile(j)
  PROVE  PackState'
<1> DEFINE x == job[j]
           y == [x EXCEPT !.step = "exported"]
<1>1. /\ JobOK(x, tags, blobs, dir) /\ x \in JobType /\ x.step = "export"
      /\ bundle' = [ref |-> x.ref, artifact |-> Packages!At(x), validated |-> TRUE, moved |-> x.moved]
      /\ job' = [job EXCEPT ![j] = y] /\ UNCHANGED <<origin, dir, registry, tags, blobs, index>>
  BY DEF PackState, JobOK, Packages!ExportFile, Packages!Go
<1>2. x.kind = "export" /\ x.kind \in Readers /\ x.todo = <<>> /\ x.got = <<>> /\ x.ref \in Names
  BY <1>1 DEF JobOK, Placed, Fetched, Readers
<1>3. /\ Packages!At(x) \in Packages!Made /\ x.moved \in BOOLEAN
      /\ ~x.moved => Packages!At(x) = x.manifest /\ Packages!Validates(x.manifest)
  BY <1>1, <1>2, AtIs DEF JobOK, JobType, JobSteps, ReadOnce
<1>4. /\ bundle' \in BundleType
      /\ bundle'.validated /\ ~bundle'.moved => Packages!Validates(bundle'.artifact)
  <2>1. PICK a : a = Packages!At(x)
    OBVIOUS
  <2> QED
    BY <1>1, <1>2, <1>3, <2>1 DEF BundleType
<1>5. /\ y \in JobType /\ y.kind = x.kind /\ y.home = x.home /\ y.ref = x.ref
      /\ y.manifest = x.manifest /\ y.digest = x.digest /\ y.moved = x.moved
      /\ y.todo = <<>> /\ y.got = <<>> /\ y.step = "exported"
  BY <1>1, <1>2 DEF JobType, JobSteps
<1> HIDE DEF x, y
<1>6. JobOK(y, tags, blobs, dir)
  BY <1>1, <1>2, <1>5 DEF JobOK, Placed, ReadOnce, Fetched, Sealed, FromSeal, Readers, Fetching
<1>7. DOMAIN job' = Packages!Jobs /\ \A k \in Packages!Jobs : JobOK(job'[k], tags, blobs, dir)
  BY <1>1, <1>6 DEF PackState, PackTypes
<1> QED
  BY <1>1, <1>4, <1>7 DEF PackState, PackTypes, Packages!IndexIsBacked

-----------------------------------------------------------------------------
LEMMA PackSteps == Packages!PackagesAssumption /\ PackState /\ Packages!Next => PackState'
BY EditStep, CopySteps, ExportStep, StartBuildStep, StartStep, UseStep, DownloadStep, KeepStep,
   RecordStep, MissesStep, PackStep, BuiltStep, ReadManifestStep, ReadDigestStep, UnpackStep,
   ValidateStep, ExportFileStep, EndsStep, GoneStep
   DEF Packages!Next

LEMMA PackStarts == PartsInit => PackInv
<1> SUFFICES ASSUME Packages!Init PROVE PackState
  BY DEF PackInv, PartsInit
<1> USE PackagesAssumption DEF Packages!PackagesAssumption, Packages!Init
<1>1. dir \in Drafts
  BY DEF Drafts
<1>2. registry \in [Repositories -> Packages!Made \cup {None}]
  OBVIOUS
<1>3. bundle \in BundleType /\ ~bundle.validated
  <2>1. PICK a \in Received : bundle = Packages!Holding(a.name, a)
    BY DEF Packages!Holding
  <2> QED
    BY <2>1, MadeFacts DEF Packages!Holding, BundleType
<1>4. PackTypes
  BY <1>1, <1>2, <1>3 DEF PackTypes
<1>5. \A k \in Packages!Jobs : JobOK(job[k], tags, blobs, dir)
  BY IdleOK
<1> QED
  BY <1>4, <1>5 DEF PackState, Packages!IndexIsBacked

LEMMA PackHolds ==
  PackState => /\ Packages!OneArtifact /\ Packages!PinsHold /\ Packages!IndexIsBacked
               /\ Packages!SealedRunsAsBuilt /\ Packages!ValidatedIsWhole
<1> SUFFICES ASSUME PackState
             PROVE  /\ Packages!OneArtifact /\ Packages!PinsHold
                    /\ Packages!SealedRunsAsBuilt /\ Packages!ValidatedIsWhole
  BY DEF PackState
<1>1. ASSUME NEW j \in Packages!Jobs
      PROVE  /\ JobOK(job[j], tags, blobs, dir) /\ job[j] \in JobType
  BY DEF PackState, JobOK
<1>2. Packages!OneArtifact
  BY <1>1 DEF JobOK, JobType, JobSteps, Placed, ReadOnce, Calm, Readers, Fetching,
              Packages!OneArtifact, Packages!Finished
<1>3. Packages!PinsHold
  <2> SUFFICES ASSUME NEW j \in Packages!Jobs, Packages!Finished(job[j]),
                      ~job[j].manifest.plan.auto, ~job[j].moved,
                      job[j].manifest.plan.entries[1].pin # None
               PROVE  job[j].got = <<job[j].manifest.plan.entries[1].pin>>
    BY DEF Packages!PinsHold
  <2> DEFINE x == job[j]
             entries == x.manifest.plan.entries
  <2>1. JobOK(x, tags, blobs, dir) /\ x \in JobType /\ x.step = "done" /\ x.kind # "build"
    BY <1>1 DEF Packages!Finished
  <2>2. x.kind \in Readers \cup {"fleet"} /\ x.manifest \in Packages!Made
    BY <2>1 DEF JobOK, JobType, JobSteps, Placed, ReadOnce
  <2>3. Len(entries) = 1
    BY <2>2, MadeFacts, BlockFacts
  <2>4. Aligned(x.got, <<>>, entries)
    BY <2>1, <2>2 DEF JobOK, Fetched, Bound, Calm, Fetching
  <2>5. x.got \in Seq(Contents) /\ Len(<<>>) = 0
    BY <2>1 DEF JobType, JobSteps
  <2> HIDE DEF x, entries
  <2>6. Len(x.got) = 1 /\ x.got[1] = entries[1].pin
    BY <2>3, <2>4, <2>5 DEF Aligned, x, entries
  <2>7. x.got = <<x.got[1]>>
    BY <2>5, <2>6
  <2> QED
    BY <2>6, <2>7 DEF x, entries
<1>4. Packages!SealedRunsAsBuilt
  <2> SUFFICES ASSUME NEW j \in Packages!Jobs, job[j].kind \in {"run", "eval", "fleet"},
                      ~job[j].moved, job[j].manifest.sealed, ~job[j].manifest.plan.auto
               PROVE  /\ job[j].step # "unavailable"
                      /\ job[j].step = "done" => job[j].got = job[j].manifest.layers
    BY DEF Packages!SealedRunsAsBuilt
  <2> QED
    BY <1>1 DEF JobOK, Sealed, FromSeal, Calm, Fetching
<1>5. Packages!ValidatedIsWhole
  <2> SUFFICES ASSUME bundle.validated, ~bundle.moved
               PROVE  /\ Packages!Validates(bundle.artifact)
                      /\ \A i \in DOMAIN bundle.artifact.plan.entries :
                           bundle.artifact.plan.entries[i].pin \in {None, bundle.artifact.layers[i]}
    BY DEF Packages!ValidatedIsWhole
  <2>1. /\ bundle.artifact \in Packages!Made /\ bundle.artifact.sealed
        /\ Packages!Validates(bundle.artifact)
    BY DEF PackState, PackTypes, BundleType, Packages!Validates
  <2>2. /\ Packages!Follows(bundle.artifact.layers, bundle.artifact.plan.entries)
        /\ bundle.artifact.plan.entries \in Seq(Packages!Entry)
        /\ bundle.artifact.layers \in Seq(Contents)
    BY <2>1, MadeFacts, BlockFacts
  <2>3. DOMAIN bundle.artifact.plan.entries = DOMAIN bundle.artifact.layers
    BY <2>2 DEF Packages!Follows
  <2> QED
    BY <2>1, <2>2, <2>3 DEF Packages!Follows
<1> QED
  BY <1>2, <1>3, <1>4, <1>5

-----------------------------------------------------------------------------
(* Installation: what an installer knows by its step.                      *)
Steps == {"idle", "shown", "runtime", "unpack", "write", "record", "models", "tools", "tool",
          "secrets", "review", "test", "done"}
Things == (UNION {b.models : b \in Builds}) \cup Install!Tools \cup {"runtime"}

InstallerType ==
  [step : Steps, open : SUBSET Things, agreed : SUBSET {"models", "runtime", "tools"},
   given : SUBSET Install!Keys, tests : BOOLEAN, build : Builds \cup {None}, moved : BOOLEAN,
   entry : Nat \ {0}, tool : Install!Tools \cup {None}, took : SUBSET Things]

(* What installers share.                                                  *)
Home == [reference |-> reference, have |-> have, fetched |-> fetched, stopped |-> stopped,
          unpacked |-> unpacked, keys |-> keys, current |-> current, box |-> box]
WorldType ==
  [reference : Builds, have : SUBSET (InStore \cup Things),
   fetched : [Install!Tools -> {"none", "part", "whole"}], stopped : SUBSET Install!Tools,
   unpacked : [Install!Entries -> {"none", "torn", "whole"}], keys : SUBSET Install!Keys,
   current : {"none", "torn", "whole"}, box : Hosts]

Installing(x) ==
  /\ x \in InstallerType
  /\ x.step = "idle" => x.took = {}
  /\ x.step \notin {"idle", "shown"} => x.build \in Builds
  /\ x.step \in {"idle", "shown", "runtime"} => x.entry = 1
  /\ x.step = "runtime" => "runtime" \in x.agreed
  /\ x.step = "tool" => x.tool \in Install!Tools
  /\ x.step = "write" => x.entry \in Install!Entries
  /\ x.step = "record" => x.entry > Len(Unzipped)

(* What it takes was open when the plan was shown: of the build it shows,  *)
(* or has loaded, nothing else lacks.                                      *)
Approved(x, w) ==
  /\ x.moved \/ x.took \subseteq x.open \cup w.stopped
  /\ x.step # "idle" /\ ~x.moved =>
       LET b == IF x.step = "shown" THEN w.reference ELSE x.build IN
       /\ b.sealed \/ b.models \ w.have \subseteq x.open
       /\ "models" \in x.agreed => ~b.sealed
       /\ \A t \in b.tools : w.fetched[t] = "none" => t \in x.open \cup w.stopped
       /\ "runtime" \in x.agreed => "runtime" \in x.open

(* What it has passed in the archive is there.                             *)
Passed(x, w) ==
  x.step \in {"unpack", "write", "record"} =>
    \A e \in Install!Entries :
      e < x.entry \/ (x.step = "write" /\ e = x.entry) => w.unpacked[e] # "none"

(* What the review has found stays.                                        *)
Reviewed(x, w) ==
  x.step \in {"test", "done"} =>
    /\ x.build.sealed \/ x.build.models \subseteq w.have
    /\ x.build.keys \subseteq w.keys
    /\ x.build.chat => w.box.roomy /\ (w.box.present \/ w.current # "none")
    /\ \A t \in x.build.tools : w.fetched[t] # "none" \/ t \in w.stopped

InstallerOK(x, w) == Installing(x) /\ Approved(x, w) /\ Passed(x, w) /\ Reviewed(x, w)

(* A tool that is there in part is being fetched or was stopped, and a file*)
(* of the runtime is being written or was broken off.                      *)
HalfDone ==
  /\ \A t \in Install!Tools : fetched[t] = "part" =>
       t \in stopped \/ \E o \in Install!Busy("tool") : installer[o].tool = t
  /\ \A e \in Install!Entries : unpacked[e] = "torn" =>
       e \in broken \/ \E o \in Install!Busy("write") : installer[o].entry = e

InstallState ==
  /\ Home \in WorldType /\ DOMAIN installer = Installers /\ HalfDone
  /\ current # "none" => \A e \in Install!Entries : unpacked[e] # "none"
  /\ \A i \in Installers : InstallerOK(installer[i], Home)

InstallInv == part = "installation" => InstallState

(* The home of other installers only gets fuller, but for a clone that was *)
(* stopped and removed.                                                    *)
Fuller(v, w) ==
  /\ w.reference = v.reference /\ w.box = v.box
  /\ v.have \subseteq w.have /\ v.stopped \subseteq w.stopped /\ v.keys \subseteq w.keys
  /\ \A t \in Install!Tools : w.fetched[t] = "none" => v.fetched[t] = "none" \/ t \in w.stopped
  /\ \A e \in Install!Entries : w.unpacked[e] = "none" => v.unpacked[e] = "none"
  /\ w.current = "none" => v.current = "none"

LEMMA ToolsOf == \A b \in Builds : b.tools \subseteq Install!Tools /\ b.keys \subseteq Install!Keys
                                  /\ b.models \subseteq Things
BY DEF Install!Tools, Install!Keys, Things

LEMMA OthersSee ==
  ASSUME NEW v \in WorldType, NEW w \in WorldType, Fuller(v, w), NEW x, InstallerOK(x, v)
  PROVE  InstallerOK(x, w)
<1>1. Installing(x)
  BY DEF InstallerOK
<1>2. x.step # "idle" => (IF x.step = "shown" THEN v.reference ELSE x.build) \in Builds
  BY <1>1 DEF Installing, WorldType
<1>3. Approved(x, w)
  BY <1>2, ToolsOf DEF InstallerOK, Approved, Fuller
<1>4. Passed(x, w)
  BY DEF InstallerOK, Passed, Fuller
<1>5. Reviewed(x, w)
  <2>1. x.step \in {"test", "done"} => x.build \in Builds
    BY <1>1 DEF Installing
  <2> QED
    BY <2>1, ToolsOf DEF InstallerOK, Reviewed, Fuller
<1> QED
  BY <1>1, <1>3, <1>4, <1>5 DEF InstallerOK

(* One installer moves.                                                    *)
LEMMA OneMoves ==
  ASSUME InstallState, NEW i \in Installers, NEW y, installer' = [installer EXCEPT ![i] = y],
         Home' \in WorldType, Fuller(Home, Home'), InstallerOK(y, Home'), HalfDone',
         current' # "none" => \A e \in Install!Entries : unpacked'[e] # "none"
  PROVE  InstallState'
<1>1. DOMAIN installer = Installers
  BY DEF InstallState
<1>2. \A k \in Installers : installer'[k] = IF k = i THEN y ELSE installer[k]
  BY <1>1
<1>3. \A k \in Installers : InstallerOK(installer[k], Home')
  <2>1. Home \in WorldType
    BY DEF InstallState
  <2> QED
    BY <2>1, OthersSee DEF InstallState
<1>4. \A k \in Installers : InstallerOK(installer'[k], Home')
  BY <1>2, <1>3
<1> QED
  BY <1>1, <1>4 DEF InstallState

(* The fields of a home, and of the next one.                              *)
LEMMA HomeIs ==
  /\ Home.reference = reference /\ Home.have = have /\ Home.fetched = fetched
  /\ Home.stopped = stopped /\ Home.unpacked = unpacked /\ Home.keys = keys
  /\ Home.current = current /\ Home.box = box
  /\ Home'.reference = reference' /\ Home'.have = have' /\ Home'.fetched = fetched'
  /\ Home'.stopped = stopped' /\ Home'.unpacked = unpacked' /\ Home'.keys = keys'
  /\ Home'.current = current' /\ Home'.box = box'
BY DEF Home

LEMMA HomeType ==
  /\ Home \in WorldType <=>
       /\ reference \in Builds /\ have \in SUBSET (InStore \cup Things)
       /\ fetched \in [Install!Tools -> {"none", "part", "whole"}]
       /\ stopped \in SUBSET Install!Tools
       /\ unpacked \in [Install!Entries -> {"none", "torn", "whole"}]
       /\ keys \in SUBSET Install!Keys
       /\ current \in {"none", "torn", "whole"} /\ box \in Hosts
  /\ Home' \in WorldType <=>
       /\ reference' \in Builds /\ have' \in SUBSET (InStore \cup Things)
       /\ fetched' \in [Install!Tools -> {"none", "part", "whole"}]
       /\ stopped' \in SUBSET Install!Tools
       /\ unpacked' \in [Install!Entries -> {"none", "torn", "whole"}]
       /\ keys' \in SUBSET Install!Keys
       /\ current' \in {"none", "torn", "whole"} /\ box' \in Hosts
<1>1. ASSUME NEW r, NEW a, NEW f, NEW s, NEW u, NEW k, NEW c, NEW b
      PROVE  [reference |-> r, have |-> a, fetched |-> f, stopped |-> s, unpacked |-> u,
              keys |-> k, current |-> c, box |-> b] \in WorldType <=>
               /\ r \in Builds /\ a \in SUBSET (InStore \cup Things)
               /\ f \in [Install!Tools -> {"none", "part", "whole"}]
               /\ s \in SUBSET Install!Tools
               /\ u \in [Install!Entries -> {"none", "torn", "whole"}]
               /\ k \in SUBSET Install!Keys
               /\ c \in {"none", "torn", "whole"} /\ b \in Hosts
  BY DEF WorldType
<1> QED
  BY <1>1 DEF Home

(* An installer that neither fetches a tool nor writes a file moves, and   *)
(* leaves all that is half done as it is.                                  *)
LEMMA HalfStays ==
  ASSUME InstallState, NEW i \in Installers, NEW y, installer' = [installer EXCEPT ![i] = y],
         installer[i].step \notin {"tool", "write"}, UNCHANGED <<fetched, unpacked, stopped, broken>>
  PROVE  HalfDone'
<1>1. DOMAIN installer = Installers /\ HalfDone
  BY DEF InstallState
<1>2. \A k \in Installers : k # i => installer'[k] = installer[k]
  BY <1>1
<1>3. /\ \A o \in Install!Busy("tool") : o \in Install!Busy("tool")' /\ installer'[o] = installer[o]
      /\ \A o \in Install!Busy("write") : o \in Install!Busy("write")' /\ installer'[o] = installer[o]
  BY <1>2 DEF Install!Busy
<1> QED
  BY <1>1, <1>3 DEF HalfDone

(* An installer that only goes on by itself.                               *)
LEMMA ByItself ==
  ASSUME InstallState, NEW i \in Installers, NEW y, installer' = [installer EXCEPT ![i] = y],
         installer[i].step \notin {"tool", "write"},
         UNCHANGED <<box, reference, have, fetched, stopped, keys, unpacked, current, broken>>,
         InstallerOK(y, Home)
  PROVE  InstallState'
<1>1. Home' = Home
  BY DEF Home
<1>2. Fuller(Home, Home') /\ Home' \in WorldType
  BY <1>1 DEF Fuller, InstallState
<1>3. HalfDone'
  BY HalfStays
<1> QED
  BY <1>1, <1>2, <1>3, OneMoves DEF InstallState

-----------------------------------------------------------------------------
(* A plan is shown, declined or approved.                                  *)
LEMMA BlankIs ==
  /\ Install!Idle \in InstallerType /\ Install!Idle.step = "idle" /\ Install!Idle.took = {}
  /\ Install!Idle.entry = 1 /\ [Install!Idle EXCEPT !.step = "idle"] = Install!Idle
<1>1. /\ Install!Idle.step = "idle" /\ Install!Idle.took = {} /\ Install!Idle.entry = 1
      /\ Install!Idle \in InstallerType
  BY DEF Install!Idle, InstallerType, Steps
<1>2. [Install!Idle EXCEPT !.step = "idle"] = Install!Idle
  BY <1>1 DEF InstallerType
<1> QED
  BY <1>1, <1>2

LEMMA BlankOK == \A w : InstallerOK(Install!Idle, w)
BY BlankIs DEF InstallerOK, Installing, Approved, Passed, Reviewed

LEMMA InspectStep ==
  ASSUME InstallState, NEW i \in Installers, Install!Inspect(i)
  PROVE  InstallState'
<1> DEFINE open == Install!Open(reference)
           asks == Install!Asks(reference)
           y == [[Install!Idle EXCEPT !.open = open, !.agreed = asks] EXCEPT !.step = "shown"]
<1>1. /\ installer' = [installer EXCEPT ![i] = y] /\ installer[i].step \in {"idle", "done"}
      /\ UNCHANGED <<box, reference, have, fetched, stopped, keys, unpacked, current, broken>>
  BY DEF Install!Inspect, Install!Go, Install!downloads, Install!runtime
<1>2. reference \in Builds
  BY HomeType DEF InstallState
<1>3. open \in SUBSET Things /\ asks \in SUBSET {"models", "runtime", "tools"}
  <2>1. Install!Missing(reference) \subseteq Things
    BY <1>2, ToolsOf DEF Install!Missing
  <2>2. Install!Unfetched(reference) \subseteq Things /\ "runtime" \in Things
    <3>1. Install!Tools \subseteq Things /\ "runtime" \in Things
      BY DEF Things
    <3> QED
      BY <1>2, <3>1, ToolsOf DEF Install!Unfetched
  <2>3. open \in SUBSET Things
    BY <2>1, <2>2 DEF Install!Open
  <2>4. asks \in SUBSET {"models", "runtime", "tools"}
    BY DEF Install!Asks
  <2> QED
    BY <2>3, <2>4
<1>4. /\ y \in InstallerType /\ y.step = "shown" /\ y.open = open /\ y.agreed = asks
      /\ y.took = {} /\ y.entry = 1
  <2> HIDE DEF open, asks
  <2> QED
    BY <1>3, BlankIs DEF InstallerType, Steps
<1>5. Approved(y, Home)
  <2>1. /\ reference.sealed \/ reference.models \ have \subseteq open
        /\ "models" \in asks => ~reference.sealed
        /\ \A t \in reference.tools : fetched[t] = "none" => t \in open
        /\ "runtime" \in asks => "runtime" \in open
    BY DEF Install!Open, Install!Asks, Install!Missing, Install!Unfetched, Install!Unsized
  <2> HIDE DEF y, open, asks
  <2> QED
    BY <1>4, <2>1, HomeIs DEF Approved
<1> HIDE DEF y, open, asks
<1>6. InstallerOK(y, Home)
  BY <1>4, <1>5 DEF InstallerOK, Installing, Passed, Reviewed
<1> QED
  BY <1>1, <1>6, ByItself

LEMMA DeclineStep ==
  ASSUME InstallState, NEW i \in Installers, Install!Decline(i)
  PROVE  InstallState'
<1>1. /\ installer' = [installer EXCEPT ![i] = Install!Idle] /\ installer[i].step = "shown"
      /\ UNCHANGED <<box, reference, have, fetched, stopped, keys, unpacked, current, broken>>
  BY BlankIs DEF Install!Decline, Install!Go, Install!downloads, Install!runtime
<1> QED
  BY <1>1, BlankOK, ByItself

LEMMA ApplyStep ==
  ASSUME InstallState, NEW i \in Installers, NEW given \in SUBSET Install!Keys, NEW tests \in BOOLEAN,
         Install!Apply(i, given, tests)
  PROVE  InstallState'
<1> DEFINE x == installer[i]
<1>1. PICK step \in {"runtime", "models"} :
        /\ step = "runtime" => "runtime" \in x.agreed
        /\ installer' = [installer EXCEPT ![i] =
             [[x EXCEPT !.given = given, !.tests = tests, !.build = reference] EXCEPT !.step = step]]
        /\ x.step = "shown"
        /\ UNCHANGED <<box, reference, have, fetched, stopped, keys, unpacked, current, broken>>
  BY DEF Install!Apply, Install!Go, Install!downloads, Install!runtime
<1>2. PICK y : y = [[x EXCEPT !.given = given, !.tests = tests, !.build = reference] EXCEPT !.step = step]
  OBVIOUS
<1>3. InstallerOK(x, Home) /\ x \in InstallerType /\ reference \in Builds
  BY HomeType DEF InstallState, InstallerOK, Installing
<1>4. /\ y \in InstallerType /\ y.step = step /\ y.build = reference /\ y.open = x.open
      /\ y.agreed = x.agreed /\ y.moved = x.moved /\ y.entry = x.entry /\ y.took = x.took
  BY <1>2, <1>3 DEF InstallerType, Steps
<1> HIDE DEF x
<1>5. Approved(y, Home)
  BY <1>1, <1>3, <1>4, HomeIs DEF InstallerOK, Approved
<1>6. Installing(y)
  BY <1>1, <1>3, <1>4 DEF InstallerOK, Installing
<1>7. InstallerOK(y, Home)
  BY <1>4, <1>5, <1>6 DEF InstallerOK, Passed, Reviewed
<1> QED
  BY <1>1, <1>2, <1>7, ByItself DEF x

(* The reference is moved under those who look at a plan.                  *)
LEMMA MoveStep ==
  ASSUME InstallState, Install!Move
  PROVE  InstallState'
<1>1. /\ reference' \in Builds
      /\ installer' = [i \in Installers |->
           IF installer[i].step = "shown" THEN [installer[i] EXCEPT !.moved = TRUE] ELSE installer[i]]
      /\ UNCHANGED <<box, have, fetched, stopped, keys, unpacked, current, broken>>
  BY DEF Install!Move, Install!downloads, Install!runtime
<1>2. Home' \in WorldType
  BY <1>1, HomeType DEF InstallState
<1>3. ASSUME NEW i \in Installers PROVE InstallerOK(installer'[i], Home')
  <2>1. PICK x : x = installer[i]
    OBVIOUS
  <2>2. PICK y : y = IF x.step = "shown" THEN [x EXCEPT !.moved = TRUE] ELSE x
    OBVIOUS
  <2>3. InstallerOK(x, Home) /\ x \in InstallerType
    BY <2>1 DEF InstallState, InstallerOK, Installing
  <2>4. /\ y \in InstallerType /\ y.step = x.step /\ y.build = x.build /\ y.open = x.open
        /\ y.agreed = x.agreed /\ y.entry = x.entry /\ y.took = x.took /\ y.tool = x.tool
        /\ (IF x.step = "shown" THEN y.moved ELSE y.moved = x.moved)
    BY <2>2, <2>3 DEF InstallerType
  <2>5. Approved(y, Home')
    BY <1>1, <2>3, <2>4, HomeIs DEF InstallerOK, Approved
  <2>6. Installing(y)
    BY <2>3, <2>4 DEF InstallerOK, Installing
  <2>7. Passed(y, Home') /\ Reviewed(y, Home')
    BY <1>1, <2>3, <2>4, HomeIs DEF InstallerOK, Passed, Reviewed
  <2>8. y = installer'[i]
    BY <1>1, <2>1, <2>2
  <2> QED
    BY <2>5, <2>6, <2>7, <2>8 DEF InstallerOK
<1>4. HalfDone'
  <2>1. \A o \in Installers : /\ installer'[o].step = installer[o].step
                              /\ installer'[o].tool = installer[o].tool
                              /\ installer'[o].entry = installer[o].entry
    <3> SUFFICES ASSUME NEW o \in Installers
                 PROVE  /\ installer'[o].step = installer[o].step
                        /\ installer'[o].tool = installer[o].tool
                        /\ installer'[o].entry = installer[o].entry
      OBVIOUS
    <3>1. installer[o] \in InstallerType
      BY DEF InstallState, InstallerOK, Installing
    <3> QED
      BY <1>1, <3>1 DEF InstallerType
  <2>2. HalfDone
    BY DEF InstallState
  <2>3. /\ Install!Busy("tool")' = Install!Busy("tool") /\ Install!Busy("write")' = Install!Busy("write")
        /\ Install!Busy("tool") \subseteq Installers /\ Install!Busy("write") \subseteq Installers
    BY <2>1 DEF Install!Busy
  <2> QED
    BY <1>1, <2>1, <2>2, <2>3 DEF HalfDone
<1> QED
  BY <1>1, <1>2, <1>3, <1>4 DEF InstallState

-----------------------------------------------------------------------------
(* The runtime is unpacked, entry by entry.                                *)
LEMMA FetchStep ==
  ASSUME InstallState, NEW i \in Installers, Install!Fetch(i)
  PROVE  InstallState'
<1> DEFINE x == installer[i]
           y == [[x EXCEPT !.took = @ \cup {"runtime"}] EXCEPT !.step = "unpack"]
<1>1. /\ installer' = [installer EXCEPT ![i] = y] /\ x.step = "runtime"
      /\ UNCHANGED <<box, reference, have, fetched, stopped, keys, unpacked, current, broken>>
  BY DEF Install!Fetch, Install!Go, Install!downloads, Install!runtime
<1>2. InstallerOK(x, Home) /\ x \in InstallerType
  BY DEF InstallState, InstallerOK, Installing
<1>3. "runtime" \in Things
  BY DEF Things
<1>4. /\ y \in InstallerType /\ y.step = "unpack" /\ y.build = x.build /\ y.open = x.open
      /\ y.agreed = x.agreed /\ y.moved = x.moved /\ y.entry = x.entry
      /\ y.took = x.took \cup {"runtime"}
  BY <1>2, <1>3 DEF InstallerType, Steps
<1> HIDE DEF y
<1>5. Installing(y) /\ y.entry = 1
  BY <1>1, <1>2, <1>4 DEF InstallerOK, Installing
<1>6. Approved(y, Home)
  BY <1>1, <1>2, <1>4 DEF InstallerOK, Installing, Approved
<1>7. Passed(y, Home)
  BY <1>4, <1>5 DEF Passed, Install!Entries
<1>8. InstallerOK(y, Home)
  BY <1>4, <1>5, <1>6, <1>7 DEF InstallerOK, Reviewed
<1> QED
  BY <1>1, <1>8, ByItself

(* What an installer has passed, when the next entry is there.             *)
LEMMA OnePassed ==
  ASSUME Install!InstallationAssumption, NEW x \in InstallerType, NEW w, Passed(x, w),
         x.step \in {"unpack", "write"},
         x.entry \in Install!Entries => w.unpacked[x.entry] # "none",
         NEW y \in InstallerType, y.step \in {"unpack", "write"},
         y.step = "write" => y.entry = x.entry, y.step = "unpack" => y.entry = x.entry + 1
  PROVE  Passed(y, w)
<1>1. x.entry \in Nat \ {0} /\ Len(Unzipped) \in Nat
  BY DEF InstallerType, Install!InstallationAssumption
<1> QED
  BY <1>1 DEF Passed, Install!Entries

(* A file of the archive is opened, or is written.                         *)
LEMMA UnpackedMore ==
  ASSUME InstallState, NEW e \in Install!Entries, NEW state \in {"torn", "whole"},
         unpacked' = [unpacked EXCEPT ![e] = state],
         UNCHANGED <<box, reference, have, fetched, stopped, keys, current, broken>>
  PROVE  /\ Home' \in WorldType /\ Fuller(Home, Home')
         /\ current' # "none" => \A d \in Install!Entries : unpacked'[d] # "none"
         /\ \A d \in Install!Entries : unpacked'[d] = IF d = e THEN state ELSE unpacked[d]
<1>1. unpacked \in [Install!Entries -> {"none", "torn", "whole"}]
  BY HomeType DEF InstallState
<1>2. /\ unpacked' \in [Install!Entries -> {"none", "torn", "whole"}]
      /\ \A d \in Install!Entries : unpacked'[d] = IF d = e THEN state ELSE unpacked[d]
  BY <1>1
<1>3. Home' \in WorldType
  BY <1>2, HomeType DEF InstallState
<1>4. Fuller(Home, Home')
  BY <1>2, HomeIs DEF Fuller
<1> QED
  BY <1>2, <1>3, <1>4 DEF InstallState

LEMMA TruncateStep ==
  ASSUME Install!InstallationAssumption, InstallState, NEW i \in Installers, Install!Truncate(i)
  PROVE  InstallState'
<1> DEFINE x == installer[i]
           y == [x EXCEPT !.step = "write"]
<1>1. /\ installer' = [installer EXCEPT ![i] = y] /\ x.step = "unpack" /\ x.entry \in Install!Entries
      /\ unpacked' = [unpacked EXCEPT ![x.entry] = "torn"]
      /\ UNCHANGED <<box, reference, have, fetched, stopped, keys, current, broken>>
  BY DEF Install!Truncate, Install!Go, Install!downloads
<1>2. InstallerOK(x, Home) /\ x \in InstallerType /\ DOMAIN installer = Installers
  BY DEF InstallState, InstallerOK, Installing
<1>3. /\ y \in InstallerType /\ y.step = "write" /\ y.build = x.build /\ y.open = x.open
      /\ y.agreed = x.agreed /\ y.moved = x.moved /\ y.entry = x.entry /\ y.took = x.took
  BY <1>2 DEF InstallerType, Steps
<1>4. /\ Home' \in WorldType /\ Fuller(Home, Home')
      /\ current' # "none" => \A d \in Install!Entries : unpacked'[d] # "none"
      /\ \A d \in Install!Entries :
           unpacked'[d] = IF d = x.entry THEN "torn" ELSE unpacked[d]
  BY <1>1, UnpackedMore
<1>5. InstallerOK(x, Home')
  BY <1>2, <1>4, OthersSee DEF InstallState
<1>6. Passed(y, Home')
  BY <1>1, <1>2, <1>3, <1>4, <1>5, OnePassed, HomeIs DEF InstallerOK
<1>7. HalfDone'
  <2>1. /\ i \in Install!Busy("write")' /\ installer'[i].entry = x.entry
        /\ \A o \in Install!Busy("tool") : o \in Install!Busy("tool")' /\ installer'[o] = installer[o]
        /\ \A o \in Install!Busy("write") : o \in Install!Busy("write")' /\ installer'[o] = installer[o]
    BY <1>1, <1>2, <1>3 DEF Install!Busy
  <2> HIDE DEF x, y
  <2>2. HalfDone
    BY DEF InstallState
  <2> QED
    BY <1>1, <1>4, <2>1, <2>2 DEF HalfDone
<1> HIDE DEF x, y
<1>8. InstallerOK(y, Home')
  BY <1>1, <1>3, <1>5, <1>6 DEF InstallerOK, Installing, Approved, Reviewed
<1> QED
  BY <1>1, <1>4, <1>7, <1>8, OneMoves

LEMMA WriteStep ==
  ASSUME Install!InstallationAssumption, InstallState, NEW i \in Installers, Install!Write(i)
  PROVE  InstallState'
<1> DEFINE x == installer[i]
           y == [[x EXCEPT !.entry = @ + 1] EXCEPT !.step = "unpack"]
<1>1. /\ installer' = [installer EXCEPT ![i] = y] /\ x.step = "write"
      /\ unpacked' = [unpacked EXCEPT ![x.entry] = "whole"]
      /\ UNCHANGED <<box, reference, have, fetched, stopped, keys, current, broken>>
  BY DEF Install!Write, Install!Go, Install!downloads
<1>2. /\ InstallerOK(x, Home) /\ x \in InstallerType /\ DOMAIN installer = Installers
      /\ x.entry \in Install!Entries
  BY <1>1 DEF InstallState, InstallerOK, Installing
<1>3. /\ y \in InstallerType /\ y.step = "unpack" /\ y.build = x.build /\ y.open = x.open
      /\ y.agreed = x.agreed /\ y.moved = x.moved /\ y.entry = x.entry + 1 /\ y.took = x.took
  <2>1. x.entry \in Nat \ {0} /\ x.entry + 1 \in Nat \ {0}
    BY <1>2 DEF InstallerType
  <2> QED
    BY <1>2, <2>1 DEF InstallerType, Steps
<1>4. /\ Home' \in WorldType /\ Fuller(Home, Home')
      /\ current' # "none" => \A d \in Install!Entries : unpacked'[d] # "none"
      /\ \A d \in Install!Entries :
           unpacked'[d] = IF d = x.entry THEN "whole" ELSE unpacked[d]
  BY <1>1, <1>2, UnpackedMore
<1>5. InstallerOK(x, Home')
  BY <1>2, <1>4, OthersSee DEF InstallState
<1>6. Passed(y, Home')
  BY <1>1, <1>2, <1>3, <1>4, <1>5, OnePassed, HomeIs DEF InstallerOK
<1>7. HalfDone'
  <2>1. /\ \A o \in Install!Busy("tool") : o \in Install!Busy("tool")' /\ installer'[o] = installer[o]
        /\ \A o \in Install!Busy("write") \ {i} :
             o \in Install!Busy("write")' /\ installer'[o] = installer[o]
        /\ installer[i].entry = x.entry
    BY <1>1, <1>2, <1>3 DEF Install!Busy
  <2> HIDE DEF x, y
  <2>2. HalfDone
    BY DEF InstallState
  <2> QED
    BY <1>1, <1>4, <2>1, <2>2 DEF HalfDone
<1> HIDE DEF x, y
<1>8. InstallerOK(y, Home')
  BY <1>1, <1>3, <1>5, <1>6 DEF InstallerOK, Installing, Approved, Reviewed
<1> QED
  BY <1>1, <1>4, <1>7, <1>8, OneMoves

LEMMA LinkStep ==
  ASSUME Install!InstallationAssumption, InstallState, NEW i \in Installers, Install!Link(i)
  PROVE  InstallState'
<1> DEFINE x == installer[i]
           y == [[x EXCEPT !.entry = @ + 1] EXCEPT !.step = "unpack"]
<1>1. /\ x.step = "unpack" /\ x.entry \in Install!Entries
      /\ UNCHANGED <<box, reference, have, fetched, stopped, keys, current, broken>>
  BY DEF Install!Link, Install!downloads
<1>2. /\ InstallerOK(x, Home) /\ x \in InstallerType /\ DOMAIN installer = Installers
  BY <1>1 DEF InstallState, InstallerOK, Installing
<1>3. CASE unpacked[x.entry] # "none"
  <2>1. installer' = [installer EXCEPT ![i] = Install!Idle] /\ UNCHANGED unpacked
    BY <1>3, BlankIs DEF Install!Link, Install!Go
  <2> QED
    BY <1>1, <2>1, BlankOK, ByItself
<1>4. CASE unpacked[x.entry] = "none"
  <2>1. /\ installer' = [installer EXCEPT ![i] = y]
        /\ unpacked' = [unpacked EXCEPT ![x.entry] = "whole"]
    BY <1>4 DEF Install!Link, Install!Go
  <2>2. /\ y \in InstallerType /\ y.step = "unpack" /\ y.build = x.build /\ y.open = x.open
        /\ y.agreed = x.agreed /\ y.moved = x.moved /\ y.entry = x.entry + 1 /\ y.took = x.took
    <3>1. x.entry \in Nat \ {0} /\ x.entry + 1 \in Nat \ {0}
      BY <1>2 DEF InstallerType
    <3> QED
      BY <1>2, <3>1 DEF InstallerType, Steps
  <2>3. /\ Home' \in WorldType /\ Fuller(Home, Home')
        /\ current' # "none" => \A d \in Install!Entries : unpacked'[d] # "none"
        /\ \A d \in Install!Entries :
             unpacked'[d] = IF d = x.entry THEN "whole" ELSE unpacked[d]
    BY <1>1, <2>1, UnpackedMore
  <2>4. InstallerOK(x, Home')
    BY <1>2, <2>3, OthersSee DEF InstallState
  <2>5. Passed(y, Home')
    BY <1>1, <1>2, <2>2, <2>3, <2>4, OnePassed, HomeIs DEF InstallerOK
  <2>6. HalfDone'
    <3>1. /\ \A o \in Install!Busy("tool") : o \in Install!Busy("tool")' /\ installer'[o] = installer[o]
          /\ \A o \in Install!Busy("write") :
               o \in Install!Busy("write")' /\ installer'[o] = installer[o]
      BY <1>1, <1>2, <2>1 DEF Install!Busy
    <3> HIDE DEF x, y
    <3>2. HalfDone
      BY DEF InstallState
    <3> QED
      BY <1>1, <2>3, <3>1, <3>2 DEF HalfDone
  <2> HIDE DEF x, y
  <2>7. InstallerOK(y, Home')
    BY <1>1, <2>2, <2>4, <2>5 DEF InstallerOK, Installing, Approved, Reviewed
  <2> QED
    BY <2>1, <2>3, <2>6, <2>7, OneMoves
<1> QED
  BY <1>3, <1>4

(* current.json is written when every entry has been passed.               *)
LEMMA RecordedStep ==
  ASSUME Install!InstallationAssumption, InstallState, NEW i \in Installers, Install!Record(i)
  PROVE  InstallState'
<1> DEFINE x == installer[i]
           y(step) == [x EXCEPT !.step = step]
<1>1. PICK step \in {"record", "models"} :
        /\ installer' = [installer EXCEPT ![i] = y(step)]
        /\ \/ x.step = "unpack" /\ x.entry > Len(Unzipped) /\ step = "record" /\ current' = "torn"
           \/ x.step = "record" /\ step = "models" /\ current' = "whole"
        /\ UNCHANGED <<box, reference, have, fetched, stopped, keys, unpacked, broken>>
  BY DEF Install!Record, Install!Unpacked, Install!Go, Install!downloads
<1>2. InstallerOK(x, Home) /\ x \in InstallerType
  BY DEF InstallState, InstallerOK, Installing
<1>3. PICK z : z = y(step)
  OBVIOUS
<1>4. /\ z \in InstallerType /\ z.step = step /\ z.build = x.build /\ z.open = x.open
      /\ z.agreed = x.agreed /\ z.moved = x.moved /\ z.entry = x.entry /\ z.took = x.took
  BY <1>2, <1>3 DEF InstallerType, Steps
<1> HIDE DEF x, y
<1>5. Home' \in WorldType
  BY <1>1, HomeType DEF InstallState
<1>6. Fuller(Home, Home')
  BY <1>1, HomeIs DEF Fuller
<1>7. x.entry > Len(Unzipped)
  BY <1>1, <1>2 DEF InstallerOK, Installing
<1>8. \A e \in Install!Entries : unpacked[e] # "none"
  <2>1. \A e \in Install!Entries : e < x.entry
    <3>1. Len(Unzipped) \in Nat /\ x.entry \in Nat
      BY <1>2 DEF Install!InstallationAssumption, InstallerType
    <3> QED
      BY <1>7, <3>1 DEF Install!Entries
  <2> QED
    BY <1>1, <1>2, <2>1, HomeIs DEF InstallerOK, Passed
<1>9. InstallerOK(x, Home')
  BY <1>2, <1>5, <1>6, OthersSee DEF InstallState
<1>10. Passed(z, Home')
  BY <1>1, <1>4, <1>8, HomeIs DEF Passed
<1>11. InstallerOK(z, Home')
  BY <1>1, <1>4, <1>7, <1>9, <1>10 DEF InstallerOK, Installing, Approved, Reviewed
<1>12. HalfDone'
  BY <1>1, HalfStays DEF x
<1> QED
  BY <1>1, <1>3, <1>5, <1>6, <1>8, <1>11, <1>12, OneMoves

-----------------------------------------------------------------------------
(* Models, tools and secrets.                                              *)
LEMMA ResolveStep ==
  ASSUME InstallState, NEW i \in Installers, Install!Resolve(i)
  PROVE  InstallState'
<1> DEFINE x == installer[i]
           y == [x EXCEPT !.step = "tools"]
           z(m) == [[x EXCEPT !.took = @ \cup {m}] EXCEPT !.step = "models"]
<1>1. /\ x.step = "models"
      /\ UNCHANGED <<box, reference, fetched, stopped, keys, unpacked, current, broken>>
  BY DEF Install!Resolve, Install!runtime
<1>2. InstallerOK(x, Home) /\ x \in InstallerType /\ x.build \in Builds
  BY <1>1 DEF InstallState, InstallerOK, Installing
<1>3. CASE Install!Wanted(x) = {}
  <2>1. installer' = [installer EXCEPT ![i] = y] /\ UNCHANGED have
    BY <1>3 DEF Install!Resolve, Install!Go
  <2>2. /\ y \in InstallerType /\ y.step = "tools" /\ y.build = x.build /\ y.open = x.open
        /\ y.agreed = x.agreed /\ y.moved = x.moved /\ y.took = x.took
    BY <1>2 DEF InstallerType, Steps
  <2> HIDE DEF y
  <2>3. InstallerOK(y, Home)
    BY <1>1, <1>2, <2>2 DEF InstallerOK, Installing, Approved, Passed, Reviewed
  <2> QED
    BY <1>1, <2>1, <2>3, ByItself
<1>4. CASE Install!Wanted(x) # {}
  <2>1. PICK m \in Install!Wanted(x) :
          have' = have \cup {m} /\ installer' = [installer EXCEPT ![i] = z(m)]
    BY <1>4, Zenon DEF Install!Resolve, Install!Go
  <2>2. "models" \in x.agreed /\ m \in x.build.models /\ m \notin have /\ m \in Things
    BY <1>2, <2>1, ToolsOf DEF Install!Wanted
  <2>3. PICK y1 : y1 = z(m)
    OBVIOUS
  <2>4. /\ y1 \in InstallerType /\ y1.step = "models" /\ y1.build = x.build /\ y1.open = x.open
        /\ y1.agreed = x.agreed /\ y1.moved = x.moved /\ y1.took = x.took \cup {m}
    BY <1>2, <2>2, <2>3 DEF InstallerType, Steps
  <2> HIDE DEF z, x
  <2>5. Home' \in WorldType
    BY <1>1, <2>1, <2>2, HomeType DEF InstallState
  <2>6. Fuller(Home, Home')
    BY <1>1, <2>1, HomeIs DEF Fuller
  <2>7. InstallerOK(x, Home')
    BY <1>2, <2>5, <2>6, OthersSee DEF InstallState
  <2>8. ~x.moved => m \in x.open
    BY <1>1, <1>2, <2>2, HomeIs DEF InstallerOK, Approved
  <2>9. Approved(y1, Home')
    BY <1>1, <2>4, <2>7, <2>8 DEF InstallerOK, Approved
  <2>10. InstallerOK(y1, Home')
    BY <1>1, <1>2, <2>4, <2>9 DEF InstallerOK, Installing, Passed, Reviewed
  <2>11. HalfDone'
    BY <1>1, <2>1, HalfStays DEF x
  <2> QED
    BY <1>1, <2>1, <2>3, <2>5, <2>6, <2>10, <2>11, OneMoves DEF InstallState
<1> QED
  BY <1>3, <1>4

(* A tool's state changes: it is begun, there, or removed when stopped.    *)
LEMMA FetchedMore ==
  ASSUME InstallState, NEW t \in Install!Tools, NEW state \in {"none", "part", "whole"},
         fetched' = [fetched EXCEPT ![t] = state], stopped' \in {stopped, stopped \cup {t}},
         state = "none" => t \in stopped',
         UNCHANGED <<box, reference, have, keys, unpacked, current>>
  PROVE  /\ Home' \in WorldType /\ Fuller(Home, Home')
         /\ \A s \in Install!Tools : fetched'[s] = IF s = t THEN state ELSE fetched[s]
<1>1. fetched \in [Install!Tools -> {"none", "part", "whole"}] /\ stopped \in SUBSET Install!Tools
  BY HomeType DEF InstallState
<1>2. /\ fetched' \in [Install!Tools -> {"none", "part", "whole"}] /\ stopped' \in SUBSET Install!Tools
      /\ \A s \in Install!Tools : fetched'[s] = IF s = t THEN state ELSE fetched[s]
  BY <1>1
<1>3. Home' \in WorldType
  BY <1>2, HomeType DEF InstallState
<1>4. Fuller(Home, Home')
  BY <1>2, HomeIs DEF Fuller
<1> QED
  BY <1>2, <1>3, <1>4

LEMMA StartToolStep ==
  ASSUME InstallState, NEW i \in Installers, Install!StartTool(i)
  PROVE  InstallState'
<1> DEFINE x == installer[i]
           y == [x EXCEPT !.step = "secrets"]
           z(t) == [[x EXCEPT !.tool = t, !.took = @ \cup {t}] EXCEPT !.step = "tool"]
<1>1. /\ x.step = "tools"
      /\ UNCHANGED <<box, reference, have, stopped, keys, unpacked, current, broken>>
  BY Zenon DEF Install!StartTool, Install!runtime
<1>2. /\ InstallerOK(x, Home) /\ x \in InstallerType /\ x.build \in Builds
      /\ DOMAIN installer = Installers
  BY <1>1 DEF InstallState, InstallerOK, Installing
<1>3. CASE Install!Lacking(x) = {}
  <2>1. installer' = [installer EXCEPT ![i] = y] /\ UNCHANGED fetched
    BY <1>3 DEF Install!StartTool, Install!Go
  <2>2. /\ y \in InstallerType /\ y.step = "secrets" /\ y.build = x.build /\ y.open = x.open
        /\ y.agreed = x.agreed /\ y.moved = x.moved /\ y.took = x.took
    BY <1>2 DEF InstallerType, Steps
  <2> HIDE DEF y
  <2>3. InstallerOK(y, Home)
    BY <1>1, <1>2, <2>2 DEF InstallerOK, Installing, Approved, Passed, Reviewed
  <2> QED
    BY <1>1, <2>1, <2>3, ByItself
<1>4. CASE Install!Lacking(x) # {}
  <2>1. PICK t \in Install!Lacking(x) :
          /\ fetched' = [fetched EXCEPT ![t] = "part"]
          /\ installer' = [installer EXCEPT ![i] = z(t)]
    BY <1>4, Zenon DEF Install!StartTool, Install!Go
  <2>2. t \in x.build.tools /\ fetched[t] = "none" /\ t \in Install!Tools /\ t \in Things
    <3>1. t \in x.build.tools /\ fetched[t] = "none"
      BY <2>1 DEF Install!Lacking, Install!Unfetched
    <3> QED
      BY <1>2, <3>1, ToolsOf DEF Things
  <2>3. PICK y1 : y1 = z(t)
    OBVIOUS
  <2>4. /\ y1 \in InstallerType /\ y1.step = "tool" /\ y1.build = x.build /\ y1.open = x.open
        /\ y1.agreed = x.agreed /\ y1.moved = x.moved /\ y1.took = x.took \cup {t} /\ y1.tool = t
    BY <1>2, <2>2, <2>3 DEF InstallerType, Steps
  <2>5. /\ Home' \in WorldType /\ Fuller(Home, Home')
        /\ \A s \in Install!Tools : fetched'[s] = IF s = t THEN "part" ELSE fetched[s]
    BY <1>1, <2>1, <2>2, FetchedMore
  <2>6. HalfDone'
    <3>1. /\ i \in Install!Busy("tool")' /\ installer'[i].tool = t
          /\ \A o \in Install!Busy("tool") : o \in Install!Busy("tool")' /\ installer'[o] = installer[o]
          /\ \A o \in Install!Busy("write") : o \in Install!Busy("write")' /\ installer'[o] = installer[o]
      BY <1>1, <1>2, <2>1, <2>3, <2>4 DEF Install!Busy
    <3> HIDE DEF x, z
    <3>2. HalfDone
      BY DEF InstallState
    <3> QED
      BY <1>1, <2>5, <3>1, <3>2 DEF HalfDone
  <2> HIDE DEF z, x
  <2>7. InstallerOK(x, Home')
    BY <1>2, <2>5, OthersSee DEF InstallState
  <2>8. ~x.moved => t \in x.open \cup stopped
    BY <1>1, <1>2, <2>2, HomeIs DEF InstallerOK, Approved
  <2>9. Approved(y1, Home')
    BY <1>1, <2>4, <2>7, <2>8, HomeIs DEF InstallerOK, Approved
  <2>10. InstallerOK(y1, Home')
    BY <1>1, <1>2, <2>2, <2>4, <2>9 DEF InstallerOK, Installing, Passed, Reviewed
  <2> QED
    BY <1>1, <2>1, <2>3, <2>5, <2>6, <2>10, OneMoves DEF InstallState
<1> QED
  BY <1>3, <1>4

LEMMA EndToolStep ==
  ASSUME InstallState, NEW i \in Installers, Install!EndTool(i)
  PROVE  InstallState'
<1> DEFINE x == installer[i]
           y == [[x EXCEPT !.tool = None] EXCEPT !.step = "tools"]
<1>1. /\ x.step = "tool" /\ installer' = [installer EXCEPT ![i] = y]
      /\ fetched' = [fetched EXCEPT ![x.tool] = "whole"]
      /\ UNCHANGED <<box, reference, have, stopped, keys, unpacked, current, broken>>
  BY DEF Install!EndTool, Install!Go, Install!runtime
<1>2. /\ InstallerOK(x, Home) /\ x \in InstallerType /\ x.build \in Builds
      /\ x.tool \in Install!Tools /\ DOMAIN installer = Installers
  BY <1>1 DEF InstallState, InstallerOK, Installing
<1>3. /\ y \in InstallerType /\ y.step = "tools" /\ y.build = x.build /\ y.open = x.open
      /\ y.agreed = x.agreed /\ y.moved = x.moved /\ y.took = x.took
  BY <1>2 DEF InstallerType, Steps
<1>4. /\ Home' \in WorldType /\ Fuller(Home, Home')
      /\ \A s \in Install!Tools : fetched'[s] = IF s = x.tool THEN "whole" ELSE fetched[s]
  BY <1>1, <1>2, FetchedMore
<1>5. HalfDone'
  <2>1. /\ \A o \in Install!Busy("write") : o \in Install!Busy("write")' /\ installer'[o] = installer[o]
        /\ \A o \in Install!Busy("tool") \ {i} :
             o \in Install!Busy("tool")' /\ installer'[o] = installer[o]
        /\ installer[i].tool = x.tool
    BY <1>1, <1>2, <1>3 DEF Install!Busy
  <2> HIDE DEF x, y
  <2>2. HalfDone
    BY DEF InstallState
  <2> QED
    BY <1>1, <1>4, <2>1, <2>2 DEF HalfDone
<1> HIDE DEF x, y
<1>6. InstallerOK(x, Home')
  BY <1>2, <1>4, OthersSee DEF InstallState
<1>7. InstallerOK(y, Home')
  BY <1>1, <1>2, <1>3, <1>6 DEF InstallerOK, Installing, Approved, Passed, Reviewed
<1> QED
  BY <1>1, <1>4, <1>5, <1>7, OneMoves DEF InstallState

LEMMA StoreStep ==
  ASSUME InstallState, NEW i \in Installers, Install!Store(i)
  PROVE  InstallState'
<1> DEFINE x == installer[i]
           y == [x EXCEPT !.step = "review"]
<1>1. /\ x.step = "secrets"
      /\ UNCHANGED <<box, reference, have, fetched, stopped, unpacked, current, broken>>
  BY DEF Install!Store, Install!runtime
<1>2. InstallerOK(x, Home) /\ x \in InstallerType /\ x.build \in Builds
  BY <1>1 DEF InstallState, InstallerOK, Installing
<1>3. CASE x.given \subseteq x.build.keys
  <2>1. installer' = [installer EXCEPT ![i] = y] /\ keys' = keys \cup x.given
    BY <1>3 DEF Install!Store, Install!Go
  <2>2. /\ y \in InstallerType /\ y.step = "review" /\ y.build = x.build /\ y.open = x.open
        /\ y.agreed = x.agreed /\ y.moved = x.moved /\ y.took = x.took
        /\ x.given \subseteq Install!Keys
    BY <1>2 DEF InstallerType, Steps
  <2> HIDE DEF x, y
  <2>3. Home' \in WorldType
    BY <1>1, <2>1, <2>2, HomeType DEF InstallState
  <2>4. Fuller(Home, Home')
    BY <1>1, <2>1, HomeIs DEF Fuller
  <2>5. InstallerOK(x, Home')
    BY <1>2, <2>3, <2>4, OthersSee DEF InstallState
  <2>6. InstallerOK(y, Home')
    BY <1>1, <1>2, <2>2, <2>5 DEF InstallerOK, Installing, Approved, Passed, Reviewed
  <2>7. HalfDone'
    BY <1>1, <2>1, HalfStays DEF x
  <2> QED
    BY <1>1, <2>1, <2>3, <2>4, <2>6, <2>7, OneMoves DEF InstallState
<1>4. CASE ~(x.given \subseteq x.build.keys)
  <2>1. installer' = [installer EXCEPT ![i] = Install!Idle] /\ UNCHANGED keys
    BY <1>4, BlankIs DEF Install!Store, Install!Go
  <2> QED
    BY <1>1, <2>1, BlankOK, ByItself
<1> QED
  BY <1>3, <1>4

-----------------------------------------------------------------------------
(* The review, the suite, and what fails on the way.                       *)
LEMMA ReviewStep ==
  ASSUME InstallState, NEW i \in Installers, Install!Review(i)
  PROVE  InstallState'
<1> DEFINE x == installer[i]
           y(step) == [x EXCEPT !.step = step]
<1>1. /\ x.step = "review"
      /\ UNCHANGED <<box, reference, have, fetched, stopped, keys, unpacked, current, broken>>
  BY DEF Install!Review, Install!downloads, Install!runtime
<1>2. InstallerOK(x, Home) /\ x \in InstallerType /\ x.build \in Builds
  BY <1>1 DEF InstallState, InstallerOK, Installing
<1>3. CASE ~Install!Clear(x.build)
  <2>1. installer' = [installer EXCEPT ![i] = Install!Idle]
    BY <1>3, BlankIs DEF Install!Review, Install!Go
  <2> QED
    BY <1>1, <2>1, BlankOK, ByItself
<1>4. CASE Install!Clear(x.build)
  <2>1. PICK step \in {"test", "done"} : installer' = [installer EXCEPT ![i] = y(step)]
    BY <1>4 DEF Install!Review, Install!Go
  <2>2. PICK z : z = y(step)
    OBVIOUS
  <2>3. /\ z \in InstallerType /\ z.step = step /\ z.build = x.build /\ z.open = x.open
        /\ z.agreed = x.agreed /\ z.moved = x.moved /\ z.took = x.took
    BY <1>2, <2>2 DEF InstallerType, Steps
  <2> HIDE DEF y
  <2>4. /\ x.build.sealed \/ x.build.models \subseteq have
        /\ x.build.keys \subseteq keys
        /\ x.build.chat => box.roomy /\ (box.present \/ current # "none")
        /\ \A t \in x.build.tools : fetched[t] # "none"
    BY <1>4 DEF Install!Clear, Install!Open, Install!Missing, Install!Unfetched, Install!Runs
  <2> HIDE DEF x
  <2>5. Reviewed(z, Home)
    BY <2>3, <2>4, HomeIs DEF Reviewed
  <2>6. InstallerOK(z, Home)
    BY <1>1, <1>2, <2>3, <2>5 DEF InstallerOK, Installing, Approved, Passed
  <2> QED
    BY <1>1, <2>1, <2>2, <2>6, ByItself DEF x
<1> QED
  BY <1>3, <1>4

LEMMA RunTestsStep ==
  ASSUME InstallState, NEW i \in Installers, Install!RunTests(i)
  PROVE  InstallState'
<1> DEFINE x == installer[i]
           y == [x EXCEPT !.step = "done"]
<1>1. /\ x.step = "test"
      /\ UNCHANGED <<box, reference, have, fetched, stopped, keys, unpacked, current, broken>>
      /\ \/ installer' = [installer EXCEPT ![i] = Install!Idle]
         \/ installer' = [installer EXCEPT ![i] = y]
  BY BlankIs DEF Install!RunTests, Install!Go, Install!downloads, Install!runtime
<1>2. InstallerOK(x, Home) /\ x \in InstallerType
  BY DEF InstallState, InstallerOK, Installing
<1>3. /\ y \in InstallerType /\ y.step = "done" /\ y.build = x.build /\ y.open = x.open
      /\ y.agreed = x.agreed /\ y.moved = x.moved /\ y.took = x.took
  BY <1>2 DEF InstallerType, Steps
<1> HIDE DEF y
<1>4. InstallerOK(y, Home)
  BY <1>1, <1>2, <1>3 DEF InstallerOK, Installing, Approved, Passed, Reviewed
<1> QED
  BY <1>1, <1>4, BlankOK, ByItself

LEMMA FailsStep ==
  ASSUME InstallState, NEW i \in Installers, NEW killed \in BOOLEAN, Install!Fails(i, killed)
  PROVE  InstallState'
<1> DEFINE x == installer[i]
<1>1. /\ installer' = [installer EXCEPT ![i] = Install!Idle]
      /\ broken' = IF x.step = "write" THEN broken \cup {x.entry} ELSE broken
      /\ stopped' = IF x.step = "tool" THEN stopped \cup {x.tool} ELSE stopped
      /\ x.step # "tool" => fetched' = fetched
      /\ UNCHANGED <<box, reference, have, keys, unpacked, current>>
  BY BlankIs DEF Install!Fails, Install!Go
<1>2. InstallerOK(x, Home) /\ x \in InstallerType /\ DOMAIN installer = Installers /\ HalfDone
  BY DEF InstallState, InstallerOK, Installing
<1>3. CASE x.step \notin {"write", "tool"}
  BY <1>1, <1>3, BlankOK, ByItself
<1>4. CASE x.step = "write"
  <2>1. Home' = Home
    BY <1>1, <1>4 DEF Home
  <2>2. Home' \in WorldType /\ Fuller(Home, Home')
    BY <2>1 DEF Fuller, InstallState
  <2>3. HalfDone'
    <3>1. /\ \A o \in Install!Busy("tool") : o \in Install!Busy("tool")' /\ installer'[o] = installer[o]
          /\ \A o \in Install!Busy("write") \ {i} :
               o \in Install!Busy("write")' /\ installer'[o] = installer[o]
          /\ installer[i].entry = x.entry
      BY <1>1, <1>2, <1>4 DEF Install!Busy
    <3> HIDE DEF x
    <3> QED
      BY <1>1, <1>2, <1>4, <3>1 DEF HalfDone
  <2> QED
    BY <1>1, <2>2, <2>3, BlankOK, OneMoves DEF InstallState
<1>5. CASE x.step = "tool"
  <2>1. x.tool \in Install!Tools
    BY <1>2, <1>5 DEF InstallerOK, Installing
  <2>2. PICK state \in {"none", "part", "whole"} : fetched' = [fetched EXCEPT ![x.tool] = state]
    <3>1. fetched \in [Install!Tools -> {"none", "part", "whole"}]
      BY HomeType DEF InstallState
    <3>2. fetched' \in {fetched, [fetched EXCEPT ![x.tool] = "none"]}
      BY DEF Install!Fails
    <3>3. fetched = [fetched EXCEPT ![x.tool] = fetched[x.tool]]
      BY <2>1, <3>1
    <3>4. fetched[x.tool] \in {"none", "part", "whole"}
      BY <2>1, <3>1
    <3> QED
      BY <3>2, <3>3, <3>4
  <2>3. /\ Home' \in WorldType /\ Fuller(Home, Home')
        /\ \A s \in Install!Tools : fetched'[s] = IF s = x.tool THEN state ELSE fetched[s]
    BY <1>1, <1>5, <2>1, <2>2, FetchedMore, Zenon
  <2>4. HalfDone'
    <3>1. /\ \A o \in Install!Busy("write") : o \in Install!Busy("write")' /\ installer'[o] = installer[o]
          /\ \A o \in Install!Busy("tool") \ {i} :
               o \in Install!Busy("tool")' /\ installer'[o] = installer[o]
          /\ installer[i].tool = x.tool
      BY <1>1, <1>2, <1>5 DEF Install!Busy
    <3> HIDE DEF x
    <3> QED
      BY <1>1, <1>2, <1>5, <2>3, <3>1 DEF HalfDone
  <2> QED
    BY <1>1, <2>3, <2>4, BlankOK, OneMoves DEF InstallState
<1> QED
  BY <1>3, <1>4, <1>5

LEMMA InstallSteps ==
  ASSUME Install!InstallationAssumption, InstallState, Install!Next \/ UNCHANGED installVars
  PROVE  InstallState'
<1>1. CASE Install!Move
  BY <1>1, MoveStep
<1>2. ASSUME NEW i \in Installers,
             \/ Install!Inspect(i) \/ Install!Decline(i)
             \/ \E given \in SUBSET Install!Keys, tests \in BOOLEAN : Install!Apply(i, given, tests)
             \/ Install!Fetch(i) \/ Install!Truncate(i) \/ Install!Write(i) \/ Install!Link(i)
             \/ Install!Record(i) \/ Install!Resolve(i) \/ Install!StartTool(i)
             \/ Install!EndTool(i) \/ Install!Store(i) \/ Install!Review(i) \/ Install!RunTests(i)
             \/ \E killed \in BOOLEAN : Install!Fails(i, killed)
      PROVE  InstallState'
  BY <1>2, InspectStep, DeclineStep, ApplyStep, FetchStep, TruncateStep, WriteStep, LinkStep,
     RecordedStep, ResolveStep, StartToolStep, EndToolStep, StoreStep, ReviewStep, RunTestsStep,
     FailsStep
<1>3. CASE UNCHANGED installVars
  <2>1. Home' = Home /\ UNCHANGED <<installer, current, unpacked, fetched, stopped, broken>>
    BY <1>3 DEF installVars, Home
  <2>2. HalfDone'
    BY <2>1 DEF InstallState, HalfDone, Install!Busy
  <2> QED
    BY <2>1, <2>2 DEF InstallState
<1> QED
  BY <1>1, <1>2, <1>3 DEF Install!Next

LEMMA InstallStarts == PartsInit => InstallInv
<1> SUFFICES ASSUME PartsInit, part = "installation" PROVE InstallState
  BY DEF InstallInv
<1>1. Install!Init
  BY DEF PartsInit
<1>2. /\ box \in Hosts /\ reference \in Builds /\ have = InStore
      /\ fetched = [t \in Install!Tools |-> "none"] /\ stopped = {} /\ keys = {}
      /\ unpacked = [e \in Install!Entries |-> "none"] /\ current = "none"
      /\ installer = [i \in Installers |-> Install!Idle]
  BY <1>1 DEF Install!Init
<1>3. Home \in WorldType
  BY <1>2, HomeType
<1>4. HalfDone
  BY <1>2 DEF HalfDone
<1> QED
  BY <1>2, <1>3, <1>4, BlankOK DEF InstallState

LEMMA InstallHolds ==
  ASSUME InstallState
  PROVE  Install!Consented /\ Install!CurrentIsWhole /\ Install!CompleteIsEarned
<1>1. /\ HalfDone /\ \A i \in Installers : InstallerOK(installer[i], Home)
      /\ fetched \in [Install!Tools -> {"none", "part", "whole"}]
      /\ unpacked \in [Install!Entries -> {"none", "torn", "whole"}]
  BY HomeType DEF InstallState
<1>2. Install!Consented
  BY <1>1, HomeIs DEF InstallerOK, Approved, Install!Consented
<1>3. Install!CurrentIsWhole
  BY <1>1 DEF InstallState, HalfDone, Install!CurrentIsWhole
<1>4. Install!CompleteIsEarned
  <2> SUFFICES ASSUME NEW i \in Installers, installer[i].step = "done"
               PROVE  LET b == installer[i].build IN
                 /\ Install!Missing(b) = {} /\ b.keys \subseteq keys
                 /\ b.chat => box.roomy /\ (box.present \/ current # "none")
                 /\ \A t \in b.tools : \/ fetched[t] = "whole" \/ t \in stopped
                                       \/ \E o \in Install!Busy("tool") : installer[o].tool = t
    BY DEF Install!CompleteIsEarned
  <2> DEFINE b == installer[i].build
  <2>1. b \in Builds
    BY <1>1 DEF InstallerOK, Installing
  <2>2. /\ b.sealed \/ b.models \subseteq have
        /\ b.keys \subseteq keys
        /\ b.chat => box.roomy /\ (box.present \/ current # "none")
        /\ \A t \in b.tools : fetched[t] # "none" \/ t \in stopped
    BY <1>1, HomeIs DEF InstallerOK, Reviewed
  <2> HIDE DEF b
  <2>3. Install!Missing(b) = {}
    BY <2>2 DEF Install!Missing
  <2>4. \A t \in b.tools : \/ fetched[t] = "whole" \/ t \in stopped
                           \/ \E o \in Install!Busy("tool") : installer[o].tool = t
    BY <1>1, <2>1, <2>2, ToolsOf DEF HalfDone
  <2> QED
    BY <2>2, <2>3, <2>4 DEF b
<1> QED
  BY <1>2, <1>3, <1>4

LEMMA PackStays == ASSUME PackState, UNCHANGED packageVars PROVE PackState'
<1>1. PackTypes' /\ Packages!IndexIsBacked'
  BY DEF packageVars, PackState, PackTypes, Packages!IndexIsBacked
<1>2. \A j \in Packages!Jobs : JobOK(job[j], tags, blobs, dir)
  BY DEF PackState
<1> QED
  BY <1>1, <1>2 DEF packageVars, PackState

(* While its tag stays, a unit that was built, pulled or imported runs as  *)
(* one build, with its pinned weights, or with its sealed ones for `run    *)
(* --no-daemon`, `eval` and the fleet and one model, and `export --offline`*)
(* writes what it validated (pack.go, pinned.go, store.go, offline.go).    *)
(* While its reference stays, `install` fetches only what its plan showed  *)
(* as open, or what a failed clone opened again, and what it calls complete*)
(* lacks nothing but what a fetch stopped or under way left half done      *)
(* (install.go, runtime.go).  For any number of processes on one home,     *)
(* whatever changes, fails or is killed on the way.                        *)
THEOREM UnitsWhole == PartsSpec => []UnitsArriveWhole
<1>1. PartsInit => PackInv /\ InstallInv
  BY PackStarts, InstallStarts
<1>2. PackInv /\ [PartsNext]_all => PackInv'
  <2> SUFFICES ASSUME PackInv, [PartsNext]_all, part = "packages" PROVE PackState'
    BY StepOfPart DEF PackInv
  <2>1. PackState /\ (Packages!Next \/ UNCHANGED packageVars)
    BY StepOfPart DEF PackInv
  <2> QED
    BY <2>1, PackSteps, PackStays, PackagesAssumption
<1>3. InstallInv /\ [PartsNext]_all => InstallInv'
  BY StepOfPart, InstallSteps, InstallationAssumption DEF InstallInv
<1>4. PackInv /\ InstallInv => UnitsArriveWhole
  BY PackHolds, InstallHolds DEF PackInv, InstallInv, UnitsArriveWhole
<1> QED
  BY <1>1, <1>2, <1>3, <1>4, PTL DEF PartsSpec
=============================================================================
