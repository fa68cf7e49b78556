------------------------------- MODULE Claims -------------------------------
(***************************************************************************)
(* Sentences of the repository that the parts of the program do not keep.  *)
(* A behaviour goes through them in the order of the list below: the part  *)
(* a sentence is about runs from its beginning until the sentence is seen  *)
(* to be false there; then the part the next one is about begins.          *)
(***************************************************************************)
EXTENDS Local

CONSTANTS
  Units, Flags, Offers, Calls, Carried, InStock, MaxTurns, MaxRuns   \* AgentRun

VARIABLES
  sentence,   \* the one that is put to the test
  here, installed, session, partial, run, unit, flags, where, env, mounted, up, tried,
  clients, lists, byTool, sess, fresh, turn, calls, failed, killed

agentVars == <<here, installed, session, partial, run, unit, flags, where, env, mounted, up,
               tried, clients, lists, byTool, sess, fresh, turn, calls, failed, killed>>

Agent == INSTANCE AgentRun WITH
  Jobs <- Flags, Earlier <- Carried, Stored <- InStock, saved <- session, checkpoint <- partial,
  job <- flags, pc <- where, files <- mounted

(* Which part each sentence is about, and whether what is said holds in the*)
(* state the part is in.  The sentences are quoted where the modules state *)
(* them.                                                                   *)
About ==
  <<"files", "files", "files", "detached", "detached", "detached", "studio", "expressions",
    "choice", "choice", "evaluation", "packages", "packages", "packages", "packages",
    "installation", "installation", "installation", "agent", "agent", "agent">>

Holds(n) ==
  CASE n = 1 -> OnDisk!AtWorstOneDropped
    [] n = 2 -> OnDisk!SavedAtomically
    [] n = 3 -> OnDisk!KeyStays
    [] n = 4 -> Detached!FoundAgain
    [] n = 5 -> Detached!PrunesTheExited
    [] n = 6 -> Detached!ListsWhatRuns
    [] n = 7 -> Studio!StopsOnceClosed
    [] n = 8 -> Expr!SkippedDoesNotFire
    [] n = 9 -> EvidenceIsOfThisEdition
    [] n = 10 -> MeasuredOnItsDevice
    [] n = 11 -> Eval!DifferentWeightsAreSaid
    [] n = 12 -> Packages!OfflineFileIsWhole
    [] n = 13 -> Packages!ScoreIsOfItsDigest
    [] n = 14 -> Packages!SealedCandidatesAtHand
    [] n = 15 -> Packages!SealedWeightsAnswer
    [] n = 16 -> Install!OnlyWhatWasShown
    [] n = 17 -> Install!ToolsAreFetched
    [] n = 18 -> Install!RuntimeIsUnpacked
    [] n = 19 -> Agent!SecretsRemoved
    [] n = 20 -> Agent!MatchedById
    [] n = 21 -> Agent!ResumesComplete

-----------------------------------------------------------------------------
ClaimsInit ==
  /\ PartsInit /\ part = About[1] /\ sentence = 1
  /\ here = None /\ installed = None /\ session = None /\ partial = None /\ run = None
  /\ unit = None /\ flags = None /\ where = None /\ env = None /\ mounted = None /\ up = None
  /\ tried = None /\ clients = None /\ lists = None /\ byTool = None /\ sess = None
  /\ fresh = None /\ turn = None /\ calls = None /\ failed = None /\ killed = None

(* The part a sentence is about begins as its Init says, and what another  *)
(* part left is forgotten.                                                 *)
FilesBegin(p) ==
  IF p = "files"
    THEN /\ policy' \in OnDisk!Policies
         /\ inode' = [i \in OnDisk!Inodes |->
                        IF i = Nobody THEN OnDisk!Whole({Nobody}) ELSE OnDisk!Blank]
         /\ main' \in {OnDisk!NoInode, {Nobody}} /\ temp' = OnDisk!NoInode
         /\ pc' = [q \in Procs |-> "start"] /\ view' = [q \in Procs |-> {}]
         /\ fd' = [q \in Procs |-> Nobody] /\ told' = [q \in Procs |-> {}] /\ overlaps' = {}
  ELSE /\ policy' = None /\ main' = None /\ temp' = None /\ inode' = None /\ pc' = None
       /\ view' = None /\ fd' = None /\ told' = None /\ overlaps' = None

DetachedBegins(p) ==
  IF p = "detached"
    THEN /\ record' = "none" /\ named' = NoPid /\ procs' = [i \in Pids |-> "nobody"]
         /\ verb' \in [Commands -> Detached!Verbs] /\ at' = [c \in Commands |-> "idle"]
         /\ seen' = [c \in Commands |-> NoPid] /\ lost' = {} /\ met' = {}
  ELSE /\ record' = None /\ named' = None /\ procs' = None /\ verb' = None /\ at' = None
       /\ seen' = None /\ lost' = None /\ met' = None

StudioBegins(p) ==
  IF p = "studio"
    THEN LET none == [q \in Pages |-> "none"]
         IN  /\ server' = "up" /\ page' = [q \in Pages |-> "away"]
             /\ due' = [q \in Pages |-> 0] /\ flight' = {}
             /\ closing' = Studio!NotClosing /\ pinged' = FALSE /\ lastPing' = 0
             /\ sinceStart' = 0 /\ watcher' = "waits" /\ looked' = {} /\ busy' = FALSE
             /\ gone' = {} /\ req' = none /\ phase' = none /\ child' = none
             /\ dones' = [q \in Pages |-> 0]
  ELSE /\ server' = None /\ page' = None /\ due' = None /\ flight' = None /\ closing' = None
       /\ pinged' = None /\ lastPing' = None /\ sinceStart' = None /\ watcher' = None
       /\ looked' = None /\ busy' = None /\ gone' = None /\ req' = None /\ phase' = None
       /\ child' = None /\ dones' = None

ExpressionsBegin(p) ==
  IF p = "expressions"
    THEN /\ condition' \in Conditions /\ stage' = "written" /\ made' = Expr!NoRun
         /\ result' = Expr!Nothing
  ELSE condition' = None /\ stage' = None /\ made' = None /\ result' = None

ChoiceBegins(p) ==
  IF p = "choice"
    THEN /\ machine' \in Machines /\ profile' \in Profiles /\ edition' = 1
         /\ suite' \in BOOLEAN /\ built' = [edition |-> 0, suite |-> FALSE, sealed |-> FALSE]
         /\ files' \in Files /\ truth' \in Truths
         /\ cache' = [machine |-> machine', entries |-> {}] /\ now' = 0 /\ choice' = NoChoice
  ELSE /\ machine' = None /\ profile' = None /\ edition' = None /\ suite' = None
       /\ built' = None /\ files' = None /\ truth' = None /\ cache' = None /\ now' = None
       /\ choice' = None

EvaluationBegins(p) ==
  IF p = "evaluation"
    THEN /\ version' = 1 /\ sealed' \in BOOLEAN /\ clock' = 1 /\ saved' = {}
         /\ shown' = None
  ELSE version' = None /\ sealed' = None /\ clock' = None /\ saved' = None /\ shown' = None

PackagesBegin(p) ==
  IF p = "packages"
    THEN /\ origin' \in [Origins -> Contents] /\ changes' = 0
         /\ dir' \in {[name |-> n, edition |-> 1, plan |-> q] : n \in Names, q \in Plans}
         /\ tags' = [h \in Homes |-> [n \in Names |-> None]]
         /\ blobs' = [h \in Homes |-> {}] /\ index' = [h \in Homes |-> [s \in Origins |-> None]]
         /\ registry' \in [Repositories -> {None} \cup Received]
         /\ bundle' \in {Packages!Holding(a.name, a) : a \in Received}
         /\ job' = [j \in Packages!Jobs |-> Packages!Idle] /\ copies' = 0 /\ begun' = 0
  ELSE /\ origin' = None /\ changes' = None /\ dir' = None /\ tags' = None /\ blobs' = None
       /\ index' = None /\ registry' = None /\ bundle' = None /\ job' = None
       /\ copies' = None /\ begun' = None

InstallationBegins(p) ==
  IF p = "installation"
    THEN /\ box' \in Hosts /\ reference' \in Builds /\ moves' = 0 /\ have' = InStore
         /\ fetched' = [t \in Install!Tools |-> "none"] /\ stopped' = {} /\ keys' = {}
         /\ unpacked' = [e \in Install!Entries |-> "none"] /\ current' = "none"
         /\ broken' = {} /\ installer' = [i \in Installers |-> Install!Idle] /\ tries' = 0
  ELSE /\ box' = None /\ reference' = None /\ moves' = None /\ have' = None
       /\ fetched' = None /\ stopped' = None /\ keys' = None /\ unpacked' = None
       /\ current' = None /\ broken' = None /\ installer' = None /\ tries' = None

(* The three about runs of a unit are put to the test one after the other  *)
(* in the same runs.                                                       *)
AgentBegins(p) ==
  IF p = "agent" /\ part # "agent"
    THEN /\ here' \in BOOLEAN /\ installed' \in [Agent!ServerNames -> {"no", "yes"}]
         /\ session' \in {Agent!NoFile} \cup {Agent!File(m, FALSE) : m \in Carried}
         /\ partial' = Agent!NoFile /\ run' = 0 /\ unit' = Agent!AnyUnit
         /\ flags' = Agent!AnyJob /\ where' = "idle" /\ env' = Agent!Empty
         /\ mounted' = {} /\ up' = {} /\ tried' = 0 /\ clients' = <<>>
         /\ lists' = Agent!Empty /\ byTool' = Agent!Empty /\ sess' = <<>> /\ fresh' = 0
         /\ turn' = 0 /\ calls' = <<>> /\ failed' = {0} /\ killed' = {}
  ELSE UNCHANGED agentVars

-----------------------------------------------------------------------------
Go ==
  /\ UNCHANGED sentence
  /\ \/ part # "files" /\ PartsNext /\ UNCHANGED agentVars
     \/ /\ part = "files" /\ OnDisk!Race /\ Idle2 /\ Idle3
        /\ UNCHANGED <<part, detachedVars, secretsVars, studioVars, agentVars>>
     \/ part = "agent" /\ Agent!Next /\ UNCHANGED all

Refute ==
  /\ sentence \in DOMAIN About /\ ~Holds(sentence)
  /\ sentence' = sentence + 1
  /\ LET p == IF sentence = Len(About) THEN part ELSE About[sentence + 1]
     IN  /\ part' = p
         /\ FilesBegin(p) /\ DetachedBegins(p) /\ StudioBegins(p) /\ ExpressionsBegin(p)
         /\ ChoiceBegins(p) /\ EvaluationBegins(p) /\ PackagesBegin(p)
         /\ InstallationBegins(p) /\ AgentBegins(p)
         /\ UNCHANGED <<secretsVars, graphVars, checkpointVars>>

ClaimsSpec == ClaimsInit /\ [][Go \/ Refute]_<<sentence, all, agentVars>>

-----------------------------------------------------------------------------
(* At least one of these sentences of the comments, the documents and the  *)
(* tests is kept (each is quoted at its definition).  The counterexample is*)
(* a trace of each part in turn, to where its sentence is false.           *)
SomeSentenceIsKept == sentence <= Len(About)
=============================================================================
