--------------------------- MODULE AgentRunProofs ---------------------------
(***************************************************************************)
(* Theorems about AgentRun for any units, flags, offers, answers of the    *)
(* model and earlier conversations, and any number of turns and runs.      *)
(***************************************************************************)
EXTENDS AgentRun, FiniteSetTheorems, SequenceTheorems, WellFoundedInduction, TLAPS

(* A set of naturals has a least element, and a greatest if it is bounded. *)
LEMMA HasLeast ==
  ASSUME NEW T \in SUBSET Nat, T # {}
  PROVE  \E t \in T : \A u \in T : t <= u
<1>1. IsWellFoundedOn(OpToRel(<, Nat), Nat)
  BY NatLessThanWellFounded, Zenon
<1>2. PICK t \in T : \A u \in T : ~(<<u, t>> \in OpToRel(<, Nat))
  BY <1>1, WFMin, Zenon
<1>3. \A u \in T : ~(u < t)
  BY <1>2, Zenon DEF OpToRel
<1> QED
  BY <1>3

LEMMA HasGreatest ==
  ASSUME NEW T \in SUBSET Nat, T # {}, NEW n \in Nat, \A u \in T : u <= n
  PROVE  \E t \in T : \A u \in T : u <= t
<1> DEFINE S == {n - u : u \in T}
<1>1. S \in SUBSET Nat /\ S # {}
  <2>1. \A u \in T : n - u \in Nat
    OBVIOUS
  <2> QED
    BY <2>1
<1>2. PICK s \in S : \A r \in S : s <= r
  BY <1>1, HasLeast
<1>3. PICK t \in T : s = n - t
  BY <1>2
<1>4. ASSUME NEW u \in T PROVE u <= t
  <2>1. n - t <= n - u
    BY <1>2, <1>3
  <2> QED
    BY <2>1
<1> QED
  BY <1>4

-----------------------------------------------------------------------------
(* Where a run is decides what it holds: no server before "servers", no    *)
(* conversation before "generate", calls only while they are executed.     *)
Points == {"idle", "resolve", "secrets", "script", "servers", "abort",
           "generate", "calls", "save", "hung"}
Alone == {"idle", "resolve", "secrets", "script"}
Talking == {"generate", "calls", "save"}

Kept(states) == [state : states, messages : Seq(Message), sealed : BOOLEAN]

Machine ==
  /\ here \in BOOLEAN /\ installed \in [ServerNames -> {"no", "partial", "yes"}]
  /\ saved \in Kept({"none", "whole"}) /\ checkpoint \in Kept({"none", "torn", "whole"})

Stage ==
  /\ run \in 0..MaxRuns /\ (pc # "idle" => run # 0)
  /\ unit \in Units /\ job \in Jobs /\ pc \in Points
  /\ failed \subseteq 0..run /\ killed \subseteq 1..run

Manager ==
  /\ tried \in 0..Len(unit.servers)
  /\ clients = SubSeq(unit.servers, 1, tried)
  /\ DOMAIN lists = Range(clients)
  /\ \A f \in DOMAIN byTool : byTool[f] \in Range(clients)
  /\ pc \in Alone => tried = 0

Talk ==
  /\ sess \in Seq(Message) /\ fresh \in 0..Len(sess)
  /\ turn \in 0..MaxTurns /\ calls \in Seq(ToolCall)
  /\ pc \notin Talking => sess = <<>> /\ fresh = 0 /\ turn = 0
  /\ pc # "calls" => calls = <<>>
  /\ pc = "calls" => calls # <<>> /\ turn < MaxTurns
  /\ pc \in {"generate", "calls"} => turn # 0 /\ sess # <<>>

Base == Machine /\ Stage /\ Manager /\ Talk

(* What is there belongs to a killed run, or to this one, which will close *)
(* its manager's clients and its backend and clear its files, or never     *)
(* returns; or it is the one file a run could not write to the end.        *)
Processes == [run : Nat, name : ServerNames \cup {<<"llama">>}]

OfThisRun ==
  /\ up \subseteq Processes
  /\ \A p \in up :
       \/ p.run \in killed
       \/ pc # "idle" /\ p.run = run /\ p.name \in Range(clients) \cup {<<"llama">>}
       \/ pc = "hung" /\ p.run = run
  /\ \A f \in files : f.run \in killed \/ (pc # "idle" /\ f.run = run) \/ ~f.whole
  /\ \A f, g \in files :
       f.run = g.run /\ f.run \notin killed /\ ~(pc # "idle" /\ f.run = run) => f = g

(* The conversation continues the history the run was given.               *)
Goes == pc \in Talking => Continues(sess, History)

(* Nothing is open at the end of a conversation, or this run's last turn   *)
(* is, and its calls are those that still have to be executed.             *)
Settled(m) ==
  \A a \in Turns(m) : a + Results(m, a) = Len(m) => Results(m, a) = Len(m[a].calls)

AsksAt(m, a) ==
  /\ a \in Turns(m) /\ a + Results(m, a) = Len(m) /\ m[a].run = run
  /\ Results(m, a) <= Len(m[a].calls)
  /\ \A k \in 1..Results(m, a) : Answers(m[a + k], m[a].calls[k])
  /\ calls = SubSeq(m[a].calls, Results(m, a) + 1, Len(m[a].calls))
  /\ \A b \in Turns(m) \ {a} : Fits(m, b, failed)

Whole ==
  /\ WellFormed(saved.messages, failed) /\ WellFormed(checkpoint.messages, failed)
  /\ pc # "calls" => WellFormed(sess, failed)
  /\ pc = "generate" => Settled(sess)
  /\ pc = "calls" => sess[1].role = "user" /\ \E a \in DOMAIN sess : AsksAt(sess, a)

-----------------------------------------------------------------------------
LEMMA PartOf ==
  ASSUME NEW S, NEW s \in Seq(S), NEW i \in Nat \ {0}, NEW j \in Nat, j <= Len(s)
  PROVE  /\ SubSeq(s, i, j) \in Seq(S)
         /\ Len(SubSeq(s, i, j)) = IF i <= j THEN j - i + 1 ELSE 0
         /\ \A k \in 1..j - i + 1 : SubSeq(s, i, j)[k] = s[i + k - 1]
<1>1. Len(s) \in Nat /\ \A k \in 1..Len(s) : s[k] \in S
  BY LenProperties, ElementOfSeq
<1>2. i \in Int /\ j \in Int /\ \A k \in i..j : s[k] \in S
  BY <1>1
<1> QED
  BY ONLY <1>2, SubSeqProperties

(* What the constants give.                                                *)
LEMMA SomeUnitAndJob == AnyUnit \in Units /\ AnyJob \in Jobs
BY ConstantsAssumption DEF AnyUnit, AnyJob

LEMMA ServersNamed ==
  ASSUME NEW u \in Units
  PROVE  u.servers \in Seq(ServerNames) /\ IsInjective(u.servers)
<1>1. Range(u.servers) \subseteq ServerNames
  BY DEF ServerNames
<1> QED
  BY <1>1, UnitsAssumption, SeqMonotonic

LEMMA NoServerYet ==
  /\ \A u \in Units : SubSeq(u.servers, 1, 0) = <<>>
  /\ Range(<<>>) = {} /\ DOMAIN Empty = {}
BY SubSeqEmpty DEF Range, Empty

(* The servers a run has dealt with are the manager's clients; the next    *)
(* one is none of them.                                                    *)
LEMMA NextServer ==
  ASSUME NEW u \in Units, NEW n \in 0..Len(u.servers) - 1
  PROVE  /\ u.servers[n + 1] \in ServerNames
         /\ SubSeq(u.servers, 1, n) \in Seq(ServerNames)
         /\ SubSeq(u.servers, 1, n + 1) = Append(SubSeq(u.servers, 1, n), u.servers[n + 1])
         /\ u.servers[n + 1] \notin Range(SubSeq(u.servers, 1, n))
         /\ Range(SubSeq(u.servers, 1, n + 1)) = Range(SubSeq(u.servers, 1, n)) \cup {u.servers[n + 1]}
<1>1. u.servers \in Seq(ServerNames) /\ IsInjective(u.servers)
  BY ServersNamed
<1>2. PICK ss \in Seq(ServerNames) : ss = u.servers
  BY <1>1
<1>3. n \in 0..Len(ss) - 1 /\ Len(ss) \in Nat /\ \A i \in 1..Len(ss) : ss[i] \in ServerNames
  BY <1>2, ElementOfSeq
<1> n \in Nat /\ n <= Len(ss) /\ 1 \in Nat \ {0}
  BY <1>3
<1>4. PICK firsts \in Seq(ServerNames) : firsts = SubSeq(ss, 1, n)
  BY PartOf
<1>5. Len(firsts) = n /\ \A i \in 1..n : firsts[i] = ss[i]
  BY <1>3, <1>4, PartOf
<1>6. SubSeq(ss, 1, n + 1) = Append(firsts, ss[n + 1])
  <2>1. SubSeq(ss, 1, n + 1) = SubSeq(ss, 1, n + 1 - 1) \o <<ss[n + 1]>>
    BY <1>3, SubSeqRecursiveSecond
  <2> QED
    BY <2>1, <1>3, <1>4, AppendIsConcat
<1>7. ss[n + 1] \notin Range(firsts)
  BY <1>1, <1>2, <1>3, <1>4, <1>5, LenProperties DEF Range, IsInjective
<1>8. Range(Append(firsts, ss[n + 1])) = Range(firsts) \cup {ss[n + 1]}
  <2> ss[n + 1] \in ServerNames
    BY <1>3
  <2>1. PICK more \in Seq(ServerNames) : more = Append(firsts, ss[n + 1])
    BY AppendProperties
  <2>2. Len(more) = n + 1 /\ more[n + 1] = ss[n + 1] /\ \A i \in 1..n : more[i] = firsts[i]
    BY <2>1, <1>3, <1>5, AppendProperties
  <2>3. DOMAIN more = 1..n + 1 /\ DOMAIN firsts = 1..n
    BY <2>2, <1>5, LenProperties
  <2> QED
    BY <2>1, <2>2, <2>3, <1>3 DEF Range
<1>9. ss[n + 1] \in ServerNames
  BY <1>3
<1> QED
  BY ONLY <1>2, <1>4, <1>6, <1>7, <1>8, <1>9

LEMMA MessageTypes ==
  ASSUME Stage
  PROVE  /\ User \in Message
         /\ \A cs \in Seq(ToolCall) : Assistant(cs) \in Message
         /\ \A i \in Ids, n \in Asked : ToolResult(i, n) \in Message
<1>1. run \in Nat /\ <<>> \in Ids /\ <<>> \in Seq(ToolCall)
  BY ConstantsAssumption, EmptySeq DEF Stage, Ids
<1>2. User \in Message
  BY <1>1 DEF User, Message
<1>3. ASSUME NEW cs \in Seq(ToolCall)
      PROVE  Assistant(cs) \in Message
  BY <1>2 DEF Assistant, Message
<1>4. ASSUME NEW i \in Ids, NEW n \in Asked
      PROVE  ToolResult(i, n) \in Message
  BY <1>2 DEF ToolResult, Message
<1> QED
  BY <1>2, <1>3, <1>4

LEMMA HistoryTyped == Machine => History \in Seq(Message)
BY EmptySeq DEF Machine, Kept, History

(* Trim keeps everything, or cuts in front of a user turn.                 *)
LEMMA TrimmedIs ==
  ASSUME NEW s \in Seq(Message), NEW n \in Nat
  PROVE  \/ Trimmed(s, n) = s
         \/ \E first \in 2..Len(s) :
              /\ s[first].role = "user" /\ Len(s) - first + 1 <= n
              /\ Trimmed(s, n) = SubSeq(s, first, Len(s))
<1> DEFINE starts == {i \in 1..Len(s) : i > Len(s) - n /\ s[i].role = "user"}
           first == CHOOSE i \in starts : \A k \in starts : i <= k
<1>1. CASE n = 0 \/ Len(s) <= n \/ starts = {}
  BY <1>1 DEF Trimmed
<1>2. CASE ~(n = 0 \/ Len(s) <= n \/ starts = {})
  <2>1. \E i \in starts : \A k \in starts : i <= k
    <3>1. starts \in SUBSET Nat
      OBVIOUS
    <3> QED
      BY ONLY <3>1, <1>2, HasLeast
  <2>2. first \in starts /\ \A k \in starts : first <= k
    BY ONLY <2>1
  <2>3. Trimmed(s, n) = SubSeq(s, first, Len(s))
    BY <1>2 DEF Trimmed
  <2>4. Len(s) \in Nat
    BY LenProperties
  <2>5. PICK f \in 1..Len(s) : f = first /\ f > Len(s) - n /\ s[f].role = "user"
    BY ONLY <2>2
  <2>6. ~(Len(s) <= n) /\ n \in Nat
    BY ONLY <1>2, n \in Nat
  <2>7. f \in 2..Len(s) /\ Len(s) - f + 1 <= n
    BY ONLY <2>4, <2>5, <2>6
  <2> QED
    BY <2>3, <2>5, <2>7
<1> QED
  BY <1>1, <1>2

LEMMA TrimmedTyped ==
  ASSUME NEW s \in Seq(Message), NEW n \in Nat
  PROVE  Trimmed(s, n) \in Seq(Message)
<1>1. Len(s) \in Nat /\ Len(s) <= Len(s)
  BY LenProperties
<1>2. \A first \in 2..Len(s) : SubSeq(s, first, Len(s)) \in Seq(Message)
  BY <1>1, PartOf
<1> QED
  BY <1>2, TrimmedIs

-----------------------------------------------------------------------------
(* The first invariant, conjunct by conjunct.                              *)
LEMMA InitBase == Init => Base
<1> SUFFICES ASSUME Init PROVE Base
  OBVIOUS
<1> USE ConstantsAssumption, SomeUnitAndJob DEF Init
<1>1. Machine
  <2>1. \A m \in Earlier : m \in Seq(Message)
    BY CallsAssumption
  <2>2. <<>> \in Seq(Message)
    BY EmptySeq
  <2>3. NoFile \in Kept({"none", "whole"}) /\ NoFile \in Kept({"none", "torn", "whole"})
    BY <2>2 DEF NoFile, Kept
  <2>4. \A m \in Earlier : File(m, FALSE) \in Kept({"none", "whole"})
    BY <2>1 DEF File, Kept
  <2>5. installed \in [ServerNames -> {"no", "partial", "yes"}]
    OBVIOUS
  <2> QED
    BY <2>3, <2>4, <2>5 DEF Machine
<1>2. Stage
  BY DEF Stage, Points
<1>3. Manager
  BY ServersNamed, LenProperties, NoServerYet DEF Manager
<1>4. Talk
  BY EmptySeq DEF Talk
<1> QED
  BY <1>1, <1>2, <1>3, <1>4 DEF Base

LEMMA MachineStep == Base /\ [Next]_vars => Machine'
<1> SUFFICES ASSUME Base, [Next]_vars PROVE Machine'
  OBVIOUS
<1> USE DEF Base, machine
<1>1. Machine
  OBVIOUS
<1>2. ASSUME UNCHANGED machine PROVE Machine'
  BY <1>1, <1>2 DEF Machine
<1>3. CASE Start \/ Resolve \/ Inject \/ Connect \/ OpenSession \/ Answer \/ GenerateFails
             \/ Call \/ CallFails
  BY <1>2, <1>3 DEF Start, Resolve, Inject, Connect, OpenSession, Answer, GenerateFails,
                    Call, CallFails
<1>4. CASE ResolveFails \/ InjectRefuses \/ InjectFails \/ Script \/ ConnectFails \/ Abort \/ OpenFails
  <2>1. ASSUME Fails PROVE Machine'
    BY <1>2, <2>1 DEF Fails
  <2> QED
    BY <1>2, <1>4, <2>1 DEF ResolveFails, InjectRefuses, InjectFails, Script, ConnectFails, Abort,
                            OpenFails
<1>5. CASE Install \/ InstallFails \/ Kill
  BY <1>1, <1>5 DEF Machine, Install, InstallFails, Kill, Interrupted
<1>a. CASE Hang
  <2>1. File(sess, FALSE) \in Kept({"none", "whole"})
    BY DEF Talk, File, Kept
  <2>2. saved' \in Kept({"none", "whole"})
    BY <1>1, <1>a, <2>1 DEF Hang, Transcript, Machine
  <2> QED
    BY <1>1, <1>a, <2>2 DEF Hang, Machine, Interrupted
<1>6. CASE Save
  <2>1. File(sess, FALSE) \in Kept({"none", "whole"})
    BY DEF Talk, File, Kept
  <2>2. saved' \in Kept({"none", "whole"})
    BY <1>1, <1>6, <2>1 DEF Save, Transcript, Machine
  <2> QED
    BY <1>1, <1>6, <2>2 DEF Save, Machine, Leave, Return
<1>7. CASE RemoveSession
  BY <1>1, <1>7, EmptySeq DEF RemoveSession, NoFile, Kept, Machine
<1>8. CASE SaveCheckpoint
  <2>1. saved.messages \in Seq(Message)
    BY <1>1 DEF Machine, Kept
  <2>2. \A sealed \in BOOLEAN : File(saved.messages, sealed) \in Kept({"none", "torn", "whole"})
    BY <2>1 DEF File, Kept
  <2>3. TornFile \in Kept({"none", "torn", "whole"})
    BY EmptySeq DEF TornFile, NoFile, Kept
  <2> QED
    BY <1>1, <1>8, <2>2, <2>3 DEF SaveCheckpoint, Machine
<1>9. CASE GoOffline
  BY <1>1, <1>9 DEF GoOffline, Machine
<1>10. CASE UNCHANGED vars
  BY <1>2, <1>10 DEF vars
<1> QED
  BY <1>3, <1>4, <1>5, <1>a, <1>6, <1>7, <1>8, <1>9, <1>10 DEF Next, Step

(* A run that ends, or waits for ever, leaves nothing in memory.           *)
Blank == pc' \in {"idle", "hung"} /\ Forget /\ UNCHANGED run

Over == ResolveFails \/ InjectRefuses \/ InjectFails \/ Script \/ ConnectFails \/ Abort
          \/ OpenFails \/ Save

LEMMA OverLeaves ==
  ASSUME Over
  PROVE  /\ Blank /\ pc' = "idle" /\ pc \notin {"idle", "hung"} /\ UNCHANGED killed
         /\ up' = MgrClosed(up) \ {Backend}
         /\ \E rest : /\ files' = Cleared \cup rest
                      /\ \A f \in rest : f.run = run /\ ~f.whole
                      /\ \A f, g \in rest : f = g
         /\ failed' \in {failed, failed \cup {run}} /\ (pc = "save" => failed' = failed)
<1> USE DEF Over, ResolveFails, InjectRefuses, InjectFails, Script, ConnectFails, Abort, OpenFails,
            Save, Fails
<1>1. PICK error \in BOOLEAN : Return(MgrClosed(up), error) /\ (pc = "save" => ~error)
  BY DEF Starting, Leave
<1>2. pc \notin {"idle", "hung"}
  BY DEF Starting
<1>3. \E rest : /\ files' = Cleared \cup rest
                /\ \A f \in rest : f.run = run /\ ~f.whole
                /\ \A x, y \in rest : x = y
  <2>1. CASE files' = Cleared
    <3>1. PICK none : none = {}
      OBVIOUS
    <3>2. files' = Cleared \cup none
      BY ONLY <2>1, <3>1
    <3>3. (\A f \in none : f.run = run /\ ~f.whole) /\ \A x, y \in none : x = y
      BY ONLY <3>1
    <3> QED
      BY ONLY <3>2, <3>3
  <2>2. CASE \E k : files' = Cleared \cup Unrecorded(k)
    <3>1. PICK k, rest : rest = Unrecorded(k) /\ files' = Cleared \cup rest
      BY ONLY <2>2
    <3>2. PICK b, n, part : /\ part = [run |-> run, base |-> b, secret |-> n, whole |-> FALSE]
                            /\ rest \subseteq {part}
      BY ONLY <3>1, Zenon DEF Unrecorded
    <3>3. part.run = run /\ ~part.whole
      BY ONLY <3>2
    <3>4. \A f \in rest : f = part
      BY ONLY <3>2
    <3>5. (\A f \in rest : f.run = run /\ ~f.whole) /\ \A f, g \in rest : f = g
      BY ONLY <3>3, <3>4, Zenon
    <3> QED
      BY ONLY <3>1, <3>5
  <2>3. files' = Cleared \/ \E k : files' = Cleared \cup Unrecorded(k)
    BY DEF Leave
  <2> QED
    BY ONLY <2>1, <2>2, <2>3
<1> QED
  BY <1>1, <1>2, <1>3 DEF Return, Blank

LEMMA StageStep == Base /\ [Next]_vars => Stage'
<1> SUFFICES ASSUME Base, [Next]_vars PROVE Stage'
  OBVIOUS
<1> USE ConstantsAssumption
<1>1. Stage
  BY DEF Base
<1>2. CASE Start
  BY <1>1, <1>2 DEF Stage, Points, Start, ends
<1>3. CASE Over
  <2>1. /\ UNCHANGED <<run, killed>> /\ pc' = "idle" /\ unit' \in Units /\ job' \in Jobs
        /\ failed' \in {failed, failed \cup {run}}
    BY <1>3, OverLeaves, SomeUnitAndJob DEF Blank, Forget
  <2> QED
    BY <1>1, <2>1 DEF Stage, Points
<1>4. CASE Resolve \/ Inject \/ Install \/ InstallFails \/ Connect \/ OpenSession \/ Call
  <2>1. UNCHANGED <<run, unit, job, failed, killed>> /\ pc' \in Points \ {"idle"} /\ pc # "idle"
    BY <1>1, <1>4 DEF Stage, Points, Resolve, Inject, Install, InstallFails, Connect,
                      OpenSession, Call, ends, Starting
  <2> QED
    BY <1>1, <2>1 DEF Stage
<1>5. CASE Answer \/ GenerateFails \/ CallFails
  <2>1. /\ UNCHANGED <<run, unit, job, killed>> /\ pc' \in Points \ {"idle"} /\ pc # "idle"
        /\ failed' \in {failed, failed \cup {run}}
    BY <1>1, <1>5 DEF Stage, Points, Answer, GenerateFails, CallFails
  <2> QED
    BY <1>1, <2>1 DEF Stage
<1>6. CASE Kill \/ Hang
  <2>1. /\ UNCHANGED <<run, failed>> /\ pc' \in {"idle", "hung"} /\ pc # "idle"
        /\ unit' \in Units /\ job' \in Jobs /\ killed' \in {killed, killed \cup {run}}
    BY <1>6, SomeUnitAndJob DEF Kill, Hang, Forget, ends
  <2> QED
    BY <1>1, <2>1 DEF Stage, Points
<1>7. CASE RemoveSession \/ SaveCheckpoint \/ GoOffline \/ UNCHANGED vars
  BY <1>1, <1>7 DEF Stage, RemoveSession, SaveCheckpoint, GoOffline, vars, ends
<1> QED
  BY <1>2, <1>3, <1>4, <1>5, <1>6, <1>7 DEF Next, Step, Over

LEMMA ManagerStep == Base /\ [Next]_vars => Manager'
<1> SUFFICES ASSUME Base, [Next]_vars PROVE Manager'
  OBVIOUS
<1>1. Manager /\ Stage
  BY DEF Base
<1>2. ASSUME UNCHANGED <<unit, servers>>, pc' \notin Alone \/ tried = 0 PROVE Manager'
  BY <1>1, <1>2 DEF Manager, servers
<1>3. CASE Start
  <2>1. tried = 0 /\ clients = <<>> /\ unit' \in Units /\ UNCHANGED servers
    BY <1>1, <1>3, NoServerYet DEF Manager, Stage, Start, Alone
  <2>2. SubSeq(unit'.servers, 1, 0) = <<>> /\ Len(unit'.servers) \in Nat
    BY <2>1, NoServerYet, ServersNamed, LenProperties
  <2>3. tried' = 0 /\ clients' = <<>> /\ lists' = lists /\ byTool' = byTool
    BY <2>1 DEF servers
  <2>4. DOMAIN lists = Range(<<>>) /\ \A f \in DOMAIN byTool : byTool[f] \in Range(<<>>)
    BY <1>1, <2>1 DEF Manager
  <2> QED
    BY <2>2, <2>3, <2>4 DEF Manager
<1>4. ASSUME Blank PROVE Manager'
  <2>1. SubSeq(unit'.servers, 1, 0) = <<>> /\ Len(unit'.servers) \in Nat
    BY <1>4, NoServerYet, SomeUnitAndJob, ServersNamed, LenProperties DEF Blank, Forget
  <2> QED
    BY <1>4, <2>1, NoServerYet DEF Manager, Blank, Forget
<1>5. CASE Over \/ Kill \/ Hang
  BY <1>4, <1>5, OverLeaves DEF Kill, Hang, Blank
<1>6. CASE Resolve \/ Inject \/ Install \/ InstallFails \/ OpenSession \/ Answer \/ GenerateFails
             \/ Call \/ CallFails
  BY <1>1, <1>2, <1>6 DEF Manager, Alone, Resolve, Inject, Install, InstallFails, OpenSession,
                          Answer, GenerateFails, Call, CallFails, Starting
<1>7. CASE Connect
  <2>1. /\ unit \in Units /\ tried \in 0..Len(unit.servers) - 1
        /\ Len(unit.servers) \in Nat
    BY <1>1, <1>7, ServersNamed, LenProperties DEF Manager, Stage, Connect, Starting
  <2>2. /\ clients' = Append(clients, Server) /\ tried' = tried + 1 /\ unit' = unit
        /\ DOMAIN lists' = DOMAIN lists \cup {Server}
        /\ pc' \notin Alone
    BY <1>7 DEF Connect, Starting, Alone
  <2>3. clients' = SubSeq(unit.servers, 1, tried + 1) /\ Range(clients') = Range(clients) \cup {Server}
    BY <1>1, <2>1, <2>2, NextServer DEF Manager, Server
  <2>4. \A f \in DOMAIN byTool' : byTool'[f] \in Range(clients) \cup {Server}
    BY <1>1, <1>7 DEF Connect, Manager
  <2> QED
    BY <1>1, <2>1, <2>2, <2>3, <2>4 DEF Manager
<1>8. CASE RemoveSession \/ SaveCheckpoint \/ GoOffline \/ UNCHANGED vars
  BY <1>1, <1>2, <1>8 DEF Manager, RemoveSession, SaveCheckpoint, GoOffline, vars
<1> QED
  BY <1>3, <1>5, <1>6, <1>7, <1>8 DEF Next, Step, Over

-----------------------------------------------------------------------------
(* What a turn adds to the conversation.                                   *)
LEMMA Says ==
  ASSUME NEW m \in Seq(Message), NEW x \in Message
  PROVE  /\ m \o <<x>> = Append(m, x) /\ m \o <<x>> \in Seq(Message) /\ m \o <<x>> # <<>>
         /\ Len(m \o <<x>>) = Len(m) + 1 /\ Len(<<x>>) = 1 /\ Len(m) \in Nat
         /\ \A i \in 1..Len(m) : (m \o <<x>>)[i] = m[i]
         /\ (m \o <<x>>)[Len(m) + 1] = x
<1>1. m \o <<x>> = Append(m, x)
  BY AppendIsConcat
<1> QED
  BY <1>1, AppendProperties, LenProperties

AskedFor(names) ==
  [k \in DOMAIN names |-> [id |-> IF job.ids THEN <<turn, k>> ELSE <<>>, name |-> names[k]]]

LEMMA AskedTyped ==
  ASSUME Base, NEW names \in Calls
  PROVE  AskedFor(names) \in Seq(ToolCall)
<1>1. names \in Seq(Asked)
  BY CallsAssumption
<1>2. PICK n \in Nat : n = Len(names) /\ DOMAIN names = 1..n /\ \A k \in 1..n : names[k] \in Asked
  BY <1>1, LenProperties, ElementOfSeq
<1>3. turn \in Nat
  BY ConstantsAssumption DEF Base, Talk
<1>4. \A k \in 1..n : [id |-> IF job.ids THEN <<turn, k>> ELSE <<>>, name |-> names[k]] \in ToolCall
  <2>1. \A k \in 1..n : (IF job.ids THEN <<turn, k>> ELSE <<>>) \in Ids
    BY <1>3 DEF Ids
  <2> QED
    BY <2>1, <1>2 DEF ToolCall
<1>5. AskedFor(names) \in [1..n -> ToolCall]
  BY <1>2, <1>4 DEF AskedFor
<1> QED
  BY <1>5, SeqDef

LEMMA ReplyTyped ==
  ASSUME Base, pc = "calls"
  PROVE  /\ Head(calls) \in ToolCall /\ Tail(calls) \in Seq(ToolCall)
         /\ ToolResult(ReplyId(Head(calls)), Head(calls).name) \in Message
<1>1. calls \in Seq(ToolCall) /\ calls # <<>> /\ turn \in Nat
  BY ConstantsAssumption DEF Base, Talk
<1>2. Head(calls) \in ToolCall /\ Tail(calls) \in Seq(ToolCall)
  BY <1>1, HeadTailProperties
<1>3. Head(calls).id \in Ids /\ Head(calls).name \in Asked
  BY <1>2 DEF ToolCall
<1>4. ReplyId(Head(calls)) \in Ids
  BY <1>1, <1>3 DEF ReplyId, Ids
<1> QED
  BY <1>2, <1>3, <1>4, MessageTypes DEF Base

LEMMA TalkStep == Base /\ [Next]_vars => Talk'
<1> SUFFICES ASSUME Base, [Next]_vars PROVE Talk'
  OBVIOUS
<1> USE ConstantsAssumption
<1>1. Talk /\ Stage
  BY DEF Base
<1>2. ASSUME UNCHANGED talk, pc' \notin Talking, pc \notin Talking PROVE Talk'
  BY <1>1, <1>2 DEF Talk, talk, Talking
<1>3. CASE Start \/ Resolve \/ Inject \/ Install \/ InstallFails \/ Connect
  BY <1>1, <1>2, <1>3 DEF Talking, Start, Resolve, Inject, Install, InstallFails, Connect, Starting
<1>4. ASSUME Blank PROVE Talk'
  BY <1>4, EmptySeq DEF Talk, Blank, Forget, Talking
<1>5. CASE Over \/ Kill \/ Hang
  BY <1>4, <1>5, OverLeaves DEF Kill, Hang, Blank
<1>6. CASE OpenSession
  <2>1. User \in Message /\ Trimmed(History, job.trim) \in Seq(Message)
    BY <1>1, MessageTypes, HistoryTyped, TrimmedTyped DEF Base, Stage
  <2>2. sess' \in Seq(Message) /\ sess' # <<>> /\ Len(sess') \in Nat \ {0}
    BY <1>6, <2>1, AppendProperties, LenProperties, EmptySeq DEF OpenSession
  <2>3. calls = <<>> /\ <<>> \in Seq(ToolCall)
    BY <1>1, <1>6, EmptySeq DEF Talk, Talking, OpenSession
  <2> QED
    BY <1>6, <2>2, <2>3 DEF OpenSession, Talk, Talking
<1>7. CASE Answer
  <2>1. PICK names \in Calls :
          /\ sess' = sess \o <<Assistant(AskedFor(names))>>
          /\ fresh' = fresh + Len(<<Assistant(AskedFor(names))>>)
          /\ \/ pc' = "save" /\ calls' = <<>>
             \/ pc' = "calls" /\ calls' = AskedFor(names) /\ calls' # <<>> /\ ~LastTurn
    BY <1>7 DEF Answer, AskedFor, Say
  <2>2. AskedFor(names) \in Seq(ToolCall)
    BY AskedTyped
  <2>3. Assistant(AskedFor(names)) \in Message
    BY <1>1, <2>2, MessageTypes
  <2>4. sess' \in Seq(Message) /\ sess' # <<>> /\ Len(sess') = Len(sess) + 1 /\ fresh' = fresh + 1 /\ Len(sess) \in Nat
    BY <1>1, <2>1, <2>3, Says DEF Talk
  <2>5. pc = "generate" /\ turn' = turn
    BY <1>7 DEF Answer
  <2>6. turn \in 1..MaxTurns /\ (pc' = "calls" => turn < MaxTurns) /\ fresh \in 0..Len(sess)
    BY <1>1, <2>1, <2>5 DEF Talk, LastTurn
  <2>7. /\ pc' \in {"save", "calls"} /\ calls' \in Seq(ToolCall)
        /\ pc' = "save" => calls' = <<>>
        /\ pc' = "calls" => calls' # <<>>
    BY ONLY <2>1, <2>2, EmptySeq
  <2>8. turn' \in 0..MaxTurns /\ turn' # 0 /\ (pc' = "calls" => turn' < MaxTurns)
    BY <2>5, <2>6
  <2>9. fresh' \in 0..Len(sess')
    BY <2>4, <2>6
  <2> QED
    BY ONLY <2>4, <2>7, <2>8, <2>9 DEF Talk, Talking
<1>8. CASE GenerateFails
  BY <1>1, <1>8 DEF Talk, talk, Talking, GenerateFails
<1>9. CASE Call
  <2> PICK x \in Message : x = ToolResult(ReplyId(Head(calls)), Head(calls).name)
    BY <1>9, ReplyTyped DEF Call
  <2>1. pc = "calls" /\ sess' = sess \o <<x>> /\ fresh' = fresh + Len(<<x>>)
        /\ calls' = Tail(calls)
    BY <1>9 DEF Call, Say
  <2>2. \/ Tail(calls) = <<>> /\ pc' = "generate" /\ turn' = turn + 1
        \/ Tail(calls) # <<>> /\ pc' = "calls" /\ turn' = turn
    BY <1>9 DEF Call
  <2>3. Tail(calls) \in Seq(ToolCall)
    BY <2>1, ReplyTyped
  <2>4. sess' \in Seq(Message) /\ sess' # <<>> /\ Len(sess') = Len(sess) + 1 /\ fresh' = fresh + 1 /\ Len(sess) \in Nat
    BY <1>1, <2>1, Says DEF Talk
  <2>5. turn \in 1..MaxTurns /\ turn < MaxTurns /\ fresh \in 0..Len(sess)
    BY <1>1, <2>1 DEF Talk
  <2> QED
    BY <2>1, <2>2, <2>3, <2>4, <2>5 DEF Talk, Talking
<1>10. CASE CallFails
  BY <1>1, <1>10, EmptySeq DEF Talk, Talking, CallFails
<1>11. CASE RemoveSession \/ SaveCheckpoint \/ GoOffline \/ UNCHANGED vars
  BY <1>1, <1>11 DEF Talk, talk, RemoveSession, SaveCheckpoint, GoOffline, vars
<1> QED
  BY <1>3, <1>5, <1>6, <1>7, <1>8, <1>9, <1>10, <1>11 DEF Next, Step, Over

LEMMA Invariance0 == Spec => []Base
<1>1. Base /\ [Next]_vars => Base'
  BY MachineStep, StageStep, ManagerStep, TalkStep DEF Base
<1> QED
  BY InitBase, <1>1, PTL DEF Spec

LEMMA BaseTypes == Base => TypeOK
<1> SUFFICES ASSUME Base PROVE TypeOK
  OBVIOUS
<1>1. clients \in Seq(ServerNames)
  BY ServersNamed, PartOf, LenProperties, SubSeqEmpty DEF Base, Manager, Stage
<1>2. Conversations \subseteq Seq(Message)
  BY DEF Conversations, Base, Machine, Talk, Kept
<1>3. saved.state \in {"none", "whole"} /\ checkpoint.state \in {"none", "torn", "whole"}
  BY DEF Base, Machine, Kept
<1> QED
  BY <1>1, <1>2, <1>3 DEF Base, Machine, Stage, Manager, Talk, TypeOK, Points

(* In every state reached, every variable has its type: a conversation is  *)
(* a sequence of messages of this program, the turn stays within           *)
(* --max-turns, and the manager has a listing for exactly its clients.     *)
THEOREM TypeCorrect == Spec => []TypeOK
BY Invariance0, BaseTypes, PTL

-----------------------------------------------------------------------------
(* What is left of a run.                                                  *)
LEMMA InitOfThisRun == Init => OfThisRun
BY DEF Init, OfThisRun

LEMMA OfThisRunStep == Base /\ OfThisRun /\ [Next]_vars => OfThisRun'
<1> SUFFICES ASSUME Base, OfThisRun, [Next]_vars PROVE OfThisRun'
  OBVIOUS
<1>1. Stage /\ Manager
  BY DEF Base
<1>2. ASSUME UNCHANGED <<up, files, clients, run, killed>>, pc # "hung",
             pc = "idle" <=> pc' = "idle"
      PROVE  OfThisRun'
  BY <1>2 DEF OfThisRun
<1>3. CASE Start
  BY <1>3 DEF OfThisRun, Start, ends
<1>4. CASE Resolve \/ Install \/ InstallFails \/ OpenSession \/ Call \/ CallFails
  BY <1>2, <1>4 DEF Resolve, Install, InstallFails, OpenSession, Call, CallFails, servers,
                    ends, Starting
<1>5. CASE Inject
  <2>1. /\ UNCHANGED <<up, clients, run, killed>> /\ pc' # "idle" /\ pc \notin {"idle", "hung"}
        /\ files' = files \cup Written
    BY <1>5 DEF Inject, servers, ends
  <2>2. \A f \in Written : f.run = run
    BY DEF Written
  <2> QED
    BY <2>1, <2>2 DEF OfThisRun
<1>6. CASE Connect
  <2>1. /\ UNCHANGED <<files, run, killed>> /\ pc' # "idle" /\ pc \notin {"idle", "hung"}
        /\ up' = up \cup {[run |-> run, name |-> Server]} /\ Server \in ServerNames
        /\ Range(clients') = Range(clients) \cup {Server}
    <3>1. /\ unit \in Units /\ tried \in 0..Len(unit.servers) - 1 /\ clients' = Append(clients, Server)
      BY <1>1, <1>6, ServersNamed, LenProperties DEF Manager, Stage, Connect, Starting
    <3>2. Server \in ServerNames /\ Range(clients') = Range(clients) \cup {Server}
      BY <1>1, <3>1, NextServer DEF Manager, Server
    <3> QED
      BY <1>6, <3>2 DEF Connect, ends, Starting
  <2>2. [run |-> run, name |-> Server] \in Processes
    BY <1>1, <2>1 DEF Processes, Stage
  <2> QED
    BY <2>1, <2>2 DEF OfThisRun
<1>7. CASE Answer \/ GenerateFails
  <2>1. /\ UNCHANGED <<files, clients, run, killed>> /\ pc' # "idle" /\ pc \notin {"idle", "hung"}
        /\ up' \in {up, up \cup {Backend}}
    BY <1>7 DEF Answer, GenerateFails, servers
  <2>2. Backend \in Processes /\ Backend.run = run /\ Backend.name = <<"llama">>
    BY <1>1 DEF Backend, Processes, Stage
  <2> QED
    BY <2>1, <2>2 DEF OfThisRun
<1>8. CASE Over
  <2>1. /\ pc' = "idle" /\ pc # "hung" /\ UNCHANGED <<run, killed>>
        /\ up' = MgrClosed(up) \ {Backend}
    BY <1>8, OverLeaves DEF Blank
  <2>a. PICK rest : /\ files' = Cleared \cup rest
                    /\ \A f \in rest : f.run = run /\ ~f.whole
                    /\ \A f, g \in rest : f = g
    BY <1>8, OverLeaves
  <2>2. ASSUME NEW p \in up' PROVE p.run \in killed
    <3>1. p \in up /\ p \in Processes /\ p # Backend /\ (p.run # run \/ p.name \notin Range(clients))
      BY <2>1 DEF MgrClosed, OfThisRun
    <3>2. p.run = run => p.name # <<"llama">>
      BY <3>1 DEF Backend, Processes
    <3> QED
      BY <2>1, <3>1, <3>2 DEF OfThisRun
  <2>3. \A f \in files' : f.run \in killed \/ ~f.whole
    BY <2>a DEF Cleared, OfThisRun
  <2>4. \A f, g \in files' : f.run = g.run /\ f.run \notin killed => f = g
    BY <2>a DEF Cleared, OfThisRun
  <2> QED
    BY <2>1, <2>2, <2>3, <2>4 DEF OfThisRun, MgrClosed
<1>9. CASE Kill
  BY <1>9 DEF Kill, OfThisRun
<1>a. CASE Hang
  <2>1. /\ pc' = "hung" /\ pc # "idle" /\ UNCHANGED <<files, run, killed>>
        /\ up' \in {up, up \cup {Backend}} /\ pc # "hung"
    BY <1>a DEF Hang, ends
  <2>2. Backend \in Processes /\ Backend.run = run
    BY <1>1 DEF Backend, Processes, Stage
  <2> QED
    BY <2>1, <2>2 DEF OfThisRun
<1>10. CASE RemoveSession \/ SaveCheckpoint \/ GoOffline
  BY <1>2, <1>10 DEF RemoveSession, SaveCheckpoint, GoOffline, servers, ends
<1>11. CASE UNCHANGED vars
  BY <1>11 DEF vars, servers, ends, OfThisRun
<1> QED
  BY <1>3, <1>4, <1>5, <1>6, <1>7, <1>8, <1>9, <1>a, <1>10, <1>11 DEF Next, Step, Over

LEMMA InvarianceOfEnds == Spec => []OfThisRun
BY Invariance0, InitOfThisRun, OfThisRunStep, PTL DEF Spec

(* A command that has returned, by any of its exits, has left no server    *)
(* running and no secret on disk, unless it was killed, or was refused the *)
(* write of a secret's file: then what it wrote of that one may be left.   *)
THEOREM LeavesNothing == Spec => []NothingLeft
<1>1. OfThisRun => NothingLeft
  BY DEF OfThisRun, NothingLeft
<1> QED
  BY <1>1, InvarianceOfEnds, PTL

-----------------------------------------------------------------------------
(* What a run has to work with.                                            *)
LEMMA InitEquipped == Init => Equipped
BY NoServerYet DEF Init, Equipped, SecretsReady, ToolsReachTheirServer

(* Every mounted secret is written, or a later one under the same base.    *)
LEMMA LastWritten ==
  ASSUME NEW k \in Mounts, unit \in Units
  PROVE  LET b == unit.secrets[k].base
         IN  /\ LastOf(b) \in Mounts /\ unit.secrets[LastOf(b)].base = b /\ k <= LastOf(b)
<1>1. PICK ss \in Seq(Range(unit.secrets)) : ss = unit.secrets
  BY UnitsAssumption
<1>2. PICK b : b = unit.secrets[k].base
  OBVIOUS
<1> Len(ss) \in Nat /\ Mounts \subseteq 1..Len(ss)
  <2>1. Len(ss) \in Nat /\ DOMAIN unit.secrets = 1..Len(ss)
    BY <1>1, LenProperties
  <2> QED
    BY <2>1 DEF Mounts, Present
<1>3. PICK same \in SUBSET Nat : same = {j \in Mounts : unit.secrets[j].base = b}
  <2>1. Mounts \subseteq Nat
    OBVIOUS
  <2>2. {j \in Mounts : unit.secrets[j].base = b} \subseteq Mounts
    OBVIOUS
  <2> QED
    BY ONLY <2>1, <2>2
<1>4. \A j \in same : j <= Len(ss) /\ Len(ss) \in Nat
  BY <1>3
<1>5. PICK l \in same : \A j \in same : j <= l
  <2>1. same # {} /\ Len(ss) \in Nat
    BY <1>2, <1>3, <1>4
  <2> QED
    BY ONLY <1>4, <2>1, HasGreatest
<1>6. \E j \in Mounts : /\ unit.secrets[j].base = b
                        /\ \A i \in Mounts : unit.secrets[i].base = b => i <= j
  BY <1>3, <1>5
<1>7. /\ LastOf(b) \in Mounts /\ unit.secrets[LastOf(b)].base = b
      /\ \A i \in Mounts : unit.secrets[i].base = b => i <= LastOf(b)
  BY ONLY <1>6 DEF LastOf
<1> QED
  BY <1>2, <1>7

LEMMA InjectEquips ==
  ASSUME Base, Inject
  PROVE  SecretsReady'
<1>1. unit \in Units /\ unit' = unit /\ ~RequiredMissing /\ files' = files \cup Written
      /\ env' = [n \in DOMAIN Injected |-> unit.secrets[Injected[n]].base]
  BY DEF Inject, Base, Stage
<1>2. \A j, k \in DOMAIN unit.secrets : unit.secrets[j].name = unit.secrets[k].name => j = k
  BY <1>1, UnitsAssumption
<1>3. ASSUME NEW k \in DOMAIN unit.secrets
      PROVE  /\ unit.secrets[k].required => unit.secrets[k].name \in DOMAIN env'
             /\ unit.secrets[k].name \in DOMAIN env' /\ env'[unit.secrets[k].name] # "" =>
                  \/ [run |-> run, base |-> unit.secrets[k].base, secret |-> unit.secrets[k].name, whole |-> TRUE] \in files'
                  \/ \E j \in DOMAIN unit.secrets : j > k /\ unit.secrets[j].base = unit.secrets[k].base
  <2>1. DOMAIN env' = {unit.secrets[j].name : j \in Present} /\ Present \subseteq DOMAIN unit.secrets
    BY <1>1 DEF Injected, Present
  <2>2. unit.secrets[k].required => k \in Present
    BY <1>1 DEF RequiredMissing
  <2>3. ASSUME unit.secrets[k].name \in DOMAIN env', env'[unit.secrets[k].name] # "" 
        PROVE  \/ [run |-> run, base |-> unit.secrets[k].base, secret |-> unit.secrets[k].name, whole |-> TRUE] \in files'
               \/ \E j \in DOMAIN unit.secrets : j > k /\ unit.secrets[j].base = unit.secrets[k].base
    <3>1. k \in Present
      BY <1>2, <2>1, <2>3
    <3>2. Injected[unit.secrets[k].name] = k
      <4>1. Injected[unit.secrets[k].name] = CHOOSE j \in Present : unit.secrets[j].name = unit.secrets[k].name
        BY <3>1 DEF Injected
      <4>2. \A j \in Present : unit.secrets[j].name = unit.secrets[k].name => j = k
        BY <1>2, <2>1
      <4> QED
        BY <3>1, <4>1, <4>2
    <3>3. env'[unit.secrets[k].name] = unit.secrets[k].base
      BY <1>1, <2>3, <3>2
    <3>4. k \in Mounts
      BY <2>3, <3>1, <3>3 DEF Mounts
    <3>5. PICK l \in Mounts : /\ l = LastOf(unit.secrets[k].base) /\ k <= l
                              /\ unit.secrets[l].base = unit.secrets[k].base
      BY <1>1, <3>4, LastWritten
    <3>6. [run |-> run, base |-> unit.secrets[k].base, secret |-> unit.secrets[l].name, whole |-> TRUE] \in files'
      BY <1>1, <3>4, <3>5 DEF Written
    <3>7. l \in DOMAIN unit.secrets
      BY DEF Mounts, Present
    <3>8. l \in Int /\ k \in Int
      BY <1>1, <3>7, UnitsAssumption, LenProperties
    <3>9. CASE l = k
      BY <3>6, <3>9
    <3>10. CASE l # k
      BY <3>5, <3>7, <3>8, <3>10
    <3> QED
      BY <3>9, <3>10
  <2> QED
    BY <2>1, <2>2, <2>3
<1>4. run' = run
  BY DEF Inject
<1> QED
  BY <1>1, <1>3, <1>4 DEF SecretsReady

LEMMA SecretsStep == Base /\ SecretsReady /\ [Next]_vars => SecretsReady'
<1> SUFFICES ASSUME Base, SecretsReady, [Next]_vars PROVE SecretsReady'
  OBVIOUS
<1> DEFINE Needing == {"script", "servers", "abort", "generate", "calls"}
<1>1. ASSUME UNCHANGED <<run, unit, env, files>>, pc' \in Needing => pc \in Needing
      PROVE  SecretsReady'
  BY <1>1 DEF SecretsReady
<1>2. ASSUME pc' \notin Needing PROVE SecretsReady'
  BY <1>2 DEF SecretsReady
<1>3. CASE Start \/ Resolve \/ Kill \/ Hang
  BY <1>2, <1>3 DEF Start, Resolve, Kill, Hang
<1>4. CASE Over
  BY <1>2, <1>4, OverLeaves DEF Blank
<1>5. CASE Inject
  BY <1>5, InjectEquips
<1>6. CASE Install \/ InstallFails \/ Connect \/ OpenSession \/ Answer \/ GenerateFails \/ Call
             \/ CallFails
  BY <1>1, <1>6 DEF Install, InstallFails, Connect, OpenSession, Answer, GenerateFails, Call,
                    CallFails, Starting
<1>7. CASE RemoveSession \/ SaveCheckpoint \/ GoOffline \/ UNCHANGED vars
  BY <1>1, <1>7 DEF RemoveSession, SaveCheckpoint, GoOffline, vars
<1> QED
  BY <1>3, <1>4, <1>5, <1>6, <1>7 DEF Next, Step, Over

(* The same of any unit and manager.                                       *)
Reaches(u, cl, ls, bt) ==
  LET offer(s) == IF u.allow[s] = {} THEN ls[s] ELSE ls[s] \cap u.allow[s]
  IN  /\ \A f \in DOMAIN bt : \E t \in offer(bt[f]) : f = Full(bt[f], t)
      /\ \A s \in Range(cl) : \A t \in offer(s) :
           /\ Full(s, t) \in DOMAIN bt
           /\ \/ bt[Full(s, t)] = s
              \/ \E other \in Range(cl) \ {s} :
                   \E v \in offer(other) : Full(other, v) = Full(s, t)

LEMMA ReachesIs ==
  /\ ToolsReachTheirServer <=> Reaches(unit, clients, lists, byTool)
  /\ ToolsReachTheirServer' <=> Reaches(unit', clients', lists', byTool')
BY DEF ToolsReachTheirServer, Reaches, Offered, Full

LEMMA ConnectReaches ==
  ASSUME Base, ToolsReachTheirServer, Connect
  PROVE  ToolsReachTheirServer'
<1>1. /\ unit \in Units /\ tried \in 0..Len(unit.servers) - 1
      /\ clients = SubSeq(unit.servers, 1, tried) /\ DOMAIN lists = Range(clients)
      /\ \A f \in DOMAIN byTool : byTool[f] \in Range(clients)
  BY ServersNamed, LenProperties DEF Base, Manager, Stage, Connect, Starting
<1>2. PICK s : s = Server
  OBVIOUS
<1>3. /\ s \notin Range(clients) /\ Range(clients') = Range(clients) \cup {s}
      /\ unit' = unit
  <2>1. clients' = Append(clients, s) /\ unit' = unit
    BY <1>2 DEF Connect
  <2>2. clients' = SubSeq(unit.servers, 1, tried + 1)
    BY <1>1, <1>2, <2>1, NextServer DEF Server
  <2> QED
    BY <1>1, <1>2, <2>1, <2>2, NextServer DEF Server
<1>a. PICK listed \in Offers :
       /\ lists' = [r \in DOMAIN lists \cup {Server} |-> IF r = Server THEN listed ELSE lists[r]]
       /\ byTool' = [f \in DOMAIN byTool \cup {Full(Server, t) : t \in Chosen(listed)} |->
                       IF \E t \in Chosen(listed) : f = Full(Server, t) THEN Server ELSE byTool[f]]
  BY DEF Connect
<1>b. PICK chosen : chosen = Chosen(listed)
  OBVIOUS
<1>4. /\ chosen = IF unit.allow[s] = {} THEN listed ELSE listed \cap unit.allow[s]
      /\ lists' = [r \in DOMAIN lists \cup {s} |-> IF r = s THEN listed ELSE lists[r]]
      /\ byTool' = [f \in DOMAIN byTool \cup {Full(s, t) : t \in chosen} |->
                      IF \E t \in chosen : f = Full(s, t) THEN s ELSE byTool[f]]
  <2>1. chosen = IF unit.allow[s] = {} THEN listed ELSE listed \cap unit.allow[s]
    BY <1>2, <1>b DEF Chosen
  <2> QED
    BY <1>2, <1>a, <1>b, <2>1
<1>5. PICK offered : offered = [r \in Range(clients) |-> Offered(r)]
  OBVIOUS
<1>6. PICK then : then = [r \in Range(clients) \cup {s} |-> (IF unit'.allow[r] = {} THEN lists'[r] ELSE lists'[r] \cap unit'.allow[r])]
  OBVIOUS
<1>7. then[s] = chosen /\ \A r \in Range(clients) : then[r] = offered[r]
  BY <1>1, <1>3, <1>4, <1>5, <1>6 DEF Offered
<1>8. /\ \A f \in DOMAIN byTool : \E t \in offered[byTool[f]] : f = Full(byTool[f], t)
      /\ \A r \in Range(clients) : \A t \in offered[r] :
           /\ Full(r, t) \in DOMAIN byTool
           /\ \/ byTool[Full(r, t)] = r
              \/ \E other \in Range(clients) \ {r} :
                   \E u \in offered[other] : Full(other, u) = Full(r, t)
  BY <1>1, <1>5 DEF ToolsReachTheirServer
<1>9. ASSUME NEW f \in DOMAIN byTool'
      PROVE  byTool'[f] \in Range(clients) \cup {s} /\ \E t \in then[byTool'[f]] : f = Full(byTool'[f], t)
  <2>1. CASE \E t \in chosen : f = Full(s, t)
    BY <1>4, <1>7, <2>1
  <2>2. CASE ~\E t \in chosen : f = Full(s, t)
    <3>1. f \in DOMAIN byTool /\ byTool'[f] = byTool[f]
      BY <1>4, <2>2
    <3> QED
      BY <1>1, <1>7, <1>8, <3>1
  <2> QED
    BY <2>1, <2>2
<1>10. ASSUME NEW r \in Range(clients) \cup {s}, NEW t \in then[r]
       PROVE  /\ Full(r, t) \in DOMAIN byTool'
              /\ \/ byTool'[Full(r, t)] = r
                 \/ \E other \in (Range(clients) \cup {s}) \ {r} :
                      \E u \in then[other] : Full(other, u) = Full(r, t)
  <2>1. CASE r = s
    BY <1>4, <1>7, <2>1
  <2>2. CASE r # s
    <3>1. /\ r \in Range(clients) /\ t \in offered[r] /\ Full(r, t) \in DOMAIN byTool
      BY <1>7, <1>8, <2>2
    <3>2. Full(r, t) \in DOMAIN byTool'
      BY <1>4, <3>1
    <3>3. CASE \E u \in chosen : Full(r, t) = Full(s, u)
      BY <1>7, <2>2, <3>2, <3>3
    <3>4. CASE ~\E u \in chosen : Full(r, t) = Full(s, u)
      <4>1. byTool'[Full(r, t)] = byTool[Full(r, t)]
        BY <1>4, <3>2, <3>4
      <4> QED
        BY <1>7, <1>8, <3>1, <3>2, <4>1
    <3> QED
      BY <3>3, <3>4
  <2> QED
    BY <2>1, <2>2
<1> QED
  <2>1. /\ \A f \in DOMAIN byTool' : \E t \in then[byTool'[f]] : f = Full(byTool'[f], t)
        /\ \A f \in DOMAIN byTool' : byTool'[f] \in Range(clients')
        /\ \A r \in Range(clients') : \A t \in then[r] :
             /\ Full(r, t) \in DOMAIN byTool'
             /\ \/ byTool'[Full(r, t)] = r
                \/ \E other \in Range(clients') \ {r} :
                     \E u \in then[other] : Full(other, u) = Full(r, t)
    BY <1>3, <1>9, <1>10
  <2>2. \A r \in Range(clients') : then[r] = IF unit'.allow[r] = {} THEN lists'[r] ELSE lists'[r] \cap unit'.allow[r]
    BY <1>3, <1>6
  <2> DEFINE offer(r) == IF unit'.allow[r] = {} THEN lists'[r] ELSE lists'[r] \cap unit'.allow[r]
  <2>3. \A f \in DOMAIN byTool' : \E t \in offer(byTool'[f]) : f = Full(byTool'[f], t)
    BY ONLY <2>1, <2>2
  <2>4. ASSUME NEW r \in Range(clients'), NEW t \in offer(r)
        PROVE  /\ Full(r, t) \in DOMAIN byTool'
               /\ \/ byTool'[Full(r, t)] = r
                  \/ \E other \in Range(clients') \ {r} :
                       \E v \in offer(other) : Full(other, v) = Full(r, t)
    <3>1. t \in then[r]
      BY ONLY <2>2, <2>4
    <3>2. CASE byTool'[Full(r, t)] = r
      BY ONLY <2>1, <3>1, <3>2
    <3>3. CASE byTool'[Full(r, t)] # r
      <4>1. PICK other \in Range(clients') \ {r} : \E v \in then[other] : Full(other, v) = Full(r, t)
        BY ONLY <2>1, <3>1, <3>3
      <4>2. then[other] = offer(other)
        BY ONLY <2>2
      <4> HIDE DEF offer
      <4> QED
        BY ONLY <2>1, <3>1, <4>1, <4>2
    <3> QED
      BY <3>2, <3>3
  <2> QED
    BY <2>3, <2>4, ReachesIs DEF Reaches

LEMMA ToolsStep == Base /\ ToolsReachTheirServer /\ [Next]_vars => ToolsReachTheirServer'
<1> SUFFICES ASSUME Base, ToolsReachTheirServer, [Next]_vars PROVE ToolsReachTheirServer'
  OBVIOUS
<1>1. ASSUME UNCHANGED <<unit, servers>> PROVE ToolsReachTheirServer'
  <2>1. unit' = unit /\ clients' = clients /\ lists' = lists /\ byTool' = byTool
    BY <1>1 DEF servers
  <2> QED
    BY <2>1, ReachesIs
<1>2. ASSUME clients' = <<>>, DOMAIN byTool' = {} PROVE ToolsReachTheirServer'
  <2>1. Range(clients') = {}
    BY <1>2, NoServerYet
  <2> QED
    BY <1>2, <2>1, ReachesIs DEF Reaches
<1>3. CASE Start
  <2>1. clients = <<>> /\ clients' = clients /\ byTool' = byTool
    BY <1>3, NoServerYet DEF Base, Manager, Stage, Alone, Start, servers
  <2>2. DOMAIN byTool = {}
    BY <2>1, NoServerYet DEF Base, Manager
  <2> QED
    BY <1>2, <2>1, <2>2
<1>4. CASE Over \/ Kill \/ Hang
  <2>1. clients' = <<>> /\ byTool' = Empty
    BY <1>4, OverLeaves DEF Blank, Forget, Kill, Hang
  <2> QED
    BY <1>2, <2>1, NoServerYet
<1>5. CASE Connect
  BY <1>5, ConnectReaches
<1>6. CASE Resolve \/ Inject \/ Install \/ InstallFails \/ OpenSession \/ Answer \/ GenerateFails
             \/ Call \/ CallFails
  BY <1>1, <1>6 DEF Resolve, Inject, Install, InstallFails, OpenSession, Answer, GenerateFails,
                    Call, CallFails
<1>7. CASE RemoveSession \/ SaveCheckpoint \/ GoOffline \/ UNCHANGED vars
  BY <1>1, <1>7 DEF RemoveSession, SaveCheckpoint, GoOffline, vars
<1> QED
  BY <1>3, <1>4, <1>5, <1>6, <1>7 DEF Next, Step, Over

(* Whatever a run starts has every secret it requires, in the file its     *)
(* variable names, and the tools the unit allows go to the server that     *)
(* listed them: secrets or tools are only mixed up when two share a name.  *)
THEOREM RunsEquipped == Spec => []Equipped
<1>1. Base /\ Equipped /\ [Next]_vars => Equipped'
  BY SecretsStep, ToolsStep DEF Equipped
<1> QED
  BY <1>1, InitEquipped, Invariance0, PTL DEF Spec

-----------------------------------------------------------------------------
(* What is saved continues what was there.                                 *)
LEMMA SameStart ==
  ASSUME NEW m \in Seq(Message), NEW m2 \in Seq(Message), NEW n \in Nat,
         n <= Len(m), n <= Len(m2), \A i \in 1..n : m[i] = m2[i]
  PROVE  SubSeq(m, 1, n) = SubSeq(m2, 1, n)
<1> 1 \in Nat \ {0}
  OBVIOUS
<1>1. /\ SubSeq(m, 1, n) \in Seq(Message) /\ Len(SubSeq(m, 1, n)) = n
      /\ \A i \in 1..n : SubSeq(m, 1, n)[i] = m[i]
  BY PartOf
<1>2. /\ SubSeq(m2, 1, n) \in Seq(Message) /\ Len(SubSeq(m2, 1, n)) = n
      /\ \A i \in 1..n : SubSeq(m2, 1, n)[i] = m2[i]
  BY PartOf
<1> QED
  BY <1>1, <1>2, SeqEqual

(* Continues, for any flags and any run.                                   *)
Extends(new, old, n, r) ==
  \E k \in 0..Len(old) :
    LET kept == SubSeq(old, k + 1, Len(old))
    IN  /\ k > 0 => kept # <<>> /\ kept[1].role = "user" /\ Len(kept) <= n
        /\ Len(new) > Len(kept) /\ IsPrefix(kept, new)
        /\ new[Len(kept) + 1].role = "user"
        /\ \A i \in Len(kept) + 1..Len(new) : new[i].run = r

LEMMA ContinuesIs ==
  /\ \A new, old : Continues(new, old) <=> Extends(new, old, job.trim, run)
  /\ Goes <=> (pc \in Talking => Extends(sess, History, job.trim, run))
  /\ Goes' <=> (pc' \in Talking => Extends(sess', History', job'.trim, run'))
BY DEF Continues, Extends, Goes

LEMMA HistoryStays == UNCHANGED <<saved, checkpoint, job>> => History' = History
BY DEF History

LEMMA ExtendsGrows ==
  ASSUME NEW new \in Seq(Message), NEW old \in Seq(Message), NEW n, NEW r,
         Extends(new, old, n, r), NEW x \in Message, x.run = r
  PROVE  Extends(new \o <<x>>, old, n, r)
<1>1. PICK k \in 0..Len(old), kept \in Seq(Message) :
        /\ kept = SubSeq(old, k + 1, Len(old))
        /\ k > 0 => kept # <<>> /\ kept[1].role = "user" /\ Len(kept) <= n
        /\ Len(new) > Len(kept) /\ IsPrefix(kept, new)
        /\ new[Len(kept) + 1].role = "user"
        /\ \A i \in Len(kept) + 1..Len(new) : new[i].run = r
  <2>1. \A k \in 0..Len(old) : SubSeq(old, k + 1, Len(old)) \in Seq(Message)
    BY PartOf, LenProperties
  <2> QED
    BY <2>1 DEF Extends
<1>2. Len(kept) \in Nat /\ Len(new) \in Nat
  BY LenProperties
<1>3. PICK more \in Seq(Message) : /\ more = new \o <<x>> /\ Len(more) = Len(new) + 1
                                   /\ \A i \in 1..Len(new) : more[i] = new[i]
                                   /\ more[Len(new) + 1] = x
  BY Says
<1>4. SubSeq(new, 1, Len(kept)) = SubSeq(more, 1, Len(kept))
  BY <1>1, <1>2, <1>3, SameStart
<1>5. IsPrefix(kept, more)
  BY <1>1, <1>2, <1>3, <1>4 DEF IsPrefix
<1>6. more[Len(kept) + 1].role = "user" /\ \A i \in Len(kept) + 1..Len(more) : more[i].run = r
  BY <1>1, <1>2, <1>3
<1>7. Len(more) > Len(kept)
  BY <1>1, <1>2, <1>3
<1> QED
  BY <1>1, <1>3, <1>5, <1>6, <1>7 DEF Extends

LEMMA ExtendsOpens ==
  ASSUME NEW old \in Seq(Message), NEW n \in Nat, NEW x \in Message, x.role = "user"
  PROVE  Extends(Append(Trimmed(old, n), x), old, n, x.run)
<1>1. PICK k \in 0..Len(old), kept \in Seq(Message) :
        /\ kept = SubSeq(old, k + 1, Len(old)) /\ kept = Trimmed(old, n)
        /\ k > 0 => kept # <<>> /\ kept[1].role = "user" /\ Len(kept) <= n
  <2>1. Len(old) \in Nat
    BY LenProperties
  <2>2. CASE Trimmed(old, n) = old
    <3>1. SubSeq(old, 0 + 1, Len(old)) = old
      BY SubSeqFull
    <3> QED
      BY <2>1, <2>2, <3>1
  <2>3. ASSUME NEW first \in 2..Len(old), old[first].role = "user", Len(old) - first + 1 <= n,
               Trimmed(old, n) = SubSeq(old, first, Len(old))
        PROVE  \E k \in 0..Len(old), kept \in Seq(Message) :
                 /\ kept = SubSeq(old, k + 1, Len(old)) /\ kept = Trimmed(old, n)
                 /\ k > 0 => kept # <<>> /\ kept[1].role = "user" /\ Len(kept) <= n
    <3>1. first \in Nat \ {0} /\ first - 1 \in 0..Len(old) /\ (first - 1) + 1 = first /\ first <= Len(old)
      BY <2>1, <2>3
    <3>2. PICK kept \in Seq(Message) :
            /\ kept = SubSeq(old, first, Len(old)) /\ Len(kept) = Len(old) - first + 1
            /\ \A i \in 1..Len(old) - first + 1 : kept[i] = old[first + i - 1]
      <4>1. Len(old) \in Nat /\ Len(old) <= Len(old)
        BY <2>1
      <4>2. /\ SubSeq(old, first, Len(old)) \in Seq(Message)
            /\ Len(SubSeq(old, first, Len(old))) = Len(old) - first + 1
            /\ \A i \in 1..Len(old) - first + 1 : SubSeq(old, first, Len(old))[i] = old[first + i - 1]
        BY <3>1, <4>1, PartOf
      <4> QED
        BY <4>2
    <3>3. kept[1] = old[first] /\ Len(kept) # 0
      BY <2>1, <3>1, <3>2
    <3>4. kept # <<>>
      BY <3>3, EmptySeq
    <3> QED
      BY <2>3, <3>1, <3>2, <3>3, <3>4
  <2> QED
    BY <2>2, <2>3, TrimmedIs
<1>2. PICK new \in Seq(Message) :
        /\ new = Append(kept, x) /\ Len(new) = Len(kept) + 1 /\ new[Len(kept) + 1] = x
        /\ \A i \in 1..Len(kept) : new[i] = kept[i]
  BY Says
<1>3. Len(kept) \in Nat
  BY LenProperties
<1>4. IsPrefix(kept, new)
  BY <1>2, <1>3, SameStart DEF IsPrefix
<1>5. Len(new) > Len(kept) /\ \A i \in Len(kept) + 1..Len(new) : i = Len(kept) + 1
  BY <1>2, <1>3
<1> QED
  BY <1>1, <1>2, <1>4, <1>5 DEF Extends

LEMMA InitGoes == Init => Goes
BY DEF Init, Goes, Talking

LEMMA GoesStep == Base /\ Goes /\ [Next]_vars => Goes'
<1> SUFFICES ASSUME Base, Goes, [Next]_vars PROVE Goes'
  OBVIOUS
<1>1. Talk /\ Stage /\ Machine
  BY DEF Base
<1>2. ASSUME pc' \notin Talking PROVE Goes'
  BY <1>2 DEF Goes
<1>3. ASSUME UNCHANGED <<saved, checkpoint, job, run, sess>>, pc' \in Talking => pc \in Talking
      PROVE  Goes'
  BY <1>3, HistoryStays, ContinuesIs
<1>4. CASE Start \/ Resolve \/ Inject \/ Install \/ InstallFails \/ Connect \/ Kill \/ Hang
  BY <1>2, <1>4 DEF Start, Resolve, Inject, Install, InstallFails, Connect, Kill, Hang, Talking,
                    Starting
<1>5. CASE Over
  BY <1>2, <1>5, OverLeaves DEF Blank, Talking
<1>6. CASE OpenSession
  <2>1. /\ sess' = Append(Trimmed(History, job.trim), User)
        /\ UNCHANGED <<saved, checkpoint, job, run>>
    BY <1>6 DEF OpenSession, machine
  <2>2. History' = History /\ History \in Seq(Message) /\ User \in Message /\ job.trim \in Nat
    BY <1>1, <2>1, ConstantsAssumption, HistoryStays, HistoryTyped, MessageTypes DEF Stage
  <2>3. User.role = "user" /\ User.run = run
    BY DEF User
  <2>4. Extends(sess', History, job.trim, run)
    BY <2>1, <2>2, <2>3, ExtendsOpens
  <2> QED
    BY <2>1, <2>2, <2>4, ContinuesIs
<1>7. ASSUME NEW x \in Message, x.run = run, sess' = sess \o <<x>>, pc \in Talking,
             UNCHANGED <<saved, checkpoint, job, run>>
      PROVE  Goes'
  <2>1. Extends(sess, History, job.trim, run) /\ sess \in Seq(Message) /\ History \in Seq(Message)
    BY <1>1, <1>7, ContinuesIs, HistoryTyped DEF Talk
  <2>2. Extends(sess', History, job.trim, run)
    BY <1>7, <2>1, ExtendsGrows
  <2> QED
    BY <1>7, <2>2, HistoryStays, ContinuesIs
<1>8. CASE Answer
  <2>1. PICK names \in Calls : sess' = sess \o <<Assistant(AskedFor(names))>>
    BY <1>8 DEF Answer, AskedFor, Say
  <2>2. Assistant(AskedFor(names)) \in Message /\ Assistant(AskedFor(names)).run = run
    BY <1>1, AskedTyped, MessageTypes DEF Assistant, User
  <2>3. pc \in Talking /\ UNCHANGED <<saved, checkpoint, job, run>>
    BY <1>8 DEF Answer, machine, Talking
  <2> QED
    BY <1>7, <2>1, <2>2, <2>3
<1>9. CASE Call
  <2>1. PICK x \in Message : x = ToolResult(ReplyId(Head(calls)), Head(calls).name)
    BY <1>9, ReplyTyped DEF Call
  <2>2. x.run = run
    BY <2>1 DEF ToolResult, User
  <2>3. pc \in Talking /\ sess' = sess \o <<x>> /\ UNCHANGED <<saved, checkpoint, job, run>>
    BY <1>9, <2>1 DEF Call, Say, machine, Talking
  <2> QED
    BY <1>7, <2>2, <2>3
<1>10. CASE GenerateFails \/ CallFails
  BY <1>3, <1>10 DEF GenerateFails, CallFails, machine, talk, Talking
<1>11. CASE RemoveSession \/ SaveCheckpoint \/ GoOffline
  <2>1. pc' \notin Talking
    BY <1>11 DEF RemoveSession, SaveCheckpoint, GoOffline, Talking
  <2> QED
    BY <1>2, <2>1
<1>12. CASE UNCHANGED vars
  BY <1>3, <1>12 DEF vars, machine, talk
<1> QED
  BY <1>4, <1>5, <1>6, <1>8, <1>9, <1>10, <1>11, <1>12 DEF Next, Step, Over

(* Whatever a run writes to the session's file is the history it was       *)
(* given, less whole exchanges at its start when --trim asks, followed by  *)
(* its own exchange: nobody's turns are lost, repeated or reordered.       *)
THEOREM HistorySafe == Spec => HistoryKept
<1>1. Base /\ Goes /\ [Next]_vars => [saved' \notin {saved, NoFile} => Continues(saved'.messages, History)]_vars
  <2> SUFFICES ASSUME Base, Goes, Next, saved' \notin {saved, NoFile}
               PROVE  Continues(saved'.messages, History)
    OBVIOUS
  <2>1. Save \/ (Hang /\ pc = "save")
    BY DEF Next, Start, Step, Resolve, ResolveFails, Inject, InjectRefuses, InjectFails, Script, Install,
           InstallFails, Connect, ConnectFails, Abort, OpenSession, OpenFails, Answer,
           GenerateFails, Call, CallFails, Fails, Hang, Kill, RemoveSession, SaveCheckpoint,
           GoOffline, machine
  <2>2. saved' = File(sess, FALSE) /\ pc \in Talking
    BY <2>1 DEF Save, Hang, Transcript, Talking
  <2> QED
    BY <2>2 DEF Goes, File
<1> QED
  BY <1>1, InitGoes, GoesStep, Invariance0, PTL DEF Spec, HistoryKept

-----------------------------------------------------------------------------
(* How many results follow a turn: as many as there are until the next     *)
(* turn, or the end.                                                       *)
Follow(m, a, n) ==
  /\ n \in 0..Len(m) - a
  /\ \A i \in a + 1..a + n : m[i].role = "tool"
  /\ a + n < Len(m) => m[a + n + 1].role # "tool"

LEMMA ResultsFollow ==
  ASSUME NEW m \in Seq(Message), NEW a \in 1..Len(m)
  PROVE  Follow(m, a, Results(m, a))
<1>1. Len(m) \in Nat
  BY LenProperties
<1>2. PICK T \in SUBSET Nat : T = {i \in a + 1..Len(m) + 1 : i = Len(m) + 1 \/ m[i].role # "tool"}
  <2>1. {i \in a + 1..Len(m) + 1 : i = Len(m) + 1 \/ m[i].role # "tool"} \in SUBSET Nat
    BY <1>1
  <2> QED
    BY <2>1
<1>3. T # {}
  <2>1. Len(m) + 1 \in T
    BY <1>1, <1>2
  <2> QED
    BY <2>1
<1>4. PICK t \in T : \A u \in T : t <= u
  BY <1>3, HasLeast
<1>5. t \in a + 1..Len(m) + 1
  BY <1>2
<1>6. PICK n \in 0..Len(m) - a : n = t - a - 1
  BY <1>1, <1>5
<1>7. a + n < Len(m) => m[a + n + 1].role # "tool"
  BY <1>1, <1>2, <1>5, <1>6
<1>8. ASSUME NEW i \in a + 1..a + n
      PROVE  m[i].role = "tool"
  <2>1. i \in a + 1..Len(m) + 1 /\ i < t
    BY <1>1, <1>5, <1>6
  <2>2. i \notin T
    BY <1>4, <1>5, <2>1
  <2> QED
    BY <1>2, <2>1, <2>2
<1>9. \E k \in 0..Len(m) - a :
        /\ \A i \in a + 1..a + k : m[i].role = "tool"
        /\ a + k < Len(m) => m[a + k + 1].role # "tool"
  BY <1>7, <1>8
<1> QED
  BY ONLY <1>9 DEF Follow, Results

LEMMA FollowIsOne ==
  ASSUME NEW m, Len(m) \in Nat, NEW a \in 1..Len(m), NEW n, NEW k,
         Follow(m, a, n), Follow(m, a, k)
  PROVE  n = k
<1>1. /\ n \in Nat /\ a + n <= Len(m) /\ (\A i \in a + 1..a + n : m[i].role = "tool")
      /\ (a + n < Len(m) => m[a + n + 1].role # "tool")
  BY DEF Follow
<1>2. /\ k \in Nat /\ a + k <= Len(m) /\ (\A i \in a + 1..a + k : m[i].role = "tool")
      /\ (a + k < Len(m) => m[a + k + 1].role # "tool")
  BY DEF Follow
<1>3. ~(n < k)
  <2> SUFFICES ASSUME n < k PROVE FALSE
    OBVIOUS
  <2>1. a + n + 1 \in a + 1..a + k /\ a + n < Len(m)
    BY <1>1, <1>2
  <2> QED
    BY <1>1, <1>2, <2>1
<1>4. ~(k < n)
  <2> SUFFICES ASSUME k < n PROVE FALSE
    OBVIOUS
  <2>1. a + k + 1 \in a + 1..a + n /\ a + k < Len(m)
    BY <1>1, <1>2
  <2> QED
    BY <1>1, <1>2, <2>1
<1> QED
  BY <1>1, <1>2, <1>3, <1>4

(* One more message is one more result of the last turn, or no result.     *)
LEMMA ResultsGrow ==
  ASSUME NEW m \in Seq(Message), NEW x \in Message, NEW a \in 1..Len(m)
  PROVE  /\ Results(m, a) \in 0..Len(m) - a
         /\ x.role = "tool" /\ a + Results(m, a) = Len(m) =>
              Results(m \o <<x>>, a) = Results(m, a) + 1
         /\ ~(x.role = "tool" /\ a + Results(m, a) = Len(m)) =>
              Results(m \o <<x>>, a) = Results(m, a)
<1>1. PICK m2 \in Seq(Message) : /\ m2 = m \o <<x>> /\ Len(m2) = Len(m) + 1 /\ Len(m) \in Nat
                                 /\ m2[Len(m) + 1] = x /\ \A i \in 1..Len(m) : m2[i] = m[i]
  BY Says
<1>2. PICK n : n = Results(m, a) /\ Follow(m, a, n)
  BY ResultsFollow
<1>3. /\ n \in 0..Len(m) - a /\ (\A i \in a + 1..a + n : m[i].role = "tool")
      /\ (a + n < Len(m) => m[a + n + 1].role # "tool")
  BY <1>2 DEF Follow
<1>4. a \in 1..Len(m2) /\ Follow(m2, a, Results(m2, a)) /\ Len(m2) \in Nat
  <2>1. a \in 1..Len(m2) /\ Len(m2) \in Nat
    BY <1>1
  <2> QED
    BY <2>1, ResultsFollow
<1>5. CASE x.role = "tool" /\ a + n = Len(m)
  <2>1. Follow(m2, a, n + 1)
    BY <1>1, <1>3, <1>5 DEF Follow
  <2>2. Results(m2, a) = n + 1
    BY <1>4, <2>1, FollowIsOne
  <2> QED
    BY <1>1, <1>2, <1>3, <1>5, <2>2
<1>6. CASE ~(x.role = "tool" /\ a + n = Len(m))
  <2>1. \A i \in a + 1..a + n : m2[i].role = "tool"
    BY <1>1, <1>3
  <2>2. a + n < Len(m2) => m2[a + n + 1].role # "tool"
    <3>1. CASE a + n = Len(m)
      BY <1>1, <1>6, <3>1
    <3>2. CASE a + n < Len(m)
      <4>1. a + n + 1 \in 1..Len(m)
        BY <1>1, <1>3, <3>2
      <4> QED
        BY <1>1, <1>3, <3>2, <4>1
    <3> QED
      BY <1>1, <1>3, <3>1, <3>2
  <2>3. n \in 0..Len(m2) - a
    BY <1>1, <1>3
  <2>4. Follow(m2, a, n)
    BY <2>1, <2>2, <2>3 DEF Follow
  <2>5. Results(m2, a) = n
    BY <1>4, <2>4, FollowIsOne
  <2> QED
    BY <1>1, <1>2, <1>3, <1>6, <2>5
<1> QED
  BY <1>5, <1>6

LEMMA ResultsLast ==
  ASSUME NEW m \in Seq(Message), NEW a \in 1..Len(m), a = Len(m)
  PROVE  Results(m, a) = 0
BY ResultsFollow, LenProperties DEF Follow

LEMMA ResultsAfter ==
  ASSUME NEW m \in Seq(Message), NEW first \in 1..Len(m), NEW a \in 1..Len(m) - first + 1
  PROVE  /\ Results(SubSeq(m, first, Len(m)), a) = Results(m, a + first - 1)
         /\ a + first - 1 \in 1..Len(m)
<1>1. Len(m) \in Nat /\ Len(m) <= Len(m) /\ first \in Nat \ {0}
  BY LenProperties
<1>2. PICK m2 \in Seq(Message) :
        /\ m2 = SubSeq(m, first, Len(m)) /\ Len(m2) = Len(m) - first + 1
        /\ \A i \in 1..Len(m) - first + 1 : m2[i] = m[first + i - 1]
  <2>1. /\ SubSeq(m, first, Len(m)) \in Seq(Message)
        /\ Len(SubSeq(m, first, Len(m))) = Len(m) - first + 1
        /\ \A i \in 1..Len(m) - first + 1 : SubSeq(m, first, Len(m))[i] = m[first + i - 1]
    BY <1>1, PartOf
  <2> QED
    BY <2>1
<1>3. a + first - 1 \in 1..Len(m) /\ a \in 1..Len(m2) /\ Len(m2) \in Nat
  BY <1>1, <1>2
<1>4. PICK n : n = Results(m, a + first - 1) /\ Follow(m, a + first - 1, n)
  BY <1>3, ResultsFollow
<1>5. Follow(m2, a, n)
  <2>1. /\ n \in 0..Len(m) - (a + first - 1)
        /\ (\A i \in a + first - 1 + 1..a + first - 1 + n : m[i].role = "tool")
        /\ (a + first - 1 + n < Len(m) => m[a + first - 1 + n + 1].role # "tool")
    BY <1>4 DEF Follow
  <2>2. n \in 0..Len(m2) - a
    BY <1>1, <1>2, <1>3, <2>1
  <2>3. ASSUME NEW i \in a + 1..a + n PROVE m2[i].role = "tool"
    <3>1. i \in 1..Len(m) - first + 1 /\ first + i - 1 \in a + first - 1 + 1..a + first - 1 + n
      BY <1>1, <1>2, <2>2
    <3> QED
      BY <1>2, <2>1, <3>1
  <2>4. ASSUME a + n < Len(m2) PROVE m2[a + n + 1].role # "tool"
    <3>1. /\ a + n + 1 \in 1..Len(m) - first + 1 /\ first + (a + n + 1) - 1 = a + first - 1 + n + 1
          /\ a + first - 1 + n < Len(m)
      BY <1>1, <1>2, <2>2, <2>4
    <3> QED
      BY <1>2, <2>1, <3>1
  <2> QED
    BY <2>2, <2>3, <2>4 DEF Follow
<1>6. Follow(m2, a, Results(m2, a))
  BY <1>3, ResultsFollow
<1> QED
  BY <1>2, <1>3, <1>4, <1>5, <1>6, FollowIsOne

-----------------------------------------------------------------------------
(* What keeps a conversation whole.                                        *)
LEMMA FitsMore ==
  ASSUME NEW m, NEW a, NEW runs, NEW more, runs \subseteq more, Fits(m, a, runs)
  PROVE  Fits(m, a, more)
BY DEF Fits

LEMMA TurnsGrow ==
  ASSUME NEW m \in Seq(Message), NEW x \in Message
  PROVE  /\ Turns(m) \subseteq 1..Len(m) /\ DOMAIN m = 1..Len(m)
         /\ Turns(m \o <<x>>) = Turns(m) \cup (IF x.role = "tool" THEN {} ELSE {Len(m) + 1})
<1>1. PICK m2 \in Seq(Message) : /\ m2 = m \o <<x>> /\ Len(m2) = Len(m) + 1 /\ Len(m) \in Nat
                                 /\ m2[Len(m) + 1] = x /\ \A i \in 1..Len(m) : m2[i] = m[i]
  BY Says
<1>2. DOMAIN m = 1..Len(m) /\ DOMAIN m2 = 1..Len(m) + 1
  BY <1>1, LenProperties
<1>3. \A i \in 1..Len(m) + 1 : i \in 1..Len(m) \/ i = Len(m) + 1
  BY <1>1
<1>4. Turns(m) \subseteq 1..Len(m)
  BY <1>2 DEF Turns
<1>5. ASSUME NEW i \in Turns(m2)
      PROVE  i \in Turns(m) \cup (IF x.role = "tool" THEN {} ELSE {Len(m) + 1})
  BY <1>1, <1>2, <1>3, <1>5 DEF Turns
<1>6. ASSUME NEW i \in Turns(m) \cup (IF x.role = "tool" THEN {} ELSE {Len(m) + 1})
      PROVE  i \in Turns(m2)
  <2>1. CASE i \in Turns(m)
    BY <1>1, <1>2, <1>4, <2>1 DEF Turns
  <2>2. CASE i = Len(m) + 1 /\ x.role # "tool"
    BY <1>1, <1>2, <2>2 DEF Turns
  <2> QED
    BY <1>6, <2>1, <2>2
<1> QED
  BY <1>1, <1>2, <1>4, <1>5, <1>6

LEMMA CallsTyped ==
  ASSUME NEW m \in Seq(Message), NEW a \in 1..Len(m)
  PROVE  m[a].calls \in Seq(ToolCall) /\ Len(m[a].calls) \in Nat /\ Len(m) \in Nat
<1>1. m[a] \in Message
  BY ElementOfSeq
<1>2. m[a].calls \in Seq(ToolCall)
  BY <1>1 DEF Message
<1> QED
  BY <1>2, LenProperties

LEMMA FitsGrow ==
  ASSUME NEW m \in Seq(Message), NEW x \in Message, NEW a \in 1..Len(m), NEW runs,
         Fits(m, a, runs),
         a + Results(m, a) = Len(m) =>
           x.role # "tool" /\ (Results(m, a) < Len(m[a].calls) => x.role = "user")
  PROVE  Fits(m \o <<x>>, a, runs)
<1>1. PICK m2 \in Seq(Message) : /\ m2 = m \o <<x>> /\ Len(m2) = Len(m) + 1 /\ Len(m) \in Nat
                                 /\ m2[Len(m) + 1] = x /\ \A i \in 1..Len(m) : m2[i] = m[i]
  BY Says
<1>2. PICK n : n = Results(m, a)
  OBVIOUS
<1>3. n \in 0..Len(m) - a /\ Results(m2, a) = n
  BY <1>1, <1>2, ResultsGrow
<1>4. /\ n <= Len(m[a].calls) /\ (\A k \in 1..n : Answers(m[a + k], m[a].calls[k]))
      /\ n < Len(m[a].calls) => /\ a + n < Len(m) => m[a + n + 1].role = "user"
                                /\ m[a].run \in runs
  BY <1>2 DEF Fits
<1>5. m2[a] = m[a]
  BY <1>1
<1>6. \A k \in 1..n : m2[a + k] = m[a + k]
  <2>1. \A k \in 1..n : a + k \in 1..Len(m)
    BY <1>1, <1>3
  <2> QED
    BY <1>1, <2>1
<1>7. ASSUME n < Len(m[a].calls), a + n < Len(m2)
      PROVE  m2[a + n + 1].role = "user"
  <2>1. CASE a + n = Len(m)
    BY <1>1, <1>2, <1>7, <2>1
  <2>2. CASE a + n < Len(m)
    <3>1. a + n + 1 \in 1..Len(m)
      BY <1>1, <1>3, <2>2
    <3> QED
      BY <1>1, <1>4, <1>7, <2>2, <3>1
  <2> QED
    BY <1>1, <1>3, <2>1, <2>2
<1>8. Fits(m2, a, runs)
  BY <1>3, <1>4, <1>5, <1>6, <1>7 DEF Fits
<1> QED
  BY <1>1, <1>8

LEMMA FitsLast ==
  ASSUME NEW m \in Seq(Message), NEW x \in Message, NEW runs,
         x.calls = <<>> \/ x.run \in runs
  PROVE  Fits(m \o <<x>>, Len(m) + 1, runs) /\ Results(m \o <<x>>, Len(m) + 1) = 0
<1>1. PICK m2 \in Seq(Message) : /\ m2 = m \o <<x>> /\ Len(m2) = Len(m) + 1 /\ Len(m) \in Nat
                                 /\ m2[Len(m) + 1] = x
  BY Says
<1>2. Len(m) + 1 \in 1..Len(m2)
  BY <1>1
<1>3. Results(m2, Len(m) + 1) = 0
  BY <1>1, <1>2, ResultsLast
<1>4. Len(x.calls) \in Nat /\ (x.calls = <<>> => Len(x.calls) = 0)
  BY <1>1, <1>2, CallsTyped, EmptySeq
<1> QED
  BY <1>1, <1>3, <1>4 DEF Fits

(* Turns that end an exchange may follow whatever is whole, others only    *)
(* where nothing is open.                                                  *)
LEMMA WholeGrows ==
  ASSUME NEW m \in Seq(Message), NEW x \in Message, NEW runs, WellFormed(m, runs),
         x.role = "user" \/ (x.role = "assistant" /\ Settled(m) /\ m # <<>>)
  PROVE  /\ \A a \in Turns(m) : Fits(m \o <<x>>, a, runs)
         /\ (m \o <<x>>)[1].role = "user"
         /\ Turns(m \o <<x>>) = Turns(m) \cup {Len(m) + 1}
         /\ \A a \in Turns(m) : a + Results(m \o <<x>>, a) < Len(m \o <<x>>)
<1>1. x.role # "tool" /\ Turns(m) \subseteq 1..Len(m)
  BY TurnsGrow
<1>2. ASSUME NEW a \in Turns(m) PROVE Fits(m \o <<x>>, a, runs)
  <2>1. Fits(m, a, runs) /\ a \in 1..Len(m)
    BY <1>1 DEF WellFormed
  <2>2. a + Results(m, a) = Len(m) =>
          x.role # "tool" /\ (Results(m, a) < Len(m[a].calls) => x.role = "user")
    <3>1. Len(m[a].calls) \in Nat /\ ~(Len(m[a].calls) < Len(m[a].calls))
      BY <2>1, CallsTyped
    <3> QED
      BY <1>1, <2>1, <3>1 DEF Settled
  <2> QED
    BY <2>1, <2>2, FitsGrow
<1>3. (m \o <<x>>)[1].role = "user"
  <2>1. /\ Len(m) \in Nat /\ (m \o <<x>>)[Len(m) + 1] = x
        /\ \A i \in 1..Len(m) : (m \o <<x>>)[i] = m[i]
    BY Says
  <2>2. CASE m = <<>>
    BY <2>1, <2>2, EmptySeq
  <2>3. CASE m # <<>>
    <3>1. 1 \in 1..Len(m)
      BY <2>1, <2>3, EmptySeq
    <3> QED
      BY <2>1, <2>3, <3>1 DEF WellFormed
  <2> QED
    BY <2>2, <2>3
<1>4. ASSUME NEW a \in Turns(m) PROVE a + Results(m \o <<x>>, a) < Len(m \o <<x>>)
  <2>1. Results(m \o <<x>>, a) = Results(m, a) /\ Results(m, a) \in 0..Len(m) - a /\ a \in 1..Len(m)
    BY <1>1, ResultsGrow
  <2>2. Len(m \o <<x>>) = Len(m) + 1 /\ Len(m) \in Nat
    BY Says
  <2> QED
    BY <2>1, <2>2
<1> QED
  BY <1>1, <1>2, <1>3, <1>4, TurnsGrow

LEMMA WholeEnds ==
  ASSUME NEW m \in Seq(Message), NEW x \in Message, NEW runs, WellFormed(m, runs),
         x.role = "user" \/ (x.role = "assistant" /\ Settled(m) /\ m # <<>>),
         x.calls = <<>> \/ x.run \in runs
  PROVE  WellFormed(m \o <<x>>, runs) /\ (x.calls = <<>> => Settled(m \o <<x>>))
<1>1. \A a \in Turns(m \o <<x>>) : Fits(m \o <<x>>, a, runs)
  <2>1. (\A a \in Turns(m) : Fits(m \o <<x>>, a, runs)) /\ Turns(m \o <<x>>) = Turns(m) \cup {Len(m) + 1}
    BY WholeGrows
  <2>2. Fits(m \o <<x>>, Len(m) + 1, runs)
    BY FitsLast
  <2> QED
    BY ONLY <2>1, <2>2
<1>2. WellFormed(m \o <<x>>, runs)
  BY <1>1, WholeGrows DEF WellFormed
<1>3. ASSUME x.calls = <<>> PROVE Settled(m \o <<x>>)
  <2>1. Len(m \o <<x>>) = Len(m) + 1 /\ Len(m) \in Nat /\ (m \o <<x>>)[Len(m) + 1] = x
    BY Says
  <2>2. \A a \in Turns(m) : a + Results(m \o <<x>>, a) # Len(m \o <<x>>)
    <3>1. \A a \in Turns(m) : a + Results(m \o <<x>>, a) < Len(m \o <<x>>)
      BY WholeGrows
    <3>2. \A a \in Turns(m) : a \in Nat /\ Results(m \o <<x>>, a) \in Int
      <4>1. ASSUME NEW a \in Turns(m) PROVE a \in Nat /\ Results(m \o <<x>>, a) \in Int
        <5>1. a \in 1..Len(m)
          BY TurnsGrow
        <5>2. Results(m, a) \in 0..Len(m) - a /\ Results(m \o <<x>>, a) = Results(m, a)
          BY <5>1, ResultsGrow
        <5> QED
          BY <2>1, <5>1, <5>2
      <4> QED
        BY <4>1
    <3> QED
      BY <2>1, <3>1, <3>2
  <2>3. Results(m \o <<x>>, Len(m) + 1) = 0 /\ Len(x.calls) = 0
    BY <1>3, FitsLast, EmptySeq
  <2> QED
    BY <2>1, <2>2, <2>3, WholeGrows DEF Settled
<1> QED
  BY <1>2, <1>3

LEMMA WholeAfter ==
  ASSUME NEW m \in Seq(Message), NEW runs, WellFormed(m, runs),
         NEW first \in 1..Len(m), m[first].role = "user"
  PROVE  WellFormed(SubSeq(m, first, Len(m)), runs)
<1>1. Len(m) \in Nat /\ Len(m) <= Len(m) /\ first \in Nat \ {0} /\ DOMAIN m = 1..Len(m)
  BY LenProperties
<1>2. PICK m2 \in Seq(Message) :
        /\ m2 = SubSeq(m, first, Len(m)) /\ Len(m2) = Len(m) - first + 1
        /\ \A i \in 1..Len(m) - first + 1 : m2[i] = m[first + i - 1]
  <2>1. /\ SubSeq(m, first, Len(m)) \in Seq(Message)
        /\ Len(SubSeq(m, first, Len(m))) = Len(m) - first + 1
        /\ \A i \in 1..Len(m) - first + 1 : SubSeq(m, first, Len(m))[i] = m[first + i - 1]
    BY <1>1, PartOf
  <2> QED
    BY <2>1
<1>3. m2[1].role = "user"
  BY <1>1, <1>2
<1>4. ASSUME NEW a \in Turns(m2) PROVE Fits(m2, a, runs)
  <2>1. a \in 1..Len(m) - first + 1 /\ m2[a].role # "tool"
    BY <1>2, LenProperties DEF Turns
  <2>2. PICK b \in 1..Len(m) : b = a + first - 1
    BY <2>1, ResultsAfter
  <2>3. m2[a] = m[b] /\ Fits(m, b, runs)
    BY <1>1, <1>2, <2>1, <2>2 DEF WellFormed, Turns
  <2>4. PICK n : n = Results(m2, a) /\ n = Results(m, b)
    BY <1>2, <2>1, <2>2, ResultsAfter
  <2>5. n \in 0..Len(m) - b
    BY <2>2, <2>4, ResultsFollow DEF Follow
  <2>6. /\ n <= Len(m[b].calls) /\ (\A k \in 1..n : Answers(m[b + k], m[b].calls[k]))
        /\ n < Len(m[b].calls) => /\ b + n < Len(m) => m[b + n + 1].role = "user"
                                  /\ m[b].run \in runs
    BY <2>3, <2>4 DEF Fits
  <2>7. \A k \in 1..n : m2[a + k] = m[b + k]
    <3>1. \A k \in 1..n : a + k \in 1..Len(m) - first + 1 /\ first + (a + k) - 1 = b + k
      BY <1>1, <2>1, <2>2, <2>5
    <3> QED
      BY <1>2, <3>1
  <2>8. a + n < Len(m2) => b + n < Len(m) /\ m2[a + n + 1] = m[b + n + 1]
    <3>1. a + n < Len(m2) => a + n + 1 \in 1..Len(m) - first + 1 /\ first + (a + n + 1) - 1 = b + n + 1
                             /\ b + n < Len(m)
      BY <1>1, <1>2, <2>1, <2>2, <2>5
    <3> QED
      BY <1>2, <3>1
  <2> QED
    BY <2>3, <2>4, <2>6, <2>7, <2>8 DEF Fits
<1> QED
  BY <1>2, <1>3, <1>4 DEF WellFormed

LEMMA WholeTrimmed ==
  ASSUME NEW m \in Seq(Message), NEW n \in Nat, NEW runs, WellFormed(m, runs)
  PROVE  WellFormed(Trimmed(m, n), runs)
<1>1. \A first \in 2..Len(m) : m[first].role = "user" => WellFormed(SubSeq(m, first, Len(m)), runs)
  BY WholeAfter, LenProperties
<1> QED
  BY <1>1, TrimmedIs

LEMMA WholeMore ==
  ASSUME NEW m, NEW runs, NEW more, runs \subseteq more, WellFormed(m, runs)
  PROVE  WellFormed(m, more)
BY FitsMore DEF WellFormed

LEMMA WholeNothing ==
  ASSUME NEW runs
  PROVE  WellFormed(<<>>, runs)
BY DEF WellFormed, Turns

LEMMA InitWhole == Init => Whole
<1> SUFFICES ASSUME Init PROVE Whole
  OBVIOUS
<1>1. WellFormed(saved.messages, {0})
  BY CallsAssumption, WholeNothing DEF Init, NoFile, File
<1>2. WellFormed(checkpoint.messages, {0}) /\ WellFormed(sess, {0})
  BY WholeNothing DEF Init, NoFile
<1> QED
  BY <1>1, <1>2 DEF Init, Whole

(* Of the turns, only one has its results at the end.                      *)
LEMMA OneAtTheEnd ==
  ASSUME NEW m \in Seq(Message), NEW a \in Turns(m), a + Results(m, a) = Len(m),
         NEW b \in Turns(m), b # a
  PROVE  b + Results(m, b) # Len(m)
<1>1. a \in 1..Len(m) /\ b \in 1..Len(m) /\ Len(m) \in Nat
  BY LenProperties DEF Turns
<1>2. /\ Results(m, a) \in 0..Len(m) - a /\ Results(m, b) \in 0..Len(m) - b
      /\ \A i \in a + 1..a + Results(m, a) : m[i].role = "tool"
      /\ \A i \in b + 1..b + Results(m, b) : m[i].role = "tool"
  BY <1>1, ResultsFollow DEF Follow
<1>3. CASE a < b
  BY <1>1, <1>2, <1>3 DEF Turns
<1>4. CASE b < a
  <2> SUFFICES ASSUME b + Results(m, b) = Len(m) PROVE FALSE
    OBVIOUS
  <2>1. a \in b + 1..b + Results(m, b)
    BY <1>1, <1>2, <1>4
  <2> QED
    BY <1>2, <2>1 DEF Turns
<1> QED
  BY <1>1, <1>3, <1>4

LEMMA AnswerWhole ==
  ASSUME Base, Whole, Answer
  PROVE  Whole'
<1>1. /\ pc = "generate" /\ sess \in Seq(Message) /\ sess # <<>> /\ Settled(sess)
      /\ WellFormed(sess, failed) /\ UNCHANGED <<saved, checkpoint, run>>
  BY DEF Base, Talk, Whole, Answer, machine
<1>2. PICK names \in Calls :
        /\ sess' = sess \o <<Assistant(AskedFor(names))>>
        /\ \/ AskedFor(names) = <<>> /\ pc' = "save" /\ failed' = failed
           \/ AskedFor(names) # <<>> /\ pc' = "save" /\ failed' = failed \cup {run}
           \/ pc' = "calls" /\ calls' = AskedFor(names) /\ failed' = failed
  BY DEF Answer, AskedFor, Say
<1>3. PICK x \in Message : /\ x = Assistant(AskedFor(names)) /\ x.role = "assistant"
                           /\ x.calls = AskedFor(names) /\ x.run = run
  <2>1. Assistant(AskedFor(names)) \in Message
    BY AskedTyped, MessageTypes DEF Base
  <2> QED
    BY <2>1 DEF Assistant, User
<1>4. WellFormed(saved.messages, failed') /\ WellFormed(checkpoint.messages, failed')
  <2>1. failed \subseteq failed'
    BY <1>2
  <2> QED
    BY <2>1, WholeMore DEF Whole
<1>5. CASE pc' = "save"
  <2>1. failed \subseteq failed' /\ (x.calls = <<>> \/ x.run \in failed')
    BY <1>2, <1>3, <1>5
  <2>2. WellFormed(sess, failed')
    BY <1>1, <2>1, WholeMore
  <2>3. WellFormed(sess', failed')
    BY <1>1, <1>2, <1>3, <2>1, <2>2, WholeEnds
  <2> QED
    BY <1>1, <1>4, <1>5, <2>3 DEF Whole
<1>6. CASE pc' = "calls"
  <2>1. failed' = failed /\ calls' = x.calls /\ sess' = sess \o <<x>>
    BY <1>2, <1>3, <1>6
  <2>2. PICK m \in Seq(Message) : /\ m = sess' /\ m = sess \o <<x>> /\ Len(m) = Len(sess) + 1
                                  /\ Len(sess) \in Nat /\ m[Len(sess) + 1] = x
    BY <1>1, <2>1, Says
  <2>3. /\ \A b \in Turns(sess) : Fits(m, b, failed)
        /\ m[1].role = "user" /\ Turns(m) = Turns(sess) \cup {Len(sess) + 1}
    BY <1>1, <1>3, <2>2, WholeGrows
  <2>4. Results(m, Len(sess) + 1) = 0
    <3>1. Len(sess) + 1 \in 1..Len(m) /\ Len(sess) + 1 = Len(m)
      BY <2>2
    <3> QED
      BY ONLY <3>1, m \in Seq(Message), ResultsLast
  <2>5. x.calls = SubSeq(x.calls, 0 + 1, Len(x.calls)) /\ Len(x.calls) \in Nat
    BY SubSeqFull, LenProperties DEF Message
  <2>6. PICK a \in DOMAIN m : a = Len(sess) + 1
    BY <2>2, LenProperties
  <2>7. /\ a \in Turns(m) /\ a + Results(m, a) = Len(m) /\ m[a].run = run' /\ Results(m, a) = 0
        /\ calls' = SubSeq(m[a].calls, 0 + 1, Len(m[a].calls)) /\ 0 <= Len(m[a].calls)
        /\ \A b \in Turns(m) \ {a} : Fits(m, b, failed')
    BY <1>1, <1>3, <2>1, <2>2, <2>3, <2>4, <2>5, <2>6
  <2>8. AsksAt(m, a)'
    BY <2>7 DEF AsksAt
  <2> QED
    BY <1>1, <1>4, <1>6, <2>2, <2>3, <2>8 DEF Whole
<1> QED
  BY <1>2, <1>5, <1>6

LEMMA CallWhole ==
  ASSUME Base, Whole, Call
  PROVE  Whole'
<1>1. /\ pc = "calls" /\ sess \in Seq(Message) /\ calls \in Seq(ToolCall) /\ calls # <<>>
      /\ UNCHANGED <<saved, checkpoint, run, failed>> /\ calls' = Tail(calls)
      /\ \/ Tail(calls) = <<>> /\ pc' = "generate"
         \/ Tail(calls) # <<>> /\ pc' = "calls"
  BY DEF Base, Talk, Call, machine, ends
<1>2. PICK a \in DOMAIN sess : AsksAt(sess, a)
  BY <1>1 DEF Whole
<1>3. PICK n : n = Results(sess, a)
  OBVIOUS
<1>4. /\ a \in Turns(sess) /\ a + n = Len(sess) /\ sess[a].run = run /\ n <= Len(sess[a].calls)
      /\ \A k \in 1..n : Answers(sess[a + k], sess[a].calls[k])
      /\ calls = SubSeq(sess[a].calls, n + 1, Len(sess[a].calls))
      /\ \A b \in Turns(sess) \ {a} : Fits(sess, b, failed)
  BY <1>2, <1>3 DEF AsksAt
<1>5. a \in 1..Len(sess) /\ Len(sess) \in Nat /\ n \in 0..Len(sess) - a
  BY <1>1, <1>3, LenProperties, ResultsFollow DEF Follow
<1>6. PICK cs \in Seq(ToolCall) : cs = sess[a].calls /\ Len(cs) \in Nat
  BY <1>1, <1>5, CallsTyped
<1>7. /\ n + 1 <= Len(cs) /\ Head(calls) = cs[n + 1] /\ Tail(calls) = SubSeq(cs, n + 2, Len(cs))
      /\ (Tail(calls) = <<>> => n + 1 = Len(cs))
  <2>1. n + 1 <= Len(cs)
    BY <1>1, <1>4, <1>5, <1>6, SubSeqEmpty
  <2>2. n + 1 \in 1..Len(cs) /\ Len(cs) \in n + 1..Len(cs)
    BY <1>5, <1>6, <2>1
  <2>3. Head(calls) = cs[n + 1] /\ Tail(calls) = SubSeq(cs, n + 1 + 1, Len(cs))
    BY <1>4, <1>6, <2>2, HeadTailOfSubSeq
  <2>4. n + 1 + 1 = n + 2
    BY <1>5
  <2>5. n + 1 < Len(cs) => SubSeq(cs, n + 2, Len(cs)) # <<>>
    <3>1. n + 2 \in Nat \ {0} /\ Len(cs) <= Len(cs)
      BY <1>5, <1>6
    <3>2. n + 1 < Len(cs) => Len(SubSeq(cs, n + 2, Len(cs))) # 0
      BY <1>5, <1>6, <3>1, PartOf
    <3> QED
      BY <3>2, EmptySeq
  <2> QED
    BY <1>5, <1>6, <2>1, <2>3, <2>4, <2>5
<1>8. PICK x \in Message : /\ sess' = sess \o <<x>> /\ x.role = "tool" /\ Answers(x, cs[n + 1])
  <2>1. ToolResult(ReplyId(Head(calls)), Head(calls).name) \in Message
    BY <1>1, ReplyTyped
  <2>2. sess' = sess \o <<ToolResult(ReplyId(Head(calls)), Head(calls).name)>>
    BY DEF Call, Say
  <2>3. Answers(ToolResult(ReplyId(Head(calls)), Head(calls).name), Head(calls))
    <3>1. PICK i : i = ReplyId(Head(calls))
      OBVIOUS
    <3>2. i # <<>> /\ (Head(calls).id # <<>> => i = Head(calls).id)
      BY <3>1 DEF ReplyId
    <3>3. /\ ToolResult(i, Head(calls).name).id = i
          /\ ToolResult(i, Head(calls).name).name = Head(calls).name
      BY DEF ToolResult, User
    <3> QED
      BY <3>1, <3>2, <3>3 DEF Answers
  <2>4. ToolResult(ReplyId(Head(calls)), Head(calls).name).role = "tool"
    BY DEF ToolResult, User
  <2> QED
    BY <1>7, <2>1, <2>2, <2>3, <2>4
<1>9. PICK m \in Seq(Message) : /\ m = sess' /\ m = sess \o <<x>> /\ Len(m) = Len(sess) + 1
                                /\ m[Len(sess) + 1] = x /\ \A i \in 1..Len(sess) : m[i] = sess[i]
  BY <1>1, <1>8, Says
<1>10. Turns(m) = Turns(sess) /\ Turns(m) \subseteq 1..Len(sess)
  <2>1. /\ Turns(sess) \subseteq 1..Len(sess)
        /\ Turns(sess \o <<x>>) = Turns(sess) \cup (IF x.role = "tool" THEN {} ELSE {Len(sess) + 1})
    BY <1>1, TurnsGrow
  <2> QED
    BY <1>8, <1>9, <2>1
<1>11. Results(m, a) = n + 1
  BY <1>1, <1>3, <1>4, <1>5, <1>8, <1>9, ResultsGrow
<1>12. \A b \in Turns(m) \ {a} : Fits(m, b, failed)
  <2>1. ASSUME NEW b \in Turns(m) \ {a} PROVE Fits(m, b, failed)
    <3>1. b \in Turns(sess) /\ b \in 1..Len(sess) /\ Fits(sess, b, failed)
      BY <1>4, <1>10
    <3>2. b + Results(sess, b) # Len(sess)
      BY <1>1, <1>3, <1>4, <3>1, OneAtTheEnd
    <3> QED
      BY <1>1, <1>9, <3>1, <3>2, FitsGrow
  <2> QED
    BY <2>1
<1>13. \A k \in 1..n + 1 : Answers(m[a + k], cs[k])
  <2>1. ASSUME NEW k \in 1..n PROVE Answers(m[a + k], cs[k])
    <3>1. a + k \in 1..Len(sess)
      BY <1>4, <1>5
    <3> QED
      BY <1>4, <1>6, <1>9, <3>1
  <2>2. m[a + (n + 1)] = x
    BY <1>4, <1>5, <1>9
  <2>3. \A k \in 1..n + 1 : k \in 1..n \/ k = n + 1
    BY <1>5
  <2> QED
    BY <1>8, <2>1, <2>2, <2>3
<1>14. a + (n + 1) = Len(m) /\ m[a] = sess[a] /\ m[1] = sess[1]
  <2>1. 1 \in 1..Len(sess) /\ a \in 1..Len(sess)
    BY <1>5
  <2>2. m[a] = sess[a] /\ m[1] = sess[1]
    BY <1>9, <2>1
  <2> QED
    BY <1>4, <1>5, <1>9, <2>2
<1>15. sess[1].role = "user" /\ WellFormed(saved.messages, failed) /\ WellFormed(checkpoint.messages, failed)
  BY <1>1 DEF Whole
<1>16. CASE Tail(calls) = <<>>
  <2>1. n + 1 = Len(cs) /\ pc' = "generate"
    BY <1>1, <1>7, <1>16
  <2>2. Fits(m, a, failed)
    BY <1>6, <1>11, <1>13, <1>14, <2>1 DEF Fits
  <2>3. WellFormed(m, failed)
    BY <1>12, <1>14, <1>15, <2>2 DEF WellFormed
  <2>4. Settled(m)
    <3>1. \A b \in Turns(m) \ {a} : b + Results(m, b) # Len(m)
      BY <1>4, <1>10, <1>11, <1>14, OneAtTheEnd
    <3> QED
      BY <1>6, <1>11, <1>14, <2>1, <3>1 DEF Settled
  <2>5. WellFormed(sess', failed') /\ Settled(sess')
    BY <1>1, <1>9, <2>3, <2>4
  <2>6. Settled(sess)'
    BY <2>5 DEF Settled, Turns, Results
  <2> QED
    BY <1>1, <1>15, <2>1, <2>5, <2>6 DEF Whole
<1>17. CASE Tail(calls) # <<>>
  <2>1. AsksAt(m, a)'
    <3>1. n + 1 + 1 = n + 2
      BY <1>5
    <3>2. calls' = SubSeq(m[a].calls, Results(m, a) + 1, Len(m[a].calls))
      BY <1>1, <1>6, <1>7, <1>11, <1>14, <3>1
    <3>3. Results(m, a) <= Len(m[a].calls) /\ a \in Turns(m)
      BY <1>4, <1>6, <1>7, <1>10, <1>11, <1>14
    <3>4. \A k \in 1..Results(m, a) : Answers(m[a + k], m[a].calls[k])
      BY <1>6, <1>11, <1>13, <1>14
    <3>5. a + Results(m, a) = Len(m) /\ m[a].run = run' /\ \A b \in Turns(m) \ {a} : Fits(m, b, failed')
      BY <1>1, <1>4, <1>11, <1>12, <1>14
    <3> QED
      BY <3>2, <3>3, <3>4, <3>5 DEF AsksAt
  <2>2. a \in DOMAIN m /\ m[1].role = "user"
    BY <1>14, <1>15, <1>10, <1>4 DEF Turns
  <2> QED
    BY <1>1, <1>9, <1>15, <1>17, <2>1, <2>2 DEF Whole
<1> QED
  BY <1>16, <1>17

LEMMA CallFailsWhole ==
  ASSUME Base, Whole, CallFails
  PROVE  Whole'
<1>1. /\ pc = "calls" /\ sess \in Seq(Message) /\ pc' = "save" /\ failed' = failed \cup {run}
      /\ UNCHANGED <<saved, checkpoint, sess>>
  BY DEF Base, Talk, CallFails, machine
<1>2. PICK a \in DOMAIN sess : AsksAt(sess, a) /\ sess[1].role = "user"
  BY <1>1 DEF Whole
<1>3. Fits(sess, a, failed')
  <2>1. a + Results(sess, a) = Len(sess) /\ ~(Len(sess) < Len(sess))
    BY <1>1, <1>2, LenProperties DEF AsksAt
  <2>2. sess[a].run \in failed'
    BY <1>1, <1>2 DEF AsksAt
  <2> QED
    BY <1>2, <2>1, <2>2 DEF AsksAt, Fits
<1>4. \A b \in Turns(sess) \ {a} : Fits(sess, b, failed')
  BY <1>1, <1>2, FitsMore DEF AsksAt
<1>5. WellFormed(sess, failed')
  BY <1>2, <1>3, <1>4 DEF WellFormed
<1>6. WellFormed(saved.messages, failed') /\ WellFormed(checkpoint.messages, failed')
  BY <1>1, WholeMore DEF Whole
<1> QED
  BY <1>1, <1>5, <1>6 DEF Whole

LEMMA OpenWhole ==
  ASSUME Base, Whole, OpenSession
  PROVE  Whole'
<1>1. /\ sess' = Append(Trimmed(History, job.trim), User) /\ pc' = "generate"
      /\ UNCHANGED <<saved, checkpoint, failed>>
  BY DEF OpenSession, machine, ends
<1>2. PICK m \in Seq(Message) : m = Trimmed(History, job.trim) /\ WellFormed(m, failed)
  <2>1. WellFormed(History, failed)
    BY WholeNothing DEF History, Whole
  <2>2. job.trim \in Nat /\ History \in Seq(Message)
    BY ConstantsAssumption, HistoryTyped DEF Base, Stage
  <2> QED
    BY <2>1, <2>2, WholeTrimmed, TrimmedTyped
<1>3. PICK x \in Message : x = User /\ x.role = "user" /\ x.calls = <<>>
  BY MessageTypes DEF Base, User
<1>4. sess' = m \o <<x>>
  BY <1>1, <1>2, <1>3, Says
<1>5. WellFormed(sess', failed) /\ Settled(sess')
  BY <1>2, <1>3, <1>4, WholeEnds
<1>6. Settled(sess)'
  BY <1>5 DEF Settled, Turns, Results
<1> QED
  BY <1>1, <1>5, <1>6 DEF Whole

LEMMA EndsWhole ==
  ASSUME Base, Whole, Over \/ Kill \/ Hang
  PROVE  Whole'
<1>1. /\ pc' \in {"idle", "hung"} /\ sess' = <<>> /\ checkpoint' = checkpoint
      /\ failed \subseteq failed'
  <2>1. CASE Over
    <3>1. UNCHANGED checkpoint
      BY <2>1 DEF Over, ResolveFails, InjectRefuses, InjectFails, Script, ConnectFails, Abort,
                  OpenFails, Save, Fails, machine
    <3> QED
      BY <2>1, <3>1, OverLeaves DEF Blank, Forget
  <2>2. CASE Kill \/ Hang
    BY <2>2 DEF Kill, Hang, Forget, ends
  <2> QED
    BY <2>1, <2>2
<1>2. saved' = saved \/ (saved' = File(sess, FALSE) /\ pc = "save")
  BY DEF Over, ResolveFails, InjectRefuses, InjectFails, Script, ConnectFails, Abort, OpenFails, Save,
         Fails, machine, Kill, Hang, Transcript
<1>3. WellFormed(saved'.messages, failed')
  <2>1. CASE saved' = saved
    BY <1>1, <2>1, WholeMore DEF Whole
  <2>2. CASE saved' = File(sess, FALSE) /\ pc = "save"
    <3>1. WellFormed(sess, failed)
      BY <2>2 DEF Whole
    <3> QED
      BY <1>1, <2>2, <3>1, WholeMore DEF File
  <2> QED
    BY <1>2, <2>1, <2>2
<1>4. WellFormed(checkpoint'.messages, failed')
  BY <1>1, WholeMore DEF Whole
<1> QED
  BY <1>1, <1>3, <1>4, WholeNothing DEF Whole

LEMMA WholeStep == Base /\ Whole /\ [Next]_vars => Whole'
<1> SUFFICES ASSUME Base, Whole, [Next]_vars PROVE Whole'
  OBVIOUS
<1>1. ASSUME UNCHANGED <<saved, checkpoint, sess, failed>>, pc' \notin {"generate", "calls"}, pc # "calls"
      PROVE  Whole'
  BY <1>1 DEF Whole
<1>2. CASE Start \/ Resolve \/ Inject \/ Install \/ InstallFails \/ Connect
  BY <1>1, <1>2 DEF Start, Resolve, Inject, Install, InstallFails, Connect, Starting, machine,
                    talk, ends
<1>3. CASE OpenSession
  BY <1>3, OpenWhole
<1>4. CASE Answer
  BY <1>4, AnswerWhole
<1>5. CASE Call
  BY <1>5, CallWhole
<1>6. CASE CallFails
  BY <1>6, CallFailsWhole
<1>7. CASE Over \/ Kill \/ Hang
  BY <1>7, EndsWhole
<1>8. CASE GenerateFails
  <2>1. /\ pc = "generate" /\ pc' = "save" /\ UNCHANGED <<saved, checkpoint, sess>>
        /\ failed \subseteq failed'
    BY <1>8 DEF GenerateFails, machine, talk
  <2>2. WellFormed(sess, failed') /\ WellFormed(saved.messages, failed') /\ WellFormed(checkpoint.messages, failed')
    BY <2>1, WholeMore DEF Whole
  <2> QED
    BY <2>1, <2>2 DEF Whole
<1>9. CASE RemoveSession
  BY <1>9, WholeNothing DEF RemoveSession, Whole, NoFile, talk, ends
<1>10. CASE SaveCheckpoint
  <2>1. /\ pc' = "idle" /\ pc = "idle" /\ UNCHANGED <<saved, sess, failed>>
        /\ checkpoint'.messages \in {saved.messages, <<>>}
    BY <1>10 DEF SaveCheckpoint, File, TornFile, NoFile, talk, ends
  <2> QED
    BY <2>1, WholeNothing DEF Whole
<1>11. CASE GoOffline
  BY <1>1, <1>11 DEF GoOffline, talk, ends
<1>12. CASE UNCHANGED vars
  <2>1. UNCHANGED <<saved, checkpoint, pc, sess, run, calls, failed>>
    BY <1>12 DEF vars, machine, talk, ends
  <2> QED
    BY <2>1 DEF Whole, AsksAt
<1> QED
  BY <1>2, <1>3, <1>4, <1>5, <1>6, <1>7, <1>8, <1>9, <1>10, <1>11, <1>12 DEF Next, Step, Over

(* In memory, in the session's file and in a checkpoint, every result      *)
(* stands behind the turn that asked for it, in the order of the calls,    *)
(* with the id the backend gave or, without one, one that was made up; and *)
(* calls are left unanswered only by the run that is executing them or one *)
(* that failed, with a user turn behind, whatever failures, trims,         *)
(* restores and crashes came before.                                       *)
THEOREM AlwaysWhole == Spec => []ConversationsWhole
<1>1. Base /\ Whole => ConversationsWhole
  <2> SUFFICES ASSUME Base, Whole, NEW m \in Conversations PROVE WellFormed(m, MayLeaveOpen)
    BY DEF ConversationsWhole
  <2>1. failed \subseteq MayLeaveOpen
    BY DEF MayLeaveOpen
  <2>2. CASE m = sess /\ pc = "calls"
    <3>1. PICK a \in DOMAIN sess : AsksAt(sess, a) /\ sess[1].role = "user"
      BY <2>2 DEF Whole
    <3>2. Fits(sess, a, MayLeaveOpen)
      <4>1. a + Results(sess, a) = Len(sess) /\ Len(sess) \in Nat
        BY <3>1, LenProperties DEF AsksAt, Base, Talk
      <4>2. sess[a].run \in MayLeaveOpen
        BY <2>2, <3>1 DEF AsksAt, MayLeaveOpen
      <4> QED
        BY <3>1, <4>1, <4>2 DEF AsksAt, Fits
    <3>3. \A b \in Turns(sess) \ {a} : Fits(sess, b, MayLeaveOpen)
      BY <2>1, <3>1, FitsMore DEF AsksAt
    <3> QED
      BY <2>2, <3>1, <3>2, <3>3 DEF WellFormed
  <2>3. CASE ~(m = sess /\ pc = "calls")
    BY <2>1, <2>3, WholeMore DEF Whole, Conversations
  <2> QED
    BY <2>2, <2>3
<1> QED
  BY <1>1, InitWhole, WholeStep, Invariance0, PTL DEF Spec
=============================================================================
