--------------------------- MODULE WarmPoolProofs ---------------------------
(***************************************************************************)
(* Theorems about WarmPool for any number of requests, models and servers. *)
(***************************************************************************)
EXTENDS WarmPool, TLAPS

-----------------------------------------------------------------------------
(* What ties requests and table to the servers they name: a server is      *)
(* listed only under the key it was started for, a request past the table  *)
(* holds a server of its key, and one still loading is nobody else's.      *)
Started(s) == s \in Servers /\ process[s] # "none"

TableKeyed == \A k \in Keys : Held(k) => Started(instances[k]) /\ key[instances[k]] = k

Holding == {"loading", "loaded", "posting", "answered"}

RunKeyed ==
  \A r \in Runs : run[r].at \in Holding =>
    Started(run[r].server) /\ key[run[r].server] = run[r].key

Acquiring(r) == run[r].at \in {"loading", "loaded"}

LoadingAlone ==
  \A r \in Runs : Acquiring(r) =>
    /\ process[run[r].server] # "killed"
    /\ \A k \in Keys : instances[k] # run[r].server
    /\ \A q \in Runs : Acquiring(q) /\ q # r => run[q].server # run[r].server

KeyKnown == \A r \in Runs : run[r].at # "idle" => run[r].key \in Keys

AnsweredByOwn ==
  \A r \in Runs : run[r].at = "answered" => run[r].from = run[r].server

IInv == /\ TypeOK /\ KeyKnown /\ AnsweredByOwn /\ TableKeyed /\ RunKeyed /\ LoadingAlone
        /\ OwnModelAnswers /\ KilledForgotten

RunRecord == [at : Points, key : Keys \cup {0}, port : Ports \cup {0},
              server : 0..MaxServers, from : 0..MaxServers, counted : {"hit", "miss"}]

LEMMA IdleType == Idle \in RunRecord
BY ConstantsAssumption DEF Idle, RunRecord, Points

LEMMA InitIInv == Init => IInv
<1> SUFFICES ASSUME Init PROVE IInv
  OBVIOUS
<1>1. run \in [Runs -> RunRecord]
  BY IdleType DEF Init
<1>2. TypeOK
  BY <1>1, ConstantsAssumption DEF Init, TypeOK, RunRecord
<1>3. \A r \in Runs : run[r].at = "idle"
  BY DEF Init, Idle
<1>4. \A k \in Keys : ~Held(k)
  BY DEF Init, Held
<1> QED
  BY <1>2, <1>3, <1>4
     DEF IInv, TableKeyed, RunKeyed, LoadingAlone, Acquiring, Holding, OwnModelAnswers,
         AnsweredByOwn, KeyKnown, KilledForgotten

-----------------------------------------------------------------------------
(* Steps of one request that touch no server: it is enough that the        *)
(* request keeps the server it holds, or holds none.                       *)
LEMMA QuietStep ==
  ASSUME IInv, NEW r \in Runs, NEW x \in RunRecord,
         run' = [run EXCEPT ![r] = x], x.at # "idle" => x.key \in Keys,
         UNCHANGED <<instances, serverVars, daemon>>, old' \in SUBSET Servers,
         x.at \in Holding => Started(x.server) /\ key[x.server] = x.key,
         x.at = "answered" => x.from = x.server,
         x.at \in {"loading", "loaded"} => Acquiring(r) /\ x.server = run[r].server
  PROVE  IInv'
<1>1. run' \in [Runs -> RunRecord] /\ \A q \in Runs : run'[q] = IF q = r THEN x ELSE run[q]
  BY DEF IInv, TypeOK, RunRecord
<1>2. TypeOK'
  BY <1>1 DEF IInv, TypeOK, RunRecord, serverVars
<1>3. (TableKeyed /\ KilledForgotten)'
  BY DEF IInv, TableKeyed, KilledForgotten, Held, Started, serverVars
<1>4. (RunKeyed /\ OwnModelAnswers /\ AnsweredByOwn /\ KeyKnown)'
  BY <1>1 DEF IInv, RunKeyed, OwnModelAnswers, AnsweredByOwn, KeyKnown, Holding, Started, serverVars
<1>5. LoadingAlone'
  BY <1>1 DEF IInv, LoadingAlone, Acquiring, serverVars
<1> QED
  BY <1>2, <1>3, <1>4, <1>5 DEF IInv

(* What a handler writes into its record, field by field.                  *)
Moved(x, point) == [x EXCEPT !.at = point]
Given(x, point, s) == [x EXCEPT !.at = point, !.server = s]
AnsweredBy(x, s) == [x EXCEPT !.at = "answered", !.from = s]
Picked(x, p) == [x EXCEPT !.at = "picked", !.port = p]

LEMMA MovedFields ==
  ASSUME NEW x \in RunRecord, NEW point \in Points
  PROVE  /\ Moved(x, point) \in RunRecord /\ Moved(x, point).at = point
         /\ Moved(x, point).key = x.key /\ Moved(x, point).server = x.server
BY DEF RunRecord, Moved

LEMMA GivenFields ==
  ASSUME NEW x \in RunRecord, NEW point \in Points, NEW s \in 0..MaxServers
  PROVE  /\ Given(x, point, s) \in RunRecord /\ Given(x, point, s).at = point
         /\ Given(x, point, s).key = x.key /\ Given(x, point, s).server = s
BY DEF RunRecord, Given

LEMMA AnsweredByFields ==
  ASSUME NEW x \in RunRecord, NEW s \in 0..MaxServers
  PROVE  /\ AnsweredBy(x, s) \in RunRecord /\ AnsweredBy(x, s).at = "answered"
         /\ AnsweredBy(x, s).from = s
         /\ AnsweredBy(x, s).key = x.key /\ AnsweredBy(x, s).server = x.server
BY DEF RunRecord, Points, AnsweredBy

LEMMA PickedFields ==
  ASSUME NEW x \in RunRecord, NEW p \in Ports
  PROVE  /\ Picked(x, p) \in RunRecord /\ Picked(x, p).at = "picked"
         /\ Picked(x, p).key = x.key
BY DEF RunRecord, Points, Picked

LEMMA QuietSteps ==
  ASSUME IInv, NEW r \in Runs,
         \/ AskWarm(r) \/ Reuse(r) \/ Miss(r) \/ PickPort(r) \/ StartFails(r)
         \/ SeemsReady(r) \/ Answer(r) \/ PostFails(r) \/ Respond(r)
  PROVE  IInv'
<1> USE DEF At, Goto, Leave
<1>0. /\ run[r] \in RunRecord /\ old \in SUBSET Servers /\ TypeOK
      /\ run[r].at # "idle" => run[r].key \in Keys
  BY DEF IInv, TypeOK, RunRecord, KeyKnown
<1>1. CASE AskWarm(r)
  <2>1. PICK k \in Keys :
          run' = [run EXCEPT ![r] = [Idle EXCEPT !.at = "asked", !.key = k,
                                      !.counted = IF Held(k) THEN "hit" ELSE "miss"]]
    BY <1>1 DEF AskWarm
  <2> DEFINE x == [Idle EXCEPT !.at = "asked", !.key = k,
                               !.counted = IF Held(k) THEN "hit" ELSE "miss"]
  <2>2. x \in RunRecord /\ x.at = "asked" /\ x.key \in Keys
    BY IdleType DEF RunRecord, Points
  <2> HIDE DEF x
  <2> QED
    BY <1>0, <1>1, <2>1, <2>2, QuietStep DEF AskWarm, Holding, x
<1>2. CASE Reuse(r)
  <2> DEFINE s == instances[run[r].key]
  <2>1. run' = [run EXCEPT ![r] = Given(run[r], "posting", s)] /\ old' = old \ {s}
    BY <1>2 DEF Reuse, Given
  <2>2. Started(s) /\ key[s] = run[r].key
    BY <1>0, <1>2 DEF Reuse, IInv, TableKeyed, RunRecord
  <2>3. s \in 0..MaxServers /\ "posting" \in Points
    BY <2>2, ConstantsAssumption DEF Started, Servers, Points
  <2> HIDE DEF s
  <2>4. /\ Given(run[r], "posting", s) \in RunRecord
        /\ Given(run[r], "posting", s).at = "posting"
        /\ Given(run[r], "posting", s).server = s
        /\ Given(run[r], "posting", s).key = run[r].key
        /\ run[r].key \in Keys
    BY <1>0, <1>2, <2>3, GivenFields DEF Reuse
  <2>5. UNCHANGED <<instances, serverVars, daemon>> /\ old' \in SUBSET Servers
    BY <1>0, <1>2, <2>1 DEF Reuse
  <2> QED
    BY <2>1, <2>2, <2>4, <2>5, QuietStep
<1>3. CASE PickPort(r) /\ ~Leave(r)
  <2>1. PICK p \in Ports : run' = [run EXCEPT ![r].at = "picked", ![r].port = p]
    BY <1>3 DEF PickPort
  <2>2. run' = [run EXCEPT ![r] = Picked(run[r], p)]
    BY <2>1 DEF Picked
  <2>3. /\ Picked(run[r], p) \in RunRecord /\ Picked(run[r], p).at = "picked"
        /\ Picked(run[r], p).key \in Keys
    BY <1>0, <1>3, PickedFields DEF PickPort
  <2> QED
    BY <1>0, <1>3, <2>2, <2>3, QuietStep DEF PickPort, Holding
<1>4. CASE Leave(r) /\ UNCHANGED <<instances, serverVars, old, daemon>>
  <2>1. Idle.at = "idle"
    BY DEF Idle
  <2> QED
    BY <1>0, <1>4, <2>1, IdleType, QuietStep DEF Holding
<1>5. CASE Miss(r)
  <2>1. run' = [run EXCEPT ![r] = Moved(run[r], "missed")]
    BY <1>5 DEF Miss, Moved
  <2>2. /\ Moved(run[r], "missed") \in RunRecord /\ Moved(run[r], "missed").at = "missed"
        /\ Moved(run[r], "missed").key \in Keys
    BY <1>0, <1>5, MovedFields DEF Points, Miss
  <2> QED
    BY <1>0, <1>5, <2>1, <2>2, QuietStep DEF Miss, Holding
<1>6. CASE SeemsReady(r)
  <2> DEFINE x == Moved(run[r], "loaded")
  <2>1. run' = [run EXCEPT ![r] = x]
    BY <1>6 DEF SeemsReady, Moved
  <2>2. x \in RunRecord /\ x.at = "loaded" /\ x.server = run[r].server /\ x.key = run[r].key
    BY <1>0, MovedFields DEF Points
  <2>3. /\ Acquiring(r) /\ Started(run[r].server) /\ key[run[r].server] = run[r].key
        /\ run[r].key \in Keys
    BY <1>0, <1>6 DEF SeemsReady, Acquiring, IInv, RunKeyed, Holding
  <2> HIDE DEF x
  <2> QED
    BY <1>0, <1>6, <2>1, <2>2, <2>3, QuietStep DEF SeemsReady
<1>7. CASE Answer(r)
  <2>1. PICK o \in Servers :
          /\ Accepts(o, run[r].server)
          /\ run' = [run EXCEPT ![r].at = "answered", ![r].from = o]
    BY <1>7 DEF Answer
  <2> DEFINE x == AnsweredBy(run[r], o)
  <2>2. run' = [run EXCEPT ![r] = x]
    BY <2>1 DEF AnsweredBy
  <2>3. o \in 0..MaxServers /\ o = run[r].server
    BY <2>1, ConstantsAssumption DEF Accepts, Servers
  <2>4. /\ x \in RunRecord /\ x.at = "answered" /\ x.server = run[r].server
        /\ x.key = run[r].key /\ x.from = o
    BY <1>0, <2>3, AnsweredByFields
  <2>5. /\ Started(run[r].server) /\ key[run[r].server] = run[r].key
        /\ run[r].key \in Keys
    BY <1>0, <1>7 DEF Answer, IInv, RunKeyed, Holding
  <2> HIDE DEF x
  <2> QED
    BY <1>0, <1>7, <2>2, <2>3, <2>4, <2>5, QuietStep DEF Answer
<1> QED
  BY <1>1, <1>2, <1>3, <1>4, <1>5, <1>6, <1>7 DEF PickPort, StartFails, PostFails, Respond

-----------------------------------------------------------------------------
(* Starting a server: the new one is in nobody's hands yet.                *)
LEMMA StartStep ==
  ASSUME IInv, NEW r \in Runs, StartServer(r)
  PROVE  IInv'
<1>1. PICK s \in Servers :
        /\ process[s] = "none"
        /\ process' = [process EXCEPT ![s] = IF FreePort(run[r].port) THEN "loading" ELSE "dead"]
        /\ key' = [key EXCEPT ![s] = run[r].key]
        /\ port' = [port EXCEPT ![s] = run[r].port]
        /\ run' = [run EXCEPT ![r].at = "loading", ![r].server = s]
  BY DEF StartServer
<1>2. UNCHANGED <<instances, old, daemon>>
  BY DEF StartServer
<1>3. run[r] \in RunRecord /\ TypeOK /\ s \in 0..MaxServers /\ "loading" \in Points
  BY ConstantsAssumption DEF IInv, TypeOK, RunRecord, Servers, Points
<1> DEFINE x == Given(run[r], "loading", s)
<1>4. x \in RunRecord /\ x.at = "loading" /\ x.key = run[r].key /\ x.server = s
  BY <1>3, GivenFields
<1>5. run' = [run EXCEPT ![r] = x]
  BY <1>1 DEF Given
<1> HIDE DEF x
<1>6. run' \in [Runs -> RunRecord] /\ \A q \in Runs : run'[q] = IF q = r THEN x ELSE run[q]
  BY <1>3, <1>4, <1>5 DEF TypeOK, RunRecord
<1>7. /\ \A t \in Servers : t # s => process'[t] = process[t] /\ key'[t] = key[t]
      /\ process'[s] \in {"loading", "dead"} /\ key'[s] = run[r].key
  BY <1>1, <1>3 DEF TypeOK
<1>8. TypeOK'
  BY <1>1, <1>2, <1>3, <1>6 DEF TypeOK, RunRecord
<1>9. \A k \in Keys : Held(k) => instances[k] # s
  BY <1>1 DEF IInv, TableKeyed, Started
<1>10. \A q \in Runs : run[q].at \in Holding => run[q].server # s
  BY <1>1 DEF IInv, RunKeyed, Started
<1>11. (TableKeyed /\ KilledForgotten)'
  BY <1>2, <1>7, <1>9 DEF IInv, TableKeyed, KilledForgotten, Held, Started
<1>12. RunKeyed'
  BY <1>4, <1>6, <1>7, <1>10 DEF IInv, RunKeyed, Started
<1>13. OwnModelAnswers'
  <2>1. ASSUME NEW q \in Runs, run'[q].at = "answered"
        PROVE  key'[run'[q].from] = run'[q].key
    <3>1. q # r /\ run'[q] = run[q]
      BY <1>4, <1>6, <2>1
    <3>2. key[run[q].from] = run[q].key /\ run[q].from = run[q].server
      BY <2>1, <3>1 DEF IInv, OwnModelAnswers, AnsweredByOwn
    <3>3. run[q].server # s /\ run[q].server \in Servers
      BY <2>1, <3>1, <1>10 DEF Holding, IInv, RunKeyed, Started
    <3> QED
      BY <1>7, <3>1, <3>2, <3>3
  <2> QED
    BY <2>1 DEF OwnModelAnswers
<1>14. LoadingAlone'
  <2>1. \A k \in Keys : instances[k] # s
    BY <1>9 DEF Held, Servers
  <2>2. \A q \in Runs : q # r /\ Acquiring(q) => run[q].server # s /\ run[q].server \in Servers
    BY <1>10 DEF Acquiring, Holding, IInv, RunKeyed, Started
  <2> QED
    BY <1>2, <1>4, <1>6, <1>7, <2>1, <2>2 DEF IInv, LoadingAlone, Acquiring
<1>15. (AnsweredByOwn /\ KeyKnown)'
  <2>1. run[r].key \in Keys
    BY DEF StartServer, At, IInv, KeyKnown
  <2> QED
    BY <1>4, <1>6, <2>1 DEF IInv, AnsweredByOwn, KeyKnown
<1> QED
  BY <1>8, <1>11, <1>12, <1>13, <1>14, <1>15 DEF IInv

-----------------------------------------------------------------------------
(* Giving up on a server kills one nobody else holds; it is in no table.   *)
LEMMA NeverReadyStep ==
  ASSUME IInv, NEW r \in Runs, NeverReady(r)
  PROVE  IInv'
<1> DEFINE s == run[r].server
<1>1. /\ process' = [process EXCEPT ![s] = "killed"]
      /\ run' = [run EXCEPT ![r] = Idle]
      /\ UNCHANGED <<instances, key, port, old, daemon>>
  BY DEF NeverReady, Leave
<1>2. TypeOK /\ Acquiring(r) /\ Started(s)
  BY DEF NeverReady, At, Acquiring, IInv, RunKeyed, Holding
<1>3. \A q \in Runs : run'[q] = IF q = r THEN Idle ELSE run[q]
  BY <1>1, <1>2 DEF TypeOK
<1>4. \A t \in Servers : process'[t] = IF t = s THEN "killed" ELSE process[t]
  BY <1>1, <1>2 DEF TypeOK
<1>5. Idle.at = "idle"
  BY DEF Idle
<1>6. run' \in [Runs -> RunRecord]
  BY <1>1, <1>2, IdleType DEF TypeOK, RunRecord
<1>7. TypeOK'
  BY <1>1, <1>2, <1>6 DEF TypeOK, RunRecord
<1>8. \A k \in Keys : instances[k] # s
  BY <1>2 DEF IInv, LoadingAlone
<1>9. (TableKeyed /\ KilledForgotten)'
  BY <1>1, <1>4, <1>8 DEF IInv, TableKeyed, KilledForgotten, Held, Started
<1>10. (RunKeyed /\ OwnModelAnswers /\ AnsweredByOwn /\ KeyKnown)'
  BY <1>1, <1>3, <1>4, <1>5
     DEF IInv, RunKeyed, OwnModelAnswers, AnsweredByOwn, KeyKnown, Holding, Started
<1>11. LoadingAlone'
  <2>1. ASSUME NEW q \in Runs, Acquiring(q)'
        PROVE  q # r /\ Acquiring(q) /\ run'[q] = run[q] /\ run[q].server \in Servers /\ run[q].server # s
    <3>1. q # r /\ run'[q] = run[q] /\ Acquiring(q)
      BY <1>3, <1>5, <2>1 DEF Acquiring
    <3> QED
      BY <1>2, <3>1 DEF IInv, LoadingAlone, RunKeyed, Started, Acquiring, Holding
  <2> QED
    BY <1>1, <1>4, <2>1 DEF IInv, LoadingAlone
<1> QED
  BY <1>7, <1>9, <1>10, <1>11 DEF IInv

(* Insertion hands the server from the request to the table.               *)
LEMMA InsertStep ==
  ASSUME IInv, NEW r \in Runs, Insert(r)
  PROVE  IInv'
<1> DEFINE s == run[r].server
           x == Moved(run[r], "posting")
<1>1. /\ instances' = [instances EXCEPT ![run[r].key] = s]
      /\ run' = [run EXCEPT ![r] = x]
      /\ UNCHANGED <<serverVars, old, daemon>>
  BY DEF Insert, Goto, Moved
<1>2. /\ TypeOK /\ run[r] \in RunRecord /\ Acquiring(r) /\ Started(s)
      /\ key[s] = run[r].key /\ run[r].key \in Keys
  BY DEF Insert, At, Acquiring, IInv, KeyKnown, RunKeyed, Holding, TypeOK, RunRecord
<1>3. x \in RunRecord /\ x.at = "posting" /\ x.server = s /\ x.key = run[r].key
  BY <1>2, MovedFields DEF Points
<1> HIDE DEF x
<1>4. \A q \in Runs : run'[q] = IF q = r THEN x ELSE run[q]
  BY <1>1, <1>2 DEF TypeOK
<1>5. \A k \in Keys : instances'[k] = IF k = run[r].key THEN s ELSE instances[k]
  BY <1>1, <1>2 DEF TypeOK
<1>6. TypeOK'
  <2>1. run' \in [Runs -> RunRecord]
    BY <1>1, <1>2, <1>3 DEF TypeOK, RunRecord
  <2>2. instances' \in [Keys -> 0..MaxServers]
    BY <1>1, <1>2, ConstantsAssumption DEF TypeOK, Started, Servers
  <2> QED
    BY <1>1, <1>2, <2>1, <2>2 DEF TypeOK, RunRecord, serverVars
<1>7. (TableKeyed /\ KilledForgotten)'
  BY <1>1, <1>2, <1>5
     DEF IInv, TableKeyed, KilledForgotten, LoadingAlone, Held, Started, serverVars
<1>8. (RunKeyed /\ OwnModelAnswers /\ AnsweredByOwn /\ KeyKnown)'
  BY <1>1, <1>2, <1>3, <1>4
     DEF IInv, RunKeyed, OwnModelAnswers, AnsweredByOwn, KeyKnown, Holding, Started, serverVars
<1>9. LoadingAlone'
  <2>1. ASSUME NEW q \in Runs, Acquiring(q)'
        PROVE  q # r /\ Acquiring(q) /\ run'[q] = run[q] /\ run[q].server # s
    <3>1. q # r /\ run'[q] = run[q] /\ Acquiring(q)
      BY <1>3, <1>4, <2>1 DEF Acquiring
    <3> QED
      BY <1>2, <3>1 DEF IInv, LoadingAlone
  <2> QED
    BY <1>1, <1>5, <2>1 DEF IInv, LoadingAlone, serverVars
<1> QED
  BY <1>6, <1>7, <1>8, <1>9 DEF IInv

-----------------------------------------------------------------------------
(* Eviction and Shutdown.                                                  *)
LEMMA StopStep ==
  ASSUME IInv, NEW gone \in SUBSET HeldKeys, Stop(gone), UNCHANGED <<key, port, old, run>>,
         daemon' \in {"serving", "closing", "closed", "exited"}
  PROVE  IInv'
<1>1. TypeOK
  BY DEF IInv
<1>2. \A s \in Servers : process'[s] = IF \E k \in gone : instances[k] = s
                                         THEN "killed" ELSE process[s]
  BY DEF Stop
<1>3. \A k \in Keys : instances'[k] = IF k \in gone THEN 0 ELSE instances[k]
  BY DEF Stop
<1>4. TypeOK'
  <2>1. process' \in [Servers -> {"none", "loading", "ready", "dead", "killed"}]
    BY <1>1 DEF Stop, TypeOK
  <2>2. instances' \in [Keys -> 0..MaxServers]
    BY <1>1, ConstantsAssumption DEF Stop, TypeOK
  <2> QED
    BY <1>1, <2>1, <2>2 DEF TypeOK
<1>5. gone \subseteq Keys /\ \A k \in gone : Held(k)
  BY DEF HeldKeys
<1>6. \A k, j \in Keys : Held(k) /\ Held(j) /\ instances[k] = instances[j] => k = j
  BY DEF IInv, TableKeyed
<1>7. TableKeyed'
  BY <1>2, <1>3 DEF IInv, TableKeyed, Held, Started
<1>8. KilledForgotten'
  <2>1. ASSUME NEW k \in Keys, Held(k)'
        PROVE  process'[instances'[k]] # "killed"
    <3>1. k \notin gone /\ instances'[k] = instances[k] /\ Held(k)
      BY <1>3, <2>1 DEF Held
    <3>2. instances[k] \in Servers /\ process[instances[k]] # "killed"
      BY <3>1 DEF IInv, TableKeyed, KilledForgotten, Started
    <3>3. ~ \E j \in gone : instances[j] = instances[k]
      BY <1>5, <1>6, <3>1
    <3> QED
      BY <1>2, <3>1, <3>2, <3>3
  <2> QED
    BY <2>1 DEF KilledForgotten
<1>9. (RunKeyed /\ OwnModelAnswers /\ AnsweredByOwn /\ KeyKnown)'
  BY <1>2 DEF IInv, RunKeyed, OwnModelAnswers, AnsweredByOwn, KeyKnown, Started
<1>10. LoadingAlone'
  <2>1. ASSUME NEW r \in Runs, Acquiring(r)
        PROVE  /\ run[r].server \in Servers /\ run[r].server # 0
               /\ \A k \in Keys : instances[k] # run[r].server
               /\ process[run[r].server] # "killed"
    BY <2>1 DEF IInv, LoadingAlone, RunKeyed, Started, Acquiring, Holding, Servers
  <2>2. \A r \in Runs : Acquiring(r)' <=> Acquiring(r)
    BY DEF Acquiring
  <2> QED
    BY <1>2, <1>3, <1>5, <2>1, <2>2 DEF IInv, LoadingAlone
<1> QED
  BY <1>4, <1>7, <1>8, <1>9, <1>10 DEF IInv

-----------------------------------------------------------------------------
(* A server finishes loading or dies by itself.                            *)
LEMMA ProcessStep ==
  ASSUME IInv, NEW s \in Servers, Live(s), NEW p \in {"ready", "dead"},
         process' = [process EXCEPT ![s] = p],
         UNCHANGED <<instances, key, port, old, run, daemon>>
  PROVE  IInv'
<1>1. \A t \in Servers : process'[t] = IF t = s THEN p ELSE process[t]
  BY DEF IInv, TypeOK
<1>2. TypeOK'
  BY DEF IInv, TypeOK
<1>3. (TableKeyed /\ KilledForgotten)'
  BY <1>1 DEF IInv, TableKeyed, KilledForgotten, Held, Started
<1>4. (RunKeyed /\ OwnModelAnswers /\ AnsweredByOwn /\ KeyKnown)'
  BY <1>1 DEF IInv, RunKeyed, OwnModelAnswers, AnsweredByOwn, KeyKnown, Started
<1>5. \A r \in Runs : Acquiring(r) => run[r].server \in Servers
  BY DEF IInv, RunKeyed, Started, Acquiring, Holding
<1>6. LoadingAlone'
  BY <1>1, <1>5 DEF IInv, LoadingAlone, Acquiring
<1> QED
  BY <1>2, <1>3, <1>4, <1>6 DEF IInv

(* Time, the end of the daemon, and steps that change nothing.             *)
LEMMA OtherStep ==
  ASSUME IInv, UNCHANGED <<instances, serverVars>>, old' \in SUBSET Servers,
         run' \in {run, [r \in Runs |-> Idle]},
         daemon' \in {"serving", "closing", "closed", "exited"}
  PROVE  IInv'
<1>1. CASE run' = run
  BY <1>1 DEF IInv, TypeOK, TableKeyed, KilledForgotten, RunKeyed, OwnModelAnswers,
     AnsweredByOwn, KeyKnown, LoadingAlone, Acquiring, Held, Started, serverVars
<1>2. CASE run' = [r \in Runs |-> Idle]
  <2>1. \A r \in Runs : run'[r].at = "idle"
    BY <1>2 DEF Idle
  <2>2. run' \in [Runs -> RunRecord]
    BY <1>2, IdleType
  <2>3. TypeOK'
    BY <2>2 DEF IInv, TypeOK, RunRecord, serverVars
  <2> QED
    BY <2>1, <2>3 DEF IInv, TableKeyed, KilledForgotten, RunKeyed, OwnModelAnswers,
       AnsweredByOwn, KeyKnown, LoadingAlone, Acquiring, Holding, Held, Started, serverVars
<1> QED
  BY <1>1, <1>2

LEMMA NextIInv == IInv /\ [Next]_vars => IInv'
<1> SUFFICES ASSUME IInv, [Next]_vars PROVE IInv'
  OBVIOUS
<1>1. TypeOK
  BY DEF IInv
<1>2. ASSUME NEW r \in Runs, Request(r) PROVE IInv'
  BY <1>2, QuietSteps, StartStep, NeverReadyStep, InsertStep DEF Request
<1>3. CASE EvictIdle
  <2>1. IdleKeys \in SUBSET HeldKeys
    BY DEF IdleKeys
  <2> QED
    BY <1>1, <1>3, <2>1, StopStep DEF EvictIdle, TypeOK
<1>4. CASE Shutdown
  BY <1>4, StopStep DEF Shutdown
<1>5. ASSUME NEW s \in Servers, Loaded(s) \/ Crash(s) PROVE IInv'
  BY <1>5, ProcessStep DEF Loaded, Crash, Live
<1>6. ASSUME NEW s \in Servers, Ages(s) PROVE IInv'
  BY <1>1, <1>6, OtherStep DEF Ages, TypeOK
<1>7. CASE Interrupt \/ Exit \/ Done \/ UNCHANGED vars
  BY <1>1, <1>7, OtherStep DEF Interrupt, Exit, Done, vars, TypeOK
<1> QED
  BY <1>2, <1>3, <1>4, <1>5, <1>6, <1>7 DEF Next

-----------------------------------------------------------------------------
(* Where the pool can find a server that runs: in its table, in the hands  *)
(* of a request that acquires it.  A second server of the same key was     *)
(* started, if it can be found in neither.                                 *)
Listed(s) == \E k \in Keys : instances[k] = s
Acquired(s) == \E r \in Runs : Acquiring(r) /\ run[r].server = s
Doubled(s) == \E t \in Servers \ {s} : process[t] # "none" /\ key[t] = key[s]

(* No server is forgotten, or started again, in a step.                    *)
Lasting ==
  \A s \in Servers : process[s] # "none" => process'[s] # "none" /\ key'[s] = key[s]

LEMMA EscapeKept ==
  ASSUME OnlyDuplicatesEscape, Lasting,
         daemon' # "exited" => daemon # "exited",
         \A s \in Servers : Live(s)' =>
           \/ Live(s) /\ (Listed(s) \/ Acquired(s) => Listed(s)' \/ Acquired(s)' \/ Doubled(s)')
           \/ Acquired(s)'
  PROVE  OnlyDuplicatesEscape'
<1> SUFFICES ASSUME (daemon # "exited")', NEW s \in Servers, Live(s)'
             PROVE  Listed(s)' \/ Acquired(s)' \/ Doubled(s)'
  BY DEF OnlyDuplicatesEscape, Listed, Acquired, Doubled, Acquiring
<1>1. CASE Acquired(s)'
  BY <1>1
<1>2. CASE Live(s) /\ (Listed(s) \/ Acquired(s))
  BY <1>2
<1>3. CASE Live(s) /\ Doubled(s)
  BY <1>3 DEF Doubled, Lasting, Live
<1>4. Live(s) => Listed(s) \/ Acquired(s) \/ Doubled(s)
  BY DEF OnlyDuplicatesEscape, Listed, Acquired, Doubled, Acquiring
<1> QED
  BY <1>1, <1>2, <1>3, <1>4

(* What leaves the table and the servers alone loses none, as long as no   *)
(* request that acquires one lets go of it.                                *)
LEMMA EscapeQuiet ==
  ASSUME OnlyDuplicatesEscape, UNCHANGED <<instances, serverVars>>,
         daemon' # "exited" => daemon # "exited",
         \A r \in Runs : Acquiring(r) => Acquiring(r)' /\ run'[r].server = run[r].server
  PROVE  OnlyDuplicatesEscape'
<1>1. Lasting
  BY DEF Lasting, serverVars
<1>2. ASSUME NEW s \in Servers, Live(s)'
      PROVE  Live(s) /\ (Listed(s) \/ Acquired(s) => Listed(s)' \/ Acquired(s)')
  BY <1>2 DEF Live, Listed, Acquired, serverVars
<1> QED
  BY <1>1, <1>2, EscapeKept

(* One request: it lets go of a server only when it kills it, or when the  *)
(* server enters the table, in the place of one of the same key.           *)
LEMMA EscapeRequest ==
  ASSUME IInv, OnlyDuplicatesEscape, NEW r \in Runs, Request(r)
  PROVE  OnlyDuplicatesEscape'
<1>1. /\ run \in [Runs -> RunRecord] /\ run[r] \in RunRecord
      /\ process \in [Servers -> {"none", "loading", "ready", "dead", "killed"}]
      /\ daemon' = daemon
  BY DEF IInv, TypeOK, RunRecord, Request, AskWarm, Reuse, Miss, PickPort, StartServer,
     StartFails, SeemsReady, NeverReady, Insert, Answer, PostFails, Respond
<1>2. CASE ~Acquiring(r) /\ ~StartServer(r)
  <2>1. UNCHANGED <<instances, serverVars>>
    BY <1>2 DEF Request, Acquiring, At, AskWarm, Reuse, Miss, PickPort, StartFails,
       SeemsReady, NeverReady, Insert, Answer, PostFails, Respond
  <2>2. \A q \in Runs : q # r => run'[q] = run[q]
    BY <1>1, <1>2 DEF Request, Acquiring, At, Goto, Leave, AskWarm, Reuse, Miss, PickPort,
       StartFails, SeemsReady, NeverReady, Insert, Answer, PostFails, Respond
  <2> QED
    BY <1>1, <1>2, <2>1, <2>2, EscapeQuiet DEF Acquiring
<1>3. CASE StartServer(r)
  <2>1. PICK s \in Servers :
          /\ process[s] = "none"
          /\ process' = [process EXCEPT ![s] = IF FreePort(run[r].port) THEN "loading" ELSE "dead"]
          /\ key' = [key EXCEPT ![s] = run[r].key]
          /\ run' = [run EXCEPT ![r].at = "loading", ![r].server = s]
    BY <1>3 DEF StartServer
  <2>2. run' = [run EXCEPT ![r] = Given(run[r], "loading", s)]
    BY <2>1 DEF Given
  <2>3. /\ \A q \in Runs : q # r => run'[q] = run[q]
        /\ run'[r].at = "loading" /\ run'[r].server = s
    <3>1. s \in 0..MaxServers /\ "loading" \in Points
      BY ConstantsAssumption DEF Servers, Points
    <3>2. /\ Given(run[r], "loading", s).at = "loading"
          /\ Given(run[r], "loading", s).server = s
      BY <1>1, <3>1, GivenFields
    <3> QED
      BY <1>1, <2>2, <3>2
  <2>4. Lasting
    BY <1>1, <2>1 DEF Lasting, IInv, TypeOK
  <2>5. ASSUME NEW t \in Servers, Live(t)', t # s
        PROVE  Live(t) /\ (Listed(t) \/ Acquired(t) => Listed(t)' \/ Acquired(t)')
    <3>1. Live(t)
      BY <1>1, <2>1, <2>5 DEF Live
    <3>2. Listed(t) => Listed(t)'
      BY <1>3 DEF StartServer, Listed
    <3>3. Acquired(t) => Acquired(t)'
      BY <1>3, <2>3 DEF StartServer, At, Acquired, Acquiring
    <3> QED
      BY <3>1, <3>2, <3>3
  <2>6. Acquired(s)'
    BY <2>3 DEF Acquired, Acquiring
  <2> QED
    BY <1>1, <2>4, <2>5, <2>6, EscapeKept
<1>4. CASE SeemsReady(r)
  <2>1. run' = [run EXCEPT ![r] = Moved(run[r], "loaded")]
    BY <1>4 DEF SeemsReady, Goto, Moved
  <2>2. /\ Moved(run[r], "loaded").at = "loaded"
        /\ Moved(run[r], "loaded").server = run[r].server
    BY <1>1, MovedFields DEF Points
  <2> QED
    BY <1>1, <1>4, <2>1, <2>2, EscapeQuiet DEF SeemsReady, Acquiring
<1>5. CASE NeverReady(r)
  <2> DEFINE s == run[r].server
  <2>1. /\ process' = [process EXCEPT ![s] = "killed"]
        /\ run' = [run EXCEPT ![r] = Idle]
        /\ UNCHANGED <<instances, key>>
    BY <1>5 DEF NeverReady, Leave
  <2>2. Lasting
    BY <1>1, <2>1 DEF Lasting
  <2>3. ASSUME NEW t \in Servers, Live(t)'
        PROVE  Live(t) /\ (Listed(t) \/ Acquired(t) => Listed(t)' \/ Acquired(t)')
    <3>1. t # s /\ Live(t)
      BY <1>1, <2>1, <2>3 DEF Live
    <3>2. Acquired(t) => Acquired(t)'
      BY <1>1, <2>1, <3>1 DEF Acquired, Acquiring
    <3> QED
      BY <2>1, <3>1, <3>2 DEF Listed
  <2> QED
    BY <1>1, <2>2, <2>3, EscapeKept
<1>6. CASE Insert(r)
  <2>0. /\ Acquiring(r) /\ Started(run[r].server) /\ run[r].key \in Keys
        /\ key[run[r].server] = run[r].key
    BY <1>6 DEF Insert, At, Acquiring, IInv, KeyKnown, RunKeyed, Holding
  <2> PICK s \in Servers, k \in Keys : s = run[r].server /\ k = run[r].key
    BY <2>0 DEF Started
  <2>1. /\ instances' = [instances EXCEPT ![k] = s]
        /\ run' = [run EXCEPT ![r] = Moved(run[r], "posting")]
        /\ UNCHANGED serverVars
    BY <1>6 DEF Insert, Goto, Moved
  <2>2. /\ Started(s) /\ key[s] = k
        /\ instances \in [Keys -> 0..MaxServers]
    BY <2>0 DEF IInv, TypeOK
  <2>3. Lasting
    BY <2>1 DEF Lasting, serverVars
  <2>4. Listed(s)'
    BY <2>1, <2>2 DEF Listed
  <2>5. ASSUME NEW t \in Servers, t # s, Listed(t)
        PROVE  Listed(t)' \/ Doubled(t)'
    <3>1. PICK j \in Keys : instances[j] = t
      BY <2>5 DEF Listed
    <3>2. CASE j # k
      BY <2>1, <2>2, <3>1, <3>2 DEF Listed
    <3>3. CASE j = k
      <4>1. key[t] = k
        BY <3>1, <3>3 DEF IInv, TableKeyed, Held, Servers
      <4> QED
        BY <2>1, <2>2, <2>5, <4>1 DEF Doubled, Started, serverVars
    <3> QED
      BY <3>2, <3>3
  <2>6. ASSUME NEW t \in Servers, t # s, Acquired(t)
        PROVE  Acquired(t)'
    BY <1>1, <2>1, <2>6 DEF Acquired, Acquiring
  <2>7. \A t \in Servers : Live(t)' => Live(t)
    BY <2>1 DEF Live, serverVars
  <2> QED
    BY <1>1, <2>3, <2>4, <2>5, <2>6, <2>7, EscapeKept
<1> QED
  BY <1>2, <1>3, <1>4, <1>5, <1>6
     DEF Request, Acquiring, At, AskWarm, Reuse, Miss, PickPort, StartFails,
         Answer, PostFails, Respond

LEMMA EscapeStop ==
  ASSUME IInv, OnlyDuplicatesEscape, NEW gone \in SUBSET HeldKeys, Stop(gone),
         UNCHANGED <<key, port, old, run>>, daemon # "exited"
  PROVE  OnlyDuplicatesEscape'
<1>1. \A s \in Servers : process'[s] = IF \E k \in gone : instances[k] = s
                                         THEN "killed" ELSE process[s]
  BY DEF Stop
<1>2. Lasting
  BY <1>1 DEF Lasting
<1>3. ASSUME NEW s \in Servers, Live(s)'
      PROVE  Live(s) /\ (Listed(s) \/ Acquired(s) => Listed(s)' \/ Acquired(s)')
  <2>1. Live(s) /\ \A k \in gone : instances[k] # s
    BY <1>1, <1>3 DEF Live
  <2>2. Listed(s) => Listed(s)'
    BY <2>1 DEF Listed, Stop
  <2> QED
    BY <2>1, <2>2 DEF Acquired, Acquiring
<1> QED
  BY <1>2, <1>3, EscapeKept

LEMMA EscapeStep ==
  ASSUME IInv, OnlyDuplicatesEscape, [Next]_vars
  PROVE  OnlyDuplicatesEscape'
<1>1. CASE \E r \in Runs : Request(r)
  BY <1>1, EscapeRequest
<1>2. CASE EvictIdle
  <2>1. IdleKeys \in SUBSET HeldKeys
    BY DEF IdleKeys
  <2> QED
    BY <1>2, <2>1, EscapeStop DEF EvictIdle
<1>3. CASE Shutdown
  BY <1>3, EscapeStop DEF Shutdown
<1>4. ASSUME NEW s \in Servers, Loaded(s) \/ Crash(s)
      PROVE  OnlyDuplicatesEscape'
  <2>1. PICK p \in {"ready", "dead"} : process' = [process EXCEPT ![s] = p]
    BY <1>4 DEF Loaded, Crash
  <2>2. /\ UNCHANGED <<instances, key, run, daemon>> /\ Live(s)
        /\ process \in [Servers -> {"none", "loading", "ready", "dead", "killed"}]
    BY <1>4 DEF Loaded, Crash, Live, IInv, TypeOK
  <2>3. Lasting
    BY <2>1, <2>2 DEF Lasting
  <2>4. \A t \in Servers : Live(t)' => Live(t)
    BY <2>1, <2>2 DEF Live
  <2> QED
    BY <2>2, <2>3, <2>4, EscapeKept DEF Listed, Acquired, Acquiring
<1>5. CASE Exit
  BY <1>5 DEF Exit, OnlyDuplicatesEscape
<1>6. CASE Interrupt \/ Done \/ UNCHANGED vars \/ \E s \in Servers : Ages(s)
  BY <1>6, EscapeQuiet DEF Interrupt, Done, Ages, vars, Acquiring
<1> QED
  BY <1>1, <1>2, <1>3, <1>4, <1>5, <1>6 DEF Next

-----------------------------------------------------------------------------
(* The state of the pool is well formed, whatever requests, crashes,       *)
(* evictions and shutdown do together.                                     *)
THEOREM TypeCorrect == Spec => []TypeOK
<1>1. IInv => TypeOK
  BY DEF IInv
<1> QED
  BY <1>1, InitIInv, NextIInv, PTL DEF Spec

(* A run is answered by a server of its own model, device and templating:  *)
(* ports may be reused and dead servers stay in the table, but a request   *)
(* carries the key of the server it was given, and only that one answers.  *)
THEOREM AnswersOwn == Spec => []OwnModelAnswers
<1>1. IInv => OwnModelAnswers
  BY DEF IInv
<1> QED
  BY <1>1, InitIInv, NextIInv, PTL DEF Spec

(* No entry of the table names a server the pool has killed.               *)
THEOREM NeverHandsOutKilled == Spec => []KilledForgotten
<1>1. IInv => KilledForgotten
  BY DEF IInv
<1> QED
  BY <1>1, InitIInv, NextIInv, PTL DEF Spec

(* The pool loses a server that runs only when two were started for one    *)
(* key: an insertion overwrites what another put there meanwhile (acquire),*)
(* and no crash, timeout, eviction or cancelled request loses any.         *)
THEOREM EscapesAreDuplicates == Spec => []OnlyDuplicatesEscape
<1>1. Init => OnlyDuplicatesEscape
  BY DEF Init, OnlyDuplicatesEscape, Live
<1> QED
  BY <1>1, InitIInv, NextIInv, EscapeStep, PTL DEF Spec
=============================================================================
