------------------------------ MODULE WarmPool ------------------------------
(***************************************************************************)
(* Warm models (src/internal/engine/llamaserver.go): a table of            *)
(* llama-server processes, one per model, device and templating, shared by *)
(* every request of the daemon (src/internal/daemon/daemon.go).  The table *)
(* is locked for a lookup or an insertion and never while a server starts; *)
(* the idle timer evicts meanwhile, servers crash, and the daemon ends.    *)
(*                                                                         *)
(* A server is the number of the start it came from, 0 is none.            *)
(***************************************************************************)
EXTENDS Naturals

CONSTANTS
  Runs,        \* the requests served at once
  Keys,        \* model, device and templating: what a server is started for
  Ports,       \* the TCP ports the machine hands out
  MaxServers   \* bound: how many servers are ever started

ASSUME ConstantsAssumption == MaxServers \in Nat

Servers == 1..MaxServers

VARIABLES
  instances,   \* the table: the server held for each key, or 0
  process,     \* what the operating system knows of each server
  key,         \* the key each server was started for
  port,        \* and the port it was told to listen on
  old,         \* servers acquired longer ago than the idle timeout
  run,         \* each request: where it is and what it holds
  daemon       \* "serving", then "closing" (interrupted), "closed", "exited"

serverVars == <<process, key, port>>
vars == <<instances, serverVars, old, run, daemon>>

Idle == [at |-> "idle", key |-> 0, port |-> 0, server |-> 0, from |-> 0, counted |-> "miss"]

Init ==
  /\ instances = [k \in Keys |-> 0]
  /\ process = [s \in Servers |-> "none"]
  /\ key = [s \in Servers |-> 0]
  /\ port = [s \in Servers |-> 0]
  /\ old = {}
  /\ run = [r \in Runs |-> Idle]
  /\ daemon = "serving"

Live(s) == process[s] \in {"loading", "ready"}

Listens(s, p) == Live(s) /\ port[s] = p

FreePort(p) == \A s \in Servers : ~Listens(s, p)

At(r, point) == daemon # "exited" /\ run[r].at = point
Goto(r, point) == run' = [run EXCEPT ![r].at = point]
Leave(r) == run' = [run EXCEPT ![r] = Idle]

(* ready and alive(): nothing ever fills in the ProcessState alive looks   *)
(* at, so a server in the table always passes.                             *)
Held(k) == instances[k] # 0

-----------------------------------------------------------------------------
(* Pool.Run and Generate, for one request.                                 *)

(* IsWarm, asked before anything is acquired, counts the run as a hit or a *)
(* miss, and so does its answer.                                           *)
AskWarm(r) ==
  /\ daemon = "serving" /\ run[r].at = "idle"
  /\ \E k \in Keys :
       run' = [run EXCEPT ![r] = [Idle EXCEPT !.at = "asked", !.key = k,
                                              !.counted = IF Held(k) THEN "hit" ELSE "miss"]]
  /\ UNCHANGED <<instances, serverVars, old, daemon>>

Reuse(r) ==
  /\ At(r, "asked") /\ Held(run[r].key)
  /\ LET s == instances[run[r].key]
     IN  /\ old' = old \ {s}
         /\ run' = [run EXCEPT ![r].at = "posting", ![r].server = s]
  /\ UNCHANGED <<instances, serverVars, daemon>>

Miss(r) ==
  /\ At(r, "asked") /\ ~Held(run[r].key)
  /\ Goto(r, "missed")
  /\ UNCHANGED <<instances, serverVars, old, daemon>>

(* freePort listens and stops listening: the port is free, not reserved.   *)
PickPort(r) ==
  /\ At(r, "missed")
  /\ \/ \E p \in Ports :
          FreePort(p) /\ run' = [run EXCEPT ![r].at = "picked", ![r].port = p]
     \/ Leave(r)
  /\ UNCHANGED <<instances, serverVars, old, daemon>>

(* A server whose port was taken meanwhile exits at once.                  *)
StartServer(r) ==
  /\ At(r, "picked")
  /\ \E s \in Servers :
       /\ process[s] = "none" /\ \A t \in Servers : process[t] = "none" => s <= t
       /\ process' = [process EXCEPT ![s] = IF FreePort(run[r].port) THEN "loading" ELSE "dead"]
       /\ key' = [key EXCEPT ![s] = run[r].key]
       /\ port' = [port EXCEPT ![s] = run[r].port]
       /\ run' = [run EXCEPT ![r].at = "loading", ![r].server = s]
  /\ UNCHANGED <<instances, old, daemon>>

StartFails(r) ==
  /\ At(r, "picked")
  /\ Leave(r)
  /\ UNCHANGED <<instances, serverVars, old, daemon>>

(* waitReady asks the port, which needs no key: whoever listens there      *)
(* answers that it is ready.                                               *)
SeemsReady(r) ==
  /\ At(r, "loading")
  /\ \E o \in Servers : process[o] = "ready" /\ port[o] = run[r].port
  /\ Goto(r, "loaded")
  /\ UNCHANGED <<instances, serverVars, old, daemon>>

(* Broken: the server that was given up is left to itself.                 *)
NeverReadyLeft(r) ==
  /\ At(r, "loading")
  /\ Leave(r)
  /\ UNCHANGED <<instances, serverVars, old, daemon>>

(* Cancelled, or ten minutes passed: the server just started is killed.    *)
NeverReady(r) ==
  /\ At(r, "loading")
  /\ process' = [process EXCEPT ![run[r].server] = "killed"]
  /\ Leave(r)
  /\ UNCHANGED <<instances, key, port, old, daemon>>

(* Whatever the table holds for the key by now is overwritten.             *)
Insert(r) ==
  /\ At(r, "loaded")
  /\ instances' = [instances EXCEPT ![run[r].key] = run[r].server]
  /\ Goto(r, "posting")
  /\ UNCHANGED <<serverVars, old, daemon>>

(* Broken: servers are started without a key.                              *)
AcceptsAnyone(o, s) == o \in Servers /\ s \in Servers

(* A server answers only requests that carry the key it was started with.  *)
Accepts(o, s) == o = s

(* The request goes to the port; the answer is from whoever listens there. *)
Answer(r) ==
  /\ At(r, "posting")
  /\ \E o \in Servers :
       /\ process[o] = "ready" /\ port[o] = port[run[r].server]
       /\ Accepts(o, run[r].server)
       /\ run' = [run EXCEPT ![r].at = "answered", ![r].from = o]
  /\ UNCHANGED <<instances, serverVars, old, daemon>>

(* Broken: a failed request is parked where nothing picks it up.           *)
PostFailsParked(r) ==
  /\ At(r, "posting")
  /\ Goto(r, "failed")
  /\ UNCHANGED <<instances, serverVars, old, daemon>>

(* Nobody listens, the key is refused, the server dies under the request,  *)
(* or the request is cancelled.  The entry stays in the table.             *)
PostFails(r) ==
  /\ At(r, "posting")
  /\ Leave(r)
  /\ UNCHANGED <<instances, serverVars, old, daemon>>

Respond(r) ==
  /\ At(r, "answered")
  /\ Leave(r)
  /\ UNCHANGED <<instances, serverVars, old, daemon>>

Request(r) ==
  \/ AskWarm(r) \/ Reuse(r) \/ Miss(r) \/ PickPort(r) \/ StartServer(r) \/ StartFails(r)
  \/ SeemsReady(r) \/ NeverReady(r) \/ Insert(r) \/ Answer(r) \/ PostFails(r) \/ Respond(r)

-----------------------------------------------------------------------------
(* The servers themselves, and time.                                       *)
Loaded(s) ==
  /\ process[s] = "loading"
  /\ process' = [process EXCEPT ![s] = "ready"]
  /\ UNCHANGED <<instances, key, port, old, run, daemon>>

Crash(s) ==
  /\ Live(s)
  /\ process' = [process EXCEPT ![s] = "dead"]
  /\ UNCHANGED <<instances, key, port, old, run, daemon>>

Ages(s) ==
  /\ daemon # "exited" /\ s \notin old /\ \E k \in Keys : instances[k] = s
  /\ old' = old \cup {s}
  /\ UNCHANGED <<instances, serverVars, run, daemon>>

-----------------------------------------------------------------------------
(* Every entry in the set is killed and forgotten, under the lock.         *)
Stop(gone) ==
  /\ instances' = [k \in Keys |-> IF k \in gone THEN 0 ELSE instances[k]]
  /\ process' = [s \in Servers |->
                   IF \E k \in gone : instances[k] = s THEN "killed" ELSE process[s]]

HeldKeys == {k \in Keys : Held(k)}
IdleKeys == {k \in HeldKeys : instances[k] \in old}

(* Broken: an evicted server is killed and its entry kept.                 *)
EvictKept ==
  /\ daemon \in {"serving", "closing"} /\ IdleKeys # {}
  /\ process' = [s \in Servers |->
                   IF \E k \in IdleKeys : instances[k] = s THEN "killed" ELSE process[s]]
  /\ UNCHANGED <<instances, key, port, old, run, daemon>>

(* The ticker: EvictIdle.                                                  *)
EvictIdle ==
  /\ daemon \in {"serving", "closing"} /\ IdleKeys # {}
  /\ Stop(IdleKeys)
  /\ UNCHANGED <<key, port, old, run, daemon>>

(* Interrupted, the daemon stops listening and returns at once: requests   *)
(* still run while it closes.                                              *)
Interrupt ==
  /\ daemon = "serving"
  /\ daemon' = "closing"
  /\ UNCHANGED <<instances, serverVars, old, run>>

(* Shutdown runs twice: in the goroutine that evicts and, deferred, in the *)
(* command, which then ends the process and its requests.                  *)
Shutdown ==
  /\ daemon = "closing"
  /\ Stop(HeldKeys)
  /\ daemon' \in {"closing", "closed"}
  /\ UNCHANGED <<key, port, old, run>>

Exit ==
  /\ daemon = "closed"
  /\ daemon' = "exited"
  /\ run' = [r \in Runs |-> Idle]
  /\ UNCHANGED <<instances, serverVars, old>>

Done == daemon = "exited" /\ UNCHANGED vars

Next ==
  \/ EvictIdle \/ Interrupt \/ Shutdown \/ Exit \/ Done
  \/ \E r \in Runs : Request(r)
  \/ \E s \in Servers : Loaded(s) \/ Crash(s) \/ Ages(s)

Spec == Init /\ [][Next]_vars

-----------------------------------------------------------------------------
Points == {"idle", "asked", "missed", "picked", "loading", "loaded", "posting", "answered"}

TypeOK ==
  /\ instances \in [Keys -> 0..MaxServers]
  /\ process \in [Servers -> {"none", "loading", "ready", "dead", "killed"}]
  /\ key \in [Servers -> Keys \cup {0}] /\ port \in [Servers -> Ports \cup {0}]
  /\ old \in SUBSET Servers
  /\ run \in [Runs -> [at : Points, key : Keys \cup {0}, port : Ports \cup {0},
                       server : 0..MaxServers, from : 0..MaxServers, counted : {"hit", "miss"}]]
  /\ daemon \in {"serving", "closing", "closed", "exited"}

(* A run is answered by a server of its own model, device and templating,  *)
(* although ports are handed out again, dead servers stay in the table and *)
(* waitReady takes anyone's word: Generate relies on table and key for it. *)
OwnModelAnswers ==
  \A r \in Runs : run[r].at = "answered" => key[run[r].from] = run[r].key

(* What the pool kills it forgets: no entry names a server it killed, so   *)
(* no later acquire returns one.                                           *)
KilledForgotten ==
  \A k \in Keys : Held(k) => process[instances[k]] # "killed"

(* The pool loses track of a server that runs, so that neither Shutdown    *)
(* nor eviction reaches it, only when two were started for one key: no     *)
(* crash, timeout, eviction or cancelled request leaves one behind.        *)
OnlyDuplicatesEscape ==
  daemon # "exited" =>
    \A s \in Servers : Live(s) =>
      \/ \E k \in Keys : instances[k] = s
      \/ \E r \in Runs : run[r].at \in {"loading", "loaded"} /\ run[r].server = s
      \/ \E t \in Servers \ {s} : process[t] # "none" /\ key[t] = key[s]

-----------------------------------------------------------------------------
(* What the comments say of a step, and the code does not do: put to the   *)
(* test together in MCWarmPoolClaims.                                      *)

(* "Shutdown stops every running server" (llamaserver.go:416), those a     *)
(* request is still acquiring excepted.                                    *)
StopsEveryServer ==
  Shutdown => \A s \in Servers : process'[s] = "ready" =>
    \E r \in Runs : run[r].at \in {"loading", "loaded"} /\ run[r].server = s

(* "acquire returns a ready server for the model, reusing a running one"   *)
(* (llamaserver.go:299), not one that crashed.                             *)
ReusesRunning == \A r \in Runs : Reuse(r) => Live(instances[run[r].key])
=============================================================================
