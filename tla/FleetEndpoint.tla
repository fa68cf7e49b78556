--------------------------- MODULE FleetEndpoint ---------------------------
(***************************************************************************)
(* `nexus fleet serve` (src/internal/fleet/serve.go): one goroutine polls  *)
(* the control plane, tests candidates and moves the active release; any   *)
(* number of request handlers answer with the active release through one   *)
(* mutex; the process shuts down while handlers still run.                 *)
(*                                                                         *)
(* Releases are numbered in the order they are activated; 0 is none.       *)
(***************************************************************************)
EXTENDS Naturals

CONSTANTS
  Clients,      \* the request handlers
  MaxRelease,   \* bound: how many releases the control plane publishes
  Nobody        \* no holder of the mutex

ASSUME ConstantsAssumption ==
  MaxRelease \in Nat /\ Nobody \notin Clients \cup {"loop"} /\ "loop" \notin Clients

Releases == 1..MaxRelease

VARIABLES
  loop,       \* where the serving goroutine is
  candidate,  \* the release under test, or 0
  active,     \* the active release on disk, or 0
  testing,    \* the flag handlers look at
  mu,         \* who holds the mutex
  loaded,     \* the release whose agent is open, or 0
  process,    \* the open agent's model server runs
  req,        \* each handler: where it is, and what it saw
  interrupted \* the operator asked the process to stop

loopVars == <<loop, candidate, interrupted>>
modelVars == <<mu, loaded, process>>
vars == <<loopVars, active, testing, modelVars, req>>

Idle == [at |-> "idle", kind |-> "chat", since |-> 0, got |-> 0]

Init ==
  /\ loop = "poll" /\ candidate = 0 /\ interrupted = FALSE
  /\ active \in 0..MaxRelease
  /\ testing = FALSE
  /\ mu = Nobody /\ loaded = 0 /\ process = FALSE
  /\ req = [c \in Clients |-> Idle]

Unload == loaded' = 0 /\ process' = FALSE

-----------------------------------------------------------------------------
(* The serving goroutine: a sync, then a wait for the interval or the end. *)

(* The sync finds nothing to test, or fails.                               *)
NothingNew ==
  /\ loop = "poll"
  /\ loop' = "wait"
  /\ UNCHANGED <<candidate, interrupted, active, testing, modelVars, req>>

(* Endpoint.Prepare raises the flag before it takes the mutex.             *)
RaiseFlag ==
  /\ loop = "poll"
  /\ \E n \in Releases : n > active /\ candidate' = n
  /\ testing' = TRUE
  /\ loop' = "flagged"
  /\ UNCHANGED <<interrupted, active, modelVars, req>>

(* Broken: the loaded release stays loaded.                                *)
StartTestLoaded ==
  /\ loop = "flagged"
  /\ mu = Nobody
  /\ mu' = "loop"
  /\ loop' = "test"
  /\ UNCHANGED <<candidate, interrupted, active, testing, loaded, process, req>>

(* It waits for the generation that holds the mutex, unloads, and tests.   *)
StartTest ==
  /\ loop = "flagged"
  /\ mu = Nobody
  /\ mu' = "loop"
  /\ Unload
  /\ loop' = "test"
  /\ UNCHANGED <<candidate, interrupted, active, testing, req>>

(* The test ends and the mutex is released, before the flag is lowered.    *)
EndTest ==
  /\ loop = "test"
  /\ mu' = Nobody
  /\ loop' = "tested"
  /\ UNCHANGED <<candidate, interrupted, active, testing, loaded, process, req>>

(* Broken: the flag stays up.                                              *)
LowerFlagNever ==
  /\ loop = "tested"
  /\ loop' = "decide"
  /\ UNCHANGED <<candidate, interrupted, active, testing, modelVars, req>>

LowerFlag ==
  /\ loop = "tested"
  /\ testing' = FALSE
  /\ loop' = "decide"
  /\ UNCHANGED <<candidate, interrupted, active, modelVars, req>>

(* The rest of syncLocked: the candidate becomes the active release on     *)
(* disk, or does not.  No mutex is held.                                   *)
Decide ==
  /\ loop = "decide"
  /\ active' \in {active, candidate}
  /\ candidate' = 0
  /\ loop' = "wait"
  /\ UNCHANGED <<interrupted, testing, modelVars, req>>

(* The interval passes.                                                    *)
NextPoll ==
  /\ loop = "wait" /\ ~interrupted
  /\ loop' = "poll"
  /\ UNCHANGED <<candidate, interrupted, active, testing, modelVars, req>>

Interrupt ==
  /\ loop # "exited" /\ ~interrupted
  /\ interrupted' = TRUE
  /\ UNCHANGED <<loop, candidate, active, testing, modelVars, req>>

(* Interrupted, it stops listening and waits for handlers, five seconds at *)
(* most; a listener that failed makes it return at once.                   *)
StopListening ==
  /\ loop = "wait"
  /\ \/ interrupted /\ loop' = "drain"
     \/ loop' = "close"
  /\ UNCHANGED <<candidate, interrupted, active, testing, modelVars, req>>

Drained ==
  /\ loop = "drain"
  /\ loop' = "close"
  /\ UNCHANGED <<candidate, interrupted, active, testing, modelVars, req>>

(* The deferred Close unloads under the mutex, then the process exits; its *)
(* handlers die with it, a model server it started does not.               *)
Close ==
  /\ loop = "close"
  /\ mu = Nobody
  /\ Unload
  /\ loop' = "closed"
  /\ UNCHANGED <<candidate, interrupted, active, testing, mu, req>>

Exit ==
  /\ loop = "closed"
  /\ loop' = "exited"
  /\ mu' = Nobody
  /\ req' = [c \in Clients |-> Idle]
  /\ UNCHANGED <<candidate, interrupted, active, testing, loaded, process>>

Loop ==
  \/ NothingNew \/ RaiseFlag \/ StartTest \/ EndTest \/ LowerFlag \/ Decide
  \/ NextPoll \/ StopListening \/ Drained \/ Close \/ Exit

-----------------------------------------------------------------------------
(* The handlers of /v1/chat/completions and /v1/models.                    *)
Running == loop # "exited"
Listening == loop \notin {"drain", "close", "closed", "exited"}

At(c, point) == Running /\ req[c].at = point
Goto(c, point) == req' = [req EXCEPT ![c].at = point]

Arrive(c) ==
  /\ Listening /\ req[c].at = "idle"
  /\ \E k \in {"chat", "models"} :
       req' = [req EXCEPT ![c] = [at |-> "arrived", kind |-> k, since |-> active, got |-> 0]]
  /\ UNCHANGED <<loopVars, active, testing, modelVars>>

(* 503 with Retry-After while a candidate is tested.                       *)
Busy(c) ==
  /\ At(c, "arrived") /\ testing
  /\ Goto(c, "idle")
  /\ UNCHANGED <<loopVars, active, testing, modelVars>>

PassFlag(c) ==
  /\ At(c, "arrived") /\ ~testing
  /\ Goto(c, "waiting")
  /\ UNCHANGED <<loopVars, active, testing, modelVars>>

Acquire(c) ==
  /\ At(c, "waiting") /\ mu = Nobody
  /\ mu' = c
  /\ Goto(c, "loading")
  /\ UNCHANGED <<loopVars, active, testing, loaded, process>>

(* Broken: whatever is loaded is good enough.                              *)
LoadOnce(c) ==
  /\ At(c, "loading")
  /\ active # 0
  /\ IF loaded # 0
       THEN UNCHANGED <<loaded, process>>
       ELSE loaded' = active /\ process' = FALSE
  /\ req' = [req EXCEPT ![c].at = "answering", ![c].got = loaded']
  /\ UNCHANGED <<loopVars, active, testing, mu>>

(* load: the active release is read from disk; another release is closed   *)
(* before it is opened.                                                    *)
Load(c) ==
  /\ At(c, "loading")
  /\ active # 0
  /\ IF loaded = active
       THEN UNCHANGED <<loaded, process>>
       ELSE loaded' = active /\ process' = FALSE
  /\ req' = [req EXCEPT ![c].at = "answering", ![c].got = active]
  /\ UNCHANGED <<loopVars, active, testing, mu>>

(* 503: no active release, one that cannot be read, or one that cannot be  *)
(* opened; only the last leaves nothing loaded.                            *)
LoadFails(c) ==
  /\ At(c, "loading")
  /\ \/ UNCHANGED <<loaded, process>>
     \/ active # 0 /\ loaded # active /\ Unload
  /\ Goto(c, "idle")
  /\ mu' = Nobody
  /\ UNCHANGED <<loopVars, active, testing>>

(* A chat starts the model server when it does not run.                    *)
Generate(c) ==
  /\ At(c, "answering") /\ req[c].kind = "chat"
  /\ process' = TRUE
  /\ Goto(c, "generating")
  /\ UNCHANGED <<loopVars, active, testing, mu, loaded>>

Answer(c) ==
  /\ At(c, "generating") \/ (At(c, "answering") /\ req[c].kind = "models")
  /\ Goto(c, "idle")
  /\ mu' = Nobody
  /\ UNCHANGED <<loopVars, active, testing, loaded, process>>

Handler(c) ==
  \/ Busy(c) \/ PassFlag(c) \/ Acquire(c) \/ Load(c) \/ LoadFails(c)
  \/ Generate(c) \/ Answer(c)

Done == loop = "exited" /\ UNCHANGED vars

Next == Loop \/ Interrupt \/ Done \/ \E c \in Clients : Arrive(c) \/ Handler(c)

Spec == Init /\ [][Next]_vars

(* The goroutines run, a test and a generation end (both are bounded), and *)
(* Go's mutex starves no waiter.                                           *)
Fairness ==
  /\ WF_vars(Loop)
  /\ SF_vars(StartTest) /\ SF_vars(Close)
  /\ \A c \in Clients : WF_vars(Handler(c)) /\ SF_vars(Acquire(c))

FairSpec == Spec /\ Fairness

-----------------------------------------------------------------------------
Points == {"idle", "arrived", "waiting", "loading", "answering", "generating"}

TypeOK ==
  /\ loop \in {"poll", "flagged", "test", "tested", "decide", "wait", "drain", "close",
               "closed", "exited"}
  /\ candidate \in 0..MaxRelease /\ active \in 0..MaxRelease /\ loaded \in 0..MaxRelease
  /\ testing \in BOOLEAN /\ process \in BOOLEAN /\ interrupted \in BOOLEAN
  /\ mu \in Clients \cup {"loop", Nobody}
  /\ req \in [Clients -> [at : Points, kind : {"chat", "models"},
                          since : 0..MaxRelease, got : 0..MaxRelease]]

(* A candidate is tested alone: no agent is open and no model server runs, *)
(* whatever requests were in flight when the test began.                   *)
TestedAlone == loop = "test" => loaded = 0 /\ ~process

(* A request is never answered with a release older than the one active    *)
(* when it arrived: the switch happens on the first request after it.      *)
NoStaleAnswer ==
  \A c \in Clients : req[c].at \in {"answering", "generating"} => req[c].got >= req[c].since

(* The agent a handler answers with stays open, and is the only one, until *)
(* the handler is done: neither a test nor Close closes it underneath.     *)
AgentHeld ==
  \A c \in Clients :
    req[c].at \in {"answering", "generating"} =>
      /\ loaded = req[c].got
      /\ req[c].at = "generating" => process

(* Both: while load's handler answers, the agent in its hands is current.  *)
CurrentAnswerHeld == AgentHeld /\ NoStaleAnswer

(* Every request is answered, refused or dropped with the process; and a   *)
(* raised flag leads to a test or a result, and is lowered again: neither  *)
(* waiting requests nor a shutdown leave the endpoint busy for ever.       *)
NobodyWaitsForEver ==
  /\ \A c \in Clients : req[c].at # "idle" ~> req[c].at = "idle"
  /\ testing ~> ~testing

-----------------------------------------------------------------------------
(* What the comments say and the code does not do.                         *)

(* Requests are turned away until the test finishes (the comment on        *)
(* Prepare): none waits for it.                                            *)
TurnedAwayDuringTest == loop = "test" => \A c \in Clients : req[c].at # "waiting"
=============================================================================
