------------------------------- MODULE Studio -------------------------------
(***************************************************************************)
(* The workflow editor's server (src/internal/studio): the pages that are  *)
(* open on it, when a server without a terminal stops (workspace.go), and  *)
(* the one run or model test it starts at a time as a process of its own   *)
(* (run.go).                                                               *)
(*                                                                         *)
(* Time is counted in units of which a ping every PingEvery is sent, and   *)
(* kept as ages that stop growing once they cannot matter any more.        *)
(***************************************************************************)
EXTENDS Naturals, FiniteSets

CONSTANTS
  Pages,        \* windows or tabs; one that closed may be opened again
  PingEvery,    \* how often an open page pings
  CloseGrace, Silence, NeverOpened   \* the limits of liveness

(* studio.html pings every 5 s, a reload is given 8 s.                     *)
StudioAssumption ==
  /\ PingEvery \in Nat \ {0} /\ PingEvery <= CloseGrace
  /\ CloseGrace <= Silence /\ NeverOpened \in Nat /\ CloseGrace \in Nat /\ Silence \in Nat

VARIABLES
  server,    \* "up", or why it is gone: "closed", "signal"
  page,      \* per page: "away" or "open"
  due,       \* time until an open page's next ping
  flight,    \* requests sent and not handled yet
  closing,   \* liveness: age of the last closing, or none of it
  pinged, lastPing, sinceStart,
  watcher,   \* the watcher: "waits", "expired" found, or "stops"
  looked,    \* the pages it was heard from when it found the time expired
  busy,      \* the slot of the one run
  req,       \* per page: what it asked for
  phase,     \* per page: where the handler of that is
  gone,      \* pages that have ended the request: a stop, or the page is away
  child,     \* per handler: its process
  dones      \* "done" events a page has been sent for its run

liveness == <<closing, pinged, lastPing, sinceStart>>
watch == <<watcher, looked>>
runs == <<busy, req, phase, gone, child, dones>>
vars == <<server, page, due, flight, liveness, watch, runs>>

NotClosing == Silence + 2
Older(age, limit) == IF age <= limit THEN age + 1 ELSE age

Init ==
  /\ server = "up"
  /\ page = [p \in Pages |-> "away"] /\ due = [p \in Pages |-> 0] /\ flight = {}
  /\ closing = NotClosing /\ pinged = FALSE /\ lastPing = 0 /\ sinceStart = 0
  /\ watcher = "waits" /\ looked = {}
  /\ gone = {} /\ busy = FALSE /\ req = [p \in Pages |-> "none"] /\ phase = [p \in Pages |-> "none"]
  /\ child = [p \in Pages |-> "none"]
  /\ dones = [p \in Pages |-> 0]

-----------------------------------------------------------------------------
(* Pages.  One that closes says so; one that crashes does not; both close  *)
(* their connections.                                                      *)
OpenPages == {p \in Pages : page[p] = "open"}
Heard == {p \in OpenPages : <<"ping", p>> \notin flight}

OpenPage(p) ==
  /\ server = "up" /\ page[p] # "open" /\ phase[p] = "none"
  /\ page' = [page EXCEPT ![p] = "open"] /\ due' = [due EXCEPT ![p] = PingEvery]
  /\ flight' = flight \cup {<<"ping", p>>}
  /\ req' = [req EXCEPT ![p] = "none"]
  /\ UNCHANGED <<server, liveness, watch, busy, phase, gone, child, dones>>

Ping(p) ==
  /\ server = "up" /\ page[p] = "open" /\ due[p] = 0
  /\ flight' = flight \cup {<<"ping", p>>} /\ due' = [due EXCEPT ![p] = PingEvery]
  /\ UNCHANGED <<server, page, liveness, watch, runs>>

LeavePage(p) ==
  /\ server = "up" /\ page[p] = "open"
  /\ page' = [page EXCEPT ![p] = "away"] /\ due' = [due EXCEPT ![p] = 0]
  /\ flight' \in {flight, flight \cup {<<"closing", p>>}}
  /\ dones' = [dones EXCEPT ![p] = 0]
  /\ gone' = IF phase[p] = "none" THEN gone ELSE gone \cup {p}
  /\ UNCHANGED <<server, liveness, watch, busy, req, phase, child>>

(* Broken: a page that comes back does not take its closing back.          *)
HandleForGood ==
  \E m \in flight :
    /\ server = "up" /\ flight' = flight \ {m}
    /\ IF m[1] = "ping" THEN pinged' = TRUE /\ lastPing' = 0 /\ UNCHANGED closing
                        ELSE closing' = 0 /\ UNCHANGED <<pinged, lastPing>>
    /\ UNCHANGED <<server, page, due, sinceStart, watch, runs>>

(* The handlers of ping and closing, in whichever order they come.         *)
Handle ==
  \E m \in flight :
    /\ server = "up" /\ flight' = flight \ {m}
    /\ IF m[1] = "ping" THEN pinged' = TRUE /\ lastPing' = 0 /\ closing' = NotClosing
                        ELSE closing' = 0 /\ UNCHANGED <<pinged, lastPing>>
    /\ UNCHANGED <<server, page, due, sinceStart, watch, runs>>

(* Time passes once nothing is on its way and every ping due is sent.      *)
Tick ==
  /\ server = "up" /\ flight = {} /\ \A p \in OpenPages : due[p] > 0
  /\ due' = [p \in Pages |-> IF p \in OpenPages THEN due[p] - 1 ELSE due[p]]
  /\ closing' = IF closing = NotClosing THEN closing ELSE Older(closing, CloseGrace)
  /\ lastPing' = IF pinged THEN Older(lastPing, Silence) ELSE lastPing
  /\ sinceStart' = IF pinged THEN sinceStart ELSE Older(sinceStart, NeverOpened)
  /\ UNCHANGED <<server, page, flight, pinged, watch, runs>>

-----------------------------------------------------------------------------
(* The watcher of --quit-when-closed looks at the ages, then at the slot,  *)
(* then has the server stopped; pages and runs go on in between.           *)
Expired ==
  IF closing # NotClosing THEN closing > CloseGrace
  ELSE IF pinged THEN lastPing > Silence
  ELSE sinceStart > NeverOpened

Look ==
  /\ server = "up" /\ watcher = "waits" /\ Expired
  /\ watcher' = "expired" /\ looked' = Heard
  /\ UNCHANGED <<server, page, due, flight, liveness, runs>>

CheckSlot ==
  /\ server = "up" /\ watcher = "expired"
  /\ watcher' = IF busy THEN "waits" ELSE "stops"
  /\ looked' = IF busy THEN {} ELSE looked
  /\ UNCHANGED <<server, page, due, flight, liveness, runs>>

(* Serve returns as soon as Shutdown closes the listener, and the process  *)
(* with it: it does not wait for its handlers.                             *)
Gone(why) ==
  /\ server' = why /\ watcher' = "waits" /\ looked' = {} /\ flight' = {}
  /\ page' = [p \in Pages |-> "away"] /\ due' = [p \in Pages |-> 0]
  /\ closing' = NotClosing /\ pinged' = FALSE /\ lastPing' = 0 /\ sinceStart' = 0
  /\ phase' = [p \in Pages |-> "none"] /\ busy' = FALSE /\ gone' = {}
  /\ dones' = [p \in Pages |-> 0]
  /\ UNCHANGED <<req, child>>

Stop == server = "up" /\ watcher = "stops" /\ Gone("closed")

Terminate == server = "up" /\ Gone("signal")

-----------------------------------------------------------------------------
(* A run of the workflow, or the test of a model that the scan found.  A   *)
(* page that asks again while its last run winds up is refused as another  *)
(* page would be.                                                          *)
AskRun(p) ==
  /\ server = "up" /\ page[p] = "open" /\ phase[p] = "none"
  /\ \E kind \in {"run", "test"} : req' = [req EXCEPT ![p] = kind]
  /\ phase' = [phase EXCEPT ![p] = "asked"]
  /\ dones' = [dones EXCEPT ![p] = 0]
  /\ UNCHANGED <<server, page, due, flight, liveness, watch, busy, gone, child>>

(* The Stop button, or closing the sheet: the page ends its request.       *)
StopButton(p) ==
  /\ server = "up" /\ page[p] = "open" /\ phase[p] # "none" /\ req[p] = "run"
  /\ gone' = gone \cup {p}
  /\ UNCHANGED <<server, page, due, flight, liveness, watch, busy, req, phase, child, dones>>

(* The slot is taken with a compare-and-swap, or the request refused.      *)
Claim(p) ==
  /\ phase[p] = "asked"
  /\ phase' = [phase EXCEPT ![p] = IF busy THEN "none" ELSE "claimed"]
  /\ busy' = TRUE
  /\ req' = IF busy THEN [req EXCEPT ![p] = "none"] ELSE req
  /\ gone' = IF busy THEN gone \ {p} ELSE gone
  /\ UNCHANGED <<server, page, due, flight, liveness, watch, child, dones>>

Release(p) ==
  /\ phase' = [phase EXCEPT ![p] = "none"] /\ busy' = FALSE /\ gone' = gone \ {p}

(* No directory, no file, no process.                                      *)
StartFails(p) ==
  /\ phase[p] = "claimed"
  /\ Release(p)
  /\ req' = [req EXCEPT ![p] = "none"]
  /\ UNCHANGED <<server, page, due, flight, liveness, watch, child, dones>>

Start(p) ==
  /\ phase[p] = "claimed"
  /\ phase' = [phase EXCEPT ![p] = "waiting"] /\ child' = [child EXCEPT ![p] = "alive"]
  /\ UNCHANGED <<server, page, due, flight, liveness, watch, busy, req, gone, dones>>

(* The process ends by itself.  A workflow that was reached says "done".   *)
ChildEnds(p) ==
  /\ child[p] = "alive"
  /\ child' = [child EXCEPT ![p] = "ended"]
  /\ \E said \in IF req[p] = "run" /\ p \notin gone THEN {0, 1} ELSE {0} :
       dones' = [dones EXCEPT ![p] = said]
  /\ UNCHANGED <<server, page, due, flight, liveness, watch, busy, req, phase, gone>>

(* The request is gone, or a test has taken five minutes: an interrupt.    *)
(* `compose up` catches it and winds up; `run` does not, and dies of it.   *)
Interrupt(p) ==
  /\ phase[p] = "waiting" /\ child[p] = "alive"
  /\ p \in gone \/ req[p] = "test"
  /\ child' = [child EXCEPT ![p] = IF req[p] = "run" THEN "asked" ELSE "ended"]
  /\ UNCHANGED <<server, page, due, flight, liveness, watch, busy, req, phase, gone, dones>>

WindsUp(p) ==
  /\ child[p] = "asked"
  /\ child' = [child EXCEPT ![p] = "ended"]
  /\ UNCHANGED <<server, page, due, flight, liveness, watch, busy, req, phase, gone, dones>>

(* It is killed after fifteen seconds.                                     *)
KillChild(p) ==
  /\ phase[p] = "waiting" /\ child[p] = "asked"
  /\ child' = [child EXCEPT ![p] = "killed"]
  /\ UNCHANGED <<server, page, due, flight, liveness, watch, busy, req, phase, gone, dones>>

(* The handler says "done" for a run that ended without it, unless the     *)
(* request is gone.                                                        *)
Finish(p) ==
  /\ phase[p] = "waiting" /\ child[p] \in {"ended", "killed"}
  /\ dones' = [dones EXCEPT ![p] =
                 IF req[p] = "run" /\ @ = 0 /\ p \notin gone THEN 1 ELSE @]
  /\ req' = IF p \in gone THEN [req EXCEPT ![p] = "none"] ELSE req
  /\ child' = [child EXCEPT ![p] = "none"]
  /\ Release(p)
  /\ UNCHANGED <<server, page, due, flight, liveness, watch>>

-----------------------------------------------------------------------------
Handler(p) == Claim(p) \/ Start(p) \/ StartFails(p) \/ Finish(p)

Next ==
  \/ Handle \/ Tick \/ Look \/ CheckSlot \/ Stop \/ Terminate
  \/ \E p \in Pages :
       \/ OpenPage(p) \/ Ping(p) \/ LeavePage(p)
       \/ AskRun(p) \/ StopButton(p) \/ Handler(p) \/ Interrupt(p)
       \/ ChildEnds(p) \/ WindsUp(p) \/ KillChild(p)

Spec == Init /\ [][Next]_vars

-----------------------------------------------------------------------------
(* Every variable keeps its type.                                          *)
TypeOK ==
  /\ server \in {"up", "closed", "signal"}
  /\ page \in [Pages -> {"away", "open"}] /\ due \in [Pages -> 0..PingEvery]
  /\ flight \subseteq {"ping", "closing"} \X Pages
  /\ watcher \in {"waits", "expired", "stops"} /\ looked \subseteq Pages
  /\ req \in [Pages -> {"none", "run", "test"}]
  /\ phase \in [Pages -> {"none", "asked", "claimed", "waiting"}] /\ gone \subseteq Pages
  /\ child \in [Pages -> {"none", "alive", "asked", "ended", "killed"}]

(* The watcher never finds the time expired under a page whose pings have  *)
(* arrived, however closings and pings of several windows, reloads and     *)
(* crashes come in: a page it then stops under has come since it looked.   *)
NeverUnderAPage == looked = {}

(* "QuitWhenClosed stops the server once the page has been closed"         *)
(* (studio.go:78): the page, or the one that came in its place, is not open*)
(* when it stops.                                                          *)
StopsOnceClosed == watcher = "stops" => Heard = {}

(* The slot is taken exactly while a handler holds it: no two processes    *)
(* run at once, and a finished handler leaves no process behind, until the *)
(* server is gone.                                                         *)
Held == {p \in Pages : phase[p] \in {"claimed", "waiting"}}

OneRunAtATime ==
  server = "up" =>
    /\ Cardinality(Held) = (IF busy THEN 1 ELSE 0)
    /\ {p \in Pages : child[p] # "none"} \subseteq Held

(* A page that stays, and did not stop the run itself, is told once that   *)
(* its run is done.                                                        *)
ToldOnce ==
  \A p \in Pages : /\ dones[p] <= 1
                   /\ phase[p] = "none" /\ req[p] = "run" /\ page[p] = "open" /\ server = "up"
                        => dones[p] = 1

(* An editor that nobody looks at any more stops: when no page is open,    *)
(* nothing is on its way and the passing of time changes nothing any more, *)
(* the watcher finds its time expired.  It then waits for the one run, and *)
(* that is wound up or killed.                                             *)
Settled ==
  /\ flight = {} /\ (closing = NotClosing \/ closing > CloseGrace)
  /\ IF pinged THEN lastPing > Silence ELSE sinceStart > NeverOpened

AbandonedExpires == server = "up" /\ OpenPages = {} /\ Settled => Expired
=============================================================================
