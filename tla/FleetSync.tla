----------------------------- MODULE FleetSync -----------------------------
(***************************************************************************)
(* One fleet host: syncLocked (src/internal/fleet/sync.go) step by step,   *)
(* with the private state file it keeps, a crash between any two steps, a  *)
(* network that loses requests and replies, and a control plane that may   *)
(* answer anything the wire format allows.                                 *)
(*                                                                         *)
(* A release is an identifier, the artifact it pins (digest and runtime),  *)
(* the channel it belongs to (with its repository) and a status.  A test   *)
(* outcome is a code and two counts.                                       *)
(***************************************************************************)
EXTENDS Naturals

CONSTANTS
  ReleaseIds, Artifacts, Channels,
  HomeChannel,     \* the channel this host is enrolled in
  Offers,          \* the releases the control plane may name
  Outcomes,        \* what testing a candidate may find
  None             \* Go's nil

Codes == {"ok", "artifact", "evaluation", "cancelled"}
Outcome == [code : Codes, passed : Nat, total : Nat]
Release == [id : ReleaseIds, artifact : Artifacts, channel : Channels,
            status : {"canary", "active", "paused"}]
Candidate == [id : ReleaseIds, artifact : Artifacts]
Evaluation == [release : ReleaseIds, status : {"rejected", "prepared", "active"},
               passed : Nat, total : Nat, code : Codes]
Statement == [about : Candidate, says : Evaluation]
Activation == [release : Release, passed : Nat, total : Nat]
State == [active : Activation \cup {None}, previous : Activation \cup {None},
          pending : Evaluation \cup {None}, proof : Statement \cup {None},
          lastCode : Codes \cup {None}]
Desired == [release : Offers \cup {None}, activate : BOOLEAN]
CheckinMessage == [current : ReleaseIds \cup {None}, report : Evaluation \cup {None},
                   proof : Statement \cup {None}]

ASSUME ConstantsAssumption ==
  /\ HomeChannel \in Channels
  /\ Offers \subseteq Release
  /\ Outcomes \subseteq Outcome
  /\ None \notin Activation \cup Release \cup Evaluation \cup Statement
                   \cup Candidate \cup Outcome \cup Desired \cup ReleaseIds

CandidateOf(r) == [id |-> r.id, artifact |-> r.artifact]

VARIABLES
  state,      \* state.json, replaced atomically
  hasKey,     \* the host was enrolled with a signing key
  pc,         \* where the running sync is; "idle" when no process holds the lock
  s,          \* the copy of the state the running sync works on
  reply,      \* the control plane's answer the sync is acting on
  r,          \* the candidate under test
  out,        \* what testing it found
  cancelled,  \* ctx.Err() # nil
  \* What happened, kept only to state properties:
  sent,       \* the last check-in the control plane received
  unreported, \* decisions on disk it neither received nor refused
  passed, granted  \* the variables of FleetGate

opVars == <<s, reply, r, out, cancelled>>
gateVars == <<passed, granted>>
vars == <<state, hasKey, pc, opVars, sent, unreported, gateVars>>

EmptyState == [active |-> None, previous |-> None, pending |-> None,
               proof |-> None, lastCode |-> None]

Init ==
  /\ state = EmptyState
  /\ hasKey \in BOOLEAN
  /\ pc = "idle"
  /\ s = EmptyState /\ reply = None /\ r = None /\ out = None
  /\ cancelled = FALSE
  /\ sent = None /\ unreported = {}
  /\ passed = {} /\ granted = {}

-----------------------------------------------------------------------------
(* The sync returns, or its process dies: only what is on disk remains.    *)
Return ==
  /\ pc' = "idle"
  /\ s' = EmptyState /\ reply' = None /\ r' = None /\ out' = None
  /\ cancelled' = FALSE

(* Continue at the program point `to`, keeping the in-memory state `mem`.  *)
Continue(to, mem) ==
  /\ pc' = to
  /\ s' = mem
  /\ UNCHANGED <<r, out, cancelled>>

(* Broken: the new state is acted on before it is written.                 *)
SavedNever(new, to) == UNCHANGED state /\ Continue(to, new)

(* SaveState: a temporary file renamed over state.json.  A failure before  *)
(* the rename leaves the old file, a failure after it the new one; either  *)
(* way the sync returns the error.                                         *)
Saved(new, to) == state' = new /\ Continue(to, new)
SaveFailed(new) == state' \in {state, new} /\ Return

NoReport(st) == [st EXCEPT !.pending = None, !.proof = None]

(* attest: a host enrolled without a key reports unsigned.                 *)
Attest(rel, ev) ==
  IF hasKey THEN [about |-> CandidateOf(rel), says |-> ev] ELSE None

(* Broken: the report replaces the pending one, the statement stays.       *)
ReportAlone(st, rel, ev) == [st EXCEPT !.pending = ev]

WithReport(st, rel, ev) == [st EXCEPT !.pending = ev, !.proof = Attest(rel, ev)]

(* A decision that reaches the disk is owed to the control plane; making   *)
(* it again after it was delivered owes it again.                          *)
Owe(new) ==
  unreported' = IF state' = new THEN unreported \cup {new.pending} ELSE unreported

(* Sync takes the lock and loads the state file.                           *)
Start ==
  /\ pc = "idle"
  /\ pc' = "checkin"
  /\ s' = state
  /\ UNCHANGED <<state, hasKey, reply, r, out, cancelled, sent, unreported, gateVars>>

-----------------------------------------------------------------------------
(* Check-ins.  The message carries the active release and the pending      *)
(* report with its proof; a request that arrives has been processed even   *)
(* when its reply is lost.                                                 *)
ActiveId(mem) == IF mem.active = None THEN None ELSE mem.active.release.id

(* Broken: the whole activation is sent where its identifier belongs.      *)
MessageWhole(mem) ==
  [current |-> mem.active, report |-> mem.pending, proof |-> mem.proof]

Message(mem) ==
  [current |-> ActiveId(mem), report |-> mem.pending, proof |-> mem.proof]

Deliver(msg) ==
  /\ sent' = msg
  /\ unreported' = unreported \ {msg.report}

CheckinPoints == {"checkin", "recheck", "reportRejected", "authorize", "reportActive"}

(* Broken: a pending report is never retried.                              *)
OutgoingBare == Message(NoReport(s))

(* After a conflict the sync retries once without its report.              *)
Outgoing == IF pc = "recheck" THEN Message(NoReport(s)) ELSE Message(s)

(* Broken: the report is forgotten although telling it failed.             *)
FailsAndClears ==
  /\ pc \in CheckinPoints
  /\ Deliver(Outgoing) \/ UNCHANGED <<sent, unreported>>
  /\ Return
  /\ state' = IF pc = "reportRejected" THEN NoReport(state) ELSE state
  /\ UNCHANGED <<hasKey, gateVars>>

(* Check-in fails; the control plane may have processed it all the same.   *)
CheckinFails ==
  /\ pc \in CheckinPoints
  /\ Deliver(Outgoing) \/ UNCHANGED <<sent, unreported>>
  /\ Return
  /\ UNCHANGED <<state, hasKey, gateVars>>

(* HTTP 409 to a check-in that carried a report: the control plane refused *)
(* the report.  Only the first check-in of a sync treats it specially;     *)
(* everywhere else it is a failure.                                        *)
Conflict ==
  /\ pc = "checkin" /\ ~cancelled
  /\ s.pending # None
  /\ unreported' = unreported \ {s.pending}
  /\ Continue("recheck", s)
  /\ UNCHANGED <<state, hasKey, reply, sent, gateVars>>

(* The first check-in, or its retry, is answered.                          *)
FirstReply ==
  /\ pc \in {"checkin", "recheck"} /\ ~cancelled
  /\ \E d \in Desired : reply' = d
  /\ Deliver(Outgoing)
  /\ Continue("clear", s)
  /\ UNCHANGED <<state, hasKey, gateVars>>

-----------------------------------------------------------------------------
(* The delivered report is cleared, then the answer decides whether there  *)
(* is a candidate to test.                                                 *)
Wanted(d) ==
  /\ d.release # None
  /\ d.release.channel = HomeChannel
  /\ ActiveId(s) # d.release.id
  /\ d.activate
  /\ d.release.status # "paused"

ClearThenDecide ==
  /\ pc = "clear"
  /\ \/ /\ Wanted(reply)
        /\ state' = NoReport(s) /\ s' = NoReport(s)
        /\ pc' = "prepare" /\ r' = reply.release /\ reply' = None
        /\ UNCHANGED <<out, cancelled>>
     \/ /\ ~Wanted(reply)
        /\ state' = NoReport(s)
        /\ Return
     \/ SaveFailed(NoReport(s))
  /\ UNCHANGED <<hasKey, sent, unreported, gateVars>>

(* Broken: an empty suite passes.                                          *)
NoneFailed(o) == o.code = "ok" /\ o.passed = o.total

(* The candidate is good when every acceptance test ran and passed.        *)
AllPassed(o) == o.code = "ok" /\ o.total # 0 /\ o.passed = o.total

(* What testing found, as the sync sees it: a cancelled sync overrides it. *)
Judged(o) == IF cancelled THEN [o EXCEPT !.code = "cancelled"] ELSE o

RejectionCode(o) == IF o.code = "ok" THEN "evaluation" ELSE o.code

Verdict(o) ==
  IF AllPassed(o)
    THEN [release |-> r.id, status |-> "prepared", passed |-> o.passed,
          total |-> o.total, code |-> "ok"]
    ELSE [release |-> r.id, status |-> "rejected", passed |-> o.passed,
          total |-> o.total, code |-> RejectionCode(o)]

Decided(o) ==
  LET st == IF AllPassed(o) THEN s ELSE [s EXCEPT !.lastCode = RejectionCode(o)]
  IN  WithReport(st, r, Verdict(o))

(* Testing ends, and the verdict is saved with its signed statement before *)
(* anyone is told.  A key that cannot be read fails the sync, never the    *)
(* signature: that is the SaveFailed case that leaves the old file.        *)
Prepare ==
  /\ pc = "prepare"
  /\ \E o \in {Judged(x) : x \in Outcomes} :
       /\ IF AllPassed(o)
            THEN passed' = passed \cup {CandidateOf(r)}
            ELSE passed' = passed \ {CandidateOf(r)}
       /\ granted' = granted \ {CandidateOf(r)}
       /\ \/ /\ state' = Decided(o) /\ s' = Decided(o)
             /\ pc' = IF AllPassed(o) THEN "authorize" ELSE "reportRejected"
             /\ out' = o
             /\ UNCHANGED <<r, cancelled, reply>>
          \/ SaveFailed(Decided(o))
       /\ Owe(Decided(o))
  /\ UNCHANGED <<hasKey, sent>>

(* A rejection is reported and forgotten once it was heard.                *)
RejectionHeard ==
  /\ pc = "reportRejected" /\ ~cancelled
  /\ Deliver(Message(s))
  /\ Continue("clearAndReturn", s)
  /\ UNCHANGED <<state, hasKey, reply, gateVars>>

-----------------------------------------------------------------------------

(* Authorisation after testing: the answer must still name this candidate. *)
StillAuthorized(d) ==
  /\ d.activate
  /\ d.release # None
  /\ d.release.id = r.id
  /\ d.release.status # "paused"
  /\ d.release.artifact = r.artifact
  /\ d.release.channel = r.channel

(* What the control plane itself meant by the answer, whatever the host     *)
(* makes of it.                                                            *)
Authorises(d) ==
  {CandidateOf(x) : x \in {y \in {d.release} \ {None} : d.activate /\ y.status # "paused"}}

Authorize ==
  /\ pc = "authorize" /\ ~cancelled
  /\ Deliver(Message(s))
  /\ \E d \in Desired :
       /\ Continue(IF StillAuthorized(d) THEN "activate" ELSE "clearAndReturn", s)
       /\ granted' = granted \cup (Authorises(d) \cap passed)
  /\ UNCHANGED <<state, hasKey, reply, passed>>

(* Broken: the active release is replaced before it is remembered.         *)
ActivatedOverPrevious ==
  LET new == [release |-> r, passed |-> out.passed, total |-> out.total]
  IN  WithReport([s EXCEPT !.previous = new, !.active = new, !.lastCode = None],
                 r, [release |-> r.id, status |-> "active", passed |-> out.passed,
                     total |-> out.total, code |-> "ok"])

(* The new active release, the one it replaces and the report of the       *)
(* activation reach the disk in one write.                                 *)
Activated ==
  WithReport([s EXCEPT !.previous = s.active,
                       !.active = [release |-> r, passed |-> out.passed,
                                   total |-> out.total],
                       !.lastCode = None],
             r, [release |-> r.id, status |-> "active", passed |-> out.passed,
                 total |-> out.total, code |-> "ok"])

Activate ==
  /\ pc = "activate" /\ ~cancelled
  /\ \/ Saved(Activated, "reportActive") /\ UNCHANGED reply
     \/ SaveFailed(Activated)
  /\ Owe(Activated)
  /\ UNCHANGED <<hasKey, sent, gateVars>>

(* The context ended while authorisation was on its way.                   *)
ActivateCancelled ==
  /\ pc = "activate" /\ cancelled
  /\ Return
  /\ UNCHANGED <<state, hasKey, sent, unreported, gateVars>>

ActivationHeard ==
  /\ pc = "reportActive" /\ ~cancelled
  /\ Deliver(Message(s))
  /\ Continue("clearAndReturn", s)
  /\ UNCHANGED <<state, hasKey, reply, gateVars>>

ClearAndReturn ==
  /\ pc = "clearAndReturn"
  /\ state' = NoReport(s) \/ state' = state
  /\ Return
  /\ UNCHANGED <<hasKey, sent, unreported, gateVars>>

-----------------------------------------------------------------------------
(* The operation's deadline passes, or the operator interrupts it.         *)
Cancel ==
  /\ pc # "idle" /\ ~cancelled
  /\ cancelled' = TRUE
  /\ UNCHANGED <<state, hasKey, pc, s, reply, r, out, sent, unreported, gateVars>>

(* The process dies; the operating system drops its lock.                  *)
Crash ==
  /\ pc # "idle"
  /\ Return
  /\ UNCHANGED <<state, hasKey, sent, unreported, gateVars>>

Step ==
  \/ CheckinFails \/ Conflict \/ FirstReply \/ ClearThenDecide
  \/ Prepare \/ RejectionHeard \/ Authorize \/ Activate \/ ActivateCancelled
  \/ ActivationHeard \/ ClearAndReturn

Next == Start \/ Step \/ Cancel \/ Crash

Spec == Init /\ [][Next]_vars

(* watch and serve poll for ever, a started sync runs on, and the network  *)
(* and the control plane are not for ever out of reach.                    *)
Fairness ==
  /\ WF_vars(Start)
  /\ WF_vars(Step)
  /\ SF_vars(FirstReply)

FairSpec == Spec /\ Fairness

-----------------------------------------------------------------------------
(* Type invariant.                                                         *)
Points == CheckinPoints \cup {"idle", "clear", "prepare", "activate", "clearAndReturn"}

TypeOK ==
  /\ state \in State /\ s \in State
  /\ hasKey \in BOOLEAN /\ cancelled \in BOOLEAN
  /\ pc \in Points
  /\ reply \in Desired \cup {None}
  /\ r \in Offers \cup {None}
  /\ out \in Outcome \cup {None}
  /\ sent \in CheckinMessage \cup {None}
  /\ unreported \subseteq Evaluation
  /\ passed \subseteq Candidate /\ granted \subseteq Candidate

(* A decision on disk carries the statement signed when it was made, about *)
(* the same release and saying the same; a host that has a key never owes  *)
(* an unsigned report, whatever failed in between (attest, pending).       *)
ProofMatchesPending ==
  IF state.pending = None \/ ~hasKey
    THEN state.proof = None
    ELSE /\ state.proof # None
         /\ state.proof.says = state.pending
         /\ state.proof.about.id = state.pending.release

(* The report owed agrees with the release pointer: it says "active" of    *)
(* the active release and of no other (one SaveState moves both).          *)
PendingMatchesActive ==
  state.pending # None =>
    (state.pending.status = "active"
       <=> ActiveId(state) = state.pending.release)

(* The report a host owes holds together with its proof and the pointer.   *)
PendingHoldsTogether == ProofMatchesPending /\ PendingMatchesActive

(* What the host says or records as passing is what it tested: every case  *)
(* ran and passed, and the signed statement names the exact artifact.      *)
FullPass(e) == e.total > 0 /\ e.passed = e.total

PassClaimsAreTested ==
  /\ state.pending # None /\ state.pending.status # "rejected" =>
       /\ FullPass(state.pending)
       /\ \E c \in passed : /\ c.id = state.pending.release
                           /\ hasKey => state.proof.about = c
  /\ state.active # None => FullPass(state.active)

(* A decision reaches the control plane or is refused by it before it      *)
(* leaves the disk: no crash, lost connection or failed write drops it.    *)
DecisionsNotLost == unreported \subseteq {state.pending}

(* The control plane is only told what is already on disk: the release     *)
(* this host runs, its decision, and that decision's statement.            *)
TellsOnlyWhatIsDurable ==
  sent' # sent =>
    /\ sent'.current = ActiveId(state)
    /\ sent'.report \in {None, state.pending}
    /\ sent'.proof = IF sent'.report = None THEN None ELSE state.proof

OnlyDurableTold == [][TellsOnlyWhatIsDurable]_vars

(* The host implements the gate: whatever the network, the disk and the    *)
(* control plane do, it only runs a release that passed its newest test    *)
(* here and was authorised after it, and it remembers the one before.      *)
RunningCandidate(a) == IF a = None THEN None ELSE CandidateOf(a.release)

Gate == INSTANCE FleetGate WITH
  Candidates <- Candidate, Nothing <- None,
  active <- RunningCandidate(state.active),
  previous <- RunningCandidate(state.previous)

GateSpec == Gate!Spec
ActiveIsGated == Gate!ActiveIsGated

(* Every decision is eventually heard or refused, however often the host   *)
(* crashes or is cut off on the way.                                       *)
EventuallyReported == unreported # {} ~> unreported = {}
=============================================================================
