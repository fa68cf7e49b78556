-------------------------- MODULE FleetSyncProofs --------------------------
(***************************************************************************)
(* Theorems about FleetSync for every set of identifiers, artifacts,       *)
(* channels, offers and test outcomes.                                     *)
(***************************************************************************)
EXTENDS FleetSync, TLAPS

-----------------------------------------------------------------------------
(* The operators on the state stay within its type.                        *)

(* Clearing a delivered report yields a state.                             *)
LEMMA NoReportType ==
  ASSUME NEW st \in State
  PROVE  NoReport(st) \in State
BY DEF State, NoReport

(* Recording a report together with its statement yields a state.          *)
LEMMA WithReportType ==
  ASSUME NEW st \in State, NEW rel \in Release, NEW ev \in Evaluation
  PROVE  WithReport(st, rel, ev) \in State
BY DEF State, WithReport, Attest, Statement, CandidateOf, Candidate, Release

LEMMA EmptyStateType == EmptyState \in State
BY DEF EmptyState, State

(* The identifier of the active release is an identifier or nil.           *)
LEMMA ActiveIdType ==
  ASSUME NEW st \in State
  PROVE  ActiveId(st) \in ReleaseIds \cup {None}
BY DEF State, ActiveId, Activation, Release

(* Every check-in is well formed.                                          *)
LEMMA MessageType ==
  ASSUME NEW st \in State
  PROVE  Message(st) \in CheckinMessage
<1>1. ActiveId(st) \in ReleaseIds \cup {None}
  BY ActiveIdType
<1> QED
  BY <1>1 DEF Message, CheckinMessage, State

LEMMA OutgoingType ==
  ASSUME TypeOK
  PROVE  Outgoing \in CheckinMessage
<1>1. s \in State /\ NoReport(s) \in State
  BY NoReportType DEF TypeOK
<1> QED
  BY <1>1, MessageType DEF Outgoing

(* What the sync makes of an outcome of testing is an outcome.             *)
LEMMA JudgedType ==
  ASSUME NEW o \in Outcomes
  PROVE  Judged(o) \in Outcome
BY ConstantsAssumption DEF Judged, Outcome, Codes

(* A verdict on a candidate is a report about it.                          *)
LEMMA VerdictType ==
  ASSUME r \in Release, NEW o \in Outcome
  PROVE  Verdict(o) \in Evaluation
BY DEF Verdict, Evaluation, Outcome, Release, RejectionCode, Codes

LEMMA DecidedType ==
  ASSUME s \in State, r \in Release, NEW o \in Outcome
  PROVE  Decided(o) \in State
<1> DEFINE st == IF AllPassed(o) THEN s ELSE [s EXCEPT !.lastCode = RejectionCode(o)]
<1>1. st \in State
  BY DEF State, RejectionCode, Outcome, Codes
<1>2. Verdict(o) \in Evaluation
  BY VerdictType
<1> QED
  BY <1>1, <1>2, WithReportType DEF Decided

LEMMA ActivatedType ==
  ASSUME s \in State, r \in Release, out \in Outcome
  PROVE  Activated \in State
<1> DEFINE ac == [release |-> r, passed |-> out.passed, total |-> out.total]
           st == [s EXCEPT !.previous = s.active, !.active = ac, !.lastCode = None]
           ev == [release |-> r.id, status |-> "active", passed |-> out.passed,
                  total |-> out.total, code |-> "ok"]
<1>1. ac \in Activation
  BY DEF Activation, Outcome
<1>2. st \in State
  BY <1>1 DEF State
<1>3. ev \in Evaluation
  BY DEF Evaluation, Outcome, Release, Codes
<1> QED
  BY <1>2, <1>3, WithReportType DEF Activated

-----------------------------------------------------------------------------
(* What each program point of a sync relies on.                            *)
HoldsCandidate == {"prepare", "reportRejected", "authorize", "activate", "reportActive"}
NothingOwed == {"recheck", "clear", "prepare", "activate", "clearAndReturn"}

MemoryIsDisk == pc # "idle" => s = state
AnswerKept == pc = "clear" => reply \in Desired
CandidateKept ==
  /\ pc \in HoldsCandidate => r \in Offers
  /\ pc \in HoldsCandidate \ {"reportActive"} => ActiveId(state) # r.id
PassKept ==
  pc \in {"authorize", "activate"} =>
    out \in Outcome /\ AllPassed(out) /\ CandidateOf(r) \in passed
GrantKept == pc = "activate" => CandidateOf(r) \in granted
OwedElsewhere == pc \in NothingOwed => unreported = {}
ClearedBeforeTest == pc = "prepare" => state.pending = None

Local == /\ MemoryIsDisk /\ AnswerKept /\ CandidateKept /\ PassKept
         /\ GrantKept /\ OwedElsewhere /\ ClearedBeforeTest

(* Authorisations follow the tests they were given after.                  *)
GrantsFollowPasses == granted \subseteq passed

Typed == TypeOK /\ MemoryIsDisk /\ AnswerKept /\ CandidateKept /\ PassKept

(* The inductive invariant.                                                *)
IInv == /\ TypeOK /\ Local /\ ProofMatchesPending /\ PendingMatchesActive
        /\ PassClaimsAreTested /\ DecisionsNotLost
        /\ GrantsFollowPasses /\ ActiveIsGated

-----------------------------------------------------------------------------
(* A step that ends or continues a sync leaves the locals typed.           *)
LEMMA ReturnType ==
  ASSUME TypeOK, Return
  PROVE  /\ s' \in State /\ cancelled' \in BOOLEAN /\ pc' \in Points
         /\ reply' \in Desired \cup {None} /\ r' \in Offers \cup {None}
         /\ out' \in Outcome \cup {None}
BY EmptyStateType DEF Return, Points, CheckinPoints

LEMMA DeliverType ==
  ASSUME TypeOK, NEW msg \in CheckinMessage, Deliver(msg)
  PROVE  sent' \in CheckinMessage /\ unreported' \subseteq Evaluation
BY DEF Deliver, TypeOK

(* Every step preserves the types.                                         *)
LEMMA TypeStep ==
  ASSUME Typed, [Next]_vars
  PROVE  TypeOK'
<1> USE DEF Typed
<1>1. CASE Start
  BY <1>1 DEF Start, TypeOK, Points, CheckinPoints, gateVars
<1>2. CASE CheckinFails
  <2>1. sent' \in CheckinMessage \cup {None} /\ unreported' \subseteq Evaluation
    BY <1>2, OutgoingType, DeliverType DEF CheckinFails, TypeOK
  <2> QED
    BY <1>2, <2>1, ReturnType DEF CheckinFails, TypeOK, gateVars
<1>3. CASE Conflict
  BY <1>3 DEF Conflict, Continue, TypeOK, Points, CheckinPoints, gateVars
<1>4. CASE FirstReply
  <2>1. sent' \in CheckinMessage /\ unreported' \subseteq Evaluation
    BY <1>4, OutgoingType, DeliverType DEF FirstReply
  <2> QED
    BY <1>4, <2>1 DEF FirstReply, Continue, TypeOK, Points, gateVars
<1>5. CASE ClearThenDecide
  <2>1. NoReport(s) \in State
    BY NoReportType DEF TypeOK
  <2>2. CASE Return
    BY <1>5, <2>1, <2>2, ReturnType DEF ClearThenDecide, SaveFailed, TypeOK, gateVars
  <2>3. CASE /\ Wanted(reply) /\ state' = NoReport(s) /\ s' = NoReport(s)
             /\ pc' = "prepare" /\ r' = reply.release /\ reply' = None
             /\ UNCHANGED <<out, cancelled>>
    <3>1. r' \in Offers
      BY <1>5, <2>3 DEF ClearThenDecide, AnswerKept, Wanted, Desired
    <3> QED
      BY <1>5, <2>1, <2>3, <3>1 DEF ClearThenDecide, TypeOK, Points, gateVars
  <2> QED
    BY <1>5, <2>2, <2>3 DEF ClearThenDecide, SaveFailed
<1>6. CASE Prepare
  <2>1. r \in Release
    BY <1>6, ConstantsAssumption DEF Prepare, CandidateKept, HoldsCandidate
  <2>2. PICK x \in Outcomes :
          /\ IF AllPassed(Judged(x))
               THEN passed' = passed \cup {CandidateOf(r)}
               ELSE passed' = passed \ {CandidateOf(r)}
          /\ granted' = granted \ {CandidateOf(r)}
          /\ \/ /\ state' = Decided(Judged(x)) /\ s' = Decided(Judged(x))
                /\ pc' = IF AllPassed(Judged(x)) THEN "authorize" ELSE "reportRejected"
                /\ out' = Judged(x)
                /\ UNCHANGED <<r, cancelled, reply>>
             \/ SaveFailed(Decided(Judged(x)))
          /\ Owe(Decided(Judged(x)))
    BY <1>6 DEF Prepare
  <2> DEFINE o == Judged(x)
  <2>3. o \in Outcome /\ Decided(o) \in State /\ Verdict(o) \in Evaluation
    BY <2>1, JudgedType, DecidedType, VerdictType DEF TypeOK
  <2>4. Decided(o).pending = Verdict(o)
    BY DEF Decided, WithReport, State, TypeOK
  <2>5. unreported' \subseteq Evaluation
    BY <2>2, <2>3, <2>4 DEF Owe, TypeOK
  <2>6. CandidateOf(r) \in Candidate
    BY <2>1 DEF CandidateOf, Candidate, Release
  <2>7. passed' \subseteq Candidate /\ granted' \subseteq Candidate
    BY <2>2, <2>6 DEF TypeOK
  <2>8. CASE SaveFailed(Decided(o))
    BY <1>6, <2>3, <2>5, <2>7, <2>8, ReturnType DEF Prepare, SaveFailed, TypeOK
  <2>9. CASE /\ state' = Decided(o) /\ s' = Decided(o)
             /\ pc' = IF AllPassed(o) THEN "authorize" ELSE "reportRejected"
             /\ out' = o
             /\ UNCHANGED <<r, cancelled, reply>>
    BY <1>6, <2>3, <2>5, <2>7, <2>9 DEF Prepare, TypeOK, Points, CheckinPoints
  <2> QED
    BY <2>2, <2>8, <2>9
<1>7. CASE RejectionHeard \/ ActivationHeard
  <2>1. Message(s) \in CheckinMessage
    BY MessageType DEF TypeOK
  <2>2. sent' \in CheckinMessage /\ unreported' \subseteq Evaluation
    BY <1>7, <2>1, DeliverType DEF RejectionHeard, ActivationHeard
  <2> QED
    BY <1>7, <2>2 DEF RejectionHeard, ActivationHeard, Continue, TypeOK, Points, gateVars
<1>8. CASE Authorize
  <2>1. Message(s) \in CheckinMessage
    BY MessageType DEF TypeOK
  <2>2. sent' \in CheckinMessage /\ unreported' \subseteq Evaluation
    BY <1>8, <2>1, DeliverType DEF Authorize
  <2>3. granted' \subseteq Candidate
    BY <1>8 DEF Authorize, TypeOK
  <2> QED
    BY <1>8, <2>2, <2>3 DEF Authorize, Continue, TypeOK, Points
<1>9. CASE Activate
  <2>1. r \in Release /\ out \in Outcome
    BY <1>9, ConstantsAssumption DEF Activate, CandidateKept, PassKept, HoldsCandidate
  <2>2. Activated \in State
    BY <2>1, ActivatedType DEF TypeOK
  <2>3. Activated.pending \in Evaluation
    BY <2>1 DEF Activated, WithReport, Evaluation, Outcome, Release, Codes, State, TypeOK
  <2>4. unreported' \subseteq Evaluation
    BY <1>9, <2>3 DEF Activate, Owe, TypeOK
  <2>5. CASE SaveFailed(Activated)
    BY <1>9, <2>2, <2>4, <2>5, ReturnType DEF Activate, SaveFailed, TypeOK, gateVars
  <2>6. CASE Saved(Activated, "reportActive") /\ UNCHANGED reply
    BY <1>9, <2>2, <2>4, <2>6
       DEF Activate, Saved, Continue, TypeOK, Points, CheckinPoints, gateVars
  <2> QED
    BY <1>9, <2>5, <2>6 DEF Activate
<1>10. CASE ActivateCancelled \/ Crash
  BY <1>10, ReturnType DEF ActivateCancelled, Crash, TypeOK, gateVars
<1>11. CASE ClearAndReturn
  <2>1. NoReport(s) \in State
    BY NoReportType DEF TypeOK
  <2> QED
    BY <1>11, <2>1, ReturnType DEF ClearAndReturn, TypeOK, gateVars
<1>12. CASE Cancel
  BY <1>12 DEF Cancel, TypeOK, gateVars
<1>13. CASE UNCHANGED vars
  BY <1>13 DEF vars, opVars, gateVars, TypeOK
<1> QED
  BY <1>1, <1>2, <1>3, <1>4, <1>5, <1>6, <1>7, <1>8, <1>9, <1>10, <1>11, <1>12, <1>13
     DEF Next, Step
-----------------------------------------------------------------------------
(* What the points of a sync rely on.                                      *)

(* Ending a sync relies on nothing.                                        *)
LEMMA ReturnLocal ==
  ASSUME Return
  PROVE  Local'
BY DEF Return, Local, MemoryIsDisk, AnswerKept, CandidateKept, PassKept, GrantKept,
       OwedElsewhere, ClearedBeforeTest, HoldsCandidate, NothingOwed

(* The fields of the states a step writes.                                 *)
LEMMA NoReportFields ==
  ASSUME NEW st \in State
  PROVE  /\ NoReport(st).active = st.active /\ NoReport(st).previous = st.previous
         /\ NoReport(st).pending = None /\ NoReport(st).proof = None
         /\ ActiveId(NoReport(st)) = ActiveId(st)
BY DEF State, NoReport, ActiveId

LEMMA WithReportFields ==
  ASSUME NEW st \in State, NEW rel, NEW ev
  PROVE  /\ WithReport(st, rel, ev).active = st.active
         /\ WithReport(st, rel, ev).previous = st.previous
         /\ WithReport(st, rel, ev).pending = ev
         /\ WithReport(st, rel, ev).proof = Attest(rel, ev)
         /\ ActiveId(WithReport(st, rel, ev)) = ActiveId(st)
BY DEF State, WithReport, ActiveId

LEMMA DecidedFields ==
  ASSUME s \in State, NEW o \in Outcome
  PROVE  /\ Decided(o).active = s.active /\ Decided(o).previous = s.previous
         /\ Decided(o).pending = Verdict(o)
         /\ Decided(o).proof = Attest(r, Verdict(o))
         /\ ActiveId(Decided(o)) = ActiveId(s)
<1> DEFINE st == IF AllPassed(o) THEN s ELSE [s EXCEPT !.lastCode = RejectionCode(o)]
<1>1. st \in State /\ st.active = s.active /\ st.previous = s.previous
  BY DEF State, RejectionCode, Outcome, Codes
<1>2. ActiveId(st) = ActiveId(s)
  BY <1>1 DEF ActiveId
<1>3. Decided(o) = WithReport(st, r, Verdict(o))
  BY DEF Decided
<1> HIDE DEF st
<1> QED
  BY <1>1, <1>2, <1>3, WithReportFields

LEMMA ActivatedFields ==
  ASSUME s \in State, r \in Release, out \in Outcome
  PROVE  /\ Activated.active = [release |-> r, passed |-> out.passed, total |-> out.total]
         /\ Activated.previous = s.active
         /\ Activated.pending = [release |-> r.id, status |-> "active",
                                 passed |-> out.passed, total |-> out.total, code |-> "ok"]
         /\ Activated.proof = Attest(r, Activated.pending)
         /\ ActiveId(Activated) = r.id
<1> DEFINE ac == [release |-> r, passed |-> out.passed, total |-> out.total]
           st == [s EXCEPT !.previous = s.active, !.active = ac, !.lastCode = None]
<1>1. ac \in Activation
  BY DEF Activation, Outcome
<1>2. st \in State /\ st.active = ac /\ st.previous = s.active
  BY <1>1 DEF State
<1>3. ac # None
  BY <1>1, ConstantsAssumption
<1>4. ActiveId(st) = r.id
  BY <1>2, <1>3 DEF ActiveId
<1> DEFINE ev == [release |-> r.id, status |-> "active", passed |-> out.passed,
                  total |-> out.total, code |-> "ok"]
<1>5. Activated = WithReport(st, r, ev)
  BY DEF Activated
<1> HIDE DEF st, ac, ev
<1>6. /\ Activated.active = ac /\ Activated.previous = s.active
      /\ Activated.pending = ev /\ Activated.proof = Attest(r, ev)
      /\ ActiveId(Activated) = r.id
  BY <1>2, <1>4, <1>5, WithReportFields
<1> QED
  BY <1>6 DEF ac, ev

(* A message that carries the pending report leaves nothing else owed.     *)
LEMMA DeliverSettles ==
  ASSUME DecisionsNotLost, MemoryIsDisk, pc # "idle", Deliver(Message(s))
  PROVE  unreported' = {}
BY DEF DecisionsNotLost, MemoryIsDisk, Deliver, Message

(* Every step preserves what the points of a sync rely on.                 *)
LEMMA LocalStep ==
  ASSUME TypeOK, Local, DecisionsNotLost, [Next]_vars
  PROVE  Local'
<1> USE DEF Local
<1>1. CASE Start
  BY <1>1 DEF Start, gateVars, MemoryIsDisk, AnswerKept, CandidateKept, PassKept, GrantKept,
              OwedElsewhere, ClearedBeforeTest, HoldsCandidate, NothingOwed
<1>2. CASE Return
  BY <1>2, ReturnLocal
<1>3. CASE Conflict
  <2>1. unreported' = {}
    BY <1>3 DEF Conflict, DecisionsNotLost, MemoryIsDisk
  <2> QED
    BY <1>3, <2>1 DEF Conflict, Continue, gateVars, MemoryIsDisk, AnswerKept,
       CandidateKept, PassKept, GrantKept, OwedElsewhere, ClearedBeforeTest, HoldsCandidate
<1>4. CASE FirstReply
  <2>1. unreported' = {}
    <3>1. CASE pc = "checkin"
      BY <1>4, <3>1, DeliverSettles DEF FirstReply, Outgoing
    <3>2. CASE pc = "recheck"
      BY <1>4, <3>2 DEF FirstReply, Deliver, OwedElsewhere, NothingOwed
    <3> QED
      BY <1>4, <3>1, <3>2 DEF FirstReply
  <2>2. reply' \in Desired
    BY <1>4 DEF FirstReply
  <2> QED
    BY <1>4, <2>1, <2>2 DEF FirstReply, Continue, gateVars, MemoryIsDisk, AnswerKept,
       CandidateKept, PassKept, GrantKept, OwedElsewhere, ClearedBeforeTest, HoldsCandidate
<1>5. CASE ClearThenDecide /\ ~Return
  <2>1. /\ Wanted(reply) /\ state' = NoReport(s) /\ s' = NoReport(s)
        /\ pc = "clear" /\ pc' = "prepare" /\ r' = reply.release
        /\ unreported' = unreported
    BY <1>5 DEF ClearThenDecide, SaveFailed
  <2>2. r' \in Offers /\ ActiveId(s) # r'.id
    BY <2>1 DEF AnswerKept, Wanted, Desired
  <2>3. state'.pending = None /\ ActiveId(state)' = ActiveId(s)
    BY <2>1, NoReportFields DEF TypeOK, ActiveId
  <2>4. unreported' = {}
    BY <2>1 DEF OwedElsewhere, NothingOwed
  <2> QED
    BY <2>1, <2>2, <2>3, <2>4 DEF MemoryIsDisk, AnswerKept, CandidateKept, PassKept,
       GrantKept, OwedElsewhere, ClearedBeforeTest, HoldsCandidate
<1>6. CASE Prepare /\ ~Return
  <2>1. PICK x \in Outcomes :
          /\ AllPassed(Judged(x)) => passed' = passed \cup {CandidateOf(r)}
          /\ state' = Decided(Judged(x)) /\ s' = Decided(Judged(x))
          /\ pc' = IF AllPassed(Judged(x)) THEN "authorize" ELSE "reportRejected"
          /\ out' = Judged(x) /\ r' = r
    BY <1>6 DEF Prepare, SaveFailed
  <2>2. Judged(x) \in Outcome
    BY JudgedType
  <2>3. r \in Offers /\ ActiveId(s) # r.id
    BY <1>6 DEF Prepare, CandidateKept, HoldsCandidate, MemoryIsDisk
  <2>4. ActiveId(state)' = ActiveId(s)
    BY <2>1, <2>2, DecidedFields DEF TypeOK, ActiveId
  <2>5. pc' = "authorize" => AllPassed(Judged(x)) /\ CandidateOf(r') \in passed'
    BY <2>1
  <2> QED
    BY <2>1, <2>2, <2>3, <2>4, <2>5 DEF MemoryIsDisk, AnswerKept, CandidateKept, PassKept,
       GrantKept, OwedElsewhere, ClearedBeforeTest, HoldsCandidate, NothingOwed, AllPassed
<1>7. CASE RejectionHeard \/ ActivationHeard
  <2>1. unreported' = {}
    BY <1>7, DeliverSettles DEF RejectionHeard, ActivationHeard
  <2> QED
    BY <1>7, <2>1 DEF RejectionHeard, ActivationHeard, Continue, gateVars, MemoryIsDisk,
       AnswerKept, CandidateKept, PassKept, GrantKept, OwedElsewhere, ClearedBeforeTest,
       HoldsCandidate
<1>8. CASE Authorize
  <2>1. unreported' = {}
    BY <1>8, DeliverSettles DEF Authorize
  <2>2. CandidateOf(r) \in passed /\ out \in Outcome /\ AllPassed(out)
    BY <1>8 DEF Authorize, PassKept
  <2>3. PICK d \in Desired :
          /\ Continue(IF StillAuthorized(d) THEN "activate" ELSE "clearAndReturn", s)
          /\ granted' = granted \cup (Authorises(d) \cap passed)
    BY <1>8 DEF Authorize
  <2>4. StillAuthorized(d) => CandidateOf(r) \in Authorises(d)
    BY DEF StillAuthorized, Authorises, CandidateOf
  <2>5. pc' = "activate" => CandidateOf(r) \in granted'
    BY <2>2, <2>3, <2>4 DEF Continue
  <2>6. /\ pc' \in {"activate", "clearAndReturn"} /\ s' = s /\ state' = state
        /\ r' = r /\ out' = out /\ passed' = passed /\ reply' = reply
    BY <1>8, <2>3 DEF Authorize, Continue
  <2>7. r \in Offers /\ ActiveId(state) # r.id /\ s = state
    BY <1>8 DEF Authorize, CandidateKept, HoldsCandidate, MemoryIsDisk
  <2>8. ActiveId(state)' = ActiveId(state) /\ CandidateOf(r)' = CandidateOf(r)
    BY <2>6 DEF ActiveId, CandidateOf
  <2> QED
    BY <2>1, <2>2, <2>5, <2>6, <2>7, <2>8 DEF MemoryIsDisk, AnswerKept, CandidateKept,
       PassKept, GrantKept, OwedElsewhere, ClearedBeforeTest, HoldsCandidate, AllPassed
<1>9. CASE Activate /\ ~Return
  <2>1. Saved(Activated, "reportActive") /\ r \in Offers
    BY <1>9 DEF Activate, SaveFailed, CandidateKept, HoldsCandidate
  <2> QED
    BY <2>1 DEF Saved, Continue, MemoryIsDisk, AnswerKept, CandidateKept, PassKept,
       GrantKept, OwedElsewhere, ClearedBeforeTest, HoldsCandidate, NothingOwed
<1>10. CASE Cancel
  BY <1>10 DEF Cancel, gateVars, MemoryIsDisk, AnswerKept, CandidateKept, PassKept, GrantKept,
               OwedElsewhere, ClearedBeforeTest, ActiveId, AllPassed, CandidateOf
<1>11. CASE UNCHANGED vars
  BY <1>11 DEF vars, opVars, gateVars, MemoryIsDisk, AnswerKept, CandidateKept, PassKept,
               GrantKept, OwedElsewhere, ClearedBeforeTest, ActiveId, AllPassed, CandidateOf
<1> QED
  BY <1>1, <1>2, <1>3, <1>4, <1>5, <1>6, <1>7, <1>8, <1>9, <1>10, <1>11
     DEF Next, Step, CheckinFails, ActivateCancelled, ClearAndReturn, Crash
-----------------------------------------------------------------------------
(* What a step does to the state file.                                     *)

(* The three ways a step writes it; every other step leaves it alone.      *)
Clears == /\ state' = NoReport(state) /\ unreported = {}
          /\ UNCHANGED <<unreported, gateVars>>
Decides(o) == /\ Prepare /\ state' = Decided(o) /\ s = state
              /\ r \in Release /\ ActiveId(state) # r.id /\ unreported = {}
              /\ unreported' = {Verdict(o)}
              /\ AllPassed(o) => CandidateOf(r) \in passed'
Activates == /\ state' = Activated /\ s = state
             /\ r \in Release /\ out \in Outcome /\ AllPassed(out)
             /\ ActiveId(state) # r.id
             /\ CandidateOf(r) \in passed \cap granted
             /\ unreported = {} /\ unreported' = {Activated.pending}
             /\ UNCHANGED gateVars
Keeps == /\ state' = state /\ unreported' \subseteq unreported
         /\ passed' = passed \/ state.pending = None

(* A step writes the state file in one of these ways.                      *)
LEMMA DiskStep ==
  ASSUME TypeOK, Local, [Next]_vars
  PROVE  /\ hasKey' = hasKey
         /\ Clears \/ (\E o \in Outcome : Decides(o)) \/ Activates \/ Keeps
<1>1. CASE Prepare
  <2>1. PICK x \in Outcomes :
          /\ AllPassed(Judged(x)) => CandidateOf(r) \in passed'
          /\ state' \in {state, Decided(Judged(x))}
          /\ Owe(Decided(Judged(x)))
    BY <1>1 DEF Prepare, SaveFailed
  <2>2. Judged(x) \in Outcome
    BY JudgedType
  <2>3. /\ r \in Release /\ ActiveId(state) # r.id /\ s = state
        /\ unreported = {} /\ state.pending = None
    BY <1>1, ConstantsAssumption DEF Prepare, Local, CandidateKept, HoldsCandidate,
       MemoryIsDisk, OwedElsewhere, NothingOwed, ClearedBeforeTest
  <2>4. Decided(Judged(x)).pending = Verdict(Judged(x))
    BY <2>2, DecidedFields DEF TypeOK
  <2>5. CASE state' = Decided(Judged(x))
    BY <1>1, <2>1, <2>2, <2>3, <2>4, <2>5 DEF Prepare, Owe, Decides
  <2>6. CASE state' # Decided(Judged(x))
    BY <1>1, <2>1, <2>3, <2>6 DEF Prepare, Owe, Keeps
  <2> QED
    BY <2>5, <2>6
<1>2. CASE Activate
  <2>1. /\ r \in Release /\ out \in Outcome /\ AllPassed(out)
        /\ ActiveId(state) # r.id /\ s = state
        /\ CandidateOf(r) \in passed \cap granted /\ unreported = {}
    BY <1>2, ConstantsAssumption DEF Activate, Local, CandidateKept, HoldsCandidate,
       MemoryIsDisk, OwedElsewhere, NothingOwed, PassKept, GrantKept
  <2>2. CASE state' = Activated
    BY <1>2, <2>1, <2>2 DEF Activate, Owe, Activates
  <2>3. CASE state' # Activated
    BY <1>2, <2>1, <2>3 DEF Activate, SaveFailed, Saved, Owe, Keeps, gateVars
  <2> QED
    BY <1>2, <2>2, <2>3 DEF Activate
<1>3. CASE ClearThenDecide \/ ClearAndReturn
  <2>1. s = state /\ unreported = {}
    BY <1>3 DEF ClearThenDecide, ClearAndReturn, Local, MemoryIsDisk, OwedElsewhere, NothingOwed
  <2> QED
    BY <1>3, <2>1 DEF ClearThenDecide, ClearAndReturn, SaveFailed, Clears, Keeps, gateVars
<1>4. CASE CheckinFails \/ Conflict \/ FirstReply \/ RejectionHeard \/ ActivationHeard
  BY <1>4 DEF CheckinFails, Conflict, FirstReply, RejectionHeard, ActivationHeard,
     Deliver, Keeps, gateVars
<1>5. CASE Authorize
  BY <1>5 DEF Authorize, Deliver, Keeps
<1>6. CASE Start \/ ActivateCancelled \/ Cancel \/ Crash \/ UNCHANGED vars
  BY <1>6 DEF Start, ActivateCancelled, Cancel, Crash, vars, opVars, gateVars, Keeps
<1> QED
  BY <1>1, <1>2, <1>3, <1>4, <1>5, <1>6 DEF Next, Step

-----------------------------------------------------------------------------
(* The safety properties.                                                  *)

(* Attesting a report yields its statement, or nothing without a key.      *)
LEMMA AttestFields ==
  ASSUME r \in Release, NEW ev \in Evaluation, ev.release = r.id
  PROVE  IF hasKey
           THEN /\ Attest(r, ev) # None /\ Attest(r, ev).says = ev
                /\ Attest(r, ev).about = CandidateOf(r)
                /\ Attest(r, ev).about.id = ev.release
           ELSE Attest(r, ev) = None
<1>1. CASE hasKey
  <2>1. Attest(r, ev) = [about |-> CandidateOf(r), says |-> ev]
    BY <1>1 DEF Attest
  <2>2. [about |-> CandidateOf(r), says |-> ev] \in Statement
    BY DEF Statement, Candidate, CandidateOf, Release
  <2> QED
    BY <1>1, <2>1, <2>2, ConstantsAssumption DEF CandidateOf
<1>2. CASE ~hasKey
  BY <1>2 DEF Attest
<1> QED
  BY <1>1, <1>2

LEMMA VerdictFields ==
  ASSUME r \in Release, NEW o \in Outcome
  PROVE  /\ Verdict(o) \in Evaluation /\ Verdict(o) # None
         /\ Verdict(o).release = r.id /\ Verdict(o).status # "active"
         /\ Verdict(o).status # "rejected" => AllPassed(o) /\ FullPass(Verdict(o))
<1>1. Verdict(o) \in Evaluation
  BY VerdictType
<1> QED
  BY <1>1, ConstantsAssumption DEF Verdict, AllPassed, FullPass, Outcome

LEMMA ActivationReport ==
  ASSUME r \in Release, out \in Outcome, s \in State, AllPassed(out)
  PROVE  /\ Activated.pending \in Evaluation /\ Activated.pending # None
         /\ Activated.pending.release = r.id /\ Activated.pending.status = "active"
         /\ FullPass(Activated.pending) /\ FullPass(Activated.active)
<1>1. Activated.pending \in Evaluation
  BY ActivatedFields DEF Evaluation, Outcome, Release, Codes
<1> QED
  BY <1>1, ActivatedFields, ConstantsAssumption DEF FullPass, AllPassed, Outcome

(* A step preserves the agreement of the report and its statement.         *)
LEMMA ProofStep ==
  ASSUME TypeOK, Local, ProofMatchesPending, [Next]_vars
  PROVE  ProofMatchesPending'
<1>1. hasKey' = hasKey
  BY DiskStep
<1>2. CASE Clears
  BY <1>2, NoReportFields DEF Clears, TypeOK, ProofMatchesPending
<1>3. ASSUME NEW o \in Outcome, Decides(o)
      PROVE  ProofMatchesPending'
  <2>1. state'.pending = Verdict(o) /\ state'.proof = Attest(r, Verdict(o)) /\ r \in Release
    BY <1>3, DecidedFields DEF Decides, TypeOK
  <2> QED
    BY <1>1, <2>1, VerdictFields, AttestFields DEF ProofMatchesPending
<1>4. CASE Activates
  <2>1. state'.pending = Activated.pending /\ state'.proof = Attest(r, Activated.pending)
    BY <1>4, ActivatedFields DEF Activates, TypeOK
  <2>2. /\ Activated.pending \in Evaluation /\ Activated.pending # None
        /\ Activated.pending.release = r.id /\ r \in Release
    BY <1>4, ActivationReport DEF Activates, TypeOK
  <2> QED
    BY <1>1, <2>1, <2>2, AttestFields DEF ProofMatchesPending
<1>5. CASE Keeps
  BY <1>1, <1>5 DEF Keeps, ProofMatchesPending
<1> QED
  BY <1>2, <1>3, <1>4, <1>5, DiskStep

(* A step preserves the agreement of the report and the release pointer.   *)
LEMMA PendingStep ==
  ASSUME TypeOK, Local, PendingMatchesActive, [Next]_vars
  PROVE  PendingMatchesActive'
<1>1. CASE Clears
  BY <1>1, NoReportFields DEF Clears, TypeOK, PendingMatchesActive
<1>2. ASSUME NEW o \in Outcome, Decides(o)
      PROVE  PendingMatchesActive'
  <2>1. state'.pending = Verdict(o) /\ ActiveId(state') = ActiveId(state) /\ r \in Release
    BY <1>2, DecidedFields DEF Decides, TypeOK
  <2> QED
    BY <1>2, <2>1, VerdictFields DEF PendingMatchesActive, Decides, ActiveId
<1>3. CASE Activates
  <2>1. state'.pending = Activated.pending /\ ActiveId(state') = r.id
    BY <1>3, ActivatedFields DEF Activates, TypeOK
  <2>2. Activated.pending.status = "active" /\ Activated.pending.release = r.id
    BY <1>3, ActivationReport DEF Activates, TypeOK
  <2> QED
    BY <2>1, <2>2 DEF PendingMatchesActive, ActiveId
<1>4. CASE Keeps
  BY <1>4 DEF Keeps, PendingMatchesActive, ActiveId
<1> QED
  BY <1>1, <1>2, <1>3, <1>4, DiskStep

(* A step preserves that only what was tested is claimed.                  *)
LEMMA ClaimsStep ==
  ASSUME TypeOK, Local, PassClaimsAreTested, [Next]_vars
  PROVE  PassClaimsAreTested'
<1>1. hasKey' = hasKey
  BY DiskStep
<1>2. CASE Clears
  BY <1>2, NoReportFields DEF Clears, TypeOK, PassClaimsAreTested, FullPass
<1>3. ASSUME NEW o \in Outcome, Decides(o)
      PROVE  PassClaimsAreTested'
  <2>1. /\ state'.pending = Verdict(o) /\ state'.proof = Attest(r, Verdict(o))
        /\ state'.active = state.active /\ r \in Release
    BY <1>3, DecidedFields DEF Decides, TypeOK
  <2>2. state'.active # None => FullPass(state'.active)
    BY <2>1 DEF PassClaimsAreTested
  <2>3. ASSUME state'.pending.status # "rejected"
        PROVE  /\ FullPass(state'.pending)
               /\ \E c \in passed' : /\ c.id = state'.pending.release
                                    /\ hasKey' => state'.proof.about = c
    <3>1. AllPassed(o) /\ FullPass(Verdict(o)) /\ Verdict(o).release = r.id
      BY <2>1, <2>3, VerdictFields
    <3>2. CandidateOf(r) \in passed' /\ CandidateOf(r).id = r.id
      BY <1>3, <3>1 DEF Decides, CandidateOf
    <3>3. hasKey' => state'.proof.about = CandidateOf(r)
      BY <1>1, <2>1, <3>1, VerdictFields, AttestFields
    <3> QED
      BY <2>1, <3>1, <3>2, <3>3
  <2> QED
    BY <2>2, <2>3 DEF PassClaimsAreTested, FullPass
<1>4. CASE Activates
  <2>1. /\ state'.pending = Activated.pending /\ state'.active = Activated.active
        /\ state'.proof = Attest(r, Activated.pending)
    BY <1>4, ActivatedFields DEF Activates, TypeOK
  <2>2. /\ FullPass(Activated.pending) /\ FullPass(Activated.active)
        /\ Activated.pending \in Evaluation /\ Activated.pending.release = r.id
    BY <1>4, ActivationReport DEF Activates, TypeOK
  <2>3. CandidateOf(r) \in passed' /\ CandidateOf(r).id = r.id
    BY <1>4 DEF Activates, CandidateOf, gateVars
  <2>4. hasKey' => state'.proof.about = CandidateOf(r)
    BY <1>1, <1>4, <2>1, <2>2, AttestFields DEF Activates
  <2> QED
    BY <2>1, <2>2, <2>3, <2>4 DEF PassClaimsAreTested, FullPass
<1>5. CASE Keeps
  BY <1>1, <1>5 DEF Keeps, PassClaimsAreTested, FullPass
<1> QED
  BY <1>2, <1>3, <1>4, <1>5, DiskStep

(* A step drops no decision.                                               *)
LEMMA OwedStep ==
  ASSUME TypeOK, Local, DecisionsNotLost, [Next]_vars
  PROVE  DecisionsNotLost'
<1>1. ASSUME NEW o \in Outcome, Decides(o)
      PROVE  DecisionsNotLost'
  BY <1>1, DecidedFields DEF Decides, DecisionsNotLost, TypeOK
<1>2. CASE Clears \/ Activates \/ Keeps
  BY <1>2 DEF Clears, Activates, Keeps, DecisionsNotLost
<1> QED
  BY <1>1, <1>2, DiskStep
-----------------------------------------------------------------------------
(* The gate.                                                               *)

(* A state names the same running candidate as its active release.         *)
LEMMA RunningId ==
  ASSUME NEW st \in State
  PROVE  IF st.active = None
           THEN RunningCandidate(st.active) = None
           ELSE /\ RunningCandidate(st.active) \in Candidate
                /\ RunningCandidate(st.active) # None
                /\ RunningCandidate(st.active).id = ActiveId(st)
<1>1. CASE st.active # None
  <2>1. st.active.release \in Release
    BY <1>1 DEF State, Activation
  <2>2. CandidateOf(st.active.release) \in Candidate
    BY <2>1 DEF CandidateOf, Candidate, Release
  <2> QED
    BY <1>1, <2>2, ConstantsAssumption DEF RunningCandidate, CandidateOf, ActiveId
<1> QED
  BY <1>1 DEF RunningCandidate

(* A candidate under test is idle in the sense of the gate.                *)
LEMMA CandidateIdle ==
  ASSUME TypeOK, r \in Release, ActiveId(state) # r.id
  PROVE  Gate!Idle(CandidateOf(r))
BY RunningId DEF TypeOK, Gate!Idle, Gate!IdOf, CandidateOf

(* Every step of the host is a step of the gate or leaves it alone.        *)
LEMMA GateStep ==
  ASSUME TypeOK, Local, [Next]_vars
  PROVE  [Gate!Next]_(Gate!vars)
<1> USE DEF Gate!vars
<1> DEFINE c == CandidateOf(r)
           SamePointers == /\ RunningCandidate(state.active)' = RunningCandidate(state.active)
                           /\ RunningCandidate(state.previous)' = RunningCandidate(state.previous)
<1>1. CASE Prepare
  <2>1. /\ r \in Release /\ ActiveId(state) # r.id /\ s = state
    BY <1>1, ConstantsAssumption DEF Prepare, Local, CandidateKept, HoldsCandidate, MemoryIsDisk
  <2>2. PICK x \in Outcomes :
          /\ passed' = passed \cup {c} \/ passed' = passed \ {c}
          /\ granted' = granted \ {c}
          /\ state' \in {state, Decided(Judged(x))}
    BY <1>1 DEF Prepare, SaveFailed
  <2>3. SamePointers
    BY <2>1, <2>2, JudgedType, DecidedFields DEF TypeOK, RunningCandidate
  <2>4. c \in Candidate /\ Gate!Idle(c)
    BY <2>1, CandidateIdle DEF CandidateOf, Candidate, Release
  <2>5. Gate!Pass(c) \/ Gate!Fail(c)
    BY <2>2, <2>3, <2>4 DEF Gate!Pass, Gate!Fail
  <2> QED
    BY <2>4, <2>5 DEF Gate!Next
<1>2. CASE Authorize
  <2>1. SamePointers /\ passed' = passed
    BY <1>2 DEF Authorize, RunningCandidate
  <2>2. PICK d \in Desired : granted' = granted \cup (Authorises(d) \cap passed)
    BY <1>2 DEF Authorize
  <2>3. Authorises(d) \subseteq {CandidateOf(d.release)}
    BY DEF Authorises
  <2>4. CASE Authorises(d) \cap passed = {}
    BY <2>1, <2>2, <2>4
  <2>5. CASE Authorises(d) \cap passed # {}
    <3>1. /\ CandidateOf(d.release) \in passed
          /\ granted' = granted \cup {CandidateOf(d.release)}
      BY <2>2, <2>3, <2>5
    <3>2. Gate!Grant(CandidateOf(d.release))
      BY <2>1, <3>1 DEF Gate!Grant
    <3> QED
      BY <3>1, <3>2 DEF Gate!Next, TypeOK
  <2> QED
    BY <2>4, <2>5
<1>3. CASE Activates
  <2>1. /\ state'.active.release = r /\ state'.active # None
        /\ state'.previous = state.active
    <3>1. /\ state' = Activated /\ s = state /\ s \in State
          /\ r \in Release /\ out \in Outcome
      BY <1>3 DEF Activates, TypeOK
    <3>2. [release |-> r, passed |-> out.passed, total |-> out.total] \in Activation
      BY <3>1 DEF Activation, Outcome
    <3> QED
      BY <3>1, <3>2, ActivatedFields, ConstantsAssumption
  <2>2. /\ RunningCandidate(state.active)' = c
        /\ RunningCandidate(state.previous)' = RunningCandidate(state.active)
    BY <2>1 DEF RunningCandidate
  <2>3. c \in Candidate /\ Gate!Idle(c) /\ c \in granted /\ UNCHANGED gateVars
    BY <1>3, CandidateIdle DEF Activates, CandidateOf, Candidate, Release
  <2>4. Gate!Promote(c)
    BY <2>2, <2>3 DEF Gate!Promote, gateVars
  <2> QED
    BY <2>3, <2>4 DEF Gate!Next
<1>4. CASE Clears
  BY <1>4, NoReportFields DEF Clears, gateVars, TypeOK, RunningCandidate
<1>5. CASE Keeps /\ ~Prepare /\ ~Authorize
  <2>1. UNCHANGED gateVars
    BY <1>5 DEF Next, Step, Start, CheckinFails, Conflict, FirstReply, ClearThenDecide,
       RejectionHeard, Activate, ActivateCancelled, ActivationHeard, ClearAndReturn,
       Cancel, Crash, vars
  <2> QED
    BY <1>5, <2>1 DEF Keeps, gateVars, RunningCandidate
<1> QED
  BY <1>1, <1>2, <1>3, <1>4, <1>5, DiskStep DEF Decides

(* A step of the gate keeps authorisations behind the tests they followed, *)
(* and with them the active release gated.                                 *)
LEMMA GatedStep ==
  ASSUME GrantsFollowPasses, ActiveIsGated, [Gate!Next]_(Gate!vars)
  PROVE  GrantsFollowPasses' /\ ActiveIsGated'
<1> USE DEF GrantsFollowPasses, ActiveIsGated, Gate!ActiveIsGated
<1>1. ASSUME NEW c \in Candidate, Gate!Pass(c) \/ Gate!Fail(c)
      PROVE  GrantsFollowPasses' /\ ActiveIsGated'
  BY <1>1 DEF Gate!Pass, Gate!Fail, Gate!Idle
<1>2. ASSUME NEW c \in Candidate, Gate!Grant(c)
      PROVE  GrantsFollowPasses' /\ ActiveIsGated'
  BY <1>2 DEF Gate!Grant
<1>3. ASSUME NEW c \in Candidate, Gate!Promote(c)
      PROVE  GrantsFollowPasses' /\ ActiveIsGated'
  BY <1>3 DEF Gate!Promote
<1> QED
  BY <1>1, <1>2, <1>3 DEF Gate!Next, Gate!vars

-----------------------------------------------------------------------------
(* The theorems.                                                           *)

(* The initial state satisfies the inductive invariant.                    *)
LEMMA InitIInv == Init => IInv
<1> SUFFICES ASSUME Init PROVE IInv
  OBVIOUS
<1>1. TypeOK
  BY EmptyStateType DEF Init, TypeOK, Points, CheckinPoints
<1>2. Local
  BY DEF Init, Local, MemoryIsDisk, AnswerKept, CandidateKept, PassKept, GrantKept,
         OwedElsewhere, ClearedBeforeTest, HoldsCandidate, NothingOwed
<1>3. state.pending = None /\ state.proof = None /\ state.active = None
  BY DEF Init, EmptyState
<1> QED
  BY <1>1, <1>2, <1>3 DEF Init, IInv, ProofMatchesPending, PendingMatchesActive,
     PassClaimsAreTested, DecisionsNotLost, ActiveIsGated, Gate!ActiveIsGated,
     RunningCandidate, GrantsFollowPasses

(* Every step preserves it.                                                *)
LEMMA StepIInv == IInv /\ [Next]_vars => IInv'
<1> SUFFICES ASSUME IInv, [Next]_vars PROVE IInv'
  OBVIOUS
<1> USE DEF IInv
<1>1. TypeOK'
  BY TypeStep DEF Typed, Local
<1>2. Local'
  BY LocalStep
<1>3. ProofMatchesPending' /\ PendingMatchesActive'
  BY ProofStep, PendingStep
<1>4. PassClaimsAreTested' /\ DecisionsNotLost'
  BY ClaimsStep, OwedStep
<1>5. GrantsFollowPasses' /\ ActiveIsGated'
  BY GateStep, GatedStep
<1> QED
  BY <1>1, <1>2, <1>3, <1>4, <1>5

LEMMA Invariance == Spec => []IInv
BY InitIInv, StepIInv, PTL DEF Spec

(* Every variable keeps its type: no reply, outcome or crash leaves a      *)
(* half-written record behind (state.go, sync.go).                         *)
THEOREM TypeCorrect == Spec => []TypeOK
<1>1. IInv => TypeOK
  BY DEF IInv
<1> QED
  BY <1>1, Invariance, PTL

(* A decision stays on disk until the control plane heard or refused it    *)
(* (pending, clear), whatever crashes and lost replies lie between.        *)
THEOREM DecisionsSafe == Spec => []DecisionsNotLost
<1>1. IInv => DecisionsNotLost
  BY DEF IInv
<1> QED
  BY <1>1, Invariance, PTL

(* A report on disk has its signed statement beside it and agrees with the *)
(* release pointer: one SaveState replaces them all (state.go).            *)
THEOREM PendingTogether == Spec => []PendingHoldsTogether
<1>1. IInv => PendingHoldsTogether
  BY DEF IInv, PendingHoldsTogether
<1> QED
  BY <1>1, Invariance, PTL

(* The report on disk agrees with the release pointer, and every claim of  *)
(* a pass is backed by a full pass of the artifact it names.               *)
THEOREM ClaimsTrue == Spec => [](PendingMatchesActive /\ PassClaimsAreTested)
<1>1. IInv => PendingMatchesActive /\ PassClaimsAreTested
  BY DEF IInv
<1> QED
  BY <1>1, Invariance, PTL

(* The active release passed its newest test on this host and was          *)
(* authorised after that test (the re-authorisation in syncLocked).        *)
THEOREM ActiveGated == Spec => []ActiveIsGated
<1>1. IInv => ActiveIsGated
  BY DEF IInv
<1> QED
  BY <1>1, Invariance, PTL

(* The control plane is only told what is on disk.                         *)
LEMMA DurableStep ==
  ASSUME TypeOK, Local, ProofMatchesPending, [Next]_vars
  PROVE  TellsOnlyWhatIsDurable
<1>1. CASE UNCHANGED sent
  BY <1>1 DEF TellsOnlyWhatIsDurable
<1>2. CASE sent' = Message(s) /\ pc # "idle"
  BY <1>2 DEF TellsOnlyWhatIsDurable, Message, Local, MemoryIsDisk, ProofMatchesPending
<1>3. CASE sent' = Message(NoReport(s)) /\ pc # "idle"
  <2>1. /\ ActiveId(NoReport(s)) = ActiveId(state)
        /\ NoReport(s).pending = None /\ NoReport(s).proof = None
    BY <1>3, NoReportFields DEF Local, MemoryIsDisk, TypeOK
  <2> QED
    BY <1>3, <2>1 DEF TellsOnlyWhatIsDurable, Message
<1>4. UNCHANGED sent \/ (pc # "idle" /\ sent' \in {Message(s), Message(NoReport(s))})
  BY DEF Next, Step, Start, CheckinFails, Conflict, FirstReply, ClearThenDecide, Prepare,
     RejectionHeard, Authorize, Activate, ActivateCancelled, ActivationHeard,
     ClearAndReturn, Cancel, Crash, vars, Deliver, Outgoing, CheckinPoints
<1> QED
  BY <1>1, <1>2, <1>3, <1>4

(* No check-in, first or retried, runs ahead of the disk (SaveState before *)
(* report, everywhere in syncLocked).                                      *)
THEOREM OnlyDurable == Spec => OnlyDurableTold
<1>1. IInv /\ [Next]_vars => TellsOnlyWhatIsDurable
  BY DurableStep DEF IInv
<1>2. IInv /\ [Next]_vars => [TellsOnlyWhatIsDurable]_vars
  BY <1>1
<1> QED
  BY <1>2, Invariance, PTL DEF Spec, OnlyDurableTold

(* The host implements FleetGate.                                          *)
THEOREM ImplementsGate == Spec => GateSpec
<1>1. Init => Gate!Init
  BY DEF Init, EmptyState, Gate!Init, RunningCandidate
<1>2. IInv /\ [Next]_vars => [Gate!Next]_(Gate!vars)
  BY GateStep DEF IInv
<1> QED
  BY <1>1, <1>2, Invariance, PTL DEF Spec, GateSpec, Gate!Spec
=============================================================================
