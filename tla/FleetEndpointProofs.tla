------------------------ MODULE FleetEndpointProofs ------------------------
(***************************************************************************)
(* Theorems about FleetEndpoint for any number of handlers and releases.   *)
(***************************************************************************)
EXTENDS FleetEndpoint, TLAPS

-----------------------------------------------------------------------------
(* The mutex is held by the test or by the one handler past Acquire; the   *)
(* release under test is newer than the active one, and no handler arrived *)
(* under a release newer than that.                                        *)
HoldingPoints == {"loading", "answering", "generating"}

MutexHeld ==
  /\ loop = "test" => mu = "loop"
  /\ \A c \in Clients : req[c].at \in HoldingPoints => mu = c

CandidateNewer ==
  loop \in {"flagged", "test", "tested", "decide"} => candidate > active

SinceSeen == \A c \in Clients : req[c].since <= active

IInv == /\ TypeOK /\ MutexHeld /\ CandidateNewer /\ SinceSeen
        /\ TestedAlone /\ NoStaleAnswer /\ AgentHeld

-----------------------------------------------------------------------------
Request == [at : Points, kind : {"chat", "models"}, since : 0..MaxRelease, got : 0..MaxRelease]

(* The type invariant in two parts: one for sets and numbers, one for the  *)
(* Boolean variables, which different provers handle.                      *)
Booleans == testing \in BOOLEAN /\ process \in BOOLEAN /\ interrupted \in BOOLEAN
Others ==
  /\ loop \in {"poll", "flagged", "test", "tested", "decide", "wait", "drain", "close",
               "closed", "exited"}
  /\ candidate \in 0..MaxRelease /\ active \in 0..MaxRelease /\ loaded \in 0..MaxRelease
  /\ mu \in Clients \cup {"loop", Nobody}
  /\ req \in [Clients -> Request]

LEMMA TypeParts == TypeOK <=> Booleans /\ Others
BY Zenon DEF TypeOK, Booleans, Others, Request

LEMMA IdleType == Idle \in Request
BY ConstantsAssumption DEF Idle, Request, Points

LEMMA InitIInv == Init => IInv
<1> SUFFICES ASSUME Init PROVE IInv
  OBVIOUS
<1>1. req \in [Clients -> Request]
  BY IdleType DEF Init
<1>2. \A c \in Clients : req[c].at = "idle" /\ req[c].since = 0
  BY DEF Init, Idle
<1>3. Booleans
  BY Zenon DEF Init, Booleans
<1>4. Others
  BY <1>1, ConstantsAssumption DEF Init, Others
<1>5. MutexHeld /\ AgentHeld /\ NoStaleAnswer
  BY <1>2 DEF Init, MutexHeld, AgentHeld, NoStaleAnswer, HoldingPoints
<1>6. CandidateNewer /\ TestedAlone /\ SinceSeen
  BY <1>2, <1>4 DEF Init, CandidateNewer, TestedAlone, SinceSeen, Others
<1> QED
  BY <1>3, <1>4, <1>5, <1>6, TypeParts DEF IInv

-----------------------------------------------------------------------------
(* The serving goroutine.  Handlers stay where they are while it steps, so *)
(* only what it does to the mutex, the model and the releases matters.     *)
LEMMA LoopType ==
  ASSUME IInv, Loop
  PROVE  TypeOK'
<1>1. Others /\ Booleans
  BY TypeParts DEF IInv
<1>2. Booleans'
  BY <1>1, Zenon DEF Booleans, Loop, NothingNew, RaiseFlag, StartTest, EndTest, LowerFlag,
     Decide, NextPoll, StopListening, Drained, Close, Exit, Unload, modelVars
<1>3. Others'
  <2>1. CASE NothingNew \/ NextPoll \/ StopListening \/ Drained
    BY <1>1, <2>1 DEF NothingNew, NextPoll, StopListening, Drained, Others, modelVars
  <2>2. CASE RaiseFlag \/ LowerFlag \/ Decide
    BY <1>1, <2>2, ConstantsAssumption
       DEF RaiseFlag, LowerFlag, Decide, Releases, Others, modelVars
  <2>3. CASE StartTest \/ EndTest \/ Close
    BY <1>1, <2>3, ConstantsAssumption DEF StartTest, EndTest, Close, Unload, Others
  <2>4. CASE Exit
    BY <1>1, <2>4, IdleType DEF Exit, Others
  <2> QED
    BY <2>1, <2>2, <2>3, <2>4 DEF Loop
<1> QED
  BY <1>2, <1>3 DEF TypeOK, Booleans, Others, Request

(* The mutex and the open agent.                                           *)
LEMMA LoopHolds ==
  ASSUME IInv, Loop
  PROVE  MutexHeld' /\ TestedAlone' /\ AgentHeld'
<1> USE ConstantsAssumption DEF IInv, MutexHeld, TestedAlone, AgentHeld, HoldingPoints
<1>1. CASE UNCHANGED <<req, mu, loaded, process>> /\ loop' # "test"
  BY <1>1
<1>2. CASE StartTest \/ Close
  <2>1. \A c \in Clients : req[c].at \notin HoldingPoints
    BY <1>2 DEF StartTest, Close
  <2> QED
    BY <1>2, <2>1 DEF StartTest, Close, Unload
<1>3. CASE EndTest
  <2>1. \A c \in Clients : req[c].at \notin HoldingPoints
    BY <1>3 DEF EndTest
  <2> QED
    BY <1>3, <2>1 DEF EndTest
<1>4. CASE Exit
  <2>1. \A c \in Clients : req'[c].at = "idle"
    BY <1>4 DEF Exit, Idle
  <2> QED
    BY <1>4, <2>1 DEF Exit
<1> QED
  BY <1>1, <1>2, <1>3, <1>4 DEF Loop, NothingNew, NextPoll, StopListening, Drained,
     RaiseFlag, LowerFlag, Decide, modelVars

(* The active release only grows, and no request saw a later one.          *)
LEMMA LoopGrows ==
  ASSUME IInv, Loop
  PROVE  CandidateNewer' /\ SinceSeen' /\ NoStaleAnswer'
<1>1. CandidateNewer' /\ active' >= active
  <2>1. CASE RaiseFlag
    BY <2>1, ConstantsAssumption DEF RaiseFlag, CandidateNewer, IInv, TypeOK, Releases
  <2>2. CASE Decide
    BY <2>2, ConstantsAssumption DEF Decide, CandidateNewer, IInv, TypeOK
  <2>3. CASE UNCHANGED <<candidate, active>> /\ ~RaiseFlag
    BY <2>3, ConstantsAssumption DEF Loop, NothingNew, StartTest, EndTest, LowerFlag, Decide,
       NextPoll, StopListening, Drained, Close, Exit, CandidateNewer, IInv, TypeOK
  <2> QED
    BY <2>1, <2>2, <2>3 DEF Loop, NothingNew, StartTest, EndTest, LowerFlag,
       NextPoll, StopListening, Drained, Close, Exit
<1>2. TypeOK /\ TypeOK'
  BY LoopType DEF IInv
<1>3. CASE UNCHANGED req
  <2>1. \A c \in Clients : req[c].since \in Nat /\ req[c].since <= active
    BY <1>2, ConstantsAssumption DEF TypeOK, IInv, SinceSeen
  <2>2. \A c \in Clients : req[c].since <= active'
    BY <1>1, <1>2, <2>1, ConstantsAssumption DEF TypeOK
  <2> QED
    BY <1>1, <1>3, <2>2 DEF SinceSeen, NoStaleAnswer, IInv
<1>4. CASE Exit
  <2>1. \A c \in Clients : req'[c].at = "idle" /\ req'[c].since = 0
    BY <1>4 DEF Exit, Idle
  <2> QED
    BY <1>1, <1>2, <2>1, ConstantsAssumption DEF SinceSeen, NoStaleAnswer, TypeOK
<1> QED
  BY <1>3, <1>4 DEF Loop, NothingNew, RaiseFlag, StartTest, EndTest, LowerFlag, Decide,
     NextPoll, StopListening, Drained, Close

-----------------------------------------------------------------------------
(* The handlers.                                                           *)

(* Moving a handler to a point changes nothing else about it or another.   *)
LEMMA GotoFields ==
  ASSUME TypeOK, NEW c \in Clients, NEW point \in Points, Goto(c, point)
  PROVE  /\ req' \in [Clients -> Request]
         /\ req'[c].at = point /\ req'[c].kind = req[c].kind
         /\ req'[c].since = req[c].since /\ req'[c].got = req[c].got
         /\ \A d \in Clients \ {c} : req'[d] = req[d]
<1>1. req \in [Clients -> Request]
  BY DEF TypeOK, Request
<1>2. req[c] \in Request
  BY <1>1
<1>3. [req[c] EXCEPT !.at = point] \in Request
  BY <1>2 DEF Request
<1>4. req' = [req EXCEPT ![c] = [req[c] EXCEPT !.at = point]]
  BY <1>1 DEF Goto
<1> QED
  BY <1>1, <1>2, <1>3, <1>4 DEF Request

(* A handler that neither gains nor uses the mutex disturbs nobody.        *)
LEMMA QuietMove ==
  ASSUME IInv, NEW c \in Clients, NEW point \in Points \ HoldingPoints, Goto(c, point),
         UNCHANGED <<loopVars, active, testing, modelVars>>
  PROVE  IInv'
<1>1. TypeOK
  BY DEF IInv
<1>2. TypeOK'
  BY <1>1, GotoFields DEF TypeOK, loopVars, modelVars, Request
<1>3. \A d \in Clients : req'[d].at \in HoldingPoints => d # c /\ req'[d] = req[d]
  BY <1>1, GotoFields
<1>4. MutexHeld' /\ TestedAlone' /\ CandidateNewer'
  BY <1>3 DEF IInv, MutexHeld, TestedAlone, CandidateNewer, loopVars, modelVars
<1>5. SinceSeen'
  BY <1>1, GotoFields DEF IInv, SinceSeen
<1>6. NoStaleAnswer' /\ AgentHeld'
  BY <1>3 DEF IInv, NoStaleAnswer, AgentHeld, modelVars, HoldingPoints
<1> QED
  BY <1>2, <1>4, <1>5, <1>6 DEF IInv

(* A handler that holds the mutex is alone past Acquire, and no test runs. *)
LEMMA Alone ==
  ASSUME IInv, NEW c \in Clients, mu = c
  PROVE  /\ loop # "test"
         /\ \A d \in Clients \ {c} : req[d].at \notin HoldingPoints
BY ConstantsAssumption DEF IInv, MutexHeld

(* What remains to be shown of a step of the handler that holds the mutex. *)
LEMMA HolderMove ==
  ASSUME IInv, NEW c \in Clients, mu = c,
         TypeOK',
         \A d \in Clients \ {c} : req'[d] = req[d],
         UNCHANGED <<loopVars, active>>,
         req'[c].since = req[c].since,
         req'[c].at \in HoldingPoints => mu' = c,
         req'[c].at \in {"answering", "generating"} =>
           /\ loaded' = req'[c].got /\ req'[c].got >= req'[c].since
           /\ req'[c].at = "generating" => process'
  PROVE  IInv'
<1>1. loop # "test" /\ \A d \in Clients \ {c} : req'[d].at \notin HoldingPoints
  BY Alone
<1>2. MutexHeld' /\ TestedAlone' /\ CandidateNewer'
  BY <1>1 DEF IInv, MutexHeld, TestedAlone, CandidateNewer, loopVars
<1>3. SinceSeen'
  BY DEF IInv, SinceSeen
<1>4. NoStaleAnswer' /\ AgentHeld'
  BY <1>1 DEF NoStaleAnswer, AgentHeld, HoldingPoints
<1> QED
  BY <1>2, <1>3, <1>4 DEF IInv

(* Every step of a handler preserves the invariant.                        *)
LEMMA HandlerStep ==
  ASSUME IInv, NEW c \in Clients, Arrive(c) \/ Handler(c)
  PROVE  IInv'
<1>1. TypeOK /\ req \in [Clients -> Request]
  BY DEF IInv, TypeOK, Request
<1>2. req[c].at \in HoldingPoints => mu = c
  BY DEF IInv, MutexHeld
<1>3. req[c].since \in Nat /\ req[c].since <= active /\ active \in 0..MaxRelease
  BY <1>1, ConstantsAssumption DEF IInv, SinceSeen, TypeOK
<1>4. CASE Arrive(c)
  <2>1. PICK k \in {"chat", "models"} :
          req' = [req EXCEPT ![c] = [at |-> "arrived", kind |-> k, since |-> active, got |-> 0]]
    BY <1>4 DEF Arrive
  <2> DEFINE new == [at |-> "arrived", kind |-> k, since |-> active, got |-> 0]
  <2>2. new \in Request
    BY <1>3, ConstantsAssumption DEF Request, Points
  <2>3. /\ req' \in [Clients -> Request] /\ req'[c] = new
        /\ \A d \in Clients \ {c} : req'[d] = req[d]
    BY <1>1, <2>1, <2>2
  <2>4. TypeOK'
    BY <1>4, <1>1, <2>3 DEF Arrive, TypeOK, loopVars, modelVars, Request
  <2>5. MutexHeld' /\ TestedAlone' /\ CandidateNewer' /\ NoStaleAnswer' /\ AgentHeld'
    BY <1>4, <2>3 DEF Arrive, IInv, MutexHeld, TestedAlone, CandidateNewer, NoStaleAnswer,
       AgentHeld, HoldingPoints, loopVars, modelVars
  <2>6. SinceSeen'
    BY <1>3, <1>4, <2>3 DEF Arrive, IInv, SinceSeen
  <2> QED
    BY <2>4, <2>5, <2>6 DEF IInv
<1>5. CASE Busy(c) \/ PassFlag(c)
  BY <1>5, QuietMove DEF Busy, PassFlag, Points, HoldingPoints
<1>6. CASE Acquire(c)
  <2>1. /\ req' \in [Clients -> Request] /\ req'[c].at = "loading"
        /\ req'[c].since = req[c].since
        /\ \A d \in Clients \ {c} : req'[d] = req[d]
    BY <1>1, <1>6, GotoFields DEF Acquire, Points
  <2>2. /\ loop # "test" /\ \A d \in Clients : req[d].at \notin HoldingPoints
    BY <1>6, ConstantsAssumption DEF Acquire, IInv, MutexHeld
  <2>3. TypeOK'
    BY <1>1, <1>6, <2>1 DEF Acquire, TypeOK, loopVars, Request
  <2>4. MutexHeld' /\ TestedAlone' /\ CandidateNewer'
    BY <1>6, <2>1, <2>2 DEF Acquire, IInv, MutexHeld, TestedAlone, CandidateNewer, loopVars
  <2>5. NoStaleAnswer' /\ AgentHeld' /\ SinceSeen'
    BY <1>6, <2>1, <2>2 DEF Acquire, IInv, NoStaleAnswer, AgentHeld, HoldingPoints, SinceSeen
  <2> QED
    BY <2>3, <2>4, <2>5 DEF IInv
<1>7. CASE Load(c)
  <2> DEFINE new == [req[c] EXCEPT !.at = "answering", !.got = active]
  <2>1. new \in Request /\ new.at = "answering" /\ new.got = active
        /\ new.since = req[c].since
    BY <1>1, <1>3 DEF Request, Points
  <2>2. req' = [req EXCEPT ![c] = new]
    BY <1>1, <1>7 DEF Load
  <2>3. /\ req' \in [Clients -> Request] /\ req'[c] = new
        /\ \A d \in Clients \ {c} : req'[d] = req[d]
    BY <1>1, <2>1, <2>2
  <2>4. mu = c /\ mu' = mu /\ loaded' = active /\ UNCHANGED <<loopVars, active>>
    BY <1>2, <1>7 DEF Load, At, HoldingPoints
  <2>5. TypeOK'
    BY <1>1, <1>7, <2>3, <2>4 DEF Load, TypeOK, loopVars, Request
  <2>6. active >= req[c].since
    BY <1>3, ConstantsAssumption
  <2> HIDE DEF new
  <2> QED
    BY <2>1, <2>3, <2>4, <2>5, <2>6, HolderMove
<1>8. CASE LoadFails(c) \/ Answer(c)
  <2>1. /\ req' \in [Clients -> Request] /\ req'[c].at = "idle"
        /\ req'[c].since = req[c].since
        /\ \A d \in Clients \ {c} : req'[d] = req[d]
    BY <1>1, <1>8, GotoFields DEF LoadFails, Answer, Points
  <2>2. mu = c /\ UNCHANGED <<loopVars, active>>
    BY <1>2, <1>8 DEF LoadFails, Answer, At, HoldingPoints
  <2>3. Others'
    BY <1>1, <1>8, <2>1, <2>2, ConstantsAssumption, TypeParts
       DEF LoadFails, Answer, Unload, Others, loopVars
  <2>4. Booleans'
    BY <1>1, <1>8, TypeParts, Zenon DEF LoadFails, Answer, Unload, Booleans, loopVars
  <2>5. TypeOK'
    BY <2>3, <2>4 DEF TypeOK, Booleans, Others, Request
  <2> QED
    BY <2>1, <2>2, <2>5, HolderMove DEF HoldingPoints
<1>9. CASE Generate(c)
  <2>1. /\ req' \in [Clients -> Request] /\ req'[c].at = "generating"
        /\ req'[c].since = req[c].since /\ req'[c].got = req[c].got
        /\ \A d \in Clients \ {c} : req'[d] = req[d]
    BY <1>1, <1>9, GotoFields DEF Generate, Points
  <2>2. /\ mu = c /\ mu' = mu /\ UNCHANGED <<loopVars, active, loaded>> /\ process'
    BY <1>2, <1>9 DEF Generate, At, HoldingPoints
  <2>3. TypeOK'
    BY <1>1, <1>9, <2>1 DEF Generate, TypeOK, loopVars, Request
  <2>4. loaded = req[c].got /\ req[c].got >= req[c].since
    BY <1>9 DEF Generate, At, IInv, AgentHeld, NoStaleAnswer
  <2> QED
    BY <2>1, <2>2, <2>3, <2>4, HolderMove
<1> QED
  BY <1>4, <1>5, <1>6, <1>7, <1>8, <1>9 DEF Handler

LEMMA StepIInv == IInv /\ [Next]_vars => IInv'
<1> SUFFICES ASSUME IInv, [Next]_vars PROVE IInv'
  OBVIOUS
<1>1. CASE Interrupt \/ Done \/ UNCHANGED vars
  <2>1. UNCHANGED <<loop, candidate, active, testing, modelVars, req>>
    BY <1>1 DEF Interrupt, Done, vars, loopVars
  <2>2. Booleans'
    BY <1>1, TypeParts, Zenon DEF Interrupt, Done, vars, loopVars, modelVars, Booleans, IInv
  <2>3. Others'
    BY <2>1, TypeParts DEF IInv, Others, modelVars
  <2>4. TypeOK'
    BY <2>2, <2>3 DEF TypeOK, Booleans, Others, Request
  <2> QED
    BY <2>1, <2>4 DEF IInv, MutexHeld, CandidateNewer, SinceSeen, TestedAlone,
       NoStaleAnswer, AgentHeld, HoldingPoints, modelVars
<1>2. CASE Loop
  BY <1>2, LoopType, LoopHolds, LoopGrows DEF IInv
<1> QED
  BY <1>1, <1>2, HandlerStep DEF Next

LEMMA Invariance == Spec => []IInv
BY InitIInv, StepIInv, PTL DEF Spec

-----------------------------------------------------------------------------
(* Every variable keeps its type.                                          *)
THEOREM TypeCorrect == Spec => []TypeOK
<1>1. IInv => TypeOK
  BY DEF IInv
<1> QED
  BY <1>1, Invariance, PTL

(* A candidate is tested with nothing loaded (Endpoint.Prepare).           *)
THEOREM TestsAlone == Spec => []TestedAlone
<1>1. IInv => TestedAlone
  BY DEF IInv
<1> QED
  BY <1>1, Invariance, PTL

(* A handler's agent stays open until it has answered, and is not older    *)
(* than the release active when the request arrived (load).                *)
THEOREM AnswersCurrent == Spec => []CurrentAnswerHeld
<1>1. IInv => CurrentAnswerHeld
  BY DEF IInv, CurrentAnswerHeld
<1> QED
  BY <1>1, Invariance, PTL
=============================================================================
