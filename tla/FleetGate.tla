----------------------------- MODULE FleetGate -----------------------------
(***************************************************************************)
(* What a fleet host promises about the release it runs, whatever the      *)
(* network, the control plane or a crash do: the active release is one     *)
(* whose newest acceptance test on this host passed, and whose activation  *)
(* was authorised after that test.  FleetSync implements this module; the  *)
(* modules that only need the promise build on it.                         *)
(***************************************************************************)
CONSTANTS
  Candidates,   \* a release identifier together with the artifact it pins
  Nothing       \* no release

VARIABLES
  active,       \* the candidate the host runs, or Nothing
  previous,     \* the candidate it ran before, or Nothing
  passed,       \* candidates whose newest test on this host passed
  granted       \* candidates authorised since their newest test

vars == <<active, previous, passed, granted>>

(* The identifier of a candidate: a release is tested at most once at a    *)
(* time under its identifier.                                              *)
IdOf(c) == c.id

Init ==
  /\ active = Nothing
  /\ previous = Nothing
  /\ passed = {}
  /\ granted = {}

(* A candidate is only tested while it is not the active release.          *)
Idle(c) == active = Nothing \/ IdOf(active) # IdOf(c)

Pass(c) ==
  /\ Idle(c)
  /\ passed' = passed \cup {c}
  /\ granted' = granted \ {c}
  /\ UNCHANGED <<active, previous>>

Fail(c) ==
  /\ Idle(c)
  /\ passed' = passed \ {c}
  /\ granted' = granted \ {c}
  /\ UNCHANGED <<active, previous>>

Grant(c) ==
  /\ c \in passed
  /\ granted' = granted \cup {c}
  /\ UNCHANGED <<active, previous, passed>>

Promote(c) ==
  /\ c \in granted
  /\ Idle(c)
  /\ previous' = active
  /\ active' = c
  /\ UNCHANGED <<passed, granted>>

Next == \E c \in Candidates : Pass(c) \/ Fail(c) \/ Grant(c) \/ Promote(c)

Spec == Init /\ [][Next]_vars

-----------------------------------------------------------------------------
(* The active release passed its newest test and was authorised after it.  *)
ActiveIsGated == active # Nothing => active \in passed \cap granted
=============================================================================
