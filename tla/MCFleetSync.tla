---------------------------- MODULE MCFleetSync ----------------------------
(* Two release identifiers, two artifacts, the host's channel and another; *)
(* the control plane may pause a release, republish an identifier with     *)
(* another artifact, or name a release of the other channel.               *)
EXTENDS FleetSync

CONSTANTS i1, i2, a1, a2, home, other

Named(i, a, c, st) == [id |-> i, artifact |-> a, channel |-> c, status |-> st]

MCOffers ==
  {Named(i1, a1, home, "canary"), Named(i1, a1, home, "paused"),
   Named(i1, a2, home, "canary"), Named(i2, a1, home, "active"),
   Named(i2, a1, other, "active")}

Found(code, p, n) == [code |-> code, passed |-> p, total |-> n]

(* All cases passed, some failed, there was nothing to run, and the        *)
(* artifact did not verify.                                                *)
MCOutcomes == {Found("ok", 2, 2), Found("ok", 1, 2), Found("ok", 0, 0),
               Found("artifact", 0, 0)}
=============================================================================
