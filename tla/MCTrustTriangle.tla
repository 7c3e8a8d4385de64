-------------------------- MODULE MCTrustTriangle ---------------------------
(***************************************************************************)
(* Small instance of TrustTriangle for TLC: the argus guard, with the two  *)
(* degraded postures it accepts.  The vesta_core merchant differs only in  *)
(* the names of its postures.                                              *)
(***************************************************************************)
EXTENDS TrustTriangle

CONSTANTS guard

BothTargets == [c \in Consumer |-> {"REDEMPTION_ONLY", "FROZEN"}]

OneLife == {NoAge, 2}
=============================================================================
