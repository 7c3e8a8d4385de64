--------------------------- MODULE MCSegmentation ----------------------------
(***************************************************************************)
(* Small instance of Segmentation for TLC: one issuer, two schemas, and    *)
(* segment sets of one and of two segments that name them in either slot,  *)
(* one of them with a TTL too long to be added to the clock.               *)
(***************************************************************************)
EXTENDS Segmentation

CONSTANTS cold, heir, hot, i1, kyc, region

Ask(k, t) == [active |-> TRUE, issuer |-> i1, schema |-> k, ttl |-> t]

SomeSets == {[n \in Slot |-> IF n = 0 THEN Ask(kyc, 1) ELSE NoSegment],
             [n \in Slot |-> IF n = 0 THEN Ask(region, 2) ELSE Ask(kyc, 0)],
             [n \in Slot |-> IF n = 0 THEN Ask(kyc, MaxTtl + 1) ELSE Ask(region, 0)]}

SomeWindows == {[wait |-> 0, life |-> NoAge], [wait |-> 0, life |-> 1], [wait |-> 1, life |-> 2]}
=============================================================================
