--------------------------- MODULE MCAttestations ----------------------------
(***************************************************************************)
(* Small instance of Attestations for TLC: one issuer handed from its      *)
(* founder to an heir and back, two schemas, windows that are valid, begin *)
(* later, or end before they begin.                                        *)
(***************************************************************************)
EXTENDS Attestations

CONSTANTS cold, heir, hot

SomeWindows == {[wait |-> 0, life |-> NoAge], [wait |-> 0, life |-> 2],
                [wait |-> 1, life |-> 2], [wait |-> 2, life |-> 1]}
=============================================================================
