-------------------------- MODULE MCTransferGuard ---------------------------
(***************************************************************************)
(* Small instances of TransferGuard for TLC: two wallets (alice, who       *)
(* holds points first, and bob, whose wallet may be program-owned).        *)
(***************************************************************************)
EXTENDS TransferGuard

CONSTANTS alice, bob, aegis, terms

Limitless == [flags |-> {}, dailyGiftCap |-> 9, perTxCap |-> 0, maxWalletBalance |-> 0,
              transfersPerDay |-> 0, cooldownSecs |-> 0, attestationSchema |-> 1,
              capabilityTtl |-> 0, policy |-> NoKey]

(* The eligibility instance: one credential asked for by schema id, another *)
(* through an aegis Policy with its own lifetime and a deny list.           *)
BySchema == [Limitless EXCEPT !.flags = {"REQUIRE_ATTESTATION", "BLOCK_PROGRAM_OWNED"},
                              !.dailyGiftCap = 1]
ByPolicy == [BySchema EXCEPT !.flags = {"REQUIRE_ATTESTATION", "DENYLIST"}, !.policy = terms,
                             !.capabilityTtl = 1]
Corrupt  == [BySchema EXCEPT !.flags = {"UNKNOWN"}]
EligibilityDocs == {BySchema, ByPolicy, Corrupt}

(* The velocity instance: a count and a cooldown, amounts and balances, and *)
(* gifts switched off.                                                      *)
Paced   == [Limitless EXCEPT !.dailyGiftCap = 3, !.transfersPerDay = 2, !.cooldownSecs = 2]
Bounded == [Limitless EXCEPT !.dailyGiftCap = 3, !.perTxCap = 1, !.maxWalletBalance = 2]
Closed  == [Bounded EXCEPT !.flags = {"GIFTING_DISABLED"}]
VelocityDocs == {Paced, Bounded, Closed}
=============================================================================
