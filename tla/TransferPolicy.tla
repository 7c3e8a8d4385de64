--------------------------- MODULE TransferPolicy ---------------------------
(***************************************************************************)
(* The transfer policy an argus GuardConfig enforces: the retunable fields *)
(* (`PolicyDoc` in argus state.rs) and the coherence checks every path     *)
(* that installs a policy runs.  Pure definitions, no state.               *)
(*                                                                         *)
(* Abstraction: the flag word is the set of its bits by name, "UNKNOWN"    *)
(* standing for any bit outside flags::KNOWN; the content address          *)
(* sha256(borsh(doc)) is the document itself (equal iff the documents are  *)
(* equal); the fields no rule below reads keep their value unexamined.     *)
(***************************************************************************)
EXTENDS Integers

CONSTANTS
  Key,         \* public keys that can sign a transaction
  NoKey,       \* Pubkey::default(): the all-zero key, which signs nothing
  AegisKey     \* aegis program, issuer and Policy addresses a guard may name

ASSUME KeyAssumption == NoKey \notin Key /\ NoKey \notin AegisKey

KnownFlags == {"BLOCK_PROGRAM_OWNED", "ALLOWLIST_ONLY", "DENYLIST",
               "REQUIRE_ATTESTATION", "GIFTING_DISABLED"}

Flags == KnownFlags \cup {"UNKNOWN"}

PolicyDoc ==
  [flags             : SUBSET Flags,
   dailyGiftCap      : Nat,
   perTxCap          : Nat,
   maxWalletBalance  : Nat,
   transfersPerDay   : Nat,
   cooldownSecs      : Nat,
   attestationSchema : Nat,
   capabilityTtl     : Int,
   policy            : AegisKey \cup {NoKey}]

(***************************************************************************)
(* validate_policy, given the aegis program and the issuer the guard was   *)
(* bound to when it was created.                                           *)
(***************************************************************************)
ValidatePolicy(doc, aegisProgram, issuer) ==
  /\ doc.flags \subseteq KnownFlags
  /\ (doc.dailyGiftCap # 0 /\ doc.perTxCap # 0) => doc.perTxCap <= doc.dailyGiftCap
  /\ "REQUIRE_ATTESTATION" \in doc.flags =>
       /\ aegisProgram # NoKey
       /\ doc.policy # NoKey \/ issuer # NoKey

(* What initialize_transfer_guard, configure_policy and apply_and_repoint   *)
(* all demand of a document before it goes live.                            *)
Installable(doc, aegisProgram, issuer) ==
  doc.capabilityTtl >= 0 /\ ValidatePolicy(doc, aegisProgram, issuer)
=============================================================================
