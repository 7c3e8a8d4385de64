-------------------------- MODULE PolicyGovernance --------------------------
(***************************************************************************)
(* The policy lifecycle of one argus transfer guard: the free-tier path    *)
(* (configure_policy by a single authority) and the governed one           *)
(* (propose -> approve -> timelock -> activate, rollback, pin) with its    *)
(* separation-of-duties role registry.                                     *)
(*                                                                         *)
(* Each action is one instruction: a Solana transaction is atomic, and an  *)
(* instruction whose checks fail reverts everything, so a failing call is  *)
(* an action that is not enabled.  Instructions of different signers       *)
(* interleave arbitrarily, and the clock moves between them.               *)
(***************************************************************************)
EXTENDS TransferPolicy

CONSTANTS
  Docs,             \* the policy documents proposed, configured or bound at init
  NoDoc,            \* [0u8; 32]: the hash that names no version
  AegisProgram,     \* GuardConfig.aegis_program, immutable after init
  Issuer,           \* GuardConfig.attestation_issuer, immutable after init
  RoleAssignments,  \* the role tables initialize_governance may be called with
  RoleChanges,      \* the <<role, authority>> pairs proposed as role changes
  Timelocks,        \* timelock_secs values passed to initialize_governance
  Heirs,            \* keys the guard's authority is offered to (NoKey: an offer withdrawn)
  MaxTimelock,      \* MAX_GOVERNANCE_TIMELOCK_SECS
  EpochMax,         \* u64::MAX, where policy_epoch saturates
  MaxTime           \* bound: the clock stops here

Role == {"RoleAdmin", "Author", "Approver", "Activator", "PauseOperator", "Reporter"}

ASSUME GovernanceAssumption ==
  /\ Docs \subseteq PolicyDoc
  /\ NoDoc \notin Docs
  /\ RoleAssignments \subseteq [Role -> Key \cup {NoKey}]
  /\ RoleChanges \subseteq Role \X (Key \cup {NoKey})
  /\ Timelocks \subseteq Int
  /\ Heirs \subseteq Key \cup {NoKey}
  /\ MaxTimelock \in Nat /\ EpochMax \in Nat /\ MaxTime \in Nat

VARIABLES
  guard,     \* GuardConfig: the live policy and who may pause or retune it
  versions,  \* PolicyVersion accounts, by content hash
  pointer,   \* PolicyPointer: active and pending hash, timelock, pin
  registry,  \* RoleRegistry: role authorities and the queued role change
  now        \* Clock::unix_timestamp (positive, so 0 can mean "unset")

vars == <<guard, versions, pointer, registry, now>>

Guard ==
  [authority        : Key,
   pendingAuthority : Key \cup {NoKey},
   paused           : BOOLEAN,
   governed         : BOOLEAN,
   doc              : Docs,
   policyEpoch      : 0..EpochMax,
   activePolicyHash : Docs \cup {NoDoc}]

(* An account that does not exist yet is all zeroes: no author.             *)
Version == [author     : Key \cup {NoKey},
            approver   : Key \cup {NoKey},
            approvedAt : Nat]

Pointer == [active            : Docs \cup {NoDoc},
            pending           : Docs \cup {NoDoc},
            pendingApprovedAt : Nat,
            timelock          : Nat,
            pinned            : BOOLEAN]

Registry == [roles            : [Role -> Key \cup {NoKey}],
             pendingRole      : Role,
             pendingAuthority : Key \cup {NoKey},
             pendingAfter     : Nat]

NoVersion  == [author |-> NoKey, approver |-> NoKey, approvedAt |-> 0]
NoPointer  == [active |-> NoDoc, pending |-> NoDoc, pendingApprovedAt |-> 0,
               timelock |-> 0, pinned |-> FALSE]
NoRegistry == [roles |-> [r \in Role |-> NoKey], pendingRole |-> "RoleAdmin",
               pendingAuthority |-> NoKey, pendingAfter |-> 0]

(* TypeOK: every account holds values of its declared layout.               *)
TypeOK ==
  /\ guard \in Guard
  /\ versions \in [Docs -> Version]
  /\ pointer \in Pointer
  /\ registry \in Registry
  /\ now \in Nat \ {0}

-----------------------------------------------------------------------------
(* Helpers *)

(* saturating_add                                                           *)
SatInc(e) == IF e < EpochMax THEN e + 1 ELSE e

Acceptable(doc) == Installable(doc, AegisProgram, Issuer)

Proposed(d) == versions[d].author # NoKey
Approved(d) == versions[d].approvedAt # 0

(* RoleRegistry::require: fail-closed, an unset role matches no signer.     *)
HoldsRole(signer, role) ==
  registry.roles[role] # NoKey /\ registry.roles[role] = signer

-----------------------------------------------------------------------------
(* Faulty variants of the operations below, each with one slip the          *)
(* properties at the end must notice.                                       *)

ConfigurePolicyWhileGoverned(signer, d) ==
  /\ signer = guard.authority
  /\ d.policy = guard.doc.policy
  /\ Acceptable(d)
  /\ guard' = [guard EXCEPT !.doc = d, !.policyEpoch = SatInc(guard.policyEpoch)]
  /\ UNCHANGED <<versions, pointer, registry, now>>

ProposePolicyAnew(signer, d) ==
  /\ HoldsRole(signer, "Author")
  /\ ~pointer.pinned
  /\ versions' = [versions EXCEPT ![d] = [NoVersion EXCEPT !.author = signer]]
  /\ pointer' = [pointer EXCEPT !.pending = d, !.pendingApprovedAt = 0]
  /\ UNCHANGED <<guard, registry, now>>

ApprovePolicyByAuthor(signer, d) ==
  /\ HoldsRole(signer, "Approver")
  /\ ~pointer.pinned
  /\ Proposed(d) /\ pointer.pending = d
  /\ versions' = [versions EXCEPT ![d] = [versions[d] EXCEPT !.approver = signer,
                                                             !.approvedAt = now]]
  /\ pointer' = [pointer EXCEPT !.pendingApprovedAt = now]
  /\ UNCHANGED <<guard, registry, now>>

ApprovePolicyKeepsFirstTime(signer, d) ==
  /\ HoldsRole(signer, "Approver")
  /\ ~pointer.pinned
  /\ Proposed(d) /\ pointer.pending = d
  /\ signer # versions[d].author
  /\ versions' = [versions EXCEPT ![d] = [versions[d] EXCEPT !.approver = signer,
                                                             !.approvedAt = now]]
  /\ pointer' = [pointer EXCEPT !.pendingApprovedAt = IF @ = 0 THEN now ELSE @]
  /\ UNCHANGED <<guard, registry, now>>

ApplyAndRepointKeepsEpoch(d) ==
  /\ Acceptable(d)
  /\ guard' = [guard EXCEPT !.doc = d, !.activePolicyHash = d]
  /\ pointer' = [pointer EXCEPT !.active = d, !.pending = NoDoc, !.pendingApprovedAt = 0]
  /\ UNCHANGED <<versions, registry, now>>

ApplyRoleChangeUnqueued(signer) ==
  /\ HoldsRole(signer, "RoleAdmin")
  /\ now >= registry.pendingAfter
  /\ registry' = [NoRegistry EXCEPT !.roles =
                    [registry.roles EXCEPT ![registry.pendingRole] = registry.pendingAuthority]]
  /\ UNCHANGED <<guard, versions, pointer, now>>

ProposeRoleChangeKeepsClock(signer, role, newAuthority) ==
  /\ HoldsRole(signer, "RoleAdmin")
  /\ role = "RoleAdmin" => newAuthority # NoKey
  /\ registry' = [registry EXCEPT !.pendingRole = role,
                                  !.pendingAuthority = newAuthority,
                                  !.pendingAfter = IF @ = 0 THEN now + pointer.timelock ELSE @]
  /\ UNCHANGED <<guard, versions, pointer, now>>

-----------------------------------------------------------------------------
(* The merchant creates the guard with a validated policy, epoch 0.         *)
Init ==
  /\ \E owner \in Key, d \in Docs :
       /\ Acceptable(d)
       /\ guard = [authority |-> owner, pendingAuthority |-> NoKey,
                   paused |-> FALSE, governed |-> FALSE, doc |-> d,
                   policyEpoch |-> 0, activePolicyHash |-> NoDoc]
  /\ versions = [d \in Docs |-> NoVersion]
  /\ pointer = NoPointer
  /\ registry = NoRegistry
  /\ now = 1

(* Free tier: the authority overwrites the live policy, until governed.     *)
(* A PolicyUpdate cannot name another aegis Policy account.                 *)
ConfigurePolicy(signer, d) ==
  /\ signer = guard.authority
  /\ ~guard.governed
  /\ d.policy = guard.doc.policy
  /\ Acceptable(d)
  /\ guard' = [guard EXCEPT !.doc = d, !.policyEpoch = SatInc(guard.policyEpoch)]
  /\ UNCHANGED <<versions, pointer, registry, now>>

SetGuardPaused(signer, paused) ==
  /\ signer = guard.authority
  /\ guard' = [guard EXCEPT !.paused = paused]
  /\ UNCHANGED <<versions, pointer, registry, now>>

TransferGuardAuthority(signer, newAuthority) ==
  /\ signer = guard.authority
  /\ guard' = [guard EXCEPT !.pendingAuthority = newAuthority]
  /\ UNCHANGED <<versions, pointer, registry, now>>

AcceptGuardAuthority(signer) ==
  /\ signer = guard.pendingAuthority
  /\ guard' = [guard EXCEPT !.authority = signer, !.pendingAuthority = NoKey]
  /\ UNCHANGED <<versions, pointer, registry, now>>

-----------------------------------------------------------------------------
(* Adopting governance snapshots the live policy as a self-approved,        *)
(* already active genesis version.                                          *)
InitializeGovernance(signer, roles, timelock) ==
  /\ signer = guard.authority
  /\ ~guard.governed
  /\ timelock \in 0..MaxTimelock
  /\ roles["RoleAdmin"] # NoKey
  /\ versions' = [versions EXCEPT ![guard.doc] =
                    [author |-> signer, approver |-> signer, approvedAt |-> now]]
  /\ registry' = [NoRegistry EXCEPT !.roles = roles]
  /\ pointer' = [NoPointer EXCEPT !.active = guard.doc, !.timelock = timelock]
  /\ guard' = [guard EXCEPT !.governed = TRUE, !.activePolicyHash = guard.doc]
  /\ UNCHANGED now

(* The version account is created at its content address, so a document     *)
(* that was ever proposed cannot be proposed again.                         *)
ProposePolicy(signer, d) ==
  /\ HoldsRole(signer, "Author")
  /\ ~pointer.pinned
  /\ ~Proposed(d)
  /\ versions' = [versions EXCEPT ![d] = [NoVersion EXCEPT !.author = signer]]
  /\ pointer' = [pointer EXCEPT !.pending = d, !.pendingApprovedAt = 0]
  /\ UNCHANGED <<guard, registry, now>>

ApprovePolicy(signer, d) ==
  /\ HoldsRole(signer, "Approver")
  /\ ~pointer.pinned
  /\ Proposed(d) /\ pointer.pending = d
  /\ signer # versions[d].author
  /\ versions' = [versions EXCEPT ![d] = [versions[d] EXCEPT !.approver = signer,
                                                             !.approvedAt = now]]
  /\ pointer' = [pointer EXCEPT !.pendingApprovedAt = now]
  /\ UNCHANGED <<guard, registry, now>>

ApplyAndRepoint(d) ==
  /\ Acceptable(d)
  /\ guard' = [guard EXCEPT !.doc = d, !.policyEpoch = SatInc(guard.policyEpoch),
                            !.activePolicyHash = d]
  /\ pointer' = [pointer EXCEPT !.active = d, !.pending = NoDoc, !.pendingApprovedAt = 0]
  /\ UNCHANGED <<versions, registry, now>>

ActivatePolicy(signer, d) ==
  /\ HoldsRole(signer, "Activator")
  /\ ~pointer.pinned
  /\ Proposed(d) /\ pointer.pending = d
  /\ pointer.pendingApprovedAt # 0
  /\ now >= pointer.pendingApprovedAt + pointer.timelock
  /\ ApplyAndRepoint(d)

RollbackPolicy(signer, d) ==
  /\ HoldsRole(signer, "Activator")
  /\ ~pointer.pinned
  /\ Approved(d)
  /\ ApplyAndRepoint(d)

PinPolicy(signer) ==
  /\ HoldsRole(signer, "RoleAdmin")
  /\ pointer' = [pointer EXCEPT !.pinned = TRUE]
  /\ UNCHANGED <<guard, versions, registry, now>>

-----------------------------------------------------------------------------
ProposeRoleChange(signer, role, newAuthority) ==
  /\ HoldsRole(signer, "RoleAdmin")
  /\ role = "RoleAdmin" => newAuthority # NoKey
  /\ registry' = [registry EXCEPT !.pendingRole = role,
                                  !.pendingAuthority = newAuthority,
                                  !.pendingAfter = now + pointer.timelock]
  /\ UNCHANGED <<guard, versions, pointer, now>>

ApplyRoleChange(signer) ==
  /\ HoldsRole(signer, "RoleAdmin")
  /\ registry.pendingAfter # 0
  /\ now >= registry.pendingAfter
  /\ registry' = [NoRegistry EXCEPT !.roles =
                    [registry.roles EXCEPT ![registry.pendingRole] = registry.pendingAuthority]]
  /\ UNCHANGED <<guard, versions, pointer, now>>

(* Solana's clock between two transactions.                                 *)
Tick ==
  /\ now < MaxTime
  /\ now' = now + 1
  /\ UNCHANGED <<guard, versions, pointer, registry>>

FreeTierStep(signer) ==
  \/ \E d \in Docs : ConfigurePolicy(signer, d)
  \/ \E paused \in BOOLEAN : SetGuardPaused(signer, paused)
  \/ \E k \in Heirs : TransferGuardAuthority(signer, k)
  \/ AcceptGuardAuthority(signer)

GovernedStep(signer) ==
  \/ \E roles \in RoleAssignments, t \in Timelocks : InitializeGovernance(signer, roles, t)
  \/ \E d \in Docs : \/ ProposePolicy(signer, d)
                     \/ ApprovePolicy(signer, d)
                     \/ ActivatePolicy(signer, d)
                     \/ RollbackPolicy(signer, d)
  \/ PinPolicy(signer)
  \/ \E c \in RoleChanges : ProposeRoleChange(signer, c[1], c[2])
  \/ ApplyRoleChange(signer)

Next == Tick \/ \E signer \in Key : FreeTierStep(signer) \/ GovernedStep(signer)

Spec == Init /\ [][Next]_vars

-----------------------------------------------------------------------------
(* Safety *)

(* LivePolicyIsApproved: once governed, the rules the hook enforces are the *)
(* version both the pointer and the decision records name, and that version *)
(* carries an approval.  Three accounts, written by three instructions.     *)
LivePolicyIsApproved ==
  guard.governed =>
    /\ guard.doc = pointer.active
    /\ guard.activePolicyHash = pointer.active
    /\ Approved(guard.doc)

(* PendingMirrorsVersion: the pending slot and the version it names agree   *)
(* on the approval, and a pending version has never been live.  Activation  *)
(* trusts the slot, rollback trusts the version.                            *)
PendingMirrorsVersion ==
  IF pointer.pending = NoDoc
  THEN pointer.pendingApprovedAt = 0
  ELSE /\ Proposed(pointer.pending)
       /\ pointer.pending # pointer.active
       /\ versions[pointer.pending].approvedAt = pointer.pendingApprovedAt

SelfApproved(d) == Approved(d) /\ versions[d].approver = versions[d].author

(* FourEyes: apart from the one genesis version, no version approved by its *)
(* own author exists, whatever role changes happen in between (the gate of  *)
(* approve_policy that rollback relies on).                                 *)
FourEyes == \A c, d \in Docs : SelfApproved(c) /\ SelfApproved(d) => c = d

(* RoleAdminSeated: a governed mint always has a RoleAdmin, so role changes *)
(* cannot strand governance with no admin (propose_role_change's promise).  *)
RoleAdminSeated == guard.governed => registry.roles["RoleAdmin"] # NoKey

(* PinnedPolicyIsFinal: after pin_policy neither the live policy nor any    *)
(* version, approval or pending slot moves again; pausing still works.      *)
PinnedPolicyIsFinal ==
  [][pointer.pinned => /\ UNCHANGED <<pointer, versions>>
                       /\ guard'.doc = guard.doc
                       /\ guard'.policyEpoch = guard.policyEpoch]_vars

(* PolicyChangeBumpsEpoch: every change of the live rules, on either path,  *)
(* moves policy_epoch (up to its saturation), the value capabilities are    *)
(* checked against; the epoch never goes back.                              *)
PolicyChangeBumpsEpoch ==
  [][/\ guard'.policyEpoch >= guard.policyEpoch
     /\ guard'.doc # guard.doc =>
          guard'.policyEpoch > guard.policyEpoch \/ guard.policyEpoch = EpochMax]_vars

(* VersionsAreWriteOnce: a proposal keeps its author for ever, and an       *)
(* approval changes only while its version is the pending one.              *)
VersionsAreWriteOnce ==
  [][\A d \in Docs : Proposed(d) =>
       /\ versions'[d].author = versions[d].author
       /\ pointer.pending # d => versions'[d] = versions[d]]_vars

(* ActivationWaitsOutTimelock: activate_policy applies a version only a     *)
(* whole timelock after the approval recorded in that version, also when    *)
(* proposals displace each other or an approval is given again.             *)
ActivationWaitsOutTimelock ==
  [][\A s \in Key, d \in Docs :
       ActivatePolicy(s, d) =>
         Approved(d) /\ now >= versions[d].approvedAt + pointer.timelock]_vars

(* RoleChangeWaitsOutTimelock: a role moves only as queued and when due,    *)
(* and queueing a different change starts the wait again.                   *)
RoleChangeWaitsOutTimelock ==
  [][/\ guard.governed /\ registry'.roles # registry.roles =>
          /\ registry.pendingAfter # 0 /\ now >= registry.pendingAfter
          /\ registry'.roles = [registry.roles EXCEPT
                                  ![registry.pendingRole] = registry.pendingAuthority]
     /\ \/ registry'.pendingRole # registry.pendingRole
        \/ registry'.pendingAuthority # registry.pendingAuthority
        => registry'.pendingAfter \in {0, now + pointer.timelock}]_vars

(* GovernanceInv: the inductive invariant behind the above.  It adds that   *)
(* the governance accounts come into being together with guard.governed,    *)
(* that only a proposed version can carry an approval, and that a queued    *)
(* RoleAdmin is a real key.                                                 *)
BlankUntilGoverned ==
  ~guard.governed => /\ versions = [d \in Docs |-> NoVersion]
                     /\ pointer = NoPointer
                     /\ registry = NoRegistry

ApprovedIsProposed == \A d \in Docs : Approved(d) => Proposed(d)

QueuedAdminIsReal ==
  registry.pendingAfter # 0 /\ registry.pendingRole = "RoleAdmin" =>
    registry.pendingAuthority # NoKey

GovernanceInv ==
  /\ BlankUntilGoverned
  /\ LivePolicyIsApproved
  /\ PendingMirrorsVersion
  /\ ApprovedIsProposed
  /\ FourEyes
  /\ RoleAdminSeated
  /\ QueuedAdminIsReal

(* The lifecycle this module implements, see PolicyLifecycle.               *)
Lifecycle == INSTANCE PolicyLifecycle WITH
  live     <- guard.doc,
  epoch    <- guard.policyEpoch,
  adopted  <- guard.governed,
  approved <- {d \in Docs : Approved(d)},
  frozen   <- pointer.pinned

(* ImplementsLifecycle: accounts, roles, hashes and timelocks together do   *)
(* what the abstract policy lifecycle promises.                             *)
ImplementsLifecycle == Lifecycle!Spec
=============================================================================
