----------------------- MODULE PolicyGovernanceProofs -----------------------
(***************************************************************************)
(* Theorems about PolicyGovernance for every set of keys, documents, role  *)
(* tables and timelocks.                                                   *)
(***************************************************************************)
EXTENDS PolicyGovernance, TLAPS

(* The next epoch is an epoch.                                              *)
LEMMA SatIncType == ASSUME NEW e \in 0..EpochMax PROVE SatInc(e) \in 0..EpochMax
BY GovernanceAssumption DEF SatInc

(* TypeCorrect: every account keeps its declared layout.                   *)
THEOREM TypeCorrect == Spec => []TypeOK
<1> USE KeyAssumption, GovernanceAssumption
<1>1. Init => TypeOK
  BY DEF Init, TypeOK, Guard, Version, Pointer, Registry, NoVersion, NoPointer, NoRegistry, Role
<1>2. TypeOK /\ [Next]_vars => TypeOK'
  <2> SUFFICES ASSUME TypeOK, [Next]_vars PROVE TypeOK'
    OBVIOUS
  <2> USE DEF TypeOK
  <2>1. CASE Tick
    BY <2>1 DEF Tick
  <2>2. ASSUME NEW s \in Key, NEW d \in Docs, ConfigurePolicy(s, d) PROVE TypeOK'
    <3>1. guard' \in Guard
      BY <2>2, SatIncType DEF ConfigurePolicy, Guard
    <3>2. QED
      BY <2>2, <3>1 DEF ConfigurePolicy
  <2>3. ASSUME NEW s \in Key, NEW b \in BOOLEAN, SetGuardPaused(s, b) PROVE TypeOK'
    BY <2>3 DEF SetGuardPaused, Guard
  <2>4. ASSUME NEW s \in Key, NEW k \in Heirs, TransferGuardAuthority(s, k)
        PROVE TypeOK'
    BY <2>4 DEF TransferGuardAuthority, Guard
  <2>5. ASSUME NEW s \in Key, AcceptGuardAuthority(s) PROVE TypeOK'
    BY <2>5 DEF AcceptGuardAuthority, Guard
  <2>6. ASSUME NEW s \in Key, NEW roles \in RoleAssignments, NEW t \in Timelocks,
               InitializeGovernance(s, roles, t)
        PROVE TypeOK'
    <3>1. guard' \in Guard
      BY <2>6 DEF InitializeGovernance, Guard
    <3>2. versions' \in [Docs -> Version]
      BY <2>6 DEF InitializeGovernance, Version
    <3>3. pointer' \in Pointer
      <4>1. guard.doc \in Docs /\ t \in Nat
        BY <2>6 DEF InitializeGovernance, Guard
      <4>2. pointer' = [active |-> guard.doc, pending |-> NoDoc, pendingApprovedAt |-> 0,
                        timelock |-> t, pinned |-> FALSE]
        BY <2>6 DEF InitializeGovernance, NoPointer
      <4>3. QED
        BY <4>1, <4>2 DEF Pointer
    <3>4. registry' \in Registry
      BY <2>6 DEF InitializeGovernance, Registry, NoRegistry, Role
    <3>5. QED
      BY <2>6, <3>1, <3>2, <3>3, <3>4 DEF InitializeGovernance
  <2>7. ASSUME NEW s \in Key, NEW d \in Docs, ProposePolicy(s, d) PROVE TypeOK'
    BY <2>7 DEF ProposePolicy, Version, Pointer, NoVersion
  <2>8. ASSUME NEW s \in Key, NEW d \in Docs, ApprovePolicy(s, d) PROVE TypeOK'
    <3>1. versions' \in [Docs -> Version]
      BY <2>8 DEF ApprovePolicy, Version
    <3>2. pointer' \in Pointer
      BY <2>8 DEF ApprovePolicy, Pointer
    <3>3. QED
      BY <2>8, <3>1, <3>2 DEF ApprovePolicy
  <2>9. ASSUME NEW d \in Docs, ApplyAndRepoint(d) PROVE TypeOK'
    <3>1. guard' \in Guard
      BY <2>9, SatIncType DEF ApplyAndRepoint, Guard
    <3>2. pointer' \in Pointer
      BY <2>9 DEF ApplyAndRepoint, Pointer
    <3>3. QED
      BY <2>9, <3>1, <3>2 DEF ApplyAndRepoint
  <2>10. ASSUME NEW s \in Key, PinPolicy(s) PROVE TypeOK'
    BY <2>10 DEF PinPolicy, Pointer
  <2>11. ASSUME NEW s \in Key, NEW c \in RoleChanges, ProposeRoleChange(s, c[1], c[2])
         PROVE TypeOK'
    <3>1. c[1] \in Role /\ c[2] \in Key \cup {NoKey}
      OBVIOUS
    <3>2. now + pointer.timelock \in Nat
      BY DEF Pointer
    <3>3. registry' \in Registry
      BY <2>11, <3>1, <3>2 DEF ProposeRoleChange, Registry
    <3>4. QED
      BY <2>11, <3>3 DEF ProposeRoleChange
  <2>12. ASSUME NEW s \in Key, ApplyRoleChange(s) PROVE TypeOK'
    <3>1. registry.pendingRole \in Role /\ registry.pendingAuthority \in Key \cup {NoKey}
      BY DEF Registry
    <3>2. registry.roles \in [Role -> Key \cup {NoKey}]
      BY DEF Registry
    <3>3. [registry.roles EXCEPT ![registry.pendingRole] = registry.pendingAuthority]
             \in [Role -> Key \cup {NoKey}]
      BY <3>1, <3>2
    <3>4. registry' \in Registry
      BY <2>12, <3>3 DEF ApplyRoleChange, Registry, NoRegistry, Role
    <3>5. QED
      BY <2>12, <3>4 DEF ApplyRoleChange
  <2>13. CASE UNCHANGED vars
    BY <2>13 DEF vars
  <2>14. QED
    BY <2>1, <2>2, <2>3, <2>4, <2>5, <2>6, <2>7, <2>8, <2>9, <2>10, <2>11, <2>12, <2>13
       DEF Next, FreeTierStep, GovernedStep, ActivatePolicy, RollbackPolicy
<1>3. QED
  BY <1>1, <1>2, PTL DEF Spec
-----------------------------------------------------------------------------
(* A role is held by somebody only after governance was adopted.            *)
LEMMA HolderMeansGoverned ==
  ASSUME BlankUntilGoverned, NEW s \in Key, NEW r \in Role, HoldsRole(s, r)
  PROVE  guard.governed
BY DEF BlankUntilGoverned, HoldsRole, NoRegistry

(* Initially nothing is governed.                                           *)
LEMMA InitGovernanceInv == Init => GovernanceInv
BY KeyAssumption, GovernanceAssumption
   DEF Init, GovernanceInv, BlankUntilGoverned, LivePolicyIsApproved, PendingMirrorsVersion,
       ApprovedIsProposed, FourEyes, SelfApproved, RoleAdminSeated, QueuedAdminIsReal,
       Approved, Proposed, NoVersion, NoPointer, NoRegistry

(* Steps that touch neither versions, pointer nor registry, and of the      *)
(* guard only what GovernanceInv does not mention.                          *)
LEMMA FreeTierKeepsInv ==
  ASSUME TypeOK, GovernanceInv, UNCHANGED <<versions, pointer, registry>>,
         guard'.governed = guard.governed,
         guard'.activePolicyHash = guard.activePolicyHash,
         guard.governed => guard'.doc = guard.doc
  PROVE  GovernanceInv'
BY DEF GovernanceInv, BlankUntilGoverned, LivePolicyIsApproved, PendingMirrorsVersion,
       ApprovedIsProposed, FourEyes, SelfApproved, RoleAdminSeated, QueuedAdminIsReal,
       Approved, Proposed

(* Adopting governance makes the live policy the one approved version.      *)
LEMMA AdoptionKeepsInv ==
  ASSUME TypeOK, GovernanceInv, NEW s \in Key, NEW roles \in RoleAssignments,
         NEW t \in Timelocks, InitializeGovernance(s, roles, t)
  PROVE  GovernanceInv'
<1> USE KeyAssumption, GovernanceAssumption
<1>1. guard.doc \in Docs /\ guard'.governed /\ guard'.doc = guard.doc
      /\ guard'.activePolicyHash = guard.doc
  BY DEF InitializeGovernance, TypeOK, Guard
<1>2. pointer'.active = guard.doc /\ pointer'.pending = NoDoc /\ pointer'.pendingApprovedAt = 0
  BY DEF InitializeGovernance, NoPointer
<1>3. registry'.roles = roles /\ roles["RoleAdmin"] # NoKey /\ registry'.pendingAfter = 0
  BY DEF InitializeGovernance, NoRegistry
<1>4. /\ versions'[guard.doc] = [author |-> s, approver |-> s, approvedAt |-> now]
      /\ \A d \in Docs \ {guard.doc} : versions'[d] = NoVersion
  BY <1>1 DEF InitializeGovernance, GovernanceInv, BlankUntilGoverned, TypeOK
<1>5. now # 0
  BY DEF TypeOK
<1>6. ApprovedIsProposed' /\ FourEyes'
  BY <1>4 DEF ApprovedIsProposed, FourEyes, SelfApproved, Approved, Proposed, NoVersion
<1>7. LivePolicyIsApproved' /\ PendingMirrorsVersion' /\ BlankUntilGoverned'
  BY <1>1, <1>2, <1>4, <1>5
     DEF LivePolicyIsApproved, PendingMirrorsVersion, BlankUntilGoverned, Approved
<1>8. RoleAdminSeated' /\ QueuedAdminIsReal'
  BY <1>3 DEF RoleAdminSeated, QueuedAdminIsReal
<1>9. QED
  BY <1>6, <1>7, <1>8 DEF GovernanceInv

(* A proposal takes the pending slot with no approval.                      *)
LEMMA ProposalKeepsInv ==
  ASSUME TypeOK, GovernanceInv, NEW s \in Key, NEW d \in Docs, ProposePolicy(s, d)
  PROVE  GovernanceInv'
<1> USE KeyAssumption, GovernanceAssumption
<1>1. guard.governed
  BY HolderMeansGoverned DEF ProposePolicy, GovernanceInv, Role
<1>2. /\ UNCHANGED <<guard, registry>>
      /\ pointer'.active = pointer.active /\ pointer'.pending = d
      /\ pointer'.pendingApprovedAt = 0
  BY DEF ProposePolicy, TypeOK, Pointer
<1>3. /\ versions'[d] = [author |-> s, approver |-> NoKey, approvedAt |-> 0]
      /\ \A e \in Docs \ {d} : versions'[e] = versions[e]
  BY DEF ProposePolicy, NoVersion, TypeOK
<1>4. ~Proposed(d) /\ ~Approved(d) /\ d # pointer.active
  <2>1. ~Proposed(d)
    BY DEF ProposePolicy
  <2>2. ~Approved(d)
    BY <2>1 DEF GovernanceInv, ApprovedIsProposed
  <2>3. QED
    BY <1>1, <2>1, <2>2 DEF GovernanceInv, LivePolicyIsApproved
<1>5. ApprovedIsProposed' /\ FourEyes'
  BY <1>3 DEF GovernanceInv, ApprovedIsProposed, FourEyes, SelfApproved, Approved, Proposed
<1>6. LivePolicyIsApproved'
  BY <1>1, <1>2, <1>3, <1>4 DEF GovernanceInv, LivePolicyIsApproved, Approved, TypeOK, Guard
<1>7. PendingMirrorsVersion' /\ BlankUntilGoverned'
  BY <1>1, <1>2, <1>3, <1>4 DEF PendingMirrorsVersion, BlankUntilGoverned, Proposed
<1>8. RoleAdminSeated' /\ QueuedAdminIsReal'
  BY <1>2 DEF GovernanceInv, RoleAdminSeated, QueuedAdminIsReal
<1>9. QED
  BY <1>5, <1>6, <1>7, <1>8 DEF GovernanceInv

(* An approval is recorded alike in the slot and in the version.            *)
LEMMA ApprovalKeepsInv ==
  ASSUME TypeOK, GovernanceInv, NEW s \in Key, NEW d \in Docs, ApprovePolicy(s, d)
  PROVE  GovernanceInv'
<1> USE KeyAssumption, GovernanceAssumption
<1>1. guard.governed
  BY HolderMeansGoverned DEF ApprovePolicy, GovernanceInv, Role
<1>2. /\ UNCHANGED <<guard, registry>>
      /\ pointer'.active = pointer.active /\ pointer'.pending = d /\ pointer.pending = d
      /\ pointer'.pendingApprovedAt = now
  BY DEF ApprovePolicy, TypeOK, Pointer
<1>3. /\ versions'[d].author = versions[d].author /\ versions'[d].approver = s
      /\ versions'[d].approvedAt = now
      /\ \A e \in Docs \ {d} : versions'[e] = versions[e]
  BY DEF ApprovePolicy, TypeOK, Version
<1>4. Proposed(d) /\ s # versions[d].author /\ now # 0 /\ d # pointer.active
  BY <1>2 DEF ApprovePolicy, TypeOK, GovernanceInv, PendingMirrorsVersion
<1>5. ApprovedIsProposed' /\ FourEyes'
  BY <1>3, <1>4 DEF GovernanceInv, ApprovedIsProposed, FourEyes, SelfApproved, Approved, Proposed
<1>6. LivePolicyIsApproved'
  BY <1>1, <1>2, <1>3, <1>4 DEF GovernanceInv, LivePolicyIsApproved, Approved, TypeOK, Guard
<1>7. PendingMirrorsVersion' /\ BlankUntilGoverned'
  BY <1>1, <1>2, <1>3, <1>4 DEF PendingMirrorsVersion, BlankUntilGoverned, Proposed
<1>8. RoleAdminSeated' /\ QueuedAdminIsReal'
  BY <1>2 DEF GovernanceInv, RoleAdminSeated, QueuedAdminIsReal
<1>9. QED
  BY <1>5, <1>6, <1>7, <1>8 DEF GovernanceInv

(* Activation and rollback alike: installing an approved version keeps the  *)
(* invariant.                                                               *)
LEMMA InstallKeepsInv ==
  ASSUME TypeOK, GovernanceInv, NEW d \in Docs, guard.governed, Approved(d), ApplyAndRepoint(d)
  PROVE  GovernanceInv'
<1> USE KeyAssumption, GovernanceAssumption
<1>1. /\ UNCHANGED <<versions, registry>>
      /\ guard'.governed /\ guard'.doc = d /\ guard'.activePolicyHash = d
      /\ pointer'.active = d /\ pointer'.pending = NoDoc /\ pointer'.pendingApprovedAt = 0
  BY DEF ApplyAndRepoint, TypeOK, Guard, Pointer
<1>2. LivePolicyIsApproved' /\ PendingMirrorsVersion' /\ BlankUntilGoverned'
  BY <1>1 DEF LivePolicyIsApproved, PendingMirrorsVersion, BlankUntilGoverned, Approved
<1>3. ApprovedIsProposed' /\ FourEyes' /\ RoleAdminSeated' /\ QueuedAdminIsReal'
  BY <1>1 DEF GovernanceInv, ApprovedIsProposed, FourEyes, SelfApproved, RoleAdminSeated,
              QueuedAdminIsReal, Approved, Proposed
<1>4. QED
  BY <1>2, <1>3 DEF GovernanceInv

(* The version activate_policy installs is an approved one: the approval    *)
(* time in the pointer is the one in the version.                           *)
LEMMA ActivatedIsApproved ==
  ASSUME TypeOK, GovernanceInv, NEW s \in Key, NEW d \in Docs, ActivatePolicy(s, d)
  PROVE  Approved(d) /\ now >= versions[d].approvedAt + pointer.timelock
BY GovernanceAssumption DEF ActivatePolicy, GovernanceInv, PendingMirrorsVersion, Approved

(* Queueing or applying a role change never unseats the RoleAdmin.          *)
LEMMA RoleStepKeepsInv ==
  ASSUME TypeOK, GovernanceInv, NEW s \in Key, HoldsRole(s, "RoleAdmin"),
         UNCHANGED <<guard, versions, pointer>>, RoleAdminSeated', QueuedAdminIsReal'
  PROVE  GovernanceInv'
<1>1. guard.governed
  BY HolderMeansGoverned DEF GovernanceInv, Role
<1>2. QED
  BY <1>1 DEF GovernanceInv, BlankUntilGoverned, LivePolicyIsApproved, PendingMirrorsVersion,
              ApprovedIsProposed, FourEyes, SelfApproved, Approved, Proposed

(* Pinning only sets the flag.                                              *)
LEMMA PinKeepsInv ==
  ASSUME TypeOK, GovernanceInv, NEW s \in Key, PinPolicy(s)
  PROVE  GovernanceInv'
<1>1. guard.governed
  BY HolderMeansGoverned DEF PinPolicy, GovernanceInv, Role
<1>2. /\ UNCHANGED <<guard, versions, registry>>
      /\ pointer'.active = pointer.active /\ pointer'.pending = pointer.pending
      /\ pointer'.pendingApprovedAt = pointer.pendingApprovedAt
  BY DEF PinPolicy, TypeOK, Pointer
<1>3. QED
  BY <1>1, <1>2 DEF GovernanceInv, BlankUntilGoverned, LivePolicyIsApproved,
     PendingMirrorsVersion, ApprovedIsProposed, FourEyes, SelfApproved, RoleAdminSeated,
     QueuedAdminIsReal, Approved, Proposed

(* GovernanceInvariant: the inductive invariant, one step per instruction.  *)
THEOREM GovernanceInvariant == Spec => []GovernanceInv
<1> USE KeyAssumption, GovernanceAssumption
<1>1. TypeOK /\ GovernanceInv /\ [Next]_vars => GovernanceInv'
  <2> SUFFICES ASSUME TypeOK, GovernanceInv, [Next]_vars PROVE GovernanceInv'
    OBVIOUS
  <2>1. CASE Tick \/ UNCHANGED vars
    BY <2>1, FreeTierKeepsInv DEF Tick, vars
  <2>2. ASSUME NEW s \in Key, FreeTierStep(s) PROVE GovernanceInv'
    <3>1. UNCHANGED <<versions, pointer, registry>>
      BY <2>2 DEF FreeTierStep, ConfigurePolicy, SetGuardPaused, TransferGuardAuthority,
                  AcceptGuardAuthority
    <3>2. /\ guard'.governed = guard.governed
          /\ guard'.activePolicyHash = guard.activePolicyHash
          /\ guard.governed => guard'.doc = guard.doc
      BY <2>2 DEF FreeTierStep, ConfigurePolicy, SetGuardPaused, TransferGuardAuthority,
                  AcceptGuardAuthority, TypeOK, Guard
    <3>3. QED
      BY <3>1, <3>2, FreeTierKeepsInv
  <2>3. ASSUME NEW s \in Key, NEW roles \in RoleAssignments, NEW t \in Timelocks,
               InitializeGovernance(s, roles, t)
        PROVE GovernanceInv'
    BY <2>3, AdoptionKeepsInv
  <2>4. ASSUME NEW s \in Key, NEW d \in Docs, ProposePolicy(s, d) PROVE GovernanceInv'
    BY <2>4, ProposalKeepsInv
  <2>5. ASSUME NEW s \in Key, NEW d \in Docs, ApprovePolicy(s, d) PROVE GovernanceInv'
    BY <2>5, ApprovalKeepsInv
  <2>6. ASSUME NEW s \in Key, NEW d \in Docs, ActivatePolicy(s, d) PROVE GovernanceInv'
    <3>1. guard.governed
      BY <2>6, HolderMeansGoverned DEF ActivatePolicy, GovernanceInv, Role
    <3>2. ApplyAndRepoint(d) /\ Approved(d)
      BY <2>6, ActivatedIsApproved DEF ActivatePolicy
    <3>3. QED
      BY <3>1, <3>2, InstallKeepsInv
  <2>7. ASSUME NEW s \in Key, NEW d \in Docs, RollbackPolicy(s, d) PROVE GovernanceInv'
    <3>1. guard.governed
      BY <2>7, HolderMeansGoverned DEF RollbackPolicy, GovernanceInv, Role
    <3>2. QED
      BY <2>7, <3>1, InstallKeepsInv DEF RollbackPolicy
  <2>8. ASSUME NEW s \in Key, PinPolicy(s) PROVE GovernanceInv'
    BY <2>8, PinKeepsInv
  <2>9. ASSUME NEW s \in Key, NEW c \in RoleChanges, ProposeRoleChange(s, c[1], c[2])
        PROVE GovernanceInv'
    <3>1. RoleAdminSeated' /\ QueuedAdminIsReal'
      BY <2>9 DEF ProposeRoleChange, GovernanceInv, RoleAdminSeated, QueuedAdminIsReal,
                  TypeOK, Registry
    <3>2. QED
      BY <2>9, <3>1, RoleStepKeepsInv DEF ProposeRoleChange
  <2>10. ASSUME NEW s \in Key, ApplyRoleChange(s) PROVE GovernanceInv'
    <3>1. registry'.pendingAfter = 0
          /\ registry'.roles = [registry.roles EXCEPT
                                  ![registry.pendingRole] = registry.pendingAuthority]
      BY <2>10 DEF ApplyRoleChange, NoRegistry
    <3>2. registry.roles["RoleAdmin"] # NoKey
      BY <2>10 DEF ApplyRoleChange, HoldsRole
    <3>3. registry'.roles["RoleAdmin"] # NoKey
      BY <2>10, <3>1, <3>2
         DEF ApplyRoleChange, GovernanceInv, QueuedAdminIsReal, TypeOK, Registry, Role
    <3>4. RoleAdminSeated' /\ QueuedAdminIsReal'
      BY <3>1, <3>3 DEF RoleAdminSeated, QueuedAdminIsReal
    <3>5. QED
      BY <2>10, <3>4, RoleStepKeepsInv DEF ApplyRoleChange
  <2>11. QED
    BY <2>1, <2>2, <2>3, <2>4, <2>5, <2>6, <2>7, <2>8, <2>9, <2>10 DEF Next, GovernedStep
<1>2. QED
  BY <1>1, InitGovernanceInv, TypeCorrect, PTL DEF Spec

(* ApprovedPolicyIsLive: what the hook enforces under governance is always  *)
(* the approved version that the pointer and the decision records name.     *)
THEOREM ApprovedPolicyIsLive == Spec => []LivePolicyIsApproved
BY GovernanceInvariant, PTL DEF GovernanceInv

(* SeparationOfDuties: no role change, displaced proposal or repeated       *)
(* approval ever yields a second self-approved version.                     *)
THEOREM SeparationOfDuties == Spec => []FourEyes
BY GovernanceInvariant, PTL DEF GovernanceInv

(* RoleAdminNeverLost: a governed mint keeps a real RoleAdmin.              *)
THEOREM RoleAdminNeverLost == Spec => []RoleAdminSeated
BY GovernanceInvariant, PTL DEF GovernanceInv

(* PendingSlotAgrees: the pointer's pending slot mirrors its version.       *)
THEOREM PendingSlotAgrees == Spec => []PendingMirrorsVersion
BY GovernanceInvariant, PTL DEF GovernanceInv

(* TimelockHonoured: activate_policy waits out the timelock counted from    *)
(* the approval stored in the version itself.                               *)
THEOREM TimelockHonoured == Spec => ActivationWaitsOutTimelock
<1>1. TypeOK /\ GovernanceInv =>
        \A s \in Key, d \in Docs : ActivatePolicy(s, d) =>
          Approved(d) /\ now >= versions[d].approvedAt + pointer.timelock
  BY ActivatedIsApproved
<1>2. QED
  BY <1>1, TypeCorrect, GovernanceInvariant, PTL DEF ActivationWaitsOutTimelock

(* PinIsFinal: pinning freezes rules, versions and the pending slot.        *)
THEOREM PinIsFinal == Spec => PinnedPolicyIsFinal
<1>1. TypeOK /\ GovernanceInv /\ [Next]_vars =>
        (pointer.pinned => /\ UNCHANGED <<pointer, versions>>
                           /\ guard'.doc = guard.doc
                           /\ guard'.policyEpoch = guard.policyEpoch)
  <2> SUFFICES ASSUME TypeOK, GovernanceInv, [Next]_vars, pointer.pinned
               PROVE  /\ UNCHANGED <<pointer, versions>>
                      /\ guard'.doc = guard.doc
                      /\ guard'.policyEpoch = guard.policyEpoch
    OBVIOUS
  <2>1. guard.governed
    BY DEF GovernanceInv, BlankUntilGoverned, NoPointer
  <2>2. CASE Tick \/ UNCHANGED vars
    BY <2>2 DEF Tick, vars
  <2>3. ASSUME NEW s \in Key, FreeTierStep(s)
        PROVE  /\ UNCHANGED <<pointer, versions>>
               /\ guard'.doc = guard.doc /\ guard'.policyEpoch = guard.policyEpoch
    BY <2>1, <2>3 DEF FreeTierStep, ConfigurePolicy, SetGuardPaused, TransferGuardAuthority,
                      AcceptGuardAuthority, TypeOK, Guard
  <2>4. ASSUME NEW s \in Key, GovernedStep(s)
        PROVE  /\ UNCHANGED <<pointer, versions>> /\ UNCHANGED guard
    <3>1. ASSUME PinPolicy(s) PROVE UNCHANGED <<guard, pointer, versions>>
      BY <3>1 DEF PinPolicy, TypeOK, Pointer
    <3>2. QED
      BY <2>1, <2>4, <3>1
         DEF GovernedStep, InitializeGovernance, ProposePolicy, ApprovePolicy, ActivatePolicy,
             RollbackPolicy, ProposeRoleChange, ApplyRoleChange
  <2>5. QED
    BY <2>2, <2>3, <2>4 DEF Next
<1>2. QED
  BY <1>1, TypeCorrect, GovernanceInvariant, PTL DEF PinnedPolicyIsFinal, Spec

(* EpochMovesWithPolicy: no switch of the live rules goes unseen by the     *)
(* capabilities bound to policy_epoch, until it saturates.                  *)
THEOREM EpochMovesWithPolicy == Spec => PolicyChangeBumpsEpoch
<1>1. TypeOK /\ [Next]_vars =>
        /\ guard'.policyEpoch >= guard.policyEpoch
        /\ guard'.doc # guard.doc =>
             guard'.policyEpoch > guard.policyEpoch \/ guard.policyEpoch = EpochMax
  <2> SUFFICES ASSUME TypeOK, [Next]_vars
               PROVE  /\ guard'.policyEpoch >= guard.policyEpoch
                      /\ guard'.doc # guard.doc =>
                           guard'.policyEpoch > guard.policyEpoch \/ guard.policyEpoch = EpochMax
    OBVIOUS
  <2>1. guard.policyEpoch \in 0..EpochMax /\ EpochMax \in Nat
    BY GovernanceAssumption DEF TypeOK, Guard
  <2>2. \/ guard'.policyEpoch = guard.policyEpoch /\ guard'.doc = guard.doc
        \/ guard'.policyEpoch = SatInc(guard.policyEpoch)
    BY DEF Next, vars, Tick, FreeTierStep, ConfigurePolicy, SetGuardPaused,
           TransferGuardAuthority, AcceptGuardAuthority, GovernedStep, InitializeGovernance,
           ProposePolicy, ApprovePolicy, ActivatePolicy, RollbackPolicy, ApplyAndRepoint,
           PinPolicy, ProposeRoleChange, ApplyRoleChange, TypeOK, Guard
  <2>3. QED
    BY <2>1, <2>2 DEF SatInc
<1>2. QED
  BY <1>1, TypeCorrect, PTL DEF PolicyChangeBumpsEpoch, Spec

(* VersionsAreNeverRewritten: a proposal keeps its author, and only the     *)
(* approval of the pending version ever changes.                            *)
THEOREM VersionsAreNeverRewritten == Spec => VersionsAreWriteOnce
<1>1. TypeOK /\ GovernanceInv /\ [Next]_vars =>
        \A d \in Docs : Proposed(d) =>
          /\ versions'[d].author = versions[d].author
          /\ pointer.pending # d => versions'[d] = versions[d]
  <2> SUFFICES ASSUME TypeOK, GovernanceInv, [Next]_vars, NEW d \in Docs, Proposed(d)
               PROVE  /\ versions'[d].author = versions[d].author
                      /\ pointer.pending # d => versions'[d] = versions[d]
    OBVIOUS
  <2>1. guard.governed
    BY DEF GovernanceInv, BlankUntilGoverned, Proposed, NoVersion
  <2>2. ASSUME NEW s \in Key, NEW e \in Docs, ProposePolicy(s, e)
        PROVE  versions'[d] = versions[d]
    BY <2>2 DEF ProposePolicy, TypeOK
  <2>3. ASSUME NEW s \in Key, NEW e \in Docs, ApprovePolicy(s, e)
        PROVE  /\ versions'[d].author = versions[d].author
               /\ pointer.pending # d => versions'[d] = versions[d]
    BY <2>3 DEF ApprovePolicy, TypeOK, Version
  <2>4. CASE UNCHANGED versions
    BY <2>4
  <2>5. QED
    BY <2>1, <2>2, <2>3, <2>4
       DEF Next, vars, Tick, FreeTierStep, ConfigurePolicy, SetGuardPaused,
           TransferGuardAuthority, AcceptGuardAuthority, GovernedStep, InitializeGovernance,
           ActivatePolicy, RollbackPolicy, ApplyAndRepoint, PinPolicy, ProposeRoleChange,
           ApplyRoleChange
<1>2. QED
  BY <1>1, TypeCorrect, GovernanceInvariant, PTL DEF VersionsAreWriteOnce, Spec

(* RoleChangesWait: a role moves only as queued and when due, and another   *)
(* change queued in its place waits a whole timelock of its own.            *)
THEOREM RoleChangesWait == Spec => RoleChangeWaitsOutTimelock
<1> DEFINE AsQueued ==
             guard.governed /\ registry'.roles # registry.roles =>
               /\ registry.pendingAfter # 0 /\ now >= registry.pendingAfter
               /\ registry'.roles = [registry.roles EXCEPT
                                       ![registry.pendingRole] = registry.pendingAuthority]
           Restarted ==
             (\/ registry'.pendingRole # registry.pendingRole
              \/ registry'.pendingAuthority # registry.pendingAuthority)
             => registry'.pendingAfter \in {0, now + pointer.timelock}
<1>1. TypeOK /\ GovernanceInv /\ [Next]_vars => AsQueued /\ Restarted
  <2> SUFFICES ASSUME TypeOK, GovernanceInv, [Next]_vars PROVE AsQueued /\ Restarted
    OBVIOUS
  <2>1. ASSUME NEW s \in Key, NEW roles \in RoleAssignments, NEW t \in Timelocks,
               InitializeGovernance(s, roles, t)
        PROVE  AsQueued /\ Restarted
    BY <2>1 DEF InitializeGovernance, GovernanceInv, BlankUntilGoverned, NoRegistry
  <2>2. ASSUME NEW s \in Key, NEW c \in RoleChanges, ProposeRoleChange(s, c[1], c[2])
        PROVE  AsQueued /\ Restarted
    <3>1. registry'.roles = registry.roles /\ registry'.pendingAfter = now + pointer.timelock
      BY <2>2 DEF ProposeRoleChange, TypeOK, Registry
    <3>2. QED
      BY <3>1
  <2>3. ASSUME NEW s \in Key, ApplyRoleChange(s) PROVE AsQueued /\ Restarted
    BY <2>3 DEF ApplyRoleChange, NoRegistry
  <2>4. CASE UNCHANGED registry
    BY <2>4
  <2>5. QED
    BY <2>1, <2>2, <2>3, <2>4
       DEF Next, vars, Tick, FreeTierStep, ConfigurePolicy, SetGuardPaused,
           TransferGuardAuthority, AcceptGuardAuthority, GovernedStep, ProposePolicy,
           ApprovePolicy, ActivatePolicy, RollbackPolicy, ApplyAndRepoint, PinPolicy
<1>2. QED
  BY <1>1, TypeCorrect, GovernanceInvariant, PTL DEF RoleChangeWaitsOutTimelock, Spec

-----------------------------------------------------------------------------
(* The steps of the lifecycle, as seen through the refinement mapping.      *)
LEMMA InstallIsSwitch ==
  ASSUME TypeOK, NEW d \in Docs, guard.governed, ~pointer.pinned, Approved(d), ApplyAndRepoint(d)
  PROVE  Lifecycle!Switch
<1>1. /\ guard'.doc = d /\ guard'.policyEpoch = SatInc(guard.policyEpoch)
      /\ guard'.governed = guard.governed
      /\ pointer'.pinned = pointer.pinned /\ versions' = versions
  BY DEF ApplyAndRepoint, TypeOK, Guard, Pointer
<1>2. d \in {e \in Docs : Approved(e)}
  OBVIOUS
<1>3. {e \in Docs : Approved(e)}' = {e \in Docs : Approved(e)}
  BY <1>1 DEF Approved
<1>4. QED
  BY <1>1, <1>2, <1>3 DEF Lifecycle!Switch, Lifecycle!Install, Lifecycle!NextEpoch, SatInc

(* Implementation: the instructions implement the abstract lifecycle.       *)
THEOREM Implementation == Spec => ImplementsLifecycle
<1> USE KeyAssumption, GovernanceAssumption
<1>1. Init => Lifecycle!Init
  BY DEF Init, Lifecycle!Init, Approved, NoVersion, NoPointer
<1>2. TypeOK /\ GovernanceInv /\ [Next]_vars => [Lifecycle!Next]_(Lifecycle!lifecycleVars)
  <2> SUFFICES ASSUME TypeOK, GovernanceInv, [Next]_vars
               PROVE  Lifecycle!Next \/ UNCHANGED Lifecycle!lifecycleVars
    OBVIOUS
  <2>1. ASSUME UNCHANGED <<versions, pointer>>, guard'.doc = guard.doc,
               guard'.policyEpoch = guard.policyEpoch, guard'.governed = guard.governed
        PROVE  UNCHANGED Lifecycle!lifecycleVars
    BY <2>1 DEF Lifecycle!lifecycleVars, Approved
  <2>2. CASE Tick \/ UNCHANGED vars
    BY <2>1, <2>2 DEF Tick, vars
  <2>3. ASSUME NEW s \in Key, NEW d \in Docs, ConfigurePolicy(s, d)
        PROVE  Lifecycle!Retune
    <3>1. /\ guard'.doc = d /\ guard'.policyEpoch = SatInc(guard.policyEpoch)
          /\ ~guard.governed /\ guard'.governed = guard.governed
          /\ pointer' = pointer /\ versions' = versions
      BY <2>3 DEF ConfigurePolicy, TypeOK, Guard
    <3>2. {e \in Docs : Approved(e)}' = {e \in Docs : Approved(e)}
      BY <3>1 DEF Approved
    <3>3. QED
      BY <3>1, <3>2 DEF Lifecycle!Retune, Lifecycle!Install, Lifecycle!NextEpoch, SatInc
  <2>4. ASSUME NEW s \in Key, FreeTierStep(s), ~\E d \in Docs : ConfigurePolicy(s, d)
        PROVE  UNCHANGED Lifecycle!lifecycleVars
    BY <2>1, <2>4 DEF FreeTierStep, SetGuardPaused, TransferGuardAuthority,
                      AcceptGuardAuthority, TypeOK, Guard
  <2>5. ASSUME NEW s \in Key, NEW roles \in RoleAssignments, NEW t \in Timelocks,
               InitializeGovernance(s, roles, t)
        PROVE  Lifecycle!Adopt
    <3>1. /\ guard'.doc = guard.doc /\ guard'.policyEpoch = guard.policyEpoch
          /\ ~guard.governed /\ guard'.governed /\ guard.doc \in Docs
      BY <2>5 DEF InitializeGovernance, TypeOK, Guard
    <3>2. pointer.pinned = FALSE /\ pointer'.pinned = FALSE
      BY <2>5, <3>1 DEF InitializeGovernance, GovernanceInv, BlankUntilGoverned, NoPointer
    <3>3. /\ versions'[guard.doc].approvedAt = now /\ now # 0
          /\ \A d \in Docs \ {guard.doc} : versions'[d].approvedAt = 0
      BY <2>5, <3>1 DEF InitializeGovernance, GovernanceInv, BlankUntilGoverned, NoVersion, TypeOK
    <3>4. {d \in Docs : Approved(d)}' = {guard.doc}
      BY <3>1, <3>3 DEF Approved
    <3>5. QED
      BY <3>1, <3>2, <3>4 DEF Lifecycle!Adopt
  <2>6. ASSUME NEW s \in Key, NEW d \in Docs, ProposePolicy(s, d)
        PROVE  UNCHANGED Lifecycle!lifecycleVars
    <3>1. guard' = guard /\ pointer'.pinned = pointer.pinned
      BY <2>6 DEF ProposePolicy, TypeOK, Pointer
    <3>2. ~Approved(d)
      BY <2>6 DEF ProposePolicy, GovernanceInv, ApprovedIsProposed
    <3>3. \A e \in Docs : Approved(e)' <=> Approved(e)
      BY <2>6, <3>2 DEF ProposePolicy, NoVersion, Approved, TypeOK
    <3>4. QED
      BY <3>1, <3>3 DEF Lifecycle!lifecycleVars
  <2>7. ASSUME NEW s \in Key, NEW d \in Docs, ApprovePolicy(s, d)
        PROVE  Lifecycle!Approve
    <3>1. /\ guard' = guard /\ guard.governed
          /\ ~pointer.pinned /\ pointer'.pinned = pointer.pinned
      BY <2>7, HolderMeansGoverned DEF ApprovePolicy, TypeOK, Pointer, GovernanceInv, Role
    <3>2. now # 0 /\ \A e \in Docs : Approved(e)' <=> (Approved(e) \/ e = d)
      BY <2>7 DEF ApprovePolicy, Approved, TypeOK, Version
    <3>3. {e \in Docs : Approved(e)}' = {e \in Docs : Approved(e)} \cup {d}
      BY <3>2
    <3>4. QED
      BY <3>1, <3>3 DEF Lifecycle!Approve
  <2>8. ASSUME NEW s \in Key, NEW d \in Docs, ActivatePolicy(s, d) \/ RollbackPolicy(s, d)
        PROVE  Lifecycle!Switch
    <3>1. guard.governed /\ ~pointer.pinned /\ ApplyAndRepoint(d)
      BY <2>8, HolderMeansGoverned DEF ActivatePolicy, RollbackPolicy, GovernanceInv, Role
    <3>2. Approved(d)
      BY <2>8, ActivatedIsApproved DEF RollbackPolicy
    <3>3. QED
      BY <3>1, <3>2, InstallIsSwitch
  <2>9. ASSUME NEW s \in Key, PinPolicy(s)
        PROVE  Lifecycle!Freeze
    <3>1. guard.governed /\ guard' = guard /\ versions' = versions /\ pointer'.pinned = TRUE
      BY <2>9, HolderMeansGoverned DEF PinPolicy, TypeOK, Pointer, GovernanceInv, Role
    <3>2. {e \in Docs : Approved(e)}' = {e \in Docs : Approved(e)}
      BY <3>1 DEF Approved
    <3>3. QED
      BY <3>1, <3>2 DEF Lifecycle!Freeze
  <2>10. ASSUME NEW s \in Key, NEW c \in RoleChanges,
                ProposeRoleChange(s, c[1], c[2])
         PROVE  UNCHANGED Lifecycle!lifecycleVars
    BY <2>1, <2>10 DEF ProposeRoleChange
  <2>11. ASSUME NEW s \in Key, ApplyRoleChange(s)
         PROVE  UNCHANGED Lifecycle!lifecycleVars
    BY <2>1, <2>11 DEF ApplyRoleChange
  <2>12. QED
    BY <2>2, <2>3, <2>4, <2>5, <2>6, <2>7, <2>8, <2>9, <2>10, <2>11
       DEF Next, GovernedStep, Lifecycle!Next
<1>3. QED
  BY <1>1, <1>2, TypeCorrect, GovernanceInvariant, PTL
     DEF Spec, ImplementsLifecycle, Lifecycle!Spec
=============================================================================
