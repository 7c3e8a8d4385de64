-------------------------- MODULE AttestationsProofs --------------------------
(***************************************************************************)
(* What holds of aegis credentials for every set of issuers, subjects,     *)
(* schemas, keys, windows and freshness requirements.                      *)
(***************************************************************************)
EXTENDS Attestations, TLAPS

AegisInv == AegisTypeOK /\ OperatorServesAuthority

(* The layout of one attestation, with the order of its window.             *)
SoundAttestation == {a \in Attestation : a.wait > 0 => Valid(a)}

LEMMA AttestationLayout ==
  AegisTypeOK <=>
    /\ issuer \in [Issuer -> IssuerAccount]
    /\ att \in [Issuer -> [Subject -> [Schema -> SoundAttestation]]]
    /\ policy \in [Policy -> PolicyAccount]
    /\ grantor \in [Issuer -> Key \cup {NoKey}]
<1>1. att \in [Issuer -> [Subject -> [Schema -> SoundAttestation]]] <=>
        /\ att \in [Issuer -> [Subject -> [Schema -> Attestation]]]
        /\ \A i \in Issuer, s \in Subject, k \in Schema :
             att[i][s][k].wait > 0 => Valid(att[i][s][k])
  BY DEF SoundAttestation
<1> QED
  BY <1>1 DEF AegisTypeOK

LEMMA NoAttestationIsSound == NoAttestation \in SoundAttestation
BY AttestationsAssumption DEF NoAttestation, SoundAttestation, Attestation, Valid, NoAge

(* Ageing keeps a window in order: beginning and end draw near together.    *)
LEMMA AgeingIsSound ==
  ASSUME NEW a \in SoundAttestation
  PROVE  Aged(a) \in SoundAttestation
<1>1. CASE a.status = "NONE"
  BY <1>1 DEF Aged
<1>2. CASE a.status # "NONE"
  <2>1. /\ a \in Attestation
        /\ a.age \in 0 .. MaxAge /\ a.wait \in Nat /\ a.life \in Nat \cup {NoAge}
        /\ a.status \in {"NONE", "ACTIVE", "REVOKED", "ERASED"}
        /\ a.wait > 0 => Valid(a)
    BY DEF SoundAttestation, Attestation
  <2>2. Older(a.age) \in 0 .. MaxAge
    BY <2>1, AttestationsAssumption DEF Older
  <2>3. Sooner(a.wait) \in Nat /\ Sooner(a.life) \in Nat \cup {NoAge}
    BY <2>1 DEF Sooner, NoAge
  <2>4. ASSUME Sooner(a.wait) > 0, Sooner(a.life) # NoAge
        PROVE  Sooner(a.life) > 0 /\ Sooner(a.life) > Sooner(a.wait)
    <3>1. a.wait > 1 /\ Sooner(a.wait) = a.wait - 1
      BY <2>1, <2>4 DEF Sooner, NoAge
    <3>2. a.life # NoAge
      BY <2>4 DEF Sooner
    <3>3. a.life > a.wait
      BY <2>1, <3>1, <3>2 DEF Valid
    <3>4. Sooner(a.life) = a.life - 1
      BY <2>1, <3>1, <3>2, <3>3 DEF Sooner, NoAge
    <3> QED
      BY <2>1, <3>1, <3>2, <3>3, <3>4 DEF NoAge
  <2>5. Aged(a) = [status |-> a.status, age |-> Older(a.age), wait |-> Sooner(a.wait),
                   life |-> Sooner(a.life)]
    BY <1>2, <2>1 DEF Aged, Attestation
  <2> QED
    BY <2>1, <2>2, <2>3, <2>4, <2>5 DEF SoundAttestation, Attestation, Valid
<1> QED
  BY <1>1, <1>2

(* Accounts an action writes are well formed when the rest was.             *)
LEMMA IssuerUpdate ==
  ASSUME issuer \in [Issuer -> IssuerAccount], NEW i \in Issuer, NEW e \in IssuerAccount
  PROVE  [issuer EXCEPT ![i] = e] \in [Issuer -> IssuerAccount]
OBVIOUS

LEMMA AttestationUpdate ==
  ASSUME att \in [Issuer -> [Subject -> [Schema -> SoundAttestation]]],
         NEW i \in Issuer, NEW s \in Subject, NEW k \in Schema, NEW a \in SoundAttestation
  PROVE  [att EXCEPT ![i][s][k] = a] \in [Issuer -> [Subject -> [Schema -> SoundAttestation]]]
OBVIOUS

LEMMA IssuerStepKeepsInv ==
  ASSUME AegisInv, IssuerStep
  PROVE  AegisInv'
<1> USE AttestationsAssumption
<1>0. /\ issuer \in [Issuer -> IssuerAccount]
      /\ grantor \in [Issuer -> Key \cup {NoKey}]
      /\ \A i \in Issuer : issuer[i].operator # NoKey => grantor[i] = issuer[i].authority
      /\ UNCHANGED <<att, policy>>
  BY DEF AegisInv, AegisTypeOK, OperatorServesAuthority, IssuerStep, InitIssuer,
         AcceptIssuerAuthority, SetIssuerPaused, SetOperator, TransferIssuerAuthority
<1>1. PICK i \in Issuer :
        \/ InitIssuer(i) \/ AcceptIssuerAuthority(i)
        \/ \E on \in BOOLEAN : SetIssuerPaused(i, on)
        \/ \E key \in Operators \cup {NoKey} : SetOperator(i, key)
        \/ \E key \in Heirs : TransferIssuerAuthority(i, key)
  BY DEF IssuerStep
<1>2. /\ issuer[i] \in IssuerAccount
      /\ issuer[i].authority \in Key \cup {NoKey} /\ issuer[i].pending \in Key \cup {NoKey}
  BY <1>0 DEF IssuerAccount
<1> DEFINE Goal == /\ issuer' \in [Issuer -> IssuerAccount]
                   /\ grantor' \in [Issuer -> Key \cup {NoKey}]
                   /\ \A j \in Issuer : issuer'[j].operator # NoKey => grantor'[j] = issuer'[j].authority
<1>3. Goal
  <2>1. CASE InitIssuer(i)
    BY <1>0, <1>2, <2>1 DEF InitIssuer, NoIssuer, IssuerAccount
  <2>2. CASE AcceptIssuerAuthority(i)
    BY <1>0, <1>2, <2>2 DEF AcceptIssuerAuthority, IssuerAccount
  <2>3. ASSUME NEW on \in BOOLEAN, SetIssuerPaused(i, on)
        PROVE  Goal
    BY <1>0, <1>2, <2>3 DEF SetIssuerPaused, IssuerAccount
  <2>4. ASSUME NEW key \in Operators \cup {NoKey}, SetOperator(i, key)
        PROVE  Goal
    BY <1>0, <1>2, <2>4 DEF SetOperator, IssuerAccount
  <2>5. ASSUME NEW key \in Heirs, TransferIssuerAuthority(i, key)
        PROVE  Goal
    BY <1>0, <1>2, <2>5 DEF TransferIssuerAuthority, IssuerAccount
  <2> QED
    BY <1>1, <2>1, <2>2, <2>3, <2>4, <2>5
<1> QED
  BY <1>0, <1>3 DEF AegisInv, AegisTypeOK, OperatorServesAuthority

LEMMA CredentialStepFrame ==
  ASSUME CredentialStep
  PROVE  UNCHANGED <<issuer, policy, grantor>>
<1>1. PICK i \in Issuer, s \in Subject, k \in Schema :
        \/ \E w \in Windows : IssueAttestation(i, s, k, w) \/ UpdateAttestation(i, s, k, w)
        \/ RevokeAttestation(i, s, k) \/ EraseAttestation(i, s, k) \/ CloseAttestation(i, s, k)
  BY DEF CredentialStep
<1>2. ASSUME NEW w \in Windows, IssueAttestation(i, s, k, w) \/ UpdateAttestation(i, s, k, w)
      PROVE  UNCHANGED <<issuer, policy, grantor>>
  BY <1>2 DEF IssueAttestation, UpdateAttestation
<1>3. CASE RevokeAttestation(i, s, k) \/ EraseAttestation(i, s, k) \/ CloseAttestation(i, s, k)
  BY <1>3 DEF RevokeAttestation, EraseAttestation, CloseAttestation
<1> QED
  BY <1>1, <1>2, <1>3

LEMMA CredentialStepKeepsInv ==
  ASSUME AegisInv, CredentialStep
  PROVE  AegisInv'
<1>0. /\ att \in [Issuer -> [Subject -> [Schema -> SoundAttestation]]]
      /\ UNCHANGED <<issuer, policy, grantor>>
  <2>1. att \in [Issuer -> [Subject -> [Schema -> SoundAttestation]]]
    BY AttestationLayout DEF AegisInv
  <2>2. UNCHANGED <<issuer, policy, grantor>>
    BY CredentialStepFrame
  <2> QED
    BY <2>1, <2>2
<1>1. PICK i \in Issuer, s \in Subject, k \in Schema :
        \/ \E w \in Windows : IssueAttestation(i, s, k, w) \/ UpdateAttestation(i, s, k, w)
        \/ RevokeAttestation(i, s, k) \/ EraseAttestation(i, s, k) \/ CloseAttestation(i, s, k)
  BY DEF CredentialStep
<1> DEFINE a == att[i][s][k]
<1>2. a \in SoundAttestation
  BY <1>0
<1>3. /\ a.age \in 0 .. MaxAge /\ a.wait \in Nat /\ a.life \in Nat \cup {NoAge}
      /\ a.status \in {"NONE", "ACTIVE", "REVOKED", "ERASED"}
      /\ a.wait > 0 => Valid(a)
      /\ a = [status |-> a.status, age |-> a.age, wait |-> a.wait, life |-> a.life]
  BY <1>2 DEF SoundAttestation, Attestation
<1> DEFINE Sound == \E b \in SoundAttestation : att' = [att EXCEPT ![i][s][k] = b]
<1>4. Sound
  <2>1. ASSUME NEW w \in Windows, IssueAttestation(i, s, k, w)
        PROVE  Sound
    <3>1. w.wait \in Nat /\ w.life \in Nat \cup {NoAge} /\ Valid(w)
      BY <2>1, AttestationsAssumption DEF IssueAttestation
    <3>2. [status |-> "ACTIVE", age |-> 0, wait |-> w.wait, life |-> w.life] \in SoundAttestation
      BY <3>1, AttestationsAssumption DEF SoundAttestation, Attestation, Valid
    <3> QED
      BY <2>1, <3>2 DEF IssueAttestation
  <2>2. ASSUME NEW w \in Windows, UpdateAttestation(i, s, k, w)
        PROVE  Sound
    <3>1. w.wait \in Nat /\ w.life \in Nat \cup {NoAge} /\ Valid(w)
      BY <2>2, AttestationsAssumption DEF UpdateAttestation
    <3> DEFINE b == [a EXCEPT !.wait = w.wait, !.life = w.life]
    <3> HIDE DEF b
    <3>2. b \in Attestation /\ b.wait = w.wait /\ b.life = w.life
      <4>1. b = [a EXCEPT !.wait = w.wait, !.life = w.life]
        BY DEF b
      <4>2. a \in Attestation
        BY <1>2 DEF SoundAttestation
      <4> HIDE DEF a
      <4> QED
        BY <3>1, <4>1, <4>2 DEF Attestation
    <3>3. b \in SoundAttestation
      BY <3>1, <3>2 DEF SoundAttestation, Valid
    <3>4. att' = [att EXCEPT ![i][s][k] = b]
      BY <1>0, <2>2 DEF UpdateAttestation, b
    <3> QED
      BY <3>3, <3>4
  <2>3. ASSUME RevokeAttestation(i, s, k)
        PROVE  Sound
    <3> DEFINE b == [status |-> "REVOKED", age |-> a.age, wait |-> a.wait, life |-> a.life]
    <3>1. b \in SoundAttestation
      BY <1>3 DEF SoundAttestation, Attestation, Valid
    <3>2. [a EXCEPT !.status = "REVOKED"] = b
      BY <1>3
    <3> QED
      BY <1>0, <2>3, <3>1, <3>2 DEF RevokeAttestation
  <2>4. ASSUME EraseAttestation(i, s, k)
        PROVE  Sound
    <3> DEFINE b == [status |-> "ERASED", age |-> a.age, wait |-> a.wait, life |-> a.life]
    <3>1. b \in SoundAttestation
      BY <1>3 DEF SoundAttestation, Attestation, Valid
    <3>2. [a EXCEPT !.status = "ERASED"] = b
      BY <1>3
    <3> QED
      BY <1>0, <2>4, <3>1, <3>2 DEF EraseAttestation
  <2>5. ASSUME CloseAttestation(i, s, k)
        PROVE  Sound
    BY <2>5, NoAttestationIsSound DEF CloseAttestation
  <2> QED
    BY <1>1, <2>1, <2>2, <2>3, <2>4, <2>5
<1>5. att' \in [Issuer -> [Subject -> [Schema -> SoundAttestation]]]
  BY <1>0, <1>4, AttestationUpdate
<1>6. AegisTypeOK'
  <2>1. /\ \A j \in Issuer, t \in Subject, l \in Schema : att'[j][t][l].wait > 0 => Valid(att'[j][t][l])
        /\ att' \in [Issuer -> [Subject -> [Schema -> Attestation]]]
    BY <1>5 DEF SoundAttestation
  <2> QED
    BY <1>0, <2>1 DEF AegisInv, AegisTypeOK
<1> QED
  BY <1>0, <1>6 DEF AegisInv, OperatorServesAuthority

LEMMA PolicyStepKeepsInv ==
  ASSUME AegisInv, PolicyStep
  PROVE  AegisInv'
<1> DEFINE Goal == policy' \in [Policy -> PolicyAccount] /\ UNCHANGED <<issuer, att, grantor>>
<1>1. Goal
  <2>1. policy \in [Policy -> PolicyAccount]
    BY DEF AegisInv, AegisTypeOK
  <2>2. PICK p \in Policy :
          \/ \E i \in Issuer, k \in Schema, f \in Freshness : RegisterPolicy(p, i, k, f)
          \/ DeprecatePolicy(p)
    BY DEF PolicyStep
  <2>3. ASSUME NEW i \in Issuer, NEW k \in Schema, NEW f \in Freshness, RegisterPolicy(p, i, k, f)
        PROVE  Goal
    BY <2>1, <2>3 DEF RegisterPolicy, PolicyAccount
  <2>4. ASSUME DeprecatePolicy(p)
        PROVE  Goal
    BY <2>1, <2>4 DEF DeprecatePolicy, PolicyAccount
  <2> QED
    BY <2>2, <2>3, <2>4
<1> QED
  BY <1>1 DEF AegisInv, AegisTypeOK, OperatorServesAuthority

LEMMA PassTimeKeepsInv ==
  ASSUME AegisInv, PassTime
  PROVE  AegisInv'
<1>1. att \in [Issuer -> [Subject -> [Schema -> SoundAttestation]]]
  BY AttestationLayout DEF AegisInv
<1>2. att' \in [Issuer -> [Subject -> [Schema -> SoundAttestation]]]
  BY <1>1, AgeingIsSound DEF PassTime
<1>3. /\ \A i \in Issuer, s \in Subject, k \in Schema : att'[i][s][k].wait > 0 => Valid(att'[i][s][k])
      /\ att' \in [Issuer -> [Subject -> [Schema -> Attestation]]]
  BY <1>2 DEF SoundAttestation
<1> QED
  BY <1>3 DEF PassTime, AegisInv, AegisTypeOK, OperatorServesAuthority

LEMMA AegisStepKeepsInv ==
  ASSUME AegisInv, [AegisNext]_aegisVars
  PROVE  AegisInv'
<1>1. CASE UNCHANGED aegisVars
  BY <1>1 DEF aegisVars, AegisInv, AegisTypeOK, OperatorServesAuthority
<1> QED
  BY <1>1, IssuerStepKeepsInv, CredentialStepKeepsInv, PolicyStepKeepsInv, PassTimeKeepsInv
     DEF AegisNext

LEMMA AegisStartsSound == AegisInit => AegisInv
<1> SUFFICES ASSUME AegisInit PROVE AegisInv
  OBVIOUS
<1> USE AttestationsAssumption DEF AegisInit
<1>1. issuer \in [Issuer -> IssuerAccount] /\ grantor \in [Issuer -> Key \cup {NoKey}]
  BY DEF NoIssuer, IssuerAccount
<1>2. att \in [Issuer -> [Subject -> [Schema -> SoundAttestation]]]
  BY NoAttestationIsSound
<1>3. policy \in [Policy -> PolicyAccount]
  BY DEF NoPolicy, PolicyAccount
<1> QED
  BY <1>1, <1>2, <1>3, AttestationLayout DEF AegisInv, OperatorServesAuthority, NoIssuer

(* AegisInvariant: the inductive invariant of issuers and credentials.      *)
THEOREM AegisInvariant == AegisSpec => []AegisInv
<1>1. AegisInit => AegisInv
  BY AegisStartsSound
<1>2. AegisInv /\ [AegisNext]_aegisVars => AegisInv'
  BY AegisStepKeepsInv
<1> QED
  BY <1>1, <1>2, PTL DEF AegisSpec

(* AegisTypeCorrect: aegis accounts keep their layout, and no credential    *)
(* ends before it begins, however long it waits and is updated.             *)
THEOREM AegisTypeCorrect == AegisSpec => []AegisTypeOK
<1>1. AegisInv => AegisTypeOK
  BY DEF AegisInv
<1> QED
  BY <1>1, AegisInvariant, PTL

(* OperatorsAreAppointed: no operator key survives the hand-over of an      *)
(* issuer to another authority (handle_accept_issuer_authority).            *)
THEOREM OperatorsAreAppointed == AegisSpec => []OperatorServesAuthority
<1>1. AegisInv => OperatorServesAuthority
  BY DEF AegisInv
<1> QED
  BY <1>1, AegisInvariant, PTL

-----------------------------------------------------------------------------
(* What a step does to one credential. *)

LEMMA OtherCredentialsStay ==
  ASSUME att \in [Issuer -> [Subject -> [Schema -> SoundAttestation]]],
         NEW i \in Issuer, NEW s \in Subject, NEW k \in Schema, NEW b,
         NEW j \in Issuer, NEW t \in Subject, NEW l \in Schema,
         att' = [att EXCEPT ![i][s][k] = b]
  PROVE  att'[j][t][l] = IF <<j, t, l>> = <<i, s, k>> THEN b ELSE att[j][t][l]
OBVIOUS

(* The ways in which a step may change the credential at one address.       *)
Issued(i, s, k) ==
  /\ ~issuer[i].paused
  /\ att[i][s][k].status = "NONE" /\ att'[i][s][k].age = 0

Updated(i, s, k) ==
  /\ ~issuer[i].paused
  /\ att[i][s][k].status = "ACTIVE" /\ att'[i][s][k].status = "ACTIVE"
  /\ att'[i][s][k].age = att[i][s][k].age

Ended(i, s, k) == att'[i][s][k].status # "ACTIVE"

GrewOlder(i, s, k) == att'[i][s][k] = Aged(att[i][s][k])

LEMMA CredentialSteps ==
  ASSUME AegisTypeOK, [AegisNext]_aegisVars,
         NEW j \in Issuer, NEW t \in Subject, NEW l \in Schema
  PROVE  \/ att'[j][t][l] = att[j][t][l]
         \/ Issued(j, t, l) \/ Updated(j, t, l) \/ Ended(j, t, l) \/ GrewOlder(j, t, l)
<1> DEFINE Goal == \/ att'[j][t][l] = att[j][t][l]
                   \/ Issued(j, t, l) \/ Updated(j, t, l) \/ Ended(j, t, l) \/ GrewOlder(j, t, l)
<1>0. att \in [Issuer -> [Subject -> [Schema -> SoundAttestation]]]
  BY AttestationLayout
<1>1. CASE PassTime
  BY <1>1 DEF PassTime, GrewOlder
<1>2. CASE IssuerStep \/ PolicyStep \/ UNCHANGED aegisVars
  BY <1>2 DEF IssuerStep, PolicyStep, InitIssuer, AcceptIssuerAuthority, SetIssuerPaused, SetOperator,
              TransferIssuerAuthority, RegisterPolicy, DeprecatePolicy, aegisVars
<1>3. CASE CredentialStep
  <2>1. PICK i \in Issuer, s \in Subject, k \in Schema :
          \/ \E w \in Windows : IssueAttestation(i, s, k, w) \/ UpdateAttestation(i, s, k, w)
          \/ RevokeAttestation(i, s, k) \/ EraseAttestation(i, s, k) \/ CloseAttestation(i, s, k)
    BY <1>3 DEF CredentialStep
  <2> DEFINE a == att[i][s][k]
  <2>2. a \in Attestation
    BY <1>0 DEF SoundAttestation
  <2>3. ASSUME NEW b, att' = [att EXCEPT ![i][s][k] = b],
               \/ ~issuer[i].paused /\ a.status = "NONE" /\ b.age = 0
               \/ ~issuer[i].paused /\ a.status = "ACTIVE" /\ b.status = "ACTIVE" /\ b.age = a.age
               \/ b.status # "ACTIVE"
        PROVE  Goal
    <3>1. att'[j][t][l] = IF <<j, t, l>> = <<i, s, k>> THEN b ELSE att[j][t][l]
      BY <1>0, <2>3, OtherCredentialsStay
    <3> QED
      BY <2>3, <3>1 DEF Issued, Updated, Ended
  <2>4. ASSUME NEW w \in Windows, IssueAttestation(i, s, k, w)
        PROVE  Goal
    BY <2>3, <2>4 DEF IssueAttestation
  <2>5. ASSUME NEW w \in Windows, UpdateAttestation(i, s, k, w)
        PROVE  Goal
    <3>1. /\ att' = [att EXCEPT ![i][s][k] = [a EXCEPT !.wait = w.wait, !.life = w.life]]
          /\ ~issuer[i].paused /\ a.status = "ACTIVE"
      BY <1>0, <2>5 DEF UpdateAttestation
    <3>2. /\ [a EXCEPT !.wait = w.wait, !.life = w.life].status = "ACTIVE"
          /\ [a EXCEPT !.wait = w.wait, !.life = w.life].age = a.age
      BY <2>2, <3>1 DEF Attestation
    <3> QED
      BY <2>3, <3>1, <3>2
  <2>6. CASE RevokeAttestation(i, s, k)
    <3>1. att' = [att EXCEPT ![i][s][k] = [a EXCEPT !.status = "REVOKED"]]
      BY <1>0, <2>6 DEF RevokeAttestation
    <3>2. [a EXCEPT !.status = "REVOKED"].status = "REVOKED"
      BY <2>2 DEF Attestation
    <3> QED
      BY <2>3, <3>1, <3>2
  <2>7. CASE EraseAttestation(i, s, k)
    <3>1. att' = [att EXCEPT ![i][s][k] = [a EXCEPT !.status = "ERASED"]]
      BY <1>0, <2>7 DEF EraseAttestation
    <3>2. [a EXCEPT !.status = "ERASED"].status = "ERASED"
      BY <2>2 DEF Attestation
    <3> QED
      BY <2>3, <3>1, <3>2
  <2>8. CASE CloseAttestation(i, s, k)
    BY <2>3, <2>8 DEF CloseAttestation, NoAttestation
  <2> QED
    BY <2>1, <2>4, <2>5, <2>6, <2>7, <2>8
<1> QED
  BY <1>1, <1>2, <1>3 DEF AegisNext

(* VouchingIsTheIssuers: no pause is got around and no dead credential      *)
(* comes back but by a new issue.                                           *)
THEOREM VouchingIsTheIssuers == AegisSpec => OnlyIssuersVouch
<1> DEFINE Vouching ==
      \A i \in Issuer, s \in Subject, k \in Schema :
        ~Holds(i, s, k) /\ Holds(i, s, k)' =>
          /\ att[i][s][k].status \in {"NONE", "ACTIVE"}
          /\ ~issuer[i].paused \/ att[i][s][k].wait > 0
<1>1. AegisTypeOK /\ [AegisNext]_aegisVars => [Vouching]_aegisVars
  <2> SUFFICES ASSUME AegisTypeOK, [AegisNext]_aegisVars,
                      NEW i \in Issuer, NEW s \in Subject, NEW k \in Schema,
                      ~Holds(i, s, k), Holds(i, s, k)'
               PROVE  /\ att[i][s][k].status \in {"NONE", "ACTIVE"}
                      /\ ~issuer[i].paused \/ att[i][s][k].wait > 0
    OBVIOUS
  <2> DEFINE a == att[i][s][k]
             b == att'[i][s][k]
  <2>1. b.status = "ACTIVE" /\ b.wait = 0 /\ b.life # 0
    BY DEF Holds, IsLive
  <2>2. a # b
    BY DEF Holds
  <2>3. CASE GrewOlder(i, s, k)
    <3>1. a \in Attestation
      BY DEF AegisTypeOK
    <3>2. a.status # "NONE" /\ b = [a EXCEPT !.age = Older(@), !.wait = Sooner(@), !.life = Sooner(@)]
      BY <2>2, <2>3 DEF GrewOlder, Aged
    <3>3. a.status = "ACTIVE" /\ Sooner(a.life) # 0
      BY <2>1, <3>1, <3>2 DEF Attestation
    <3>4. a.wait # 0
      BY <3>1, <3>3 DEF Holds, IsLive, Sooner, NoAge
    <3> QED
      BY <3>1, <3>3, <3>4 DEF Attestation
  <2> QED
    BY <2>1, <2>2, <2>3, CredentialSteps DEF Issued, Updated, Ended
<1> QED
  BY <1>1, AegisTypeCorrect, PTL DEF AegisSpec, OnlyIssuersVouch

(* FreshnessIsNotRenewed: past a policy's freshness_secs a credential is    *)
(* refused under it until it has been closed and issued anew.               *)
THEOREM FreshnessIsNotRenewed == AegisSpec => ReverificationNeedsReissue
<1> DEFINE Refused ==
      \A p \in Policy, s \in Subject :
        LET a == att[policy[p].issuer][s][policy[p].schema] IN
          policy[p].open /\ a.status # "NONE" /\ ~Recent(a, policy[p].freshness)
            => ~PolicyHolds(p, s)'
<1>1. AegisInv /\ [AegisNext]_aegisVars => [Refused]_aegisVars
  <2> SUFFICES ASSUME AegisInv, [AegisNext]_aegisVars, NEW p \in Policy, NEW s \in Subject,
                      policy[p].open,
                      att[policy[p].issuer][s][policy[p].schema].status # "NONE",
                      ~Recent(att[policy[p].issuer][s][policy[p].schema], policy[p].freshness)
               PROVE  ~PolicyHolds(p, s)'
    OBVIOUS
  <2>0. AegisInv /\ AegisTypeOK
    BY DEF AegisInv
  <2> DEFINE d == policy[p]
             a == att[d.issuer][s][d.schema]
             b == att'[d.issuer][s][d.schema]
  <2>1. d.issuer \in Issuer /\ d.schema \in Schema /\ d.freshness \in Freshness \cup {0}
    BY <2>0 DEF AegisTypeOK, PolicyAccount
  <2>2. a \in Attestation /\ a.age \in 0 .. MaxAge
    BY <2>0, <2>1 DEF AegisTypeOK, Attestation
  <2>3. d.freshness > 0 /\ d.freshness \in Nat /\ MaxAge \in Nat /\ a.age > d.freshness
    <3>1. MaxAge \in Nat /\ d.freshness \in Nat
      <4>1. MaxAge \in Nat /\ Freshness \subseteq 0 .. (MaxAge - 1)
        BY AttestationsAssumption
      <4>2. \A f \in Freshness \cup {0} : f \in Nat
        BY <4>1
      <4> QED
        BY <2>1, <4>1, <4>2
    <3>2. d.freshness > 0 /\ ~(a.age <= d.freshness)
      BY DEF Recent
    <3> QED
      BY <2>2, <3>1, <3>2
  <2>4. b.status = "ACTIVE" => b.age > d.freshness
    <3>1. ASSUME GrewOlder(d.issuer, s, d.schema)
          PROVE  b.age > d.freshness
      <4>1. b.age = Older(a.age)
        BY <2>2, <3>1 DEF GrewOlder, Aged, Attestation
      <4> QED
        BY <2>2, <2>3, <4>1 DEF Older
    <3>2. \/ b = a \/ Issued(d.issuer, s, d.schema) \/ Updated(d.issuer, s, d.schema)
          \/ Ended(d.issuer, s, d.schema) \/ GrewOlder(d.issuer, s, d.schema)
      BY <2>0, <2>1, CredentialSteps
    <3> QED
      BY <2>3, <3>1, <3>2 DEF Issued, Updated, Ended
  <2> DEFINE Kept == /\ policy'[p].issuer = d.issuer /\ policy'[p].schema = d.schema
                     /\ policy'[p].freshness = d.freshness
  <2>5. Kept
    <3>0. policy \in [Policy -> PolicyAccount]
      BY <2>0 DEF AegisTypeOK
    <3>1. CASE UNCHANGED policy
      BY <3>1
    <3>2. ASSUME NEW q \in Policy, NEW i \in Issuer, NEW k \in Schema, NEW f \in Freshness,
                 RegisterPolicy(q, i, k, f)
          PROVE  Kept
      BY <3>0, <3>2 DEF RegisterPolicy
    <3>3. ASSUME NEW q \in Policy, DeprecatePolicy(q)
          PROVE  Kept
      BY <3>0, <3>3 DEF DeprecatePolicy, PolicyAccount
    <3>4. IssuerStep => UNCHANGED policy
      BY DEF IssuerStep, InitIssuer, AcceptIssuerAuthority, SetIssuerPaused, SetOperator,
             TransferIssuerAuthority
    <3>5. CredentialStep => UNCHANGED policy
      BY CredentialStepFrame
    <3>6. PassTime \/ UNCHANGED aegisVars => UNCHANGED policy
      BY DEF PassTime, aegisVars
    <3> QED
      BY <3>1, <3>2, <3>3, <3>4, <3>5, <3>6 DEF AegisNext, PolicyStep
  <2>6. ASSUME PolicyHolds(p, s)'
        PROVE  FALSE
    <3>1. b.status = "ACTIVE" /\ Recent(b, d.freshness)
      BY <2>5, <2>6 DEF PolicyHolds, Holds, IsLive
    <3>2. b.age > d.freshness /\ b.age <= d.freshness
      BY <2>3, <2>4, <3>1 DEF Recent
    <3>3. b \in Attestation
      <4>1. AegisTypeOK'
        BY AegisStepKeepsInv, <2>0 DEF AegisInv
      <4> QED
        BY <2>1, <4>1 DEF AegisTypeOK
    <3> QED
      BY <2>3, <3>2, <3>3 DEF Attestation
  <2> QED
    BY <2>6
<1> QED
  BY <1>1, AegisInvariant, PTL DEF AegisSpec, ReverificationNeedsReissue
=============================================================================
