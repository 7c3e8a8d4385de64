---------------------------- MODULE Attestations -----------------------------
(***************************************************************************)
(* aegis: an issuer attests that a subject meets a schema; verify and      *)
(* verify_policy answer, without ever failing, whether such a credential   *)
(* holds now.  A credential has an address -- issuer, subject, schema --   *)
(* and so is renewed by an update, or by closing and issuing it anew.      *)
(*                                                                         *)
(* Only elapsed time is ever compared: an instant is kept as the time      *)
(* since it or until it.  An issuer's authority or its operator signs what *)
(* is done to a credential; the authority can always sign, so who of the   *)
(* two did is left out.                                                    *)
(***************************************************************************)
EXTENDS Integers

CONSTANTS
  Issuer, Subject, Schema, Policy,  \* addresses and ids
  Key, NoKey,   \* keys, and None
  Founder,      \* the key every issuer is created by
  Heirs,        \* keys an authority may be handed to
  Operators,    \* keys made operator
  Windows,      \* validity windows asked for, invalid ones included
  Freshness,    \* freshness_secs in play (0: no requirement)
  MaxAge        \* bound: ages are told apart up to here

NoAge == -1     \* expires_at = 0: never

ASSUME AttestationsAssumption ==
  /\ Issuer # {} /\ Schema # {}
  /\ NoKey \notin Key /\ Founder \in Key
  /\ Heirs \subseteq Key /\ Operators \subseteq Key
  /\ Windows \subseteq [wait : Nat, life : Nat \cup {NoAge}]
  /\ MaxAge \in Nat
  /\ Freshness \subseteq 0 .. (MaxAge - 1)

VARIABLES
  issuer,   \* Issuer (open: the account exists)
  att,      \* Attestation by issuer, subject and schema (NONE: no account)
  policy,   \* Policy (open: the account exists)
  grantor   \* history: the authority that appointed the operator

aegisVars == <<issuer, att, policy, grantor>>

NoIssuer == [open |-> FALSE, authority |-> NoKey, pending |-> NoKey, operator |-> NoKey,
             paused |-> FALSE]
NoPolicy == [open |-> FALSE, issuer |-> CHOOSE i \in Issuer : TRUE,
             schema |-> CHOOSE k \in Schema : TRUE, freshness |-> 0, deprecated |-> FALSE]
NoAttestation == [status |-> "NONE", age |-> 0, wait |-> 0, life |-> NoAge]

IssuerAccount == [open : BOOLEAN, authority : Key \cup {NoKey}, pending : Key \cup {NoKey},
                  operator : Key \cup {NoKey}, paused : BOOLEAN]
PolicyAccount == [open : BOOLEAN, issuer : Issuer, schema : Schema, freshness : Freshness \cup {0},
                  deprecated : BOOLEAN]

(* age: time since issued_at; wait: until valid_from; life: until expires_at.*)
Attestation == [status : {"NONE", "ACTIVE", "REVOKED", "ERASED"},
                age : 0 .. MaxAge, wait : Nat, life : Nat \cup {NoAge}]

(* validate: an expiry lies ahead, and after the beginning.                 *)
Valid(w) == w.life # NoAge => w.life > 0 /\ w.life > w.wait

(* AegisTypeOK: the layout of the accounts; no credential ends before it    *)
(* begins.                                                                  *)
AegisTypeOK ==
  /\ issuer \in [Issuer -> IssuerAccount]
  /\ att \in [Issuer -> [Subject -> [Schema -> Attestation]]]
  /\ \A i \in Issuer, s \in Subject, k \in Schema :
       att[i][s][k].wait > 0 => Valid(att[i][s][k])
  /\ policy \in [Policy -> PolicyAccount]
  /\ grantor \in [Issuer -> Key \cup {NoKey}]

-----------------------------------------------------------------------------
(* Verdicts *)

IsLive(a) == a.status = "ACTIVE" /\ a.wait = 0 /\ a.life # 0

Recent(a, f) == f > 0 => a.age <= f

(* evaluate, handed the canonical account; any other account is a no.       *)
Holds(i, s, k) == IsLive(att[i][s][k])

(* verify_policy.                                                           *)
PolicyHolds(p, s) ==
  LET d == policy[p] IN
    /\ d.open /\ ~d.deprecated
    /\ Holds(d.issuer, s, d.schema)
    /\ Recent(att[d.issuer][s][d.schema], d.freshness)

-----------------------------------------------------------------------------
(* Faulty variants: what a slip in one handler would look like.             *)

AcceptIssuerAuthorityKeepsOperator(i) ==
  /\ issuer[i].pending # NoKey
  /\ issuer' = [issuer EXCEPT ![i].authority = issuer[i].pending, ![i].pending = NoKey]
  /\ UNCHANGED <<att, policy, grantor>>

UpdateAttestationAnyState(i, s, k, w) ==
  /\ issuer[i].open /\ ~issuer[i].paused
  /\ att[i][s][k].status # "NONE"
  /\ Valid(w)
  /\ att' = [att EXCEPT ![i][s][k] = [@ EXCEPT !.status = "ACTIVE", !.wait = w.wait, !.life = w.life]]
  /\ UNCHANGED <<issuer, policy, grantor>>

UpdateAttestationRenews(i, s, k, w) ==
  /\ issuer[i].open /\ ~issuer[i].paused
  /\ att[i][s][k].status = "ACTIVE"
  /\ Valid(w)
  /\ att' = [att EXCEPT ![i][s][k] = [@ EXCEPT !.age = 0, !.wait = w.wait, !.life = w.life]]
  /\ UNCHANGED <<issuer, policy, grantor>>

-----------------------------------------------------------------------------
(* Issuers *)

InitIssuer(i) ==
  /\ ~issuer[i].open
  /\ issuer' = [issuer EXCEPT ![i] = [NoIssuer EXCEPT !.open = TRUE, !.authority = Founder]]
  /\ UNCHANGED <<att, policy, grantor>>

SetIssuerPaused(i, on) ==
  /\ issuer[i].open
  /\ issuer' = [issuer EXCEPT ![i].paused = on]
  /\ UNCHANGED <<att, policy, grantor>>

SetOperator(i, key) ==
  /\ issuer[i].open
  /\ issuer' = [issuer EXCEPT ![i].operator = key]
  /\ grantor' = [grantor EXCEPT ![i] = issuer[i].authority]
  /\ UNCHANGED <<att, policy>>

TransferIssuerAuthority(i, key) ==
  /\ issuer[i].open
  /\ issuer' = [issuer EXCEPT ![i].pending = key]
  /\ UNCHANGED <<att, policy, grantor>>

(* The operator is the old authority's: it goes with it.                    *)
AcceptIssuerAuthority(i) ==
  /\ issuer[i].pending # NoKey
  /\ issuer' = [issuer EXCEPT ![i].authority = issuer[i].pending, ![i].pending = NoKey,
                              ![i].operator = NoKey]
  /\ UNCHANGED <<att, policy, grantor>>

-----------------------------------------------------------------------------
(* Credentials *)

IssueAttestation(i, s, k, w) ==
  /\ issuer[i].open /\ ~issuer[i].paused
  /\ att[i][s][k].status = "NONE"
  /\ Valid(w)
  /\ att' = [att EXCEPT ![i][s][k] =
               [status |-> "ACTIVE", age |-> 0, wait |-> w.wait, life |-> w.life]]
  /\ UNCHANGED <<issuer, policy, grantor>>

(* issued_at stays.                                                         *)
UpdateAttestation(i, s, k, w) ==
  /\ issuer[i].open /\ ~issuer[i].paused
  /\ att[i][s][k].status = "ACTIVE"
  /\ Valid(w)
  /\ att' = [att EXCEPT ![i][s][k] = [@ EXCEPT !.wait = w.wait, !.life = w.life]]
  /\ UNCHANGED <<issuer, policy, grantor>>

(* Revoking, erasing and closing are not stopped by a pause.                *)
RevokeAttestation(i, s, k) ==
  /\ att[i][s][k].status = "ACTIVE"
  /\ att' = [att EXCEPT ![i][s][k].status = "REVOKED"]
  /\ UNCHANGED <<issuer, policy, grantor>>

EraseAttestation(i, s, k) ==
  /\ att[i][s][k].status \in {"ACTIVE", "REVOKED"}
  /\ att' = [att EXCEPT ![i][s][k].status = "ERASED"]
  /\ UNCHANGED <<issuer, policy, grantor>>

CloseAttestation(i, s, k) ==
  /\ att[i][s][k].status # "NONE"
  /\ att' = [att EXCEPT ![i][s][k] = NoAttestation]
  /\ UNCHANGED <<issuer, policy, grantor>>

-----------------------------------------------------------------------------
(* Policies *)

RegisterPolicy(p, i, k, f) ==
  /\ ~policy[p].open
  /\ policy' = [policy EXCEPT ![p] = [open |-> TRUE, issuer |-> i, schema |-> k,
                                      freshness |-> f, deprecated |-> FALSE]]
  /\ UNCHANGED <<issuer, att, grantor>>

DeprecatePolicy(p) ==
  /\ policy[p].open
  /\ policy' = [policy EXCEPT ![p].deprecated = TRUE]
  /\ UNCHANGED <<issuer, att, grantor>>

-----------------------------------------------------------------------------
Older(age) == IF age = MaxAge THEN age ELSE age + 1
Sooner(n) == IF n \in {0, NoAge} THEN n ELSE n - 1

(* A unit of time; an absent account has no age.                            *)
Aged(a) ==
  IF a.status = "NONE" THEN a
  ELSE [a EXCEPT !.age = Older(@), !.wait = Sooner(@), !.life = Sooner(@)]

PassTime ==
  /\ att' = [i \in Issuer |-> [s \in Subject |-> [k \in Schema |-> Aged(att[i][s][k])]]]
  /\ UNCHANGED <<issuer, policy, grantor>>

AegisInit ==
  /\ issuer = [i \in Issuer |-> NoIssuer]
  /\ att = [i \in Issuer |-> [s \in Subject |-> [k \in Schema |-> NoAttestation]]]
  /\ policy = [p \in Policy |-> NoPolicy]
  /\ grantor = [i \in Issuer |-> NoKey]

IssuerStep ==
  \E i \in Issuer :
    \/ InitIssuer(i) \/ AcceptIssuerAuthority(i)
    \/ \E on \in BOOLEAN : SetIssuerPaused(i, on)
    \/ \E key \in Operators \cup {NoKey} : SetOperator(i, key)
    \/ \E key \in Heirs : TransferIssuerAuthority(i, key)

CredentialStep ==
  \E i \in Issuer, s \in Subject, k \in Schema :
    \/ \E w \in Windows : IssueAttestation(i, s, k, w) \/ UpdateAttestation(i, s, k, w)
    \/ RevokeAttestation(i, s, k) \/ EraseAttestation(i, s, k) \/ CloseAttestation(i, s, k)

PolicyStep ==
  \E p \in Policy :
    \/ \E i \in Issuer, k \in Schema, f \in Freshness : RegisterPolicy(p, i, k, f)
    \/ DeprecatePolicy(p)

AegisNext == IssuerStep \/ CredentialStep \/ PolicyStep \/ PassTime

AegisSpec == AegisInit /\ [][AegisNext]_aegisVars

-----------------------------------------------------------------------------
(* Properties *)

(* OperatorServesAuthority: an operator key that can sign today was         *)
(* appointed by today's authority: none survives a hand-over, however       *)
(* proposals, acceptances and appointments interleave.                      *)
OperatorServesAuthority ==
  \A i \in Issuer : issuer[i].operator # NoKey => grantor[i] = issuer[i].authority

(* OnlyIssuersVouch: aegis begins to say yes of a credential only through   *)
(* an unpaused issuer issuing or updating it, or when a beginning set       *)
(* before arrives; and never of one revoked or erased, which must be closed *)
(* and issued anew.                                                         *)
OnlyIssuersVouch ==
  [][\A i \in Issuer, s \in Subject, k \in Schema :
       ~Holds(i, s, k) /\ Holds(i, s, k)' =>
         /\ att[i][s][k].status \in {"NONE", "ACTIVE"}
         /\ ~issuer[i].paused \/ att[i][s][k].wait > 0]_aegisVars

(* ReverificationNeedsReissue: a credential that has become too old for a   *)
(* policy is never accepted under it again while it exists: no update       *)
(* renews it, it must be closed and issued anew.                            *)
ReverificationNeedsReissue ==
  [][\A p \in Policy, s \in Subject :
       LET a == att[policy[p].issuer][s][policy[p].schema] IN
         policy[p].open /\ a.status # "NONE" /\ ~Recent(a, policy[p].freshness)
           => ~PolicyHolds(p, s)']_aegisVars
=============================================================================
