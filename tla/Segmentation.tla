---------------------------- MODULE Segmentation -----------------------------
(***************************************************************************)
(* Verified customer segments of one vesta_core merchant.  The owner names *)
(* up to MAX_SEGMENTS credentials; anyone may have aegis asked whether a   *)
(* customer holds one of them, and the answer is kept as one bit of a      *)
(* cache that earning and offers read without asking again.  The cache is  *)
(* bound to the epoch of the segment set, and has a single expiry that     *)
(* every refresh of any bit moves.                                         *)
(***************************************************************************)
EXTENDS Attestations

CONSTANTS
  Slot,        \* 0 .. MAX_SEGMENTS - 1
  Sets,        \* segment sets the owner may install
  DefaultTtl,  \* DEFAULT_ELIGIBILITY_TTL_SECS
  MaxTtl,      \* the longest TTL whose sum with the clock fits an i64; as a
               \* bound, the age up to which verdicts are told apart
  MaxEpoch     \* bound: how often the set is changed; u64::MAX is out of reach

Segment == [active : BOOLEAN, issuer : Issuer, schema : Schema, ttl : Nat]

ASSUME SegmentationAssumption ==
  /\ Slot # {} /\ MaxEpoch \in Nat
  /\ Sets \subseteq [Slot -> Segment]
  /\ DefaultTtl \in Nat \ {0} /\ MaxTtl \in Nat
  /\ DefaultTtl <= MaxTtl

VARIABLES
  segments,  \* MerchantSegments.segments
  epoch,     \* MerchantSegments.policy_epoch (0: no account yet)
  cache,     \* CustomerEligibility by customer
  vouched    \* history: how long ago aegis said yes of a slot, by customer and
             \* slot, if that was its last word under this set; else NoAge

segmentVars == <<segments, epoch, cache, vouched>>
vars == <<aegisVars, segmentVars>>

NoSegment == [active |-> FALSE, issuer |-> CHOOSE i \in Issuer : TRUE,
              schema |-> CHOOSE k \in Schema : TRUE, ttl |-> 0]
NoCache == [verdicts |-> {}, epoch |-> 0, left |-> 0]
NeverVouched == [c \in Subject |-> [n \in Slot |-> NoAge]]

(* TypeOK: the layout of the accounts, aegis's included.                    *)
TypeOK ==
  /\ AegisTypeOK
  /\ segments \in [Slot -> Segment]
  /\ epoch \in 0 .. MaxEpoch
  /\ cache \in [Subject -> [verdicts : SUBSET Slot, epoch : 0 .. MaxEpoch, left : 0 .. MaxTtl]]
  /\ vouched \in [Subject -> [Slot -> 0 .. MaxTtl \cup {NoAge}]]

-----------------------------------------------------------------------------
(* Helpers *)

(* A faulty variant: what a slip in the next definition would look like.    *)
TtlUndefaulted(seg) == seg.ttl

(* ttl_secs, 0 standing for the protocol's default.                         *)
Ttl(seg) == IF seg.ttl > 0 THEN seg.ttl ELSE DefaultTtl

(* CustomerEligibility::is_fresh and satisfies.                             *)
IsFresh(c) == cache[c].epoch = epoch /\ cache[c].left > 0
Satisfies(c, n) == IsFresh(c) /\ n \in cache[c].verdicts

(* A verdict on a slot can be kept: set_merchant_segments takes any TTL, and*)
(* one past the end of time makes every refresh an Overflow.                *)
Refreshable(n) == segments[n].active /\ Ttl(segments[n]) <= MaxTtl

(* The credential a slot asks for holds.                                    *)
Meets(c, n) == Holds(segments[n].issuer, c, segments[n].schema)

(* A faulty variant: what a slip in the next definition would look like.    *)
KnownVerdictsAnyEpoch(c) == cache[c].verdicts

(* Verdicts given under another set of segments are dropped.                *)
KnownVerdicts(c) == IF cache[c].epoch = epoch THEN cache[c].verdicts ELSE {}

-----------------------------------------------------------------------------
(* Faulty variants: what a slip in one handler would look like.             *)

RefreshPassesOverUnknown(c, n, canonical) ==
  LET verdicts == IF ~canonical THEN KnownVerdicts(c)
                  ELSE (KnownVerdicts(c) \ {n}) \cup (IF Meets(c, n) THEN {n} ELSE {})
  IN /\ Refreshable(n)
     /\ cache' = [cache EXCEPT ![c] =
          [verdicts |-> verdicts, epoch |-> epoch, left |-> Ttl(segments[n])]]
     /\ vouched' = [vouched EXCEPT ![c][n] =
          IF ~canonical THEN @ ELSE IF Meets(c, n) THEN 0 ELSE NoAge]
     /\ UNCHANGED <<aegisVars, segments, epoch>>

RefreshKeepsOld(c, n, canonical) ==
  LET ok == canonical /\ Meets(c, n)
  IN /\ Refreshable(n)
     /\ ~Satisfies(c, n)
     /\ cache' = [cache EXCEPT ![c] =
          [verdicts |-> (KnownVerdicts(c) \ {n}) \cup (IF ok THEN {n} ELSE {}),
           epoch |-> epoch, left |-> Ttl(segments[n])]]
     /\ vouched' = [vouched EXCEPT ![c][n] = IF ok THEN 0 ELSE NoAge]
     /\ UNCHANGED <<aegisVars, segments, epoch>>

-----------------------------------------------------------------------------
(* set_merchant_segments: the whole set is replaced.                        *)
SetMerchantSegments(set) ==
  /\ epoch < MaxEpoch
  /\ segments' = set
  /\ epoch' = epoch + 1
  /\ vouched' = NeverVouched
  /\ UNCHANGED <<aegisVars, cache>>

(* refresh_customer_eligibility, callable by anyone, who also chooses the   *)
(* attestation account: aegis answers no for any but the canonical one.     *)
Refresh(c, n, canonical) ==
  LET ok == canonical /\ Meets(c, n)
  IN /\ Refreshable(n)
     /\ cache' = [cache EXCEPT ![c] =
          [verdicts |-> (KnownVerdicts(c) \ {n}) \cup (IF ok THEN {n} ELSE {}),
           epoch |-> epoch, left |-> Ttl(segments[n])]]
     /\ vouched' = [vouched EXCEPT ![c][n] = IF ok THEN 0 ELSE NoAge]
     /\ UNCHANGED <<aegisVars, segments, epoch>>

Later(age) == IF age \in {NoAge, MaxTtl} THEN age ELSE age + 1

Tick ==
  /\ PassTime
  /\ cache' = [c \in Subject |-> [cache[c] EXCEPT !.left = Sooner(@)]]
  /\ vouched' = [c \in Subject |-> [n \in Slot |-> Later(vouched[c][n])]]
  /\ UNCHANGED <<segments, epoch>>

-----------------------------------------------------------------------------
Init ==
  /\ AegisInit
  /\ segments = [n \in Slot |-> NoSegment]
  /\ epoch = 0
  /\ cache = [c \in Subject |-> NoCache]
  /\ vouched = NeverVouched

AegisStep == (IssuerStep \/ CredentialStep \/ PolicyStep) /\ UNCHANGED segmentVars

Next ==
  \/ AegisStep
  \/ \E set \in Sets : SetMerchantSegments(set)
  \/ \E c \in Subject, n \in Slot, canonical \in BOOLEAN : Refresh(c, n, canonical)
  \/ Tick

Spec == Init /\ [][Next]_vars

(* Somebody keeps having every active segment of every customer refreshed,  *)
(* with the right account: nothing in the programs does, the crank is open  *)
(* to anyone so that somebody can.  Others may interfere.                   *)
FairSpec == Spec /\ \A c \in Subject, n \in Slot : WF_vars(Refresh(c, n, TRUE))

-----------------------------------------------------------------------------
(* Properties *)

(* VerdictsWereGiven: a segment counts as met only if aegis, asked last     *)
(* about that customer and the credential the merchant names today, said    *)
(* yes: no bit outlives a change of the set or a later refusal, whatever    *)
(* account anyone passes.                                                   *)
VerdictsWereGiven ==
  \A c \in Subject, n \in Slot : Satisfies(c, n) => segments[n].active /\ vouched[c][n] # NoAge

ActiveSlots == {n \in Slot : segments[n].active}

(* LoneVerdictsExpire: with a single segment in the set, a verdict counts   *)
(* for less than that segment's TTL, so a revoked credential loses its      *)
(* boosts and offers within it even if nobody asks aegis again.             *)
LoneVerdictsExpire ==
  \A c \in Subject, n \in Slot :
    ActiveSlots = {n} /\ Satisfies(c, n) => vouched[c][n] < Ttl(segments[n])

(* RevocationReachesCache: once a customer lacks what a slot asks for, for  *)
(* good, that slot ends up unmet for good, if the crank keeps running.      *)
RevocationReachesCache ==
  \A c \in Subject, n \in Slot :
    <>[](~segments[n].active \/ ~Meets(c, n)) => <>[]~Satisfies(c, n)

(* HoldersAreServed: a customer who holds for good what an active slot asks *)
(* for has that slot met again and again, although anyone may overwrite the *)
(* verdict with a wrong account -- unless the owner's TTL is past the end of*)
(* time, when nobody is ever served.                                        *)
HoldersAreServed ==
  \A c \in Subject, n \in Slot :
    <>[](Refreshable(n) /\ Meets(c, n)) => []<>Satisfies(c, n)

(* VerdictsExpire: spec 12 has verdict staleness "bounded by per-segment    *)
(* TTL", state.rs calls ttl_secs the "cache TTL for this segment's verdict".*)
(* A refresh of another segment renews the expiry of all of them.           *)
VerdictsExpire ==
  \A c \in Subject, n \in Slot : Satisfies(c, n) => vouched[c][n] < Ttl(segments[n])
=============================================================================
