-------------------------- MODULE SegmentationProofs --------------------------
(***************************************************************************)
(* What holds of the verdict caches of a merchant's segments for every     *)
(* segment set, TTL and history of aegis.                                  *)
(***************************************************************************)
EXTENDS Segmentation, AttestationsProofs

(* A cache never comes from the future; a bit of the current epoch was      *)
(* given; and with one segment, age of the verdict and time left to the     *)
(* cache add up to no more than its TTL.                                    *)
BitsAreBacked ==
  \A c \in Subject, n \in Slot :
    cache[c].epoch = epoch /\ n \in cache[c].verdicts =>
      segments[n].active /\ vouched[c][n] # NoAge

LoneBitsAge ==
  \A c \in Subject, n \in Slot :
    /\ ActiveSlots = {n}
    /\ cache[c].epoch = epoch /\ n \in cache[c].verdicts /\ cache[c].left > 0
    => vouched[c][n] + cache[c].left <= Ttl(segments[n])

CacheBounds == \A c \in Subject : cache[c].epoch <= epoch

SegmentInv == AegisInv /\ TypeOK /\ CacheBounds /\ BitsAreBacked /\ LoneBitsAge

LEMMA TtlIsPositive ==
  ASSUME NEW seg \in Segment
  PROVE  Ttl(seg) \in Nat \ {0}
<1>1. seg.ttl \in Nat
  BY DEF Segment
<1> QED
  BY <1>1, SegmentationAssumption DEF Ttl

LEMMA NoSegmentIsSegment == NoSegment \in Segment
BY AttestationsAssumption, SegmentationAssumption DEF NoSegment, Segment

-----------------------------------------------------------------------------
(* Setting the segments: the new epoch is ahead of every cache.             *)
LEMMA SetKeepsInv ==
  ASSUME SegmentInv, NEW set \in Sets, SetMerchantSegments(set)
  PROVE  SegmentInv'
<1>1. /\ epoch \in Nat /\ epoch' = epoch + 1 /\ epoch' \in 0 .. MaxEpoch
      /\ segments' = set /\ cache' = cache /\ vouched' = NeverVouched
      /\ UNCHANGED aegisVars
  BY SegmentationAssumption DEF SegmentInv, TypeOK, SetMerchantSegments
<1>2. AegisInv'
  BY <1>1, AegisStepKeepsInv DEF SegmentInv
<1>3. set \in [Slot -> Segment]
  BY SegmentationAssumption
<1>4. \A c \in Subject : cache[c].epoch \in Nat /\ cache[c].epoch <= epoch
  BY DEF SegmentInv, TypeOK, CacheBounds
<1>5. \A c \in Subject : cache'[c].epoch < epoch'
  BY <1>1, <1>4
<1>6. NeverVouched \in [Subject -> [Slot -> 0 .. MaxTtl \cup {NoAge}]]
  BY DEF NeverVouched
<1>7. TypeOK'
  BY <1>1, <1>2, <1>3, <1>6 DEF SegmentInv, TypeOK, AegisInv
<1>8. CacheBounds'
  BY <1>1, <1>3, <1>4 DEF CacheBounds
<1>9. BitsAreBacked' /\ LoneBitsAge'
  <2>1. \A c \in Subject : cache'[c].epoch # epoch'
    BY <1>1, <1>4
  <2> QED
    BY <2>1 DEF BitsAreBacked, LoneBitsAge
<1> QED
  BY <1>2, <1>7, <1>8, <1>9 DEF SegmentInv

(* A refresh writes one cache whole and one bit of it anew.                 *)
LEMMA RefreshKeepsInv ==
  ASSUME SegmentInv, NEW c \in Subject, NEW n \in Slot, NEW canonical \in BOOLEAN,
         Refresh(c, n, canonical)
  PROVE  SegmentInv'
<1> DEFINE ok == canonical /\ Meets(c, n)
           bits == (KnownVerdicts(c) \ {n}) \cup (IF ok THEN {n} ELSE {})
           left == Ttl(segments[n])
<1>0. /\ cache \in [Subject -> [verdicts : SUBSET Slot, epoch : 0 .. MaxEpoch, left : 0 .. MaxTtl]]
      /\ segments \in [Slot -> Segment] /\ epoch \in 0 .. MaxEpoch
      /\ vouched \in [Subject -> [Slot -> 0 .. MaxTtl \cup {NoAge}]]
      /\ MaxTtl \in Nat /\ MaxEpoch \in Nat
  BY SegmentationAssumption DEF SegmentInv, TypeOK
<1>1. /\ segments[n].active /\ left <= MaxTtl
      /\ cache' = [cache EXCEPT ![c] = [verdicts |-> bits, epoch |-> epoch, left |-> left]]
      /\ vouched' = [vouched EXCEPT ![c][n] = IF ok THEN 0 ELSE NoAge]
      /\ UNCHANGED <<issuer, att, policy, grantor, segments, epoch>>
  BY DEF Refresh, Refreshable, aegisVars
<1>2. left \in 1 .. MaxTtl
  BY <1>0, <1>1, TtlIsPositive
<1>3. KnownVerdicts(c) \subseteq Slot
  BY <1>0 DEF KnownVerdicts
<1>4. bits \subseteq Slot /\ (n \in bits <=> ok)
  BY <1>3
<1>5. /\ \A m \in Slot : m # n /\ m \in bits => cache[c].epoch = epoch /\ m \in cache[c].verdicts
      /\ \A m \in Slot : m # n => vouched'[c][m] = vouched[c][m]
      /\ vouched'[c][n] = IF ok THEN 0 ELSE NoAge
  BY <1>0, <1>1 DEF KnownVerdicts
<1> HIDE DEF ok, bits, left
<1>6. AegisInv'
  BY <1>1, AegisStepKeepsInv DEF SegmentInv, aegisVars
<1>7. TypeOK'
  <2>1. [verdicts |-> bits, epoch |-> epoch, left |-> left]
          \in [verdicts : SUBSET Slot, epoch : 0 .. MaxEpoch, left : 0 .. MaxTtl]
    BY <1>0, <1>2, <1>4
  <2>2. vouched' \in [Subject -> [Slot -> 0 .. MaxTtl \cup {NoAge}]]
    BY <1>0, <1>1
  <2>3. cache' \in [Subject -> [verdicts : SUBSET Slot, epoch : 0 .. MaxEpoch, left : 0 .. MaxTtl]]
    BY <1>0, <1>1, <2>1
  <2> QED
    BY <1>0, <1>1, <1>6, <2>2, <2>3 DEF TypeOK, AegisInv
<1>8. /\ \A d \in Subject : d # c => cache'[d] = cache[d] /\ vouched'[d] = vouched[d]
      /\ cache'[c].verdicts = bits /\ cache'[c].epoch = epoch /\ cache'[c].left = left
  BY <1>0, <1>1
<1>9. CacheBounds'
  BY <1>0, <1>1, <1>8 DEF SegmentInv, CacheBounds
<1>10. BitsAreBacked'
  <2> SUFFICES ASSUME NEW d \in Subject, NEW m \in Slot,
                      cache'[d].epoch = epoch', m \in cache'[d].verdicts
               PROVE  segments'[m].active /\ vouched'[d][m] # NoAge
    BY DEF BitsAreBacked
  <2>1. CASE d # c
    BY <1>1, <1>8, <2>1 DEF SegmentInv, BitsAreBacked
  <2>2. CASE d = c /\ m # n
    BY <1>1, <1>5, <1>8, <2>2 DEF SegmentInv, BitsAreBacked
  <2>3. CASE d = c /\ m = n
    <3>1. ok /\ vouched'[c][n] = 0
      BY <1>4, <1>5, <1>8, <2>3
    <3> QED
      BY <1>1, <2>3, <3>1 DEF NoAge
  <2> QED
    BY <2>1, <2>2, <2>3
<1>11. LoneBitsAge'
  <2> SUFFICES ASSUME NEW d \in Subject, NEW m \in Slot, ActiveSlots' = {m},
                      cache'[d].epoch = epoch', m \in cache'[d].verdicts, cache'[d].left > 0
               PROVE  vouched'[d][m] + cache'[d].left <= Ttl(segments'[m])
    BY DEF LoneBitsAge
  <2>1. ActiveSlots = {m}
    BY <1>1 DEF ActiveSlots
  <2>2. CASE d # c
    BY <1>1, <1>8, <2>1, <2>2 DEF SegmentInv, LoneBitsAge
  <2>3. CASE d = c
    <3>1. m = n
      BY <1>1, <2>1 DEF ActiveSlots
    <3>2. vouched'[c][n] = 0
      BY <1>4, <1>5, <1>8, <2>3, <3>1
    <3> QED
      BY <1>1, <1>2, <1>8, <2>3, <3>1, <3>2 DEF left
  <2> QED
    BY <2>2, <2>3
<1> QED
  BY <1>6, <1>7, <1>9, <1>10, <1>11 DEF SegmentInv

(* Time wears out caches and verdicts alike.                                *)
LEMMA TickKeepsInv ==
  ASSUME SegmentInv, Tick
  PROVE  SegmentInv'
<1>0. /\ cache \in [Subject -> [verdicts : SUBSET Slot, epoch : 0 .. MaxEpoch, left : 0 .. MaxTtl]]
      /\ segments \in [Slot -> Segment] /\ epoch \in 0 .. MaxEpoch
      /\ vouched \in [Subject -> [Slot -> 0 .. MaxTtl \cup {NoAge}]]
      /\ MaxTtl \in Nat
  BY SegmentationAssumption DEF SegmentInv, TypeOK
<1>1. AegisInv'
  BY AegisStepKeepsInv DEF SegmentInv, Tick, AegisNext
<1>2. \A c \in Subject :
        /\ cache'[c].verdicts = cache[c].verdicts /\ cache'[c].epoch = cache[c].epoch
        /\ cache'[c].left = Sooner(cache[c].left)
        /\ cache'[c] \in [verdicts : SUBSET Slot, epoch : 0 .. MaxEpoch, left : 0 .. MaxTtl]
  <2> SUFFICES ASSUME NEW c \in Subject
               PROVE  /\ cache'[c].verdicts = cache[c].verdicts /\ cache'[c].epoch = cache[c].epoch
                      /\ cache'[c].left = Sooner(cache[c].left)
                      /\ cache'[c] \in [verdicts : SUBSET Slot, epoch : 0 .. MaxEpoch, left : 0 .. MaxTtl]
    OBVIOUS
  <2>1. cache'[c] = [cache[c] EXCEPT !.left = Sooner(@)]
    BY DEF Tick
  <2>2. cache[c] \in [verdicts : SUBSET Slot, epoch : 0 .. MaxEpoch, left : 0 .. MaxTtl]
    BY <1>0
  <2>3. Sooner(cache[c].left) \in 0 .. MaxTtl
    <3>1. cache[c].left \in 0 .. MaxTtl
      BY <2>2
    <3>2. \A v \in 0 .. MaxTtl : Sooner(v) \in 0 .. MaxTtl
      BY <1>0 DEF Sooner
    <3> QED
      BY <3>1, <3>2
  <2> QED
    BY <2>1, <2>2, <2>3
<1>3. \A c \in Subject, n \in Slot : vouched'[c][n] = Later(vouched[c][n])
  BY DEF Tick
<1>4. \A c \in Subject, n \in Slot :
        /\ Later(vouched[c][n]) \in 0 .. MaxTtl \cup {NoAge}
        /\ vouched[c][n] # NoAge => Later(vouched[c][n]) # NoAge
        /\ vouched[c][n] # NoAge => Later(vouched[c][n]) <= vouched[c][n] + 1
  <2> SUFFICES ASSUME NEW v \in 0 .. MaxTtl \cup {NoAge}
               PROVE  /\ Later(v) \in 0 .. MaxTtl \cup {NoAge}
                      /\ v # NoAge => Later(v) # NoAge
                      /\ v # NoAge => Later(v) <= v + 1
    BY <1>0
  <2> QED
    BY <1>0 DEF Later, NoAge
<1>5. TypeOK'
  <2>1. cache' \in [Subject -> [verdicts : SUBSET Slot, epoch : 0 .. MaxEpoch, left : 0 .. MaxTtl]]
    BY <1>2 DEF Tick
  <2>2. vouched' \in [Subject -> [Slot -> 0 .. MaxTtl \cup {NoAge}]]
    BY <1>4 DEF Tick
  <2> QED
    BY <1>0, <1>1, <2>1, <2>2 DEF TypeOK, AegisInv, Tick
<1>6. UNCHANGED <<segments, epoch>>
  BY DEF Tick
<1>7. CacheBounds'
  BY <1>2, <1>6 DEF SegmentInv, CacheBounds
<1>8. BitsAreBacked'
  BY <1>2, <1>3, <1>4, <1>6 DEF SegmentInv, BitsAreBacked
<1>9. LoneBitsAge'
  <2> SUFFICES ASSUME NEW c \in Subject, NEW n \in Slot, ActiveSlots' = {n},
                      cache'[c].epoch = epoch', n \in cache'[c].verdicts, cache'[c].left > 0
               PROVE  vouched'[c][n] + cache'[c].left <= Ttl(segments'[n])
    BY DEF LoneBitsAge
  <2>1. cache[c].left \in 0 .. MaxTtl
    BY <1>0
  <2>2. cache[c].left > 0 /\ cache'[c].left = cache[c].left - 1
    BY <1>0, <1>2, <2>1 DEF Sooner, NoAge
  <2>3. ActiveSlots = {n} /\ cache[c].epoch = epoch /\ n \in cache[c].verdicts
    BY <1>2, <1>6 DEF ActiveSlots
  <2>4. vouched[c][n] # NoAge /\ vouched[c][n] + cache[c].left <= Ttl(segments[n])
    BY <2>2, <2>3 DEF SegmentInv, BitsAreBacked, LoneBitsAge
  <2>5. vouched[c][n] \in 0 .. MaxTtl /\ vouched'[c][n] \in 0 .. MaxTtl
        /\ vouched'[c][n] <= vouched[c][n] + 1
    BY <1>0, <1>3, <1>4, <2>4
  <2>6. Ttl(segments[n]) \in Nat \ {0}
    BY <1>0, TtlIsPositive
  <2> QED
    BY <1>0, <1>6, <2>1, <2>2, <2>4, <2>5, <2>6
<1> QED
  BY <1>1, <1>5, <1>7, <1>8, <1>9 DEF SegmentInv

(* aegis's own steps leave the merchant's accounts alone.                   *)
LEMMA AegisStepKeepsSegmentInv ==
  ASSUME SegmentInv, [AegisNext]_aegisVars, UNCHANGED segmentVars
  PROVE  SegmentInv'
<1>1. AegisInv'
  BY AegisStepKeepsInv DEF SegmentInv
<1> QED
  BY <1>1 DEF SegmentInv, segmentVars, TypeOK, AegisInv, CacheBounds, BitsAreBacked, LoneBitsAge,
              ActiveSlots

LEMMA StepKeepsSegmentInv ==
  ASSUME SegmentInv, [Next]_vars
  PROVE  SegmentInv'
<1>1. CASE AegisStep
  BY <1>1, AegisStepKeepsSegmentInv DEF AegisStep, AegisNext
<1>2. CASE UNCHANGED vars
  BY <1>2, AegisStepKeepsSegmentInv DEF vars
<1> QED
  BY <1>1, <1>2, SetKeepsInv, RefreshKeepsInv, TickKeepsInv DEF Next

LEMMA StartsInSegmentInv == Init => SegmentInv
<1> SUFFICES ASSUME Init PROVE SegmentInv
  OBVIOUS
<1>1. AegisInv
  BY AegisStartsSound DEF Init
<1>2. TypeOK
  <2>1. segments \in [Slot -> Segment]
    BY NoSegmentIsSegment DEF Init
  <2>2. NoCache \in [verdicts : SUBSET Slot, epoch : 0 .. MaxEpoch, left : 0 .. MaxTtl]
    BY SegmentationAssumption DEF NoCache
  <2>3. cache \in [Subject -> [verdicts : SUBSET Slot, epoch : 0 .. MaxEpoch, left : 0 .. MaxTtl]]
    BY <2>2 DEF Init
  <2>4. vouched \in [Subject -> [Slot -> 0 .. MaxTtl \cup {NoAge}]]
    BY DEF Init, NeverVouched
  <2> QED
    BY <1>1, <2>1, <2>3, <2>4, SegmentationAssumption DEF Init, TypeOK, AegisInv
<1>3. CacheBounds /\ BitsAreBacked /\ LoneBitsAge
  BY NoSegmentIsSegment DEF Init, CacheBounds, BitsAreBacked, LoneBitsAge, NoCache
<1> QED
  BY <1>1, <1>2, <1>3 DEF SegmentInv

(* SegmentInvariant: the inductive invariant of segment sets, caches and    *)
(* the verdicts behind them.                                                *)
THEOREM SegmentInvariant == Spec => []SegmentInv
BY StartsInSegmentInv, StepKeepsSegmentInv, PTL DEF Spec

(* SegmentsTypeCorrect: every account of the segments keeps its layout.     *)
THEOREM SegmentsTypeCorrect == Spec => []TypeOK
<1>1. SegmentInv => TypeOK
  BY DEF SegmentInv
<1> QED
  BY <1>1, SegmentInvariant, PTL

(* BitsAreVerdicts: whoever passes which account when, a segment that counts*)
(* as met was confirmed by aegis, under the set in force, in its last word. *)
THEOREM BitsAreVerdicts == Spec => []VerdictsWereGiven
<1>1. SegmentInv => VerdictsWereGiven
  BY DEF SegmentInv, BitsAreBacked, VerdictsWereGiven, Satisfies, IsFresh
<1> QED
  BY <1>1, SegmentInvariant, PTL

(* LoneVerdictsAreBounded: with one segment the TTL bounds how stale a      *)
(* verdict may be -- which fails as soon as there are two (VerdictsExpire). *)
THEOREM LoneVerdictsAreBounded == Spec => []LoneVerdictsExpire
<1>1. SegmentInv => LoneVerdictsExpire
  <2> SUFFICES ASSUME SegmentInv, NEW c \in Subject, NEW n \in Slot,
                      ActiveSlots = {n}, Satisfies(c, n)
               PROVE  vouched[c][n] < Ttl(segments[n])
    BY DEF LoneVerdictsExpire
  <2>1. cache[c].epoch = epoch /\ cache[c].left > 0 /\ n \in cache[c].verdicts
    BY DEF Satisfies, IsFresh
  <2>2. vouched[c][n] # NoAge /\ vouched[c][n] + cache[c].left <= Ttl(segments[n])
    BY <2>1 DEF SegmentInv, BitsAreBacked, LoneBitsAge
  <2>3. /\ vouched[c][n] \in 0 .. MaxTtl /\ cache[c].left \in 0 .. MaxTtl
        /\ segments[n] \in Segment
    BY <2>2 DEF SegmentInv, TypeOK
  <2>4. Ttl(segments[n]) \in Nat \ {0}
    BY <2>3, TtlIsPositive
  <2> QED
    BY <2>1, <2>2, <2>3, <2>4, SegmentationAssumption
<1> QED
  BY <1>1, SegmentInvariant, PTL

(* SegmentationRunsAegis: beside the segments aegis runs as it does alone:  *)
(* setting segments and refreshing verdicts never write its accounts, and   *)
(* time passes for both at once.                                            *)
THEOREM SegmentationRunsAegis == Spec => AegisSpec
<1>1. Init => AegisInit
  BY DEF Init
<1>2. [Next]_vars => [AegisNext]_aegisVars
  <2> SUFFICES ASSUME [Next]_vars PROVE [AegisNext]_aegisVars
    OBVIOUS
  <2>1. CASE AegisStep
    BY <2>1 DEF AegisStep, AegisNext
  <2>2. ASSUME NEW set \in Sets, SetMerchantSegments(set) PROVE UNCHANGED aegisVars
    BY <2>2 DEF SetMerchantSegments
  <2>3. ASSUME NEW c \in Subject, NEW n \in Slot, NEW canonical \in BOOLEAN, Refresh(c, n, canonical)
        PROVE  UNCHANGED aegisVars
    BY <2>3 DEF Refresh
  <2>4. CASE Tick
    BY <2>4 DEF Tick, AegisNext
  <2>5. CASE UNCHANGED vars
    BY <2>5 DEF vars
  <2> QED
    BY <2>1, <2>2, <2>3, <2>4, <2>5 DEF Next
<1> QED
  BY <1>1, <1>2, PTL DEF Spec, AegisSpec

(* AegisKeepsItsPromises: so what is proved of aegis alone holds while      *)
(* merchants read it.                                                       *)
THEOREM AegisKeepsItsPromises ==
  Spec => []OperatorServesAuthority /\ OnlyIssuersVouch /\ ReverificationNeedsReissue
BY SegmentationRunsAegis, OperatorsAreAppointed, VouchingIsTheIssuers, FreshnessIsNotRenewed, PTL
=============================================================================
