------------------------- MODULE TrustTriangleProofs ------------------------
(***************************************************************************)
(* Proofs about the trust triangle: an automatic freeze always rests on a  *)
(* failing streak as old as the grace window, and a healthy check, an      *)
(* anchoring or a manual restore always buys a whole window.               *)
(***************************************************************************)
EXTENDS TrustTriangle, TLAPS

(* Ages grow within their bound and never overtake one another.             *)
LEMMA OlderAges ==
  ASSUME NEW a \in Age \cup {NoAge}, NEW b \in Age, NEW g \in Age
  PROVE  /\ Older(a) \in Age \cup {NoAge} /\ Older(b) \in Age
         /\ a # NoAge => Older(a) # NoAge
         /\ a <= b => Older(a) <= Older(b)
         /\ a >= g => Older(a) >= g
  BY TriangleAssumption DEF Older, Age, NoAge

(* Replacing the time left of an edge keeps its layout.                     *)
LEMMA EdgeUpdates ==
  ASSUME NEW e \in Edge, NEW l \in Age \cup {NoAge}
  PROVE  [e EXCEPT !.life = l] \in Edge
  BY DEF Edge

(* A revoked edge is still an edge.                                         *)
LEMMA EdgeRevoked ==
  ASSUME NEW e \in Edge
  PROVE  [e EXCEPT !.status = "REVOKED"] \in Edge
  BY DEF Edge

(* So does replacing an anchor's streak, which leaves its terms alone.      *)
LEMMA AnchorUpdates ==
  ASSUME NEW a \in Anchor, NEW f \in Age \cup {NoAge}
  PROVE  [a EXCEPT !.failingFor = f] \in Anchor /\ [a EXCEPT !.failingFor = f].terms = a.terms
  BY DEF Anchor

(* An accreditation's time left runs down to zero and stays there.          *)
LEMMA LifeRunsDown ==
  ASSUME NEW l \in Age \cup {NoAge}
  PROVE  (IF l \in {0, NoAge} THEN l ELSE l - 1) \in Age \cup {NoAge}
  BY TriangleAssumption DEF Age, NoAge

(* aegis keeps the layout of its roots and edges.                           *)
LEMMA AegisStepKeepsType ==
  ASSUME TypeOK, AegisStep
  PROVE  TypeOK'
  <1>1. ASSUME NEW r \in Root, RegisterTrustRoot(r)
        PROVE  TypeOK'
    BY <1>1 DEF RegisterTrustRoot, TypeOK
  <1>2. ASSUME NEW r \in Root, NEW active \in BOOLEAN, SetRootActive(r, active)
        PROVE  TypeOK'
    BY <1>2 DEF SetRootActive, TypeOK
  <1>3. ASSUME NEW r \in Root, NEW i \in Issuer, NEW schemas \in SUBSET Schema, NEW life \in Lives,
               AccreditIssuer(r, i, schemas, life)
        PROVE  TypeOK'
    <2>1. [status |-> "ACTIVE", schemas |-> schemas, life |-> life] \in Edge
      BY TriangleAssumption DEF Edge
    <2>2. edge' \in [Root \X Issuer -> Edge]
      BY <1>3, <2>1 DEF AccreditIssuer, TypeOK
    <2> QED
      BY <1>3, <2>2 DEF AccreditIssuer, TypeOK
  <1>4. ASSUME NEW r \in Root, NEW i \in Issuer, RevokeAccreditation(r, i)
        PROVE  TypeOK'
    <2>1. edge' \in [Root \X Issuer -> Edge]
      <3>1. [edge[<<r, i>>] EXCEPT !.status = "REVOKED"] \in Edge
        BY EdgeRevoked DEF TypeOK
      <3> QED
        BY <1>4, <3>1 DEF RevokeAccreditation, TypeOK
    <2> QED
      BY <1>4, <2>1 DEF RevokeAccreditation, TypeOK
  <1> QED
    BY <1>1, <1>2, <1>3, <1>4 DEF AegisStep

(* Every instruction on a consumer keeps the layout of its anchor.          *)
LEMMA ConsumerStepKeepsType ==
  ASSUME TypeOK, NEW c \in Consumer, AuthorityStep(c) \/ Reverify(c)
  PROVE  TypeOK'
  <1>0. 0 \in Age
    BY TriangleAssumption DEF Age
  <1>1. ASSUME NEW t \in Terms, SetTrustAnchor(c, t)
        PROVE  TypeOK'
    <2>1. anchor' \in [Consumer -> Anchor]
      BY <1>1 DEF SetTrustAnchor, TypeOK, Anchor
    <2>2. \A d \in Consumer : anchor'[d].terms.target \in Targets[d]
      BY <1>1 DEF SetTrustAnchor, TypeOK
    <2> QED
      BY <1>0, <1>1, <2>1, <2>2 DEF SetTrustAnchor, TypeOK, aegisVars
  <1>2. ASSUME NEW m \in Posture, SetMode(c, m)
        PROVE  TypeOK'
    <2>1. anchor' \in [Consumer -> Anchor] /\ \A d \in Consumer : anchor'[d].terms = anchor[d].terms
      <3>1. [anchor[c] EXCEPT !.failingFor = NoAge] \in Anchor
            /\ [anchor[c] EXCEPT !.failingFor = NoAge].terms = anchor[c].terms
        BY AnchorUpdates DEF TypeOK
      <3> QED
        BY <1>2, <3>1 DEF SetMode, TypeOK
    <2>2. sinceReset' \in [Consumer -> Age]
      BY <1>0, <1>2 DEF SetMode, TypeOK
    <2> QED
      BY <1>2, <2>1, <2>2 DEF SetMode, TypeOK, aegisVars
  <1>3. CASE CheckHealthy(c)
    <2>1. anchor' \in [Consumer -> Anchor] /\ \A d \in Consumer : anchor'[d].terms = anchor[d].terms
      BY <1>3 DEF CheckHealthy, TypeOK, Anchor
    <2>2. "NORMAL" \in Posture
      BY DEF Posture
    <2> QED
      BY <1>0, <1>3, <2>1, <2>2 DEF CheckHealthy, TypeOK, aegisVars
  <1>4. CASE CheckFailing(c)
    <2>1. StreakAfterFailure(c) \in Age
      BY <1>0 DEF StreakAfterFailure, TypeOK, Anchor
    <2>2. anchor' \in [Consumer -> Anchor] /\ \A d \in Consumer : anchor'[d].terms = anchor[d].terms
      BY <1>4, <2>1 DEF CheckFailing, TypeOK, Anchor
    <2>3. anchor[c].terms.target \in Posture
      BY DEF TypeOK, Anchor, Terms
    <2>4. /\ mode' \in [Consumer -> Posture]
          /\ byCrank' \in [Consumer -> BOOLEAN]
          /\ \A d \in Consumer : mode'[d] \in Targets[d] \cup {"NORMAL"}
      BY <1>4, <2>3 DEF CheckFailing, TypeOK
    <2> QED
      BY <1>4, <2>2, <2>4 DEF CheckFailing, TypeOK, aegisVars
  <1> QED
    BY <1>1, <1>2, <1>3, <1>4 DEF AuthorityStep, Reverify

(* Time passing keeps every age an age.                                     *)
LEMMA TickKeepsType ==
  ASSUME TypeOK, Tick
  PROVE  TypeOK'
  <1>0. 0 \in Age
    BY TriangleAssumption DEF Age
  <1>1. edge' \in [Root \X Issuer -> Edge]
    <2>1. ASSUME NEW e \in Root \X Issuer
          PROVE  [edge[e] EXCEPT !.life = IF @ \in {0, NoAge} THEN @ ELSE @ - 1] \in Edge
      <3>1. edge[e] \in Edge /\ edge[e].life \in Age \cup {NoAge}
        BY DEF TypeOK, Edge
      <3> QED
        BY <3>1, LifeRunsDown, EdgeUpdates
    <2> QED
      BY <2>1 DEF Tick
  <1>2. anchor' \in [Consumer -> Anchor] /\ \A c \in Consumer : anchor'[c].terms = anchor[c].terms
    <2>1. ASSUME NEW c \in Consumer
          PROVE  /\ [anchor[c] EXCEPT !.failingFor = Older(@)] \in Anchor
                 /\ [anchor[c] EXCEPT !.failingFor = Older(@)].terms = anchor[c].terms
      <3>1. anchor[c] \in Anchor /\ anchor[c].failingFor \in Age \cup {NoAge}
        BY DEF TypeOK, Anchor
      <3>2. Older(anchor[c].failingFor) \in Age \cup {NoAge}
        BY <1>0, <3>1, OlderAges
      <3> QED
        BY <3>1, <3>2, AnchorUpdates
    <2> QED
      BY <2>1 DEF Tick, TypeOK
  <1>3. sinceReset' \in [Consumer -> Age]
    BY OlderAges, <1>0 DEF Tick, TypeOK
  <1> QED
    BY <1>1, <1>2, <1>3 DEF Tick, TypeOK

(* TypeOK holds in every reachable state: accounts keep their layout and a  *)
(* consumer is only ever in a posture it accepts.                           *)
THEOREM TriangleTypeCorrect == Spec => []TypeOK
  <1>1. Init => TypeOK
    <2> SUFFICES ASSUME Init PROVE TypeOK
      OBVIOUS
    <2>1. 0 \in Age /\ "NORMAL" \in Posture
      BY TriangleAssumption DEF Age, Posture
    <2>2. NoEdge \in Edge
      BY DEF NoEdge, Edge
    <2>3. anchor \in [Consumer -> Anchor]
      BY DEF Init, Anchor
    <2> QED
      BY <2>1, <2>2, <2>3 DEF Init, TypeOK
  <1>2. TypeOK /\ [Next]_vars => TypeOK'
    <2>1. TypeOK /\ UNCHANGED vars => TypeOK'
      BY DEF TypeOK, vars, aegisVars, history
    <2> QED
      BY <2>1, AegisStepKeepsType, ConsumerStepKeepsType, TickKeepsType DEF Next
  <1> QED
    BY <1>1, <1>2, PTL DEF Spec
-----------------------------------------------------------------------------
(* Streaks, freezes and resets *)

TriangleInv == TypeOK /\ AutoFreezeHasStreak /\ StreakIsNewerThanReset

(* What the two invariants say of one consumer.                             *)
Backed(c) ==
  /\ (byCrank[c] /\ mode[c] # "NORMAL") =>
       /\ mode[c] = anchor[c].terms.target
       /\ anchor[c].failingFor # NoAge
       /\ anchor[c].failingFor >= anchor[c].terms.grace
  /\ anchor[c].failingFor <= sinceReset[c]

(* The invariants are that, said of every consumer.                         *)
LEMMA BackedMeansInv ==
  TriangleInv <=> TypeOK /\ \A c \in Consumer : Backed(c)
  BY DEF TriangleInv, AutoFreezeHasStreak, StreakIsNewerThanReset, Backed

(* Ages are natural numbers, and "no streak" is less than all of them.      *)
LEMMA AgesAreOrdered ==
  /\ 0 \in Age /\ NoAge <= 0 /\ NoAge \notin Age
  /\ \A a \in Age : a \in Int /\ 0 <= a /\ NoAge <= a /\ a >= 0
  BY TriangleAssumption DEF Age, NoAge

(* The components of an anchor and their types.                             *)
LEMMA AnchorFields ==
  ASSUME TypeOK, NEW c \in Consumer
  PROVE  /\ anchor[c].failingFor \in Age \cup {NoAge} /\ sinceReset[c] \in Age
         /\ anchor[c].terms.grace \in Age
         /\ anchor[c] \in Anchor
  <1>1. anchor[c] \in Anchor /\ sinceReset[c] \in Age
    BY DEF TypeOK
  <1>2. anchor[c].failingFor \in Age \cup {NoAge} /\ anchor[c].terms \in Terms
    BY <1>1 DEF Anchor
  <1>3. anchor[c].terms.grace \in Age
    BY <1>2, TriangleAssumption DEF Terms
  <1> QED
    BY <1>1, <1>2, <1>3

(* A step about one consumer leaves the others backed as they were.         *)
LEMMA OtherConsumers ==
  ASSUME TypeOK, NEW c \in Consumer, AuthorityStep(c) \/ Reverify(c),
         NEW d \in Consumer, d # c, Backed(d)
  PROVE  Backed(d)'
  <1>1. /\ anchor'[d] = anchor[d] /\ mode'[d] = mode[d]
        /\ sinceReset'[d] = sinceReset[d] /\ byCrank'[d] = byCrank[d]
    BY DEF AuthorityStep, SetTrustAnchor, SetMode, Reverify, CheckHealthy, CheckFailing, TypeOK
  <1> QED
    BY <1>1 DEF Backed

(* The consumer a step is about is backed after it.                         *)
LEMMA SameConsumer ==
  ASSUME TypeOK, NEW c \in Consumer, AuthorityStep(c) \/ Reverify(c), Backed(c)
  PROVE  Backed(c)'
  <1> USE AnchorFields, AgesAreOrdered
  <1>1. ASSUME NEW t \in Terms, SetTrustAnchor(c, t)
        PROVE  Backed(c)'
    <2>1. anchor'[c].failingFor = NoAge /\ sinceReset'[c] = 0 /\ byCrank'[c] = FALSE
      BY <1>1 DEF SetTrustAnchor, TypeOK
    <2> QED
      BY <2>1 DEF Backed
  <1>2. ASSUME NEW m \in Posture, SetMode(c, m)
        PROVE  Backed(c)'
    <2>1. byCrank'[c] = FALSE
      BY <1>2 DEF SetMode, TypeOK
    <2>2. \/ anchor'[c].failingFor = NoAge /\ sinceReset'[c] = 0
          \/ anchor'[c] = anchor[c] /\ sinceReset'[c] = sinceReset[c]
      BY <1>2 DEF SetMode, TypeOK, Anchor
    <2> QED
      BY <2>1, <2>2 DEF Backed
  <1>3. CASE CheckHealthy(c)
    <2>1. anchor'[c].failingFor = NoAge /\ sinceReset'[c] = 0 /\ mode'[c] = "NORMAL"
      BY <1>3 DEF CheckHealthy, TypeOK, Anchor
    <2> QED
      BY <2>1 DEF Backed
  <1>4. CASE CheckFailing(c)
    <2>1. /\ anchor'[c].failingFor = StreakAfterFailure(c)
          /\ anchor'[c].terms = anchor[c].terms /\ sinceReset'[c] = sinceReset[c]
      BY <1>4 DEF CheckFailing, TypeOK, Anchor
    <2>2. /\ StreakAfterFailure(c) \in Age /\ StreakAfterFailure(c) # NoAge
          /\ StreakAfterFailure(c) <= sinceReset[c]
          /\ anchor[c].failingFor # NoAge => StreakAfterFailure(c) = anchor[c].failingFor
      BY DEF StreakAfterFailure, Backed
    <2>3. CASE StreakAfterFailure(c) >= anchor[c].terms.grace
      <3>1. mode'[c] = anchor[c].terms.target
        BY <1>4, <2>3 DEF CheckFailing, TypeOK
      <3> QED
        BY <2>1, <2>2, <2>3, <3>1 DEF Backed
    <2>4. CASE ~(StreakAfterFailure(c) >= anchor[c].terms.grace)
      <3>1. mode'[c] = mode[c] /\ byCrank'[c] = byCrank[c]
        BY <1>4, <2>4 DEF CheckFailing
      <3> QED
        BY <2>1, <2>2, <3>1 DEF Backed
    <2> QED
      BY <2>3, <2>4
  <1> QED
    BY <1>1, <1>2, <1>3, <1>4 DEF AuthorityStep, Reverify

(* Time ages a streak and the reset before it alike.                        *)
LEMMA TickKeepsBacked ==
  ASSUME TypeOK, Tick, NEW c \in Consumer, Backed(c)
  PROVE  Backed(c)'
  <1>1. /\ anchor'[c].failingFor = Older(anchor[c].failingFor)
        /\ anchor'[c].terms = anchor[c].terms
        /\ sinceReset'[c] = Older(sinceReset[c])
        /\ mode' = mode /\ byCrank' = byCrank
    BY DEF Tick, TypeOK, Anchor
  <1> QED
    BY <1>1, AnchorFields, OlderAges, AgesAreOrdered DEF Backed

(* TriangleInv holds in every reachable state.                              *)
THEOREM TriangleInvariant == Spec => []TriangleInv
  <1>1. Init /\ TypeOK => TriangleInv
    <2> SUFFICES ASSUME Init, TypeOK, NEW c \in Consumer PROVE Backed(c)
      BY BackedMeansInv
    <2>1. anchor[c].failingFor = NoAge /\ sinceReset[c] = 0 /\ mode[c] = "NORMAL"
      BY DEF Init
    <2> QED
      BY <2>1, AgesAreOrdered DEF Backed
  <1>2. TypeOK' /\ TriangleInv /\ [Next]_vars => TriangleInv'
    <2> SUFFICES ASSUME TypeOK', TriangleInv, [Next]_vars, NEW c \in Consumer
                 PROVE  Backed(c)'
      BY DEF TriangleInv, AutoFreezeHasStreak, StreakIsNewerThanReset, Backed
    <2>0. TypeOK /\ \A d \in Consumer : Backed(d)
      BY BackedMeansInv
    <2>1. CASE AegisStep \/ UNCHANGED vars
      <3>1. UNCHANGED <<anchor, mode, sinceReset, byCrank>>
        BY <2>1 DEF AegisStep, RegisterTrustRoot, SetRootActive, AccreditIssuer,
                    RevokeAccreditation, vars, history
      <3> QED
        BY <2>0, <3>1 DEF Backed
    <2>2. ASSUME NEW d \in Consumer, AuthorityStep(d) \/ Reverify(d)
          PROVE  Backed(c)'
      BY <2>0, <2>2, SameConsumer, OtherConsumers
    <2>3. CASE Tick
      BY <2>0, <2>3, TickKeepsBacked
    <2> QED
      BY <2>1, <2>2, <2>3 DEF Next
  <1> QED
    BY <1>1, <1>2, TriangleTypeCorrect, PTL DEF Spec

(* AutoFreezeHasStreak: an automatic freeze is never without the streak     *)
(* that justified it, for any consumers, grace windows and interleaving.    *)
THEOREM AutomaticFreezeIsBacked == Spec => []AutoFreezeHasStreak
  <1>1. TriangleInv => AutoFreezeHasStreak
    BY DEF TriangleInv
  <1> QED
    BY <1>1, TriangleInvariant, PTL

(* StreakIsNewerThanReset, likewise.                                        *)
THEOREM ResetsEndStreaks == Spec => []StreakIsNewerThanReset
  <1>1. TriangleInv => StreakIsNewerThanReset
    BY DEF TriangleInv
  <1> QED
    BY <1>1, TriangleInvariant, PTL

(* GraceIsGranted: every reset buys a whole grace window.                   *)
THEOREM GraceWindowIsGranted == Spec => GraceIsGranted
  <1>1. ASSUME TriangleInv, Next, NEW c \in Consumer, Degrades(c)
        PROVE  sinceReset[c] >= anchor[c].terms.grace
    <2>0. TypeOK /\ Backed(c) /\ mode'[c] # mode[c] /\ byCrank'[c]
      BY <1>1, BackedMeansInv DEF Degrades
    <2>1. PICK d \in Consumer : AuthorityStep(d) \/ Reverify(d)
      BY <1>1, <2>0 DEF Next, AegisStep, RegisterTrustRoot, SetRootActive, AccreditIssuer,
                    RevokeAccreditation, Tick
    <2>2. d = c
      BY <2>0, <2>1 DEF AuthorityStep, SetTrustAnchor, SetMode, Reverify, CheckHealthy,
                        CheckFailing, TypeOK
    <2>3. CheckFailing(c) /\ StreakAfterFailure(c) >= anchor[c].terms.grace
      BY <1>1, <2>0, <2>1, <2>2
         DEF AuthorityStep, SetTrustAnchor, SetMode, Reverify, CheckHealthy, CheckFailing,
             TypeOK, Degrades
    <2> QED
      BY <2>0, <2>3, AnchorFields, AgesAreOrdered DEF StreakAfterFailure, Backed
  <1>2. TriangleInv /\ [Next]_vars =>
          [\A c \in Consumer : Degrades(c) => sinceReset[c] >= anchor[c].terms.grace]_vars
    BY <1>1
  <1> QED
    BY <1>2, TriangleInvariant, PTL DEF Spec, GraceIsGranted
=============================================================================
