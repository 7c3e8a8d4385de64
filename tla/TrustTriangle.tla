--------------------------- MODULE TrustTriangle ----------------------------
(***************************************************************************)
(* The trust triangle: aegis trust roots accredit issuers, and two         *)
(* consumers stake a posture on that -- the argus guard its degrade_mode   *)
(* (trust.rs), the vesta_core merchant its issue_status (merchant_trust.rs,*)
(* "a near-verbatim port").  A permissionless crank asks aegis whether the *)
(* named issuer is still accredited; a failing streak that outlives the    *)
(* grace window degrades the consumer, a healthy answer restores it, and   *)
(* the owning authority may override either.                               *)
(*                                                                         *)
(* Only elapsed time is ever compared, so an instant is kept as its age,   *)
(* capped where nothing can tell it from an older one; a zero timestamp    *)
(* ("healthy", "never expires") is NoAge.                                  *)
(***************************************************************************)
EXTENDS Integers

CONSTANTS
  Consumer,   \* the anchored parties: one guard, one merchant, ...
  Targets,    \* degraded postures valid for each consumer
  Root, Issuer, Schema,   \* aegis trust roots, issuers, credential schemas
  Graces,     \* grace windows in play
  Lives,      \* validity periods of an accreditation, NoAge among them for "no expiry"
  MaxAge      \* bound: ages are told apart up to here

NoAge == -1
Age == 0 .. MaxAge
Posture == (UNION {Targets[c] : c \in Consumer}) \cup {"NORMAL"}

ASSUME TriangleAssumption ==
  /\ MaxAge \in Nat
  /\ Graces \subseteq Age
  /\ Lives \subseteq (Age \cup {NoAge}) \ {0}
  /\ DOMAIN Targets = Consumer /\ \A c \in Consumer : "NORMAL" \notin Targets[c]

VARIABLES
  root,       \* TrustRoot: absent, active or inactive
  edge,       \* Accreditation by root and issuer: status, schemas, time left
  anchor,     \* TrustAnchor / MerchantTrust by consumer
  mode,       \* GuardConfig.degrade_mode / Merchant.issue_status
  sinceReset, \* history: time since a healthy check, an anchoring or a manual restore
  byCrank     \* history: whether the crank wrote the current posture under this anchor

aegisVars == <<root, edge>>
history == <<sinceReset, byCrank>>
vars == <<aegisVars, anchor, mode, history>>

NoEdge == [status |-> "NONE", schemas |-> {}, life |-> NoAge]

Edge == [status : {"NONE", "ACTIVE", "REVOKED"}, schemas : SUBSET Schema, life : Age \cup {NoAge}]

Terms == [root : Root, issuer : Issuer, schema : Schema, target : Posture, grace : Graces]

Anchor == [terms : Terms, failingFor : Age \cup {NoAge}]

(* TypeOK: the declared layout of the accounts and of the history.          *)
TypeOK ==
  /\ root \in [Root -> {"absent", "active", "inactive"}]
  /\ edge \in [Root \X Issuer -> Edge]
  /\ anchor \in [Consumer -> Anchor]
  /\ mode \in [Consumer -> Posture]
  /\ \A c \in Consumer : /\ mode[c] \in Targets[c] \cup {"NORMAL"}
                         /\ anchor[c].terms.target \in Targets[c]
  /\ sinceReset \in [Consumer -> Age]
  /\ byCrank \in [Consumer -> BOOLEAN]

-----------------------------------------------------------------------------
(* Helpers *)

Older(age) == IF age = NoAge \/ age = MaxAge THEN age ELSE age + 1

(* verify_accreditation: an active root, a live edge, a permitted schema.   *)
IsLive(e) == e.status = "ACTIVE" /\ e.life # 0

Accredited(t) ==
  /\ root[t.root] = "active"
  /\ IsLive(edge[<<t.root, t.issuer>>])
  /\ t.schema \in edge[<<t.root, t.issuer>>].schemas

Ok(c) == Accredited(anchor[c].terms)

-----------------------------------------------------------------------------
(* Faulty variants: what a slip in one handler would look like.             *)

StreakAfterFailureAnew(c) == 0

CheckHealthyNeverRestores(c) ==
  /\ Ok(c)
  /\ anchor' = [anchor EXCEPT ![c].failingFor = NoAge]
  /\ sinceReset' = [sinceReset EXCEPT ![c] = 0]
  /\ UNCHANGED <<aegisVars, mode, byCrank>>

SetModeKeepsStreak(c, m) ==
  /\ mode' = [mode EXCEPT ![c] = m]
  /\ sinceReset' = IF m = "NORMAL" THEN [sinceReset EXCEPT ![c] = 0] ELSE sinceReset
  /\ byCrank' = [byCrank EXCEPT ![c] = FALSE]
  /\ UNCHANGED <<aegisVars, anchor>>

-----------------------------------------------------------------------------
(* aegis *)

RegisterTrustRoot(r) ==
  /\ root[r] = "absent"
  /\ root' = [root EXCEPT ![r] = "active"]
  /\ UNCHANGED <<edge, anchor, mode, sinceReset, byCrank>>

SetRootActive(r, active) ==
  /\ root[r] # "absent"
  /\ root' = [root EXCEPT ![r] = IF active THEN "active" ELSE "inactive"]
  /\ UNCHANGED <<edge, anchor, mode, sinceReset, byCrank>>

(* accredit_issuer creates the account, which nothing ever closes: a root   *)
(* accredits an issuer once.                                                *)
AccreditIssuer(r, i, schemas, life) ==
  /\ root[r] = "active"
  /\ edge[<<r, i>>].status = "NONE"
  /\ schemas # {}
  /\ edge' = [edge EXCEPT ![<<r, i>>] = [status |-> "ACTIVE", schemas |-> schemas, life |-> life]]
  /\ UNCHANGED <<root, anchor, mode, sinceReset, byCrank>>

RevokeAccreditation(r, i) ==
  /\ root[r] # "absent"
  /\ edge[<<r, i>>].status # "NONE"
  /\ edge' = [edge EXCEPT ![<<r, i>>].status = "REVOKED"]
  /\ UNCHANGED <<root, anchor, mode, sinceReset, byCrank>>

-----------------------------------------------------------------------------
(* The consumers *)

(* set_trust_anchor / set_merchant_trust, by the owning authority: clears   *)
(* the streak, and leaves the posture as it was.                            *)
SetTrustAnchor(c, t) ==
  /\ t.target \in Targets[c]
  /\ anchor' = [anchor EXCEPT ![c] = [terms |-> t, failingFor |-> NoAge]]
  /\ sinceReset' = [sinceReset EXCEPT ![c] = 0]
  /\ byCrank' = [byCrank EXCEPT ![c] = FALSE]
  /\ UNCHANGED <<aegisVars, mode>>

(* A failing check begins the streak or continues it.                       *)
StreakAfterFailure(c) == IF anchor[c].failingFor = NoAge THEN 0 ELSE anchor[c].failingFor

(* reverify_accreditation / reverify_merchant, callable by anyone: a healthy*)
(* answer clears the streak and restores the posture ...                    *)
CheckHealthy(c) ==
  /\ Ok(c)
  /\ anchor' = [anchor EXCEPT ![c].failingFor = NoAge]
  /\ mode' = [mode EXCEPT ![c] = "NORMAL"]
  /\ sinceReset' = [sinceReset EXCEPT ![c] = 0]
  /\ byCrank' = [byCrank EXCEPT ![c] = TRUE]
  /\ UNCHANGED aegisVars

(* ... and a failing one degrades once the streak has lasted the window.    *)
CheckFailing(c) ==
  /\ ~Ok(c)
  /\ anchor' = [anchor EXCEPT ![c].failingFor = StreakAfterFailure(c)]
  /\ IF StreakAfterFailure(c) >= anchor[c].terms.grace
       THEN /\ mode' = [mode EXCEPT ![c] = anchor[c].terms.target]
            /\ byCrank' = [byCrank EXCEPT ![c] = TRUE]
       ELSE UNCHANGED <<mode, byCrank>>
  /\ UNCHANGED <<aegisVars, sinceReset>>

Reverify(c) == CheckHealthy(c) \/ CheckFailing(c)

(* set_degrade_mode / set_merchant_issue_status, by the owning authority.   *)
SetMode(c, m) ==
  /\ m \in Targets[c] \cup {"NORMAL"}
  /\ mode' = [mode EXCEPT ![c] = m]
  /\ byCrank' = [byCrank EXCEPT ![c] = FALSE]
  /\ IF m = "NORMAL"
       THEN /\ anchor' = [anchor EXCEPT ![c].failingFor = NoAge]
            /\ sinceReset' = [sinceReset EXCEPT ![c] = 0]
       ELSE UNCHANGED <<anchor, sinceReset>>
  /\ UNCHANGED aegisVars

(* A unit of time: accreditations run out, streaks last longer.             *)
Tick ==
  /\ edge' = [e \in Root \X Issuer |->
                [edge[e] EXCEPT !.life = IF @ \in {0, NoAge} THEN @ ELSE @ - 1]]
  /\ anchor' = [c \in Consumer |-> [anchor[c] EXCEPT !.failingFor = Older(@)]]
  /\ sinceReset' = [c \in Consumer |-> Older(sinceReset[c])]
  /\ UNCHANGED <<root, mode, byCrank>>

-----------------------------------------------------------------------------
(* Each consumer has just adopted an anchor: without one it has no account  *)
(* the instructions here could act on, and its posture stays NORMAL.        *)
Init ==
  /\ root = [r \in Root |-> "absent"]
  /\ edge = [e \in Root \X Issuer |-> NoEdge]
  /\ anchor \in [Consumer -> [terms : Terms, failingFor : {NoAge}]]
  /\ \A c \in Consumer : anchor[c].terms.target \in Targets[c]
  /\ mode = [c \in Consumer |-> "NORMAL"]
  /\ sinceReset = [c \in Consumer |-> 0]
  /\ byCrank = [c \in Consumer |-> FALSE]

AegisStep ==
  \E r \in Root :
    \/ RegisterTrustRoot(r)
    \/ \E active \in BOOLEAN : SetRootActive(r, active)
    \/ \E i \in Issuer :
         \/ \E schemas \in SUBSET Schema, life \in Lives : AccreditIssuer(r, i, schemas, life)
         \/ RevokeAccreditation(r, i)

AuthorityStep(c) ==
  \/ \E t \in Terms : SetTrustAnchor(c, t)
  \/ \E m \in Posture : SetMode(c, m)

Next == AegisStep \/ (\E c \in Consumer : AuthorityStep(c) \/ Reverify(c)) \/ Tick

Spec == Init /\ [][Next]_vars

(* The clock advances, and somebody keeps cranking every anchor: nothing in *)
(* the programs does, the crank is open to anyone so that somebody can.     *)
FairSpec == Spec /\ WF_vars(Tick) /\ \A c \in Consumer : WF_vars(Reverify(c))

-----------------------------------------------------------------------------
(* Properties *)

(* AutoFreezeHasStreak: a posture the crank imposed, and no authority has    *)
(* touched since, is backed by an open failing streak as old as the grace    *)
(* window and is the anchor's own target.                                    *)
AutoFreezeHasStreak ==
  \A c \in Consumer :
    (byCrank[c] /\ mode[c] # "NORMAL") =>
      /\ mode[c] = anchor[c].terms.target
      /\ anchor[c].failingFor # NoAge
      /\ anchor[c].failingFor >= anchor[c].terms.grace

(* StreakIsNewerThanReset: no streak reaches back before the last healthy    *)
(* check, (re-)anchoring or manual restore.                                  *)
StreakIsNewerThanReset ==
  \A c \in Consumer : anchor[c].failingFor <= sinceReset[c]

Degrades(c) == mode[c] = "NORMAL" /\ mode'[c] # "NORMAL" /\ byCrank'[c]

(* GraceIsGranted: whatever aegis, the cranks and the authority interleave,  *)
(* an automatic degrade comes a whole grace window after the last healthy    *)
(* check, anchoring or manual restore of that consumer.                      *)
GraceIsGranted ==
  [][\A c \in Consumer : Degrades(c) => sinceReset[c] >= anchor[c].terms.grace]_vars

(* RevocationBites: when the chain fails for good and the authority stops    *)
(* intervening, the consumer ends up degraded and stays so.                  *)
RevocationBites ==
  \A c \in Consumer :
    (<>[](~Ok(c)) /\ <>[][~AuthorityStep(c)]_vars) => <>[](mode[c] # "NORMAL")

(* RecoveryRestores: when the chain holds for good and the authority stops   *)
(* intervening, the consumer ends up NORMAL and stays so.                    *)
RecoveryRestores ==
  \A c \in Consumer :
    (<>[]Ok(c) /\ <>[][~AuthorityStep(c)]_vars) => <>[](mode[c] = "NORMAL")
=============================================================================
