------------------------- MODULE TransferGuardProofs ------------------------
(***************************************************************************)
(* Proofs about the transfer hook: that its lazily rolled counters are a   *)
(* true account of what a wallet gave, and that its cached eligibility     *)
(* verdicts never outlive what they were a verdict about.                  *)
(***************************************************************************)
EXTENDS TransferGuard, TLAPS

(* Days never run backwards, and a clock past one day shows day 1 or later. *)
LEMMA DayArithmetic ==
  ASSUME NEW t \in Nat, NEW d \in Nat \ {0}
  PROVE  /\ t \div d \in Nat
         /\ t \div d <= (t + 1) \div d
         /\ t >= d => t \div d >= 1
  BY Z3

(* A lifetime is a natural number: installed documents have no negative one.*)
LEMMA TtlIsNat ==
  ASSUME NEW d \in Docs, Acceptable(d)
  PROVE  Ttl(d) \in Nat
  BY GuardAssumption DEF Ttl, Acceptable, Installable, PolicyDoc

(* What a document asks aegis about is something aegis can certify.         *)
LEMMA RequirementIsCertifiable ==
  ASSUME NEW d \in Docs
  PROVE  RequirementOf(d) \in Requirement
  BY GuardAssumption DEF RequirementOf

(* A transfer out of any account counts in the state of some wallet.        *)
LEMMA HolderIsOwner ==
  ASSUME NEW a \in Owner \cup {Treasury}
  PROVE  Holder(a) \in Owner
  BY GuardAssumption DEF Holder

(* The counter that sticks never exceeds what it counts, nor the width of a *)
(* document's limit on it.                                                  *)
LEMMA SaturatedCounts ==
  ASSUME NEW n \in Nat
  PROVE  /\ Saturated(n) \in Nat
         /\ Saturated(Saturated(n) + 1) = Saturated(n + 1)
         /\ \A limit \in Nat : limit <= MaxCount /\ Saturated(n) < limit => n < limit
  BY GuardAssumption DEF Saturated

(* Moving tokens between two accounts leaves no balance negative.           *)
LEMMA MovedType ==
  ASSUME TypeOK, NEW src \in Owner \cup {Treasury}, NEW dst \in Owner \cup {Treasury},
         NEW n \in Nat, n <= balance[src], src # dst, Moved(src, dst, n)
  PROVE  balance' \in [Owner \cup {Treasury} -> Nat]
  BY DEF TypeOK, Moved

(* Rolling a wallet state to the current day keeps its layout.              *)
LEMMA RolledType ==
  ASSUME TypeOK, NEW w \in WalletState
  PROVE  /\ Today \in Nat
         /\ Rolled(w) \in WalletState
         /\ Rolled(w).open = w.open
         /\ Rolled(w).lastAt = w.lastAt
  <1>1. Today \in Nat
    BY DayArithmetic, GuardAssumption DEF Today, TypeOK
  <1> QED
    BY <1>1 DEF Rolled, WalletState

(* Replacing the counters of a wallet state keeps its layout.               *)
LEMMA WalletUpdateType ==
  ASSUME NEW w \in WalletState, NEW x \in Nat, NEW y \in Nat, NEW t \in Nat
  PROVE  [w EXCEPT !.sentToday = x, !.transfersToday = y, !.lastAt = t] \in WalletState
  BY DEF WalletState

(* The commit at the end of execute keeps the layout of a wallet state.     *)
LEMMA CommitType ==
  ASSUME NEW w \in WalletState, NEW n \in Nat, NEW t \in Nat
  PROVE  [w EXCEPT !.sentToday = @ + n, !.transfersToday = Saturated(@ + 1), !.lastAt = t]
           \in WalletState
  <1>0. w.sentToday + n \in Nat /\ w.transfersToday + 1 \in Nat
    BY DEF WalletState
  <1>1. w.sentToday + n \in Nat /\ Saturated(w.transfersToday + 1) \in Nat
    BY <1>0, SaturatedCounts
  <1> QED
    BY <1>1, WalletUpdateType

(* Gift, rules 3-13: every counter it writes is a natural number.           *)
LEMMA GiftKeepsType ==
  ASSUME TypeOK, NEW src \in Owner \cup {Treasury}, NEW dst \in Owner, NEW n \in 1 .. MaxAmount,
         Gift(src, dst, n)
  PROVE  TypeOK'
  <1> DEFINE h == Holder(src)
             w == Rolled(wallet[h])
  <1>1. n \in Nat /\ h \in Owner
    BY GuardAssumption, HolderIsOwner
  <1>2. w \in WalletState
    BY <1>1, RolledType DEF TypeOK
  <1>3. /\ wallet' = [wallet EXCEPT ![h] = [w EXCEPT !.sentToday = @ + n,
                                            !.transfersToday = Saturated(@ + 1), !.lastAt = now]]
        /\ gifted' = [gifted EXCEPT ![h] = [volume |-> @.volume + n, count |-> @.count + 1,
                                            lastAt |-> now]]
    BY DEF Gift
  <1> HIDE DEF h, w
  <1>4. wallet' \in [Owner -> WalletState]
    <2>1. [w EXCEPT !.sentToday = @ + n, !.transfersToday = Saturated(@ + 1), !.lastAt = now]
            \in WalletState
      BY <1>1, <1>2, CommitType DEF TypeOK
    <2> QED
      BY <1>3, <2>1 DEF TypeOK
  <1>5. balance' \in [Owner \cup {Treasury} -> Nat]
    BY <1>1, MovedType DEF Gift
  <1>6. gifted' \in [Owner -> [volume : Nat, count : Nat, lastAt : Nat]]
    BY <1>1, <1>3 DEF TypeOK
  <1>7. UNCHANGED <<config, listed, capability, credential, eligible, now>>
    BY DEF Gift, policyVars
  <1> QED
    BY <1>4, <1>5, <1>6, <1>7 DEF TypeOK

(* TokenStep: issuing, opening a wallet state, and every transfer.          *)
LEMMA TokenStepKeepsType ==
  ASSUME TypeOK, TokenStep
  PROVE  TypeOK'
  <1> USE GuardAssumption
  <1>1. ASSUME NEW o \in Owner, Issue(o)
        PROVE  TypeOK'
    BY <1>1 DEF Issue, TypeOK, policyVars
  <1>2. ASSUME NEW o \in Owner, OpenWalletState(o)
        PROVE  TypeOK'
    BY <1>2 DEF OpenWalletState, TypeOK, policyVars, NotOpened, WalletState
  <1>3. ASSUME NEW src \in Owner \cup {Treasury}, NEW dst \in Owner \cup {Treasury},
               NEW by \in {"holder", "delegate"}, NEW n \in 0 .. MaxAmount,
               PlainTransfer(src, dst, by, n)
        PROVE  TypeOK'
    <2>0. n \in Nat
      OBVIOUS
    <2>1. balance' \in [Owner \cup {Treasury} -> Nat]
      BY <1>3, <2>0, MovedType DEF PlainTransfer
    <2> QED
      BY <1>3, <2>1 DEF PlainTransfer, TypeOK, policyVars
  <1> QED
    BY <1>1, <1>2, <1>3, GiftKeepsType DEF TokenStep

(* PolicyStep: only a coherent document goes live, and epochs only grow.    *)
LEMMA PolicyStepKeepsType ==
  ASSUME TypeOK, PolicyStep
  PROVE  TypeOK'
  <1>1. ASSUME NEW d \in Docs, ConfigurePolicy(d)
        PROVE  TypeOK'
    <2>0. config \in Config /\ config.policyEpoch + 1 \in Nat
      BY DEF TypeOK, Config
    <2>1. config' \in Config /\ config'.doc = d
      BY <1>1, <2>0 DEF ConfigurePolicy, Config
    <2>2. eligible' \subseteq Owner
      BY <1>1 DEF ConfigurePolicy
    <2> QED
      BY <1>1, <2>1, <2>2 DEF ConfigurePolicy, TypeOK, tokenVars, Acceptable
  <1>2. CASE BumpScreeningEpoch
    BY <1>2 DEF BumpScreeningEpoch, TypeOK, tokenVars, Config, Acceptable
  <1>3. ASSUME NEW p \in Pauses, SetGuardPaused(p)
        PROVE  TypeOK'
    <2>1. p \in BOOLEAN /\ config \in Config
      BY GuardAssumption DEF TypeOK
    <2>2. config' \in Config /\ config'.doc = config.doc
      BY <1>3, <2>1 DEF SetGuardPaused, Config
    <2> QED
      BY <1>3, <2>2 DEF SetGuardPaused, TypeOK, tokenVars, Acceptable
  <1>4. ASSUME NEW mode \in Postures, SetDegradeMode(mode)
        PROVE  TypeOK'
    BY <1>4 DEF SetDegradeMode, TypeOK, tokenVars, Config, Acceptable
  <1> QED
    BY <1>1, <1>2, <1>3, <1>4 DEF PolicyStep

(* SubjectStep: what is written about one owner has its declared layout.    *)
LEMMA SubjectStepKeepsType ==
  ASSUME TypeOK, NEW o \in Subjects, SubjectStep(o)
  PROVE  TypeOK'
  <1> USE GuardAssumption
  <1>1. CASE RefreshEligibility(o)
    <2>1. PICK presented \in BOOLEAN :
            capability' = [capability EXCEPT ![o] =
              [exists         |-> TRUE,
               verdict        |-> presented /\ Verdict(config.doc, o),
               policyEpoch    |-> config.policyEpoch,
               screeningEpoch |-> config.screeningEpoch,
               expiresAt      |-> now + Ttl(config.doc)]]
      BY <1>1 DEF RefreshEligibility
    <2>2. (presented /\ Verdict(config.doc, o)) \in BOOLEAN
      BY DEF Verdict
    <2>3. now + Ttl(config.doc) \in Nat
      BY TtlIsNat DEF TypeOK, Config
    <2>4. capability' \in [Owner -> Capability]
      BY <2>1, <2>2, <2>3 DEF TypeOK, Config, Capability
    <2> QED
      BY <1>1, <2>4 DEF RefreshEligibility, TypeOK, tokenVars
  <1>2. CASE InvalidateCapability(o)
    BY <1>2 DEF InvalidateCapability, TypeOK, tokenVars, Capability
  <1>3. CASE AddListEntry(o)
    BY <1>3 DEF AddListEntry, TypeOK, tokenVars
  <1>4. CASE RemoveListEntry(o)
    BY <1>4 DEF RemoveListEntry, TypeOK, tokenVars
  <1>5. ASSUME NEW r \in Requirement, Revoke(o, r)
        PROVE  TypeOK'
    BY <1>5 DEF Revoke, TypeOK, tokenVars
  <1>6. ASSUME NEW r \in Requirement, NEW term \in Terms, Attest(o, r, term)
        PROVE  TypeOK'
    BY <1>6 DEF Attest, TypeOK, tokenVars
  <1> QED
    BY <1>1, <1>2, <1>3, <1>4, <1>5, <1>6 DEF SubjectStep

(* TypeOK holds in every reachable state: every account keeps its declared  *)
(* layout and the guard never enforces a document validate_policy rejects.  *)
THEOREM GuardTypeCorrect == Spec => []TypeOK
  <1>1. Init => TypeOK
    BY GuardAssumption DEF Init, TypeOK, Config, Capability, WalletState, NoCapability, NotOpened, NoGifts
  <1>2. TypeOK /\ [Next]_vars => TypeOK'
    <2> SUFFICES ASSUME TypeOK, [Next]_vars PROVE TypeOK'
      OBVIOUS
    <2>1. CASE Tick
      <3>1. gifted' \in [Owner -> [volume : Nat, count : Nat, lastAt : Nat]]
        BY <2>1 DEF Tick, TypeOK
      <3>2. now \in Nat /\ now' = now + 1
        BY <2>1 DEF Tick, TypeOK
      <3>3. now' \in Nat
        BY <3>2
      <3> QED
        BY <2>1, <3>1, <3>3 DEF Tick, TypeOK, policyVars, Acceptable
    <2>2. CASE UNCHANGED vars
      BY <2>2 DEF vars, policyVars, tokenVars, TypeOK, Acceptable
    <2> QED
      BY <2>1, <2>2, TokenStepKeepsType, PolicyStepKeepsType, SubjectStepKeepsType DEF Next
  <1> QED
    BY <1>1, <1>2, PTL DEF Spec

-----------------------------------------------------------------------------
(* Velocity: the counters against the history of real gifts *)

(* A step that leaves the counters, the history and the clock alone keeps   *)
(* the account between them.                                                *)
LEMMA VelocityUntouched ==
  ASSUME VelocityInv, UNCHANGED <<wallet, gifted, now>>
  PROVE  VelocityInv'
  BY DEF VelocityInv, VelocityAccountsMatch, AccountMatches, Today

(* Opening a wallet state that cannot have been used changes no account.    *)
LEMMA OpeningKeepsVelocity ==
  ASSUME TypeOK, VelocityInv, NEW o \in Owner, OpenWalletState(o)
  PROVE  VelocityInv'
  <1>1. wallet[o] = NotOpened /\ UNCHANGED <<gifted, now>>
    BY DEF OpenWalletState, VelocityInv
  <1>2. wallet'[o] = [NotOpened EXCEPT !.open = TRUE] /\ \A q \in Owner \ {o} : wallet'[q] = wallet[q]
    BY DEF OpenWalletState, TypeOK
  <1>3. /\ wallet'[o].open
        /\ \A f \in {"day", "sentToday", "transfersToday", "lastAt"} : wallet'[o][f] = wallet[o][f]
    BY <1>1, <1>2 DEF NotOpened
  <1>4. \A q \in Owner : ~wallet'[q].open => wallet'[q] = NotOpened
    BY <1>2, <1>3 DEF VelocityInv
  <1>5. AccountMatches(o)'
    BY <1>1, <1>3 DEF VelocityInv, VelocityAccountsMatch, AccountMatches, Today
  <1>6. \A q \in Owner \ {o} : AccountMatches(q)'
    BY <1>1, <1>2 DEF VelocityInv, VelocityAccountsMatch, AccountMatches, Today
  <1> QED
    BY <1>1, <1>4, <1>5, <1>6 DEF VelocityInv, VelocityAccountsMatch

(* Rolled: whatever day the counters are from, rolled to today they are     *)
(* today's gifts.                                                           *)
LEMMA RolledAccountsMatch ==
  ASSUME TypeOK, VelocityInv, NEW o \in Owner
  PROVE  LET w == Rolled(wallet[o]) IN
         /\ w.day = Today
         /\ w.sentToday = gifted[o].volume
         /\ w.transfersToday = Saturated(gifted[o].count)
         /\ w.lastAt = gifted[o].lastAt
         /\ w.open = wallet[o].open
  <1>1. Saturated(0) = 0
    BY GuardAssumption DEF Saturated
  <1> QED
    BY <1>1 DEF VelocityInv, VelocityAccountsMatch, AccountMatches, Rolled, TypeOK, WalletState

(* Gift writes the same volume, count and instant in the counters and in    *)
(* the history.                                                             *)
LEMMA GiftKeepsVelocity ==
  ASSUME TypeOK, VelocityInv, NEW src \in Owner \cup {Treasury}, NEW dst \in Owner,
         NEW n \in 1 .. MaxAmount, Gift(src, dst, n)
  PROVE  VelocityInv'
  <1> DEFINE h == Holder(src)
             w == Rolled(wallet[h])
  <1>0. h \in Owner
    BY HolderIsOwner
  <1>1. /\ w \in WalletState /\ w.day = Today /\ w.open
        /\ w.sentToday = gifted[h].volume /\ w.transfersToday = Saturated(gifted[h].count)
    BY <1>0, RolledType, RolledAccountsMatch DEF Gift, TypeOK
  <1>2. /\ wallet' = [wallet EXCEPT ![h] = [w EXCEPT !.sentToday = @ + n,
                                            !.transfersToday = Saturated(@ + 1), !.lastAt = now]]
        /\ gifted' = [gifted EXCEPT ![h] = [volume |-> @.volume + n, count |-> @.count + 1,
                                            lastAt |-> now]]
        /\ now' = now
    BY DEF Gift
  <1> HIDE DEF h, w
  <1>3. /\ wallet'[h] = [w EXCEPT !.sentToday = @ + n, !.transfersToday = Saturated(@ + 1),
                                  !.lastAt = now]
        /\ gifted'[h] = [volume |-> gifted[h].volume + n, count |-> gifted[h].count + 1,
                         lastAt |-> now]
        /\ \A q \in Owner \ {h} : wallet'[q] = wallet[q] /\ gifted'[q] = gifted[q]
    BY <1>0, <1>2 DEF TypeOK
  <1>4. /\ wallet'[h].day = Today /\ wallet'[h].open
        /\ wallet'[h].sentToday = gifted'[h].volume
        /\ wallet'[h].transfersToday = Saturated(gifted'[h].count)
        /\ wallet'[h].lastAt = gifted'[h].lastAt /\ wallet'[h].lastAt = now
    <2>1. gifted[h].count \in Nat
      BY <1>0 DEF TypeOK
    <2>2. Saturated(w.transfersToday + 1) = Saturated(gifted[h].count + 1)
      BY <1>1, <2>1, SaturatedCounts
    <2> QED
      BY <1>1, <1>3, <2>2 DEF WalletState
  <1>5. Today \in Nat /\ Today' = Today /\ now \in Nat /\ now' = now
    BY <1>1, <1>2, RolledType DEF Today, TypeOK
  <1>6. AccountMatches(h)'
    BY <1>4, <1>5 DEF AccountMatches, Saturated
  <1>7. \A q \in Owner \ {h} : AccountMatches(q)'
    BY <1>3, <1>5 DEF VelocityInv, VelocityAccountsMatch, AccountMatches, Saturated
  <1> QED
    BY <1>0, <1>2, <1>3, <1>4, <1>6, <1>7 DEF VelocityInv, VelocityAccountsMatch

(* Tick: at midnight the real gifts start again from none, and counters     *)
(* still dated yesterday agree with that without being touched.             *)
LEMMA TickKeepsVelocity ==
  ASSUME TypeOK, VelocityInv, Tick
  PROVE  VelocityInv'
  <1>1. now \in Nat /\ now' = now + 1 /\ wallet' = wallet
    BY DEF Tick, TypeOK
  <1>2. Today \in Nat /\ Today' \in Nat /\ Today <= Today'
    BY <1>1, DayArithmetic, GuardAssumption DEF Today
  <1>3. now' >= DaySecs
    BY <1>1, GuardAssumption DEF VelocityInv
  <1>4. ASSUME NEW o \in Owner
        PROVE  /\ gifted'[o].lastAt = gifted[o].lastAt
               /\ Today' = Today => gifted'[o] = gifted[o]
               /\ Today' # Today => gifted'[o].volume = 0 /\ gifted'[o].count = 0
    BY DEF Tick, TypeOK, Today
  <1>5. \A o \in Owner : wallet[o].day \in Nat /\ wallet[o].lastAt \in Nat
    BY DEF TypeOK, WalletState
  <1>6. VelocityAccountsMatch'
    BY <1>1, <1>2, <1>4, <1>5 DEF VelocityInv, VelocityAccountsMatch, AccountMatches
  <1> QED
    BY <1>1, <1>3, <1>6 DEF VelocityInv

(* VelocityInv is inductive.                                                *)
LEMMA StepKeepsVelocity ==
  ASSUME TypeOK, VelocityInv, [Next]_vars
  PROVE  VelocityInv'
  <1>1. CASE TokenStep
    <2>1. ASSUME NEW o \in Owner, Issue(o) PROVE VelocityInv'
      BY <2>1, VelocityUntouched DEF Issue
    <2>2. ASSUME NEW src \in Owner \cup {Treasury}, NEW dst \in Owner \cup {Treasury},
                 NEW by \in {"holder", "delegate"}, NEW n \in 0 .. MaxAmount,
                 PlainTransfer(src, dst, by, n)
          PROVE  VelocityInv'
      BY <2>2, VelocityUntouched DEF PlainTransfer
    <2> QED
      BY <1>1, <2>1, <2>2, OpeningKeepsVelocity, GiftKeepsVelocity DEF TokenStep
  <1>2. CASE PolicyStep
    BY <1>2, VelocityUntouched
       DEF PolicyStep, ConfigurePolicy, BumpScreeningEpoch, SetGuardPaused, SetDegradeMode, tokenVars
  <1>3. ASSUME NEW o \in Subjects, SubjectStep(o)
        PROVE  VelocityInv'
    BY <1>3, VelocityUntouched
       DEF SubjectStep, RefreshEligibility, InvalidateCapability, AddListEntry, RemoveListEntry,
           Revoke, Attest, tokenVars
  <1>4. CASE UNCHANGED vars
    BY <1>4, VelocityUntouched DEF vars, tokenVars
  <1> QED
    BY <1>1, <1>2, <1>3, <1>4, TickKeepsVelocity DEF Next

-----------------------------------------------------------------------------
(* Eligibility: cached verdicts against what aegis has vouched for *)

(* A step that touches none of what eligibility speaks of, and does not turn*)
(* the clock back, keeps it.                                                *)
LEMMA EligibilityUntouched ==
  ASSUME TypeOK, EligibilityInv, UNCHANGED <<capability, credential, eligible>>,
         config'.doc = config.doc, config'.policyEpoch = config.policyEpoch,
         config'.screeningEpoch = config.screeningEpoch,
         now' \in Nat, now <= now'
  PROVE  EligibilityInv'
  <1> DEFINE d == config.doc
  <1>1. Ttl(d) \in Nat /\ RequirementOf(d) \in Requirement
    BY TtlIsNat, RequirementIsCertifiable DEF TypeOK, Config
  <1>2. \A o \in Owner : credential[o][RequirementOf(d)] \in Nat /\ capability[o] \in Capability
    BY <1>1 DEF TypeOK
  <1>3. now \in Nat
    BY DEF TypeOK
  <1>4. \A o \in Owner : Verdict(config.doc, o)' => Verdict(d, o)
    BY <1>2, <1>3 DEF Verdict
  <1>5. CapabilitiesAreBound'
    BY <1>1, <1>2, <1>3 DEF EligibilityInv, CapabilitiesAreBound, CapabilityIsBound, Capability
  <1> QED
    BY <1>4, <1>5 DEF EligibilityInv

(* refresh_eligibility: a yes is cached only for an owner aegis accepts now,*)
(* for one lifetime, and stamped with the epochs it was asked under.        *)
LEMMA RefreshKeepsEligibility ==
  ASSUME TypeOK, EligibilityInv, NEW o \in Owner, RefreshEligibility(o)
  PROVE  EligibilityInv'
  <1> DEFINE d == config.doc
  <1>1. PICK presented \in BOOLEAN :
          capability' = [capability EXCEPT ![o] =
            [exists         |-> TRUE,
             verdict        |-> presented /\ Verdict(d, o),
             policyEpoch    |-> config.policyEpoch,
             screeningEpoch |-> config.screeningEpoch,
             expiresAt      |-> now + Ttl(d)]]
    BY DEF RefreshEligibility
  <1>2. UNCHANGED <<config, credential, eligible, now>>
    BY DEF RefreshEligibility, tokenVars
  <1>3. Ttl(d) \in Nat /\ RequirementOf(d) \in Requirement /\ now \in Nat
        /\ config.policyEpoch \in Nat /\ config.screeningEpoch \in Nat
    BY TtlIsNat, RequirementIsCertifiable DEF TypeOK, Config
  <1>4. credential[o][RequirementOf(d)] \in Nat
    BY <1>3 DEF TypeOK
  <1>5. /\ capability'[o].verdict = (presented /\ Verdict(d, o))
        /\ capability'[o].policyEpoch = config.policyEpoch
        /\ capability'[o].screeningEpoch = config.screeningEpoch
        /\ capability'[o].expiresAt = now + Ttl(d)
        /\ \A q \in Owner \ {o} : capability'[q] = capability[q]
    BY <1>1 DEF TypeOK
  <1>6. Verdict(d, o) => /\ o \in eligible
                         /\ now + Ttl(d) <= credential[o][RequirementOf(d)] + Ttl(d)
    BY <1>3, <1>4 DEF Verdict, EligibilityInv
  <1>7. capability'[o].verdict => o \in eligible
                                  /\ now + Ttl(d) <= credential[o][RequirementOf(d)] + Ttl(d)
    BY <1>5, <1>6, Zenon
  <1>8. now + Ttl(d) <= now + Ttl(d)
    BY <1>3
  <1>9. UNCHANGED <<config, credential, eligible, now>> /\ d = config.doc
    BY <1>2
  <1>10. /\ capability'[o].policyEpoch <= config'.policyEpoch
         /\ capability'[o].screeningEpoch <= config'.screeningEpoch
    BY <1>2, <1>3, <1>5
  <1>11. /\ capability'[o].verdict => o \in eligible'
         /\ capability'[o].expiresAt <= now' + Ttl(config'.doc)
         /\ capability'[o].verdict =>
              capability'[o].expiresAt <= credential'[o][RequirementOf(config'.doc)] + Ttl(config'.doc)
    BY <1>7, <1>8, <1>9, <1>5
  <1>12. CapabilityIsBound(o)'
    BY <1>10, <1>11, Zenon DEF CapabilityIsBound
  <1>13. \A q \in Owner \ {o} : CapabilityIsBound(q)'
    BY <1>2, <1>5 DEF EligibilityInv, CapabilitiesAreBound, CapabilityIsBound
  <1> QED
    BY <1>2, <1>12, <1>13 DEF EligibilityInv, CapabilitiesAreBound, Verdict

(* A policy or screening change leaves every capability behind the epochs.  *)
LEMMA EpochMoveKeepsEligibility ==
  ASSUME TypeOK, EligibilityInv, UNCHANGED <<capability, credential, now>>,
         config' \in Config,
         config'.policyEpoch >= config.policyEpoch,
         config'.screeningEpoch >= config.screeningEpoch,
         config'.policyEpoch > config.policyEpoch \/ config'.screeningEpoch > config.screeningEpoch,
         eligible' = {o \in Owner : Verdict(config'.doc, o)}
  PROVE  EligibilityInv'
  <1>1. /\ config.policyEpoch \in Nat /\ config'.policyEpoch \in Nat
        /\ config.screeningEpoch \in Nat /\ config'.screeningEpoch \in Nat
    BY DEF TypeOK, Config
  <1>2. \A o \in Owner : /\ capability[o].policyEpoch \in Nat
                         /\ capability[o].screeningEpoch \in Nat
    BY DEF TypeOK, Capability
  <1>3. CapabilitiesAreBound'
    BY <1>1, <1>2 DEF EligibilityInv, CapabilitiesAreBound, CapabilityIsBound
  <1>4. \A o \in Owner : Verdict(config.doc, o)' => o \in eligible'
    BY DEF Verdict
  <1> QED
    BY <1>3, <1>4 DEF EligibilityInv

(* configure_policy, activations and bump_screening_epoch move an epoch.    *)
LEMMA PolicyStepKeepsEligibility ==
  ASSUME TypeOK, EligibilityInv, PolicyStep
  PROVE  EligibilityInv'
  <1>0. TypeOK' /\ now \in Nat /\ config \in Config
    BY PolicyStepKeepsType DEF TypeOK
  <1>1. ASSUME NEW d \in Docs, ConfigurePolicy(d)
        PROVE  EligibilityInv'
    <2>1. /\ config'.doc = d /\ config'.policyEpoch = config.policyEpoch + 1
          /\ config'.screeningEpoch = config.screeningEpoch
          /\ config' \in Config
          /\ eligible' = {o \in Owner : Verdict(d, o)}
          /\ UNCHANGED <<capability, credential, now>>
      BY <1>0, <1>1 DEF ConfigurePolicy, Config, TypeOK
    <2>2. config'.policyEpoch > config.policyEpoch /\ config'.screeningEpoch >= config.screeningEpoch
      BY <1>0, <2>1 DEF Config
    <2> QED
      BY <2>1, <2>2, EpochMoveKeepsEligibility, <1>0 DEF Config
  <1>2. CASE BumpScreeningEpoch
    <2>1. /\ config'.doc = config.doc /\ config'.policyEpoch = config.policyEpoch
          /\ config'.screeningEpoch = config.screeningEpoch + 1
          /\ config' \in Config
          /\ eligible' = {o \in Owner : Verdict(config.doc, o)}
          /\ UNCHANGED <<capability, credential, now>>
      BY <1>0, <1>2 DEF BumpScreeningEpoch, Config, TypeOK
    <2>2. config'.policyEpoch >= config.policyEpoch /\ config'.screeningEpoch > config.screeningEpoch
      BY <1>0, <2>1 DEF Config
    <2> QED
      BY <2>1, <2>2, EpochMoveKeepsEligibility, <1>0 DEF Config
  <1>3. ASSUME NEW p \in Pauses, SetGuardPaused(p)
        PROVE  EligibilityInv'
    BY <1>0, <1>3, EligibilityUntouched DEF SetGuardPaused, Config, tokenVars
  <1>4. ASSUME NEW mode \in Postures, SetDegradeMode(mode)
        PROVE  EligibilityInv'
    BY <1>0, <1>4, EligibilityUntouched DEF SetDegradeMode, Config, tokenVars
  <1> QED
    BY <1>1, <1>2, <1>3, <1>4 DEF PolicyStep

(* invalidate_capability: the owner may be dropped from the vouched-for     *)
(* because its capability says no from here on.                             *)
LEMMA InvalidationKeepsEligibility ==
  ASSUME TypeOK, EligibilityInv, NEW o \in Owner, InvalidateCapability(o)
  PROVE  EligibilityInv'
  <1>1. UNCHANGED <<config, credential, now>>
    BY DEF InvalidateCapability, tokenVars
  <1>2. /\ capability'[o].verdict = FALSE
        /\ capability'[o].policyEpoch = capability[o].policyEpoch
        /\ capability'[o].screeningEpoch = capability[o].screeningEpoch
        /\ \A q \in Owner \ {o} : capability'[q] = capability[q]
    BY DEF InvalidateCapability, TypeOK, Capability
  <1>3. \A q \in Owner \ {o} : q \in eligible' <=> q \in eligible
    BY DEF InvalidateCapability
  <1>4. Verdict(config.doc, o) => o \in eligible'
    BY DEF InvalidateCapability
  <1>5. CapabilitiesAreBound'
    BY <1>1, <1>2, <1>3 DEF EligibilityInv, CapabilitiesAreBound, CapabilityIsBound
  <1> QED
    BY <1>1, <1>3, <1>4, <1>5 DEF EligibilityInv, Verdict

(* aegis moving a credential -- up, down, or to an end now -- leaves every  *)
(* live verdict within a lifetime of it, for it was given in the past.      *)
LEMMA CredentialMoveKeepsEligibility ==
  ASSUME TypeOK, EligibilityInv, NEW o \in Owner, NEW r \in Requirement, NEW t \in Nat,
         credential' = [credential EXCEPT ![o][r] = t], t >= now,
         UNCHANGED <<config, capability, now>>,
         eligible \subseteq eligible',
         (r = RequirementOf(config.doc) /\ t > now) => o \in eligible'
  PROVE  EligibilityInv'
  <1> DEFINE d == config.doc
             R == RequirementOf(d)
  <1>1. Ttl(d) \in Nat /\ R \in Requirement /\ now \in Nat
    BY TtlIsNat, RequirementIsCertifiable DEF TypeOK, Config
  <1>2. \A q \in Owner : credential[q][R] \in Nat /\ capability[q].expiresAt \in Nat
    BY <1>1 DEF TypeOK, Capability
  <1>3. /\ r = R => credential'[o][R] = t
        /\ r # R => credential'[o][R] = credential[o][R]
        /\ \A q \in Owner \ {o} : credential'[q][R] = credential[q][R]
    BY <1>1 DEF TypeOK
  <1> HIDE DEF R
  <1>4. CapabilitiesAreBound'
    BY <1>1, <1>2, <1>3 DEF EligibilityInv, CapabilitiesAreBound, CapabilityIsBound, R
  <1>5. \A q \in Owner : now < credential'[q][R] => q \in eligible'
    BY <1>1, <1>2, <1>3 DEF EligibilityInv, Verdict, R
  <1> QED
    BY <1>4, <1>5 DEF EligibilityInv, Verdict, R

(* EligibilityInv is inductive.                                             *)
LEMMA StepKeepsEligibility ==
  ASSUME TypeOK, EligibilityInv, [Next]_vars
  PROVE  EligibilityInv'
  <1>0. now \in Nat /\ now <= now /\ now + 1 \in Nat /\ now <= now + 1
    BY DEF TypeOK
  <1>1. CASE TokenStep
    BY <1>0, <1>1, EligibilityUntouched
       DEF TokenStep, Issue, OpenWalletState, PlainTransfer, Gift, policyVars
  <1>2. ASSUME NEW o \in Subjects, SubjectStep(o)
        PROVE  EligibilityInv'
    <2>0. o \in Owner
      BY GuardAssumption
    <2>1. CASE AddListEntry(o) \/ RemoveListEntry(o)
      BY <1>0, <2>1, EligibilityUntouched DEF AddListEntry, RemoveListEntry, tokenVars
    <2>2. ASSUME NEW r \in Requirement, Revoke(o, r)
          PROVE  EligibilityInv'
      <3>1. /\ credential' = [credential EXCEPT ![o][r] = now]
            /\ UNCHANGED <<config, capability, now, eligible>>
            /\ ~(now > now) /\ now >= now
        BY <1>0, <2>2 DEF Revoke, tokenVars
      <3> QED
        BY <1>0, <2>0, <3>1, CredentialMoveKeepsEligibility
    <2>3. ASSUME NEW r \in Requirement, NEW term \in Terms, Attest(o, r, term)
          PROVE  EligibilityInv'
      <3>1. now + term \in Nat /\ now + term >= now
        BY <1>0, GuardAssumption
      <3> QED
        BY <2>0, <2>3, <3>1, CredentialMoveKeepsEligibility DEF Attest, tokenVars
    <2> QED
      BY <1>2, <2>0, <2>1, <2>2, <2>3, RefreshKeepsEligibility, InvalidationKeepsEligibility
         DEF SubjectStep
  <1>3. CASE Tick
    BY <1>0, <1>3, EligibilityUntouched DEF Tick, policyVars
  <1>4. CASE UNCHANGED vars
    BY <1>0, <1>4, EligibilityUntouched DEF vars, policyVars, tokenVars
  <1> QED
    BY <1>1, <1>2, <1>3, <1>4, PolicyStepKeepsEligibility DEF Next

-----------------------------------------------------------------------------
(* The theorems *)

(* GuardInv holds in every reachable state: counters and capabilities are   *)
(* what really happened to them says.                                       *)
THEOREM GuardBookkeeping == Spec => []GuardInv
  <1>1. Init => GuardInv
    <2> SUFFICES ASSUME Init PROVE GuardInv
      OBVIOUS
    <2>1. DaySecs \in Nat \ {0} /\ now = DaySecs
      BY GuardAssumption DEF Init
    <2>2. Today \in Nat /\ Today >= 1
      BY <2>1, DayArithmetic DEF Today
    <2>3. VelocityInv
      BY <2>1, <2>2 DEF Init, VelocityInv, VelocityAccountsMatch, AccountMatches, NotOpened, NoGifts
    <2>4. ASSUME NEW o \in Owner PROVE ~Verdict(config.doc, o)
      <3>1. RequirementOf(config.doc) \in Requirement
        BY RequirementIsCertifiable DEF Init
      <3> QED
        BY <2>1, <3>1 DEF Init, Verdict
    <2>5. EligibilityInv
      BY <2>4 DEF Init, EligibilityInv, CapabilitiesAreBound, CapabilityIsBound, NoCapability
    <2> QED
      BY <2>3, <2>5 DEF GuardInv
  <1>2. TypeOK /\ GuardInv /\ [Next]_vars => GuardInv'
    BY StepKeepsVelocity, StepKeepsEligibility DEF GuardInv
  <1> QED
    BY <1>1, <1>2, GuardTypeCorrect, PTL DEF Spec

(* VelocityAccountsMatch, for any owners, policies, day length and clock.   *)
THEOREM GiftsAreAccounted == Spec => []VelocityAccountsMatch
  <1>1. GuardInv => VelocityAccountsMatch
    BY DEF GuardInv, VelocityInv
  <1> QED
    BY <1>1, GuardBookkeeping, PTL

(* The only step that adds to an owner's gifts is a Gift from an account of *)
(* its.                                                                     *)
LEMMA OnlyGiftsCount ==
  ASSUME TypeOK, Next, NEW o \in Owner, Gave(o)
  PROVE  \E src \in Owner \cup {Treasury}, dst \in Owner, n \in 1 .. MaxAmount :
           Holder(src) = o /\ Gift(src, dst, n)
  <1>1. gifted[o].count \in Nat
    BY DEF TypeOK
  <1>2. gifted' # gifted
    BY <1>1 DEF Gave
  <1>3. ~PolicyStep /\ ~(\E q \in Subjects : SubjectStep(q))
    BY <1>2 DEF PolicyStep, ConfigurePolicy, BumpScreeningEpoch, SetGuardPaused, SetDegradeMode,
                SubjectStep, RefreshEligibility, InvalidateCapability, AddListEntry,
                RemoveListEntry, Revoke, Attest, tokenVars
  <1>4. ~Tick
    <2>1. Tick => gifted'[o].count = gifted[o].count \/ gifted'[o].count = 0
      BY DEF Tick, TypeOK
    <2> QED
      BY <1>1, <2>1 DEF Gave
  <1>5. PICK src \in Owner \cup {Treasury}, dst \in Owner, n \in 1 .. MaxAmount : Gift(src, dst, n)
    BY <1>2, <1>3, <1>4 DEF Next, TokenStep, Issue, OpenWalletState, PlainTransfer
  <1>6. Holder(src) = o
    <2>1. Holder(src) \in Owner
      BY HolderIsOwner
    <2> QED
      BY <1>1, <1>5, <2>1 DEF Gave, Gift, TypeOK
  <1> QED
    BY <1>5, <1>6

(* A gift is credited to its destination and to nobody else.                *)
LEMMA OnlyDestinationReceives ==
  ASSUME TypeOK, NEW src \in Owner \cup {Treasury}, NEW dst \in Owner, NEW n \in 1 .. MaxAmount,
         Gift(src, dst, n), NEW o \in Owner, Received(o)
  PROVE  o = dst
  <1>1. n \in Nat /\ balance[o] \in Nat
    BY GuardAssumption DEF TypeOK
  <1>2. balance' = [balance EXCEPT ![src] = @ - n, ![dst] = @ + n] /\ src # dst
    BY DEF Gift, Moved
  <1> QED
    BY <1>1, <1>2 DEF Received, TypeOK

(* GiftsWithinLimits: no interleaving of gifts, policy changes and idle     *)
(* days lets a wallet give more in a day, or sooner, than the live policy.  *)
THEOREM LimitsAreKept == Spec => GiftsWithinLimits
  <1>1. ASSUME TypeOK, GuardInv, Next, NEW o \in Owner, Gave(o)
        PROVE  LET d == config.doc IN
               /\ gifted'[o].volume <= d.dailyGiftCap
               /\ d.transfersPerDay # 0 => gifted'[o].count <= d.transfersPerDay
               /\ gifted[o].lastAt # 0 => gifted'[o].lastAt >= gifted[o].lastAt + d.cooldownSecs
    <2> DEFINE d == config.doc
               w == Rolled(wallet[o])
    <2>1. PICK src \in Owner \cup {Treasury}, dst \in Owner, n \in 1 .. MaxAmount :
            Holder(src) = o /\ Gift(src, dst, n)
      BY <1>1, OnlyGiftsCount
    <2>2. /\ w.sentToday = gifted[o].volume /\ w.transfersToday = Saturated(gifted[o].count)
          /\ w.lastAt = gifted[o].lastAt
      BY <1>1, RolledAccountsMatch DEF GuardInv
    <2>3. WithinVelocity(w, n) /\ gifted' = [gifted EXCEPT ![o] =
            [volume |-> @.volume + n, count |-> @.count + 1, lastAt |-> now]]
      BY <2>1 DEF Gift
    <2>4. gifted'[o] = [volume |-> gifted[o].volume + n, count |-> gifted[o].count + 1, lastAt |-> now]
      BY <1>1, <2>3 DEF TypeOK
    <2>5. d \in PolicyDoc
      BY <1>1, GuardAssumption DEF TypeOK, Config
    <2>6. /\ d.dailyGiftCap \in Nat /\ d.transfersPerDay \in Nat /\ d.cooldownSecs \in Nat
      BY <2>5 DEF PolicyDoc
    <2>7. /\ gifted[o].volume \in Nat /\ gifted[o].count \in Nat /\ gifted[o].lastAt \in Nat
          /\ now \in Nat
      BY <1>1 DEF TypeOK
    <2>8. gifted[o].lastAt <= now
      BY <1>1 DEF GuardInv, VelocityInv, VelocityAccountsMatch, AccountMatches
    <2>9. d.transfersPerDay # 0 => gifted[o].count < d.transfersPerDay
      <3>1. d.transfersPerDay <= MaxCount
        BY <1>1, GuardAssumption DEF TypeOK, Config
      <3> QED
        BY <2>2, <2>3, <2>6, <2>7, <3>1, SaturatedCounts DEF WithinVelocity
    <2> HIDE DEF w
    <2> QED
      BY <2>2, <2>3, <2>4, <2>6, <2>7, <2>8, <2>9 DEF WithinVelocity
  <1>2. TypeOK /\ GuardInv /\ [Next]_vars =>
          [\A o \in Owner : Gave(o) =>
             LET d == config.doc IN
             /\ gifted'[o].volume <= d.dailyGiftCap
             /\ d.transfersPerDay # 0 => gifted'[o].count <= d.transfersPerDay
             /\ gifted[o].lastAt # 0 => gifted'[o].lastAt >= gifted[o].lastAt + d.cooldownSecs]_vars
    BY <1>1
  <1> QED
    BY <1>2, GuardTypeCorrect, GuardBookkeeping, PTL DEF Spec, GiftsWithinLimits

(* What a gift under REQUIRE_ATTESTATION says about its destination.        *)
LEMMA GiftUsesCapability ==
  ASSUME TypeOK, GuardInv, Next, NEW src \in Owner, NEW dst \in Owner,
         Gave(src), Received(dst), Has("REQUIRE_ATTESTATION")
  PROVE  /\ dst \in eligible
         /\ now < credential[dst][RequirementOf(config.doc)] + Ttl(config.doc)
  <1>1. PICK from \in Owner \cup {Treasury}, q \in Owner, n \in 1 .. MaxAmount : Gift(from, q, n)
    BY OnlyGiftsCount
  <1>2. q = dst
    BY <1>1, OnlyDestinationReceives
  <1>3. CapabilityOk(dst)
    BY <1>1, <1>2 DEF Gift, MayReceive
  <1>4. /\ dst \in eligible
        /\ capability[dst].expiresAt <= credential[dst][RequirementOf(config.doc)] + Ttl(config.doc)
    BY <1>3 DEF CapabilityOk, GuardInv, EligibilityInv, CapabilitiesAreBound, CapabilityIsBound
  <1>5. /\ credential[dst][RequirementOf(config.doc)] \in Nat /\ Ttl(config.doc) \in Nat
        /\ now \in Nat /\ capability[dst].expiresAt \in Nat
    BY TtlIsNat, RequirementIsCertifiable DEF TypeOK, Config, Capability
  <1> QED
    BY <1>3, <1>4, <1>5 DEF CapabilityOk

(* GiftsReachVouchedOwners: a screening bump, a policy change and an        *)
(* invalidation each cut off every verdict given before them.               *)
THEOREM GiftsAreVouchedFor == Spec => GiftsReachVouchedOwners
  <1>1. TypeOK /\ GuardInv /\ [Next]_vars =>
          [\A src, dst \in Owner :
             (Gave(src) /\ Received(dst) /\ Has("REQUIRE_ATTESTATION")) => dst \in eligible]_vars
    BY GiftUsesCapability
  <1> QED
    BY <1>1, GuardTypeCorrect, GuardBookkeeping, PTL DEF Spec, GiftsReachVouchedOwners

(* GiftsStopAfterTtl: the revocation latency is below one capability        *)
(* lifetime, however revocations and refreshes interleave.                  *)
THEOREM RevocationLatencyIsBounded == Spec => GiftsStopAfterTtl
  <1>1. TypeOK /\ GuardInv /\ [Next]_vars =>
          [\A src, dst \in Owner :
             (Gave(src) /\ Received(dst) /\ Has("REQUIRE_ATTESTATION")) =>
               now < credential[dst][RequirementOf(config.doc)] + Ttl(config.doc)]_vars
    BY GiftUsesCapability
  <1> QED
    BY <1>1, GuardTypeCorrect, GuardBookkeeping, PTL DEF Spec, GiftsStopAfterTtl
=============================================================================
