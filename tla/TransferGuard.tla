--------------------------- MODULE TransferGuard ----------------------------
(***************************************************************************)
(* The argus transfer hook of one loyalty mint: `execute`, which Token-2022*)
(* calls inside every transfer, and everything it decides on -- the live   *)
(* policy, pause and degrade posture, list entries, cached eligibility     *)
(* capabilities and per-wallet velocity counters.                          *)
(*                                                                         *)
(* A rejected transfer reverts whole, so a rule is a guard.  Who may sign  *)
(* the administrative instructions is the subject of PolicyGovernance; the *)
(* failing streak behind the degrade posture that of TrustTriangle.        *)
(***************************************************************************)
EXTENDS TransferPolicy, FiniteSetsExt
CONSTANTS
  Owner,         \* wallets holding the mint, one token account each
  Treasury,      \* the merchant's token account named by the guard
  TreasuryOwner, \* the wallet that account belongs to (register_merchant)
  ProgramOwned,  \* owners that are accounts of some program
  Subjects,      \* owners whose credential, capability or list entry may change
  Docs,          \* policy documents the guard may be retuned to
  AegisProgram, Issuer,   \* fixed when the guard is created
  Requirement,   \* what a credential may certify: schema ids, aegis Policy accounts
  Terms,         \* validity periods aegis issues credentials for
  Postures,      \* the degrade postures in play, "NORMAL" among them
  Pauses,        \* the pause settings in play
  MaxAmount,     \* bound: largest amount of one transfer
  MaxSupply,     \* bound: points in circulation
  DefaultTtl,    \* CAPABILITY_TTL_SECS
  DaySecs,       \* SECONDS_PER_DAY
  MaxCount,      \* u16::MAX, where transfers_today saturates
  MaxInstant,    \* i64::MAX, the last instant an expiry can name
  EpochBound,    \* bound: policy changes, and screening bumps, considered
  MaxTime        \* bound: the clock stops here

ASSUME GuardAssumption ==
  /\ Treasury \notin Owner /\ TreasuryOwner \in Owner
  /\ ProgramOwned \subseteq Owner /\ Subjects \subseteq Owner
  /\ Docs \subseteq PolicyDoc
  /\ \A d \in Docs : d.attestationSchema \in Requirement /\ d.policy \in Requirement \cup {NoKey}
  /\ Terms \subseteq Nat \ {0}
  /\ Postures \subseteq {"NORMAL", "REDEMPTION_ONLY", "FROZEN"} /\ "NORMAL" \in Postures
  /\ Pauses \subseteq BOOLEAN
  /\ {MaxAmount, MaxSupply, EpochBound, MaxTime, MaxCount, MaxInstant} \subseteq Nat
  /\ \A d \in Docs : d.transfersPerDay <= MaxCount
  /\ {DefaultTtl, DaySecs} \subseteq Nat \ {0}

VARIABLES
  config,      \* GuardConfig: policy document, epochs, pause, posture
  listed,      \* owners with a PolicyListEntry
  capability,  \* EligibilityCapability by subject
  wallet,      \* WalletPolicyState by source owner
  balance,     \* token balances, after the transfers done so far
  credential,  \* aegis: instant until which an owner meets a requirement
  now,         \* Clock::unix_timestamp
  gifted,      \* history: the gifts an owner really made today, and the last one ever
  eligible     \* history: owners aegis has vouched for since the rules, the
               \* screening epoch or their own invalidation last changed

policyVars == <<config, listed, capability, credential, eligible>>
tokenVars == <<wallet, balance, gifted>>
vars == <<policyVars, tokenVars, now>>

NoCapability == [exists |-> FALSE, verdict |-> FALSE, policyEpoch |-> 0,
                 screeningEpoch |-> 0, expiresAt |-> 0]
NotOpened == [open |-> FALSE, day |-> 0, sentToday |-> 0, transfersToday |-> 0, lastAt |-> 0]
NoGifts == [volume |-> 0, count |-> 0, lastAt |-> 0]

Capability == [exists : BOOLEAN, verdict : BOOLEAN, policyEpoch : Nat,
               screeningEpoch : Nat, expiresAt : Nat]
WalletState == [open : BOOLEAN, day : Nat, sentToday : Nat, transfersToday : Nat, lastAt : Nat]
Config == [doc : Docs, policyEpoch : Nat, screeningEpoch : Nat,
           paused : BOOLEAN, degradeMode : Postures]

-----------------------------------------------------------------------------
(* Helpers *)

Acceptable(d) == Installable(d, AegisProgram, Issuer)

Has(flag) == flag \in config.doc.flags

Today == now \div DaySecs

(* The wallet whose velocity state a transfer out of an account counts in.  *)
Holder(a) == IF a = Treasury THEN TreasuryOwner ELSE a

Saturated(n) == IF n <= MaxCount THEN n ELSE MaxCount

(* The credential refresh_eligibility asks aegis about under a document.    *)
RequirementOf(d) == IF d.policy # NoKey THEN d.policy ELSE d.attestationSchema

(* aegis's verdict on an owner, now, under a document.                      *)
Verdict(d, o) == now < credential[o][RequirementOf(d)]

Ttl(d) == IF d.capabilityTtl > 0 THEN d.capabilityTtl ELSE DefaultTtl

(* TypeOK: the declared layout of every account, and the document the guard *)
(* enforces is always one validate_policy accepts (initialize, apply).      *)
TypeOK ==
  /\ config \in Config
  /\ Acceptable(config.doc)
  /\ listed \subseteq Owner
  /\ capability \in [Owner -> Capability]
  /\ wallet \in [Owner -> WalletState]
  /\ balance \in [Owner \cup {Treasury} -> Nat]
  /\ credential \in [Owner -> [Requirement -> Nat]]
  /\ now \in Nat
  /\ gifted \in [Owner -> [volume : Nat, count : Nat, lastAt : Nat]]
  /\ eligible \subseteq Owner

-----------------------------------------------------------------------------
(* Faulty variants: what a slip in one handler would look like.             *)

CapabilityOkAnyPolicy(o) ==
  /\ capability[o].exists /\ capability[o].verdict
  /\ capability[o].screeningEpoch = config.screeningEpoch
  /\ now < capability[o].expiresAt

CapabilityOkForever(o) ==
  /\ capability[o].exists /\ capability[o].verdict
  /\ capability[o].policyEpoch = config.policyEpoch
  /\ capability[o].screeningEpoch = config.screeningEpoch

RolledOnceOnly(w) == IF w.day # 0 THEN w ELSE [w EXCEPT !.day = Today]

WithinVelocityBeforeAmount(w, n) ==
  LET d == config.doc IN
    /\ (d.cooldownSecs > 0 /\ w.lastAt # 0) => now - w.lastAt >= d.cooldownSecs
    /\ d.transfersPerDay # 0 => w.transfersToday <= d.transfersPerDay
    /\ w.sentToday + n <= d.dailyGiftCap

MaySendPausedFirst(dst, by) == by = "delegate" \/ ~config.paused

ConfigurePolicyUnchecked(d) ==
  /\ config.policyEpoch < EpochBound
  /\ config' = [config EXCEPT !.doc = d, !.policyEpoch = @ + 1]
  /\ eligible' = {o \in Owner : Verdict(d, o)}
  /\ UNCHANGED <<listed, capability, credential, tokenVars, now>>

-----------------------------------------------------------------------------
(* execute: the decision Token-2022 asks for inside a transfer *)

(* capability_ok: present, bound to the current epochs, fresh and positive. *)
CapabilityOk(o) ==
  /\ capability[o].exists /\ capability[o].verdict
  /\ capability[o].policyEpoch = config.policyEpoch
  /\ capability[o].screeningEpoch = config.screeningEpoch
  /\ now < capability[o].expiresAt

(* The wallet state as rules 11-13 see it, rolled to the current day.       *)
Rolled(w) == IF w.day = Today THEN w
             ELSE [w EXCEPT !.day = Today, !.sentToday = 0, !.transfersToday = 0]

(* Rules 5-8: who may receive a peer gift.                                  *)
MayReceive(dst) ==
  /\ Has("BLOCK_PROGRAM_OWNED") => dst \notin ProgramOwned
  /\ Has("ALLOWLIST_ONLY") => dst \in listed
  /\ Has("DENYLIST") => dst \notin listed
  /\ Has("REQUIRE_ATTESTATION") => CapabilityOk(dst)

(* Rules 9-10: the amount, and the balance it leaves (the hook runs after   *)
(* the tokens moved); a zero limit is no limit.                             *)
WithinAmounts(dst, n) ==
  LET d == config.doc IN
    /\ d.perTxCap # 0 => n <= d.perTxCap
    /\ d.maxWalletBalance # 0 => balance[dst] + n <= d.maxWalletBalance

(* Rules 11-13 on a rolled wallet state; the daily cap alone has no "off".  *)
WithinVelocity(w, n) ==
  LET d == config.doc IN
    /\ (d.cooldownSecs > 0 /\ w.lastAt # 0) => now - w.lastAt >= d.cooldownSecs
    /\ d.transfersPerDay # 0 => w.transfersToday < d.transfersPerDay
    /\ w.sentToday + n <= d.dailyGiftCap

(* Rules 3-3b reach only what rules 1 (issuer flow) and 2 (treasury flow)   *)
(* did not already allow.                                                   *)
MaySend(dst, by) ==
  \/ by = "delegate"
  \/ dst = Treasury
  \/ ~config.paused /\ config.degradeMode = "NORMAL"

(* A transfer that is neither an issuer or treasury flow nor empty.         *)
IsGift(dst, by, n) == by = "holder" /\ dst # Treasury /\ n > 0

Moved(src, dst, n) == balance' = [balance EXCEPT ![src] = @ - n, ![dst] = @ + n]

(* Rules 1, 2 and 4: allowed without touching velocity state.               *)
PlainTransfer(src, dst, by, n) ==
  /\ n <= balance[src] /\ src # dst
  /\ ~IsGift(dst, by, n)
  /\ MaySend(dst, by)
  /\ Moved(src, dst, n)
  /\ UNCHANGED <<policyVars, wallet, gifted, now>>

(* Rules 3-13, then the commit to the state of the source account's owner.  *)
Gift(src, dst, n) ==
  LET h == Holder(src)
      w == Rolled(wallet[h])
  IN
  /\ n <= balance[src] /\ src # dst
  /\ IsGift(dst, "holder", n)
  /\ MaySend(dst, "holder")
  /\ ~Has("GIFTING_DISABLED")
  /\ MayReceive(dst)
  /\ WithinAmounts(dst, n)
  /\ w.open
  /\ WithinVelocity(w, n)
  /\ wallet' = [wallet EXCEPT ![h] = [w EXCEPT !.sentToday = @ + n,
                                               !.transfersToday = Saturated(@ + 1),
                                               !.lastAt = now]]
  /\ Moved(src, dst, n)
  /\ gifted' = [gifted EXCEPT ![h] = [volume |-> @.volume + n, count |-> @.count + 1,
                                      lastAt |-> now]]
  /\ UNCHANGED <<policyVars, now>>

-----------------------------------------------------------------------------
(* The other instructions *)

Supply == FoldSet(LAMBDA a, s : s + balance[a], 0, DOMAIN balance)

(* vesta-core mints points to a wallet; minting runs no hook.               *)
Issue(o) ==
  /\ Supply < MaxSupply
  /\ balance' = [balance EXCEPT ![o] = @ + 1]
  /\ UNCHANGED <<policyVars, wallet, gifted, now>>

(* open_wallet_state: `init`, and no instruction ever closes the account.   *)
OpenWalletState(o) ==
  /\ ~wallet[o].open
  /\ wallet' = [wallet EXCEPT ![o] = [NotOpened EXCEPT !.open = TRUE]]
  /\ UNCHANGED <<policyVars, balance, gifted, now>>

(* refresh_eligibility, callable by anyone for anyone.  The caller names    *)
(* the attestation account: the wrong one makes aegis answer no, and that   *)
(* answer is cached as readily as a yes.  An expiry past the last instant   *)
(* is an Overflow, and caches nothing.                                      *)
RefreshEligibility(o) ==
  /\ AegisProgram # NoKey
  /\ now + Ttl(config.doc) <= MaxInstant
  /\ \E presented \in BOOLEAN :
       capability' = [capability EXCEPT ![o] =
         [exists         |-> TRUE,
          verdict        |-> presented /\ Verdict(config.doc, o),
          policyEpoch    |-> config.policyEpoch,
          screeningEpoch |-> config.screeningEpoch,
          expiresAt      |-> now + Ttl(config.doc)]]
  /\ UNCHANGED <<config, listed, credential, eligible, tokenVars, now>>

(* Owners to be vouched for afresh are those aegis accepts right now.       *)
InvalidateCapability(o) ==
  /\ capability[o].exists
  /\ capability' = [capability EXCEPT ![o].verdict = FALSE, ![o].expiresAt = 0]
  /\ eligible' = IF Verdict(config.doc, o) THEN eligible \cup {o} ELSE eligible \ {o}
  /\ UNCHANGED <<config, listed, credential, tokenVars, now>>

(* A document goes live, by configure_policy or by an activation.           *)
ConfigurePolicy(d) ==
  /\ Acceptable(d)
  /\ config.policyEpoch < EpochBound
  /\ config' = [config EXCEPT !.doc = d, !.policyEpoch = @ + 1]
  /\ eligible' = {o \in Owner : Verdict(d, o)}
  /\ UNCHANGED <<listed, capability, credential, tokenVars, now>>

BumpScreeningEpoch ==
  /\ config.screeningEpoch < EpochBound
  /\ config' = [config EXCEPT !.screeningEpoch = @ + 1]
  /\ eligible' = {o \in Owner : Verdict(config.doc, o)}
  /\ UNCHANGED <<listed, capability, credential, tokenVars, now>>

SetGuardPaused(p) ==
  /\ config' = [config EXCEPT !.paused = p]
  /\ UNCHANGED <<listed, capability, credential, eligible, tokenVars, now>>

(* The posture, moved by set_degrade_mode or by the accreditation crank.    *)
SetDegradeMode(mode) ==
  /\ config' = [config EXCEPT !.degradeMode = mode]
  /\ UNCHANGED <<listed, capability, credential, eligible, tokenVars, now>>

AddListEntry(o) ==
  /\ o \notin listed
  /\ listed' = listed \cup {o}
  /\ UNCHANGED <<config, capability, credential, eligible, tokenVars, now>>

RemoveListEntry(o) ==
  /\ o \in listed
  /\ listed' = listed \ {o}
  /\ UNCHANGED <<config, capability, credential, eligible, tokenVars, now>>

-----------------------------------------------------------------------------
(* aegis and the clock *)

(* An issuer attests, or updates an attestation, until now + term; one that *)
(* was revoked or erased is closed first.                                   *)
Attest(o, r, term) ==
  /\ credential' = [credential EXCEPT ![o][r] = now + term]
  /\ eligible' = IF r = RequirementOf(config.doc) THEN eligible \cup {o} ELSE eligible
  /\ UNCHANGED <<config, listed, capability, tokenVars, now>>

(* revoke, erase or close: the credential stops holding at once.            *)
Revoke(o, r) ==
  /\ now < credential[o][r]
  /\ credential' = [credential EXCEPT ![o][r] = now]
  /\ UNCHANGED <<config, listed, capability, eligible, tokenVars, now>>

Tick ==
  /\ now < MaxTime
  /\ now' = now + 1
  /\ gifted' = IF now' \div DaySecs = Today THEN gifted
               ELSE [o \in Owner |-> [gifted[o] EXCEPT !.volume = 0, !.count = 0]]
  /\ UNCHANGED <<policyVars, wallet, balance>>

-----------------------------------------------------------------------------
(* initialize_transfer_guard has run, on day 1: zero in a field means never.*)
Init ==
  /\ \E d \in Docs : /\ Acceptable(d)
                     /\ config = [doc |-> d, policyEpoch |-> 0, screeningEpoch |-> 0,
                                  paused |-> FALSE, degradeMode |-> "NORMAL"]
  /\ listed = {}
  /\ capability = [o \in Owner |-> NoCapability]
  /\ wallet = [o \in Owner |-> NotOpened]
  /\ balance = [a \in Owner \cup {Treasury} |-> 0]
  /\ credential = [o \in Owner |-> [r \in Requirement |-> 0]]
  /\ now = DaySecs
  /\ gifted = [o \in Owner |-> NoGifts]
  /\ eligible = {}

TokenStep ==
  \/ \E o \in Owner : Issue(o) \/ OpenWalletState(o)
  \/ \E src, dst \in Owner \cup {Treasury}, by \in {"holder", "delegate"}, n \in 0 .. MaxAmount :
       PlainTransfer(src, dst, by, n)
  \/ \E src \in Owner \cup {Treasury}, dst \in Owner, n \in 1 .. MaxAmount : Gift(src, dst, n)

PolicyStep ==
  \/ \E d \in Docs : ConfigurePolicy(d)
  \/ BumpScreeningEpoch
  \/ \E p \in Pauses : SetGuardPaused(p)
  \/ \E mode \in Postures : SetDegradeMode(mode)

SubjectStep(o) ==
  \/ RefreshEligibility(o) \/ InvalidateCapability(o)
  \/ AddListEntry(o) \/ RemoveListEntry(o)
  \/ \E r \in Requirement : Revoke(o, r) \/ \E term \in Terms : Attest(o, r, term)

Next == TokenStep \/ PolicyStep \/ (\E o \in Subjects : SubjectStep(o)) \/ Tick

Spec == Init /\ [][Next]_vars

-----------------------------------------------------------------------------
(* Properties *)

Gave(o) == gifted'[o].count > gifted[o].count
Received(o) == balance'[o] > balance[o]

(* VelocityAccountsMatch: the lazily rolled counters of a wallet say what    *)
(* the owner really gave today -- or are a past day's, and today's gifts are *)
(* none -- and remember its last gift, whatever policy changes, refunds,     *)
(* pauses and idle days lie between, and whichever of its accounts they came *)
(* from (execute, rules 11-13).  The count sticks at u16::MAX.               *)
AccountMatches(o) ==
  /\ wallet[o].day <= Today
  /\ wallet[o].lastAt = gifted[o].lastAt /\ wallet[o].lastAt <= now
  /\ IF wallet[o].day = Today
       THEN wallet[o].sentToday = gifted[o].volume /\ wallet[o].transfersToday = Saturated(gifted[o].count)
       ELSE gifted[o].volume = 0 /\ gifted[o].count = 0

VelocityAccountsMatch == \A o \in Owner : AccountMatches(o)

(* CapabilitiesAreBound: a capability never runs ahead of the guard's epochs,*)
(* and a positive one bound to the current epochs belongs to a vouched owner *)
(* and expires within one lifetime of now and of the credential behind it.   *)
CapabilityIsBound(o) ==
  LET c == capability[o]
      d == config.doc
  IN /\ c.policyEpoch <= config.policyEpoch
     /\ c.screeningEpoch <= config.screeningEpoch
     /\ (/\ c.verdict
         /\ c.policyEpoch = config.policyEpoch
         /\ c.screeningEpoch = config.screeningEpoch) =>
          /\ o \in eligible
          /\ c.expiresAt <= now + Ttl(d)
          /\ c.expiresAt <= credential[o][RequirementOf(d)] + Ttl(d)

CapabilitiesAreBound == \A o \in Owner : CapabilityIsBound(o)

(* The two bookkeeping invariants with what makes them inductive: the clock  *)
(* is past day 0 and a wallet state not yet opened is blank; whoever aegis   *)
(* accepts now is among those it has vouched for.                            *)
VelocityInv ==
  /\ now >= DaySecs
  /\ \A o \in Owner : ~wallet[o].open => wallet[o] = NotOpened
  /\ VelocityAccountsMatch

EligibilityInv ==
  /\ \A o \in Owner : Verdict(config.doc, o) => o \in eligible
  /\ CapabilitiesAreBound

(* GuardInv: both, in every reachable state.                                 *)
GuardInv == VelocityInv /\ EligibilityInv

(* GiftsWithinLimits: the gifts an owner really made in a day never exceed,  *)
(* at the gift that counts, the live volume cap and transfer count, and two  *)
(* successive gifts -- days apart or not -- are a cooldown apart.            *)
GiftsWithinLimits ==
  [][\A o \in Owner : Gave(o) =>
       LET d == config.doc IN
       /\ gifted'[o].volume <= d.dailyGiftCap
       /\ d.transfersPerDay # 0 => gifted'[o].count <= d.transfersPerDay
       /\ gifted[o].lastAt # 0 => gifted'[o].lastAt >= gifted[o].lastAt + d.cooldownSecs]_vars

(* GiftsReachVouchedOwners: under REQUIRE_ATTESTATION a gift reaches only an *)
(* owner aegis has accepted, under the rules now live, since they went live, *)
(* since the last screening bump and since that owner's last invalidation:   *)
(* no verdict outlives a change of what it was a verdict about.              *)
GiftsReachVouchedOwners ==
  [][\A src, dst \in Owner :
       (Gave(src) /\ Received(dst) /\ Has("REQUIRE_ATTESTATION")) => dst \in eligible]_vars

(* GiftsStopAfterTtl: a revoked or expired credential admits gifts for less  *)
(* than one capability lifetime more (the revocation latency of spec 09).    *)
GiftsStopAfterTtl ==
  [][\A src, dst \in Owner :
       (Gave(src) /\ Received(dst) /\ Has("REQUIRE_ATTESTATION")) =>
         now < credential[dst][RequirementOf(config.doc)] + Ttl(config.doc)]_vars

(* AssetsNeverStranded: whatever the pause, the posture, the lists and the   *)
(* policy, a holder can pay the merchant and the issuer can claw back.       *)
AssetsNeverStranded ==
  \A o \in Owner : balance[o] > 0 =>
    /\ ENABLED PlainTransfer(o, Treasury, "holder", balance[o])
    /\ ENABLED PlainTransfer(o, Treasury, "delegate", balance[o])
=============================================================================
