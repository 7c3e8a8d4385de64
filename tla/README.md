# VESTA in TLA+

A verification development of the VESTA loyalty protocol: three Solana programs,
`aegis` (attestations and accreditation), `argus` (a Token-2022 transfer hook that
enforces a merchant's transfer policy) and `vesta-core` (merchants, points,
campaigns, offers). The modules model the instructions as atomic actions, TLC
checks them on small instances, and TLAPS proves the most important results for
every value of the constants.

Paths below are relative to `src/programs/`.

## 1. The system

Every instruction of a Solana program runs inside a transaction that either
commits whole or reverts whole. Concurrency is therefore an interleaving of
instructions of different signers; there is no shared state read outside a
transaction. What is hard here is not a data race but

* **long legal sequences** of instructions of several roles over several accounts
  that must agree with each other (pointer, version, registry, guard);
* **caches**: a verdict is computed by one transaction, stored, and used by later
  ones after the policy, the credential or the clock moved;
* **lazily reset counters** keyed by day, reset by whoever comes first;
* **surviving accounts**: progress, receipts and badges outlive the campaign, offer or
  achievement they were made for, which may be created again under the same id;
* **permissionless cranks**: things that must happen eventually happen only if
  somebody sends the transaction, and a crank samples state at moments of its own;
* **two instructions in one transaction**, in one slot.

### Inventory

| Component | State it keeps | Operations | What makes it correct | Where |
|---|---|---|---|---|
| argus: policy documents | `PolicyDoc`, its content hash | `validate_policy`, `PolicyUpdate::apply` | only coherent documents go live | `TransferPolicy` |
| argus: governance and roles | `GuardConfig`, `PolicyVersion`, `PolicyPointer`, `RoleRegistry` | `configure_policy`, `set_guard_paused`, authority hand-over, `initialize_governance`, `propose/approve/activate/rollback/pin_policy`, role changes | live rules are approved by two people after a wait, and final once pinned; there is always an admin | `PolicyGovernance` implements `PolicyLifecycle` |
| argus: transfer hook | `WalletPolicyState`, `EligibilityCapability`, list entries | `execute`, `open_wallet_state`, `refresh_eligibility`, `invalidate_capability`, list entries | limits hold for what was really sent; no stale verdict; redemption is always possible | `TransferGuard` |
| argus: guard creation | all of the above | `initialize_transfer_guard` | starts from a valid policy | initial states of both |
| argus and vesta-core: trust | `TrustAnchor`, `MerchantTrust`, `degrade_mode`, `issue_status` | anchoring, re-verification crank, manual override | degradation follows a lasting failure, never within grace | `TrustTriangle` |
| aegis: accreditation | `TrustRoot`, `Accreditation` | register, activate, accredit, revoke, verify | a verdict needs an active root and a live edge | `TrustTriangle` |
| aegis: attestations and verification policies | `Attestation`, `Policy` | issue, update, revoke, erase, close, `register_policy`, `deprecate_policy`, `verify`, `verify_policy` | a withdrawn credential never verifies, an old one is not renewed | `Attestations` |
| aegis: issuers | `Issuer` | creation, pause, operator, two-step authority | no signer outlives the authority that appointed it | `Attestations` |
| aegis: schemas | `Schema` | register, deprecate | | not modelled: write-once, and no instruction reads it |
| vesta-core: earning | `Merchant`, `CustomerProfile`, mint supply | `earn_points`, `earn_points_campaign` | ceilings, caps, budgets, streaks, books | `MerchantPoints` |
| vesta-core: campaigns | `Campaign`, `CampaignProgress` | create, update, winback, close | budget and progress belong to one instance of an id | `MerchantPoints` |
| vesta-core: offers | `Offer`, `Receipt` | create, gate, close, redeem, close receipt | never oversold, never bricked | `MerchantPoints` |
| vesta-core: clawback | daily counter | `clawback` | daily cap | `MerchantPoints` |
| vesta-core: achievements | `Achievement`, `KleosReceipt` | create, close, grant | one badge per customer and id | `MerchantPoints` (without the badge mint) |
| vesta-core: merchant settings, protocol pause | flags and caps of `Merchant`, `Config` | pause, caps | | `MerchantPoints`, `MerchantAccounts`; operators and scoped roles are not modelled |
| vesta-core: registration | `Merchant`, the mint, the treasury account | register, close | what a closed merchant leaves behind does no harm when its address is registered again | `MerchantAccounts` |
| vesta-core: reserve | `MerchantReserve` and its escrow | open, fund, withdraw, attest | only minting leaves a covered reserve short | `MerchantAccounts` |
| vesta-core: koinon | `Alliance`, `AllianceMember` | create, authority, terms, join, leave, suspend, rates, budgets, `swap_points` | the three accounts agree on who is a member; swaps stay within budgets and create no value | `Koinon` |
| vesta-core: segments | `MerchantSegments`, `CustomerEligibility` | set the segments, refresh a verdict | a bit is aegis's word about today's segment, and not an old one | `Segmentation` |
| argus: licences, statements; vesta-core: statements | `License`, statements | purchase, anchor | expiry, one statement per period | not modelled |
| token attributes, badges' mint, IDL, scripts | Token-2022 accounts | library calls | | out of scope: no protocol state of their own |

How they interact: Token-2022 calls argus `execute` inside every transfer, gifts,
clawbacks and treasury payments alike; `refresh_eligibility` calls aegis and caches
the answer that `execute` reads; `reverify_accreditation` (argus) and
`reverify_merchant` (vesta-core) call aegis and move a posture that `execute` and
`earn_points` read; an activated policy moves `policy_epoch`, to which every
capability is bound. The modules meet at exactly these values: `policyEpoch`
(`PolicyGovernance` writes, `TransferGuard` checks), `degradeMode` and the merchant's
`frozen` (`TrustTriangle` writes, `TransferGuard` and `MerchantPoints` read), the
transfer that the guard lets through (`TransferGuard` decides, `Gift` and `Clawback` of
`MerchantPoints` make it). `refresh_customer_eligibility` calls aegis too, and caches one bit
per segment for earning and offers: here the two sides are composed, `Segmentation` extends
`Attestations` and runs all of its steps. Likewise `Koinon` extends `MerchantAccounts`, because swaps,
memberships, closing and the reserve act on the same merchant, mint and supply. `MerchantPoints`
is a third way to meet: what `MerchantAccounts` reduces to minting, burning and transferring is there
in full, and `ImplementsAccounts` says that it does no more to mint and token accounts than that.

## 2. The modules

### TransferPolicy
Constant-level: the policy document and `validate_policy`. A document stands for
its own SHA-256 hash (collisions are left out). Keys are model values, and
`NoKey` is `Pubkey::default()`, with which the programs write "none".

### PolicyGovernance and PolicyLifecycle
`PolicyGovernance` has one variable per account kind (`guard`, `versions`, `pointer`,
`registry`) and the clock, and one action per instruction of `admin.rs` and
`governance.rs` that touches them, its guard the `require!`s and account constraints
in the handler. `ApplyAndRepoint` is the function of that name, which activation and
rollback share. `PolicyLifecycle` is what a reader of the documentation would expect of
all this: rules switch among approved ones, approvals stay, freezing is final.
`ImplementsLifecycle` is the refinement: `approved` is the set of versions with a
non-zero `approved_at`.

### TransferGuard
`execute` is split into what its rules do: `PlainTransfer` (rules 1, 2 and 4, which
touch no velocity state) and `Gift` (rules 3 to 13 and the commit). Each rule is a
conjunct; `Rolled` is the day roll it computes before rule 11. A refused transfer
reverts the whole transaction and is an action that is not enabled. aegis is here
only `credential`: until when `verify` (by schema) or `verify_policy` (by policy
account) says yes for an owner. `RefreshEligibility` may be sent by anyone, with the
wrong attestation account (`presented = FALSE`); an expiry beyond `MaxInstant` is refused. The treasury
is an account of the merchant's owner, whose transfers out of it are gifts that count in that wallet's state
(`Holder`, `TreasuryOwner`). `transfers_today` saturates at `MaxCount`. Two history variables
record what really happened, for the properties to compare the accounts with:
`gifted` and `eligible`.

### TrustTriangle
aegis (`root`, `edge`), the anchors of any number of consumers and their postures. The
argus and vesta-core instructions are line-by-line twins, so one set of actions
serves both, with the postures each accepts (`Targets`) as a constant. Instants are
kept as ages capped at `MaxAge`, because the code only ever compares differences; this makes
the state finite without a bound on time, so that liveness can be checked.
History: `sinceReset`, `byCrank`.

### MerchantPoints
One merchant: earning with and without a campaign, campaigns, offers and receipts,
clawback, achievements, the switches and caps. `Accrue` is the function of that name
together with the mint and the first touch of a profile. Bonus arithmetic is kept in
full (clamps, headroom, quest completion); bps are counted in a coarser `Unit`. Two
clocks run: days, for streaks, caps and winbacks, and slots, for `created_slot`: `CreateCampaign` stamps the slot
the clock is at, which may be that of an earlier creation. The history variable `created` keeps for each id when that
was last, and whether it was a second time in that slot.
`Gift` is any transfer the guard lets through. Left out: signers, display
fields, and statistics that no instruction reads.

`Accounts` is the refinement mapping to `MerchantAccounts`, for the one merchant `Self` that stays registered,
has no reserve and is in no alliance: its supply is what was issued less what was burned, its holders are
the customers and the treasury, a badge or a retuned campaign is a stutter. It starts from `JustRegistered`.

### MerchantAccounts and Koinon
`MerchantAccounts` has what a merchant opens and closes: the merchant account with its mint
(`merchant`, `supply`, `balance`), the treasury token account, the reserve and its escrow. Its
actions are the handlers of `register_merchant.rs` and `merchant_reserve.rs`; earning and
redeeming are reduced to minting and burning, whose conditions are the subject of `MerchantPoints`;
gifts, payments and clawbacks to `Transfer`, whose conditions are that of `TransferGuard`. A `Holder` is a customer or
the treasury, which clawbacks fill. Anyone may burn what they hold, so a supply can always sink. `register_merchant` makes the treasury with a
`create` that an existing account refuses: a closed merchant can be registered
again only after its owner emptied and closed that account (`CloseTreasury`).

`Koinon` adds the alliance and membership accounts and the handlers of `koinon.rs`. `UiOut` is
the conversion of `swap_points` as written: a rate quotient rounded down, then the fee, rounded down.
Between displayed and raw points Token-2022 converts, in floating point and with a decay that
differs per mint and day: `Scale[m][day] / Grain` raw points to a displayed one, and `Raws`
leaves open whether an amount is rounded down or up. The history variable `inflow` is what swaps really
minted through a membership today; leaving an alliance closes the membership and ends its count.
Left out: who signs (member and alliance authority both do), the slippage bounds, which only refuse more, and
volume statistics.

### Attestations and Segmentation
`Attestations` is the aegis registry: issuers with their two-step authority, operator and pause;
credentials by issuer, subject and schema; verification policies. Only differences of
instants are ever compared, so a credential has an age, a time until it begins and a
time until it ends, and the clock (`PassTime`) moves all three. `Holds` is `evaluate`
on the canonical account, `PolicyHolds` is `verify_policy`. `grantor` is history: the
authority that appointed the present operator.

`Segmentation` is the verdict cache of one merchant over a whole `Attestations`. `Refresh` is
`refresh_customer_eligibility`, sent by anyone, for any slot, with the right attestation account or a wrong one
(`canonical = FALSE`); it fails for a TTL that cannot be added to the clock, `MaxTtl` being the longest that can
(`Refreshable`; that this limit sinks as time passes is left out). `vouched` is history: how long ago aegis last said yes of a slot.

### MC modules and proofs
`MC<Module>` gives the documents, role tables and campaigns for TLC as definitions.
`<Module>Proofs` extends the module and `TLAPS` and holds its theorems. `Totals` has what two of them
need of sums over accounts (`MapThenSumSet` of the community modules), and models no code. In each module a
section of faulty variants lists slips in single handlers; no specification uses them, and each
property is known to notice one of them.

## 3. What is checked

| Run | Question | Bounds |
|---|---|---|
| `governance` | Do officers, role changes and displaced proposals ever get unapproved or rushed rules live, undermine separation of duties, rewrite a stored version or strand the registry? Does it all implement the lifecycle? | 3 documents (two coherent, one not), 3 keys, 3 role tables (separated, merged, without admin), 4 role changes, timelock 1 (3 is refused), time 1 to 3, epoch saturating at 1 |
| `guard_eligibility` | Can a cached verdict be used after what it was about changed? | 2 wallets, 3 documents (by schema, by policy and deny list, one invalid), one switch and one screening bump, TTL 1 and 2, time to 4, expiries to 5 |
| `guard_velocity` | Do lazily rolled counters agree with what was sent? Is anyone stranded? | 2 wallets, one of them the treasury's owner, 2 points, amounts to 2, days of 3 seconds, 3 documents, two switches, pause and posture, a transfer counter that sticks at 2 and a volume that lets 3 gifts through |
| `triangle` | Is degradation ever premature? Do lasting failure and lasting recovery take effect? | one consumer with two postures, one root and issuer, two schemas, grace 0, 2 and 3, ages to 4 |
| `points_campaigns` | Do campaigns pay within budgets and caps, to whom they should, across re-creation? Does any stacking of boosts exceed the joint ceiling? Is anybody won back who never lapsed? | 2 customers, 1 id with 4 terms (flat, quest, a quest its cap makes impossible, a multiplier for a tier), budgets 0 and 3, caps 0 and 2, a winback window of 2 days, a segment boost, streak cap 2, 3 days, slots to 3, 7 points |
| `points_ledger` | Do the books reconcile, the caps hold, and can customers redeem? Does it all implement `MerchantAccounts`? | 2 customers, one offer of supply 1 closed and re-created, one achievement, caps 0 and 1, 2 days, 3 points, price conversions 1 and 2 |
| `koinon_economy` | Do merchant, membership and alliance agree through closing and registering anew? Do swaps create value or pass budgets? What leaves a reserve short? | 2 merchants (one may close and open a reserve), 1 alliance, rates 0 to 2, budgets 1 and 2, three offers of terms (one accepted, a fee above the maximum, crossed rate bounds), points of one merchant transferred (`Moving`), 2 days with one decaying mint, 2 points per mint, escrow 1 |
| `attestations` | Can anything but an active issuer make aegis say yes? | 1 issuer with founder, heir and operator, 1 credential, 1 policy with and without freshness, four validity windows, ages to 3 |
| `segments` | Are the bits of the cache what aegis last said, do they expire, and do revocations and holders get through? | 1 customer, 2 slots over 2 schemas, sets of one and of two segments that share a credential in different slots, and one of which cannot be refreshed, TTLs 0 (the default), 1, 2 and 3 (an overflow), set changed three times |

No run switches the deadlock check off.

Why the bounds are enough. Every guard compares a value with a constant, a day with
today or a key with a key, and each comparison falls both ways within the bounds:
the policy epoch saturates, timelocks run out and do not, days roll twice, streaks reach and pass
their cap, budgets run out in the middle of a bonus, an id is used three times, in one slot and in several.
Two customers (or wallets) are enough for one to act on
what the other left; three keys for an owner and two officers. One consumer is enough for
the trust triangle, since no instruction touches two (the proofs cover any number). `FirstDay` stands for
the some 20,000 days since 1970, which a customer's zero `last_visit_day` is
measured against; it is chosen larger than every winback window. `SYMMETRY Everyone`
permutes customers: no definition picks one of them, and those two runs check no liveness.
Nothing is assumed of the slots of campaigns: `CampaignBooks` and `QuestPaidInFull` claim equality, and a full
payment, only for campaigns that are not the second of their id in one slot, and `points_reuse` shows what that leaves out.
In `koinon_economy` the pause switches only resume (`Switches`): a pause
only refuses what is otherwise checked, and the theorems hold with pauses. The decay of a mint is
a function of merchant and day: that a re-registered mint starts its decay over is left out. In
`segments` the set changes at most `MaxEpoch` times, which stands for the 64 bits of `policy_epoch`:
the saturation is out of reach. `segments` bounds ages by the longest TTL, and no comparison looks further.
`EpochBound`, `MaxSupply`, `MaxTime`, `MaxDay`, `MaxSlot` and `MaxIssued` are bounds of the models
and not of the programs; they stop only counters that grow.

Fairness. Two runs have any. `triangle`: `WF(Tick)`, since the clock advances
by itself, and `WF(Reverify(c))` for every consumer. The programs do not
schedule the crank; they make it callable by anyone, and operations run it. The two
liveness properties say what follows if somebody does, and their premises ask that the
authority stops intervening. `segments`: `WF(Refresh(c, n, TRUE))`, that somebody keeps
asking aegis about every active segment with the right account; it is enabled whenever the slot is
active. Nothing is assumed of time, issuers or of those who refresh with a wrong account, so
`HoldersAreServed` says again and again, not from some point on.

### Disagreements between documentation and code

Three runs check what a comment, an error message or a specification says and find a behaviour of the
code that differs. Each is recorded with its line under `findings` in `PROJECT.json`.

| Run | What is said | The behaviour |
|---|---|---|
| `points_reuse` | `created_slot` tells a campaign from the earlier ones of its id, so that stale progress cannot bleed across | it is the Clock's slot: close and create in one slot, and the new campaign has the old one's progress for its own |
| `koinon_exclusive` | a merchant that belongs to an alliance is refused another | a membership outlives `close_merchant`; registered anew, the merchant joins a second alliance |
| `segments_ttl` | verdict staleness is bounded by the segment's TTL | the cache has one expiry, which a refresh of any segment renews for all; `LoneVerdictsExpire` is what does hold |

More are reachable in the models and have no run:

* `rollback_policy` installs a version as soon as it is approved, while `constants.rs` has every change
  wait out the timelock (`RollbackPolicy`; `ActivationWaitsOutTimelock` is stated of activations);
* a proposal displaced before its approval cannot be proposed again, as the version account is
  created with `init`, while `state.rs` calls proposals of the same rules idempotent;
* two short outages with no crank between them count as one failing streak, while `constants.rs` has the
  grace window absorb a transient outage;
* a quest reward clamped by the budget is paid in part and leaves the quest open; once the owner raises the budget a later
  earn pays the whole reward again, while `state.rs` calls the payout one-time (`Bonus` and `CompletesQuest`;
  `QuestPaidInFull` says only that a completed quest has paid at least its reward);
* no instruction consults the PauseOperator role; a winback campaign measures a first visit from 1970.

Consequences nobody promised otherwise: allow list and deny list share an entry account, so a
policy switch inverts what an entry means; a manual freeze is lifted by the next healthy crank; an
accreditation, once revoked, and a badge, once granted, cannot be made again; a proposal is validated
only at activation; alliance terms changed later do not touch rates already agreed; a swap mints
past the daily issuance cap and an issuance freeze; a member that leaves and
re-joins starts its daily budget anew.

## 4. What is proved

All proofs are checked by TLAPS to the last leaf and hold for every set of keys,
documents, owners, consumers and every limit that satisfies the assumptions, which give the
constants their types, keep sentinels apart, and say that customers and campaign ids are finitely many (an
address is 32 bytes, a campaign id a `u64`), as sums over them ask: `KeyAssumption`, `GovernanceAssumption`, `GuardAssumption`, `TriangleAssumption`,
`PointsAssumption`, `AccountsAssumption`, `KoinonAssumption`, `AttestationsAssumption`, `SegmentationAssumption`. TLC evaluates them in every run.

**Totals.** A sum over accounts is a fold: a recursive function that picks elements by `CHOOSE`.
The proofs need an induction over finite sets, which the library offers only with an operator
as parameter. So each lemma states it for its own claim: among the subsets for which the claim fails take one
that contains no other (`MinimalSubset`, from the well-foundedness of strict inclusion), take away the element
the fold picks, and the smaller set is no counterexample. In this way the function is
shown to exist (`SumExists`) and not to depend on the order of picking (`TotalSplits`). The rest is
what actions do to a sum: one account changes (`TotalAfterOne`), one gives
another (`TotalAfterMove`), an account is counted that was not (`TotalAfterNew`).

**PolicyGovernanceProofs.** `TypeCorrect`; then `GovernanceInvariant`. `LivePolicyIsApproved` is
not inductive alone: that `activate_policy` installs an approved version follows from the slot's
time, so `PendingMirrorsVersion` is needed; that a role change cannot unseat the last admin
needs `QueuedAdminIsReal`; that the genesis version is the only self-approved one needs
`ApprovedIsProposed` (propose does not touch a version that exists) and `BlankUntilGoverned`
(before adoption there is none). `GovernanceInv` is their conjunction, proved with one lemma per group of instructions. From it:
`ApprovedPolicyIsLive`, `SeparationOfDuties`, `RoleAdminNeverLost`, `PendingSlotAgrees`,
`TimelockHonoured`, `PinIsFinal`, `EpochMovesWithPolicy`, `VersionsAreNeverRewritten`,
`RoleChangesWait`, and `Implementation`, the refinement of `PolicyLifecycle`.

**TransferGuardProofs.** `GuardTypeCorrect`, then `GuardBookkeeping` for
`GuardInv = VelocityInv /\ EligibilityInv`. Velocity: a wallet's record is either
of today and equal to what was given today, or older and nothing was given
today; the clock's step over midnight needs the arithmetic of `DayArithmetic`. The count may stick below
what was given (`SaturatedCounts`), but never below a limit, as a limit is no wider than the counter. `now >= DaySecs` is
in the invariant because a zero day or time means "never". Eligibility: a positive
verdict bound to the current epochs belongs to a vouched owner and expires
within one TTL of now *and* of the credential's end; the second half is what bounds the
revocation latency. From it: `GiftsAreAccounted`, `LimitsAreKept`, `GiftsAreVouchedFor`,
`RevocationLatencyIsBounded`.

**TrustTriangleProofs.** `TriangleTypeCorrect`, then `TriangleInvariant`: an automatic
posture is backed by a streak as old as the grace window, and no streak is older than
the last reset. Each clause concerns one consumer (`Backed`), so a step of another
consumer leaves it alone (`OtherConsumers`). From it: `AutomaticFreezeIsBacked`,
`ResetsEndStreaks`, `GraceWindowIsGranted`.

**MerchantPointsProofs.** `PointsTypeCorrect` first: it carries the arithmetic (`ClampFits`,
`HeadroomIsNat`), since a subtraction that went below zero would leave `Nat`. `EarnPays` says once
what a campaign earn writes, and the campaign theorems rest on it. `BudgetsAreHonoured` and
`CustomerCapsAreHonoured` need no more than the types, as `UpdateCampaign` refuses a budget below
what is spent and a cap binds only payments made under it. `DailyCapsAreHonoured` needs
`CountersMatch` (a counter is of today and equals what was really minted, or is older and nothing
was). `StreaksAreConsecutive` needs that no visit lies in the future (`StreaksCount`);
`OnlyTheLapsedAreWonBack` follows, because the last visit is the latest. `QuestsArePaidInFull` rests on
`SlotsArePast`: no slot written down so far is ahead of the clock, and progress never carries one later than its id's last
creation; so a campaign that is not the second of its id in one slot meets no progress (`NewSlotIsClean`), and one that is
gets a weaker promise. `NextReceiptIsFree` is why a redemption is never refused for an
account that exists.

`BooksAlwaysReconcile` is inductive with the types alone, one account at a time: an earn moves one customer's
`earned` and balance, a first touch (of an earn or of a clawback) makes one more known, a gift moves a balance
without the sum noticing. `CampaignsKeepTheirBooks` sums over `Joiners`, whose progress
carries the slot of the present campaign; that a new campaign in a slot of its own has none is where `JoinedInv` is
needed, and with inherited ones only the inequality stays. `TheCeilingIsHonoured` is arithmetic about `Points`: the base and the multiplier's part are
rounded down separately, which never yields more than rounding their sum down (`PointsAdd`), and the
headroom is what the streak and segments leave of the ceiling (`MultiplierStaysUnder`); the right-hand side
sums what other campaigns paid, which `OnlyEarnsEarn` reduces to the one the earn names.

`PointsAreAccountSteps` is the refinement of `MerchantAccounts`, one lemma per kind of step: an earn is an `Issue`,
a redemption a `Retire`, gifts and clawbacks are `Transfer`s, and all others leave `Held` and what was
issued and burned alone. The abstract steps are bounded by the supply, so the proof needs that nobody holds more than
was ever issued (`HoldingsFit`, from `BooksReconcile`: what customers and treasury hold and what was burned adds up to
what was issued) and that this stays within `MaxIssued` (`IssuedFits`). Neither is visible in the step that
needs it, which is why the refinement rests on the books. Since the abstract steps are those of `Koinon`
for a merchant outside alliances, `NoPointsAreOrphaned` and `OnlyMintingUncovers` are about points earned and redeemed as
`MerchantPoints` has it.

**KoinonProofs.** `KoinonInvariant`: `TypeOK`, `Memberships`, `RatesDivide`, `InflowIsCounted`,
`PointsHaveAMerchant`. Counting members needs that they are finitely many at a time and that a
membership presupposes its alliance, so that the saturating decrement of `leave_alliance` never saturates; a
rate one can divide by comes from `join_alliance` and `set_swap_rate`. `InflowIsCounted` relates
the lazily reset counter to what was really minted. From it:
`KoinonTypeCorrect`, `MembershipsAreCounted`, `InflowStaysInBudget`; `NoPointsAreOrphaned`, with `SupplyIsHeld`
beside it, since a mint that registration starts anew has no holders only because a merchant
cannot close while points are out (a transfer moves points among a merchant's holders, treasury included, and
leaves their sum);
`ConversionCreatesNothing`, from the arithmetic of `swap_points` (`FeeTakes`, `ConversionLoses`, `Rounding`,
`SwapLoses`) for every rate, fee, decay and either rounding; and `OnlyMintingUncovers`, where every step but a withdrawal
leaves a reserve's terms and escrow no worse (`CoverStays`).

**AttestationsProofs.** `AegisInvariant` is the layout, validity windows included, and that
an operator was appointed by the authority of today; accepting a hand-over keeps the second because it
empties the operator's slot. From it: `AegisTypeCorrect`, `OperatorsAreAppointed`, `VouchingIsTheIssuers`,
`FreshnessIsNotRenewed`. The last two need only what one step does to one credential.

**SegmentationProofs.** `SegmentInvariant`: a bit of a cache of the current epoch was vouched for and
belongs to an active slot, and with a single active slot what is left of the expiry and the
verdict's age add up to no more than the TTL. With two active slots the second half is false, which is what
`segments_ttl` shows. From it: `SegmentsTypeCorrect`, `BitsAreVerdicts`, `LoneVerdictsAreBounded`.
`SegmentationRunsAegis` maps every step to one of `AegisSpec` or to none of its accounts changing, so
that `AegisKeepsItsPromises` carries the three properties of aegis over to the composition.

**Only model-checked.** Every other property of the passing runs is a theorem; two kinds are out of the
prover's reach. Liveness under fairness: `RevocationBites`, `RecoveryRestores`, `RevocationReachesCache`,
`HoldersAreServed`. And `ENABLED`: `AssetsNeverStranded`, `RedemptionNeverBricked`. Of the latter
`NextReceiptIsFree` is proved, the one condition of `redeem_offer` that the property's premise
does not give.

## 5. What is not modelled, and why

* PDA derivations, account sizes, rent, signatures as such, and the extra-account metas of the hook:
  Anchor constraints that fix *which* account is used. They are assumed to hold; the modules index
  accounts by what the seeds contain.
* Events, names, URIs, profile texts, and statistics that no instruction reads.
* Token-2022 itself: a transfer moves tokens and calls the hook, mint and burn change a
  balance. The conversion of a displayed price into raw points under the negative
  interest rate is a choice among raw costs (`Costs`) or roundings (`Raws`).
* Overflow of `u64` totals: additions in the modelled handlers are checked and revert, or saturate. Modelled so:
  `policy_epoch` of a governed guard (`SatInc`), `transfers_today` (`MaxCount`), the expiries of capabilities and verdicts
  (`MaxInstant`, `MaxTtl`). Beyond any run: the 64-bit epochs elsewhere (`screening_epoch`, that of the free
  tier in `TransferGuard`, that of the segments), 64-bit counters of points and customers, a streak of 65,535 days, and
  statistics. The 16 bits of `CampaignProgress.visits` are left out because no quest target is wider.
* Token accounts a wallet may have beside its first: `TransferGuard` has one for each owner, and the treasury as a second of
  its owner. Velocity is counted by owner, so further accounts would add nothing but room under the balance cap.
* The schema registry of aegis, operators and scoped roles of a merchant, licences and statements: see the
  inventory and the plan.

## 6. Plan

Order of importance. Done: 1 to 7.

1. `PolicyGovernance` / `PolicyLifecycle`, with proofs.
2. `TransferGuard`, with proofs.
3. `TrustTriangle`, with proofs.
4. `MerchantPoints`, with proofs.
5. `MerchantAccounts` and `Koinon` on top of it, with proofs.
6. `Attestations`, with proofs.
7. `Segmentation` on top of it, with proofs.
8. `Licensing`: the expiry arithmetic of purchases and grants, and the entitlement that only
   `anchor_statement` asks for. A perpetual licence (`expires_at` 0) becomes finite by a purchase.
9. `MerchantAuthority`: operators, scoped roles (`may_earn`, `may_manage`), and who signs what.
10. Compositions: `GovernedGuard` (governance drives the guard's policy, so that
    `policyEpoch` and its saturation are the same variable), `TrustedMerchant` (posture
    and earning: with the crank running, a lasting revocation stops issuance), and `TransferGuard`'s
    `credential` refined by `Attestations`.
