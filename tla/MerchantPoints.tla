--------------------------- MODULE MerchantPoints ---------------------------
(***************************************************************************)
(* The points of one vesta_core merchant: minted to customers by plain and *)
(* campaign earns, burned by redemptions, confiscated by clawbacks, given  *)
(* from hand to hand; and the accounts that keep count of them -- the      *)
(* merchant's, a profile per customer, a progress per campaign and         *)
(* customer, a receipt per redemption, a kleos receipt per badge.          *)
(*                                                                         *)
(* Signers are left out: some key may always earn and some key may always  *)
(* manage.  Verified-segment verdicts enter as the boost they add, and as  *)
(* whether a gated offer's customer has one.  The raw cost of a UI price   *)
(* drifts with the mint's decay, and is any of Costs[o].                   *)
(* Statistics nothing below reads are left out too.                        *)
(***************************************************************************)
EXTENDS Integers, FiniteSetsExt

CONSTANTS
  Customer, CampaignId, OfferId, AchievementId,
  Treasury,     \* the merchant's own token account, as a holder of points
  Terms,        \* create_campaign arguments in play, invalid ones included
  Budgets, Caps,\* update_campaign arguments in play (0: unlimited)
  Winbacks,     \* set_campaign_winback arguments in play
  Spends,       \* amount_base of an earn
  Boosts,       \* bps that a customer's segments may add to a plain earn
  EarnRate,     \* base_earn_rate
  Unit,         \* 10_000 bps
  StreakBps, StreakCap, MaxTotalBps,  \* STREAK_BPS_PER_DAY, STREAK_DAYS_CAP, MAX_TOTAL_MULTIPLIER_BPS
  MaxCampaignBps, MaxCampaignBonus, MaxQuestTarget, MaxEarnPerTx,
  Thresholds,   \* TIER_THRESHOLDS without the leading 0
  DailyCaps,    \* issuance and clawback caps in play (0: unlimited)
  Costs,        \* raw costs an offer's price may convert to
  Supplies, Levels,  \* supplies of offers, thresholds of achievements
  Amounts,      \* amounts given or clawed back
  Switches,     \* positions the pause and freeze switches are moved to
  FirstDay, MaxDay, MaxSlot, MaxIssued  \* bounds; FirstDay stands for some 20_000 days

CampaignArgs ==
  [kind : {"MULTIPLIER", "FLAT_BONUS", "QUEST"}, bps : Nat, flat : Nat, target : Nat,
   reward : Nat, minSpend : Nat, minTier : Nat, budget : Nat, cap : Nat, starts : Nat, ends : Nat]

ASSUME PointsAssumption ==
  /\ IsFiniteSet(Customer) /\ Treasury \notin Customer /\ IsFiniteSet(CampaignId)
  /\ {EarnRate, Unit, StreakBps, StreakCap, MaxTotalBps, MaxEarnPerTx} \subseteq Nat
  /\ {MaxCampaignBps, MaxCampaignBonus, MaxQuestTarget} \subseteq Nat
  /\ Unit > 0 /\ MaxTotalBps >= Unit
  /\ Budgets \subseteq Nat /\ Caps \subseteq Nat /\ Winbacks \subseteq Nat
  /\ Spends \subseteq Nat /\ Boosts \subseteq Nat /\ DailyCaps \subseteq Nat
  /\ Costs \in [OfferId -> SUBSET Nat] /\ Supplies \subseteq Nat
  /\ Levels \subseteq Nat /\ Amounts \subseteq Nat
  /\ FirstDay \in Nat /\ MaxDay \in Nat /\ MaxSlot \in Nat /\ MaxIssued \in Nat
  /\ Switches \subseteq BOOLEAN
  /\ Terms \subseteq CampaignArgs

VARIABLES
  halted,     \* Config.paused
  merchant,   \* Merchant: flags, daily caps and their day, lifetime counters
  profile,    \* CustomerProfile by customer (known: the account has an owner)
  balance,    \* raw points by customer
  treasury,   \* raw points in the merchant's treasury
  campaign,   \* Campaign by id (open: the account exists)
  progress,   \* CampaignProgress by campaign and customer (never closed)
  offer,      \* Offer by id (open: the account exists)
  receipts,   \* Receipt accounts: offer, customer, redemption number
  achievement,\* Achievement by id (open: the account exists)
  kleos,      \* KleosReceipt accounts: achievement and customer (never closed)
  day, slot,  \* the clock
  burned,     \* history: raw points burned
  minted,     \* history: raw points minted by earns today
  clawed,     \* history: raw points clawed back today
  visits,     \* history: the days on which each customer earned
  created     \* history: the slot each id was last created in, and if that was once more

clock == <<day, slot>>
catalogue == <<offer, receipts, achievement, kleos>>
vars == <<halted, merchant, profile, balance, treasury, campaign, progress, catalogue, clock,
          burned, minted, clawed, visits, created>>

NoProfile == [known |-> FALSE, streak |-> 0, lastDay |-> 0, earned |-> 0, spend |-> 0,
              redeemed |-> 0, clawed |-> 0]
NoCampaign == [open |-> FALSE]
NoProgress == [slot |-> 0, visits |-> 0, drawn |-> 0, completed |-> FALSE]
NeverCreated == [slot |-> 0, again |-> FALSE]
NoOffer == [open |-> FALSE]
NoAchievement == [open |-> FALSE]

Campaign ==
  [open : {TRUE}, terms : CampaignArgs, budget : Nat, cap : Nat, spent : Nat, participants : Nat,
   paused : BOOLEAN, slot : Nat, winback : Nat]

(* TypeOK: the declared layout of the accounts.                             *)
TypeOK ==
  /\ halted \in BOOLEAN
  /\ merchant \in [paused : BOOLEAN, frozen : BOOLEAN,
                   issueCap : Nat, issueDay : Nat, issuedToday : Nat,
                   clawCap : Nat, clawDay : Nat, clawedToday : Nat,
                   issued : Nat, customers : Nat, redemptions : Nat, clawed : Nat, badges : Nat]
  /\ profile \in [Customer -> [known : BOOLEAN, streak : Nat, lastDay : Nat, earned : Nat,
                               spend : Nat, redeemed : Nat, clawed : Nat]]
  /\ balance \in [Customer -> Nat] /\ treasury \in Nat
  /\ campaign \in [CampaignId -> Campaign \cup {NoCampaign}]
  /\ progress \in [CampaignId \X Customer ->
                     [slot : Nat, visits : Nat, drawn : Nat, completed : BOOLEAN]]
  /\ offer \in [OfferId -> [open : {TRUE}, supply : Nat, gated : BOOLEAN] \cup {NoOffer}]
  /\ receipts \in SUBSET (OfferId \X Customer \X Nat)
  /\ achievement \in [AchievementId -> [open : {TRUE}, level : Nat, badges : Nat] \cup {NoAchievement}]
  /\ kleos \in SUBSET (AchievementId \X Customer)
  /\ day \in Nat /\ slot \in Nat /\ burned \in Nat /\ minted \in Nat /\ clawed \in Nat
  /\ visits \in [Customer -> SUBSET Nat]
  /\ created \in [CampaignId -> [slot : Nat, again : BOOLEAN]]

-----------------------------------------------------------------------------
(* Helpers *)

Least(a, b) == IF a <= b THEN a ELSE b

(* A faulty variant: what a slip in the next definition would look like.   *)
StreakAfterAnyGap(p) == IF p.lastDay = day /\ p.streak > 0 THEN p.streak ELSE p.streak + 1

(* The streak after a visit today: one more on consecutive days, held on    *)
(* the same day, 1 otherwise.                                               *)
StreakAfter(p) ==
  IF p.lastDay = day THEN IF p.streak = 0 THEN 1 ELSE p.streak
  ELSE IF p.lastDay + 1 = day THEN p.streak + 1
  ELSE 1

(* Streak and segment boost together stay under the ceiling.                *)
TotalBps(streak, boost) == Least(Unit + Least(streak, StreakCap) * StreakBps + boost, MaxTotalBps)

Points(amount, bps) == (amount * EarnRate * bps) \div Unit

(* A tier is the number of thresholds lifetime_earned has reached.          *)
Tier(p) == Cardinality({t \in Thresholds : p.earned >= t})

(* A faulty variant: what a slip in the next definition would look like.   *)
ClampWholeLimit(payment, limit, used) == IF limit = 0 THEN payment ELSE Least(payment, limit)

(* A payment clamped by what is left of a limit (0: unlimited).             *)
Clamp(payment, limit, used) ==
  IF limit = 0 THEN payment ELSE IF used >= limit THEN 0 ELSE Least(payment, limit - used)

(* A faulty variant: what a slip in the next definition would look like.   *)
CountTodayAnew(counter, counterDay, amount) == amount

(* A daily counter, started anew on the first operation of a day.           *)
CountToday(counter, counterDay, amount) == (IF counterDay = day THEN counter ELSE 0) + amount

IsLive(k) ==
  /\ campaign[k].open /\ ~campaign[k].paused
  /\ campaign[k].terms.starts <= day /\ day < campaign[k].terms.ends
  /\ campaign[k].budget = 0 \/ campaign[k].spent < campaign[k].budget

(* A faulty variant: what a slip in the next definition would look like.   *)
IsStaleOnlyUnused(k, c) == progress[<<k, c>>].slot = 0

(* Progress kept for an earlier campaign of the same id counts for nothing. *)
IsStale(k, c) == progress[<<k, c>>].slot # campaign[k].slot

ProgressOf(k, c) == IF IsStale(k, c) THEN NoProgress ELSE progress[<<k, c>>]

(* A faulty variant: what a slip in the next definition would look like.   *)
MayIssueWhileHalted == ~merchant.paused /\ ~merchant.frozen

MayIssue == ~halted /\ ~merchant.paused /\ ~merchant.frozen

MayManage == ~halted /\ ~merchant.paused

(* A faulty variant: what a slip in the next definition would look like.   *)
NewCustomersNone(c) == 0

NewCustomers(c) == IF profile[c].known THEN 0 ELSE 1

(* A faulty variant: what a slip in the next definition would look like.   *)
HeadroomIgnoresStreak(streak) == MaxTotalBps - Unit

(* The headroom a multiplier campaign may use over the streak.              *)
Headroom(streak) == MaxTotalBps - TotalBps(streak, 0)

(* What a campaign pays on a visit before the limits; a quest pays from the *)
(* visit that reaches its target until it is completed.                     *)
GrossBonus(k, c, amount) ==
  LET t == campaign[k].terms
      done == ProgressOf(k, c)
  IN CASE t.kind = "MULTIPLIER" -> Points(amount, Least(t.bps, Headroom(StreakAfter(profile[c]))))
       [] t.kind = "FLAT_BONUS" -> t.flat
       [] t.kind = "QUEST" -> IF ~done.completed /\ done.visits + 1 >= t.target THEN t.reward ELSE 0

Bonus(k, c, amount) ==
  Clamp(Clamp(GrossBonus(k, c, amount), campaign[k].cap, ProgressOf(k, c).drawn),
        campaign[k].budget, campaign[k].spent)

(* A faulty variant: what a slip in the next definition would look like.   *)
CompletesQuestClamped(k, c, amount) ==
  campaign[k].terms.kind = "QUEST" /\ GrossBonus(k, c, amount) > 0

(* A quest completes on the visit that pays its whole reward.               *)
CompletesQuest(k, c, amount) ==
  /\ campaign[k].terms.kind = "QUEST"
  /\ GrossBonus(k, c, amount) > 0
  /\ Bonus(k, c, amount) = GrossBonus(k, c, amount)

(* A faulty variant: what a slip in the next definition would look like.   *)
LapsedCountingToday(k, c) == campaign[k].winback <= day - profile[c].lastDay + 1

(* min_days_inactive, measured before this visit is recorded.               *)
LapsedEnough(k, c) == campaign[k].winback <= day - profile[c].lastDay

(* validate(CampaignArgs)                                                   *)
ValidTerms(t) ==
  /\ t.starts < t.ends
  /\ t.kind = "MULTIPLIER" => t.bps \in 1 .. MaxCampaignBps
  /\ t.kind = "FLAT_BONUS" => t.flat \in 1 .. MaxCampaignBonus
  /\ t.kind = "QUEST" => /\ t.target \in 1 .. MaxQuestTarget
                         /\ t.reward \in 1 .. MaxCampaignBonus
                         /\ t.cap = 0 \/ t.cap >= t.reward
                         /\ t.budget = 0 \/ t.budget >= t.reward

-----------------------------------------------------------------------------
(* Faulty variants: what a slip in one function would look like.            *)

UpdateCampaignAnyBudget(k, ends, budget, cap, paused) ==
  /\ campaign[k].open
  /\ ends > campaign[k].terms.starts
  /\ campaign' = [campaign EXCEPT ![k].terms.ends = ends, ![k].budget = budget,
                                  ![k].cap = cap, ![k].paused = paused]
  /\ UNCHANGED <<halted, merchant, profile, balance, treasury, progress, catalogue, clock,
                 burned, minted, clawed, visits, created>>

CloseReceiptUncounts(o, c, n) ==
  /\ <<o, c, n>> \in receipts
  /\ receipts' = receipts \ {<<o, c, n>>}
  /\ profile' = [profile EXCEPT ![c].redeemed = @ - 1]
  /\ UNCHANGED <<halted, merchant, balance, treasury, campaign, progress, offer, achievement,
                 kleos, clock, burned, minted, clawed, visits, created>>

-----------------------------------------------------------------------------
(* Earning *)

(* accrue, with the minting and the wiring of a new profile around it.      *)
Accrue(c, amount, total) ==
  LET today == CountToday(merchant.issuedToday, merchant.issueDay, total)
  IN /\ total <= MaxEarnPerTx
     /\ merchant.issued + total <= MaxIssued
     /\ merchant.issueCap = 0 \/ today <= merchant.issueCap
     /\ profile' = [profile EXCEPT ![c].known = TRUE,
                                   ![c].streak = StreakAfter(profile[c]),
                                   ![c].lastDay = day,
                                   ![c].earned = @ + total,
                                   ![c].spend = @ + amount]
     /\ merchant' = [merchant EXCEPT !.issued = @ + total, !.issueDay = day,
                                     !.issuedToday = today, !.customers = @ + NewCustomers(c)]
     /\ balance' = [balance EXCEPT ![c] = @ + total]
     /\ minted' = minted + total
     /\ visits' = [visits EXCEPT ![c] = @ \cup {day}]

EarnPoints(c, amount, boost) ==
  /\ MayIssue
  /\ amount > 0
  /\ Accrue(c, amount, Points(amount, TotalBps(StreakAfter(profile[c]), boost)))
  /\ UNCHANGED <<halted, treasury, campaign, progress, catalogue, clock, burned, clawed, created>>

EarnPointsCampaign(c, k, amount) ==
  /\ MayIssue
  /\ amount > 0
  /\ IsLive(k)
  /\ amount >= campaign[k].terms.minSpend
  /\ Tier(profile[c]) >= campaign[k].terms.minTier
  /\ campaign[k].winback > 0 => LapsedEnough(k, c)
  /\ LET bonus == Bonus(k, c, amount)
         was == ProgressOf(k, c)
     IN /\ Accrue(c, amount, Points(amount, TotalBps(StreakAfter(profile[c]), 0)) + bonus)
        /\ campaign' = [campaign EXCEPT ![k].spent = @ + bonus,
                                        ![k].participants = @ + IF IsStale(k, c) THEN 1 ELSE 0]
        /\ progress' = [progress EXCEPT ![<<k, c>>] =
             [slot |-> campaign[k].slot,
              visits |-> IF campaign[k].terms.kind = "QUEST" THEN was.visits + 1 ELSE was.visits,
              drawn |-> was.drawn + bonus,
              completed |-> was.completed \/ CompletesQuest(k, c, amount)]]
  /\ UNCHANGED <<halted, treasury, catalogue, clock, burned, clawed, created>>

-----------------------------------------------------------------------------
(* Campaigns *)

CampaignOnly == UNCHANGED <<halted, merchant, profile, balance, treasury, progress, catalogue,
                            day, burned, minted, clawed, visits>>

(* The campaign is stamped with the slot s the Clock shows: the one of the  *)
(* last step, or a later one.                                               *)
CreateCampaign(k, t, s) ==
  /\ MayManage
  /\ ~campaign[k].open
  /\ ValidTerms(t)
  /\ s <= MaxSlot
  /\ slot' = s
  /\ campaign' = [campaign EXCEPT ![k] =
       [open |-> TRUE, terms |-> t, budget |-> t.budget, cap |-> t.cap, spent |-> 0,
        participants |-> 0, paused |-> FALSE, slot |-> s, winback |-> 0]]
  /\ created' = [created EXCEPT ![k] = [slot |-> s, again |-> created[k].slot = s]]
  /\ CampaignOnly

(* An argument left out is the value it has: that passes every check.       *)
UpdateCampaign(k, ends, budget, cap, paused) ==
  /\ campaign[k].open
  /\ ends > campaign[k].terms.starts
  /\ budget = 0 \/ budget >= campaign[k].spent
  /\ campaign[k].terms.kind = "QUEST" =>
       /\ budget = 0 \/ budget >= campaign[k].terms.reward
       /\ cap = 0 \/ cap >= campaign[k].terms.reward
  /\ campaign' = [campaign EXCEPT ![k].terms.ends = ends, ![k].budget = budget,
                                  ![k].cap = cap, ![k].paused = paused]
  /\ slot' = slot /\ created' = created /\ CampaignOnly

SetCampaignWinback(k, days) ==
  /\ campaign[k].open
  /\ campaign' = [campaign EXCEPT ![k].winback = days]
  /\ slot' = slot /\ created' = created /\ CampaignOnly

CloseCampaign(k) ==
  /\ campaign[k].open
  /\ campaign' = [campaign EXCEPT ![k] = NoCampaign]
  /\ slot' = slot /\ created' = created /\ CampaignOnly

-----------------------------------------------------------------------------
(* Redemption, gifts and clawback *)

CreateOffer(o, supply) ==
  /\ MayManage
  /\ ~offer[o].open
  /\ supply > 0
  /\ offer' = [offer EXCEPT ![o] = [open |-> TRUE, supply |-> supply, gated |-> FALSE]]
  /\ UNCHANGED <<halted, merchant, profile, balance, treasury, campaign, progress, receipts,
                 achievement, kleos, clock, burned, minted, clawed, visits, created>>

CloseOffer(o) ==
  /\ offer[o].open
  /\ offer' = [offer EXCEPT ![o] = NoOffer]
  /\ UNCHANGED <<halted, merchant, profile, balance, treasury, campaign, progress, receipts,
                 achievement, kleos, clock, burned, minted, clawed, visits, created>>

SetOfferSegment(o, gated) ==
  /\ offer[o].open
  /\ offer' = [offer EXCEPT ![o].gated = gated]
  /\ UNCHANGED <<halted, merchant, profile, balance, treasury, campaign, progress, receipts,
                 achievement, kleos, clock, burned, minted, clawed, visits, created>>

(* A gated offer asks for a fresh positive verdict on its segment.  The     *)
(* receipt is created under the customer's redemption number.               *)
RedeemOffer(o, c, verified) ==
  /\ MayManage
  /\ offer[o].open
  /\ offer[o].gated => verified
  /\ offer[o].supply > 0
  /\ \E raw \in Costs[o] :
       /\ raw <= balance[c]
       /\ balance' = [balance EXCEPT ![c] = @ - raw]
       /\ burned' = burned + raw
  /\ offer' = [offer EXCEPT ![o].supply = @ - 1]
  /\ <<o, c, profile[c].redeemed>> \notin receipts
  /\ receipts' = receipts \cup {<<o, c, profile[c].redeemed>>}
  /\ profile' = [profile EXCEPT ![c].known = TRUE, ![c].redeemed = @ + 1]
  /\ merchant' = [merchant EXCEPT !.redemptions = @ + 1, !.customers = @ + NewCustomers(c)]
  /\ UNCHANGED <<halted, treasury, campaign, progress, achievement, kleos, clock,
                 minted, clawed, visits, created>>

CloseReceipt(o, c, n) ==
  /\ <<o, c, n>> \in receipts
  /\ receipts' = receipts \ {<<o, c, n>>}
  /\ UNCHANGED <<halted, merchant, profile, balance, treasury, campaign, progress, offer,
                 achievement, kleos, clock, burned, minted, clawed, visits, created>>

(* A gift the transfer guard lets through: no instruction of this program.  *)
Gift(c, d, amount) ==
  /\ c # d /\ amount <= balance[c]
  /\ balance' = [balance EXCEPT ![c] = @ - amount, ![d] = @ + amount]
  /\ UNCHANGED <<halted, merchant, profile, treasury, campaign, progress, catalogue, clock,
                 burned, minted, clawed, visits, created>>

(* The guard always lets a transfer to the treasury through.                *)
Clawback(c, amount) ==
  LET today == CountToday(merchant.clawedToday, merchant.clawDay, amount)
  IN /\ ~halted
     /\ amount > 0 /\ amount <= balance[c]
     /\ merchant.clawCap = 0 \/ today <= merchant.clawCap
     /\ balance' = [balance EXCEPT ![c] = @ - amount]
     /\ treasury' = treasury + amount
     /\ profile' = [profile EXCEPT ![c].known = TRUE, ![c].clawed = @ + amount]
     /\ merchant' = [merchant EXCEPT !.clawDay = day, !.clawedToday = today,
                                     !.clawed = @ + amount, !.customers = @ + NewCustomers(c)]
     /\ clawed' = clawed + amount
  /\ UNCHANGED <<halted, campaign, progress, catalogue, clock, burned, minted, visits, created>>

-----------------------------------------------------------------------------
(* Badges *)

CreateAchievement(a, level) ==
  /\ MayManage
  /\ ~achievement[a].open
  /\ level > 0
  /\ achievement' = [achievement EXCEPT ![a] = [open |-> TRUE, level |-> level, badges |-> 0]]
  /\ UNCHANGED <<halted, merchant, profile, balance, treasury, campaign, progress, offer,
                 receipts, kleos, clock, burned, minted, clawed, visits, created>>

CloseAchievement(a) ==
  /\ achievement[a].open
  /\ achievement' = [achievement EXCEPT ![a] = NoAchievement]
  /\ UNCHANGED <<halted, merchant, profile, balance, treasury, campaign, progress, offer,
                 receipts, kleos, clock, burned, minted, clawed, visits, created>>

GrantAchievement(a, c) ==
  /\ MayManage
  /\ achievement[a].open /\ profile[c].known
  /\ profile[c].earned >= achievement[a].level
  /\ <<a, c>> \notin kleos
  /\ kleos' = kleos \cup {<<a, c>>}
  /\ achievement' = [achievement EXCEPT ![a].badges = @ + 1]
  /\ merchant' = [merchant EXCEPT !.badges = @ + 1]
  /\ UNCHANGED <<halted, profile, balance, treasury, campaign, progress, offer, receipts,
                 clock, burned, minted, clawed, visits, created>>

-----------------------------------------------------------------------------
(* The owner's switches and caps, the protocol's pause, and the posture that *)
(* the accreditation crank imposes (module TrustTriangle).                   *)

MerchantOnly == UNCHANGED <<halted, profile, balance, treasury, campaign, progress, catalogue,
                            clock, burned, minted, clawed, visits, created>>

SetMerchantPaused(paused) ==
  /\ merchant' = [merchant EXCEPT !.paused = paused]
  /\ MerchantOnly

SetIssueStatus(frozen) ==
  /\ merchant' = [merchant EXCEPT !.frozen = frozen]
  /\ MerchantOnly

SetDailyIssueCap(limit) ==
  /\ merchant' = [merchant EXCEPT !.issueCap = limit]
  /\ MerchantOnly

SetClawbackCap(limit) ==
  /\ merchant' = [merchant EXCEPT !.clawCap = limit]
  /\ MerchantOnly

SetPaused(paused) ==
  /\ halted' = paused
  /\ UNCHANGED <<merchant, profile, balance, treasury, campaign, progress, catalogue, clock,
                 burned, minted, clawed, visits, created>>

NextDay ==
  /\ day < MaxDay /\ slot < MaxSlot
  /\ day' = day + 1 /\ slot' = slot + 1
  /\ minted' = 0 /\ clawed' = 0
  /\ UNCHANGED <<halted, merchant, profile, balance, treasury, campaign, progress, catalogue,
                 burned, visits, created>>

-----------------------------------------------------------------------------
Init ==
  /\ halted = FALSE
  /\ merchant = [paused |-> FALSE, frozen |-> FALSE,
                 issueCap |-> 0, issueDay |-> 0, issuedToday |-> 0,
                 clawCap |-> 0, clawDay |-> 0, clawedToday |-> 0,
                 issued |-> 0, customers |-> 0, redemptions |-> 0, clawed |-> 0, badges |-> 0]
  /\ profile = [c \in Customer |-> NoProfile]
  /\ balance = [c \in Customer |-> 0] /\ treasury = 0
  /\ campaign = [k \in CampaignId |-> NoCampaign]
  /\ progress = [e \in CampaignId \X Customer |-> NoProgress]
  /\ offer = [o \in OfferId |-> NoOffer] /\ receipts = {}
  /\ achievement = [a \in AchievementId |-> NoAchievement] /\ kleos = {}
  /\ day = FirstDay /\ slot = 1
  /\ burned = 0 /\ minted = 0 /\ clawed = 0
  /\ visits = [c \in Customer |-> {}]
  /\ created = [k \in CampaignId |-> NeverCreated]

EarnStep ==
  \E c \in Customer, amount \in Spends :
    \/ \E boost \in Boosts : EarnPoints(c, amount, boost)
    \/ \E k \in CampaignId : EarnPointsCampaign(c, k, amount)

CampaignStep ==
  \E k \in CampaignId :
    \/ \E t \in Terms, s \in slot .. slot + 1 : CreateCampaign(k, t, s)
    \/ \E ends \in {t.ends : t \in Terms}, budget \in Budgets, cap \in Caps, paused \in Switches \cup {FALSE} :
         UpdateCampaign(k, ends, budget, cap, paused)
    \/ \E days \in Winbacks : SetCampaignWinback(k, days)
    \/ CloseCampaign(k)

RedemptionStep ==
  \/ \E o \in OfferId :
       \/ \E supply \in Supplies : CreateOffer(o, supply)
       \/ CloseOffer(o)
       \/ \E gated \in BOOLEAN : SetOfferSegment(o, gated)
       \/ \E c \in Customer, verified \in BOOLEAN : RedeemOffer(o, c, verified)
  \/ \E r \in receipts : CloseReceipt(r[1], r[2], r[3])
  \/ \E c \in Customer, amount \in Amounts :
       \/ \E d \in Customer : Gift(c, d, amount)
       \/ Clawback(c, amount)

BadgeStep ==
  \E a \in AchievementId :
    \/ \E level \in Levels : CreateAchievement(a, level)
    \/ CloseAchievement(a)
    \/ \E c \in Customer : GrantAchievement(a, c)

OwnerStep ==
  \/ \E on \in Switches : SetMerchantPaused(on) \/ SetIssueStatus(on) \/ SetPaused(on)
  \/ \E limit \in DailyCaps : SetDailyIssueCap(limit) \/ SetClawbackCap(limit)

Next == EarnStep \/ CampaignStep \/ RedemptionStep \/ BadgeStep \/ OwnerStep \/ NextDay

Spec == Init /\ [][Next]_vars

-----------------------------------------------------------------------------
(* The accounts behind the points: module MerchantAccounts for a merchant   *)
(* that stays registered, has no reserve and is in no alliance.             *)

Self == "self"
Held == [h \in Customer \cup {Treasury} |-> IF h = Treasury THEN treasury ELSE balance[h]]

SeenMerchant == [m \in {Self} |-> [open |-> TRUE, paused |-> merchant.paused, joined |-> "none"]]
SeenSupply == [m \in {Self} |-> merchant.issued - burned]
SeenBalance == [m \in {Self} |-> Held]

Accounts == INSTANCE MerchantAccounts WITH
  Merchant <- {Self}, Alliance <- {}, NoAlliance <- "none",
  Closers <- {}, Backed <- {}, Moving <- {Self}, ReserveTerms <- {},
  MaxSupply <- MaxIssued, MaxEscrow <- 0,
  merchant <- SeenMerchant, treasuries <- {Self}, supply <- SeenSupply, balance <- SeenBalance,
  reserve <- [m \in {Self} |-> [open |-> FALSE, value |-> 0, ratio |-> 0]],
  escrow <- [m \in {Self} |-> 0]

-----------------------------------------------------------------------------
(* Properties *)

(* ImplementsAccounts: starting where registration leaves them, the mint    *)
(* and the token accounts change by the steps of MerchantAccounts only: an  *)
(* earn issues while nothing is paused, a redemption retires what its       *)
(* customer holds, a gift and a clawback move points, and all else that a   *)
(* merchant, its campaigns and badges go through leaves them alone.  So what*)
(* Koinon shows over those steps is about points earned and redeemed so.    *)
ImplementsAccounts ==
  /\ Accounts!JustRegistered
  /\ [][Accounts!AccountsStep]_(Accounts!accounts)

(* The customer's progress belongs to the campaign that is open now.        *)
HasJoined(k, c) == progress[<<k, c>>].slot = campaign[k].slot

(* BudgetHonoured: whatever campaigns are retuned to while they pay, no     *)
(* campaign has ever paid more than the budget it has now.                  *)
BudgetHonoured ==
  \A k \in CampaignId :
    campaign[k].open /\ campaign[k].budget > 0 => campaign[k].spent <= campaign[k].budget

(* CampaignBooks: a campaign pays for no more customers and points than the *)
(* progress accounts hold for it; and they agree exactly, unless the id had *)
(* a campaign before in the very slot this one was created in, which leaves *)
(* it progress it never counted.                                            *)
CampaignBooks ==
  \A k \in CampaignId : campaign[k].open =>
    LET mine == {c \in Customer : HasJoined(k, c)}
        drawn == MapThenSumSet(LAMBDA c : progress[<<k, c>>].drawn, mine)
    IN /\ campaign[k].participants <= Cardinality(mine)
       /\ campaign[k].spent <= drawn
       /\ ~created[k].again => /\ campaign[k].participants = Cardinality(mine)
                               /\ campaign[k].spent = drawn

(* CustomerCapHonoured: a step that pays a bonus to a customer leaves what  *)
(* they drew under the campaign within the cap in force.                    *)
CustomerCapHonoured ==
  [][\A k \in CampaignId, c \in Customer :
       progress'[<<k, c>>].drawn > progress[<<k, c>>].drawn /\ campaign[k].cap > 0 =>
         progress'[<<k, c>>].drawn <= campaign[k].cap]_vars

(* QuestPaidInFull: a quest marked completed has paid its whole reward,     *)
(* unless the mark is inherited from an earlier quest of the id and slot.   *)
QuestPaidInFull ==
  \A k \in CampaignId, c \in Customer :
    /\ campaign[k].open /\ ~created[k].again
    /\ HasJoined(k, c) /\ progress[<<k, c>>].completed
    => progress[<<k, c>>].drawn >= campaign[k].terms.reward

(* StreakIsConsecutive: the streak is the number of consecutive days with a *)
(* visit, up to the last one.                                               *)
StreakIsConsecutive ==
  \A c \in Customer : LET p == profile[c] IN
    IF visits[c] = {} THEN p.streak = 0
    ELSE /\ p.lastDay \in visits[c] /\ \A d \in visits[c] : d <= p.lastDay
         /\ p.streak > 0
         /\ (p.lastDay - p.streak + 1) .. p.lastDay \subseteq visits[c]
         /\ p.lastDay - p.streak \notin visits[c]

(* CeilingHonoured: but for flat bonuses and quest rewards, an earn mints   *)
(* at most the joint ceiling of streak, segments and multiplier campaign.   *)
CeilingHonoured ==
  [][\A c \in Customer :
       LET paid == {k \in CampaignId : campaign[k].open /\ campaign'[k].open
                                       /\ campaign[k].terms.kind # "MULTIPLIER"}
       IN profile'[c].earned - profile[c].earned
            <= Points(profile'[c].spend - profile[c].spend, MaxTotalBps)
               + MapThenSumSet(LAMBDA k : campaign'[k].spent - campaign[k].spent, paid)]_vars

(* WinbackPaysLapsed: a winback campaign applies to a customer who has been *)
(* here before only after an absence of its min_days_inactive days.         *)
WinbackPaysLapsed ==
  [][\A k \in CampaignId, c \in Customer :
       progress'[<<k, c>>] # progress[<<k, c>>] /\ campaign[k].winback > 0 =>
         \A d \in visits[c] : d + campaign[k].winback <= day]_vars

(* BooksReconcile: the merchant's counters agree with the customers'        *)
(* accounts, and every point ever issued is held, confiscated or burned.    *)
BooksReconcile ==
  /\ merchant.customers = Cardinality({c \in Customer : profile[c].known})
  /\ merchant.issued = MapThenSumSet(LAMBDA c : profile[c].earned, Customer)
  /\ merchant.redemptions = MapThenSumSet(LAMBDA c : profile[c].redeemed, Customer)
  /\ merchant.clawed = MapThenSumSet(LAMBDA c : profile[c].clawed, Customer)
  /\ merchant.badges = Cardinality(kleos)
  /\ merchant.issued = MapThenSumSet(LAMBDA c : balance[c], Customer) + treasury + burned
  /\ \A a \in AchievementId :
       achievement[a].open => achievement[a].badges <= Cardinality({e \in kleos : e[1] = a})

(* DailyCapsHonoured: points really minted, or really clawed back, in a day *)
(* stay within the cap in force when the last of them were.                 *)
DailyCapsHonoured ==
  [][/\ minted' > minted /\ merchant.issueCap > 0 => minted' <= merchant.issueCap
     /\ clawed' > clawed /\ merchant.clawCap > 0 => clawed' <= merchant.clawCap]_vars

(* RedemptionNeverBricked: while neither pause is on, a customer who can    *)
(* pay for an offer that is not sold out, and has the verdict it may ask    *)
(* for, can redeem it -- frozen issuance, earlier receipts and a missing    *)
(* profile notwithstanding.                                                 *)
RedemptionNeverBricked ==
  \A o \in OfferId, c \in Customer :
    MayManage /\ offer[o].open /\ (\E raw \in Costs[o] : raw <= balance[c]) =>
      offer[o].supply = 0 \/ ENABLED RedeemOffer(o, c, TRUE)

(* NewCampaignStartsClean: state.rs has the creation slot tell a campaign   *)
(* from an earlier one of the same id, so that "stale CampaignProgress      *)
(* cannot bleed across": a customer with progress has been counted.  The    *)
(* slot is the Clock's, so closing and creating anew within it repeats it.  *)
NewCampaignStartsClean ==
  \A k \in CampaignId : campaign[k].open /\ campaign[k].participants = 0 =>
    \A c \in Customer : ~HasJoined(k, c)
=============================================================================
