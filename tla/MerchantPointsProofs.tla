------------------------ MODULE MerchantPointsProofs ------------------------
(***************************************************************************)
(* Theorems about MerchantPoints for every set of customers, campaigns and *)
(* offers, and every value of the rates, limits and caps.                  *)
(***************************************************************************)
EXTENDS MerchantPoints, Totals, FiniteSetTheorems, TLAPS

(* The arithmetic of an earn yields raw amounts, never a negative number.   *)
LEMMA LeastIsNat == ASSUME NEW a \in Nat, NEW b \in Nat
                    PROVE  Least(a, b) \in Nat /\ Least(a, b) <= a /\ Least(a, b) <= b
BY DEF Least

LEMMA PointsIsNat == ASSUME NEW a \in Nat, NEW bps \in Nat PROVE Points(a, bps) \in Nat
<1>1. a * EarnRate \in Nat
  BY PointsAssumption
<1>2. (a * EarnRate) * bps \in Nat
  BY <1>1
<1>3. \A n \in Nat, u \in Nat \ {0} : n \div u \in Nat
  OBVIOUS
<1>4. QED
  BY <1>2, <1>3, PointsAssumption DEF Points

(* A payment clamped by a limit fits into what is left of it.               *)
LEMMA ClampFits ==
  ASSUME NEW payment \in Nat, NEW limit \in Nat, NEW used \in Nat
  PROVE  /\ Clamp(payment, limit, used) \in Nat
         /\ Clamp(payment, limit, used) <= payment
         /\ limit > 0 /\ Clamp(payment, limit, used) > 0 => used + Clamp(payment, limit, used) <= limit
BY DEF Clamp, Least

ProfileType == [known : BOOLEAN, streak : Nat, lastDay : Nat, earned : Nat,
                spend : Nat, redeemed : Nat, clawed : Nat]

ProgressType == [slot : Nat, visits : Nat, drawn : Nat, completed : BOOLEAN]

LEMMA StreakIsPositive ==
  ASSUME NEW p \in ProfileType, day \in Nat
  PROVE  StreakAfter(p) \in Nat /\ StreakAfter(p) > 0
BY DEF StreakAfter, ProfileType

LEMMA TotalBpsIsNat ==
  ASSUME NEW streak \in Nat, NEW boost \in Nat
  PROVE  TotalBps(streak, boost) \in Nat /\ TotalBps(streak, boost) <= MaxTotalBps
<1> DEFINE credited == Least(streak, StreakCap)
<1>1. credited \in Nat
  BY LeastIsNat, PointsAssumption
<1>2. credited * StreakBps \in Nat
  BY <1>1, PointsAssumption
<1>3. Unit + credited * StreakBps + boost \in Nat
  BY <1>2, PointsAssumption
<1>4. QED
  BY <1>3, LeastIsNat, PointsAssumption DEF TotalBps

(* The headroom a multiplier campaign may use is never negative.            *)
LEMMA HeadroomIsNat == ASSUME NEW streak \in Nat PROVE Headroom(streak) \in Nat
<1>1. TotalBps(streak, 0) \in Nat /\ TotalBps(streak, 0) <= MaxTotalBps
  BY TotalBpsIsNat
<1>2. QED
  BY <1>1, PointsAssumption DEF Headroom

(* An account that exists has the layout of its kind.                       *)
LEMMA OpenCampaign ==
  ASSUME TypeOK, NEW k \in CampaignId, campaign[k].open
  PROVE  campaign[k] \in Campaign
BY DEF TypeOK, NoCampaign

LEMMA ProgressIsRecord ==
  ASSUME TypeOK, NEW k \in CampaignId, NEW c \in Customer
  PROVE  progress[<<k, c>>] \in ProgressType /\ ProgressOf(k, c) \in ProgressType
BY DEF TypeOK, ProgressOf, NoProgress, ProgressType

LEMMA BonusIsNat ==
  ASSUME TypeOK, NEW k \in CampaignId, NEW c \in Customer, NEW amount \in Nat, campaign[k].open
  PROVE  GrossBonus(k, c, amount) \in Nat /\ Bonus(k, c, amount) \in Nat
<1>1. /\ campaign[k].terms \in CampaignArgs
      /\ campaign[k].cap \in Nat /\ campaign[k].budget \in Nat /\ campaign[k].spent \in Nat
  BY OpenCampaign DEF Campaign
<1>2. /\ campaign[k].terms.kind \in {"MULTIPLIER", "FLAT_BONUS", "QUEST"}
      /\ campaign[k].terms.bps \in Nat /\ campaign[k].terms.flat \in Nat
      /\ campaign[k].terms.reward \in Nat
  BY <1>1 DEF CampaignArgs
<1>3. profile[c] \in ProfileType /\ day \in Nat
  BY DEF TypeOK, ProfileType
<1>4. Points(amount, Least(campaign[k].terms.bps, Headroom(StreakAfter(profile[c])))) \in Nat
  BY <1>2, <1>3, StreakIsPositive, HeadroomIsNat, LeastIsNat, PointsIsNat
<1>5. GrossBonus(k, c, amount) \in Nat
  BY <1>2, <1>4 DEF GrossBonus
<1>6. ProgressOf(k, c).drawn \in Nat
  BY ProgressIsRecord DEF ProgressType
<1>7. QED
  BY <1>1, <1>5, <1>6, ClampFits DEF Bonus

-----------------------------------------------------------------------------
(* Type correctness, one lemma per group of instructions.                   *)
MerchantType == [paused : BOOLEAN, frozen : BOOLEAN,
                 issueCap : Nat, issueDay : Nat, issuedToday : Nat,
                 clawCap : Nat, clawDay : Nat, clawedToday : Nat,
                 issued : Nat, customers : Nat, redemptions : Nat, clawed : Nat, badges : Nat]

(* Writing amounts into the amounts of a record leaves a record of its kind.*)
LEMMA ProfileUpdate ==
  ASSUME NEW p \in ProfileType, NEW streak \in Nat, NEW last \in Nat, NEW earned \in Nat,
         NEW spend \in Nat
  PROVE  [p EXCEPT !.known = TRUE, !.streak = streak, !.lastDay = last, !.earned = earned,
                   !.spend = spend] \in ProfileType
BY DEF ProfileType

LEMMA IssuanceUpdate ==
  ASSUME NEW m \in MerchantType, NEW issued \in Nat, NEW last \in Nat, NEW today \in Nat,
         NEW customers \in Nat
  PROVE  [m EXCEPT !.issued = issued, !.issueDay = last, !.issuedToday = today,
                   !.customers = customers] \in MerchantType
BY DEF MerchantType

LEMMA PaymentUpdate ==
  ASSUME NEW k \in Campaign, NEW spent \in Nat, NEW participants \in Nat
  PROVE  [k EXCEPT !.spent = spent, !.participants = participants] \in Campaign
BY DEF Campaign

LEMMA AccrueKeepsType ==
  ASSUME TypeOK, NEW c \in Customer, NEW amount \in Nat, NEW total \in Nat,
         Accrue(c, amount, total)
  PROVE  /\ profile' \in [Customer -> ProfileType] /\ merchant' \in MerchantType
         /\ balance' \in [Customer -> Nat] /\ minted' \in Nat
         /\ visits' \in [Customer -> SUBSET Nat]
<1>1. profile[c] \in ProfileType /\ day \in Nat /\ merchant \in MerchantType
  BY DEF TypeOK, ProfileType, MerchantType
<1>2. StreakAfter(profile[c]) \in Nat
  BY <1>1, StreakIsPositive
<1>3. /\ CountToday(merchant.issuedToday, merchant.issueDay, total) \in Nat
      /\ NewCustomers(c) \in Nat
  BY <1>1 DEF CountToday, NewCustomers, MerchantType
<1>4. profile' \in [Customer -> ProfileType]
  <2>1. profile' = [profile EXCEPT ![c].known = TRUE, ![c].streak = StreakAfter(profile[c]),
                                   ![c].lastDay = day, ![c].earned = @ + total,
                                   ![c].spend = @ + amount]
    BY DEF Accrue
  <2>2. profile \in [Customer -> ProfileType]
    BY DEF TypeOK, ProfileType
  <2>3. profile[c].earned + total \in Nat /\ profile[c].spend + amount \in Nat
    BY <1>1 DEF ProfileType
  <2>4. [profile[c] EXCEPT !.known = TRUE, !.streak = StreakAfter(profile[c]), !.lastDay = day,
                           !.earned = @ + total, !.spend = @ + amount] \in ProfileType
    BY <1>1, <1>2, <2>3, ProfileUpdate
  <2>5. QED
    BY <2>1, <2>2, <2>4
<1>5. merchant' \in MerchantType
  <2>1. merchant' = [merchant EXCEPT
          !.issued = @ + total, !.issueDay = day,
          !.issuedToday = CountToday(merchant.issuedToday, merchant.issueDay, total),
          !.customers = @ + NewCustomers(c)]
    BY DEF Accrue
  <2>2. merchant.issued + total \in Nat /\ merchant.customers + NewCustomers(c) \in Nat
    BY <1>1, <1>3 DEF MerchantType
  <2>3. QED
    BY <1>1, <1>3, <2>1, <2>2, IssuanceUpdate
<1>6. balance' \in [Customer -> Nat] /\ minted' \in Nat /\ visits' \in [Customer -> SUBSET Nat]
  BY <1>1 DEF Accrue, TypeOK
<1>7. QED
  BY <1>4, <1>5, <1>6

LEMMA EarnStepKeepsType ==
  ASSUME TypeOK, EarnStep PROVE TypeOK'
<1>1. ASSUME NEW c \in Customer, NEW amount \in Nat, NEW boost \in Nat,
             EarnPoints(c, amount, boost)
      PROVE  TypeOK'
  <2>1. Points(amount, TotalBps(StreakAfter(profile[c]), boost)) \in Nat
    BY StreakIsPositive, TotalBpsIsNat, PointsIsNat DEF TypeOK, ProfileType
  <2>2. /\ profile' \in [Customer -> ProfileType] /\ merchant' \in MerchantType
        /\ balance' \in [Customer -> Nat] /\ minted' \in Nat
        /\ visits' \in [Customer -> SUBSET Nat]
    BY <1>1, <2>1, AccrueKeepsType DEF EarnPoints
  <2>3. QED
    BY <1>1, <2>2 DEF EarnPoints, TypeOK, catalogue, clock, ProfileType, MerchantType
<1>2. ASSUME NEW c \in Customer, NEW k \in CampaignId, NEW amount \in Nat,
             EarnPointsCampaign(c, k, amount)
      PROVE  TypeOK'
  <2> DEFINE bonus == Bonus(k, c, amount)
             was == ProgressOf(k, c)
             base == Points(amount, TotalBps(StreakAfter(profile[c]), 0))
  <2>1. base \in Nat
    BY StreakIsPositive, TotalBpsIsNat, PointsIsNat DEF TypeOK, ProfileType
  <2>2. campaign[k].open /\ campaign[k] \in Campaign
    BY <1>2, OpenCampaign DEF EarnPointsCampaign, IsLive
  <2>3. bonus \in Nat
    BY <2>2, BonusIsNat
  <2>4. Accrue(c, amount, base + bonus)
    BY <1>2 DEF EarnPointsCampaign
  <2>5. base + bonus \in Nat
    BY <2>1, <2>3
  <2> HIDE DEF base, bonus
  <2>6. /\ profile' \in [Customer -> ProfileType] /\ merchant' \in MerchantType
        /\ balance' \in [Customer -> Nat] /\ minted' \in Nat
        /\ visits' \in [Customer -> SUBSET Nat]
    BY <2>4, <2>5, AccrueKeepsType
  <2>7. campaign' \in [CampaignId -> Campaign \cup {NoCampaign}]
    <3>1. campaign' = [campaign EXCEPT ![k].spent = @ + bonus,
                        ![k].participants = @ + IF IsStale(k, c) THEN 1 ELSE 0]
      BY <1>2 DEF EarnPointsCampaign, bonus
    <3>2. campaign \in [CampaignId -> Campaign \cup {NoCampaign}]
      BY DEF TypeOK
    <3>3. [campaign[k] EXCEPT !.spent = @ + bonus,
                              !.participants = @ + IF IsStale(k, c) THEN 1 ELSE 0] \in Campaign
      <4>1. campaign[k].spent \in Nat /\ campaign[k].participants \in Nat
        BY <2>2 DEF Campaign
      <4>2. /\ campaign[k].spent + bonus \in Nat
            /\ campaign[k].participants + (IF IsStale(k, c) THEN 1 ELSE 0) \in Nat
        BY <2>3, <4>1
      <4>3. QED
        BY <2>2, <4>2, PaymentUpdate
    <3>4. QED
      BY <3>1, <3>2, <3>3
  <2>8. progress' \in [CampaignId \X Customer -> ProgressType]
    <3>1. was \in ProgressType
      BY ProgressIsRecord
    <3>2. \E done \in BOOLEAN :
            progress' = [progress EXCEPT ![<<k, c>>] =
               [slot |-> campaign[k].slot,
                visits |-> IF campaign[k].terms.kind = "QUEST" THEN was.visits + 1 ELSE was.visits,
                drawn |-> was.drawn + bonus,
                completed |-> done]]
      <4>1. (was.completed \/ CompletesQuest(k, c, amount)) \in BOOLEAN
        BY <3>1 DEF ProgressType, CompletesQuest
      <4>2. QED
        BY <1>2, <4>1 DEF EarnPointsCampaign, bonus
    <3>3. campaign[k].slot \in Nat
      BY <2>2 DEF Campaign
    <3>4. progress \in [CampaignId \X Customer -> ProgressType]
      BY DEF TypeOK, ProgressType
    <3> HIDE DEF was
    <3>5. QED
      BY <2>3, <3>1, <3>2, <3>3, <3>4 DEF ProgressType
  <2>9. QED
    BY <1>2, <2>6, <2>7, <2>8
       DEF EarnPointsCampaign, TypeOK, catalogue, clock, ProfileType, MerchantType, ProgressType
<1>3. Spends \subseteq Nat /\ Boosts \subseteq Nat
  BY PointsAssumption
<1>4. QED
  BY <1>1, <1>2, <1>3 DEF EarnStep

(* An instruction on one campaign account leaves it absent or well formed.  *)
LEMMA CampaignStepKeepsType ==
  ASSUME TypeOK, CampaignStep PROVE TypeOK'
<1>1. ASSUME NEW k \in CampaignId, NEW new \in Campaign \cup {NoCampaign},
             campaign' = [campaign EXCEPT ![k] = new], slot' \in Nat, CampaignOnly,
             created' \in [CampaignId -> [slot : Nat, again : BOOLEAN]]
      PROVE  TypeOK'
  <2>1. campaign' \in [CampaignId -> Campaign \cup {NoCampaign}]
    BY <1>1 DEF TypeOK
  <2>2. QED
    BY <1>1, <2>1 DEF CampaignOnly, TypeOK, catalogue
<1>2. slot \in Nat /\ created \in [CampaignId -> [slot : Nat, again : BOOLEAN]]
  BY DEF TypeOK
<1>3. ASSUME NEW k \in CampaignId, NEW t \in Terms, NEW s \in Nat, CreateCampaign(k, t, s)
      PROVE  TypeOK'
  <2>1. t \in CampaignArgs /\ t.budget \in Nat /\ t.cap \in Nat
    BY PointsAssumption DEF CampaignArgs
  <2>2. [open |-> TRUE, terms |-> t, budget |-> t.budget, cap |-> t.cap, spent |-> 0,
         participants |-> 0, paused |-> FALSE, slot |-> s, winback |-> 0] \in Campaign
    BY <1>3, <2>1 DEF CreateCampaign, Campaign
  <2>3. created' \in [CampaignId -> [slot : Nat, again : BOOLEAN]]
    BY <1>2, <1>3 DEF CreateCampaign
  <2>4. QED
    BY <1>1, <1>3, <2>2, <2>3 DEF CreateCampaign
<1>4. ASSUME NEW k \in CampaignId, NEW ends \in Nat, NEW budget \in Nat, NEW cap \in Nat,
             NEW paused \in BOOLEAN, UpdateCampaign(k, ends, budget, cap, paused)
      PROVE  TypeOK'
  <2>1. campaign[k] \in Campaign
    BY <1>4, OpenCampaign DEF UpdateCampaign
  <2>2. [campaign[k].terms EXCEPT !.ends = ends] \in CampaignArgs
    BY <2>1 DEF Campaign, CampaignArgs
  <2>3. [campaign[k] EXCEPT !.terms.ends = ends, !.budget = budget, !.cap = cap,
                            !.paused = paused] \in Campaign
    BY <2>1, <2>2 DEF Campaign
  <2>4. campaign' = [campaign EXCEPT ![k] =
                       [campaign[k] EXCEPT !.terms.ends = ends, !.budget = budget, !.cap = cap,
                                           !.paused = paused]]
    BY <1>4, <2>1 DEF UpdateCampaign, TypeOK, Campaign
  <2>5. /\ slot' \in Nat /\ CampaignOnly
        /\ created' \in [CampaignId -> [slot : Nat, again : BOOLEAN]]
    BY <1>2, <1>4 DEF UpdateCampaign
  <2>6. QED
    BY <1>1, <2>3, <2>4, <2>5
<1>5. ASSUME NEW k \in CampaignId, NEW days \in Nat, SetCampaignWinback(k, days) PROVE TypeOK'
  <2>1. campaign[k] \in Campaign
    BY <1>5, OpenCampaign DEF SetCampaignWinback
  <2>2. [campaign[k] EXCEPT !.winback = days] \in Campaign
    BY <2>1 DEF Campaign
  <2>3. QED
    BY <1>1, <1>2, <1>5, <2>2 DEF SetCampaignWinback
<1>6. ASSUME NEW k \in CampaignId, CloseCampaign(k) PROVE TypeOK'
  BY <1>1, <1>2, <1>6 DEF CloseCampaign
<1>7. /\ Budgets \subseteq Nat /\ Caps \subseteq Nat /\ Winbacks \subseteq Nat
      /\ Switches \subseteq BOOLEAN /\ {t.ends : t \in Terms} \subseteq Nat
      /\ slot .. slot + 1 \subseteq Nat
  BY <1>2, PointsAssumption DEF CampaignArgs
<1>8. QED
  BY <1>3, <1>4, <1>5, <1>6, <1>7 DEF CampaignStep

OfferType == [open : {TRUE}, supply : Nat, gated : BOOLEAN]

AchievementType == [open : {TRUE}, level : Nat, badges : Nat]

LEMMA RedemptionUpdate ==
  ASSUME NEW p \in ProfileType, NEW m \in MerchantType, NEW n \in Nat, NEW redemptions \in Nat,
         NEW customers \in Nat
  PROVE  /\ [p EXCEPT !.known = TRUE, !.redeemed = n] \in ProfileType
         /\ [m EXCEPT !.redemptions = redemptions, !.customers = customers] \in MerchantType
BY DEF ProfileType, MerchantType

LEMMA ClawbackUpdate ==
  ASSUME NEW p \in ProfileType, NEW m \in MerchantType, NEW n \in Nat, NEW last \in Nat,
         NEW today \in Nat, NEW total \in Nat, NEW customers \in Nat
  PROVE  /\ [p EXCEPT !.known = TRUE, !.clawed = n] \in ProfileType
         /\ [m EXCEPT !.clawDay = last, !.clawedToday = today, !.clawed = total,
                      !.customers = customers] \in MerchantType
BY DEF ProfileType, MerchantType

LEMMA RedeemKeepsType ==
  ASSUME TypeOK, NEW o \in OfferId, NEW c \in Customer, NEW verified \in BOOLEAN,
         RedeemOffer(o, c, verified)
  PROVE  TypeOK'
<1>1. /\ profile \in [Customer -> ProfileType] /\ merchant \in MerchantType
      /\ balance \in [Customer -> Nat] /\ burned \in Nat
      /\ offer \in [OfferId -> OfferType \cup {NoOffer}]
      /\ receipts \in SUBSET (OfferId \X Customer \X Nat)
  BY DEF TypeOK, ProfileType, MerchantType, OfferType
<1>2. PICK raw \in Costs[o] : /\ raw <= balance[c]
                              /\ balance' = [balance EXCEPT ![c] = @ - raw]
                              /\ burned' = burned + raw
  BY DEF RedeemOffer
<1>3. raw \in Nat
  BY <1>2, PointsAssumption
<1>4. balance' \in [Customer -> Nat] /\ burned' \in Nat
  BY <1>1, <1>2, <1>3
<1>5. offer' \in [OfferId -> OfferType \cup {NoOffer}]
  <2>1. offer[o] \in OfferType /\ offer[o].supply > 0
    BY <1>1 DEF RedeemOffer, NoOffer
  <2>2. offer[o].supply - 1 \in Nat
    <3>1. offer[o].supply \in Nat
      BY <2>1 DEF OfferType
    <3>2. QED
      BY <2>1, <3>1
  <2>3. [offer[o] EXCEPT !.supply = @ - 1] \in OfferType
    BY <2>1, <2>2 DEF OfferType
  <2>4. QED
    BY <1>1, <2>3 DEF RedeemOffer
<1>6. profile[c].redeemed \in Nat /\ profile[c].redeemed + 1 \in Nat
  BY <1>1 DEF ProfileType
<1>7. receipts' \in SUBSET (OfferId \X Customer \X Nat)
  BY <1>1, <1>6 DEF RedeemOffer
<1>8. profile' \in [Customer -> ProfileType] /\ merchant' \in MerchantType
  <2>1. merchant.redemptions + 1 \in Nat /\ merchant.customers + NewCustomers(c) \in Nat
    BY <1>1 DEF MerchantType, NewCustomers
  <2>2. /\ [profile[c] EXCEPT !.known = TRUE, !.redeemed = @ + 1] \in ProfileType
        /\ [merchant EXCEPT !.redemptions = @ + 1, !.customers = @ + NewCustomers(c)]
             \in MerchantType
    BY <1>1, <1>6, <2>1, RedemptionUpdate
  <2>3. profile' = [profile EXCEPT ![c].known = TRUE, ![c].redeemed = @ + 1]
    BY DEF RedeemOffer
  <2>4. QED
    BY <1>1, <2>2, <2>3 DEF RedeemOffer
<1>9. QED
  BY <1>4, <1>5, <1>7, <1>8
     DEF RedeemOffer, TypeOK, clock, ProfileType, MerchantType, OfferType

LEMMA ClawbackKeepsType ==
  ASSUME TypeOK, NEW c \in Customer, NEW amount \in Nat, Clawback(c, amount)
  PROVE  TypeOK'
<1> DEFINE today == CountToday(merchant.clawedToday, merchant.clawDay, amount)
<1>1. /\ profile \in [Customer -> ProfileType] /\ merchant \in MerchantType
      /\ balance \in [Customer -> Nat] /\ day \in Nat
  BY DEF TypeOK, ProfileType, MerchantType
<1>2. balance' \in [Customer -> Nat] /\ treasury' \in Nat /\ clawed' \in Nat
  BY <1>1 DEF Clawback, TypeOK
<1>3. today \in Nat /\ merchant.clawed + amount \in Nat
  BY <1>1 DEF CountToday, MerchantType
<1>4. merchant.customers + NewCustomers(c) \in Nat
  BY <1>1 DEF MerchantType, NewCustomers
<1>5. profile[c].clawed + amount \in Nat
  BY <1>1 DEF ProfileType
<1>6. profile' = [profile EXCEPT ![c].known = TRUE, ![c].clawed = @ + amount]
  BY DEF Clawback
<1>7. merchant' = [merchant EXCEPT !.clawDay = day, !.clawedToday = today, !.clawed = @ + amount,
                                   !.customers = @ + NewCustomers(c)]
  BY DEF Clawback
<1>8. /\ [profile[c] EXCEPT !.known = TRUE, !.clawed = @ + amount] \in ProfileType
      /\ merchant' \in MerchantType
  <2> HIDE DEF today
  <2>1. QED
    BY <1>1, <1>3, <1>4, <1>5, <1>7, ClawbackUpdate
<1>9. profile' \in [Customer -> ProfileType]
  BY <1>1, <1>6, <1>8
<1>10. QED
  BY <1>2, <1>8, <1>9 DEF Clawback, TypeOK, catalogue, clock, ProfileType, MerchantType

LEMMA RedemptionStepKeepsType ==
  ASSUME TypeOK, RedemptionStep PROVE TypeOK'
<1>1. offer \in [OfferId -> OfferType \cup {NoOffer}]
  BY DEF TypeOK, OfferType
<1>2. ASSUME NEW o \in OfferId, NEW new \in OfferType \cup {NoOffer},
             offer' = [offer EXCEPT ![o] = new],
             UNCHANGED <<halted, merchant, profile, balance, treasury, campaign, progress, receipts,
                         achievement, kleos, clock, burned, minted, clawed, visits, created>>
      PROVE  TypeOK'
  <2>1. offer' \in [OfferId -> OfferType \cup {NoOffer}]
    BY <1>1, <1>2
  <2>2. QED
    BY <1>2, <2>1 DEF TypeOK, clock, OfferType
<1>3. ASSUME NEW o \in OfferId, NEW supply \in Nat, CreateOffer(o, supply) PROVE TypeOK'
  <2>1. [open |-> TRUE, supply |-> supply, gated |-> FALSE] \in OfferType
    BY DEF OfferType
  <2>2. QED
    BY <1>2, <1>3, <2>1 DEF CreateOffer
<1>4. ASSUME NEW o \in OfferId, CloseOffer(o) PROVE TypeOK'
  BY <1>2, <1>4 DEF CloseOffer
<1>5. ASSUME NEW o \in OfferId, NEW gated \in BOOLEAN, SetOfferSegment(o, gated) PROVE TypeOK'
  <2>1. offer[o] \in OfferType
    BY <1>1, <1>5 DEF SetOfferSegment, NoOffer
  <2>2. [offer[o] EXCEPT !.gated = gated] \in OfferType
    BY <2>1 DEF OfferType
  <2>3. QED
    BY <1>2, <1>5, <2>2 DEF SetOfferSegment
<1>6. ASSUME NEW r \in receipts, CloseReceipt(r[1], r[2], r[3]) PROVE TypeOK'
  BY <1>6 DEF CloseReceipt, TypeOK, clock
<1>7. ASSUME NEW c \in Customer, NEW d \in Customer, NEW amount \in Nat, Gift(c, d, amount)
      PROVE  TypeOK'
  <2>1. balance' \in [Customer -> Nat]
    BY <1>7 DEF Gift, TypeOK
  <2>2. QED
    BY <1>7, <2>1 DEF Gift, TypeOK, catalogue, clock
<1>8. Supplies \subseteq Nat /\ Amounts \subseteq Nat
  BY PointsAssumption
<1>9. QED
  BY <1>3, <1>4, <1>5, <1>6, <1>7, <1>8, RedeemKeepsType, ClawbackKeepsType DEF RedemptionStep

LEMMA BadgeStepKeepsType ==
  ASSUME TypeOK, BadgeStep PROVE TypeOK'
<1>1. /\ achievement \in [AchievementId -> AchievementType \cup {NoAchievement}]
      /\ merchant \in MerchantType
  BY DEF TypeOK, AchievementType, MerchantType
<1>2. ASSUME NEW a \in AchievementId, NEW level \in Nat, CreateAchievement(a, level) PROVE TypeOK'
  <2>1. [open |-> TRUE, level |-> level, badges |-> 0] \in AchievementType
    BY DEF AchievementType
  <2>2. achievement' \in [AchievementId -> AchievementType \cup {NoAchievement}]
    BY <1>1, <1>2, <2>1 DEF CreateAchievement
  <2>3. QED
    BY <1>2, <2>2 DEF CreateAchievement, TypeOK, clock, AchievementType
<1>3. ASSUME NEW a \in AchievementId, CloseAchievement(a) PROVE TypeOK'
  <2>1. achievement' \in [AchievementId -> AchievementType \cup {NoAchievement}]
    BY <1>1, <1>3 DEF CloseAchievement
  <2>2. QED
    BY <1>3, <2>1 DEF CloseAchievement, TypeOK, clock, AchievementType
<1>4. ASSUME NEW a \in AchievementId, NEW c \in Customer, GrantAchievement(a, c) PROVE TypeOK'
  <2>1. achievement[a] \in AchievementType
    BY <1>1, <1>4 DEF GrantAchievement, NoAchievement
  <2>2. achievement[a].badges \in Nat /\ merchant.badges \in Nat
    BY <1>1, <2>1 DEF AchievementType, MerchantType
  <2>3. achievement[a].badges + 1 \in Nat /\ merchant.badges + 1 \in Nat
    BY <2>2
  <2>4. /\ [achievement[a] EXCEPT !.badges = @ + 1] \in AchievementType
        /\ [merchant EXCEPT !.badges = @ + 1] \in MerchantType
    BY <1>1, <2>1, <2>3 DEF AchievementType, MerchantType
  <2>5. /\ achievement' \in [AchievementId -> AchievementType \cup {NoAchievement}]
        /\ merchant' \in MerchantType
    BY <1>1, <1>4, <2>4 DEF GrantAchievement
  <2>6. kleos' \in SUBSET (AchievementId \X Customer)
    BY <1>4 DEF GrantAchievement, TypeOK
  <2>7. QED
    BY <1>4, <2>5, <2>6 DEF GrantAchievement, TypeOK, clock, AchievementType, MerchantType
<1>5. Levels \subseteq Nat
  BY PointsAssumption
<1>6. QED
  BY <1>2, <1>3, <1>4, <1>5 DEF BadgeStep

LEMMA OwnerStepKeepsType ==
  ASSUME TypeOK, OwnerStep PROVE TypeOK'
<1>1. merchant \in MerchantType /\ Switches \subseteq BOOLEAN /\ DailyCaps \subseteq Nat
  BY PointsAssumption DEF TypeOK, MerchantType
<1>2. CASE \E on \in Switches : SetPaused(on)
  BY <1>1, <1>2 DEF SetPaused, TypeOK, catalogue, clock
<1>3. ASSUME merchant' \in MerchantType, MerchantOnly PROVE TypeOK'
  BY <1>3 DEF MerchantOnly, TypeOK, catalogue, clock, MerchantType
<1>4. ASSUME NEW on \in Switches, SetMerchantPaused(on) \/ SetIssueStatus(on) PROVE TypeOK'
  <2>1. merchant' \in MerchantType
    BY <1>1, <1>4 DEF SetMerchantPaused, SetIssueStatus, MerchantType
  <2>2. QED
    BY <1>3, <1>4, <2>1 DEF SetMerchantPaused, SetIssueStatus
<1>5. ASSUME NEW limit \in DailyCaps, SetDailyIssueCap(limit) \/ SetClawbackCap(limit)
      PROVE  TypeOK'
  <2>1. merchant' \in MerchantType
    BY <1>1, <1>5 DEF SetDailyIssueCap, SetClawbackCap, MerchantType
  <2>2. QED
    BY <1>3, <1>5, <2>1 DEF SetDailyIssueCap, SetClawbackCap
<1>6. QED
  BY <1>2, <1>4, <1>5 DEF OwnerStep

(* PointsTypeCorrect: every account keeps its declared layout, and no       *)
(* counter, supply or balance ever becomes negative.                        *)
THEOREM PointsTypeCorrect == Spec => []TypeOK
<1>1. Init => TypeOK
  <2> SUFFICES ASSUME Init PROVE TypeOK
    OBVIOUS
  <2>1. /\ profile \in [Customer -> ProfileType] /\ merchant \in MerchantType
        /\ progress \in [CampaignId \X Customer -> ProgressType]
    BY DEF Init, NoProfile, NoProgress, ProfileType, MerchantType, ProgressType
  <2>2. QED
    BY <2>1, PointsAssumption
       DEF Init, TypeOK, NoCampaign, NeverCreated, NoOffer, NoAchievement, ProfileType, MerchantType,
           ProgressType
<1>2. TypeOK /\ [Next]_vars => TypeOK'
  <2> SUFFICES ASSUME TypeOK, [Next]_vars PROVE TypeOK'
    OBVIOUS
  <2>1. CASE NextDay
    <3>1. day' \in Nat /\ slot' \in Nat /\ minted' \in Nat /\ clawed' \in Nat
      BY <2>1 DEF NextDay, TypeOK
    <3>2. QED
      BY <2>1, <3>1 DEF NextDay, TypeOK, catalogue
  <2>2. CASE UNCHANGED vars
    BY <2>2 DEF vars, TypeOK, catalogue, clock
  <2>3. QED
    BY <2>1, <2>2, EarnStepKeepsType, CampaignStepKeepsType, RedemptionStepKeepsType,
       BadgeStepKeepsType, OwnerStepKeepsType DEF Next
<1>3. QED
  BY <1>1, <1>2, PTL DEF Spec

-----------------------------------------------------------------------------
(* Which steps touch campaigns and progress.                                *)
LEMMA OnlyCampaignsMove ==
  ASSUME [Next]_vars,
         ~\E c \in Customer, k \in CampaignId, amount \in Spends : EarnPointsCampaign(c, k, amount),
         ~CampaignStep
  PROVE  UNCHANGED <<campaign, progress, created>>
BY DEF Next, vars, catalogue, EarnStep, EarnPoints, RedemptionStep, CreateOffer, CloseOffer,
       SetOfferSegment, RedeemOffer, CloseReceipt, Gift, Clawback, BadgeStep, CreateAchievement,
       CloseAchievement, GrantAchievement, OwnerStep, MerchantOnly, SetMerchantPaused,
       SetIssueStatus, SetDailyIssueCap, SetClawbackCap, SetPaused, NextDay

(* What a campaign earn writes: one payment, into one campaign and into one *)
(* customer's progress.                                                     *)
LEMMA EarnPays ==
  ASSUME TypeOK, NEW c \in Customer, NEW k \in CampaignId, NEW amount \in Nat,
         EarnPointsCampaign(c, k, amount)
  PROVE  /\ campaign[k] \in Campaign /\ Bonus(k, c, amount) \in Nat
         /\ GrossBonus(k, c, amount) \in Nat
         /\ campaign'[k] \in Campaign
         /\ campaign'[k].spent = campaign[k].spent + Bonus(k, c, amount)
         /\ campaign'[k].budget = campaign[k].budget /\ campaign'[k].cap = campaign[k].cap
         /\ campaign'[k].slot = campaign[k].slot /\ campaign'[k].terms = campaign[k].terms
         /\ campaign'[k].participants =
              campaign[k].participants + (IF IsStale(k, c) THEN 1 ELSE 0)
         /\ \A j \in CampaignId \ {k} : campaign'[j] = campaign[j]
         /\ progress'[<<k, c>>].slot = campaign[k].slot
         /\ progress'[<<k, c>>].drawn = ProgressOf(k, c).drawn + Bonus(k, c, amount)
         /\ progress'[<<k, c>>].completed =
              (ProgressOf(k, c).completed \/ CompletesQuest(k, c, amount))
         /\ \A j \in CampaignId, d \in Customer :
              <<j, d>> # <<k, c>> => progress'[<<j, d>>] = progress[<<j, d>>]
         /\ UNCHANGED <<slot, created>>
<1> DEFINE bonus == Bonus(k, c, amount)
<1>1. campaign[k].open /\ campaign[k] \in Campaign
  BY OpenCampaign DEF EarnPointsCampaign, IsLive
<1>2. bonus \in Nat /\ GrossBonus(k, c, amount) \in Nat
  BY <1>1, BonusIsNat
<1>3. campaign' = [campaign EXCEPT ![k].spent = @ + bonus,
                                   ![k].participants = @ + IF IsStale(k, c) THEN 1 ELSE 0]
  BY DEF EarnPointsCampaign
<1>4. progress' = [progress EXCEPT ![<<k, c>>] =
        [slot |-> campaign[k].slot,
         visits |-> IF campaign[k].terms.kind = "QUEST" THEN ProgressOf(k, c).visits + 1
                                                        ELSE ProgressOf(k, c).visits,
         drawn |-> ProgressOf(k, c).drawn + bonus,
         completed |-> ProgressOf(k, c).completed \/ CompletesQuest(k, c, amount)]]
  BY DEF EarnPointsCampaign
<1> HIDE DEF bonus
<1>5. DOMAIN campaign = CampaignId /\ DOMAIN progress = CampaignId \X Customer
  BY DEF TypeOK
<1>6. campaign'[k] \in Campaign
  <2>1. campaign[k].spent \in Nat /\ campaign[k].participants \in Nat
    BY <1>1 DEF Campaign
  <2>2. campaign[k].spent + bonus \in Nat
        /\ campaign[k].participants + (IF IsStale(k, c) THEN 1 ELSE 0) \in Nat
    BY <1>2, <2>1
  <2>3. [campaign[k] EXCEPT !.spent = @ + bonus,
                            !.participants = @ + IF IsStale(k, c) THEN 1 ELSE 0] \in Campaign
    BY <1>1, <2>2, PaymentUpdate
  <2>4. QED
    BY <1>3, <1>5, <2>3
<1>7. /\ campaign'[k].spent = campaign[k].spent + bonus
      /\ campaign'[k].budget = campaign[k].budget /\ campaign'[k].cap = campaign[k].cap
      /\ campaign'[k].slot = campaign[k].slot /\ campaign'[k].terms = campaign[k].terms
      /\ campaign'[k].participants =
           campaign[k].participants + (IF IsStale(k, c) THEN 1 ELSE 0)
      /\ \A j \in CampaignId \ {k} : campaign'[j] = campaign[j]
  BY <1>1, <1>3, <1>5 DEF Campaign
<1>8. /\ progress'[<<k, c>>].slot = campaign[k].slot
      /\ progress'[<<k, c>>].drawn = ProgressOf(k, c).drawn + bonus
      /\ progress'[<<k, c>>].completed =
           (ProgressOf(k, c).completed \/ CompletesQuest(k, c, amount))
  BY <1>4, <1>5
<1>9. \A j \in CampaignId, d \in Customer :
        <<j, d>> # <<k, c>> => progress'[<<j, d>>] = progress[<<j, d>>]
  BY <1>4, <1>5
<1>10. UNCHANGED <<slot, created>>
  BY DEF EarnPointsCampaign, clock
<1>11. QED
  BY <1>1, <1>2, <1>6, <1>7, <1>8, <1>9, <1>10 DEF bonus

(* A step of a campaign touches no progress, no day and no account of points. *)
LEMMA CampaignsOnlyMoveCampaigns ==
  ASSUME CampaignStep
  PROVE  UNCHANGED <<halted, merchant, profile, balance, treasury, progress, catalogue, day,
                     burned, minted, clawed, visits>>
<1>1. ASSUME NEW k, NEW t, NEW s, CreateCampaign(k, t, s) PROVE CampaignOnly
  BY <1>1 DEF CreateCampaign
<1>2. ASSUME NEW k, NEW ends, NEW budget, NEW cap, NEW paused,
             UpdateCampaign(k, ends, budget, cap, paused)
      PROVE  CampaignOnly
  BY <1>2 DEF UpdateCampaign
<1>3. ASSUME NEW k, NEW days, SetCampaignWinback(k, days) PROVE CampaignOnly
  BY <1>3 DEF SetCampaignWinback
<1>4. ASSUME NEW k, CloseCampaign(k) PROVE CampaignOnly
  BY <1>4 DEF CloseCampaign
<1>5. CampaignOnly
  BY <1>1, <1>2, <1>3, <1>4 DEF CampaignStep
<1>6. QED
  BY <1>5 DEF CampaignOnly

(* BudgetsAreHonoured: retuning a budget below what is spent is refused,    *)
(* and no payment overruns what is left: a campaign never overspends.       *)
THEOREM BudgetsAreHonoured == Spec => []BudgetHonoured
<1> DEFINE Within(k) ==
             campaign[k].open /\ campaign[k].budget > 0 => campaign[k].spent <= campaign[k].budget
<1>1. Init => BudgetHonoured
  BY DEF Init, BudgetHonoured, NoCampaign
<1>2. TypeOK /\ BudgetHonoured /\ [Next]_vars => BudgetHonoured'
  <2> SUFFICES ASSUME TypeOK, BudgetHonoured, [Next]_vars, NEW k \in CampaignId
               PROVE  Within(k)'
    BY DEF BudgetHonoured
  <2>1. Within(k)
    BY DEF BudgetHonoured
  <2>2. ASSUME NEW c \in Customer, NEW j \in CampaignId, NEW amount \in Nat,
               EarnPointsCampaign(c, j, amount)
        PROVE  Within(k)'
    <3>1. CASE j # k
      BY <2>1, <2>2, <3>1, EarnPays
    <3>2. CASE j = k
      <4>1. /\ campaign[k].spent \in Nat /\ campaign[k].budget \in Nat /\ campaign[k].cap \in Nat
            /\ GrossBonus(k, c, amount) \in Nat /\ ProgressOf(k, c).drawn \in Nat
            /\ campaign[k].open
        BY <2>2, <3>2, EarnPays, ProgressIsRecord DEF Campaign, ProgressType
      <4>2. Clamp(GrossBonus(k, c, amount), campaign[k].cap, ProgressOf(k, c).drawn) \in Nat
        BY <4>1, ClampFits
      <4>3. /\ Bonus(k, c, amount) \in Nat
            /\ campaign[k].budget > 0 /\ Bonus(k, c, amount) > 0 =>
                 campaign[k].spent + Bonus(k, c, amount) <= campaign[k].budget
        BY <4>1, <4>2, ClampFits DEF Bonus
      <4>4. /\ campaign'[k].spent = campaign[k].spent + Bonus(k, c, amount)
            /\ campaign'[k].budget = campaign[k].budget
        BY <2>2, <3>2, EarnPays
      <4>5. QED
        BY <2>1, <4>1, <4>3, <4>4
    <3>3. QED
      BY <3>1, <3>2
  <2>3. CASE CampaignStep
    <3>1. DOMAIN campaign = CampaignId
      BY DEF TypeOK
    <3>2. ASSUME NEW j \in CampaignId, NEW t \in Terms, NEW s, CreateCampaign(j, t, s) PROVE Within(k)'
      <4>1. t.budget \in Nat
        BY PointsAssumption DEF CampaignArgs
      <4>2. QED
        BY <2>1, <3>1, <3>2, <4>1 DEF CreateCampaign
    <3>3. ASSUME NEW j \in CampaignId, NEW ends, NEW budget \in Nat, NEW cap, NEW paused,
                 UpdateCampaign(j, ends, budget, cap, paused)
          PROVE  Within(k)'
      <4>1. CASE j = k
        <5>1. campaign[k] \in Campaign
          BY <3>3, <4>1, OpenCampaign DEF UpdateCampaign
        <5>2. campaign'[k].budget = budget /\ campaign'[k].spent = campaign[k].spent
          BY <3>1, <3>3, <4>1, <5>1 DEF UpdateCampaign, Campaign
        <5>3. budget = 0 \/ budget >= campaign[k].spent
          BY <3>3, <4>1 DEF UpdateCampaign
        <5>4. campaign[k].spent \in Nat
          BY <5>1 DEF Campaign
        <5>5. QED
          BY <5>2, <5>3, <5>4
      <4>2. CASE j # k
        BY <2>1, <3>1, <3>3, <4>2 DEF UpdateCampaign
      <4>3. QED
        BY <4>1, <4>2
    <3>4. ASSUME NEW j \in CampaignId, NEW days, SetCampaignWinback(j, days) PROVE Within(k)'
      BY <2>1, <3>1, <3>4, OpenCampaign DEF SetCampaignWinback, Campaign
    <3>5. ASSUME NEW j \in CampaignId, CloseCampaign(j) PROVE Within(k)'
      BY <2>1, <3>1, <3>5 DEF CloseCampaign, NoCampaign
    <3>6. Budgets \subseteq Nat
      BY PointsAssumption
    <3>7. QED
      BY <2>3, <3>2, <3>3, <3>4, <3>5, <3>6 DEF CampaignStep
  <2>4. CASE UNCHANGED <<campaign, progress>>
    BY <2>1, <2>4
  <2>5. Spends \subseteq Nat
    BY PointsAssumption
  <2>6. QED
    BY <2>2, <2>3, <2>4, <2>5, OnlyCampaignsMove
<1>3. QED
  BY <1>1, <1>2, PointsTypeCorrect, PTL DEF Spec

(* CustomerCapsAreHonoured: a payment never takes a customer past the cap   *)
(* in force, also right after the cap was lowered below what was drawn.     *)
THEOREM CustomerCapsAreHonoured == Spec => CustomerCapHonoured
<1> DEFINE Kept(k, c) ==
             progress'[<<k, c>>].drawn > progress[<<k, c>>].drawn /\ campaign[k].cap > 0 =>
               progress'[<<k, c>>].drawn <= campaign[k].cap
<1>1. TypeOK /\ [Next]_vars => \A k \in CampaignId, c \in Customer : Kept(k, c)
  <2> SUFFICES ASSUME TypeOK, [Next]_vars, NEW k \in CampaignId, NEW c \in Customer
               PROVE  Kept(k, c)
    OBVIOUS
  <2>1. progress[<<k, c>>] \in ProgressType /\ progress[<<k, c>>].drawn \in Nat
    BY ProgressIsRecord DEF ProgressType
  <2>2. progress'[<<k, c>>] = progress[<<k, c>>] => Kept(k, c)
    BY <2>1
  <2>3. ASSUME NEW d \in Customer, NEW j \in CampaignId, NEW amount \in Nat,
               EarnPointsCampaign(d, j, amount)
        PROVE  Kept(k, c)
    <3>1. CASE <<j, d>> # <<k, c>>
      <4>1. progress'[<<k, c>>] = progress[<<k, c>>]
        BY <2>3, <3>1, EarnPays
      <4>2. QED
        BY <2>2, <4>1
    <3>2. CASE j = k /\ d = c
      <4>1. campaign[k] \in Campaign /\ GrossBonus(k, c, amount) \in Nat
        BY <2>3, <3>2, EarnPays
      <4>2. campaign[k].spent \in Nat /\ campaign[k].budget \in Nat /\ campaign[k].cap \in Nat
        BY <4>1 DEF Campaign
      <4>3. ProgressOf(k, c).drawn \in Nat
        BY ProgressIsRecord DEF ProgressType
      <4>4. progress'[<<k, c>>].drawn = ProgressOf(k, c).drawn + Bonus(k, c, amount)
        BY <2>3, <3>2, EarnPays
      <4>5. ProgressOf(k, c).drawn = 0 \/ ProgressOf(k, c).drawn = progress[<<k, c>>].drawn
        BY DEF ProgressOf, NoProgress
      <4>6. PICK first \in Nat :
              /\ first = Clamp(GrossBonus(k, c, amount), campaign[k].cap, ProgressOf(k, c).drawn)
              /\ campaign[k].cap > 0 /\ first > 0 =>
                   ProgressOf(k, c).drawn + first <= campaign[k].cap
        BY <4>1, <4>2, <4>3, ClampFits
      <4>7. Bonus(k, c, amount) \in Nat /\ Bonus(k, c, amount) <= first
        BY <4>2, <4>6, ClampFits DEF Bonus
      <4>8. QED
        BY <2>1, <4>2, <4>3, <4>4, <4>5, <4>6, <4>7
    <3>3. QED
      BY <3>1, <3>2
  <2>4. CASE UNCHANGED progress
    BY <2>2, <2>4
  <2>5. CASE CampaignStep
    BY <2>4, <2>5, CampaignsOnlyMoveCampaigns
  <2>6. Spends \subseteq Nat
    BY PointsAssumption
  <2>7. QED
    BY <2>3, <2>4, <2>5, <2>6, OnlyCampaignsMove
<1>2. QED
  BY <1>1, PointsTypeCorrect, PTL DEF CustomerCapHonoured, Spec

-----------------------------------------------------------------------------
(* The daily counters: of today and equal to what was really minted (clawed *)
(* back) today, or of an earlier day and nothing was today.                 *)
CountersMatch ==
  /\ merchant.issueDay <= day /\ merchant.clawDay <= day
  /\ IF merchant.issueDay = day THEN merchant.issuedToday = minted ELSE minted = 0
  /\ IF merchant.clawDay = day THEN merchant.clawedToday = clawed ELSE clawed = 0

Capped ==
  /\ minted' > minted /\ merchant.issueCap > 0 => minted' <= merchant.issueCap
  /\ clawed' > clawed /\ merchant.clawCap > 0 => clawed' <= merchant.clawCap

LEMMA MintingKeepsCounters ==
  ASSUME TypeOK, CountersMatch, NEW c \in Customer, NEW amount \in Nat, NEW total \in Nat,
         Accrue(c, amount, total), UNCHANGED <<clawed, day>>
  PROVE  CountersMatch' /\ Capped
<1> DEFINE today == CountToday(merchant.issuedToday, merchant.issueDay, total)
<1>1. /\ merchant \in MerchantType /\ day \in Nat /\ minted \in Nat
      /\ merchant.issuedToday \in Nat /\ merchant.issueCap \in Nat /\ clawed \in Nat
      /\ merchant.clawDay \in Nat
  BY DEF TypeOK, MerchantType
<1>2. /\ merchant'.issueDay = day /\ merchant'.issuedToday = today
      /\ merchant'.clawDay = merchant.clawDay /\ merchant'.clawedToday = merchant.clawedToday
  BY <1>1 DEF Accrue, MerchantType
<1>3. minted' = minted + total /\ (merchant.issueCap = 0 \/ today <= merchant.issueCap)
  BY DEF Accrue
<1>4. today = minted + total
  BY <1>1 DEF CountersMatch, CountToday
<1> HIDE DEF today
<1>5. QED
  BY <1>1, <1>2, <1>3, <1>4 DEF CountersMatch, Capped

LEMMA ClawingKeepsCounters ==
  ASSUME TypeOK, CountersMatch, NEW c \in Customer, NEW amount \in Nat, Clawback(c, amount)
  PROVE  CountersMatch' /\ Capped
<1> DEFINE today == CountToday(merchant.clawedToday, merchant.clawDay, amount)
<1>1. /\ merchant \in MerchantType /\ day \in Nat /\ clawed \in Nat /\ minted \in Nat
      /\ merchant.clawedToday \in Nat /\ merchant.clawCap \in Nat
  BY DEF TypeOK, MerchantType
<1>2. /\ merchant'.clawDay = day /\ merchant'.clawedToday = today
      /\ merchant'.issueDay = merchant.issueDay /\ merchant'.issuedToday = merchant.issuedToday
  BY <1>1 DEF Clawback, MerchantType
<1>3. /\ clawed' = clawed + amount /\ (merchant.clawCap = 0 \/ today <= merchant.clawCap)
      /\ UNCHANGED <<minted, day>>
  BY DEF Clawback, clock
<1>4. today = clawed + amount
  BY <1>1 DEF CountersMatch, CountToday
<1> HIDE DEF today
<1>5. QED
  BY <1>1, <1>2, <1>3, <1>4 DEF CountersMatch, Capped

LEMMA StepKeepsCounters ==
  ASSUME TypeOK, CountersMatch, [Next]_vars PROVE CountersMatch' /\ Capped
<1>1. merchant \in MerchantType /\ day \in Nat /\ minted \in Nat /\ clawed \in Nat
  BY DEF TypeOK, MerchantType
<1>2. ASSUME UNCHANGED <<minted, clawed, day>>, merchant'.issueDay = merchant.issueDay,
             merchant'.issuedToday = merchant.issuedToday, merchant'.clawDay = merchant.clawDay,
             merchant'.clawedToday = merchant.clawedToday
      PROVE  CountersMatch' /\ Capped
  BY <1>1, <1>2 DEF CountersMatch, Capped
<1>3. CASE EarnStep
  <2>1. ASSUME NEW c \in Customer, NEW amount \in Nat, NEW boost \in Nat,
               EarnPoints(c, amount, boost)
        PROVE  CountersMatch' /\ Capped
    <3>1. Points(amount, TotalBps(StreakAfter(profile[c]), boost)) \in Nat
      BY StreakIsPositive, TotalBpsIsNat, PointsIsNat DEF TypeOK, ProfileType
    <3>2. QED
      BY <2>1, <3>1, MintingKeepsCounters DEF EarnPoints, clock
  <2>2. ASSUME NEW c \in Customer, NEW k \in CampaignId, NEW amount \in Nat,
               EarnPointsCampaign(c, k, amount)
        PROVE  CountersMatch' /\ Capped
    <3>1. Points(amount, TotalBps(StreakAfter(profile[c]), 0)) \in Nat
      BY StreakIsPositive, TotalBpsIsNat, PointsIsNat DEF TypeOK, ProfileType
    <3>2. Bonus(k, c, amount) \in Nat
      BY <2>2, EarnPays
    <3>3. Points(amount, TotalBps(StreakAfter(profile[c]), 0)) + Bonus(k, c, amount) \in Nat
      BY <3>1, <3>2
    <3>4. QED
      BY <2>2, <3>3, MintingKeepsCounters DEF EarnPointsCampaign, clock
  <2>3. Spends \subseteq Nat /\ Boosts \subseteq Nat
    BY PointsAssumption
  <2>4. QED
    BY <1>3, <2>1, <2>2, <2>3 DEF EarnStep
<1>4. ASSUME NEW c \in Customer, NEW amount \in Amounts, Clawback(c, amount)
      PROVE  CountersMatch' /\ Capped
  BY <1>4, ClawingKeepsCounters, PointsAssumption
<1>5. ASSUME NEW o \in OfferId, NEW c \in Customer, NEW verified \in BOOLEAN,
             RedeemOffer(o, c, verified)
      PROVE  CountersMatch' /\ Capped
  <2>1. /\ merchant'.issueDay = merchant.issueDay /\ merchant'.issuedToday = merchant.issuedToday
        /\ merchant'.clawDay = merchant.clawDay /\ merchant'.clawedToday = merchant.clawedToday
    BY <1>1, <1>5 DEF RedeemOffer, MerchantType
  <2>2. QED
    BY <1>2, <1>5, <2>1 DEF RedeemOffer, clock
<1>6. ASSUME UNCHANGED <<minted, clawed, day, merchant>> PROVE CountersMatch' /\ Capped
  BY <1>2, <1>6
<1>7. CASE BadgeStep \/ OwnerStep
  <2>1. UNCHANGED <<minted, clawed, day>>
    BY <1>7 DEF BadgeStep, CreateAchievement, CloseAchievement, GrantAchievement, OwnerStep,
                MerchantOnly, SetMerchantPaused, SetIssueStatus, SetDailyIssueCap, SetClawbackCap,
                SetPaused, clock
  <2>2. /\ merchant'.issueDay = merchant.issueDay /\ merchant'.issuedToday = merchant.issuedToday
        /\ merchant'.clawDay = merchant.clawDay /\ merchant'.clawedToday = merchant.clawedToday
    BY <1>1, <1>7 DEF BadgeStep, CreateAchievement, CloseAchievement, GrantAchievement, OwnerStep,
                SetMerchantPaused, SetIssueStatus, SetDailyIssueCap, SetClawbackCap, SetPaused,
                MerchantType
  <2>3. QED
    BY <1>2, <2>1, <2>2
<1>8. CASE NextDay
  BY <1>1, <1>8 DEF NextDay, CountersMatch, Capped, MerchantType
<1>9. CASE CampaignStep
  BY <1>6, <1>9, CampaignsOnlyMoveCampaigns
<1>10. CASE UNCHANGED vars
  BY <1>6, <1>10 DEF vars, clock
<1>11. QED
  BY <1>3, <1>4, <1>5, <1>6, <1>7, <1>8, <1>9, <1>10
     DEF Next, RedemptionStep, CreateOffer, CloseOffer, SetOfferSegment, CloseReceipt, Gift, clock

(* DailyCapsAreHonoured: what is really minted, or clawed back, in a day    *)
(* stays within the cap, however caps and days change in between.           *)
THEOREM DailyCapsAreHonoured == Spec => DailyCapsHonoured
<1>1. Init => CountersMatch
  BY PointsAssumption DEF Init, CountersMatch
<1>2. TypeOK /\ CountersMatch /\ [Next]_vars => CountersMatch' /\ Capped
  BY StepKeepsCounters
<1>3. Spec => []CountersMatch
  BY <1>1, <1>2, PointsTypeCorrect, PTL DEF Spec
<1>4. QED
  BY <1>2, <1>3, PointsTypeCorrect, PTL DEF DailyCapsHonoured, Capped, Spec

-----------------------------------------------------------------------------
(* Streaks: what StreakIsConsecutive says of one customer, in no future.    *)
StreakCounts(c) ==
  /\ profile[c].lastDay <= day
  /\ IF visits[c] = {} THEN profile[c].streak = 0
     ELSE /\ profile[c].lastDay \in visits[c] /\ \A d \in visits[c] : d <= profile[c].lastDay
          /\ profile[c].streak > 0
          /\ (profile[c].lastDay - profile[c].streak + 1) .. profile[c].lastDay \subseteq visits[c]
          /\ profile[c].lastDay - profile[c].streak \notin visits[c]

StreaksCount == \A c \in Customer : StreakCounts(c)

(* A visit today, after any absence, sets the streak StreakAfter says.      *)
LEMMA VisitKeepsStreak ==
  ASSUME TypeOK, NEW c \in Customer, StreakCounts(c), day' = day,
         visits'[c] = visits[c] \cup {day},
         profile'[c].streak = StreakAfter(profile[c]), profile'[c].lastDay = day
  PROVE  StreakCounts(c)'
<1> DEFINE p == profile[c]
<1>1. /\ p \in ProfileType /\ p.streak \in Nat /\ p.lastDay \in Nat /\ day \in Nat
      /\ visits[c] \subseteq Nat
  BY DEF TypeOK, ProfileType
<1>2. CASE visits[c] = {}
  <2>1. p.streak = 0
    BY <1>2 DEF StreakCounts
  <2>2. StreakAfter(p) = 1
    BY <1>1, <2>1 DEF StreakAfter
  <2>3. visits'[c] = {day} /\ day - 1 \notin {day} /\ (day - 1 + 1) .. day = {day}
    BY <1>1, <1>2
  <2>4. QED
    BY <1>1, <2>2, <2>3 DEF StreakCounts
<1>3. CASE visits[c] # {} /\ p.lastDay = day
  <2>1. visits'[c] = visits[c] /\ StreakAfter(p) = p.streak
    BY <1>1, <1>3 DEF StreakCounts, StreakAfter
  <2>2. QED
    BY <1>1, <1>3, <2>1 DEF StreakCounts
<1>4. CASE visits[c] # {} /\ p.lastDay + 1 = day
  <2>1. StreakAfter(p) = p.streak + 1
    BY <1>1, <1>4 DEF StreakAfter
  <2>2. day - (p.streak + 1) = p.lastDay - p.streak /\ day - (p.streak + 1) < day
    BY <1>1, <1>4
  <2>3. day - (p.streak + 1) \notin visits'[c]
    BY <1>1, <1>4, <2>2 DEF StreakCounts
  <2>4. (day - (p.streak + 1) + 1) .. day \subseteq visits'[c]
    <3>1. SUFFICES ASSUME NEW d \in (day - (p.streak + 1) + 1) .. day, d # day
                   PROVE  d \in visits[c]
      OBVIOUS
    <3>2. d \in (p.lastDay - p.streak + 1) .. p.lastDay
      BY <1>1, <1>4, <3>1
    <3>3. QED
      BY <1>4, <3>2 DEF StreakCounts
  <2>5. day \in visits'[c] /\ \A d \in visits'[c] : d <= day
    BY <1>1, <1>4 DEF StreakCounts
  <2>6. QED
    BY <1>1, <2>1, <2>3, <2>4, <2>5 DEF StreakCounts
<1>5. CASE visits[c] # {} /\ p.lastDay # day /\ p.lastDay + 1 # day
  <2>1. StreakAfter(p) = 1
    BY <1>1, <1>5 DEF StreakAfter
  <2>2. p.lastDay < day - 1
    BY <1>1, <1>5 DEF StreakCounts
  <2>3. day - 1 \notin visits'[c] /\ (day - 1 + 1) .. day \subseteq visits'[c]
    BY <1>1, <1>5, <2>2 DEF StreakCounts
  <2>4. day \in visits'[c] /\ \A d \in visits'[c] : d <= day
    BY <1>1, <1>5 DEF StreakCounts
  <2>5. QED
    BY <1>1, <2>1, <2>3, <2>4 DEF StreakCounts
<1>6. QED
  BY <1>2, <1>3, <1>4, <1>5

LEMMA AccrueKeepsStreaks ==
  ASSUME TypeOK, StreaksCount, NEW b \in Customer, NEW amount, NEW total,
         Accrue(b, amount, total), day' = day
  PROVE  StreaksCount'
<1> SUFFICES ASSUME NEW c \in Customer PROVE StreakCounts(c)'
  BY DEF StreaksCount
<1>1. profile \in [Customer -> ProfileType] /\ visits \in [Customer -> SUBSET Nat]
  BY DEF TypeOK, ProfileType
<1>2. CASE c = b
  <2>1. visits'[c] = visits[c] \cup {day}
    BY <1>1, <1>2 DEF Accrue
  <2>2. profile'[c].streak = StreakAfter(profile[c]) /\ profile'[c].lastDay = day
    BY <1>1, <1>2 DEF Accrue, ProfileType
  <2>3. QED
    BY <2>1, <2>2, VisitKeepsStreak DEF StreaksCount
<1>3. CASE c # b
  <2>1. visits'[c] = visits[c] /\ profile'[c] = profile[c]
    BY <1>1, <1>3 DEF Accrue
  <2>2. QED
    BY <2>1 DEF StreaksCount, StreakCounts
<1>4. QED
  BY <1>2, <1>3

LEMMA StepKeepsStreaks ==
  ASSUME TypeOK, StreaksCount, [Next]_vars PROVE StreaksCount'
<1>1. profile \in [Customer -> ProfileType] /\ day \in Nat
  BY DEF TypeOK, ProfileType
<1>2. ASSUME UNCHANGED <<visits, profile>>, day' \in Nat, day' >= day PROVE StreaksCount'
  <2>1. \A c \in Customer : profile[c].lastDay \in Nat
    BY <1>1 DEF ProfileType
  <2>2. \A c \in Customer : profile[c].lastDay <= day => profile'[c].lastDay <= day'
    BY <1>1, <1>2, <2>1
  <2>3. QED
    BY <1>2, <2>2 DEF StreaksCount, StreakCounts
<1>3. ASSUME UNCHANGED <<visits, profile, day>> PROVE StreaksCount'
  BY <1>3 DEF StreaksCount, StreakCounts
<1>4. CASE EarnStep
  <2>1. ASSUME NEW c \in Customer, NEW amount, NEW boost, EarnPoints(c, amount, boost)
        PROVE  StreaksCount'
    BY <2>1, AccrueKeepsStreaks DEF EarnPoints, clock
  <2>2. ASSUME NEW c \in Customer, NEW k, NEW amount, EarnPointsCampaign(c, k, amount)
        PROVE  StreaksCount'
    <3>1. PICK total : Accrue(c, amount, total)
      BY <2>2 DEF EarnPointsCampaign
    <3>2. QED
      BY <2>2, <3>1, AccrueKeepsStreaks DEF EarnPointsCampaign, clock
  <2>3. QED
    BY <1>4, <2>1, <2>2 DEF EarnStep
<1>5. ASSUME UNCHANGED <<visits, day>>,
             \A c \in Customer : /\ profile'[c].streak = profile[c].streak
                                 /\ profile'[c].lastDay = profile[c].lastDay
      PROVE  StreaksCount'
  BY <1>5 DEF StreaksCount, StreakCounts
<1>6. ASSUME NEW o \in OfferId, NEW b \in Customer, NEW verified \in BOOLEAN,
             RedeemOffer(o, b, verified)
      PROVE  StreaksCount'
  <2>1. \A c \in Customer : /\ profile'[c].streak = profile[c].streak
                            /\ profile'[c].lastDay = profile[c].lastDay
    BY <1>1, <1>6 DEF RedeemOffer, ProfileType
  <2>2. QED
    BY <1>5, <1>6, <2>1 DEF RedeemOffer, clock
<1>7. ASSUME NEW b \in Customer, NEW amount \in Amounts, Clawback(b, amount)
      PROVE  StreaksCount'
  <2>1. \A c \in Customer : /\ profile'[c].streak = profile[c].streak
                            /\ profile'[c].lastDay = profile[c].lastDay
    BY <1>1, <1>7 DEF Clawback, ProfileType
  <2>2. QED
    BY <1>5, <1>7, <2>1 DEF Clawback, clock
<1>8. CASE CampaignStep
  BY <1>3, <1>8, CampaignsOnlyMoveCampaigns
<1>9. CASE BadgeStep \/ OwnerStep
  BY <1>3, <1>9 DEF BadgeStep, CreateAchievement, CloseAchievement, GrantAchievement, OwnerStep,
                MerchantOnly, SetMerchantPaused, SetIssueStatus, SetDailyIssueCap, SetClawbackCap,
                SetPaused, clock
<1>10. CASE NextDay
  BY <1>1, <1>2, <1>10 DEF NextDay
<1>11. CASE UNCHANGED vars
  BY <1>3, <1>11 DEF vars, clock
<1>12. QED
  BY <1>3, <1>4, <1>6, <1>7, <1>8, <1>9, <1>10, <1>11
     DEF Next, RedemptionStep, CreateOffer, CloseOffer, SetOfferSegment, CloseReceipt, Gift, clock

LEMMA StreaksAlwaysCount == Spec => []StreaksCount
<1>1. Init => StreaksCount
  BY PointsAssumption DEF Init, StreaksCount, StreakCounts, NoProfile
<1>2. QED
  BY <1>1, StepKeepsStreaks, PointsTypeCorrect, PTL DEF Spec

(* StreaksAreConsecutive: the streak that earns pay by is the number of     *)
(* consecutive days on which the customer earned, up to the last one.       *)
THEOREM StreaksAreConsecutive == Spec => []StreakIsConsecutive
<1>1. StreaksCount => StreakIsConsecutive
  BY DEF StreaksCount, StreakCounts, StreakIsConsecutive
<1>2. QED
  BY <1>1, StreaksAlwaysCount, PTL

(* OnlyTheLapsedAreWonBack: a payment of a winback campaign comes after an  *)
(* absence of min_days_inactive days, counted from every earlier visit.     *)
THEOREM OnlyTheLapsedAreWonBack == Spec => WinbackPaysLapsed
<1>1. ASSUME TypeOK, StreaksCount, [Next]_vars, NEW k \in CampaignId, NEW c \in Customer,
             progress'[<<k, c>>] # progress[<<k, c>>], campaign[k].winback > 0,
             NEW d \in visits[c]
      PROVE  d + campaign[k].winback <= day
  <2>1. PICK b \in Customer, j \in CampaignId, amount \in Spends : EarnPointsCampaign(b, j, amount)
    BY <1>1, OnlyCampaignsMove, CampaignsOnlyMoveCampaigns
  <2>2. amount \in Nat
    BY PointsAssumption
  <2>3. b = c /\ j = k
    BY <1>1, <2>1, <2>2, EarnPays
  <2>4. campaign[k].winback <= day - profile[c].lastDay
    BY <1>1, <2>1, <2>3 DEF EarnPointsCampaign, LapsedEnough
  <2>5. d <= profile[c].lastDay
    BY <1>1 DEF StreaksCount, StreakCounts
  <2>6. /\ campaign[k].winback \in Nat /\ profile[c].lastDay \in Nat /\ d \in Nat /\ day \in Nat
    <3>1. campaign[k] \in Campaign
      BY <1>1, <2>1, <2>2, <2>3, EarnPays
    <3>2. QED
      BY <1>1, <3>1 DEF TypeOK, Campaign
  <2>7. QED
    BY <2>4, <2>5, <2>6
<1>2. TypeOK /\ StreaksCount /\ [Next]_vars =>
        \A k \in CampaignId, c \in Customer :
          progress'[<<k, c>>] # progress[<<k, c>>] /\ campaign[k].winback > 0 =>
            \A d \in visits[c] : d + campaign[k].winback <= day
  BY <1>1
<1>3. QED
  BY <1>2, PointsTypeCorrect, StreaksAlwaysCount, PTL DEF WinbackPaysLapsed, Spec

-----------------------------------------------------------------------------
(* Quests and stale progress.  No campaign and no progress of an id is of a *)
(* later slot than the id's latest creation, so one created in a slot of    *)
(* its own meets no progress; of one created again in its slot nothing is   *)
(* claimed.                                                                 *)
SlotsArePast ==
  /\ \A k \in CampaignId : created[k].slot <= slot
  /\ \A k \in CampaignId : campaign[k].open => campaign[k].slot = created[k].slot
  /\ \A k \in CampaignId, c \in Customer : progress[<<k, c>>].slot <= created[k].slot

Joined(k, c) ==
  campaign[k].open /\ ~created[k].again /\ HasJoined(k, c) /\ progress[<<k, c>>].completed =>
    progress[<<k, c>>].drawn >= campaign[k].terms.reward

JoinedInv == SlotsArePast /\ \A k \in CampaignId, c \in Customer : Joined(k, c)

(* A creation in a slot of its own finds no progress of that slot.          *)
LEMMA NewSlotIsClean ==
  ASSUME TypeOK, SlotsArePast, NEW k \in CampaignId, NEW t \in Terms, NEW s \in slot .. slot + 1,
         CreateCampaign(k, t, s)
  PROVE  /\ created[k].slot <= s
         /\ ~created'[k].again => \A c \in Customer : progress[<<k, c>>].slot # s
<1>1. /\ slot \in Nat /\ created[k].slot \in Nat /\ created[k].slot <= slot
      /\ \A c \in Customer : progress[<<k, c>>].slot \in Nat
                            /\ progress[<<k, c>>].slot <= created[k].slot
  BY ProgressIsRecord DEF TypeOK, SlotsArePast, ProgressType
<1>2. s \in Nat /\ s >= slot
  BY <1>1
<1>3. ~created'[k].again => created[k].slot # s
  BY DEF CreateCampaign, TypeOK
<1> QED
  BY <1>1, <1>2, <1>3

LEMMA EarnKeepsJoined ==
  ASSUME TypeOK, JoinedInv, NEW b \in Customer, NEW j \in CampaignId, NEW amount \in Nat,
         EarnPointsCampaign(b, j, amount)
  PROVE  JoinedInv'
<1>1. /\ campaign[j].open /\ Bonus(j, b, amount) \in Nat /\ campaign[j].terms.reward \in Nat
      /\ UNCHANGED <<slot, created>>
  BY EarnPays DEF Campaign, CampaignArgs
<1>2. SlotsArePast'
  <2>1. \A k \in CampaignId : campaign'[k].open => campaign[k].open /\ campaign'[k].slot = campaign[k].slot
    BY <1>1, EarnPays
  <2>2. \A k \in CampaignId, c \in Customer :
          \/ progress'[<<k, c>>] = progress[<<k, c>>]
          \/ k = j /\ progress'[<<k, c>>].slot = campaign[j].slot
    <3> SUFFICES ASSUME NEW k \in CampaignId, NEW c \in Customer
                 PROVE  \/ progress'[<<k, c>>] = progress[<<k, c>>]
                        \/ k = j /\ progress'[<<k, c>>].slot = campaign[j].slot
      OBVIOUS
    <3>1. CASE <<k, c>> = <<j, b>>
      BY <3>1, EarnPays
    <3>2. CASE <<k, c>> # <<j, b>>
      BY <3>2, EarnPays
    <3>3. QED
      BY <3>1, <3>2
  <2>3. SlotsArePast /\ created[j].slot \in Nat
    BY DEF JoinedInv, TypeOK
  <2>4. QED
    BY <1>1, <2>1, <2>2, <2>3 DEF SlotsArePast
<1>3. ASSUME NEW k \in CampaignId, NEW c \in Customer, <<k, c>> # <<j, b>> PROVE Joined(k, c)'
  <2>1. /\ progress'[<<k, c>>] = progress[<<k, c>>] /\ created' = created
        /\ campaign'[k].open => campaign[k].open
        /\ campaign'[k].slot = campaign[k].slot /\ campaign'[k].terms = campaign[k].terms
    BY <1>1, <1>3, EarnPays
  <2>2. Joined(k, c)
    BY DEF JoinedInv
  <2> QED
    BY <2>1, <2>2 DEF Joined, HasJoined
<1>4. Joined(j, b)'
  <2>1. Joined(j, b)
    BY DEF JoinedInv
  <2>2. ASSUME progress'[<<j, b>>].completed, ~created[j].again
        PROVE  progress'[<<j, b>>].drawn >= campaign[j].terms.reward
    <3>1. ProgressOf(j, b).completed \/ CompletesQuest(j, b, amount)
      BY <2>2, EarnPays
    <3>2. progress'[<<j, b>>].drawn = ProgressOf(j, b).drawn + Bonus(j, b, amount)
      BY EarnPays
    <3>3. ProgressOf(j, b).drawn \in Nat
      BY ProgressIsRecord DEF ProgressType
    <3>4. CASE ProgressOf(j, b).completed
      <4>1. ~IsStale(j, b) /\ ProgressOf(j, b) = progress[<<j, b>>]
        BY <3>4 DEF ProgressOf, NoProgress
      <4>2. progress[<<j, b>>].drawn >= campaign[j].terms.reward
        BY <1>1, <2>1, <2>2, <3>4, <4>1 DEF Joined, HasJoined, IsStale
      <4>3. QED
        BY <1>1, <3>2, <3>3, <4>1, <4>2
    <3>5. CASE CompletesQuest(j, b, amount)
      <4>1. Bonus(j, b, amount) = campaign[j].terms.reward
        BY <1>1, <3>5 DEF CompletesQuest, GrossBonus
      <4>2. QED
        BY <1>1, <3>2, <3>3, <4>1
    <3>6. QED
      BY <3>1, <3>4, <3>5
  <2>3. campaign'[j].terms = campaign[j].terms
    BY EarnPays
  <2>4. QED
    BY <1>1, <2>2, <2>3 DEF Joined
<1>5. QED
  BY <1>2, <1>3, <1>4 DEF JoinedInv

LEMMA CampaignStepKeepsJoined ==
  ASSUME TypeOK, JoinedInv, CampaignStep PROVE JoinedInv'
<1>1. /\ DOMAIN campaign = CampaignId /\ DOMAIN created = CampaignId /\ UNCHANGED progress
      /\ SlotsArePast /\ slot \in Nat
  BY CampaignsOnlyMoveCampaigns DEF TypeOK, JoinedInv
<1>2. ASSUME NEW j \in CampaignId, NEW t \in Terms, NEW s \in slot .. slot + 1,
             CreateCampaign(j, t, s)
      PROVE  JoinedInv'
  <2>1. /\ slot' = s /\ s \in Nat /\ s >= slot
        /\ campaign'[j].slot = s /\ created'[j].slot = s
        /\ \A k \in CampaignId : k # j => campaign'[k] = campaign[k] /\ created'[k] = created[k]
    BY <1>1, <1>2 DEF CreateCampaign
  <2>2. /\ \A k \in CampaignId : created[k].slot \in Nat
        /\ \A k \in CampaignId, c \in Customer : progress[<<k, c>>].slot \in Nat
    BY ProgressIsRecord DEF TypeOK, ProgressType
  <2>3. SlotsArePast'
    <3>1. \A k \in CampaignId : created'[k].slot <= slot'
      BY <1>1, <2>1, <2>2 DEF SlotsArePast
    <3>2. \A k \in CampaignId : campaign'[k].open => campaign'[k].slot = created'[k].slot
      BY <1>1, <2>1 DEF SlotsArePast
    <3>3. \A k \in CampaignId : created[k].slot <= created'[k].slot
      BY <1>1, <1>2, <2>1, <2>2, NewSlotIsClean
    <3>4. \A k \in CampaignId, c \in Customer : progress'[<<k, c>>].slot <= created'[k].slot
      <4> SUFFICES ASSUME NEW k \in CampaignId, NEW c \in Customer
                   PROVE  progress'[<<k, c>>].slot <= created'[k].slot
        OBVIOUS
      <4>1. created'[k].slot \in Nat
        BY <2>1, <2>2
      <4>2. progress'[<<k, c>>].slot = progress[<<k, c>>].slot
        BY <1>1
      <4>3. progress[<<k, c>>].slot <= created[k].slot /\ created[k].slot <= created'[k].slot
        BY <1>1, <3>3 DEF SlotsArePast
      <4> QED
        BY <2>2, <4>1, <4>2, <4>3
    <3> QED
      BY <3>1, <3>2, <3>4 DEF SlotsArePast
  <2>4. ~created'[j].again => \A c \in Customer : progress[<<j, c>>].slot # campaign'[j].slot
    BY <1>1, <1>2, <2>1, NewSlotIsClean
  <2>5. \A k \in CampaignId, c \in Customer : Joined(k, c)'
    BY <1>1, <2>1, <2>4 DEF JoinedInv, Joined, HasJoined
  <2>6. QED
    BY <2>3, <2>5 DEF JoinedInv
<1>3. ASSUME UNCHANGED <<slot, created>>,
             \A k \in CampaignId : campaign'[k].open =>
               /\ campaign[k].open
               /\ campaign'[k].slot = campaign[k].slot
               /\ campaign'[k].terms.reward = campaign[k].terms.reward
      PROVE  JoinedInv'
  BY <1>1, <1>3 DEF JoinedInv, SlotsArePast, Joined, HasJoined
<1>4. ASSUME NEW j \in CampaignId, NEW ends, NEW budget, NEW cap, NEW paused,
             UpdateCampaign(j, ends, budget, cap, paused)
      PROVE  JoinedInv'
  <2>1. campaign[j] \in Campaign /\ campaign[j].terms \in CampaignArgs
    BY <1>4, OpenCampaign DEF UpdateCampaign, Campaign
  <2>2. /\ campaign'[j].slot = campaign[j].slot
        /\ campaign'[j].terms.reward = campaign[j].terms.reward
    BY <1>1, <1>4, <2>1 DEF UpdateCampaign, Campaign, CampaignArgs
  <2>3. \A k \in CampaignId : k # j => campaign'[k] = campaign[k]
    BY <1>1, <1>4 DEF UpdateCampaign
  <2>4. QED
    BY <1>3, <1>4, <2>2, <2>3 DEF UpdateCampaign
<1>5. ASSUME NEW j \in CampaignId, NEW days, SetCampaignWinback(j, days) PROVE JoinedInv'
  BY <1>1, <1>3, <1>5, OpenCampaign DEF SetCampaignWinback, Campaign
<1>6. ASSUME NEW j \in CampaignId, CloseCampaign(j) PROVE JoinedInv'
  BY <1>1, <1>3, <1>6 DEF CloseCampaign, NoCampaign
<1>7. QED
  BY <1>2, <1>4, <1>5, <1>6 DEF CampaignStep

LEMMA AlwaysJoined == Spec => []JoinedInv
<1>1. Init => JoinedInv
  BY DEF Init, JoinedInv, SlotsArePast, Joined, NoCampaign, NoProgress, NeverCreated
<1>2. TypeOK /\ JoinedInv /\ [Next]_vars => JoinedInv'
  <2> SUFFICES ASSUME TypeOK, JoinedInv, [Next]_vars PROVE JoinedInv'
    OBVIOUS
  <2>1. ASSUME UNCHANGED <<campaign, progress, created>>, slot' \in Nat, slot' >= slot
        PROVE  JoinedInv'
    <3>1. slot \in Nat /\ \A k \in CampaignId : created[k].slot \in Nat
      BY DEF TypeOK
    <3>2. SlotsArePast'
      BY <2>1, <3>1 DEF JoinedInv, SlotsArePast
    <3>3. QED
      BY <2>1, <3>2 DEF JoinedInv, Joined, HasJoined
  <2>2. CASE CampaignStep
    BY <2>2, CampaignStepKeepsJoined
  <2>3. CASE \E c \in Customer, k \in CampaignId, amount \in Spends :
               EarnPointsCampaign(c, k, amount)
    BY <2>3, EarnKeepsJoined, PointsAssumption
  <2>4. slot' = slot \/ slot' = slot + 1 \/ CampaignStep
    <3>1. CASE EarnStep
      <4>1. ASSUME NEW c, NEW amount, NEW boost, EarnPoints(c, amount, boost) PROVE slot' = slot
        BY <4>1 DEF EarnPoints, clock
      <4>2. ASSUME NEW c, NEW k, NEW amount, EarnPointsCampaign(c, k, amount) PROVE slot' = slot
        BY <4>2 DEF EarnPointsCampaign, clock
      <4>3. QED
        BY <3>1, <4>1, <4>2 DEF EarnStep
    <3>2. CASE RedemptionStep
      BY <3>2 DEF RedemptionStep, CreateOffer, CloseOffer, SetOfferSegment, RedeemOffer,
                  CloseReceipt, Gift, Clawback, clock
    <3>3. CASE BadgeStep
      BY <3>3 DEF BadgeStep, CreateAchievement, CloseAchievement, GrantAchievement, clock
    <3>4. CASE OwnerStep
      BY <3>4 DEF OwnerStep, MerchantOnly, SetMerchantPaused, SetIssueStatus, SetDailyIssueCap,
                  SetClawbackCap, SetPaused, clock
    <3>5. CASE NextDay \/ UNCHANGED vars
      BY <3>5 DEF NextDay, vars, clock
    <3>6. QED
      BY <3>1, <3>2, <3>3, <3>4, <3>5 DEF Next
  <2>5. slot \in Nat
    BY DEF TypeOK
  <2>6. QED
    BY <2>1, <2>2, <2>3, <2>4, <2>5, OnlyCampaignsMove
<1>3. QED
  BY <1>1, <1>2, PointsTypeCorrect, PTL DEF Spec

(* QuestsArePaidInFull: a quest is marked completed only by the visit that  *)
(* paid the whole reward, in the campaign that is open now; the marks of    *)
(* earlier campaigns of the id count only where it was created again in the *)
(* slot of the last of them.                                                *)
THEOREM QuestsArePaidInFull == Spec => []QuestPaidInFull
<1>1. JoinedInv => QuestPaidInFull
  BY DEF JoinedInv, Joined, QuestPaidInFull
<1>2. QED
  BY <1>1, AlwaysJoined, PTL

-----------------------------------------------------------------------------
(* Redemption numbers: every receipt has a number its customer has used.    *)
ReceiptsAreNumbered ==
  \A o \in OfferId, c \in Customer, n \in Nat :
    <<o, c, n>> \in receipts => n < profile[c].redeemed

(* NextReceiptIsFree: the account a redemption creates never exists yet, no *)
(* matter which receipts were closed, and offers reopened, in between.      *)
THEOREM NextReceiptIsFree == Spec => []ReceiptsAreNumbered
<1>1. Init => ReceiptsAreNumbered
  BY DEF Init, ReceiptsAreNumbered
<1>2. TypeOK /\ ReceiptsAreNumbered /\ [Next]_vars => ReceiptsAreNumbered'
  <2> SUFFICES ASSUME TypeOK, ReceiptsAreNumbered, [Next]_vars PROVE ReceiptsAreNumbered'
    OBVIOUS
  <2>1. /\ profile \in [Customer -> ProfileType]
        /\ \A c \in Customer : profile[c].redeemed \in Nat
    BY DEF TypeOK, ProfileType
  <2>2. ASSUME receipts' \subseteq receipts,
               \A c \in Customer : profile'[c].redeemed = profile[c].redeemed
        PROVE  ReceiptsAreNumbered'
    BY <2>2 DEF ReceiptsAreNumbered
  <2>3. ASSUME NEW b \in Customer, NEW amount, NEW total, Accrue(b, amount, total)
        PROVE  \A c \in Customer : profile'[c].redeemed = profile[c].redeemed
    BY <2>1, <2>3 DEF Accrue, ProfileType
  <2>4. CASE EarnStep
    <3>1. ASSUME NEW c \in Customer, NEW amount, NEW boost, EarnPoints(c, amount, boost)
          PROVE  ReceiptsAreNumbered'
      BY <2>2, <2>3, <3>1 DEF EarnPoints, catalogue
    <3>2. ASSUME NEW c \in Customer, NEW k, NEW amount, EarnPointsCampaign(c, k, amount)
          PROVE  ReceiptsAreNumbered'
      <4>1. PICK total : Accrue(c, amount, total)
        BY <3>2 DEF EarnPointsCampaign
      <4>2. QED
        BY <2>2, <2>3, <3>2, <4>1 DEF EarnPointsCampaign, catalogue
    <3>3. QED
      BY <2>4, <3>1, <3>2 DEF EarnStep
  <2>5. ASSUME NEW p \in OfferId, NEW b \in Customer, NEW verified, RedeemOffer(p, b, verified)
        PROVE  ReceiptsAreNumbered'
    <3>1. /\ profile'[b].redeemed = profile[b].redeemed + 1
          /\ \A c \in Customer : c # b => profile'[c].redeemed = profile[c].redeemed
      BY <2>1, <2>5 DEF RedeemOffer, ProfileType
    <3>2. receipts' = receipts \cup {<<p, b, profile[b].redeemed>>}
      BY <2>5 DEF RedeemOffer
    <3>3. QED
      BY <2>1, <3>1, <3>2 DEF ReceiptsAreNumbered
  <2>6. ASSUME NEW b \in Customer, NEW amount, Clawback(b, amount) PROVE ReceiptsAreNumbered'
    <3>1. \A c \in Customer : profile'[c].redeemed = profile[c].redeemed
      BY <2>1, <2>6 DEF Clawback, ProfileType
    <3>2. QED
      BY <2>2, <2>6, <3>1 DEF Clawback, catalogue
  <2>7. CASE CampaignStep
    BY <2>2, <2>7, CampaignsOnlyMoveCampaigns DEF catalogue
  <2>8. ASSUME UNCHANGED profile, receipts' \subseteq receipts PROVE ReceiptsAreNumbered'
    BY <2>2, <2>8
  <2>9. CASE BadgeStep \/ OwnerStep \/ NextDay \/ UNCHANGED vars
    BY <2>8, <2>9 DEF BadgeStep, CreateAchievement, CloseAchievement, GrantAchievement, OwnerStep,
              MerchantOnly, SetMerchantPaused, SetIssueStatus, SetDailyIssueCap, SetClawbackCap,
              SetPaused, NextDay, vars, catalogue
  <2>10. CASE RedemptionStep
    <3>1. ASSUME NEW o, NEW supply, CreateOffer(o, supply) PROVE ReceiptsAreNumbered'
      BY <2>8, <3>1 DEF CreateOffer
    <3>2. ASSUME NEW o, CloseOffer(o) PROVE ReceiptsAreNumbered'
      BY <2>8, <3>2 DEF CloseOffer
    <3>3. ASSUME NEW o, NEW gated, SetOfferSegment(o, gated) PROVE ReceiptsAreNumbered'
      BY <2>8, <3>3 DEF SetOfferSegment
    <3>4. ASSUME NEW o, NEW c, NEW n, CloseReceipt(o, c, n) PROVE ReceiptsAreNumbered'
      BY <2>8, <3>4 DEF CloseReceipt
    <3>5. ASSUME NEW c, NEW d, NEW amount, Gift(c, d, amount) PROVE ReceiptsAreNumbered'
      BY <2>8, <3>5 DEF Gift, catalogue
    <3>6. QED
      BY <2>5, <2>6, <2>10, <3>1, <3>2, <3>3, <3>4, <3>5 DEF RedemptionStep
  <2>11. QED
    BY <2>4, <2>7, <2>9, <2>10 DEF Next
<1>3. QED
  BY <1>1, <1>2, PointsTypeCorrect, PTL DEF Spec

-----------------------------------------------------------------------------
(* The books of points.  Sums are totals of one field of the profiles.      *)

Earned == [c \in Customer |-> profile[c].earned]
Redeemed == [c \in Customer |-> profile[c].redeemed]
Confiscated == [c \in Customer |-> profile[c].clawed]
Known == {c \in Customer : profile[c].known}

PointBooks ==
  /\ merchant.customers = Cardinality(Known)
  /\ merchant.issued = Total(Earned, Customer)
  /\ merchant.redemptions = Total(Redeemed, Customer)
  /\ merchant.clawed = Total(Confiscated, Customer)
  /\ merchant.issued = Total(balance, Customer) + treasury + burned

BadgeBooks ==
  /\ IsFiniteSet(kleos) /\ merchant.badges = Cardinality(kleos)
  /\ \A a \in AchievementId :
       achievement[a].open => achievement[a].badges <= Cardinality({e \in kleos : e[1] = a})

LEMMA AccountsAreInt ==
  ASSUME TypeOK
  PROVE  /\ IsFiniteSet(Customer)
         /\ \A c \in Customer : /\ Earned[c] \in Int /\ Redeemed[c] \in Int
                                 /\ Confiscated[c] \in Int /\ balance[c] \in Int
         /\ merchant.customers \in Nat /\ treasury \in Nat /\ burned \in Nat
BY PointsAssumption DEF TypeOK, Earned, Redeemed, Confiscated

(* A customer's first dealing makes one more known customer.                *)
LEMMA MeetingCounts ==
  ASSUME TypeOK, NEW c \in Customer, profile'[c].known,
         \A d \in Customer \ {c} : profile'[d] = profile[d]
  PROVE  Cardinality(Known') = Cardinality(Known) + NewCustomers(c) /\ Cardinality(Known) \in Nat
<1>1. IsFiniteSet(Known) /\ IsFiniteSet(Customer)
  BY PointsAssumption, FS_Subset DEF Known
<1>2. Known' = Known \cup {c}
  BY DEF Known
<1>3. c \in Known <=> profile[c].known
  BY DEF Known
<1>4. Cardinality(Known) \in Nat
  BY <1>1, FS_CardinalityType
<1>5. Cardinality(Known \cup {c}) = IF c \in Known THEN Cardinality(Known) ELSE Cardinality(Known) + 1
  BY <1>1, FS_AddElement
<1> QED
  BY <1>2, <1>3, <1>4, <1>5 DEF NewCustomers

(* One customer's earnings move the total of all earnings by as much.   *)
LEMMA EarnedGrows ==
  ASSUME TypeOK, NEW c \in Customer, NEW n \in Int,
         profile'[c].earned = profile[c].earned + n,
         \A d \in Customer \ {c} : profile'[d] = profile[d]
  PROVE  Total(Earned, Customer) \in Int /\ Total(Earned', Customer) = Total(Earned, Customer) + n
<1>1. Earned'[c] = Earned[c] + n /\ \A d \in Customer \ {c} : Earned'[d] = Earned[d]
  BY DEF Earned
<1>2. IsFiniteSet(Customer) /\ \A d \in Customer : Earned[d] \in Int
  BY AccountsAreInt
<1> QED
  BY <1>1, <1>2, TotalAfterOne

(* One customer's redemptions, likewise.                                 *)
LEMMA RedeemedGrows ==
  ASSUME TypeOK, NEW c \in Customer, NEW n \in Int,
         profile'[c].redeemed = profile[c].redeemed + n,
         \A d \in Customer \ {c} : profile'[d] = profile[d]
  PROVE  Total(Redeemed, Customer) \in Int /\ Total(Redeemed', Customer) = Total(Redeemed, Customer) + n
<1>1. Redeemed'[c] = Redeemed[c] + n /\ \A d \in Customer \ {c} : Redeemed'[d] = Redeemed[d]
  BY DEF Redeemed
<1>2. IsFiniteSet(Customer) /\ \A d \in Customer : Redeemed[d] \in Int
  BY AccountsAreInt
<1> QED
  BY <1>1, <1>2, TotalAfterOne

(* What is clawed back from one customer, likewise.                      *)
LEMMA ConfiscatedGrows ==
  ASSUME TypeOK, NEW c \in Customer, NEW n \in Int,
         profile'[c].clawed = profile[c].clawed + n,
         \A d \in Customer \ {c} : profile'[d] = profile[d]
  PROVE  Total(Confiscated, Customer) \in Int /\ Total(Confiscated', Customer) = Total(Confiscated, Customer) + n
<1>1. Confiscated'[c] = Confiscated[c] + n /\ \A d \in Customer \ {c} : Confiscated'[d] = Confiscated[d]
  BY DEF Confiscated
<1>2. IsFiniteSet(Customer) /\ \A d \in Customer : Confiscated[d] \in Int
  BY AccountsAreInt
<1> QED
  BY <1>1, <1>2, TotalAfterOne

(* What one customer holds, likewise.                                    *)
LEMMA BalanceGrows ==
  ASSUME TypeOK, NEW c \in Customer, NEW n \in Int,
         balance'[c] = balance[c] + n, \A d \in Customer \ {c} : balance'[d] = balance[d]
  PROVE  Total(balance, Customer) \in Int /\ Total(balance', Customer) = Total(balance, Customer) + n
<1>1. balance'[c] = balance[c] + n /\ \A d \in Customer \ {c} : balance'[d] = balance[d]
  OBVIOUS
<1>2. IsFiniteSet(Customer) /\ \A d \in Customer : balance[d] \in Int
  BY AccountsAreInt
<1> QED
  BY <1>1, <1>2, TotalAfterOne

(* Every instruction over points deals with one customer: it writes e earned*)
(* points, r redemptions and w confiscated points into the profile and into *)
(* the merchant, and what it issues goes to the customer, the treasury or   *)
(* the fire.                                                                *)
LEMMA DealingKeepsBooks ==
  ASSUME TypeOK, PointBooks, NEW c \in Customer,
         NEW e \in Int, NEW r \in Int, NEW w \in Int, NEW b \in Int, NEW t \in Int, NEW u \in Int,
         e = b + t + u,
         \A d \in Customer \ {c} : profile'[d] = profile[d] /\ balance'[d] = balance[d],
         profile'[c].known,
         profile'[c].earned = profile[c].earned + e,
         profile'[c].redeemed = profile[c].redeemed + r,
         profile'[c].clawed = profile[c].clawed + w,
         balance'[c] = balance[c] + b, treasury' = treasury + t, burned' = burned + u,
         merchant'.customers = merchant.customers + NewCustomers(c),
         merchant'.issued = merchant.issued + e,
         merchant'.redemptions = merchant.redemptions + r,
         merchant'.clawed = merchant.clawed + w
  PROVE  PointBooks'
<1>1. /\ merchant.customers = Cardinality(Known) /\ merchant.issued = Total(Earned, Customer)
      /\ merchant.redemptions = Total(Redeemed, Customer)
      /\ merchant.clawed = Total(Confiscated, Customer)
      /\ merchant.issued = Total(balance, Customer) + treasury + burned
  BY DEF PointBooks
<1>2. /\ IsFiniteSet(Customer) /\ treasury \in Int /\ burned \in Int
      /\ \A d \in Customer : balance[d] \in Int
  BY AccountsAreInt
<1>3. Total(Earned, Customer) \in Int /\ Total(Earned', Customer) = Total(Earned, Customer) + e
  BY EarnedGrows
<1>4. Total(Redeemed, Customer) \in Int /\ Total(Redeemed', Customer) = Total(Redeemed, Customer) + r
  BY RedeemedGrows
<1>5. Total(Confiscated, Customer) \in Int /\ Total(Confiscated', Customer) = Total(Confiscated, Customer) + w
  BY ConfiscatedGrows
<1>6. Total(balance, Customer) \in Int /\ Total(balance', Customer) = Total(balance, Customer) + b
  BY BalanceGrows
<1>7. Cardinality(Known') = Cardinality(Known) + NewCustomers(c)
  BY MeetingCounts
<1>8. merchant'.issued = Total(balance', Customer) + treasury' + burned'
  BY <1>1, <1>2, <1>6
<1> QED
  BY <1>1, <1>3, <1>4, <1>5, <1>7, <1>8 DEF PointBooks

(* What no instruction has dealt with stays as it is.                       *)
LEMMA BooksUntouched ==
  ASSUME PointBooks, UNCHANGED <<profile, balance, treasury, burned>>,
         /\ merchant'.customers = merchant.customers /\ merchant'.issued = merchant.issued
         /\ merchant'.redemptions = merchant.redemptions /\ merchant'.clawed = merchant.clawed
  PROVE  PointBooks'
<1>1. Earned' = Earned /\ Redeemed' = Redeemed /\ Confiscated' = Confiscated /\ Known' = Known
  BY DEF Earned, Redeemed, Confiscated, Known
<1> QED
  BY <1>1 DEF PointBooks

LEMMA AccrueKeepsBooks ==
  ASSUME TypeOK, PointBooks, NEW c \in Customer, NEW amount \in Nat, NEW total \in Nat,
         Accrue(c, amount, total), UNCHANGED <<treasury, burned>>
  PROVE  PointBooks'
<1>1. /\ profile \in [Customer -> ProfileType] /\ merchant \in MerchantType
      /\ balance \in [Customer -> Nat] /\ treasury \in Nat /\ burned \in Nat
  BY DEF TypeOK, ProfileType, MerchantType
<1>2. /\ \A d \in Customer \ {c} : profile'[d] = profile[d] /\ balance'[d] = balance[d]
      /\ profile'[c].known
      /\ profile'[c].earned = profile[c].earned + total
      /\ profile'[c].redeemed = profile[c].redeemed + 0
      /\ profile'[c].clawed = profile[c].clawed + 0
      /\ balance'[c] = balance[c] + total
  BY <1>1 DEF Accrue, ProfileType
<1>3. /\ merchant'.customers = merchant.customers + NewCustomers(c)
      /\ merchant'.issued = merchant.issued + total
      /\ merchant'.redemptions = merchant.redemptions + 0
      /\ merchant'.clawed = merchant.clawed + 0
  BY <1>1 DEF Accrue, MerchantType
<1>4. treasury' = treasury + 0 /\ burned' = burned + 0
  BY <1>1
<1>5. total \in Int /\ total = total + 0 + 0
  OBVIOUS
<1> QED
  BY <1>2, <1>3, <1>4, <1>5, DealingKeepsBooks

LEMMA RedeemKeepsBooks ==
  ASSUME TypeOK, PointBooks, NEW o \in OfferId, NEW c \in Customer, NEW verified,
         RedeemOffer(o, c, verified)
  PROVE  PointBooks'
<1>1. /\ profile \in [Customer -> ProfileType] /\ merchant \in MerchantType
      /\ balance \in [Customer -> Nat] /\ treasury \in Nat /\ burned \in Nat
  BY DEF TypeOK, ProfileType, MerchantType
<1>2. PICK raw \in Costs[o] : balance' = [balance EXCEPT ![c] = @ - raw] /\ burned' = burned + raw
  BY DEF RedeemOffer
<1>3. raw \in Int /\ -raw \in Int /\ 0 = (-raw) + 0 + raw
  BY PointsAssumption
<1>4. balance'[c] = balance[c] + (-raw) /\ \A d \in Customer \ {c} : balance'[d] = balance[d]
  BY <1>1, <1>2, <1>3
<1>5. /\ \A d \in Customer \ {c} : profile'[d] = profile[d]
      /\ profile'[c].known
      /\ profile'[c].earned = profile[c].earned + 0
      /\ profile'[c].redeemed = profile[c].redeemed + 1
      /\ profile'[c].clawed = profile[c].clawed + 0
  BY <1>1 DEF RedeemOffer, ProfileType
<1>6. /\ merchant'.customers = merchant.customers + NewCustomers(c)
      /\ merchant'.issued = merchant.issued + 0
      /\ merchant'.redemptions = merchant.redemptions + 1
      /\ merchant'.clawed = merchant.clawed + 0
  BY <1>1 DEF RedeemOffer, MerchantType
<1>7. treasury' = treasury + 0
  BY <1>1 DEF RedeemOffer
<1> QED
  BY <1>2, <1>3, <1>4, <1>5, <1>6, <1>7, DealingKeepsBooks

LEMMA ClawbackKeepsBooks ==
  ASSUME TypeOK, PointBooks, NEW c \in Customer, NEW amount \in Nat, Clawback(c, amount)
  PROVE  PointBooks'
<1>1. /\ profile \in [Customer -> ProfileType] /\ merchant \in MerchantType
      /\ balance \in [Customer -> Nat] /\ treasury \in Nat /\ burned \in Nat
  BY DEF TypeOK, ProfileType, MerchantType
<1>2. amount \in Int /\ -amount \in Int /\ 0 = (-amount) + amount + 0
  OBVIOUS
<1>3. balance'[c] = balance[c] + (-amount) /\ \A d \in Customer \ {c} : balance'[d] = balance[d]
  BY <1>1, <1>2 DEF Clawback
<1>4. /\ \A d \in Customer \ {c} : profile'[d] = profile[d]
      /\ profile'[c].known
      /\ profile'[c].earned = profile[c].earned + 0
      /\ profile'[c].redeemed = profile[c].redeemed + 0
      /\ profile'[c].clawed = profile[c].clawed + amount
  BY <1>1 DEF Clawback, ProfileType
<1>5. /\ merchant'.customers = merchant.customers + NewCustomers(c)
      /\ merchant'.issued = merchant.issued + 0
      /\ merchant'.redemptions = merchant.redemptions + 0
      /\ merchant'.clawed = merchant.clawed + amount
  BY <1>1 DEF Clawback, MerchantType
<1>6. treasury' = treasury + amount /\ burned' = burned + 0
  BY <1>1 DEF Clawback
<1> QED
  BY <1>2, <1>3, <1>4, <1>5, <1>6, DealingKeepsBooks

LEMMA GiftKeepsBooks ==
  ASSUME TypeOK, PointBooks, NEW c \in Customer, NEW d \in Customer, NEW amount \in Nat,
         Gift(c, d, amount)
  PROVE  PointBooks'
<1>1. UNCHANGED <<merchant, profile, treasury, burned>> /\ c # d
  BY DEF Gift
<1>2. Total(balance', Customer) = Total(balance, Customer)
  <2>1. balance \in [Customer -> Nat]
    BY DEF TypeOK
  <2>2. /\ balance'[c] = balance[c] - amount /\ balance'[d] = balance[d] + amount
        /\ \A x \in Customer \ {c, d} : balance'[x] = balance[x]
    BY <2>1 DEF Gift
  <2> QED
    BY <1>1, <2>2, AccountsAreInt, TotalAfterMove
<1>3. Earned' = Earned /\ Redeemed' = Redeemed /\ Confiscated' = Confiscated /\ Known' = Known
  BY <1>1 DEF Earned, Redeemed, Confiscated, Known
<1> QED
  BY <1>1, <1>2, <1>3 DEF PointBooks

LEMMA StepKeepsPointBooks ==
  ASSUME TypeOK, PointBooks, [Next]_vars
  PROVE  PointBooks'
<1>1. CASE EarnStep
  <2>1. ASSUME NEW c \in Customer, NEW amount \in Spends, NEW boost \in Boosts,
               EarnPoints(c, amount, boost)
        PROVE  PointBooks'
    <3>1. amount \in Nat /\ Points(amount, TotalBps(StreakAfter(profile[c]), boost)) \in Nat
      BY PointsAssumption, StreakIsPositive, TotalBpsIsNat, PointsIsNat DEF TypeOK, ProfileType
    <3> QED
      BY <2>1, <3>1, AccrueKeepsBooks DEF EarnPoints
  <2>2. ASSUME NEW c \in Customer, NEW k \in CampaignId, NEW amount \in Spends,
               EarnPointsCampaign(c, k, amount)
        PROVE  PointBooks'
    <3> DEFINE total == Points(amount, TotalBps(StreakAfter(profile[c]), 0)) + Bonus(k, c, amount)
    <3>1. amount \in Nat /\ Points(amount, TotalBps(StreakAfter(profile[c]), 0)) \in Nat
      BY PointsAssumption, StreakIsPositive, TotalBpsIsNat, PointsIsNat DEF TypeOK, ProfileType
    <3>2. Bonus(k, c, amount) \in Nat
      BY <2>2, <3>1, EarnPays
    <3>3. total \in Nat
      BY <3>1, <3>2
    <3>4. Accrue(c, amount, total) /\ UNCHANGED <<treasury, burned>>
      BY <2>2 DEF EarnPointsCampaign
    <3> HIDE DEF total
    <3> QED
      BY <3>1, <3>3, <3>4, AccrueKeepsBooks
  <2> QED
    BY <1>1, <2>1, <2>2 DEF EarnStep
<1>2. CASE RedemptionStep
  <2>1. ASSUME UNCHANGED <<profile, balance, treasury, burned, merchant>> PROVE PointBooks'
    BY <2>1, BooksUntouched
  <2>2. ASSUME NEW o, NEW supply, CreateOffer(o, supply) PROVE PointBooks'
    BY <2>1, <2>2 DEF CreateOffer
  <2>3. ASSUME NEW o, CloseOffer(o) PROVE PointBooks'
    BY <2>1, <2>3 DEF CloseOffer
  <2>4. ASSUME NEW o, NEW gated, SetOfferSegment(o, gated) PROVE PointBooks'
    BY <2>1, <2>4 DEF SetOfferSegment
  <2>5. ASSUME NEW o, NEW c, NEW n, CloseReceipt(o, c, n) PROVE PointBooks'
    BY <2>1, <2>5 DEF CloseReceipt
  <2> QED
    BY <1>2, <2>2, <2>3, <2>4, <2>5, RedeemKeepsBooks, ClawbackKeepsBooks, GiftKeepsBooks,
       PointsAssumption DEF RedemptionStep
<1>3. CASE CampaignStep
  BY <1>3, BooksUntouched, CampaignsOnlyMoveCampaigns
<1>4. CASE BadgeStep
  <2>1. merchant \in MerchantType
    BY DEF TypeOK, MerchantType
  <2>2. UNCHANGED <<profile, balance, treasury, burned>>
    BY <1>4 DEF BadgeStep, CreateAchievement, CloseAchievement, GrantAchievement
  <2>3. merchant' = merchant \/ merchant' = [merchant EXCEPT !.badges = @ + 1]
    BY <1>4 DEF BadgeStep, CreateAchievement, CloseAchievement, GrantAchievement
  <2>4. /\ merchant'.customers = merchant.customers /\ merchant'.issued = merchant.issued
        /\ merchant'.redemptions = merchant.redemptions /\ merchant'.clawed = merchant.clawed
    BY <2>1, <2>3 DEF MerchantType
  <2> QED
    BY <2>2, <2>4, BooksUntouched
<1>5. CASE OwnerStep
  <2>1. merchant \in MerchantType
    BY DEF TypeOK, MerchantType
  <2>2. UNCHANGED <<profile, balance, treasury, burned>>
    BY <1>5 DEF OwnerStep, MerchantOnly, SetMerchantPaused, SetIssueStatus, SetDailyIssueCap,
                SetClawbackCap, SetPaused
  <2>3. /\ merchant'.customers = merchant.customers /\ merchant'.issued = merchant.issued
        /\ merchant'.redemptions = merchant.redemptions /\ merchant'.clawed = merchant.clawed
    BY <1>5, <2>1 DEF OwnerStep, MerchantOnly, SetMerchantPaused, SetIssueStatus, SetDailyIssueCap,
                SetClawbackCap, SetPaused, MerchantType
  <2> QED
    BY <2>2, <2>3, BooksUntouched
<1>6. CASE NextDay \/ UNCHANGED vars
  BY <1>6, BooksUntouched DEF NextDay, vars
<1> QED
  BY <1>1, <1>2, <1>3, <1>4, <1>5, <1>6 DEF Next

(* Badges: closing an achievement and opening it anew restarts its own      *)
(* count, never the merchant's or the receipts.                             *)
LEMMA StepKeepsBadgeBooks ==
  ASSUME TypeOK, BadgeBooks, [Next]_vars
  PROVE  BadgeBooks'
<1>0. /\ kleos \in SUBSET (AchievementId \X Customer) /\ merchant \in MerchantType
      /\ \A a \in AchievementId : achievement[a].open => achievement[a] \in AchievementType
      /\ DOMAIN achievement = AchievementId
  <2>1. achievement \in [AchievementId -> AchievementType \cup {NoAchievement}]
    BY DEF TypeOK, AchievementType
  <2>2. ~NoAchievement.open
    BY DEF NoAchievement
  <2> QED
    BY <2>1, <2>2 DEF TypeOK, MerchantType
<1>1. \A a : IsFiniteSet({e \in kleos : e[1] = a}) /\ Cardinality({e \in kleos : e[1] = a}) \in Nat
  <2> TAKE a
  <2>1. {e \in kleos : e[1] = a} \in SUBSET kleos /\ IsFiniteSet(kleos)
    BY DEF BadgeBooks
  <2>2. IsFiniteSet({e \in kleos : e[1] = a})
    BY <2>1, FS_Subset
  <2> QED
    BY <2>2, FS_CardinalityType
<1>2. ASSUME kleos' = kleos, merchant'.badges = merchant.badges,
             \A a \in AchievementId : achievement'[a].open =>
               achievement'[a] = achievement[a] \/ achievement'[a].badges = 0
      PROVE  BadgeBooks'
  <2>1. ASSUME NEW a \in AchievementId, achievement'[a].open
        PROVE  achievement'[a].badges <= Cardinality({e \in kleos : e[1] = a})
    <3>1. CASE achievement'[a] = achievement[a]
      BY <2>1, <3>1 DEF BadgeBooks
    <3>2. CASE achievement'[a].badges = 0
      BY <1>1, <3>2
    <3> QED
      BY <1>2, <2>1, <3>1, <3>2
  <2> QED
    BY <1>2, <2>1 DEF BadgeBooks
<1>3. ASSUME NEW a \in AchievementId, NEW c \in Customer, GrantAchievement(a, c)
      PROVE  BadgeBooks'
  <2>1. /\ <<a, c>> \notin kleos /\ kleos' = kleos \cup {<<a, c>>} /\ achievement[a].open
        /\ achievement' = [achievement EXCEPT ![a].badges = @ + 1]
        /\ merchant' = [merchant EXCEPT !.badges = @ + 1]
    BY <1>3 DEF GrantAchievement
  <2>2. merchant'.badges = merchant.badges + 1
    BY <1>0, <2>1 DEF MerchantType
  <2>3. IsFiniteSet(kleos') /\ merchant'.badges = Cardinality(kleos')
    <3>1. IsFiniteSet(kleos) /\ merchant.badges = Cardinality(kleos)
      BY DEF BadgeBooks
    <3>2. /\ IsFiniteSet(kleos \cup {<<a, c>>})
          /\ Cardinality(kleos \cup {<<a, c>>}) = Cardinality(kleos) + 1
      BY <2>1, <3>1, FS_AddElement
    <3> QED
      BY <2>1, <2>2, <3>1, <3>2
  <2>4. ASSUME NEW x \in AchievementId, achievement'[x].open
        PROVE  achievement'[x].badges <= Cardinality({e \in kleos' : e[1] = x})
    <3> DEFINE old == {e \in kleos : e[1] = x}
               new == {e \in kleos' : e[1] = x}
    <3>1. IsFiniteSet(old) /\ Cardinality(old) \in Nat
      BY <1>1
    <3>2. CASE x = a
      <4>1. new = old \cup {<<a, c>>} /\ <<a, c>> \notin old
        BY <2>1, <3>2
      <4>2. Cardinality(new) = Cardinality(old) + 1
        <5> HIDE DEF old, new
        <5> QED
          BY <3>1, <4>1, FS_AddElement
      <4>3. achievement'[a].badges = achievement[a].badges + 1
        BY <1>0, <2>1 DEF AchievementType
      <4>4. achievement[a].badges <= Cardinality(old) /\ achievement[a].badges \in Nat
        BY <1>0, <2>1, <3>2 DEF BadgeBooks, AchievementType
      <4> HIDE DEF old, new
      <4>5. achievement'[x].badges <= Cardinality(new)
        BY <3>1, <3>2, <4>2, <4>3, <4>4
      <4> QED
        BY <4>5 DEF new
    <3>3. CASE x # a
      <4>1. new = old
        BY <2>1, <3>3
      <4>2. achievement'[x] = achievement[x]
        BY <1>0, <2>1, <3>3
      <4>3. achievement'[x].badges <= Cardinality(old)
        BY <2>4, <4>2 DEF BadgeBooks
      <4> QED
        BY <4>1, <4>3
    <3> QED
      BY <3>2, <3>3
  <2> QED
    BY <2>3, <2>4 DEF BadgeBooks
<1>4. ASSUME NEW a \in AchievementId, NEW level, CreateAchievement(a, level) PROVE BadgeBooks'
  <2>1. \A x \in AchievementId : achievement'[x] = achievement[x] \/ achievement'[x].badges = 0
    BY <1>0, <1>4 DEF CreateAchievement
  <2> QED
    BY <1>2, <1>4, <2>1 DEF CreateAchievement
<1>5. ASSUME NEW a \in AchievementId, CloseAchievement(a) PROVE BadgeBooks'
  <2>1. \A x \in AchievementId : achievement'[x].open => achievement'[x] = achievement[x]
    BY <1>0, <1>5 DEF CloseAchievement, NoAchievement
  <2> QED
    BY <1>2, <1>5, <2>1 DEF CloseAchievement
<1>6. ASSUME UNCHANGED <<kleos, achievement>>, merchant'.badges = merchant.badges PROVE BadgeBooks'
  BY <1>2, <1>6
<1>7. CASE EarnStep
  <2>1. ASSUME NEW c, NEW amount, NEW total, Accrue(c, amount, total)
        PROVE  merchant'.badges = merchant.badges
    BY <1>0, <2>1 DEF Accrue, MerchantType
  <2>2. ASSUME NEW c, NEW amount, NEW boost, EarnPoints(c, amount, boost) PROVE BadgeBooks'
    BY <1>6, <2>1, <2>2 DEF EarnPoints, catalogue
  <2>3. ASSUME NEW c, NEW k, NEW amount, EarnPointsCampaign(c, k, amount) PROVE BadgeBooks'
    <3>1. PICK total : Accrue(c, amount, total)
      BY <2>3 DEF EarnPointsCampaign
    <3> QED
      BY <1>6, <2>1, <2>3, <3>1 DEF EarnPointsCampaign, catalogue
  <2> QED
    BY <1>7, <2>2, <2>3 DEF EarnStep
<1>8. CASE CampaignStep
  BY <1>6, <1>8, CampaignsOnlyMoveCampaigns DEF catalogue
<1>9. CASE RedemptionStep
  <2>1. UNCHANGED <<kleos, achievement>>
    BY <1>9 DEF RedemptionStep, CreateOffer, CloseOffer, SetOfferSegment, RedeemOffer, CloseReceipt,
                Gift, Clawback, catalogue
  <2>2. merchant'.badges = merchant.badges
    BY <1>0, <1>9 DEF RedemptionStep, CreateOffer, CloseOffer, SetOfferSegment, RedeemOffer,
                CloseReceipt, Gift, Clawback, MerchantType
  <2> QED
    BY <1>6, <2>1, <2>2
<1>10. CASE OwnerStep
  BY <1>0, <1>6, <1>10 DEF OwnerStep, MerchantOnly, SetMerchantPaused, SetIssueStatus,
                SetDailyIssueCap, SetClawbackCap, SetPaused, catalogue, MerchantType
<1>11. CASE NextDay \/ UNCHANGED vars
  BY <1>6, <1>11 DEF NextDay, vars, catalogue
<1>12. CASE BadgeStep
  BY <1>3, <1>4, <1>5, <1>12 DEF BadgeStep
<1> QED
  BY <1>7, <1>8, <1>9, <1>10, <1>11, <1>12 DEF Next

(* BooksAlwaysReconcile: whatever is earned, redeemed, given, clawed back,  *)
(* granted and closed, in whatever order, the merchant's lifetime counters  *)
(* are the sums of the customers', and no point is made or lost unseen.     *)
THEOREM BooksAlwaysReconcile == Spec => []BooksReconcile
<1>1. Init => PointBooks /\ BadgeBooks
  <2> SUFFICES ASSUME Init PROVE PointBooks /\ BadgeBooks
    OBVIOUS
  <2>1. \A c \in Customer : /\ Earned[c] = 0 /\ Redeemed[c] = 0 /\ Confiscated[c] = 0
                            /\ balance[c] = 0 /\ ~profile[c].known
    BY DEF Init, NoProfile, Earned, Redeemed, Confiscated
  <2>2. /\ Total(Earned, Customer) = 0 /\ Total(Redeemed, Customer) = 0
        /\ Total(Confiscated, Customer) = 0 /\ Total(balance, Customer) = 0
    BY <2>1, PointsAssumption, TotalOfZeros
  <2>3. Known = {} /\ kleos = {} /\ treasury = 0 /\ burned = 0
    BY <2>1 DEF Known, Init
  <2>4. /\ merchant.customers = 0 /\ merchant.issued = 0 /\ merchant.redemptions = 0
        /\ merchant.clawed = 0 /\ merchant.badges = 0
    BY DEF Init
  <2>5. \A a \in AchievementId : ~achievement[a].open
    BY DEF Init, NoAchievement
  <2> QED
    BY <2>2, <2>3, <2>4, <2>5, FS_EmptySet DEF PointBooks, BadgeBooks
<1>2. TypeOK /\ PointBooks /\ BadgeBooks /\ [Next]_vars => PointBooks' /\ BadgeBooks'
  BY StepKeepsPointBooks, StepKeepsBadgeBooks
<1>3. PointBooks /\ BadgeBooks => BooksReconcile
  <2>1. /\ Total(Earned, Customer) = MapThenSumSet(LAMBDA c : profile[c].earned, Customer)
        /\ Total(Redeemed, Customer) = MapThenSumSet(LAMBDA c : profile[c].redeemed, Customer)
        /\ Total(Confiscated, Customer) = MapThenSumSet(LAMBDA c : profile[c].clawed, Customer)
    BY Zenon DEF Total, Earned, Redeemed, Confiscated, MapThenSumSet, MapThenFoldSet
  <2>2. Total(balance, Customer) = MapThenSumSet(LAMBDA c : balance[c], Customer)
    BY Zenon DEF Total
  <2> QED
    BY <2>1, <2>2 DEF PointBooks, BadgeBooks, BooksReconcile, Known
<1> QED
  BY <1>1, <1>2, <1>3, PointsTypeCorrect, PTL DEF Spec

-----------------------------------------------------------------------------
(* The accounts behind the points.  What is retired fits the bounds of      *)
(* MerchantAccounts because no one holds more than was ever issued, which is*)
(* what the books say.                                                      *)

IssuedFits == merchant.issued <= MaxIssued

LEMMA HoldingsFit ==
  ASSUME TypeOK, BooksReconcile, IssuedFits
  PROVE  /\ merchant.issued \in Nat /\ burned \in Nat /\ treasury \in Nat /\ MaxIssued \in Nat
         /\ \A c \in Customer : balance[c] \in Nat /\ balance[c] <= MaxIssued
<1>1. /\ merchant.issued \in Nat /\ burned \in Nat /\ treasury \in Nat /\ MaxIssued \in Nat
      /\ IsFiniteSet(Customer) /\ \A c \in Customer : balance[c] \in Nat
  BY PointsAssumption DEF TypeOK
<1>2. Total(balance, Customer) = MapThenSumSet(LAMBDA c : balance[c], Customer)
  BY Zenon DEF Total
<1>3. merchant.issued = Total(balance, Customer) + treasury + burned
  BY <1>2 DEF BooksReconcile
<1>4. ASSUME NEW c \in Customer
      PROVE  balance[c] <= MaxIssued
  <2>1. Total(balance, Customer) \in Nat /\ balance[c] <= Total(balance, Customer)
    BY <1>1, TotalIsAtLeast
  <2> QED
    BY <1>1, <1>3, <2>1 DEF IssuedFits
<1> QED
  BY <1>1, <1>4

(* What MerchantAccounts does not see.                                      *)
LEMMA NothingSeen ==
  ASSUME halted' = halted, merchant'.paused = merchant.paused, merchant'.issued = merchant.issued,
         UNCHANGED <<burned, balance, treasury>>
  PROVE  UNCHANGED Accounts!accounts
BY DEF Accounts!accounts, SeenMerchant, SeenSupply, SeenBalance, Held

LEMMA IssueSeen ==
  ASSUME TypeOK, NEW c \in Customer, NEW n \in Nat, n > 0,
         ~halted, halted' = halted, ~merchant.paused, merchant'.paused = merchant.paused,
         merchant.issued - burned + n <= MaxIssued, merchant'.issued = merchant.issued + n,
         burned' = burned, balance' = [balance EXCEPT ![c] = @ + n], treasury' = treasury
  PROVE  Accounts!Issue(Self, c, n)
<1>1. merchant.issued \in Nat /\ burned \in Nat /\ balance \in [Customer -> Nat] /\ c # Treasury
  BY PointsAssumption DEF TypeOK
<1>2. SeenMerchant' = SeenMerchant /\ SeenMerchant[Self].open /\ ~SeenMerchant[Self].paused
  BY DEF SeenMerchant
<1>3. SeenSupply[Self] = merchant.issued - burned /\ SeenSupply'[Self] = SeenSupply[Self] + n
  BY <1>1 DEF SeenSupply
<1>4. SeenSupply' = [SeenSupply EXCEPT ![Self] = @ + n]
  BY <1>3 DEF SeenSupply
<1>5. Held' = [Held EXCEPT ![c] = @ + n]
  BY <1>1 DEF Held
<1>6. SeenBalance' = [SeenBalance EXCEPT ![Self][c] = @ + n]
  BY <1>5 DEF SeenBalance
<1> QED
  BY <1>2, <1>3, <1>4, <1>6 DEF Accounts!Issue

LEMMA RetireSeen ==
  ASSUME TypeOK, NEW c \in Customer, NEW n \in Nat, n > 0, n <= balance[c],
         halted' = halted, merchant'.paused = merchant.paused, merchant'.issued = merchant.issued,
         burned' = burned + n, balance' = [balance EXCEPT ![c] = @ - n], treasury' = treasury
  PROVE  Accounts!Retire(Self, c, n)
<1>1. merchant.issued \in Nat /\ burned \in Nat /\ balance \in [Customer -> Nat] /\ c # Treasury
  BY PointsAssumption DEF TypeOK
<1>2. SeenMerchant' = SeenMerchant
  BY DEF SeenMerchant
<1>3. SeenSupply'[Self] = SeenSupply[Self] - n
  BY <1>1 DEF SeenSupply
<1>4. SeenSupply' = [SeenSupply EXCEPT ![Self] = @ - n]
  BY <1>3 DEF SeenSupply
<1>5. Held' = [Held EXCEPT ![c] = @ - n] /\ Held[c] = balance[c]
  BY <1>1 DEF Held
<1>6. SeenBalance' = [SeenBalance EXCEPT ![Self][c] = @ - n] /\ SeenBalance[Self][c] = balance[c]
  BY <1>5 DEF SeenBalance
<1> QED
  BY <1>2, <1>4, <1>6 DEF Accounts!Retire

(* A transfer: to another customer, or (a clawback) to the treasury.        *)
LEMMA TransferSeen ==
  ASSUME TypeOK, NEW c \in Customer, NEW g \in Customer \cup {Treasury}, g # c,
         NEW n \in Nat, n > 0, n <= balance[c],
         halted' = halted, merchant'.paused = merchant.paused, merchant'.issued = merchant.issued,
         burned' = burned, Held' = [Held EXCEPT ![c] = @ - n, ![g] = @ + n]
  PROVE  Accounts!Transfer(Self, c, g, n)
<1>1. Held[c] = balance[c]
  BY PointsAssumption DEF Held
<1>2. SeenMerchant' = SeenMerchant /\ SeenSupply' = SeenSupply
  BY DEF SeenMerchant, SeenSupply
<1>3. SeenBalance' = [SeenBalance EXCEPT ![Self][c] = @ - n, ![Self][g] = @ + n]
      /\ SeenBalance[Self][c] = balance[c]
  BY <1>1 DEF SeenBalance
<1> QED
  BY <1>2, <1>3 DEF Accounts!Transfer

(* An earn issues, unless it is worth nothing.                              *)
LEMMA EarnSeen ==
  ASSUME TypeOK, BooksReconcile, IssuedFits, MayIssue, halted' = halted,
         NEW c \in Customer, NEW amount \in Nat, NEW total \in Nat,
         Accrue(c, amount, total), UNCHANGED <<treasury, burned>>
  PROVE  Accounts!AccountsStep \/ UNCHANGED Accounts!accounts
<1>1. merchant \in MerchantType /\ balance \in [Customer -> Nat]
  BY DEF TypeOK, MerchantType
<1>2. /\ merchant'.paused = merchant.paused /\ merchant'.issued = merchant.issued + total
      /\ balance' = [balance EXCEPT ![c] = @ + total] /\ merchant.issued + total <= MaxIssued
  BY <1>1 DEF Accrue, MerchantType
<1>3. merchant.issued \in Nat /\ burned \in Nat /\ MaxIssued \in Nat
  BY HoldingsFit
<1>4. CASE total = 0
  <2>1. balance' = balance /\ merchant'.issued = merchant.issued
    BY <1>1, <1>2, <1>3, <1>4
  <2> QED
    BY <1>2, <2>1, NothingSeen
<1>5. CASE total > 0
  <2>1. merchant.issued - burned + total <= MaxIssued /\ total \in 1 .. MaxIssued
    BY <1>2, <1>3, <1>5
  <2>2. Accounts!Issue(Self, c, total)
    BY <1>2, <1>5, <2>1, IssueSeen DEF MayIssue
  <2> QED
    BY <2>1, <2>2 DEF Accounts!AccountsStep, Accounts!PointStep
<1> QED
  BY <1>4, <1>5

LEMMA RedemptionSeen ==
  ASSUME TypeOK, BooksReconcile, IssuedFits, NEW o \in OfferId, NEW c \in Customer, NEW verified,
         RedeemOffer(o, c, verified)
  PROVE  Accounts!AccountsStep \/ UNCHANGED Accounts!accounts
<1>1. merchant \in MerchantType /\ balance \in [Customer -> Nat]
  BY DEF TypeOK, MerchantType
<1>2. PICK raw \in Costs[o] : /\ raw <= balance[c] /\ burned' = burned + raw
                              /\ balance' = [balance EXCEPT ![c] = @ - raw]
  BY DEF RedeemOffer
<1>3. /\ halted' = halted /\ treasury' = treasury
      /\ merchant'.paused = merchant.paused /\ merchant'.issued = merchant.issued
  BY <1>1 DEF RedeemOffer, MerchantType
<1>4. raw \in Nat /\ burned \in Nat /\ balance[c] \in Nat /\ balance[c] <= MaxIssued /\ MaxIssued \in Nat
  BY PointsAssumption, HoldingsFit
<1>5. CASE raw = 0
  <2>1. balance' = balance /\ burned' = burned
    BY <1>1, <1>2, <1>4, <1>5
  <2> QED
    BY <1>3, <2>1, NothingSeen
<1>6. CASE raw > 0
  <2>1. Accounts!Retire(Self, c, raw)
    BY <1>2, <1>3, <1>4, <1>6, RetireSeen
  <2>2. raw \in 1 .. MaxIssued
    BY <1>2, <1>4, <1>6
  <2> QED
    BY <2>1, <2>2 DEF Accounts!AccountsStep, Accounts!PointStep, Accounts!Holder
<1> QED
  BY <1>4, <1>5, <1>6

LEMMA MoveSeen ==
  ASSUME TypeOK, BooksReconcile, IssuedFits, NEW c \in Customer, NEW amount \in Nat,
         Clawback(c, amount) \/ \E d \in Customer : Gift(c, d, amount)
  PROVE  Accounts!AccountsStep \/ UNCHANGED Accounts!accounts
<1>1. /\ merchant \in MerchantType /\ balance \in [Customer -> Nat] /\ Treasury \notin Customer
      /\ treasury \in Nat
  BY PointsAssumption DEF TypeOK, MerchantType
<1>2. /\ halted' = halted /\ burned' = burned /\ amount <= balance[c]
      /\ merchant'.paused = merchant.paused /\ merchant'.issued = merchant.issued
  BY <1>1 DEF Clawback, Gift, MerchantType
<1>3. balance[c] \in Nat /\ balance[c] <= MaxIssued /\ MaxIssued \in Nat
  BY HoldingsFit
<1>4. PICK g \in Customer \cup {Treasury} :
        g # c /\ Held' = [Held EXCEPT ![c] = @ - amount, ![g] = @ + amount]
  <2>1. CASE Clawback(c, amount)
    <3>1. balance' = [balance EXCEPT ![c] = @ - amount] /\ treasury' = treasury + amount
      BY <2>1 DEF Clawback
    <3>2. Held' = [Held EXCEPT ![c] = @ - amount, ![Treasury] = @ + amount]
      BY <1>1, <3>1 DEF Held
    <3> QED
      BY <1>1, <3>2
  <2>2. ASSUME NEW d \in Customer, Gift(c, d, amount)
        PROVE  d # c /\ Held' = [Held EXCEPT ![c] = @ - amount, ![d] = @ + amount]
    <3>1. /\ balance' = [balance EXCEPT ![c] = @ - amount, ![d] = @ + amount]
          /\ treasury' = treasury /\ d # c
      BY <2>2 DEF Gift
    <3> QED
      BY <1>1, <3>1 DEF Held
  <2> QED
    BY <2>1, <2>2
<1>5. CASE amount = 0
  <2>1. Held[c] - amount = Held[c] /\ Held[g] + amount = Held[g]
    BY <1>1, <1>5 DEF Held
  <2>2. Held' = [Held EXCEPT ![c] = Held[c], ![g] = Held[g]]
    BY <1>4, <2>1
  <2>3. Held' = Held
    BY <2>2 DEF Held
  <2> QED
    BY <1>2, <2>3 DEF Accounts!accounts, SeenMerchant, SeenSupply, SeenBalance
<1>6. CASE amount > 0
  <2>1. Accounts!Transfer(Self, c, g, amount)
    BY <1>2, <1>4, <1>6, TransferSeen
  <2>2. amount \in 1 .. MaxIssued
    BY <1>2, <1>3, <1>6
  <2> QED
    BY <2>1, <2>2 DEF Accounts!AccountsStep, Accounts!PointStep, Accounts!Holder
<1> QED
  BY <1>5, <1>6

LEMMA OwnerSeen ==
  ASSUME TypeOK, OwnerStep
  PROVE  Accounts!AccountsStep \/ UNCHANGED Accounts!accounts
<1>1. merchant \in MerchantType
  BY DEF TypeOK, MerchantType
<1>2. ASSUME NEW on \in Switches, SetMerchantPaused(on)
      PROVE  Accounts!AccountsStep
  <2>1. /\ UNCHANGED <<halted, burned, balance, treasury>>
        /\ merchant'.paused = on /\ merchant'.issued = merchant.issued
    BY <1>1, <1>2 DEF SetMerchantPaused, MerchantOnly, MerchantType
  <2>2. SeenSupply' = SeenSupply /\ SeenBalance' = SeenBalance
    BY <2>1 DEF SeenSupply, SeenBalance, Held
  <2>3. SeenMerchant' = [SeenMerchant EXCEPT ![Self].paused = on] /\ SeenMerchant[Self].open
    BY <2>1 DEF SeenMerchant
  <2>4. Accounts!SetMerchantPaused(Self, on)
    BY <2>1, <2>2, <2>3 DEF Accounts!SetMerchantPaused
  <2> QED
    BY <2>4 DEF Accounts!AccountsStep, Accounts!RegistrationStep
<1>3. ASSUME NEW on \in Switches, SetPaused(on)
      PROVE  Accounts!AccountsStep
  <2>1. Accounts!SetPaused(on)
    BY <1>3 DEF SetPaused, Accounts!SetPaused, SeenMerchant, SeenSupply, SeenBalance, Held
  <2> QED
    BY <2>1 DEF Accounts!AccountsStep, Accounts!RegistrationStep
<1>4. ASSUME NEW x, SetIssueStatus(x) \/ SetDailyIssueCap(x) \/ SetClawbackCap(x)
      PROVE  UNCHANGED Accounts!accounts
  <2>1. /\ UNCHANGED <<halted, burned, balance, treasury>>
        /\ merchant'.paused = merchant.paused /\ merchant'.issued = merchant.issued
    BY <1>1, <1>4 DEF SetIssueStatus, SetDailyIssueCap, SetClawbackCap, MerchantOnly, MerchantType
  <2> QED
    BY <2>1, NothingSeen
<1> QED
  BY <1>2, <1>3, <1>4 DEF OwnerStep

LEMMA StepSeen ==
  ASSUME TypeOK, BooksReconcile, IssuedFits, [Next]_vars
  PROVE  Accounts!AccountsStep \/ UNCHANGED Accounts!accounts
<1>1. CASE EarnStep
  <2>1. PICK c \in Customer, amount \in Spends, total \in Nat :
          /\ Accrue(c, amount, total) /\ MayIssue /\ UNCHANGED <<halted, treasury, burned>>
    <3>1. ASSUME NEW c \in Customer, NEW amount \in Spends
          PROVE  /\ amount \in Nat
                 /\ \A boost \in Boosts \cup {0} :
                      Points(amount, TotalBps(StreakAfter(profile[c]), boost)) \in Nat
      BY PointsAssumption, StreakIsPositive, TotalBpsIsNat, PointsIsNat DEF TypeOK, ProfileType
    <3>2. ASSUME NEW c \in Customer, NEW amount \in Spends, NEW boost \in Boosts,
                 EarnPoints(c, amount, boost)
          PROVE  \E total \in Nat : /\ Accrue(c, amount, total) /\ MayIssue
                                    /\ UNCHANGED <<halted, treasury, burned>>
      BY <3>1, <3>2 DEF EarnPoints
    <3>3. ASSUME NEW c \in Customer, NEW amount \in Spends, NEW k \in CampaignId,
                 EarnPointsCampaign(c, k, amount)
          PROVE  \E total \in Nat : /\ Accrue(c, amount, total) /\ MayIssue
                                    /\ UNCHANGED <<halted, treasury, burned>>
      <4> DEFINE total == Points(amount, TotalBps(StreakAfter(profile[c]), 0)) + Bonus(k, c, amount)
      <4>1. Bonus(k, c, amount) \in Nat
        BY <3>1, <3>3, EarnPays
      <4>2. total \in Nat
        BY <3>1, <4>1
      <4>3. Accrue(c, amount, total) /\ MayIssue /\ UNCHANGED <<halted, treasury, burned>>
        BY <3>3 DEF EarnPointsCampaign
      <4> HIDE DEF total
      <4> QED
        BY <4>2, <4>3
    <3> QED
      BY <1>1, <3>2, <3>3 DEF EarnStep
  <2>2. amount \in Nat
    BY PointsAssumption
  <2> QED
    BY <2>1, <2>2, EarnSeen
<1>2. CASE CampaignStep
  <2>1. UNCHANGED <<halted, merchant, burned, balance, treasury>>
    BY <1>2, CampaignsOnlyMoveCampaigns
  <2> QED
    BY <2>1, NothingSeen
<1>3. CASE RedemptionStep
  <2>1. ASSUME UNCHANGED <<halted, merchant, burned, balance, treasury>>
        PROVE  UNCHANGED Accounts!accounts
    BY <2>1, NothingSeen
  <2>2. ASSUME NEW o, NEW x, CreateOffer(o, x) \/ CloseOffer(o) \/ SetOfferSegment(o, x)
        PROVE  UNCHANGED Accounts!accounts
    BY <2>1, <2>2 DEF CreateOffer, CloseOffer, SetOfferSegment
  <2>3. ASSUME NEW o, NEW c, NEW n, CloseReceipt(o, c, n)
        PROVE  UNCHANGED Accounts!accounts
    BY <2>1, <2>3 DEF CloseReceipt
  <2>4. Amounts \subseteq Nat
    BY PointsAssumption
  <2> QED
    BY <1>3, <2>2, <2>3, <2>4, RedemptionSeen, MoveSeen DEF RedemptionStep
<1>4. CASE BadgeStep
  <2>1. merchant \in MerchantType
    BY DEF TypeOK, MerchantType
  <2>2. /\ UNCHANGED <<halted, burned, balance, treasury>>
        /\ merchant' = merchant \/ merchant' = [merchant EXCEPT !.badges = @ + 1]
    BY <1>4 DEF BadgeStep, CreateAchievement, CloseAchievement, GrantAchievement
  <2>3. merchant'.paused = merchant.paused /\ merchant'.issued = merchant.issued
    BY <2>1, <2>2 DEF MerchantType
  <2> QED
    BY <2>2, <2>3, NothingSeen
<1>5. CASE NextDay \/ UNCHANGED vars
  BY <1>5, NothingSeen DEF NextDay, vars
<1> QED
  BY <1>1, <1>2, <1>3, <1>4, <1>5, OwnerSeen DEF Next

LEMMA StepKeepsIssuedFits ==
  ASSUME TypeOK, IssuedFits, [Next]_vars
  PROVE  IssuedFits'
<1>1. merchant \in MerchantType
  BY DEF TypeOK, MerchantType
<1>2. ASSUME merchant'.issued = merchant.issued PROVE IssuedFits'
  BY <1>2 DEF IssuedFits
<1>3. CASE EarnStep
  <2>1. PICK c \in Customer, amount \in Spends : \E total : Accrue(c, amount, total)
    <3>1. ASSUME NEW c \in Customer, NEW amount \in Spends, NEW boost, EarnPoints(c, amount, boost)
          PROVE  \E total : Accrue(c, amount, total)
      BY <3>1 DEF EarnPoints
    <3>2. ASSUME NEW c \in Customer, NEW amount \in Spends, NEW k, EarnPointsCampaign(c, k, amount)
          PROVE  \E total : Accrue(c, amount, total)
      BY <3>2 DEF EarnPointsCampaign
    <3> QED
      BY <1>3, <3>1, <3>2 DEF EarnStep
  <2> PICK total : Accrue(c, amount, total)
    BY <2>1
  <2>2. merchant'.issued = merchant.issued + total /\ merchant.issued + total <= MaxIssued
    BY <1>1 DEF Accrue, MerchantType
  <2> QED
    BY <2>2 DEF IssuedFits
<1>4. CASE RedemptionStep
  BY <1>1, <1>2, <1>4 DEF RedemptionStep, CreateOffer, CloseOffer, SetOfferSegment, RedeemOffer,
                          CloseReceipt, Gift, Clawback, MerchantType
<1>5. CASE CampaignStep \/ BadgeStep \/ OwnerStep
  <2>1. merchant'.issued = merchant.issued
    BY <1>1, <1>5, CampaignsOnlyMoveCampaigns
    DEF BadgeStep, CreateAchievement, CloseAchievement, GrantAchievement, OwnerStep, MerchantOnly,
        SetMerchantPaused, SetIssueStatus, SetDailyIssueCap, SetClawbackCap, SetPaused, MerchantType
  <2> QED
    BY <1>2, <2>1
<1>6. CASE NextDay \/ UNCHANGED vars
  BY <1>2, <1>6 DEF NextDay, vars
<1> QED
  BY <1>3, <1>4, <1>5, <1>6 DEF Next

(* PointsAreAccountSteps: earning, redeeming, giving, clawing back and the  *)
(* pauses do to the mint and the token accounts what MerchantAccounts says, *)
(* and every other instruction of a merchant leaves them alone.             *)
THEOREM PointsAreAccountSteps == Spec => ImplementsAccounts
<1>1. Init => Accounts!JustRegistered /\ IssuedFits
  <2> SUFFICES ASSUME Init PROVE Accounts!JustRegistered /\ IssuedFits
    OBVIOUS
  <2>1. /\ halted = FALSE /\ merchant.issued = 0 /\ ~merchant.paused /\ merchant.paused \in BOOLEAN
        /\ burned = 0 /\ treasury = 0 /\ balance = [c \in Customer |-> 0]
    BY DEF Init
  <2>2. SeenMerchant = [m \in {Self} |-> [open |-> TRUE, paused |-> FALSE, joined |-> "none"]]
    BY <2>1 DEF SeenMerchant
  <2>3. SeenSupply = [m \in {Self} |-> 0]
    BY <2>1 DEF SeenSupply
  <2>4. Held = [h \in Customer \cup {Treasury} |-> 0]
    BY <2>1 DEF Held
  <2> QED
    BY <2>1, <2>2, <2>3, <2>4, PointsAssumption
    DEF IssuedFits, Accounts!JustRegistered, Accounts!NewMerchant, Accounts!NoReserve, Accounts!Holder,
        SeenBalance
<1>2. TypeOK /\ IssuedFits /\ [Next]_vars => IssuedFits'
  BY StepKeepsIssuedFits
<1>3. TypeOK /\ BooksReconcile /\ IssuedFits /\ [Next]_vars =>
        [Accounts!AccountsStep]_(Accounts!accounts)
  BY StepSeen
<1> QED
  BY <1>1, <1>2, <1>3, PointsTypeCorrect, BooksAlwaysReconcile, PTL DEF Spec, ImplementsAccounts

-----------------------------------------------------------------------------
(* The books of one campaign: the customers who have joined it, and what     *)
(* each has drawn.                                                           *)
Joiners(k) == {c \in Customer : HasJoined(k, c)}
Drawn(k) == [c \in Customer |-> progress[<<k, c>>].drawn]

Booked(k) ==
  campaign[k].open =>
    /\ campaign[k].participants <= Cardinality(Joiners(k))
    /\ campaign[k].spent <= Total(Drawn(k), Joiners(k))
    /\ ~created[k].again => /\ campaign[k].participants = Cardinality(Joiners(k))
                            /\ campaign[k].spent = Total(Drawn(k), Joiners(k))

LEMMA DrawnIsInt ==
  ASSUME TypeOK, NEW k \in CampaignId
  PROVE  /\ IsFiniteSet(Joiners(k)) /\ Joiners(k) \subseteq Customer
         /\ \A c \in Customer : Drawn(k)[c] = progress[<<k, c>>].drawn /\ Drawn(k)[c] \in Int
<1>1. IsFiniteSet(Joiners(k)) /\ Joiners(k) \subseteq Customer
  BY PointsAssumption, FS_Subset DEF Joiners
<1>2. \A c \in Customer : progress[<<k, c>>].drawn \in Nat
  BY ProgressIsRecord DEF ProgressType
<1> QED
  BY <1>1, <1>2 DEF Drawn

(* A campaign whose slot, counts and progress a step leaves alone.          *)
LEMMA UntouchedStaysBooked ==
  ASSUME NEW k \in CampaignId, Booked(k),
         \A c \in Customer : progress'[<<k, c>>] = progress[<<k, c>>], created'[k] = created[k],
         campaign'[k].open => /\ campaign[k].open /\ campaign'[k].slot = campaign[k].slot
                              /\ campaign'[k].participants = campaign[k].participants
                              /\ campaign'[k].spent = campaign[k].spent
  PROVE  Booked(k)'
<1>1. ASSUME campaign'[k].open PROVE Joiners(k)' = Joiners(k)
  BY <1>1 DEF Joiners, HasJoined
<1>2. Drawn(k)' = Drawn(k)
  BY DEF Drawn
<1> QED
  BY <1>1, <1>2 DEF Booked

(* A payment to a customer whose progress is stale makes one participant    *)
(* more; any other adds to what the customer had drawn.                     *)
LEMMA PaymentStaysBooked ==
  ASSUME TypeOK, NEW k \in CampaignId, Booked(k), NEW b \in Customer, NEW amount \in Nat,
         EarnPointsCampaign(b, k, amount)
  PROVE  Booked(k)'
<1> DEFINE bonus == Bonus(k, b, amount)
           was == Drawn(k)
           new == Drawn(k)'
           before == Joiners(k)
           after == Joiners(k)'
<1>1. /\ campaign[k].open /\ bonus \in Nat
      /\ campaign'[k].slot = campaign[k].slot /\ progress'[<<k, b>>].slot = campaign[k].slot
      /\ campaign'[k].spent = campaign[k].spent + bonus
      /\ campaign'[k].participants = campaign[k].participants + (IF IsStale(k, b) THEN 1 ELSE 0)
  BY EarnPays DEF Campaign
<1>2. \A c \in Customer \ {b} : progress'[<<k, c>>] = progress[<<k, c>>]
  BY EarnPays
<1>3. progress'[<<k, b>>].drawn = ProgressOf(k, b).drawn + bonus
  BY EarnPays
<1>4. /\ Booked(k) /\ created' = created
      /\ campaign[k].participants \in Nat /\ campaign[k].spent \in Nat
  BY EarnPays DEF Campaign
<1>5. /\ IsFiniteSet(before) /\ before \subseteq Customer
      /\ \A c \in Customer : was[c] = progress[<<k, c>>].drawn /\ was[c] \in Int
  BY DrawnIsInt
<1>6. new[b] = ProgressOf(k, b).drawn + bonus /\ \A c \in Customer \ {b} : new[c] = was[c]
  BY <1>2, <1>3 DEF Drawn
<1>7. after = before \cup {b}
  BY <1>1, <1>2 DEF Joiners, HasJoined
<1>8. b \in before <=> ~IsStale(k, b)
  BY DEF Joiners, HasJoined, IsStale
<1>9. ASSUME IsStale(k, b)
      PROVE  /\ Cardinality(after) = Cardinality(before) + 1
             /\ Total(new, after) = Total(was, before) + bonus
  <2>1. new[b] = bonus
    BY <1>1, <1>6, <1>9 DEF ProgressOf, NoProgress
  <2> HIDE DEF bonus, was, new, before, after
  <2>2. b \notin before /\ bonus \in Int /\ \A c \in before : was[c] \in Int /\ new[c] = was[c]
    <3>1. bonus \in Int
      BY <1>1
    <3>2. b \notin before
      BY <1>8, <1>9
    <3>3. \A c \in before : was[c] \in Int /\ new[c] = was[c]
      BY <1>5, <1>6, <3>2
    <3> QED
      BY <3>1, <3>2, <3>3
  <2>3. /\ Cardinality(before \cup {b}) = Cardinality(before) + 1
        /\ Total(new, before \cup {b}) = Total(was, before) + bonus
    BY <1>5, <2>1, <2>2, TotalAfterNew
  <2> QED
    BY <1>7, <2>3
<1>10. ASSUME ~IsStale(k, b)
       PROVE  after = before /\ Total(new, after) = Total(was, before) + bonus
  <2>1. ProgressOf(k, b).drawn = progress[<<k, b>>].drawn
    BY <1>10 DEF ProgressOf
  <2> HIDE DEF bonus, was, new, before, after
  <2>2. new[b] = was[b] + bonus /\ after = before /\ b \in before
    BY <1>5, <1>6, <1>7, <1>8, <1>10, <2>1
  <2>3. Total(new, before) = Total(was, before) + bonus
    <3>1. bonus \in Int
      BY <1>1
    <3>2. \A c \in before : was[c] \in Int
      BY <1>5
    <3>3. \A c \in before \ {b} : new[c] = was[c]
      BY <1>5, <1>6
    <3> QED
      BY <1>5, <2>2, <3>1, <3>2, <3>3, TotalAfterOne
  <2> QED
    BY <2>2, <2>3
<1>11. /\ Cardinality(after) = Cardinality(before) + (IF IsStale(k, b) THEN 1 ELSE 0)
       /\ Total(new, after) = Total(was, before) + bonus
  <2>1. Cardinality(before) \in Nat
    BY <1>5, FS_CardinalityType
  <2> HIDE DEF bonus, was, new, before, after
  <2> QED
    BY <1>9, <1>10, <2>1
<1>12. Cardinality(before) \in Int /\ Total(was, before) \in Int
  <2>1. Cardinality(before) \in Nat
    BY <1>5, FS_CardinalityType
  <2>2. Total(was, before) \in Int
    <3> HIDE DEF was, before
    <3> QED
      BY <1>5, TotalIsInt
  <2> QED
    BY <2>1, <2>2
<1>13. /\ campaign[k].participants <= Cardinality(before) /\ campaign[k].spent <= Total(was, before)
       /\ ~created[k].again => /\ campaign[k].participants = Cardinality(before)
                               /\ campaign[k].spent = Total(was, before)
  BY <1>1, <1>4 DEF Booked
<1>14. /\ campaign'[k].participants <= Cardinality(after) /\ campaign'[k].spent <= Total(new, after)
       /\ ~created[k].again => /\ campaign'[k].participants = Cardinality(after)
                               /\ campaign'[k].spent = Total(new, after)
  <2> HIDE DEF bonus, was, new, before, after
  <2> QED
    BY <1>1, <1>4, <1>11, <1>12, <1>13
<1> QED
  BY <1>4, <1>14 DEF Booked

LEMMA CampaignStepStaysBooked ==
  ASSUME TypeOK, JoinedInv, CampaignStep, NEW k \in CampaignId, Booked(k)
  PROVE  Booked(k)'
<1>1. /\ DOMAIN campaign = CampaignId /\ DOMAIN created = CampaignId
      /\ UNCHANGED progress /\ \A c \in Customer : progress'[<<k, c>>] = progress[<<k, c>>]
  BY CampaignsOnlyMoveCampaigns DEF TypeOK
<1>2. ASSUME NEW j \in CampaignId, j # k, campaign'[k] = campaign[k], created'[k] = created[k]
      PROVE  Booked(k)'
  BY <1>1, <1>2, UntouchedStaysBooked
<1>3. ASSUME NEW j \in CampaignId, NEW t \in Terms, NEW s \in slot .. slot + 1,
             CreateCampaign(j, t, s)
      PROVE  Booked(k)'
  <2>1. CASE j # k
    BY <1>1, <1>2, <1>3, <2>1 DEF CreateCampaign
  <2>2. CASE j = k
    <3>1. /\ campaign'[k].slot = s /\ campaign'[k].participants = 0 /\ campaign'[k].spent = 0
      BY <1>1, <1>3, <2>2 DEF CreateCampaign
    <3>2. SlotsArePast
      BY DEF JoinedInv
    <3>3. ASSUME ~created'[k].again PROVE Joiners(k)' = {}
      <4>1. \A c \in Customer : progress[<<k, c>>].slot # s
        BY <1>3, <2>2, <3>2, <3>3, NewSlotIsClean
      <4> QED
        BY <1>1, <3>1, <4>1 DEF Joiners, HasJoined
    <3>4. Cardinality(Joiners(k)') >= 0 /\ Total(Drawn(k)', Joiners(k)') >= 0
      <4>1. IsFiniteSet(Joiners(k)') /\ Joiners(k)' \subseteq Customer
        BY PointsAssumption, FS_Subset DEF Joiners
      <4>2. \A c \in Customer : Drawn(k)'[c] \in Nat
        BY <1>1, ProgressIsRecord DEF Drawn, ProgressType
      <4>3. Total(Drawn(k)', Joiners(k)') \in Nat
        BY <4>1, <4>2, TotalIsNat
      <4>4. Cardinality(Joiners(k)') \in Nat
        BY <4>1, FS_CardinalityType
      <4> QED
        BY <4>3, <4>4
    <3> QED
      BY <3>1, <3>3, <3>4, TotalOfNone, FS_EmptySet DEF Booked
  <2> QED
    BY <2>1, <2>2
<1>4. ASSUME NEW j \in CampaignId, NEW ends, NEW budget, NEW cap, NEW paused,
             UpdateCampaign(j, ends, budget, cap, paused)
      PROVE  Booked(k)'
  <2>1. CASE j # k
    BY <1>1, <1>2, <1>4, <2>1 DEF UpdateCampaign
  <2>2. CASE j = k
    <3>1. campaign[k].open /\ campaign[k] \in Campaign
      BY <1>4, <2>2, OpenCampaign DEF UpdateCampaign
    <3>2. /\ campaign'[k].slot = campaign[k].slot /\ campaign'[k].spent = campaign[k].spent
          /\ campaign'[k].participants = campaign[k].participants /\ created' = created
      BY <1>1, <1>4, <2>2, <3>1 DEF UpdateCampaign, Campaign
    <3> QED
      BY <1>1, <3>1, <3>2, UntouchedStaysBooked
  <2> QED
    BY <2>1, <2>2
<1>5. ASSUME NEW j \in CampaignId, NEW days, SetCampaignWinback(j, days) PROVE Booked(k)'
  <2>1. CASE j # k
    BY <1>1, <1>2, <1>5, <2>1 DEF SetCampaignWinback
  <2>2. CASE j = k
    <3>1. campaign[k].open /\ campaign[k] \in Campaign
      BY <1>5, <2>2, OpenCampaign DEF SetCampaignWinback
    <3>2. /\ campaign'[k].slot = campaign[k].slot /\ campaign'[k].spent = campaign[k].spent
          /\ campaign'[k].participants = campaign[k].participants /\ created' = created
      BY <1>1, <1>5, <2>2, <3>1 DEF SetCampaignWinback, Campaign
    <3> QED
      BY <1>1, <3>1, <3>2, UntouchedStaysBooked
  <2> QED
    BY <2>1, <2>2
<1>6. ASSUME NEW j \in CampaignId, CloseCampaign(j) PROVE Booked(k)'
  <2>1. CASE j # k
    BY <1>1, <1>2, <1>6, <2>1 DEF CloseCampaign
  <2>2. CASE j = k
    BY <1>1, <1>6, <2>2 DEF CloseCampaign, NoCampaign, Booked
  <2> QED
    BY <2>1, <2>2
<1> QED
  BY <1>3, <1>4, <1>5, <1>6 DEF CampaignStep

(* CampaignsKeepTheirBooks: what a campaign says it has spent and on how    *)
(* many customers never exceeds what its customers' progress accounts say,  *)
(* and is exactly that unless the id was created again in one slot, through *)
(* retuning, closing and reopening of the id.                               *)
THEOREM CampaignsKeepTheirBooks == Spec => []CampaignBooks
<1> DEFINE AllBooked == \A k \in CampaignId : Booked(k)
<1>1. Init => AllBooked
  BY DEF Init, NoCampaign, Booked
<1>2. TypeOK /\ JoinedInv /\ AllBooked /\ [Next]_vars => AllBooked'
  <2> SUFFICES ASSUME TypeOK, JoinedInv, AllBooked, [Next]_vars, NEW k \in CampaignId
               PROVE  Booked(k)'
    OBVIOUS
  <2>1. CASE CampaignStep
    BY <2>1, CampaignStepStaysBooked
  <2>2. ASSUME NEW c \in Customer, NEW j \in CampaignId, NEW amount \in Spends,
               EarnPointsCampaign(c, j, amount)
        PROVE  Booked(k)'
    <3>1. amount \in Nat
      BY PointsAssumption
    <3>2. CASE j = k
      BY <2>2, <3>1, <3>2, PaymentStaysBooked
    <3>3. CASE j # k
      <4>1. /\ campaign'[k] = campaign[k] /\ created' = created
            /\ \A d \in Customer : progress'[<<k, d>>] = progress[<<k, d>>]
        BY <2>2, <3>1, <3>3, EarnPays
      <4> QED
        BY <4>1, UntouchedStaysBooked
    <3> QED
      BY <3>2, <3>3
  <2>3. CASE UNCHANGED <<campaign, progress, created>>
    BY <2>3, UntouchedStaysBooked
  <2> QED
    BY <2>1, <2>2, <2>3, OnlyCampaignsMove
<1>3. AllBooked => CampaignBooks
  <2> SUFFICES ASSUME AllBooked, NEW k \in CampaignId, campaign[k].open
               PROVE  LET drawn == MapThenSumSet(LAMBDA c : progress[<<k, c>>].drawn, Joiners(k))
                      IN /\ campaign[k].participants <= Cardinality(Joiners(k))
                         /\ campaign[k].spent <= drawn
                         /\ ~created[k].again => /\ campaign[k].participants = Cardinality(Joiners(k))
                                                 /\ campaign[k].spent = drawn
    BY DEF CampaignBooks, Joiners
  <2>1. Total(Drawn(k), Joiners(k)) = MapThenSumSet(LAMBDA c : progress[<<k, c>>].drawn, Joiners(k))
    <3> DEFINE f == [c \in Joiners(k) |-> progress[<<k, c>>].drawn]
    <3>1. Total(f, Joiners(k)) = MapThenSumSet(LAMBDA c : progress[<<k, c>>].drawn, Joiners(k))
      BY Zenon DEF Total, MapThenSumSet, MapThenFoldSet
    <3>2. IsFiniteSet(Joiners(k)) /\ \A c \in Joiners(k) : Drawn(k)[c] = f[c]
      BY PointsAssumption, FS_Subset DEF Joiners, Drawn
    <3> QED
      BY <3>1, <3>2, TotalOfSame
  <2> QED
    BY <2>1 DEF Booked
<1> QED
  BY <1>1, <1>2, <1>3, PointsTypeCorrect, AlwaysJoined, PTL DEF Spec
-----------------------------------------------------------------------------
(* What an earn mints, against the joint ceiling.                           *)

(* Rounding down twice yields no more than rounding down once.              *)
LEMMA DivisionRounds ==
  ASSUME NEW x \in Nat, NEW y \in Nat, NEW u \in Nat, u > 0
  PROVE  (x \div u) + (y \div u) <= (x + y) \div u
<1> DEFINE p == x \div u
           q == y \div u
           r == (x + y) \div u
<1>1. \A n \in Nat : n \div u \in Nat /\ u * (n \div u) <= n /\ n < u * (n \div u) + u
  OBVIOUS
<1>2. /\ p \in Nat /\ q \in Nat /\ r \in Nat
      /\ u * p <= x /\ u * q <= y /\ x + y < u * r + u
  BY <1>1
<1> HIDE DEF p, q, r
<1>3. u * p + u * q = u * (p + q) /\ u * r + u = u * (r + 1)
  BY <1>2
<1>4. u * (p + q) < u * (r + 1)
  <2>1. u * p \in Nat /\ u * q \in Nat /\ u * r \in Nat
    BY <1>2
  <2> QED
    BY <1>2, <1>3, <2>1
<1>5. \A a \in Nat, b \in Nat : b <= a => u * b <= u * a
  OBVIOUS
<1>6. p + q < r + 1
  <2>1. u * (p + q) \in Nat /\ u * (r + 1) \in Nat
    BY <1>2
  <2> QED
    BY <1>2, <1>4, <1>5, <2>1
<1> QED
  BY <1>2, <1>6 DEF p, q, r

LEMMA PointsAdd ==
  ASSUME NEW amount \in Nat, NEW a \in Nat, NEW b \in Nat
  PROVE  /\ Points(amount, a) \in Nat /\ Points(amount, b) \in Nat
         /\ Points(amount, a) + Points(amount, b) <= Points(amount, a + b)
<1> DEFINE rate == amount * EarnRate
<1>1. rate \in Nat /\ Unit \in Nat /\ Unit > 0
  BY PointsAssumption
<1>2. Points(amount, a) = (rate * a) \div Unit /\ Points(amount, b) = (rate * b) \div Unit
      /\ Points(amount, a + b) = (rate * (a + b)) \div Unit
  BY DEF Points
<1> HIDE DEF rate
<1>3. rate * a \in Nat /\ rate * b \in Nat /\ rate * (a + b) = rate * a + rate * b
  BY <1>1
<1>4. ((rate * a) \div Unit) + ((rate * b) \div Unit) <= (rate * a + rate * b) \div Unit
  BY <1>1, <1>3, DivisionRounds
<1> QED
  BY <1>2, <1>3, <1>4, PointsIsNat

LEMMA PointsGrow ==
  ASSUME NEW amount \in Nat, NEW a \in Nat, NEW b \in Nat, a <= b
  PROVE  Points(amount, a) <= Points(amount, b)
<1>1. b - a \in Nat /\ a + (b - a) = b
  OBVIOUS
<1>2. Points(amount, a) \in Nat /\ Points(amount, b - a) \in Nat
      /\ Points(amount, a) + Points(amount, b - a) <= Points(amount, a + (b - a))
  BY <1>1, PointsAdd
<1>3. Points(amount, b) \in Nat
  BY PointsIsNat
<1> QED
  BY <1>1, <1>2, <1>3

LEMMA NothingForNothing == Points(0, MaxTotalBps) = 0
<1>1. 0 * EarnRate = 0 /\ 0 * MaxTotalBps = 0
  BY PointsAssumption
<1>2. \A u \in Nat : u > 0 => 0 \div u = 0
  OBVIOUS
<1> QED
  BY <1>1, <1>2, PointsAssumption DEF Points

(* A multiplier campaign pays at most what its headroom over the streak is  *)
(* worth, and base and bonus together what the ceiling is worth.            *)
LEMMA MultiplierStaysUnder ==
  ASSUME TypeOK, NEW c \in Customer, NEW k \in CampaignId, NEW amount \in Nat,
         campaign[k].open, campaign[k].terms.kind = "MULTIPLIER"
  PROVE  Points(amount, TotalBps(StreakAfter(profile[c]), 0)) + Bonus(k, c, amount)
           <= Points(amount, MaxTotalBps)
<1> DEFINE streak == StreakAfter(profile[c])
           base == TotalBps(streak, 0)
           credited == Least(campaign[k].terms.bps, Headroom(streak))
<1>1. campaign[k] \in Campaign /\ campaign[k].terms \in CampaignArgs
      /\ campaign[k].cap \in Nat /\ campaign[k].budget \in Nat /\ campaign[k].spent \in Nat
      /\ campaign[k].terms.bps \in Nat
  BY OpenCampaign DEF Campaign, CampaignArgs
<1>2. streak \in Nat
  BY StreakIsPositive DEF TypeOK, ProfileType
<1> HIDE DEF streak
<1>3. base \in Nat /\ base <= MaxTotalBps /\ MaxTotalBps \in Nat /\ Headroom(streak) \in Nat
      /\ Headroom(streak) = MaxTotalBps - base
  BY <1>2, TotalBpsIsNat, HeadroomIsNat, PointsAssumption DEF Headroom
<1>4. credited \in Nat /\ base + credited <= MaxTotalBps /\ base + credited \in Nat
  <2>1. credited \in Nat /\ credited <= Headroom(streak)
    BY <1>1, <1>3, LeastIsNat
  <2> HIDE DEF credited, base
  <2> QED
    BY <1>3, <2>1
<1>5. GrossBonus(k, c, amount) = Points(amount, credited)
  BY DEF GrossBonus, streak
<1> HIDE DEF base, credited
<1>6. Points(amount, base) \in Nat /\ Points(amount, credited) \in Nat
      /\ Points(amount, base) + Points(amount, credited) <= Points(amount, base + credited)
  BY <1>3, <1>4, PointsAdd
<1>7. Points(amount, base + credited) <= Points(amount, MaxTotalBps)
  BY <1>3, <1>4, PointsGrow
<1>8. Points(amount, base + credited) \in Nat /\ Points(amount, MaxTotalBps) \in Nat
  BY <1>3, <1>4, PointsIsNat
<1>9. Bonus(k, c, amount) \in Nat /\ Bonus(k, c, amount) <= GrossBonus(k, c, amount)
  <2>1. ProgressOf(k, c).drawn \in Nat
    BY ProgressIsRecord DEF ProgressType
  <2>2. PICK first \in Nat :
          /\ first = Clamp(GrossBonus(k, c, amount), campaign[k].cap, ProgressOf(k, c).drawn)
          /\ first <= GrossBonus(k, c, amount)
    BY <1>1, <1>5, <1>6, <2>1, ClampFits
  <2>3. Bonus(k, c, amount) \in Nat /\ Bonus(k, c, amount) <= first
    BY <1>1, <2>2, ClampFits DEF Bonus
  <2> QED
    BY <1>5, <1>6, <2>2, <2>3
<1> QED
  BY <1>5, <1>6, <1>7, <1>8, <1>9 DEF base, streak

(* What a step pays out of the campaigns that are no multipliers.           *)
Paid == {k \in CampaignId : campaign[k].open /\ campaign'[k].open
                            /\ campaign[k].terms.kind # "MULTIPLIER"}
PaidOut == [k \in Paid |-> campaign'[k].spent - campaign[k].spent]

LEMMA PaymentsAreNat ==
  ASSUME TypeOK, [Next]_vars
  PROVE  /\ IsFiniteSet(Paid)
         /\ \A k \in Paid : PaidOut[k] \in Nat /\ PaidOut[k] = campaign'[k].spent - campaign[k].spent
<1>1. IsFiniteSet(Paid)
  BY PointsAssumption, FS_Subset DEF Paid
<1>2. ASSUME NEW k \in Paid PROVE campaign'[k].spent - campaign[k].spent \in Nat
  <2>1. k \in CampaignId /\ campaign[k].open /\ campaign'[k].open
    BY <1>2 DEF Paid
  <2>2. campaign[k] \in Campaign /\ campaign[k].spent \in Nat
    BY <2>1, OpenCampaign DEF Campaign
  <2>3. campaign'[k].spent = campaign[k].spent => campaign'[k].spent - campaign[k].spent \in Nat
    BY <2>2
  <2>4. ASSUME NEW c \in Customer, NEW j \in CampaignId, NEW amount \in Spends,
               EarnPointsCampaign(c, j, amount)
        PROVE  campaign'[k].spent - campaign[k].spent \in Nat
    <3>1. amount \in Nat
      BY PointsAssumption
    <3>2. CASE j = k
      <4>1. campaign'[k].spent = campaign[k].spent + Bonus(k, c, amount) /\ Bonus(k, c, amount) \in Nat
        BY <2>4, <3>1, <3>2, EarnPays
      <4> QED
        BY <2>2, <4>1
    <3>3. CASE j # k
      <4>1. campaign'[k] = campaign[k]
        BY <2>1, <2>4, <3>1, <3>3, EarnPays
      <4> QED
        BY <2>3, <4>1
    <3> QED
      BY <3>2, <3>3
  <2>5. CASE CampaignStep
    <3>1. DOMAIN campaign = CampaignId
      BY DEF TypeOK
    <3>2. ASSUME NEW j \in CampaignId, NEW t, NEW s, CreateCampaign(j, t, s)
          PROVE  campaign'[k].spent = campaign[k].spent
      BY <2>1, <3>1, <3>2 DEF CreateCampaign
    <3>3. ASSUME NEW j \in CampaignId, NEW ends, NEW budget, NEW cap, NEW paused,
                 UpdateCampaign(j, ends, budget, cap, paused)
          PROVE  campaign'[k].spent = campaign[k].spent
      BY <2>1, <2>2, <3>1, <3>3 DEF UpdateCampaign, Campaign
    <3>4. ASSUME NEW j \in CampaignId, NEW days, SetCampaignWinback(j, days)
          PROVE  campaign'[k].spent = campaign[k].spent
      BY <2>1, <2>2, <3>1, <3>4 DEF SetCampaignWinback, Campaign
    <3>5. ASSUME NEW j \in CampaignId, CloseCampaign(j)
          PROVE  campaign'[k].spent = campaign[k].spent
      BY <2>1, <3>1, <3>5 DEF CloseCampaign, NoCampaign
    <3> QED
      BY <2>3, <2>5, <3>2, <3>3, <3>4, <3>5 DEF CampaignStep
  <2>6. CASE UNCHANGED <<campaign, progress>>
    BY <2>3, <2>6
  <2> QED
    BY <2>4, <2>5, <2>6, OnlyCampaignsMove
<1> QED
  BY <1>1, <1>2 DEF PaidOut

(* What accrue writes into the profiles.                                    *)
LEMMA AccrueWrites ==
  ASSUME TypeOK, NEW c \in Customer, NEW amount \in Nat, NEW total \in Nat, Accrue(c, amount, total)
  PROVE  /\ profile'[c].earned - profile[c].earned = total
         /\ profile'[c].spend - profile[c].spend = amount
         /\ \A d \in Customer \ {c} : profile'[d] = profile[d]
<1>1. profile[c].earned \in Nat /\ profile[c].spend \in Nat
  BY DEF TypeOK
<1>2. /\ profile'[c].earned = profile[c].earned + total /\ profile'[c].spend = profile[c].spend + amount
      /\ \A d \in Customer \ {c} : profile'[d] = profile[d]
  BY DEF Accrue, TypeOK
<1> QED
  BY <1>1, <1>2

(* No other step adds to what a customer has earned or spent.               *)
LEMMA OnlyEarnsEarn ==
  ASSUME TypeOK, [Next]_vars, ~EarnStep, NEW c \in Customer
  PROVE  profile'[c].earned = profile[c].earned /\ profile'[c].spend = profile[c].spend
<1>1. profile \in [Customer -> ProfileType]
  BY DEF TypeOK, ProfileType
<1>2. ASSUME NEW o, NEW d, NEW verified, RedeemOffer(o, d, verified)
      PROVE  profile'[c].earned = profile[c].earned /\ profile'[c].spend = profile[c].spend
  BY <1>1, <1>2 DEF RedeemOffer, ProfileType
<1>3. ASSUME NEW d, NEW amount, Clawback(d, amount)
      PROVE  profile'[c].earned = profile[c].earned /\ profile'[c].spend = profile[c].spend
  BY <1>1, <1>3 DEF Clawback, ProfileType
<1>4. CASE RedemptionStep
  BY <1>2, <1>3, <1>4 DEF RedemptionStep, CreateOffer, CloseOffer, SetOfferSegment, CloseReceipt, Gift
<1>5. CASE CampaignStep
  BY <1>5, CampaignsOnlyMoveCampaigns
<1>6. CASE BadgeStep \/ OwnerStep \/ NextDay \/ UNCHANGED vars
  BY <1>6 DEF BadgeStep, CreateAchievement, CloseAchievement, GrantAchievement, OwnerStep,
              MerchantOnly, SetMerchantPaused, SetIssueStatus, SetDailyIssueCap, SetClawbackCap,
              SetPaused, NextDay, vars
<1> QED
  BY <1>4, <1>5, <1>6 DEF Next

LEMMA StepHonoursCeiling ==
  ASSUME TypeOK, [Next]_vars, NEW c \in Customer
  PROVE  profile'[c].earned - profile[c].earned
           <= Points(profile'[c].spend - profile[c].spend, MaxTotalBps) + Total(PaidOut, Paid)
<1> DEFINE earned == profile'[c].earned - profile[c].earned
           spent == profile'[c].spend - profile[c].spend
<1>1. /\ IsFiniteSet(Paid)
      /\ \A k \in Paid : PaidOut[k] \in Nat /\ PaidOut[k] = campaign'[k].spent - campaign[k].spent
  BY PaymentsAreNat
<1>2. Total(PaidOut, Paid) \in Nat
  BY <1>1, TotalIsNat
<1>3. MaxTotalBps \in Nat /\ Spends \subseteq Nat /\ Boosts \subseteq Nat
      /\ profile[c].earned \in Nat /\ profile[c].spend \in Nat
  BY PointsAssumption DEF TypeOK
<1>4. profile'[c].earned = profile[c].earned /\ profile'[c].spend = profile[c].spend
        => earned = 0 /\ spent = 0
  BY <1>3
<1>5. ASSUME earned = 0, spent = 0
      PROVE  earned <= Points(spent, MaxTotalBps) + Total(PaidOut, Paid)
  BY <1>2, <1>5, NothingForNothing
<1>6. ASSUME NEW d \in Customer, NEW amount \in Nat, NEW boost \in Nat, EarnPoints(d, amount, boost)
      PROVE  earned <= Points(spent, MaxTotalBps) + Total(PaidOut, Paid)
  <2> DEFINE bps == TotalBps(StreakAfter(profile[d]), boost)
  <2>1. bps \in Nat /\ bps <= MaxTotalBps
    BY StreakIsPositive, TotalBpsIsNat DEF TypeOK, ProfileType
  <2>2. Accrue(d, amount, Points(amount, bps))
    BY <1>6 DEF EarnPoints
  <2> HIDE DEF bps
  <2>3. Points(amount, bps) \in Nat /\ Points(amount, bps) <= Points(amount, MaxTotalBps)
        /\ Points(amount, MaxTotalBps) \in Nat
    BY <1>3, <2>1, PointsGrow, PointsIsNat
  <2>4. CASE d = c
    <3>1. earned = Points(amount, bps) /\ spent = amount
      BY <2>2, <2>3, <2>4, AccrueWrites
    <3> HIDE DEF earned, spent
    <3> QED
      BY <1>2, <2>3, <3>1
  <2>5. CASE d # c
    <3>1. profile'[c] = profile[c]
      BY <2>2, <2>3, <2>5, AccrueWrites
    <3> QED
      BY <1>4, <1>5, <3>1
  <2> QED
    BY <2>4, <2>5
<1>7. ASSUME NEW d \in Customer, NEW k \in CampaignId, NEW amount \in Nat,
             EarnPointsCampaign(d, k, amount)
      PROVE  earned <= Points(spent, MaxTotalBps) + Total(PaidOut, Paid)
  <2> DEFINE base == Points(amount, TotalBps(StreakAfter(profile[d]), 0))
             bonus == Bonus(k, d, amount)
  <2>1. base \in Nat /\ base <= Points(amount, MaxTotalBps) /\ Points(amount, MaxTotalBps) \in Nat
    BY <1>3, StreakIsPositive, TotalBpsIsNat, PointsGrow, PointsIsNat DEF TypeOK, ProfileType
  <2>2. /\ bonus \in Nat /\ campaign[k] \in Campaign /\ campaign'[k] \in Campaign
        /\ campaign[k].open /\ campaign'[k].open
        /\ campaign[k].spent \in Nat /\ campaign'[k].spent = campaign[k].spent + bonus
    BY <1>7, EarnPays DEF Campaign
  <2>3. campaign[k].terms.kind = "MULTIPLIER" => base + bonus <= Points(amount, MaxTotalBps)
    BY <2>2, MultiplierStaysUnder
  <2>4. Accrue(d, amount, base + bonus)
    BY <1>7 DEF EarnPointsCampaign
  <2> HIDE DEF base, bonus
  <2>5. base + bonus \in Nat
    BY <2>1, <2>2
  <2>6. campaign[k].terms.kind # "MULTIPLIER" => bonus <= Total(PaidOut, Paid)
    <3> SUFFICES ASSUME campaign[k].terms.kind # "MULTIPLIER" PROVE bonus <= Total(PaidOut, Paid)
      OBVIOUS
    <3>1. k \in Paid
      BY <2>2 DEF Paid
    <3>2. PaidOut[k] = bonus
      BY <1>1, <2>2, <3>1
    <3> QED
      BY <1>1, <3>1, <3>2, TotalIsAtLeast
  <2>7. CASE d = c
    <3>1. earned = base + bonus /\ spent = amount
      BY <2>4, <2>5, <2>7, AccrueWrites
    <3> HIDE DEF earned, spent
    <3> QED
      BY <1>2, <2>1, <2>2, <2>3, <2>6, <3>1
  <2>8. CASE d # c
    <3>1. profile'[c] = profile[c]
      BY <2>4, <2>5, <2>8, AccrueWrites
    <3> QED
      BY <1>4, <1>5, <3>1
  <2> QED
    BY <2>7, <2>8
<1>8. CASE EarnStep
  BY <1>3, <1>6, <1>7, <1>8 DEF EarnStep
<1>9. CASE ~EarnStep
  BY <1>4, <1>5, <1>9, OnlyEarnsEarn
<1> QED
  BY <1>8, <1>9

(* TheCeilingIsHonoured: whatever streak, segments and multiplier campaign   *)
(* come together on an earn, rounding included, they mint no more than the  *)
(* joint ceiling is worth; only flat bonuses and quest rewards come on top. *)
THEOREM TheCeilingIsHonoured == Spec => CeilingHonoured
<1>1. Total(PaidOut, Paid) = MapThenSumSet(LAMBDA k : campaign'[k].spent - campaign[k].spent, Paid)
  BY Zenon DEF Total, PaidOut, MapThenSumSet, MapThenFoldSet
<1>2. TypeOK /\ [Next]_vars =>
        \A c \in Customer :
          LET paid == {k \in CampaignId : campaign[k].open /\ campaign'[k].open
                                          /\ campaign[k].terms.kind # "MULTIPLIER"}
          IN profile'[c].earned - profile[c].earned
               <= Points(profile'[c].spend - profile[c].spend, MaxTotalBps)
                  + MapThenSumSet(LAMBDA k : campaign'[k].spent - campaign[k].spent, paid)
  BY <1>1, StepHonoursCeiling DEF Paid
<1> QED
  BY <1>2, PointsTypeCorrect, PTL DEF CeilingHonoured, Spec
=============================================================================
