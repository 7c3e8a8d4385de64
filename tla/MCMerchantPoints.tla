-------------------------- MODULE MCMerchantPoints --------------------------
(***************************************************************************)
(* Model values for MerchantPoints.  Bps are counted in halves (Unit = 2). *)
(***************************************************************************)
EXTENDS MerchantPoints, TLC

Template == [kind |-> "FLAT_BONUS", bps |-> 0, flat |-> 0, target |-> 0, reward |-> 0,
             minSpend |-> 1, minTier |-> 0, budget |-> 0, cap |-> 0, starts |-> 7, ends |-> 10]

Flat == [Template EXCEPT !.flat = 2, !.budget = 3, !.cap = 3]

Quest == [Template EXCEPT !.kind = "QUEST", !.target = 2, !.reward = 2, !.budget = 3, !.cap = 2]

ImpossibleQuest == [Quest EXCEPT !.cap = 1]

Doubler == [Template EXCEPT !.kind = "MULTIPLIER", !.bps = 2, !.minTier = 1, !.starts = 8, !.ends = 9]

BonusTerms == {Flat, Quest, ImpossibleQuest, Doubler}

OneQuest == {Quest}

NoTerms == {}

Free == [o \in OfferId |-> {}]

Drifting == [o \in OfferId |-> {1, 2}]

Everyone == Permutations(Customer)
=============================================================================
