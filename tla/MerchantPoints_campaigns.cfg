SPECIFICATION Spec
CONSTANTS
  Customer = {c1, c2}
  CampaignId = {k1}
  OfferId = {}
  AchievementId = {}
  Treasury = Treasury
  Terms <- BonusTerms
  Budgets = {0, 3}
  Caps = {0, 2}
  Winbacks = {2}
  Spends = {1}
  Boosts = {1}
  EarnRate = 1
  Unit = 2
  StreakBps = 1
  StreakCap = 2
  MaxTotalBps = 4
  MaxCampaignBps = 9
  MaxCampaignBonus = 9
  MaxQuestTarget = 9
  MaxEarnPerTx = 40
  Thresholds = {2}
  DailyCaps = {}
  Costs <- Free
  Supplies = {}
  Levels = {}
  Amounts = {}
  Switches = {FALSE}
  FirstDay = 7
  MaxDay = 9
  MaxSlot = 3
  MaxIssued = 7
  c1 = c1
  c2 = c2
  k1 = k1
SYMMETRY Everyone
INVARIANTS
  BudgetHonoured
  CampaignBooks
  QuestPaidInFull
  StreakIsConsecutive
PROPERTIES
  CustomerCapHonoured
  CeilingHonoured
  WinbackPaysLapsed
