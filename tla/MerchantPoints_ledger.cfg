SPECIFICATION Spec
CONSTANTS
  Customer = {c1, c2}
  CampaignId = {}
  OfferId = {o1}
  AchievementId = {a1}
  Treasury = Treasury
  Terms <- NoTerms
  Budgets = {}
  Caps = {}
  Winbacks = {}
  Spends = {1}
  Boosts = {0}
  EarnRate = 1
  Unit = 1
  StreakBps = 0
  StreakCap = 1
  MaxTotalBps = 1
  MaxCampaignBps = 9
  MaxCampaignBonus = 9
  MaxQuestTarget = 9
  MaxEarnPerTx = 40
  Thresholds = {2}
  DailyCaps = {0, 1}
  Costs <- Drifting
  Supplies = {1}
  Levels = {2}
  Amounts = {1}
  Switches = {TRUE, FALSE}
  FirstDay = 7
  MaxDay = 8
  MaxSlot = 6
  MaxIssued = 3
  c1 = c1
  c2 = c2
  o1 = o1
  a1 = a1
SYMMETRY Everyone
INVARIANTS
  BooksReconcile
  RedemptionNeverBricked
PROPERTIES
  DailyCapsHonoured
  ImplementsAccounts
