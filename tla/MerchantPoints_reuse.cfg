SPECIFICATION Spec
CONSTANTS
  Customer = {c1, c2}
  CampaignId = {k1}
  OfferId = {}
  AchievementId = {}
  Treasury = Treasury
  Terms <- OneQuest
  Budgets = {0}
  Caps = {0}
  Winbacks = {}
  Spends = {1}
  Boosts = {0}
  EarnRate = 1
  Unit = 1
  StreakBps = 0
  StreakCap = 1
  MaxTotalBps = 1
  MaxCampaignBps = 9
  MaxCampaignBonus = 9
  MaxQuestTarget = 9
  MaxEarnPerTx = 40
  Thresholds = {2}
  DailyCaps = {}
  Costs <- Free
  Supplies = {}
  Levels = {}
  Amounts = {}
  Switches = {FALSE}
  FirstDay = 7
  MaxDay = 9
  MaxSlot = 2
  MaxIssued = 12
  c1 = c1
  c2 = c2
  k1 = k1
INVARIANTS
  NewCampaignStartsClean
