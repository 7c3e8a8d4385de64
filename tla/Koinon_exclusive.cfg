SPECIFICATION Spec
CONSTANTS
  cafe = cafe
  books = books
  k0 = k0
  Merchant = {cafe, books}
  Customer = {c1}
  Treasury = Treasury
  Alliance = {x1, x2}
  NoAlliance = NoAlliance
  Closers = {cafe}
  Backed = {}
  Moving = {}
  ReserveTerms <- NoOffers
  Unit = 2
  Switches = {FALSE}
  MaxSupply = 2
  MaxEscrow = 1
  Key = {k0}
  Creator = k0
  NoKey = NoKey
  Rates = {1}
  Budgets = {0}
  Terms <- NoOffers
  MaxFee = 1
  UiAmounts = {1, 2}
  Scale <- Decayed
  Grain = 2
  MaxDay = 2
  c1 = c1
  x1 = x1
  x2 = x2
INVARIANTS
  OneAllianceAtATime
