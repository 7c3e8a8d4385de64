SPECIFICATION Spec
CONSTANTS
  cafe = cafe
  books = books
  k0 = k0
  Merchant = {cafe, books}
  Customer = {c1}
  Treasury = Treasury
  Alliance = {x1}
  NoAlliance = NoAlliance
  Closers = {cafe}
  Backed = {cafe}
  Moving = {cafe}
  ReserveTerms <- Half
  Unit = 2
  Switches = {FALSE}
  MaxSupply = 2
  MaxEscrow = 1
  Key = {k0}
  Creator = k0
  NoKey = NoKey
  Rates = {0, 1, 2}
  Budgets = {1, 2}
  Terms <- Offered
  MaxFee = 1
  UiAmounts = {1, 2}
  Scale <- Decayed
  Grain = 2
  MaxDay = 2
  c1 = c1
  x1 = x1
  x2 = x2
INVARIANTS
  TypeOK
  MembershipBooks
  NothingIsOrphaned
PROPERTIES
  BudgetBoundsInflow
  SwapsCreateNoValue
  CoverageLostOnlyByMinting
