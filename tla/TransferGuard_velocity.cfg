CONSTANTS
  alice = alice
  bob = bob
  aegis = aegis
  terms = terms
  Key = {alice, bob}
  NoKey = NoKey
  AegisKey = {aegis, terms}
  Owner = {alice, bob}
  Treasury = Treasury
  TreasuryOwner = alice
  AegisProgram = aegis
  Issuer = aegis
  Requirement = {1, terms}
  DefaultTtl = 2
  ProgramOwned = {bob}
  Subjects = {}
  Docs <- VelocityDocs
  Terms = {2}
  Pauses = {TRUE, FALSE}
  Postures = {"NORMAL", "FROZEN"}
  MaxAmount = 2
  MaxSupply = 2
  EpochBound = 2
  DaySecs = 3
  MaxCount = 2
  MaxInstant = 20
  MaxTime = 9
SPECIFICATION Spec
INVARIANTS
  AssetsNeverStranded
  VelocityAccountsMatch
PROPERTIES
  GiftsWithinLimits
