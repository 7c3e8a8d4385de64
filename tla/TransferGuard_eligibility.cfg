CONSTANTS
  alice = alice
  bob = bob
  aegis = aegis
  terms = terms
  Key = {alice, bob}
  NoKey = NoKey
  AegisKey = {aegis, terms}
  Owner = {alice, bob}
  Treasury = Treasury
  TreasuryOwner = alice
  AegisProgram = aegis
  Issuer = aegis
  Requirement = {1, terms}
  DefaultTtl = 2
  ProgramOwned = {}
  Subjects = {bob}
  Docs <- EligibilityDocs
  Terms = {2}
  Pauses = {FALSE}
  Postures = {"NORMAL"}
  MaxAmount = 1
  MaxSupply = 1
  EpochBound = 1
  DaySecs = 1
  MaxCount = 3
  MaxInstant = 5
  MaxTime = 4
SPECIFICATION Spec
INVARIANTS
  TypeOK
PROPERTIES
  GiftsReachVouchedOwners
  GiftsStopAfterTtl
