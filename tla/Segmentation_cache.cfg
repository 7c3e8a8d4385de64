CONSTANTS
  cold = cold
  heir = heir
  hot = hot
  i1 = i1
  kyc = kyc
  region = region
  NoKey = NoKey
  Issuer = {i1}
  Subject = {alice}
  Schema = {kyc, region}
  Policy = {}
  Key = {cold, heir, hot}
  Founder = cold
  Heirs = {}
  Operators = {}
  Windows <- SomeWindows
  Freshness = {}
  MaxAge = 0
  Slot = {0, 1}
  Sets <- SomeSets
  DefaultTtl = 1
  MaxTtl = 2
  MaxEpoch = 3
SPECIFICATION FairSpec
INVARIANTS
  VerdictsWereGiven
  LoneVerdictsExpire
PROPERTIES
  RevocationReachesCache
  HoldersAreServed
