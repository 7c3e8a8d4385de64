CONSTANTS
  cold = cold
  heir = heir
  hot = hot
  NoKey = NoKey
  Issuer = {i1}
  Subject = {alice}
  Schema = {kyc}
  Policy = {p1}
  Key = {cold, heir, hot}
  Founder = cold
  Heirs = {cold, heir}
  Operators = {hot}
  Windows <- SomeWindows
  Freshness = {0, 1}
  MaxAge = 3
SPECIFICATION AegisSpec
INVARIANTS
  OperatorServesAuthority
PROPERTIES
  OnlyIssuersVouch
  ReverificationNeedsReissue
