CONSTANTS
  guard = guard
  Consumer = {guard}
  Targets <- BothTargets
  Root = {r1}
  Issuer = {i1}
  Schema = {1, 2}
  Graces = {0, 2, 3}
  Lives <- OneLife
  MaxAge = 4
SPECIFICATION FairSpec
PROPERTIES
  GraceIsGranted
  RevocationBites
  RecoveryRestores
