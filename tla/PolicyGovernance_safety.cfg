CONSTANTS
  owner = owner
  officer1 = officer1
  officer2 = officer2
  aegis = aegis
  Key = {owner, officer1, officer2}
  NoKey = NoKey
  AegisKey = {aegis}
  Docs <- ThreeDocs
  NoDoc = NoDoc
  AegisProgram = aegis
  Issuer = NoKey
  RoleAssignments <- Tables
  RoleChanges <- Changes
  Timelocks = {1, 3}
  Heirs = {officer1}
  MaxTimelock = 2
  EpochMax = 1
  MaxTime = 3
SPECIFICATION Spec
INVARIANTS
  FourEyes
  RoleAdminSeated
PROPERTIES
  PolicyChangeBumpsEpoch
  ActivationWaitsOutTimelock
  RoleChangeWaitsOutTimelock
  VersionsAreWriteOnce
  ImplementsLifecycle
