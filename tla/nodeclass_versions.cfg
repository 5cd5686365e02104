CONSTANTS
  linux = linux
  custom = custom
  fips = fips
  gen1 = gen1
  gen2 = gen2
  old = old
  K8sVersions <- MCVersions
  Supported <- MCSupported
  Selectors = {linux, custom, fips}
  Custom = {custom}
  FIPSWithoutSIG = {fips}
  SupportedImages <- MCSupportedImages
  None = None
  Requests <- AllRequests
  MaxReleases = 1
  MaxDisturbances = 2
SPECIFICATION FairSpec
INVARIANTS
  TypeOK
  RecentPairWasReady
  PinHonoured
  UndisturbedNodeStays
PROPERTIES
  UnpinningRecovers
  RollbackCompletes
  NewVersionBringsItsImages
