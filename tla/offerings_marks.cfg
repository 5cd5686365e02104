CONSTANTS
  l1 = l1
  l2 = l2
  small = small
  large = large
  d = d
  z1 = z1
  crg = crg
  None = none
  Launchers = {l1, l2}
  Groups = {crg}
  Unreserved = unreserved
  SKUs = {small, large}
  Families = {d}
  NoFamily = nofamily
  Family <- MCFamily
  VCPU <- MCVCPU
  SpotCapable = {large}
  Name <- MCName
  Price <- MCPrice
  Zones = {z1}
  Regional = regional
  ZonesOf <- MCZonesOf
  Members <- MCMembers
  TTL <- MarkTTL
  Scenarios <- MarkScenarios
  MaxTicks = 1
  MaxDisturbances = 1
SPECIFICATION Spec
INVARIANTS
  TypeOK
  UsableCapacityStaysOffered
  CachedListIsCurrent
