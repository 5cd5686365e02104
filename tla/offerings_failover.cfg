CONSTANTS
  l1 = l1
  l2 = l2
  small = small
  large = large
  d = d
  z1 = z1
  crg = crg
  None = none
  Launchers = {l1}
  Groups = {crg}
  Unreserved = unreserved
  SKUs = {small, large}
  Families = {d}
  NoFamily = nofamily
  Family <- MCFamily
  VCPU <- MCVCPU
  SpotCapable = {large}
  Name <- MCName
  Price <- MCPrice
  Zones = {z1}
  Regional = regional
  ZonesOf <- MCZonesOf
  Members <- MCMembers
  TTL <- FailoverTTL
  Scenarios <- FailoverScenarios
  MaxTicks = none
  MaxDisturbances = 0
SPECIFICATION FairSpec
PROPERTIES
  FailoverSucceeds
  ExpiryReachesList
