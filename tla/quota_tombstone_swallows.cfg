CONSTANTS
  c1 = c1
  c2 = c2
  small = small
  large = large
  family = family
  category = category
  none = none
  Claims = {c1}
  Skus = {small, large}
  Sku <- MCSku
  FamilyName <- MCFamilyName
  VCPU <- MCVCPU
  Eligible = {c1}
  QuotaNames = {family, category}
  NoQuota = none
  GeneralPurposeCategory = category
  Limit <- MCLimit
  AzureViews <- FamilyView
  DeleteTombstoneTTL = 2
  DeleteTombstoneCleanupInterval = 1
  MaxDeleteTombstones = 2
  MaxStaleness = 2
  MaxTime = 2
  MaxGeneration = 2
  MaxIncarnations = 2
SPECIFICATION Spec
INVARIANTS
  ReportedReleaseIsFree
