CONSTANTS
  c1 = c1
  c2 = c2
  small = small
  large = large
  family = family
  category = category
  none = none
  Claims = {c1, c2}
  Skus = {small, large}
  Sku <- MCSku
  FamilyName <- MCFamilyName
  VCPU <- MCVCPU
  Eligible = {c1, c2}
  QuotaNames = {family, category}
  NoQuota = none
  GeneralPurposeCategory = category
  Limit <- MCLimit
  AzureViews <- CategoryView
  DeleteTombstoneTTL = 1
  DeleteTombstoneCleanupInterval = 1
  MaxDeleteTombstones = 1
  MaxStaleness = 0
  MaxTime = 2
  MaxGeneration = 2
  MaxIncarnations = 1
SPECIFICATION Spec
VIEW WithoutOverlay
INVARIANTS
  TypeOK
  OnlyDeletesPassWatermark
  ReleasedQuotaIsFree
