CONSTANTS
  linux = linux
  custom = custom
  fips = fips
  gen1 = gen1
  gen2 = gen2
  old = old
  K8sVersions <- MCVersions
  Supported <- MCSupported
  Selectors = {linux, custom, fips}
  Custom = {custom}
  FIPSWithoutSIG = {fips}
  SupportedImages <- LateSupportedImages
  None = None
  Requests <- Pins
  MaxReleases = 1
  MaxDisturbances = 1
SPECIFICATION Spec
INVARIANT PinHonoured
