CONSTANTS
  Machines = {m1}
  Standalone = {}
  Leftovers = {}
  Terminators = {gc}
  MaxIncarnations = 1
  MaxRestarts = 1
SPECIFICATION FairSpec
PROPERTIES PromiseSettles DeletedClaimIsCleanedUp
