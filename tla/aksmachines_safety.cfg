CONSTANTS
  Machines = {m1}
  Standalone = {m1}
  Leftovers = {m1}
  Terminators = {gc}
  MaxIncarnations = 2
  MaxRestarts = 1
SPECIFICATION Spec
INVARIANTS TypeOK DeletingTracked GoneMeansGone
