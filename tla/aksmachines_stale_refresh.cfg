CONSTANTS
  Machines = {m1}
  Standalone = {m1}
  Leftovers = {m1}
  Terminators = {gc}
  MaxIncarnations = 1
  MaxRestarts = 0
SPECIFICATION Spec
INVARIANTS InvalidatedFallsBack
