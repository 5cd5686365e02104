CONSTANTS
  r1 = r1
  r2 = r2
  k1 = k1
  Requests = {r1, r2}
  Keys = {k1}
  Key <- MCKey
  Stranger = stranger
  MaxBatchSize = 2
SPECIFICATION FairSpec
INVARIANTS
  TypeOK
  ExactlyOneAnswer
  NoLostWakeup
  FullBatchNoticed
PROPERTIES
  ImplementsService
  EveryCallerReturns
CHECK_DEADLOCK FALSE
