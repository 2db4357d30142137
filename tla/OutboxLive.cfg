SPECIFICATION FairSpec
CONSTANTS
  w1 = w1
  w2 = w2
  Worker = {w1, w2}
  Item = {1, 2}
  BatchLimit = 1
  Lease = 2
  Delays = {1}
  MaxLag = 1
  MaxAttempts = 4
  Retry = 1
  MaxSetbacks = 1
INVARIANTS
  ReclaimsAreSetbacks
PROPERTIES
  EveryItemSucceeds
  StopReturns
