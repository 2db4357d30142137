SPECIFICATION Spec
CONSTANTS
  w1 = w1
  w2 = w2
  Worker = {w1, w2}
  Item = {1, 2}
  BatchLimit = 2
  Lease = 2
  Delays = {0, 1}
  MaxLag = 3
  MaxAttempts = 2
  Retry = 1
  MaxSetbacks = 1
SYMMETRY MCSymmetry
INVARIANTS
  LeasesProtect
  LoopIsSound
PROPERTIES
  ImplementsLeasedQueue
