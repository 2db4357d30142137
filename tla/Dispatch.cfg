SPECIFICATION MCSpec
CONSTANTS
  e1 = e1
  e2 = e2
  s1 = s1
  None = None
  Envelopes = {e1, e2}
  Signals = {s1}
  MaxUpdates = 2
  Options <- MCOptions
  Dispatches <- MCDispatches
  MaxListeners = 2
  MaxActive = 2
  MaxHandlers = 2
  Loads <- MCLoads
  Caps = {1, 2}
INVARIANTS
  RegistriesAreSound
  HandlersRunInOrder
  EnvelopesInOrder
PROPERTIES
  WaitersSettleOnce
  ReportsAreTrue
  SnapshotHolds
  EveryEnvelopeIsAnswered
CHECK_DEADLOCK FALSE
