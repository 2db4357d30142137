SPECIFICATION FairServeSpec
CONSTANTS
  t1 = t1
  t2 = t2
  p1 = p1
  x1 = x1
  x2 = x2
  Op = {t1, t2, p1}
  TxOp = {t1, t2}
  Closer = {x1, x2}
  Shutdown = x1
  MaxWork = 2
  MaxFaults = 2
INVARIANTS
  StoreIsSound
  CloseIsTheEnd
  NobodyIsCutOff
  ExitKeepsPromises
PROPERTIES
  ImplementsSerialStore
  ShutdownEnds
  EmbeddedCallsSettle
