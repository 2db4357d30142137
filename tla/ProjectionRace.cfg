SPECIFICATION Spec
CONSTANTS
  p1 = p1
  p2 = p2
  Process = {p1, p2}
  EventStatus = {"delivered"}
  MaxTime = 2
  MaxEvents = 2
  MaxRecords = 1
  MaxFaults = 0
INVARIANTS
  EarlyStatusIsReconciled
