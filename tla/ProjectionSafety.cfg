SPECIFICATION Spec
CONSTANTS
  p1 = p1
  p2 = p2
  Process = {p1, p2}
  EventStatus = {"sent", "delivered", "read", "failed", "deleted"}
  MaxTime = 2
  MaxEvents = 3
  MaxRecords = 1
  MaxFaults = 1
SYMMETRY MCSymmetry
INVARIANTS
  RowTellsItsEvents
PROPERTIES
  UpdatedAtIsMonotone
