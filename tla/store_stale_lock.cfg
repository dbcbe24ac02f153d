CHECK_DEADLOCK FALSE
SPECIFICATION StoreSpec
CONSTANTS
  Proc = {p1, p2, p3}
  Nobody = nobody
  Crashes = TRUE
  MaxRevision = 2
SYMMETRY Symmetry
INVARIANTS
  AcknowledgedStays
