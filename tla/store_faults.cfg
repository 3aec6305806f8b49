CONSTANTS
  Keys = {k1, k2}
  Names = {}
  MaxSeq = 3
  MaxBatch = 2
  Faults = {"append", "sync", "snapshot"}
  Cleaning = TRUE
SPECIFICATION Spec
SYMMETRY Interchangeable
INVARIANTS
  AckedKept
  SeenKept
  SnapshotsExact
  NoGap
PROPERTIES
  ImplementsDurableMap
