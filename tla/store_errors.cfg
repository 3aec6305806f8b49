CONSTANTS
  Keys = {k1, k2}
  Names = {"daily"}
  MaxSeq = 2
  MaxBatch = 2
  Faults = {"append", "sync", "replay", "snapshot", "damage"}
  Cleaning = FALSE
SPECIFICATION Spec
SYMMETRY Interchangeable
INVARIANTS
  TypeOK
  WalBeforeMemory
