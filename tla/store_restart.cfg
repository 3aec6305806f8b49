CONSTANTS
  Keys = {k1, k2}
  Names = {}
  MaxSeq = 3
  MaxBatch = 2
  Faults = {"snapshot", "damage"}
  Cleaning = FALSE
SPECIFICATION Spec
SYMMETRY Interchangeable
INVARIANTS
  MatchesReplay
