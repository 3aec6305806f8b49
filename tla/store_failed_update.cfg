CONSTANTS
  Keys = {k1, k2}
  Names = {}
  MaxSeq = 3
  MaxBatch = 2
  Faults = {"append"}
  Cleaning = FALSE
SPECIFICATION Spec
SYMMETRY Interchangeable
INVARIANTS
  MatchesReplay
