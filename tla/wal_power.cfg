CONSTANTS
  Payloads = {"small", "large", "huge"}
  Parts <- MCParts
  MaxSegmentBytes = 3
  BatchSize = 3
  SyncAlways = FALSE
  MaxSeq = 4
  Faults = {"write", "sync", "create"}
  SyncNamesFile = TRUE
  SyncFailDrops = FALSE
  ExitSettles = TRUE
SPECIFICATION Spec
INVARIANTS
  TypeOK
  Recoverable
  ReadsBack
  DurableConfirmed
  IndexCoversLog
  SegmentBounded
  SegmentInfoExact
  NothingStranded
PROPERTIES
  DurableUntilCleaned
  DurableMonotonic
  ImplementsDurableLog
