CONSTANTS
  Payloads = {"small", "large"}
  Parts <- MCParts
  MaxSegmentBytes = 2
  BatchSize = 2
  SyncAlways = FALSE
  MaxSeq = 4
  Faults = {"write", "sync", "remove"}
  SyncNamesFile = TRUE
  SyncFailDrops = FALSE
  ExitSettles = TRUE
SPECIFICATION FairSpec
INVARIANTS
  Recoverable
PROPERTIES
  DurableUntilCleaned
  EventuallyDurable
