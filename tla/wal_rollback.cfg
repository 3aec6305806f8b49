CONSTANTS
  Payloads = {"small", "large"}
  Parts <- MCParts
  MaxSegmentBytes = 2
  BatchSize = 2
  SyncAlways = FALSE
  MaxSeq = 3
  Faults = {"write", "rollback"}
  SyncNamesFile = TRUE
  SyncFailDrops = FALSE
  ExitSettles = TRUE
SPECIFICATION Spec
CHECK_DEADLOCK FALSE
INVARIANT Recoverable
