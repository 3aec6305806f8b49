CONSTANTS
  Payloads = {"small", "large"}
  Parts <- MCParts
  MaxSegmentBytes = 2
  BatchSize = 2
  SyncAlways = FALSE
  MaxSeq = 3
  Faults = {"write", "rollback", "sync", "corrupt"}
  SyncNamesFile = TRUE
  SyncFailDrops = FALSE
  ExitSettles = TRUE
SPECIFICATION Spec
CHECK_DEADLOCK FALSE
INVARIANTS
  NeverMisread
  ScanAgrees
