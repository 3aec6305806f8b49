CONSTANTS
  Payloads = {"small", "large"}
  Parts <- MCParts
  MaxSegmentBytes = 2
  BatchSize = 2
  SyncAlways = FALSE
  MaxSeq = 3
  Faults = {}
  SyncNamesFile = TRUE
  SyncFailDrops = FALSE
  ExitSettles = FALSE
SPECIFICATION Spec
INVARIANT DurableConfirmed
