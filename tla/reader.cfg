CONSTANTS
  Payloads = {"large"}
  Parts <- MCParts
  MaxSegmentBytes = 4
  BatchSize = 2
  SyncAlways = FALSE
  MaxSeq = 3
  Ranges <- MCRanges
  Faults = {"write", "sync", "remove", "corrupt"}
  SyncNamesFile = TRUE
  SyncFailDrops = FALSE
  ExitSettles = TRUE
SPECIFICATION RSpec
CHECK_DEADLOCK FALSE
INVARIANTS
  EntriesDurable
  RangeExact
  LocationTrueOrNone
PROPERTIES
  CorruptionReal
