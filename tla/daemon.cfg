CONSTANTS
  h1 = h1
  h2 = h2
  Handlers <- MCHandlers
  Requests = {"write", "batch", "log", "recover", "crash"}
  AllowCrash = TRUE
  Faults = {"open", "new", "listen", "flush", "rotate", "corrupt"}
SPECIFICATION FairSpec
INVARIANTS
  TypeOK
  HandlesOpen
  CleanExitKeepsAll
  PublishedDurable
PROPERTIES
  ShutdownEnds
  RequestsAnswered
  BufferFlushed
