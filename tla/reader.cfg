SPECIFICATION FairSpec
CONSTANTS
  Names <- Wire
  Sources <- Read
  Programs <- Clients
  ChunkSizes = {3, 8}
  MaxQueued = 2
INVARIANTS EventsIntact CompleteAtEnd StopIsFinal
 
CHECK_DEADLOCK FALSE
