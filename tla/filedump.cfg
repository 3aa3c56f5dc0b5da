SPECIFICATION FairSpec
CONSTANTS
  a = a
  b = b
  c1 = c1
  c2 = c2
  c3 = c3
  Nobody = Nobody
  Meta = Meta
  Threads = {a, b}
  Chunks = {c1, c2, c3}
  Length <- Lengths
  BufferSizes = {0, 3}
  Raw = {c1}
  EventSizes = {1, 2, 3}
  MaxCalls = 2
INVARIANTS
  CompleteWhenFlushed
  FileIsPrefix
  NoOverflow
PROPERTY
  CallbacksReturn
CHECK_DEADLOCK FALSE
