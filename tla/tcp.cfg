SPECIFICATION FairSpec
CONSTANTS
  Threads = {a, b}
  Stopper = stopper
  Clients = {c, d}
  e1 = e1
  e2 = e2
  Events = {e1, e2}
  Raw = {e1}
  Length <- Lengths
  MaxSize = 2
  Meta = meta
  MetaPieces = 2
  Nobody = nobody
  NoClient = noClient
  NoEvent = noEvent
CHECK_DEADLOCK FALSE
INVARIANTS WireIsLog ClientsGetPrefix ClientsUpToDate
PROPERTY CallsReturn
