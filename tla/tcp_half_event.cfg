SPECIFICATION Spec
CONSTANTS
  Threads = {a}
  Stopper = stopper
  Clients = {c}
  e1 = e1
  e2 = e2
  Events = {e1, e2}
  Raw = {}
  Length <- Lengths
  MaxSize = 2
  Meta = meta
  MetaPieces = 2
  Nobody = nobody
  NoClient = noClient
  NoEvent = noEvent
CHECK_DEADLOCK FALSE
INVARIANT NoHalfEvents
