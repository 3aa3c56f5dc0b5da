SPECIFICATION FairSpec
CONSTANTS
  a = a
  b = b
  tl1 = tl1
  tl2 = tl2
  e1 = e1
  e2 = e2
  e3 = e3
  l1 = l1
  NoThread = NoThread
  NoEvent = NoEvent
  NoTimeline = NoTimeline
  Timelines = {tl1, tl2}
  Threads = {a, b}
  Listeners = {l1}
  Events = {e1, e2, e3}
  Size <- Sizes
  Capacity = 3
  ThreadSafe = TRUE
  MayUse <- MixedUse
  Named = TRUE
  MaxFlushes = 1
INVARIANTS
  BufferBounded
  InOrderDelivery
  NothingLostAtDestroy
  ListenersOutliveTimelines
  IInv
PROPERTIES
  StreamSpec
  CallsReturn
CHECK_DEADLOCK FALSE
