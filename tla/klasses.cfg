SPECIFICATION Spec
CONSTANTS
  Threads = {a, b}
  Listeners = {l, m}
  endianness = endianness
  base = base
  u1 = u1
  u2 = u2
  Core <- CoreKlasses
  User = {u1, u2}
  Infos <- InfoSizes
  BuffSize = 4
  OneByOne = TRUE
  MaxInits = 1
  MaxEvents = 1
  Nobody = nobody
  NoKlass = noKlass
  Invalid = invalid
CHECK_DEADLOCK FALSE
INVARIANTS   BufferFits AnnouncedFirst
