SPECIFICATION Spec
CONSTANTS
  Threads = {a, b}
  s = s
  d = d
  e = e
  f = f
  Static = {s}
  Dynamic = {d, e}
  Hash <- Injective
  MaxUses = 2
  MaxPushes = 0
  MaxFails = 0
  Nobody = nobody
  NoLabel = noLabel
  BucketCount = 2
  BucketCapacity = 2
  MaxFeatures = 3
  OtherFeatures = {1}
CHECK_DEADLOCK FALSE
INVARIANT MappingBeforeUse
