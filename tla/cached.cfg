SPECIFICATION FairSpec
CONSTANTS
  Threads = {a, b}
  s = s
  d = d
  e = e
  f = f
  Static = {s}
  Dynamic = {d, e, f}
  Hash <- Injective
  MaxUses = 3
  MaxPushes = 1
  MaxFails = 1
  Nobody = nobody
  NoLabel = noLabel
  BucketCount = 2
  BucketCapacity = 2
  MaxFeatures = 3
  OtherFeatures = {1, 2}
CHECK_DEADLOCK FALSE
INVARIANTS MappingsRight MapComplete MapsSound FeaturesOwnMemory OwnMappingBeforeUse
PROPERTY EventuallyMapped
