SPECIFICATION Spec
CONSTANTS
  Threads = {main, a, b}
  Main = main
  Containers = {c1, c2, c3}
  n1 = n1
  n2 = n2
  Names = {n1}
  Anonymous = anonymous
  Hash <- TwoHashes
  Serialized = FALSE
  Nested = FALSE
  MaxCreates = 3
  MaxInits = 1
  RegisterCapacity = 8
  Nobody = nobody
  NoContainer = noContainer
CHECK_DEADLOCK FALSE
INVARIANT NoUseAfterFree
