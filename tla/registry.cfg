SPECIFICATION Spec
CONSTANTS
  Threads = {main, a, b}
  Main = main
  Containers = {c1, c2, c3, c4}
  n1 = n1
  n2 = n2
  Names = {n1, n2}
  Anonymous = anonymous
  Hash <- TwoHashes
  Serialized = TRUE
  Nested = TRUE
  MaxCreates = 4
  MaxInits = 2
  RegisterCapacity = 1
  Nobody = nobody
  NoContainer = noContainer
SYMMETRY Symmetry
CHECK_DEADLOCK FALSE
INVARIANTS RightContainer NoUseAfterFree RefsExact
