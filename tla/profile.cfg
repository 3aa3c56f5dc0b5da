SPECIFICATION Spec
CONSTANTS
  main = main
  helper = helper
  f = f
  c = c
  Threads = {main, helper}
  Main = main
  PyFunctions = {f}
  CFunctions = {c}
  IntSize = 2
  StringSize = 5
  MinCapacity = 2
  MinEntries = 1
  BufferSize = 2
  Micro = 2
  Budgets <- Programs
  MaxDepth = 3
INVARIANTS StackInBounds StackMirrorsCalls  ChromeNests
