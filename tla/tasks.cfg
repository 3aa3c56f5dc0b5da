SPECIFICATION Spec
CONSTANTS
  Periods = {0, 1, 2, 3}
  MaxTasks = 3
  MaxTime = 2
  MaxTicks = 2
  InitTaskCount = 2
  NoTask = noTask
CHECK_DEADLOCK FALSE
INVARIANTS EveryDueTaskOnce BagIsLive ModesKept OptimalTickIsGcd
