SPECIFICATION Spec
SYMMETRY Symmetry
CONSTANTS
  Tasks = {t1, t2}
  Clients = {c1}
  NoTask = NoTask
  MaxPerClient = 2
  ItemTtl = 1
  MaxTime = 1
  MaxRestarts = 1
  MaxFlushes = 1
PROPERTIES
  RestartKeepsDurableTasks
CHECK_DEADLOCK FALSE
