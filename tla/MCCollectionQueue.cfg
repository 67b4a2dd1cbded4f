SPECIFICATION Spec
SYMMETRY Symmetry
CONSTRAINT TwoAgentsBriefly
CONSTANTS
  Tasks = {t1, t2, t3}
  Clients = {c1, c2}
  NoTask = NoTask
  MaxPerClient = 2
  ItemTtl = 1
  MaxTime = 2
  MaxRestarts = 1
  MaxFlushes = 2
INVARIANTS
  TypeOK
  QueuesWellFormed
  RunningIsNotQueued
  OneOpenTaskPerAgent
  TasksAreConserved
  DiskCatchesUp
  SweepIsFilter
PROPERTIES
  DispatchIsFifo
  SlotIsNeverOverwritten
  ImplementsSerialDispatch
CHECK_DEADLOCK FALSE
