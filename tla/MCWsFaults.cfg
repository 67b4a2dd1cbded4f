SPECIFICATION Spec
SYMMETRY Symmetry
CONSTANTS
  Tasks = {t1, t2}
  NoTask = NoTask
  MaxPerClient = 2
  MaxSessions = 3
  MaxFaults = 1
  MaxRestarts = 1
INVARIANTS
  TypeOK
  OnlyTheSlotIsOutstanding
  BusyOnlyAfterRestart
  WatchdogMatchesDispatch
  CurrentIsAlive
  ResolvedIsFinished
CHECK_DEADLOCK FALSE
