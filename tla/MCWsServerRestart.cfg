SPECIFICATION Spec
CONSTANTS
  Tasks = {t1, t2}
  NoTask = NoTask
  MaxPerClient = 2
  MaxSessions = 2
  MaxFaults = 0
  MaxRestarts = 1
INVARIANTS
  NoTaskIsRejectedBusy
CHECK_DEADLOCK FALSE
