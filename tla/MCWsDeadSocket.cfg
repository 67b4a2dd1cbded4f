SPECIFICATION Spec
CONSTANTS
  Tasks = {t1, t2}
  NoTask = NoTask
  MaxPerClient = 2
  MaxSessions = 1
  MaxFaults = 1
  MaxRestarts = 0
INVARIANTS
  AcceptedIsAccountedFor
CHECK_DEADLOCK FALSE
