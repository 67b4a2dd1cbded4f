SPECIFICATION FairSpec
CONSTANTS
  Tasks = {t1, t2}
  NoTask = NoTask
  MaxPerClient = 2
  MaxSessions = 1
  MaxFaults = 0
  MaxRestarts = 0
PROPERTIES
  AcceptedIsResolved
