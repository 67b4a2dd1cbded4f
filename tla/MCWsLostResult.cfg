SPECIFICATION FairSpec
CONSTANTS
  Tasks = {t1}
  NoTask = NoTask
  MaxPerClient = 2
  MaxSessions = 2
  MaxFaults = 1
  MaxRestarts = 0
PROPERTIES
  SlotIsReleased
CHECK_DEADLOCK FALSE
