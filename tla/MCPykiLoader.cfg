SPECIFICATION Spec
CONSTANTS
  Loads = 1
  Tids = {7}
INVARIANTS
  HandlerFindsAWaitingLoader
CHECK_DEADLOCK FALSE
