SPECIFICATION Spec
CONSTANTS
  Workers = {"w"}
  MaxDepth = 2
  MaxFrames = 4
INVARIANTS
  EveryIntervalIsItsCall
CHECK_DEADLOCK FALSE
