SPECIFICATION Spec
CONSTANTS
  MaxCalls = 2
  NumKinds = 2
  MaxWork = 1
INVARIANTS
  TypeOK
  OneTraceHoldsOneWindow
  
  OneVerdictPerWindow
  OneStopAtATime
PROPERTIES
  NothingDisablesARunningWindow
  BoundedStopEnds
CHECK_DEADLOCK FALSE
