CONSTANTS
  Requests <- NoRequests
  AdvDuration = 0
  EvtsMax = 4
SPECIFICATION Spec
INVARIANT HandleOfCurrentConnection
CHECK_DEADLOCK FALSE
