CONSTANTS
  Requests <- NoRequests
  AdvDuration = 0
  EvtsMax = 2
  NormalDuration = 1
  LongDuration = 2
  VeryLongDuration = 3
  TasksMax = 3
  QueueFills = FALSE
SPECIFICATION PairingSpec
PROPERTY LongIsLong
CHECK_DEADLOCK FALSE
