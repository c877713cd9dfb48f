CONSTANTS
  Requests <- NoRequests
  AdvDuration = 0
  EvtsMax = 3
  NormalDuration = 1
  LongDuration = 2
  VeryLongDuration = 3
  TasksMax = 3
  QueueFills = TRUE
SPECIFICATION FairPairingSpec
INVARIANTS LevelIsKnown NeverSilent
PROPERTIES PushIsMeasured Reconnectable
CHECK_DEADLOCK FALSE
