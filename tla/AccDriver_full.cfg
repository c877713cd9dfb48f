CONSTANTS
  CommandsMax = 3
  TasksMax = 1
  SamplesMax = 1
  FifoSamplesNum = 1
  FifoLevels = {0, 2}
  Thresholds = {4000}
  SetsMax = 1
  FailsMax = 1
  BootThreshold <- BootDef
SPECIFICATION FairAtRestSpec
INVARIANTS TypeOK ReplyMatchesRequest NoStrandedCommand WaitsForTransfer
PROPERTIES PipeSpec ThresholdApplied
CHECK_DEADLOCK FALSE
