CONSTANTS
  CommandsMax = 25
  TasksMax = 2
  SamplesMax = 1
  FifoSamplesNum = 1
  FifoLevels = {0}
  Thresholds = {4000}
  BacklogMax = 0
  SetsMax = 1
  FailsMax = 1
  BootThreshold <- BootDef
SPECIFICATION FairNodeSpec
INVARIANTS ScanFollowsMotion SleepsArmed ThresholdSurvives
PROPERTIES StartUpFits InterruptServed
CHECK_DEADLOCK FALSE
