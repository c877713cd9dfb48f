CONSTANTS
  Reflections <- ReflectionsDef
  Supplies <- SuppliesDef
  Thresholds <- ThresholdsDef
  Darkness = 0
  FirstThreshold = 50
  TasksMax = 2
SPECIFICATION FairSpec
INVARIANTS TypeOK SamplesArriveHome LitInCycle
PROPERTIES GoesDark Settles
