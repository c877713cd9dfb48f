CONSTANTS
  k1 = k1
  k2 = k2
  v1 = v1
  v2 = v2
  v3 = v3
  None = None
  Key <- KeysDef
  Value <- ValuesDef
  QueueSize = 2
  OneAtATime = TRUE
  WritesMax = 6
  FailsMax = 1
  ResetsMax = 1
SPECIFICATION Spec
SYMMETRY Symmetry
PROPERTIES StoreSpec
INVARIANTS HeldUntilCallback NoBufferLeaks ReadsBack
CHECK_DEADLOCK FALSE
