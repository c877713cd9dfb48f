CONSTANTS
  QueueSize = 3
  Intervals = {2, 3}
  Word = 8
SPECIFICATION Spec
INVARIANTS ClockLag FiresOnce InvertedByLoss
