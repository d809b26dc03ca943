CONSTANTS
  Turns = {t1, t2, t3}
  Writers = 2
  MaxDepth = 1
  MaxAttempts = 2
  MaxStalls = 1
  MaxFaults = 1
  None = None
SPECIFICATION FairSpec
INVARIANT TypeOK ExtraWritesArePaid DepthBound
PROPERTY TurnsSettle
CHECK_DEADLOCK FALSE
