CONSTANTS
  Executions = {e1, e2, e3, e4, e5}
  MaxAttempts = 3
  MaxFaults = 3
  None = None
SPECIFICATION FairSpec
INVARIANT TypeOK OneRunAtATime RunBound CompletedIsConcluded NoFalseAlarm
PROPERTY TickSettles
CHECK_DEADLOCK FALSE
