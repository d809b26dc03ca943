CONSTANTS
  Jobs = {j1, j2}
  Calls = {c1}
  Runs = {r1, r2}
  MaxAttempts = 2
  MaxTasks = 2
  MaxFaults = 2
  None = None
SPECIFICATION Spec
INVARIANT TypeOK OneGraph ProcessingHasOwner
PROPERTY ImplementsBuild
CHECK_DEADLOCK FALSE
