CONSTANTS
  Requests = {q1, q2}
  Crons = {daily, hourly}
  Payloads = {old, new}
  Sweep = Sweep
  MaxFaults = 2
  None = None
SPECIFICATION FairSpec
INVARIANT TypeOK UndisturbedInSync
PROPERTY Healed
