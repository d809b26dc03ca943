CONSTANTS
  N = 3
  Ghost = Ghost
  McpSteps <- Mcp
  Naming <- Placeholders
  Calls = {c1}
  MaxRounds = 2
  Threshold = 3
  Limit = 2
  MaxFaults = 1
SPECIFICATION FairSpec
INVARIANT TypeOK SortedPlan DependenciesLanded OneCallNeverOpens WindowHasEnd
PROPERTY ImplementsDataflow TurnEnds
CHECK_DEADLOCK FALSE
