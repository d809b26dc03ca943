CONSTANTS
  Null = Null
  GracePeriod = 2
  g1 = g1
  Orders = {o1}
  Orgs = {g1}
  OrgOf <- MCOrgOf
  Hooks = {h1}
  MaxAttempts = 2
  FaultKinds = {"org_write"}
  MaxFaults = 1
SPECIFICATION FairSpec
PROPERTY PaidOrgGetsKey
