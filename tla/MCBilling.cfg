CONSTANTS
  Null = Null
  GracePeriod = 2
  g1 = g1
  Orders = {o1}
  Orgs = {g1}
  OrgOf <- MCOrgOf
  Hooks = {h1, h2}
  MaxAttempts = 2
  FaultKinds = {"crash", "hook_write", "order_read", "refused", "lost_answer", "order_write", "org_write", "enqueue"}
  MaxFaults = 2
SPECIFICATION FairSpec
INVARIANT TypeOK CreditOnlyForExactPayment OrgKeyHasOrder CreditBound
PROPERTY ImplementsLifecycle SettledOrderGetsKey
