CONSTANTS
  Null = Null
  GracePeriod = 2
  LicenseKeys = {k1}
  Deployments <- MCSchedulerDeployed
  MaxChanges = 1
SPECIFICATION Spec
INVARIANT OutageHasGrace
