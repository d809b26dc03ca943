CONSTANTS
  Null = Null
  GracePeriod = 2
  LicenseKeys = {k1}
  Deployments <- MCWebhookDeployed
  MaxChanges = 1
SPECIFICATION Spec
PROPERTY RejectionLocks
