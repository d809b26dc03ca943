CONSTANTS
  Null = Null
  GracePeriod = 2
  LicenseKeys = {k1, k2}
  Deployments <- MCDeployments
  MaxChanges = 2
SPECIFICATION FairSpec
INVARIANT TypeOK LockNeedsReason
PROPERTY RevocationLocks GoodStandingUnlocks MetadataKept
