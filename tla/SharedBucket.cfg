SPECIFICATION FairSpec
CONSTANTS
  NONE = NONE
  Outsider = Outsider
  Keys = {k1, k2}
  Buckets = {b1, b2}
  InvalidBuckets = {b2}
  Regions = {west}
  LegacyRegion = east
  Acls = {private}
  DeleteStrategies = {"Delete"}
  OwnershipStrategies = {"Created", "Acquire"}
  MaxLag = 0
  MaxUser = 3
  MaxOutsider = 0
  MaxFaults = 0
  MaxCrashes = 0
CHECK_DEADLOCK FALSE
INVARIANTS OnlyRecordedBucketsTouched QueuedOnce QuietMeansSettled
PROPERTIES AdoptionOnlyOnRequest ProvisioningCompletes DeletionCompletes
