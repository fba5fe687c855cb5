SPECIFICATION FairSpec
CONSTANTS
  NONE = NONE
  Outsider = Outsider
  Keys = {k1}
  Buckets = {b1}
  InvalidBuckets = {}
  Regions = {west}
  LegacyRegion = east
  Acls = {private}
  DeleteStrategies = {"Skip", "Force"}
  OwnershipStrategies = {"Created"}
  MaxLag = 4
  MaxUser = 3
  MaxOutsider = 1
  MaxFaults = 1
  MaxCrashes = 1
CHECK_DEADLOCK FALSE
INVARIANTS TypeOK FinalizerGuardsProvisioning QuietMeansSettled
PROPERTIES DeletionHonoursStrategy LiveBucketNotDeleted DeletionCompletes ProvisioningCompletes
