SPECIFICATION FairSpec
CONSTANTS
  NONE = NONE
  Outsider = Outsider
  Keys = {k1}
  Buckets = {b1, b2}
  InvalidBuckets = {}
  Regions = {west, east}
  LegacyRegion = east
  Acls = {private}
  DeleteStrategies = {"Delete"}
  OwnershipStrategies = {"Acquire"}
  MaxLag = 1
  MaxUser = 3
  MaxOutsider = 1
  MaxFaults = 1
  MaxCrashes = 0
CHECK_DEADLOCK FALSE
PROPERTIES RecordedPlaceIsFinal ImplementsLifecycle ProvisioningCompletes
