SPECIFICATION Spec
CONSTANTS
  NONE = NONE
  Outsider = Outsider
  Keys = {k1}
  Buckets = {b1}
  InvalidBuckets = {}
  Regions = {west}
  LegacyRegion = east
  Acls = {private, public}
  DeleteStrategies = {"Delete"}
  OwnershipStrategies = {"Created"}
  MaxLag = 0
  MaxUser = 3
  MaxOutsider = 0
  MaxFaults = 0
  MaxCrashes = 0
CHECK_DEADLOCK FALSE
INVARIANTS CreatedBucketDeletedUnlessSkip
