SPECIFICATION Spec
CONSTANTS
  NONE = NONE
  Outsider = Outsider
  Keys = {k1}
  Buckets = {b1}
  InvalidBuckets = {}
  Regions = {west}
  LegacyRegion = east
  Acls = {private}
  DeleteStrategies = {"Delete"}
  OwnershipStrategies = {"Created"}
  MaxLag = 0
  MaxUser = 2
  MaxOutsider = 1
  MaxFaults = 0
  MaxCrashes = 0
CHECK_DEADLOCK FALSE
PROPERTIES NonRetryableIsFinal
