SPECIFICATION Spec
CONSTANTS
  Objects = {1, 2}
  PageSize = 2
  BatchSize = 2
  MaxPuts = 0
  MaxFaults = 0
CHECK_DEADLOCK FALSE
INVARIANTS EmptiedBucketIsDeletable
