SPECIFICATION FairSpec
CONSTANTS
  Objects = {1, 2, 3, 4}
  PageSize = 3
  BatchSize = 2
  MaxPuts = 2
  MaxFaults = 2
CHECK_DEADLOCK FALSE
INVARIANTS TypeOK SuccessLeavesOnlyNewObjects NoObjectSentTwice BatchWithinLimit
PROPERTIES BucketGoes ImplementsDeletion
