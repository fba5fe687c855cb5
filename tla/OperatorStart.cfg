SPECIFICATION FairSpec
CONSTANTS
  NONE = NONE
  ours = ours
  theirs = theirs
  aws = aws
  Accounts = {ours, theirs}
  PartitionOf <- OnePartition
  HostAccount = theirs
  RegionIsValid = FALSE
  RegionPartition = NONE
  FlagChoices <- AnyFlags
  MaxChanges = 2
  MaxFaults = 2
INVARIANTS TypeOK AccountKnown OnlyPermittedAccounts ArnsStayValid
PROPERTIES StartCompletes
