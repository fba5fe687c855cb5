SPECIFICATION FairSpec
CONSTANTS
  MaxRetries = 4
  NetworkRetries = 2
INVARIANTS TypeOK CreatedMeansMade DeletedMeansGone PermanentFailureCutShort
PROPERTIES CallReturns ImplementsCall
