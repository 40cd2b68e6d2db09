SPECIFICATION FairSpec
CONSTANTS
  Readers = {r1, r2}
  WordCount = 2
  MaxAttempts = 2
  MaxStores = 2
  NoValue = NoValue
PROPERTIES
  ImplementsLatestValue
  FailureMeansCollision
  LoadReturns
