SPECIFICATION Spec
CONSTANTS
  CommandIds <- MCCommandIds
  Times <- MCTimes
  Products = {"hat"}
  Commands <- MCOneProduct
  MaxRetryAttempts = 3
  SnapshotEvery = 10
  MaxFailures = 1
INVARIANT ReadModelIsExact
CHECK_DEADLOCK FALSE
