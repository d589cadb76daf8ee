SPECIFICATION FairSpec
CONSTANTS
  CommandIds <- MCCommandIds
  Times <- MCTimes
  Products = {"hat", "mug"}
  Commands <- MCTwoProducts
  MaxRetryAttempts = 2
  SnapshotEvery = 2
  MaxFailures = 2
INVARIANTS
  TypeOK
  NothingSkipped
  DoubtIsBounded
  ReadModelAgrees
PROPERTY OffsetNeverRegresses EverythingIsProjected
CHECK_DEADLOCK FALSE
