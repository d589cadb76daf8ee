SPECIFICATION FairSpec
CONSTANTS
  CommandIds <- MCCommandIds
  Times <- MCTimes
  Commands <- MCStock
  Fetches = {"fetch"}
  SnapshotEvery = 3
  MaxFailures = 2
PROPERTY EverythingIsSettled
INVARIANT TotalsMatchJournal
CHECK_DEADLOCK FALSE
