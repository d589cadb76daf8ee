SPECIFICATION Spec
CONSTANTS
  CommandIds <- MCCommandIds
  Times <- MCTimes
  Commands <- MCSales
  Fetches = {"fetch"}
  SnapshotEvery = 2
  MaxFailures = 1
INVARIANTS
  TypeOK
  StateIsSumOfEvents
  RepliesAreTrue
  SalesJudgedOnRealStock
  PassivationLosesOnlyARace
PROPERTY Linearizable
CHECK_DEADLOCK FALSE
