SPECIFICATION FairSpec
CONSTANTS
  Sizes <- MCSizes
  Parallelism = 2
  MaxImports = 3
  MaxCancels = 2
INVARIANTS
  TypeOK
  NoOrphanStream
  ImportingIsBacked
  ExactWithoutCancel
PROPERTY ImportEnds
CHECK_DEADLOCK FALSE
