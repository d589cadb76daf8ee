SPECIFICATION Spec
CONSTANTS
  w1 = w1
  w2 = w2
  Workers <- MCWorkers
  BatchSize = 2
  MaxBatches = 2
  MaxLife = 2
  MaxReports = 2
  MaxFaults = 1
INVARIANTS
  TypeOK
  OneResultPerWork
  ReportsAreTrue
  EverythingIsCounted
CHECK_DEADLOCK FALSE
