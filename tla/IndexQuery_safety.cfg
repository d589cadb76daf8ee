SPECIFICATION FairSpec
CONSTANTS
  c1 = c1
  c2 = c2
  Consumers <- MCConsumers
  HostOf <- MCHostOf
  MaxAttempts = 3
  Window = 2
  MaxPages = 3
  MaxFaults = 1
INVARIANTS
  TypeOK
  PageIsInOnePlace
  OnlyATimeoutShifts
  UndisturbedIndexWorks
PROPERTIES
  ResponsesInOrder
  NothingIsLeftBehind
CHECK_DEADLOCK FALSE
