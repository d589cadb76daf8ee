SPECIFICATION Spec
CONSTANTS
  Sizes <- MCSizes
  Parallelism = 2
  MaxImports = 3
  MaxCancels = 2
PROPERTY StartRejectedWhileImporting
CHECK_DEADLOCK FALSE
