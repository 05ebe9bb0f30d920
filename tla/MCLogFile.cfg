SPECIFICATION FairSpec
CONSTANTS
  MaxRecords = 4
  Sizes = {3, 6}
  BlockCells = 4
  MAX_RECOVERY_CELLS = 28
  MaxStarts = 3
CHECK_DEADLOCK FALSE
INVARIANTS
  TypeOK
  AckedRecovered
  RecoverExact
PROPERTIES
  RecoveryEnds
