SPECIFICATION Spec
CONSTANTS
  NKeys = 3
  MaxTables = 3
  Values <- MCValues
  Starts = {1, 2}
  Ends <- MCEnds
  Limits = {1, 2}
  L1_MAX_FILE_ENTRIES = 2
INVARIANTS
  ScanExact
  OutputsSorted
PROPERTIES
  CompactionKeepsReads
