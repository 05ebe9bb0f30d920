SPECIFICATION Spec
CONSTANTS
  NKeys = 2
  Values = {"a"}
  Durable = TRUE
  L0_THRESHOLD = 2
  L1_MAX_FILE_ENTRIES = 1
  Faults = {"append", "write", "sync", "compact", "crash"}
  MaxOps = 4
  MaxFaults = 2
PROPERTIES
  Implements
