SPECIFICATION Spec
CONSTANTS
  NKeys = 1
  Values = {"a"}
  Durable = TRUE
  L0_THRESHOLD = 2
  L1_MAX_FILE_ENTRIES = 1
  Faults = {"append", "write", "sync", "flush", "orphan", "clear", "compact", "iterator", "remove", "crash"}
  MaxOps = 5
  MaxFaults = 3
INVARIANTS
  TypeOK
  ListedTablesIntact
