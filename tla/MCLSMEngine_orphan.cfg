SPECIFICATION Spec
CONSTANTS
  NKeys = 1
  Values = {"a", "b"}
  Durable = TRUE
  L0_THRESHOLD = 2
  L1_MAX_FILE_ENTRIES = 1
  Faults = {"orphan"}
  MaxOps = 6
  MaxFaults = 1
INVARIANTS
  CrashSafe
