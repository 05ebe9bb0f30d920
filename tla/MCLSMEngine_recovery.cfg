SPECIFICATION Spec
CONSTANTS
  NKeys = 1
  Values = {"a", "b"}
  Durable = FALSE
  L0_THRESHOLD = 2
  L1_MAX_FILE_ENTRIES = 1
  Faults = {"sync", "flush", "compact", "crash"}
  MaxOps = 4
  MaxFaults = 3
INVARIANTS
  SnapshotMatchesLive
  NoResidue
PROPERTIES
  ReadsFollowCalls
  Implements
