SPECIFICATION FairSpec
CONSTANTS
  Threads = {t1, t2}
  Durable = FALSE
  kMaxWriteAttempts = 2
  RingSize = 1
  Faults = {"cancel", "submit", "timeout", "sync", "clear"}
  MaxCalls = 3
INVARIANTS
  TypeOK
  BuffersOutliveRequests
  CloseDrains
  NoSilentLoss
PROPERTIES
  CallsEnd
