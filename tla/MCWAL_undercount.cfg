SPECIFICATION Spec
CONSTANTS
  Threads = {t1, t2}
  Durable = TRUE
  kMaxWriteAttempts = 2
  RingSize = 2
  Faults = {"cancel", "submit"}
  MaxCalls = 3
INVARIANTS
  AckedStable
