SPECIFICATION Spec
CONSTANTS
  Threads = {t1, t2, t3}
  Durable = TRUE
  kMaxWriteAttempts = 2
  RingSize = 2
  Faults = {"write", "cancel", "sync", "timeout"}
  MaxCalls = 3
SYMMETRY ThreadSymmetry
INVARIANTS
  AckedStable
  PendingExact
  LeaderKeepsDescriptor
