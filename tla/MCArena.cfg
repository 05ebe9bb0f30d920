SPECIFICATION Spec
CONSTANTS
  Threads = {t1, t2}
  block_size_ = 12
  NodeSizes = {5, 7, 13, 59}
  SlotSize = 3
  Alignment = 4
  Bases = {0, 14, 17, 36}
  Space = 60
  SizeMax = 63
  MaxAllocs = 5
CHECK_DEADLOCK FALSE
INVARIANTS
  TypeOK
  RegionsDisjoint
  RegionsAligned
  DestroyedOnce
