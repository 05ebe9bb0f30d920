SPECIFICATION FairSpec
CONSTANTS
  Readers = {r1, r2}
  Paths = {p1, p2}
  Contents <- MCContents
  Keys = {1, 2, 4}
  Hash <- MCHash
  NumHashes = 2
  BlockBits = 8
  BitsPerKey = 5
  EntryHeader = 1
  TARGET_BLOCK_SIZE = 9
  Capacity = 2
  MaxBytes = 12
  SizeModulus = 64
  MaxOps = 5
CHECK_DEADLOCK FALSE
INVARIANTS
  TypeOK
  CacheSound
  CacheCoherent
  ReadsExact
  FindBlockExact
PROPERTIES
  SearchesEnd
