SPECIFICATION FairSpec
CONSTANTS
  Threads = {t1, t2}
  Nodes = {1, 2, 3}
  Keys = {1, 2}
  Values = {1, 4}
  MAX_HEIGHT = 2
  EntryBytes = 9
  SizeModulus = 64
  MaxCalls = 3
INVARIANTS
  TypeOK
  KeysUnique
  LevelsSound
  GetsLinearize
  IteratorComplete
  TotalsExact
PROPERTIES
  SearchExact
  CallsEnd
