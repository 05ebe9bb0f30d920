------------------------------ MODULE SSTable -------------------------------
(***************************************************************************)
(* Sorted tables and the block cache they are read through                 *)
(* (src/src/sstable): the index and bloom filter a table is written with,  *)
(* lookups and seeks by any number of readers, and tables that are         *)
(* replaced under the same path while the cache is shared.                 *)
(*                                                                         *)
(* Readers hold the engine's mu_ shared, the flushes and compactions that  *)
(* open and destroy tables hold it exclusively; the cache has a mutex of   *)
(* its own, so each of its operations is one action.                       *)
(***************************************************************************)
EXTENDS Integers, Sequences, FiniteSets, FiniteSetsExt

CONSTANTS
  Readers,
  Paths,
  Contents,           \* what tables may hold: sequences of entries
  Keys,               \* what readers look for: numbers, in key order
  Hash,               \* BloomFilter::hash: key -> <<h1, h2>>
  NumHashes, BlockBits, BitsPerKey,  \* 8, 512 and -ln(fpr) / ln(2)^2
  EntryHeader,        \* bytes of an entry besides its value
  TARGET_BLOCK_SIZE,
  Capacity,           \* BlockCache::capacity_, max_bytes_, and where
  MaxBytes,           \* current_bytes_ wraps around
  SizeModulus,
  MaxOps              \* bound: reads and replacements

Tomb == -1            \* std::nullopt as a value; other values are lengths
Miss == -2            \* no entry for the key

ASSUME TableAssumption ==
  /\ Keys \subseteq Nat
  /\ \A c \in Contents :
       /\ c \in Seq([key : Nat, val : Nat \cup {Tomb}])
       /\ \A i, j \in DOMAIN c : i < j => c[i].key < c[j].key
  /\ BlockBits \in Nat \ {0} /\ NumHashes \in Nat /\ BitsPerKey \in Nat
  /\ EntryHeader \in Nat \ {0} /\ TARGET_BLOCK_SIZE \in Nat
  /\ Capacity \in Nat /\ MaxBytes \in Nat /\ SizeModulus \in Nat \ {0}
  /\ MaxOps \in Nat

-----------------------------------------------------------------------------
(* SSTable::write() and the SSTable that opens the file.                   *)

EntryBytes(e) == EntryHeader + (IF e.val = Tomb THEN 0 ELSE e.val)

(* Where each entry begins, and where the last one ends.                   *)
Offsets(c) ==
  LET at[i \in 1 .. Len(c) + 1] == IF i = 1 THEN 0 ELSE at[i - 1] + EntryBytes(c[i - 1])
  IN  at

(* The entries that begin a block.                                         *)
BlockStarts(c) ==
  LET bytes[i \in 1 .. Len(c)] ==   \* current_block_bytes after entry i
        EntryBytes(c[i]) +
          (IF i = 1 \/ bytes[i - 1] >= TARGET_BLOCK_SIZE THEN 0 ELSE bytes[i - 1])
  IN  {i \in 1 .. Len(c) : i = 1 \/ bytes[i - 1] >= TARGET_BLOCK_SIZE}

(* The sparse index: the first key of each block, and where it begins.     *)
index(c) ==
  LET starts == BlockStarts(c)
      start(j) == CHOOSE i \in starts : Cardinality({h \in starts : h < i}) = j - 1
  IN  [j \in 1 .. Cardinality(starts) |->
         [key |-> c[start(j)].key, at |-> Offsets(c)[start(j)]]]

(* BloomFilter: the bits are pairs of a block and a bit within it.         *)
NumBlocks(n) == Max({1, (Max({n, 1}) * BitsPerKey + BlockBits - 1) \div BlockBits})

Probes(k, blocks) ==
  LET h1 == Hash[k][1]
      h2 == Hash[k][2]
  IN  {<<h1 % blocks, (h1 + i * h2) % BlockBits>> : i \in 0 .. NumHashes - 1}

bloom(c) ==
  LET blocks == NumBlocks(Len(c))
  IN  [blocks |-> blocks, bits |-> UNION {Probes(c[i].key, blocks) : i \in DOMAIN c}]

(* Mutant: the reader takes the filter to have one block more.             *)
MayContainOther(b, k) == Probes(k, b.blocks + 1) \subseteq b.bits

mayContain(b, k) == Probes(k, b.blocks) \subseteq b.bits

(* What parseBlockEntries() makes of the bytes between two offsets.        *)
Between(c, from, to) ==
  LET at == Offsets(c)
      here == {i \in DOMAIN c : from <= at[i] /\ at[i] < to}
  IN  IF here = {} THEN <<>> ELSE SubSeq(c, Min(here), Max(here))

(* The file of a content: the entries, what a table reads when it opens    *)
(* the file, and what lies between each block's offset and the next one's, *)
(* or the end of the data.                                                 *)
File(c) ==
  LET idx == index(c)
      end == Offsets(c)[Len(c) + 1]
  IN  [entries |-> c, index |-> idx, bloom |-> bloom(c),
       block |-> [j \in DOMAIN idx |->
                    Between(c, idx[j].at, IF j < Len(idx) THEN idx[j + 1].at ELSE end)],
       tail |-> [j \in DOMAIN idx |-> Between(c, idx[j].at, end)]]

(* The scan of a block for a key.                                          *)
Scan(block, k) ==
  IF \E i \in DOMAIN block : block[i].key = k
    THEN block[CHOOSE i \in DOMAIN block : block[i].key = k].val
    ELSE Miss

(* calculateBlockBytes().                                                  *)
BlockBytes(block) ==
  MapThenSumSet(LAMBDA i : EntryBytes(block[i]), DOMAIN block)

-----------------------------------------------------------------------------
VARIABLES
  table,      \* the engine's open SSTables: path -> file
  lru,        \* lru_list_, most recently used first
  map,        \* map_: the keys it has
  bytes,      \* current_bytes_
  pc, op,     \* each reader's place and call
  lo, hi,     \* its binary search
  entries,    \* the block it has read
  out,        \* what its last call returned
  ops

cacheVars  == <<lru, map, bytes>>
readerVars == <<pc, op, lo, hi, entries, out>>
vars == <<table, cacheVars, readerVars, ops>>

Init ==
  /\ table = <<>>
  /\ lru = <<>> /\ map = {} /\ bytes = 0
  /\ pc = [r \in Readers |-> "idle"]
  /\ op = [r \in Readers |-> [kind |-> "none"]]
  /\ lo = [r \in Readers |-> 1] /\ hi = [r \in Readers |-> 1]
  /\ entries = [r \in Readers |-> <<>>]
  /\ out = [r \in Readers |-> Miss]
  /\ ops = 0

-----------------------------------------------------------------------------
(* BlockCache.                                                             *)

CacheKeyOf(e) == <<e.path, e.at>>
Place(key) == CHOOSE i \in DOMAIN lru : CacheKeyOf(lru[i]) = key
WithoutKey(l, key) == SelectSeq(l, LAMBDA e : CacheKeyOf(e) # key)
SumBytes(l) == MapThenSumSet(LAMBDA i : l[i].bytes, DOMAIN l)

(* evictIfNeeded(): least recently used first, until both limits hold.     *)
Evicted(l, m, b) ==
  LET rest(n) == SubSeq(l, n + 1, Len(l))
      left(n) == m \ {CacheKeyOf(rest(n)[i]) : i \in DOMAIN rest(n)}
      sum(n) == (b - SumBytes(rest(n))) % SizeModulus
      n == Max({i \in 0 .. Len(l) :
                  i = 0 \/ (Cardinality(left(i)) <= Capacity /\ sum(i) <= MaxBytes)})
  IN  [lru |-> SubSeq(l, 1, n), map |-> left(n), bytes |-> sum(n)]

CacheIs(c) == lru' = c.lru /\ map' = c.map /\ bytes' = c.bytes

(* Mutant: the replaced block's bytes stay counted.                        *)
PutTwice(path, at, block) ==
  CacheIs(Evicted(<<[path |-> path, at |-> at, block |-> block, bytes |-> BlockBytes(block)]>>
                    \o WithoutKey(lru, <<path, at>>),
                  map \cup {<<path, at>>},
                  (bytes + BlockBytes(block)) % SizeModulus))

put(path, at, block) ==
  LET old == IF <<path, at>> \in map THEN lru[Place(<<path, at>>)].bytes ELSE 0
      new == BlockBytes(block)
  IN  CacheIs(Evicted(<<[path |-> path, at |-> at, block |-> block, bytes |-> new]>>
                        \o WithoutKey(lru, <<path, at>>),
                      map \cup {<<path, at>>},
                      (bytes - old + new) % SizeModulus))

(* Mutant: only the most recently used block is dropped.                   *)
InvalidateFirst(path) ==
  IF lru # <<>> /\ lru[1].path = path
    THEN lru' = Tail(lru) /\ map' = map \ {CacheKeyOf(lru[1])}
         /\ bytes' = (bytes - lru[1].bytes) % SizeModulus
    ELSE UNCHANGED cacheVars

invalidatePath(path) ==
  LET gone == SelectSeq(lru, LAMBDA e : e.path = path)
  IN  /\ lru' = SelectSeq(lru, LAMBDA e : e.path # path)
      /\ map' = map \ {CacheKeyOf(gone[i]) : i \in DOMAIN gone}
      /\ bytes' = (bytes - SumBytes(gone)) % SizeModulus

-----------------------------------------------------------------------------
(* SSTable::get() and createIterator(start).                               *)

T(r) == table[op[r].path]
Return(r, v) == out' = [out EXCEPT ![r] = v] /\ pc' = [pc EXCEPT ![r] = "idle"]

(* The call begins: the reader has mu_ shared until it is idle again.      *)
Begin(r, kind, k, p) ==
  LET t == table[p]
  IN  /\ pc[r] = "idle" /\ p \in DOMAIN table /\ ops < MaxOps
      /\ op' = [op EXCEPT ![r] = [kind |-> kind, key |-> k, path |-> p]]
      /\ ops' = ops + 1
      /\ IF kind = "get" /\ (~mayContain(t.bloom, k) \/ t.index = <<>>) THEN
           Return(r, Miss) /\ UNCHANGED <<lo, hi>>
         ELSE
           /\ lo' = [lo EXCEPT ![r] = 1]
           /\ hi' = [hi EXCEPT ![r] = Len(t.index)]
           /\ pc' = [pc EXCEPT ![r] = "search"]
           /\ UNCHANGED out
      /\ UNCHANGED <<table, cacheVars, entries>>

(* Mutants: the lower midpoint; a block is taken to begin after its first  *)
(* key; lo goes past the midpoint.                                         *)
SearchLow(r) ==
  LET mid == lo[r] + (hi[r] - lo[r]) \div 2
  IN  /\ pc[r] = "search" /\ lo[r] < hi[r]
      /\ IF T(r).index[mid].key <= op[r].key
           THEN lo' = [lo EXCEPT ![r] = mid] /\ UNCHANGED hi
           ELSE hi' = [hi EXCEPT ![r] = mid - 1] /\ UNCHANGED lo
      /\ UNCHANGED <<table, cacheVars, pc, op, entries, out, ops>>

SearchBelow(r) ==
  LET mid == lo[r] + (hi[r] - lo[r] + 1) \div 2
  IN  /\ pc[r] = "search" /\ lo[r] < hi[r]
      /\ IF T(r).index[mid].key < op[r].key
           THEN lo' = [lo EXCEPT ![r] = mid] /\ UNCHANGED hi
           ELSE hi' = [hi EXCEPT ![r] = mid - 1] /\ UNCHANGED lo
      /\ UNCHANGED <<table, cacheVars, pc, op, entries, out, ops>>

SearchPast(r) ==
  LET mid == lo[r] + (hi[r] - lo[r] + 1) \div 2
  IN  /\ pc[r] = "search" /\ lo[r] < hi[r]
      /\ IF T(r).index[mid].key <= op[r].key
           THEN lo' = [lo EXCEPT ![r] = mid + 1] /\ UNCHANGED hi
           ELSE hi' = [hi EXCEPT ![r] = mid - 1] /\ UNCHANGED lo
      /\ UNCHANGED <<table, cacheVars, pc, op, entries, out, ops>>

(* One round of the search that get() and findBlock() make.                *)
Search(r) ==
  LET mid == lo[r] + (hi[r] - lo[r] + 1) \div 2
  IN  /\ pc[r] = "search" /\ lo[r] < hi[r]
      /\ IF T(r).index[mid].key <= op[r].key
           THEN lo' = [lo EXCEPT ![r] = mid] /\ UNCHANGED hi
           ELSE hi' = [hi EXCEPT ![r] = mid - 1] /\ UNCHANGED lo
      /\ UNCHANGED <<table, cacheVars, pc, op, entries, out, ops>>

(* The search is over.  A seek reads entries from the block's start and    *)
(* stops at the first that is not before its key; its result is that key.  *)
Seek(r) ==
  LET t == T(r)
      from == IF t.index = <<>> THEN <<>> ELSE t.tail[lo[r]]
      ahead == {i \in DOMAIN from : from[i].key >= op[r].key}
  IN  /\ pc[r] = "search" /\ lo[r] >= hi[r] /\ op[r].kind = "seek"
      /\ Return(r, IF ahead = {} THEN Miss ELSE from[Min(ahead)].key)
      /\ UNCHANGED <<table, cacheVars, op, lo, hi, entries, ops>>

(* The iterator opens the file by its path, on a stream of its own.  When  *)
(* that fails nothing is thrown: the iterator is at the end at once.       *)
SeekUnopened(r) ==
  /\ pc[r] = "search" /\ lo[r] >= hi[r] /\ op[r].kind = "seek"
  /\ op' = [op EXCEPT ![r].kind = "unopened"]
  /\ Return(r, Miss)
  /\ UNCHANGED <<table, cacheVars, lo, hi, entries, ops>>

CacheKey(r) == <<op[r].path, T(r).index[lo[r]].at>>

Hit(r) ==
  /\ pc[r] = "search" /\ lo[r] = hi[r] /\ op[r].kind = "get" /\ T(r).index # <<>>
  /\ CacheKey(r) \in map
  /\ LET e == lru[Place(CacheKey(r))]
     IN  /\ lru' = <<e>> \o WithoutKey(lru, CacheKey(r))
         /\ Return(r, Scan(e.block, op[r].key))
  /\ UNCHANGED <<table, map, bytes, op, lo, hi, entries, ops>>

(* A miss, and the pread of the block.                                     *)
Missed(r) ==
  /\ pc[r] = "search" /\ lo[r] = hi[r] /\ op[r].kind = "get" /\ T(r).index # <<>>
  /\ CacheKey(r) \notin map

Read(r) ==
  /\ Missed(r)
  /\ entries' = [entries EXCEPT ![r] = T(r).block[lo[r]]]
  /\ pc' = [pc EXCEPT ![r] = "read"]
  /\ UNCHANGED <<table, cacheVars, op, lo, hi, out, ops>>

(* The pread fails or is short: get() throws.                              *)
ReadThrows(r) ==
  /\ Missed(r)
  /\ op' = [op EXCEPT ![r] = [kind |-> "none"]]
  /\ pc' = [pc EXCEPT ![r] = "idle"]
  /\ UNCHANGED <<table, cacheVars, lo, hi, entries, out, ops>>

Fill(r) ==
  /\ pc[r] = "read"
  /\ put(op[r].path, T(r).index[lo[r]].at, entries[r])
  /\ Return(r, Scan(entries[r], op[r].key))
  /\ entries' = [entries EXCEPT ![r] = <<>>]
  /\ UNCHANGED <<table, op, lo, hi, ops>>

-----------------------------------------------------------------------------
(* The engine, with mu_ held exclusively: a flush or a compaction opens a  *)
(* table, a compaction destroys its inputs.  What the readers were told of *)
(* a table is forgotten with it.                                           *)

NoReader == \A r \in Readers : pc[r] = "idle"

Open(p, c) ==
  /\ NoReader /\ p \notin DOMAIN table /\ ops < MaxOps
  /\ table' = [q \in DOMAIN table \cup {p} |-> IF q = p THEN File(c) ELSE table[q]]
  /\ ops' = ops + 1
  /\ UNCHANGED <<cacheVars, readerVars>>

Destroy(p) ==
  /\ NoReader /\ p \in DOMAIN table
  /\ table' = [q \in DOMAIN table \ {p} |-> table[q]]
  /\ invalidatePath(p)
  /\ op' = [r \in Readers |-> IF pc[r] = "idle" THEN [kind |-> "none"] ELSE op[r]]
  /\ UNCHANGED <<pc, lo, hi, entries, out, ops>>

ReadStep(r) ==
  \/ Search(r) \/ Seek(r) \/ SeekUnopened(r)
  \/ Hit(r) \/ Read(r) \/ Fill(r) \/ ReadThrows(r)

Next ==
  \/ \E r \in Readers :
       \/ ReadStep(r)
       \/ \E kind \in {"get", "seek"}, k \in Keys, p \in Paths : Begin(r, kind, k, p)
  \/ \E p \in Paths : Destroy(p) \/ \E c \in Contents : Open(p, c)

Spec == Init /\ [][Next]_vars

(* Readers that are searching an index are scheduled.                      *)
FairSpec == Spec /\ \A r \in Readers : WF_vars(Search(r))

-----------------------------------------------------------------------------
(* Properties.                                                             *)

(* Every variable has its type.                                            *)
TypeOK ==
  /\ DOMAIN table \subseteq Paths /\ \A p \in DOMAIN table : table[p].entries \in Contents
  /\ \A i \in DOMAIN lru : CacheKeyOf(lru[i]) \in Paths \X Nat /\ lru[i].bytes \in Nat
  /\ map \subseteq Paths \X Nat /\ bytes \in 0 .. SizeModulus - 1
  /\ pc \in [Readers -> {"idle", "search", "read"}]
  /\ \A r \in Readers :
       \/ op[r].kind = "none" /\ pc[r] = "idle"
       \/ op[r] \in [kind : {"get", "seek"}, key : Keys, path : Paths]
       \/ op[r] \in [kind : {"unopened"}, key : Keys, path : Paths] /\ pc[r] = "idle"
  /\ lo \in [Readers -> Nat \ {0}] /\ hi \in [Readers -> Nat]
  /\ \A r \in Readers :
       pc[r] # "idle" => hi[r] <= Len(T(r).index) /\ (lo[r] = 1 \/ lo[r] <= hi[r])
  /\ out \in [Readers -> Int] /\ ops \in 0 .. MaxOps

(* A lookup finds the table's entry for its key, or that there is none:    *)
(* through the bloom filter, the sparse index, and a block that was cached *)
(* by another lookup, perhaps before the path was reused.  A seek, that    *)
(* is createIterator(start), whose stream opened is at the first entry not *)
(* before its start; one whose stream did not is at the end, without an    *)
(* error, and nothing is claimed of it.                                    *)
ReadsExact ==
  \A r \in Readers :
    /\ pc[r] = "idle" /\ op[r].kind = "get" => out[r] = Scan(T(r).entries, op[r].key)
    /\ pc[r] = "idle" /\ op[r].kind = "seek" =>
         LET ahead == {i \in DOMAIN T(r).entries : T(r).entries[i].key >= op[r].key}
         IN  out[r] = IF ahead = {} THEN Miss ELSE T(r).entries[Min(ahead)].key

(* The cache holds blocks of open tables only, as their files have them,   *)
(* and so does a reader about to fill it: a compaction resets the counter, *)
(* so a path soon names another table.                                     *)
CacheCoherent ==
  /\ \A i \in DOMAIN lru :
       LET t == table[lru[i].path]
       IN  /\ lru[i].path \in DOMAIN table
           /\ \E j \in DOMAIN t.index :
                t.index[j].at = lru[i].at /\ t.block[j] = lru[i].block
  /\ \A r \in Readers :
       pc[r] = "read" => op[r].path \in DOMAIN table /\ entries[r] = T(r).block[lo[r]]

(* The map has the list's keys, each once; the byte count is that of the   *)
(* blocks, with no wrap-around; and both limits hold between operations,   *)
(* even when two readers fill the same block.                              *)
CacheSound ==
  /\ map = {CacheKeyOf(lru[i]) : i \in DOMAIN lru}
  /\ Cardinality(map) = Len(lru) /\ Len(lru) <= Capacity
  /\ bytes = SumBytes(lru) /\ bytes <= MaxBytes

(* findBlock() ends at the last block that does not begin after the key,   *)
(* or at the first block.                                                  *)
FindBlockExact ==
  \A r \in Readers :
    pc[r] = "read" \/ (pc[r] = "search" /\ lo[r] >= hi[r] /\ T(r).index # <<>>) =>
      /\ lo[r] \in DOMAIN T(r).index
      /\ lo[r] > 1 => T(r).index[lo[r]].key <= op[r].key
      /\ lo[r] < Len(T(r).index) => ~(T(r).index[lo[r] + 1].key <= op[r].key)

(* Every binary search ends: no round leaves lo and hi as they were.       *)
SearchesEnd ==
  \A r \in Readers : (pc[r] = "search" /\ lo[r] < hi[r]) ~> (lo[r] >= hi[r])

=============================================================================
