# Verification of the LSM-tree storage engine

TLA+ specifications of the engine under `src/src/`, model-checked with TLC on
small instances, and theorems checked by TLAPS for every instance: about the
write-ahead log and its recovery, the engine and the promise it implements, scans
and the compaction's merge, the skip list, the block search and the allocator.
`PROJECT.json` is the index: components, runs, mutants, the map from definitions
to source lines, findings, hazards, theorems.

## The system

| Part | Source (`src/src/`) | State | Operations | Model |
|---|---|---|---|---|
| Write-ahead log | `wal/wal.h`, `wal/wal_writer.cpp` | ring, pending completions, offset, failure, epoch, durable end, sync flag | append, reap, resubmit, drain, sync, waitDurable, clear, destroy | `WAL` |
| Log layout, recovery | `wal/wal_writer.cpp`, `wal/wal_reader.cpp` | blocks of the file | write, open, recover (parse, check, resynchronise) | `LogFile` |
| Engine | `db/lsm_engine.{h,cpp}` | memtable, table list, counter, directory lock | put, del, get, sync, flush, open, close | `LSMEngine`, `LSMTables` |
| Scan | `db/lsm_engine.cpp` | heap of sources | scan | `Scan` |
| Compaction | `compaction/leveled_compactor.*` | heap, output buffer, staged outputs | run: merge, publish, undo, remove | merge in `Scan`, files in `LSMEngine` |
| SSTables | `sstable/sstable.h`, `sstable_builder.cpp`, `sstable_reader.cpp` | file, sparse index, bloom filter | write, open, get, seek, destroy | `SSTable` |
| Block cache | `sstable/lru_block_cache.h` | LRU list, byte count | get, put, invalidatePath | `SSTable` |
| Bloom filter | `sstable/block_bloom_filter.h` | blocks of bits | insert, mayContain | `SSTable` |
| Memtable | `memtable/skip_list.h` | skip list, byte and entry counts | insert, find, get, seek, iterate | `SkipList` |
| Arena | `memtable/arena.h` | blocks, bump offset, destructors | allocate, registerDestructor, destroy | `Arena` |
| Fault points | `util/fault.*` | armed points | hit, shouldFail, crashPoint | the constant `Faults` |
| CLI, benchmarks | `tools/`, `benchmarks/` (repository root) | – | drivers | not modelled |

A put takes the engine lock, appends a record to the log (an `io_uring` request
at an offset fixed under the log's own mutex), inserts into the memtable and, if
that is full, flushes: the memtable becomes a level-0 table, the log is replaced
(`WAL::clear`) and the compactor may merge all tables into level 1. In Durable
mode the put then waits, without the engine lock, until a group-commit leader
has drained the ring and run one `fdatasync` for everybody. A restart replays
the log over the tables found in the directory. Reads look into the memtable and
then the tables, newest first, each through its bloom filter, its sparse index
and the block cache that all tables share.

## Modules

**`WAL`** – threads, one program counter each, at the points where a lock is
taken or released or a condition waited for. A mutex is held by the thread whose
`pc` lies in `MuPcs`, `SyncMuPcs` or `EnginePcs`; a thread asleep on `sync_cv_`
is woken by `notify_all` only, so a lost wake-up would be a thread that sleeps
for ever. One record is one unit of the log, named by its offset. Requests are
queued, in flight, completed or final; the kernel completes them in any order
(`Complete`). `reap()` is one action per completion, under `mu_`. `landed` is
what is in the file, `stable` what an `fdatasync` has covered; `returned` and
`acked` record what callers were told. All of them belong to the current epoch.
Faults are switched on one by one with the constant `Faults`.

**`LogFile`** – the same log one level down: a file of cells in blocks, each cell
zero or a numbered part of a record. Writes land in any order or fail, a crash
keeps any of the unsynced blocks (a record of several blocks may lose its
middle), the closed log may be cut at any cell, and the next start appends at
the size it finds. `recover()` is one action per iteration of its loop:
`Padding`, `Damage`, `Accept`, `RecoverEnds`.

**`LSMEngine`** – mutators hold the engine lock exclusively, so there is one
sequence of steps, each of which a crash or an error may be the last. The log is
a sequence of records, stable or not; a crash loses any of those that are not,
individually. Tables are maps under the names `<<level, counter>>`; `disk` is
the directory, `sstables` the open list. Flush and compaction take one step per
file operation. When the memtable is full is left open. Reads are the operator
`get`; `Recovered` is what opening the directory as it stands would show.
`may[k]` is what the contract allows key `k` to hold after a crash. The operators
on tables and logs (`Lookup`, `recoverFromWAL`, `loadSSTables`, `NextCounter`, the
merge) are a module of their own, `LSMTables`.

**`KVStore`** – the promise to callers: a dictionary with put/del in two steps
(visible, then returned), sync and flush barriers, and a crash that leaves every
key with a value in `may`. `LSMEngine` implements it (`Implements`), with
`kv <- Shown`.

**`Scan`** – the two merges. A source is known by its age: a table by its position
in `sstables_`, the memtable by the position after the last; the ranks of `scan()`
are the reverse. What each source may hold is a constant (`Values`), any set that
does not contain the marks for a deletion and for no entry. `Begin` chooses the sources of a `scan()` (tables out
of range are skipped), `Take`, `Skip` and `Emit` are its loop, with tombstones,
end and limit; writes interleave as far as the lock lets them (`Unlocked`).
`MergeBegins` … `MergeEnds` are the compactor's loop with its output buffer. It
justifies the one-step merge of `LSMEngine`. Every iterator opens its file here;
what happens when one does not is in `SSTable` (`SeekUnopened`) and in `LSMEngine`
(the fault `iterator`).

**`SSTable`** – what `SSTable::write()` lays out (offsets, blocks, sparse index,
bloom bits) as functions of a table's contents; readers that probe the filter,
search the index one comparison at a time, and go through the cache (`Hit`, or
`Read` then `Fill` as two steps, other readers in between); tables opened and
destroyed under paths that are reused. A key is a number, a value its length.
The two hashes of a key are a constant; the run makes two keys collide. A `get()`
whose `pread` fails throws (`ReadThrows`). An iterator opens the file on a stream of
its own, and when that fails it is silently empty (`SeekUnopened`); the reads of a
stream that opened are taken to succeed.

**`SkipList`** – one action per atomic load, store, CAS or `fetch_add` of
`find()`, `insert()`, `get()`, iteration and the memtable's accounting. `links[n]`
counts the levels on which node `n` is linked. `seen` and `raced` are auxiliary:
what a lookup may return, and whether two inserts of one key have overlapped.

**`Arena`** – addresses are numbers; `operator new` places blocks anywhere that is
free. `Node::create()` and `makeSlot()` are the steps of its users, so that
throws and other threads come between allocation and registration.

**`MC*`** instantiate the modules for TLC. The theorems are in **`*Proofs`** and
**`LSMEngineSteps`**; **`LSMInvariant`** and **`LSMTableFacts`** state what they need
about the engine. Operators introduced by a comment "Mutant"
are plausible mistakes in the definition that follows; each breaks the property
it is listed with.

How the models abstract:

- A refused append (`failure_` set, over-long field, failed allocation) and a
  throwing `sync()` of the engine change nothing and are no action.
- In `LSMEngine` a failing write is detected at once (`walFailed`). The code
  detects it at the next reap; the calls in between only append to the log and
  return early, which the model has too, before the failure.
- Throws injected by `fault::hit` are the faults at that point. A crash is
  possible at every step, so `crashPoint` needs nothing more.
- `UseExitedRing` is undefined behaviour in the code (a ring whose memory is
  unmapped). On Linux that is a fault that ends the process.
- Directory operations are durable in the order they are made, and so is the
  name of a new log. `DURABILITY.md` excludes power loss from what is tested.
- Temporaries (`*.tmp`) are never loaded and are left out.
- A checksum detects every damage: cells that are not a whole record never have
  the right CRC (`LogFile!Valid`).
- A log resumed at a size that is no multiple of the block makes every `O_DIRECT`
  append fail until a flush replaces the log; `LogFile` has those failures
  (`LandFails`), nothing is acknowledged meanwhile.
- Memory is sequentially consistent in `SkipList`. The code uses acquire loads,
  release stores and sequentially consistent CAS; a node's fields are written
  before the CAS that publishes it.
- Node creation and the level-0 CAS are one action in `SkipList`, because a node
  is private until then; a loser's node appears in `Arena` only.

## Runs

| Run | Instance | Properties | Result |
|---|---|---|---|
| `MCWAL_durable` | 3 threads, Durable, 2 attempts, ring 2, 3 calls; write, cancel, sync, timeout | `AckedStable`, `PendingExact`, `LeaderKeepsDescriptor` | holds |
| `MCWAL_live` | 2 threads, Async, ring 1, 3 calls, fairness; cancel, submit, timeout, sync, clear | `TypeOK`, `BuffersOutliveRequests`, `CloseDrains`, `NoSilentLoss`, `CallsEnd` | holds |
| `MCWAL_undercount` | cancel and submit together | `AckedStable` | violated |
| `MCLSMEngine_durable` | 2 keys, 1 value, Durable, 4 calls, 2 faults; append, write, sync, compact, crash | `Implements` | holds |
| `MCLSMEngine_recovery` | 1 key, 2 values, Async, 4 calls, 3 faults; sync, flush, compact, crash | `SnapshotMatchesLive`, `NoResidue`, `ReadsFollowCalls`, `Implements` | holds |
| `MCLSMEngine_faults` | 1 key, 1 value, Durable, 5 calls, 3 faults; all | `TypeOK`, `ListedTablesIntact` | holds |
| `MCLSMEngine_orphan` | unlisted table | `CrashSafe` | violated |
| `MCSkipList` | 2 threads, 2 keys, 3 nodes, 2 levels, 3 calls, fairness | `TypeOK`, `KeysUnique`, `LevelsSound`, `GetsLinearize`, `IteratorComplete`, `TotalsExact`, `SearchExact`, `CallsEnd` | holds |
| `MCSSTable` | 2 readers, 2 paths, tables of 0 to 3 blocks, cache of 2 blocks or 12 bytes, 5 operations, fairness | `TypeOK`, `CacheSound`, `CacheCoherent`, `ReadsExact`, `FindBlockExact`, `SearchesEnd` | holds |
| `MCScan` | 3 keys, memtable and up to 3 tables of every content | `ScanExact`, `OutputsSorted`, `CompactionKeepsReads` | holds |
| `MCLogFile` | 4 records of 3 or 6 cells, blocks of 4, 3 starts, fairness | `TypeOK`, `AckedRecovered`, `RecoverExact`, `RecoveryEnds` | holds |
| `MCArena` | 2 threads, 5 allocations, blocks of 12, sizes up to `SizeMax - Alignment` | `TypeOK`, `RegionsDisjoint`, `RegionsAligned`, `DestroyedOnce` | holds |

What they show, beyond the wording of the properties in the modules:

- `AckedStable` and `PendingExact`: group commit is right under retried and failed
  writes, and `drain()` ends exactly when the ring is empty. The run has no failed
  submissions: that `PendingExact` and `AckedStable` survive those, where nothing is
  cancelled, is shown by the theorems below and by no run.
- `CloseDrains` is about logs that have not met both a failed submission and a
  cancellation (`RetriesUnmixed`). Where both have happened, the undercount of the
  first violation below can also let `~WAL()` close a log without one of its
  records and without a recorded failure. The ring of one slot in `MCWAL_live`
  cannot show that (a stale request leaves no slot for a resubmission); the
  theorem `CloseIsClean` holds for every ring size.
- `Implements`: no acknowledged write is undone by any crash, failed flush or
  failed compaction; in Async mode a crash loses unsynced writes only.
- `RecoverExact`: recovery returns "exactly the records whose bodies are intact"
  (`DURABILITY.md:129`), also over the remains of earlier starts.
- `ScanExact`: a scan returns what point reads of its range would
  (`lsm_engine.h:35-42`), provided the files of its tables open. `CompactionKeepsReads`: a merge changes no point read.
- `ReadsExact` with `CacheCoherent`: no block cached under a path answers for the
  table that has the path next.
- `TotalsExact` claims the byte total when no two writers overlapped on a key: the engine
  inserts under its lock, and two overwrites that read the same displaced value
  would both subtract it, which the property does not catch. The entry count needs
  no such condition.
- `SnapshotMatchesLive` is about the directory with its log complete: in Async mode
  a `sync()` comes before the copy. It and `NoResidue` exclude the faults that leave
  a table by themselves (`orphan`, `remove`).
- `DestroyedOnce`: an object whose registration a throw cuts short is never
  destroyed (`abandoned`); every other one is.

Bounds. Three threads are a leader, a waiter and a third that clears; two
attempts are one retry; rings of one and two slots meet the full queue, which
with eight would take eight failed submissions. `L0_THRESHOLD = 2` and
`L1_MAX_FILE_ENTRIES = 1` make compactions with several inputs and outputs
happen within four calls (two put-and-flush pairs), and a restart and a second
compaction fit in. Deletes are always included. Two levels and three calls let
two inserts of one key or of neighbours race on both levels while the third call
reads; more levels and threads are covered by the proof. Of the blocks
one is larger than the whole cache (14 bytes of 12) and evicts everything, itself
included; the others meet the byte limit or, three small ones, the limit of two
blocks. Record
sizes of less and more than a block, three starts and a cut give a log with the
remains of two earlier processes. `SizeMax` lies just above `Space`, so that a sum
of offset, padding and size could wrap. Symmetry is used for threads only where
no liveness is checked.

Fairness is weak fairness of each thread's own steps, which the operating
system's scheduling gives: in `MCWAL_live` and `MCSkipList` of every step of a
call, in `MCSSTable` of the search loop, in `MCLogFile` of the recovery loop.
Nothing is assumed of the kernel's completions: a request that never completes
ends `drain()` by its time-out, which `MCWAL_live` therefore includes. Locks need
no strong fairness here, since each thread makes a bounded number of calls; for
the same reason `CallsEnd` of the skip list says that an insert ends once the
others do (it is lock-free, not wait-free).

Deadlock is checked except in `MCSSTable`, `MCLogFile` and `MCArena`, where the
bound on operations, starts or allocations is where a behaviour stops. Elsewhere
a process that closed or died, or threads that made all their calls, stutter;
anything else that stops would be reported.

### What the violations show

1. `MCWAL_undercount`: a put has its record in flight and waits; the submission of
   a later put fails, so that its request stays in the queue. Then the first write
   is cancelled, and `resubmit()` submits the stale request together with it, which
   `pending_cqes_` does not count. The stale request's completion uses up the count,
   `drain()` returns one completion early, and the first put returns with its record
   unwritten. Needs, in this order and with no append in between (an append would
   submit the stale request itself, and count it), a failed submission and a
   cancellation in one log.
2. `MCLSMEngine_orphan`: a flush that throws between its rename and the listing
   of the table leaves a file that a later compaction neither merges nor removes;
   a restart loads it above the compacted tables.

More observations, made with the same models:

- After a `clear()` that fails between `io_uring_queue_exit()` and the new ring,
  the next call uses the exited ring (`wal_writer.cpp:168`); the action
  `UseExitedRing` is taken in `MCWAL_live`.
- A compaction input that cannot be reopened is merged as empty and then deleted
  (`sstable_reader.cpp:236`); `CrashSafe` fails with `Faults = {"iterator"}`.
- For the same reason a `scan()` leaves out a table whose file cannot be opened, and
  reports nothing. `get()` reads through the descriptor opened with the table and
  still finds its keys, so the two then disagree, although `lsm_engine.h` says that
  they never do (`SeekUnopened`).

A put that throws after its append is invisible until the next start and visible
after it. `DURABILITY.md` allows this ("unknown outcome"), so `KVStore` does too
(`doubt`), and `SnapshotMatchesLive` is checked without that fault.

## Proofs

Every theorem holds for all values of the constants that the `ASSUME` of its
module allows, and those assumptions state types, except where said below. A fault
that a theorem excludes is named in its hypothesis.

| Module | Theorems | Property of a run |
|---|---|---|
| `WALProofs` | `TypeCorrect`, `DescriptorKept`, `BuffersSafe`, `LossRecorded` | `TypeOK`, `LeaderKeepsDescriptor`, `BuffersOutliveRequests`, `NoSilentLoss` |
| | `CloseIsClean` | `CloseDrains` |
| | `PendingIsExact`, `AckedIsStable` (under `FaultsApart`) | `PendingExact`, `AckedStable` |
| `LogFileProofs` | `LogTyped`, `ExactRecovery`, `PromisesRecovered` | `TypeOK`, `RecoverExact`, `AckedRecovered` |
| `LSMEngineProofs` | `EngineTyped`, `TablesIntact` | `TypeOK`, `ListedTablesIntact` |
| | `ReadsStable`, `DirectoryExact`, `SnapshotExact`, `EngineImplements` (without some faults) | `ReadsFollowCalls`, `NoResidue`, `SnapshotMatchesLive`, `Implements` |
| | `CrashIsSafe` | the property that `MCLSMEngine_orphan` violates, without that fault |
| `ScanProofs` | `ExactScans`, `SortedOutputs`, `ReadsKept` | `ScanExact`, `OutputsSorted`, `CompactionKeepsReads` |
| `SkipListProofs` | `EverythingTyped`, `UniqueKeys`, `SoundLevels`, `ExactFind`, `LinearizableGets`, `CompleteIterators` | `TypeOK`, `KeysUnique`, `LevelsSound`, `SearchExact`, `GetsLinearize`, `IteratorComplete` |
| | `ExactCount` | the first conjunct of `TotalsExact` |
| `SSTableProofs` | `FindsBlock` | `FindBlockExact` |
| `ArenaProofs` | `ArenaTyped`, `Disjoint`, `Aligned`, `DestroysOnce` | `TypeOK`, `RegionsDisjoint`, `RegionsAligned`, `DestroyedOnce` |

### The write-ahead log

For every set of threads, ring size, retry limit, mode and number of calls, in
layers of `WALProofs`:

- for every set of faults, the inductive `LockInv` (`LockInvariance`) gives
  `TypeCorrect` and `DescriptorKept`;
- for every set of faults, the inductive `RequestInv` (`RequestInvariance`) gives
  `BuffersSafe` and `LossRecorded`. If failed submissions and cancellations do
  not occur together (`FaultsApart`, the assumption that `MCWAL_undercount` shows
  to be needed) it also gives `PendingIsExact`;
- under `FaultsApart`, the inductive `IInv` (`Invariance`) gives `AckedIsStable`;
- for every set of faults, `CleanPending` gives `CloseIsClean`: the count is exact
  in a log that has met no failure and not both a failed submission and a
  resubmission (`RetriesUnmixed`). Only `clear()` makes such a log out of another
  (`CleanBefore`), and a resubmission after which it is still one found the queue
  empty (`CleanCarriesNothing`).

The argument. `Exclusion` (one holder per lock, one leader) and `Leadership` (the
flag, the leader's epoch, and `clear()` exclude each other) give
`LeaderKeepsDescriptor`. `Requests` ties the ring to the log: issued records are
tagged unless a failure is on record, and a finished one has landed.
`PendingExact` makes an empty count mean an empty ring, so after `drain()` every
issued record is in the file (`DrainLands`). `Durability` carries that through the
leader's steps: below the target everything is landed, then covered by the
running `fdatasync`, then stable, and only then is `durable_end_` moved.
`Tickets` says that a caller's records lie below its ticket's end, so a satisfied
ticket of the current epoch promises stable records only. None of these is
inductive without the others. There is one lemma per conjunct, with one step per
action that can disturb it; the actions that cannot are shown to leave its
variables alone (`RingSplit`, `TicketsFrame`, `CommitFrame`, `CommitSplit`).

### The log file

For every block size, set of record sizes, limit on recovery, number of records and
number of starts, whatever a crash keeps and wherever the log is cut.
`LogAssumption` says that blocks are not empty and that a record has at least a
type, a length and a checksum. The inductive `Inv` has, besides types:

- `Cells`: each cell of the file is zero or the cell that a record which begins at a
  block has at that offset. So two whole records never share a cell, and what lies
  between them is padding, zeros or pieces of records that are not whole;
- `Layout`: the records of this start lie one behind the other, behind the file that
  the start found, and those in flight behind what is stable. So no write reaches
  into a record that an earlier start left. In a log that was cut inside a block
  every offset is unaligned and no write gets into the file;
- `Landed` and `Promised`: a write that completed without a failure is whole, and
  what a sync promised is whole within the stable part, which a crash keeps;
- `Reading`: recovery stands at a block boundary and has returned exactly the whole
  records that begin before it, in order. It is kept because whole records begin at
  multiples of a block, and multiples are a block apart (`MultiplesApart`): none
  begins in the block that is skipped after padding or damage, nor inside a record
  that is accepted.

At the end of recovery `Reading` is `RecoverExact`, and with `Promised` it gives
`AckedRecovered`. `LeastFact`, that a set of numbers has a least element, is a
hypothesis of the lemmas that use `Max` and is proved from the library at the end.

### The engine

The argument has two halves that meet in `LSMTableFacts`. `TablesKeepPromises` is
what the operators on tables and logs promise: a lookup returns the newest entry,
replay the last record of a key, loading puts the files of a directory in one
order, a new number is past all listed ones, the outputs of a merge hold exactly
the live entries of its inputs, and lost unstable records leave a value within
bounds (`Bounded`). `LSMEngineSteps` takes these promises as a hypothesis and shows
that each step of the engine keeps the invariant; `LSMEngineProofs` proves the
promises and puts the two together.

The invariant (`LSMInvariant`) has layers, and each theorem uses only those it
needs, with the faults that those allow:

- `TablesInv`, under every fault: where the mutator is, types, the list in load
  order with its files as they were opened, and the outputs of a compaction past
  every listed name, on disk exactly as far as they have been published. It gives
  `EngineTyped` and `TablesIntact`.
- `Residue`: the directory holds the listed tables and what the running flush or
  compaction has written so far. Needs that no table is orphaned and every input
  can be removed. Gives `DirectoryExact`.
- `Reads`: the table just listed is the memtable, the outputs are a merge of the
  inputs, so no step of a flush or compaction changes a read. Needs that inputs can
  be reopened. Gives `ReadsStable`.
- `Logged`: the log replays to the memtable. Needs that no append throws with its
  record in the log. With `Residue` it gives `SnapshotExact`.
- `Doubts`, in its place where appends may throw: the log replays to the memtable
  but for values of calls that threw. With `DiskShows` (the files show what the
  list shows, also halfway through the removal of inputs, which is why the oldest
  goes first) and `Safe` (whichever unstable records a crash loses, each key has a
  value in `may`) it gives `CrashIsSafe`, and step by step `EngineImplements`: each
  action is an action of `KVStore` or leaves what callers see alone.

`CrashIsSafe` and `EngineImplements` exclude three faults: a table orphaned by a
flush, an input that cannot be reopened, an input that cannot be removed. With any
one of them alone TLC finds `CrashSafe` violated, so none can be dropped. All the
others (failed appends, writes, syncs, flushes, log replacements and publications,
and a crash at any step) are allowed, in any number.

### Scans and the compaction's merge

For every number of keys, tables and entries per file, every content of tables
and memtable, and every range and limit. `ScanAssumption` says of the constants
that start keys are keys, and that values are not the marks `Tomb` and `Miss`.

Both loops have the same shape of invariant (`Inv`). Between rounds there is a key
`b` such that every source is at its first entry not before `b` (`Placed`) and the
result is complete below `b` (`Returned`, `Merged`). Within a round every source is
either still at the winner's key or at its first entry after it (`Passing`), and
the winner's value is what a point read finds, since of equal keys the newest
source is on top. A scan needs in addition that the tables it skipped hold nothing
in its range (`Opened`), and that no writer comes between (the lock, `Unlocked`). The
merge keeps the sizes (`Filled`): every table it has written is full while entries
remain. `ReadsKept` follows at `MergeEnds`, where `b` is past every key: of a key at
most one output has an entry, the live one of the inputs, and a deletion may be
dropped because all tables take part.

This replaces an induction over the contents of tables: the loop's own steps are
the induction. `SetFacts`, the few facts about least elements and sizes of finite
sets that the proofs use, is a hypothesis of the lemmas and is proved from the
library in the last section (`SetFactsHold`).

### The skip list

For every number of threads, nodes, keys, levels and calls. The inductive
`ListInv` has the list itself (`List`: links ascend, and skip no node of their
level), what each search has established (`Search`: its predecessors are linked and
before the key, its successors linked and not before it, although both may be
stale), and who owns a half-linked node (`Owners`). Nodes are never unlinked, so
stale neighbours stay good as bounds; a CAS that succeeds shows that they are still
adjacent, and then linking between them keeps `List`: that is the one lemma about a
splice (`Splice`), used for level 0 and for the levels above. `SearchExact` follows
from `List` at the last load.

The results of calls rest on that structure. `CallInv` says that a lookup under way
has seen what its key now holds and that a node it found is the one of its key
(`Answer`, `Hit`), and that an iterator at a node has yielded all it owes below that
node's key (`Walk`); `SeenStep` shows that whatever a step of another thread does to
a key is recorded for those who look it up. `ExactCount` counts with the library's
theorems on finite sets, which is why `ListAssumption` says that the threads are
finitely many.

### The block search

`FindsBlock` holds for every index, key and number of readers. The loop invariant
`Narrowed`: what lies beyond `hi` begins after the key, and the block at `lo`,
unless it is the first, does not. It is inductive only because tables are not
destroyed under a reader (`NoReader`, the engine's lock).

### The arena

For every block size, request size, alignment and placement of blocks. The
inductive `ArenaInv` adds to `Disjoint` and `Aligned` that blocks do not overlap and
that the regions of the current block end before `offset_`. `ArenaAssumption` says
that memory ends within `size_t`. `ObjectInv` gives every constructed object
exactly one owner: the thread that is creating it, the list of destructors, or
nobody once a throw has cut its registration short. `DestroysOnce` follows, because
the arena is destroyed when no thread holds anything.

### Only model-checked

- Liveness (`CallsEnd` of the log and of the skip list, `SearchesEnd`,
  `RecoveryEnds`): fairness is out of the prover's reach.
- Table files and the cache: `ReadsExact`, `CacheCoherent`, `CacheSound` and `TypeOK`
  of `SSTable`. The layout is computed by recursive functions and sums, and the cache
  is a filtered sequence whose contents need induction as well.
- The byte total of the memtable (the second conjunct of `TotalsExact`), a sum over
  the nodes of the list.
- The two violations: TLC shows a counterexample, nothing is proved about them but
  that the theorems hold when the fault is excluded.

## Not modelled

- Two processes: the directory lock and the order of destruction.
  `~LSMEngine()` releases the lock before the log is drained, so another process
  may open the log in between; nothing in the code says what should happen then.
- A directory whose entries become durable only by a sync, and so power loss.
- A removal that fails during the undo of a failed publication (two independent
  failures in one compaction).
- Refusals of malformed table files; `readAll()`, the moves of `SSTable` and
  `BlockCache::clear()`, which the engine does not call.
- Record encoding, CRC and hash arithmetic, weak memory orders, random height
  distribution, performance counters, logging, the command-line tool and the
  benchmarks.
