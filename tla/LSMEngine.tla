----------------------------- MODULE LSMEngine -----------------------------
(***************************************************************************)
(* The storage lifecycle of src/src/db/lsm_engine.cpp with the compactor:  *)
(* put and del through the log and the memtable, memtable flush, leveled   *)
(* compaction, and what a restart rebuilds from the files, with a crash    *)
(* or an I/O error between any two of their steps.                         *)
(*                                                                         *)
(* Mutators hold mu_ exclusively, so their steps form one sequence; the    *)
(* concurrent part of a write, waiting for group commit, is module WAL.    *)
(* Here the log is a sequence of records that are stable or not.           *)
(***************************************************************************)
EXTENDS LSMTables

CONSTANTS
  Durable,       \* TRUE for Durability::Durable, FALSE for Async
  L0_THRESHOLD,  \* level-0 tables that trigger a compaction
  Faults,        \* which faults may occur: see EngineFaults
  MaxOps,        \* bound: calls of put, del, flush and sync
  MaxFaults      \* bound: faults in one behaviour

EngineFaults ==
  {"append",    \* appendPut/appendDel throws with the record in the log
   "write",     \* a record's write fails: the log has a hole
   "sync",      \* fdatasync fails
   "flush",     \* flushMemtable throws, leaving no unlisted table
   "orphan",    \* SSTable::write throws after its rename, or the open fails
   "clear",     \* WAL::clear throws
   "compact",   \* merging or publishing throws
   "iterator",  \* a compaction input cannot be reopened
   "remove",    \* a compacted input cannot be removed
   "crash"}     \* the process dies

ASSUME EngineAssumption ==
  /\ Durable \in BOOLEAN
  /\ L0_THRESHOLD \in Nat \ {0}
  /\ Faults \subseteq EngineFaults
  /\ MaxOps \in Nat /\ MaxFaults \in Nat

VARIABLES
  pc,        \* where the mutator is; "idle", "down", or "broken"
  op,        \* its call
  mem,       \* *memtable_
  log,       \* the log's records, oldest first
  walFailed, \* WAL::failure_ is set
  disk,      \* the tables in the data directory, by name <<level, counter>>
  sstables,  \* sstables_: the open tables, oldest first
  counter,   \* sst_counter_
  staged,    \* run()'s `staged`: the compaction's outputs
  done,      \* outputs published, or inputs removed, so far
  may,       \* what each key may be found to hold after a crash
  doubt,     \* values of calls that threw, by key
  ops, faults   \* calls and faults so far

dataVars  == <<mem, log, walFailed>>
tableVars == <<disk, sstables, counter>>
compVars  == <<staged, done>>
ghostVars == <<may, doubt>>
vars == <<pc, op, dataVars, tableVars, compVars, ghostVars, ops, faults>>

-----------------------------------------------------------------------------
get(k) == Read(mem, sstables, k)

(* What opening the directory as it is would show.                         *)
Recovered(k) == Read(recoverFromWAL(log), loadSSTables(disk), k)

NoOp == [kind |-> "none"]
PutOp(k, v) == [kind |-> "put", key |-> k, val |-> v]

Init ==
  /\ pc = "idle" /\ op = NoOp
  /\ mem = Empty /\ log = <<>> /\ walFailed = FALSE
  /\ disk = <<>> /\ sstables = <<>> /\ counter = 0
  /\ staged = <<>> /\ done = 0
  /\ may = [k \in Keys |-> {Absent}] /\ doubt = [k \in Keys |-> {}]
  /\ ops = 0 /\ faults = 0

(* The environment may produce, and here produces, a fault of this kind.    *)
Fault(kind) ==
  /\ kind \in Faults /\ faults < MaxFaults
  /\ faults' = faults + 1

(* The call throws.  The destructor swallows what its flush throws.        *)
Unwind ==
  /\ pc' = IF op.kind = "close" THEN "closing" ELSE "idle"
  /\ op' = IF op.kind = "close" THEN op ELSE NoOp
  /\ doubt' = IF op.kind = "put" THEN [doubt EXCEPT ![op.key] = @ \cup {Live(op.val)}]
              ELSE doubt
  /\ UNCHANGED may

(* flushMemtable() returns to put(), del(), flush() or the destructor.     *)
AfterFlush == CASE op.kind = "put" -> "ack"
                [] op.kind = "flush" -> "idle"
                [] op.kind = "close" -> "closing"

-----------------------------------------------------------------------------
(* put() and del().                                                        *)

AppendEntry(k, v) ==
  /\ pc = "idle" /\ ops < MaxOps /\ ~walFailed
  /\ log' = Append(log, [key |-> k, val |-> v, stable |-> FALSE])
  /\ op' = PutOp(k, v)
  /\ pc' = "logged"
  /\ may' = [may EXCEPT ![k] = @ \cup {Live(v)}]
  /\ ops' = ops + 1
  /\ UNCHANGED <<mem, walFailed, tableVars, compVars, doubt, faults>>

AppendThrows ==
  /\ pc = "logged" /\ Fault("append")
  /\ Unwind
  /\ UNCHANGED <<dataVars, tableVars, compVars, ops>>

(* The memtable takes the entry; it may now be full.                       *)
MemtablePut ==
  /\ pc = "logged"
  /\ mem' = [mem EXCEPT ![op.key] = op.val]
  /\ pc' \in {"ack", "flush"}
  /\ UNCHANGED <<op, log, walFailed, tableVars, compVars, ghostVars, ops, faults>>

(* Durable: waitDurable() has made the log stable, or there is a new log.  *)
Ack ==
  /\ pc = "ack"
  /\ Durable => ~walFailed
  /\ log' = IF Durable THEN Stable(log) ELSE log
  /\ may' = IF Durable THEN [may EXCEPT ![op.key] = {Live(op.val)}] ELSE may
  /\ doubt' = [doubt EXCEPT ![op.key] = {}]
  /\ op' = NoOp /\ pc' = "idle"
  /\ UNCHANGED <<mem, walFailed, tableVars, compVars, ops, faults>>

AckThrows ==
  /\ pc = "ack" /\ Durable
  /\ (walFailed /\ UNCHANGED faults) \/ (log # <<>> /\ Fault("sync"))
  /\ Unwind
  /\ UNCHANGED <<dataVars, tableVars, compVars, ops>>

(* sync(); one that throws changes nothing.                                *)
Sync ==
  /\ pc = "idle" /\ ops < MaxOps /\ ~walFailed
  /\ log' = Stable(log)
  /\ may' = [k \in Keys |-> {get(k)} \cup doubt[k]]
  /\ ops' = ops + 1
  /\ UNCHANGED <<pc, op, mem, walFailed, tableVars, compVars, doubt, faults>>

(* A record's write fails for good: reap() records it and the record is    *)
(* not in the log.                                                         *)
WriteFails ==
  /\ Fault("write") /\ pc # "down"
  /\ \E i \in DOMAIN log :
       /\ ~log[i].stable
       /\ log' = Without(log, {i})
  /\ walFailed' = TRUE
  /\ UNCHANGED <<pc, op, mem, tableVars, compVars, ghostVars, ops>>

-----------------------------------------------------------------------------
(* flush(), ~LSMEngine() and flushMemtable().                              *)

Flush ==
  /\ pc = "idle" /\ ops < MaxOps /\ mem # Empty
  /\ op' = [kind |-> "flush"] /\ pc' = "flush"
  /\ ops' = ops + 1
  /\ UNCHANGED <<dataVars, tableVars, compVars, ghostVars, faults>>

Close ==
  /\ pc = "idle"
  /\ op' = [kind |-> "close"]
  /\ pc' = IF mem # Empty THEN "flush" ELSE "closing"
  /\ UNCHANGED <<dataVars, tableVars, compVars, ghostVars, ops, faults>>

(* Before a table has its name: nothing has changed but the counter.       *)
FlushThrows ==
  /\ pc = "flush" /\ Fault("flush")
  /\ counter' \in {counter, counter + 1}
  /\ Unwind
  /\ UNCHANGED <<dataVars, disk, sstables, compVars, ops>>

(* SSTable::write(): the table is renamed to its name.                     *)
WriteTable ==
  /\ pc = "flush"
  /\ disk' = Renamed(disk, <<0, counter>>, mem)
  /\ counter' = counter + 1
  /\ pc' = "written"
  /\ UNCHANGED <<op, dataVars, sstables, compVars, ghostVars, ops, faults>>

(* The directory cannot be synced, or the table not opened.                *)
WriteOrphans ==
  /\ pc = "written" /\ Fault("orphan")
  /\ Unwind
  /\ UNCHANGED <<dataVars, tableVars, compVars, ops>>

OpenTable ==
  /\ pc = "written"
  /\ sstables' = Append(sstables, [name |-> <<0, counter - 1>>, data |-> mem])
  /\ pc' = "registered"
  /\ UNCHANGED <<op, dataVars, disk, counter, compVars, ghostVars, ops, faults>>

RegisteredThrows ==
  /\ pc = "registered" /\ Fault("flush")
  /\ Unwind
  /\ UNCHANGED <<dataVars, tableVars, compVars, ops>>

(* wal_.clear() and the new memtable.                                      *)
ClearLog ==
  /\ pc = "registered"
  /\ log' = <<>> /\ walFailed' = FALSE /\ mem' = Empty
  /\ may' = [k \in Keys |-> {get(k)}]
  /\ doubt' = [k \in Keys |-> {}]
  /\ pc' = "cleared"
  /\ UNCHANGED <<op, tableVars, compVars, ops, faults>>

(* clear() throws: the log may be gone, and no call can use the WAL again. *)
ClearThrows ==
  /\ pc = "registered" /\ Fault("clear")
  /\ log' \in {log, <<>>}
  /\ doubt' = IF op.kind = "put" THEN [doubt EXCEPT ![op.key] = @ \cup {Live(op.val)}]
              ELSE doubt
  /\ op' = NoOp /\ pc' = "broken"
  /\ UNCHANGED <<mem, walFailed, tableVars, compVars, may, ops>>

ClearedThrows ==
  /\ pc = "cleared" /\ Fault("flush")
  /\ Unwind
  /\ UNCHANGED <<dataVars, tableVars, compVars, ops>>

-----------------------------------------------------------------------------
(* LeveledCompactor::run().                                                *)

L0Tables == {i \in DOMAIN sstables : sstables[i].name[1] = 0}

NoCompaction ==
  /\ pc = "cleared" /\ Cardinality(L0Tables) < L0_THRESHOLD
  /\ pc' = AfterFlush
  /\ op' = IF op.kind = "flush" THEN NoOp ELSE op
  /\ UNCHANGED <<dataVars, tableVars, compVars, ghostVars, ops, faults>>

(* The compaction reads its inputs and stages its outputs.                 *)
Merge ==
  /\ pc = "cleared" /\ Cardinality(L0Tables) >= L0_THRESHOLD
  /\ \/ staged' = Outputs(sstables, disk, {}) /\ UNCHANGED faults
     \/ Fault("iterator") /\ \E i \in DOMAIN sstables : staged' = Outputs(sstables, disk, {i})
  /\ done' = 0
  /\ pc' = "publish"
  /\ UNCHANGED <<op, dataVars, tableVars, ghostVars, ops>>

(* Mutant: what was published stays.                                       *)
CompactionThrowsDirty ==
  /\ pc = "publish" /\ Fault("compact")
  /\ staged' = <<>> /\ done' = 0
  /\ pc' = "undo"
  /\ UNCHANGED <<op, dataVars, tableVars, ghostVars, ops>>

(* A rename, an open or the merge itself throws: what was published is     *)
(* removed again, one file at a time.                                      *)
CompactionThrows ==
  /\ pc = "publish" /\ Fault("compact")
  /\ staged' = SubSeq(staged, 1, done)
  /\ done' = 0
  /\ pc' = "undo"
  /\ UNCHANGED <<op, dataVars, tableVars, ghostVars, ops>>

Undo ==
  /\ pc = "undo" /\ done < Len(staged)
  /\ disk' = Removed(disk, staged[done + 1].name)
  /\ done' = done + 1
  /\ UNCHANGED <<pc, op, dataVars, sstables, counter, staged, ghostVars, ops, faults>>

Undone ==
  /\ pc = "undo" /\ done = Len(staged)
  /\ Unwind
  /\ staged' = <<>> /\ done' = 0
  /\ UNCHANGED <<dataVars, tableVars, ops, faults>>

Publish ==
  /\ pc = "publish" /\ done < Len(staged)
  /\ disk' = Renamed(disk, staged[done + 1].name, staged[done + 1].data)
  /\ done' = done + 1
  /\ UNCHANGED <<pc, op, dataVars, sstables, counter, staged, ghostVars, ops, faults>>

(* The outputs are open: from here on the inputs are removed.              *)
Published ==
  /\ pc = "publish" /\ done = Len(staged)
  /\ done' = 0
  /\ pc' = "remove"
  /\ UNCHANGED <<op, dataVars, tableVars, staged, ghostVars, ops, faults>>

(* Mutant: the newest input goes first.                                    *)
RemoveNewestFirst ==
  /\ pc = "remove" /\ done < Len(sstables)
  /\ disk' = Removed(disk, sstables[Len(sstables) - done].name)
  /\ done' = done + 1
  /\ UNCHANGED <<pc, op, dataVars, sstables, counter, staged, ghostVars, ops, faults>>

(* A failed removal is only reported.                                      *)
RemoveInput ==
  /\ pc = "remove" /\ done < Len(sstables)
  /\ \/ /\ disk' = Removed(disk, sstables[done + 1].name)
        /\ UNCHANGED faults
     \/ Fault("remove") /\ UNCHANGED disk
  /\ done' = done + 1
  /\ UNCHANGED <<pc, op, dataVars, sstables, counter, staged, ghostVars, ops>>

FinishCompaction ==
  /\ pc = "remove" /\ done = Len(sstables)
  /\ sstables' = staged
  /\ counter' = 0
  /\ staged' = <<>> /\ done' = 0
  /\ pc' = AfterFlush
  /\ op' = IF op.kind = "flush" THEN NoOp ELSE op
  /\ UNCHANGED <<dataVars, disk, ghostVars, ops, faults>>

-----------------------------------------------------------------------------
(* The end of a process and the start of the next one.                     *)

ProcessEnds ==
  /\ pc' = "down" /\ op' = NoOp
  /\ mem' = Empty /\ walFailed' = FALSE
  /\ sstables' = <<>> /\ counter' = 0
  /\ staged' = <<>> /\ done' = 0
  /\ doubt' = [k \in Keys |-> {}]
  /\ UNCHANGED <<disk, may>>

(* ~WAL() drains the ring and syncs the log, the latter unchecked.         *)
Closed ==
  /\ pc = "closing"
  /\ \/ log' = Stable(log) /\ UNCHANGED faults
     \/ Fault("sync") /\ UNCHANGED log
  /\ ProcessEnds
  /\ UNCHANGED ops

(* Any record that is not stable may be lost, whatever follows it.  With   *)
(* the WAL broken there is no other end.                                   *)
Crash ==
  /\ pc # "down"
  /\ Fault("crash") \/ (pc = "broken" /\ UNCHANGED faults)
  /\ \E lost \in SUBSET {i \in DOMAIN log : ~log[i].stable} :
       log' = Without(log, lost)
  /\ ProcessEnds
  /\ UNCHANGED ops

(* LSMEngine::LSMEngine(): replay the log, load the tables.                *)
Open ==
  /\ pc = "down"
  /\ mem' = recoverFromWAL(log)
  /\ sstables' = loadSSTables(disk)
  /\ counter' = NextCounter(DOMAIN disk, 0)
  /\ pc' = "idle"
  /\ UNCHANGED <<op, log, walFailed, disk, compVars, ghostVars, ops, faults>>

Next ==
  \/ \E k \in Keys, v \in Values \cup {Tomb} : AppendEntry(k, v)
  \/ AppendThrows \/ MemtablePut \/ Ack \/ AckThrows \/ Sync \/ WriteFails
  \/ Flush \/ Close \/ FlushThrows \/ WriteTable \/ WriteOrphans \/ OpenTable
  \/ RegisteredThrows \/ ClearLog \/ ClearThrows \/ ClearedThrows
  \/ NoCompaction \/ Merge \/ CompactionThrows \/ Undo \/ Undone \/ Publish
  \/ Published \/ RemoveInput \/ FinishCompaction
  \/ Closed \/ Crash \/ Open

Spec == Init /\ [][Next]_vars

-----------------------------------------------------------------------------
(* Properties.                                                             *)

(* Every variable has its type.                                            *)
TypeOK ==
  /\ pc \in {"idle", "down", "broken", "logged", "ack", "flush", "written",
             "registered", "cleared", "publish", "undo", "remove", "closing"}
  /\ op.kind \in {"none", "put", "flush", "close"}
  /\ op.kind = "put" => op.key \in Keys /\ op.val \in Values \cup {Tomb}
  /\ mem \in Tables
  /\ \A i \in DOMAIN log : log[i] \in Records
  /\ walFailed \in BOOLEAN
  /\ DOMAIN disk \subseteq Names /\ \A f \in DOMAIN disk : disk[f] \in Tables
  /\ \A i \in DOMAIN sstables : sstables[i] \in TableRecs
  /\ \A i \in DOMAIN staged : staged[i] \in TableRecs
  /\ counter \in Nat /\ done \in Nat
  /\ may \in [Keys -> SUBSET (Values \cup {Absent})]
  /\ doubt \in [Keys -> SUBSET (Values \cup {Absent})]

(* What a reader is shown: get() while the engine is open, otherwise what  *)
(* opening it again will show.                                             *)
Shown == [k \in Keys |-> IF pc = "down" THEN Recovered(k) ELSE get(k)]

KV == INSTANCE KVStore
        WITH kv <- Shown,
             call <- IF op.kind = "put" THEN <<op.key, Live(op.val)>> ELSE <<>>

(* The engine implements the dictionary with bounded loss: flushes,        *)
(* compactions and restarts are invisible, and a crash at any of their     *)
(* steps leaves each key with a value its callers were told to expect.     *)
Implements == KV!Spec

(* The data directory opened as it is, its log complete, shows for each    *)
(* key what the contract of put(), sync() and flush() allows.              *)
CrashSafe == \A k \in Keys : Recovered(k) \in may[k]

(* Between calls a copy of the data directory, its log complete, opens to  *)
(* exactly what the live engine shows.  (In Async mode the copy of a log   *)
(* with writes in flight may lack them, and a sync() comes first.)  Said   *)
(* of faults that leave neither a stray record nor a stray table: no       *)
(* "append", "orphan" or "remove".                                         *)
SnapshotMatchesLive ==
  pc = "idle" /\ ~walFailed => \A k \in Keys : Recovered(k) = get(k)

(* Between calls the directory holds the listed tables and no others: a    *)
(* flush or compaction that failed, or was cut off by a crash before the   *)
(* restart, leaves nothing that could shadow newer data later.  Excepted   *)
(* are the faults that leave a table by themselves: a flush that throws    *)
(* after the rename ("orphan"), an input that cannot be removed ("remove").*)
NoResidue ==
  pc = "idle" => DOMAIN disk = ListNames(sstables)

(* The file under a listed table's name is the one that was opened,        *)
(* although compactions reset the counter, restarts recompute it, and      *)
(* unlisted tables may be in the way: compactions read their inputs again  *)
(* by name and remove them by name.                                        *)
ListedTablesIntact ==
  \A i \in DOMAIN sstables :
    LET f == sstables[i].name
    IN  /\ \A j \in DOMAIN sstables \ {i} : sstables[j].name # f
        /\ (pc = "remove" => i > done) => f \in DOMAIN disk /\ disk[f] = sstables[i].data

(* While the engine is open only the memtable insert of a put or del       *)
(* changes what readers see: no step of a flush or compaction does,        *)
(* whether it succeeds or fails.                                           *)
ReadsFollowCalls ==
  [][pc # "down" /\ pc' # "down" =>
       \A k \in Keys : get(k)' # get(k) =>
         pc = "logged" /\ k = op.key /\ get(k)' = Live(op.val)]_vars

=============================================================================
