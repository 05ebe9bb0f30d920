--------------------------- MODULE LSMEngineSteps ---------------------------
(***************************************************************************)
(* Every step of LSMEngine keeps the layers of its invariant: the types,   *)
(* the tables in order and intact and the directory free of anything else, *)
(* then what reads show and what the log and the files would show after a  *)
(* crash; and every step implements one of KVStore's.                      *)
(***************************************************************************)
EXTENDS LSMInvariant, TLAPS

(* The kinds of the calls in progress.                                     *)
LEMMA OpKinds ==
  /\ NoOp.kind = "none" /\ FlushOp.kind = "flush" /\ CloseOp.kind = "close"
  /\ \A o \in PutOps : o.kind = "put" /\ o.key \in Keys /\ o.val \in Values \cup {Tomb}
  BY Zenon DEF NoOp, FlushOp, CloseOp, PutOps

(* What a reader is shown is a value or that there is none.                *)
LEMMA CellShown ==
  ASSUME NEW c \in Cells
  PROVE  Live(c) \in Shows
  BY Zenon DEF Cells, Live, Shows

(* The call in progress follows pc.                                        *)
LEMMA ControlInit == Init => Control
  BY Zenon DEF Init, Control, Comp

(* Every step leaves the mutator somewhere in the call it is in.           *)
LEMMA ControlStep == Control /\ [Next]_vars => Control'
<1> SUFFICES ASSUME Control, [Next]_vars PROVE Control'
  BY Zenon
<1> USE DEF Control, Comp
<1>1. CASE UNCHANGED vars
  BY <1>1, Zenon DEF vars
<1>2. ASSUME NEW k \in Keys, NEW v \in Values \cup {Tomb}, AppendEntry(k, v) PROVE Control'
  BY <1>2, Zenon DEF AppendEntry, PutOp, PutOps
<1>3. CASE AppendThrows
  BY <1>3, OpKinds, Zenon DEF AppendThrows, Unwind
<1>4. CASE MemtablePut
  BY <1>4, Zenon DEF MemtablePut
<1>5. CASE Ack
  BY <1>5, Zenon DEF Ack
<1>6. CASE AckThrows
  BY <1>6, OpKinds, Zenon DEF AckThrows, Unwind
<1>7. CASE Sync
  BY <1>7, Zenon DEF Sync
<1>8. CASE WriteFails
  BY <1>8, Zenon DEF WriteFails
<1>9. CASE Flush
  BY <1>9, Zenon DEF Flush, FlushOp
<1>10. CASE Close
  BY <1>10, Zenon DEF Close, CloseOp
<1>11. CASE FlushThrows
  BY <1>11, OpKinds, Zenon DEF FlushThrows, Unwind
<1>12. CASE WriteTable
  BY <1>12, Zenon DEF WriteTable
<1>13. CASE WriteOrphans
  BY <1>13, OpKinds, Zenon DEF WriteOrphans, Unwind
<1>14. CASE OpenTable
  BY <1>14, Zenon DEF OpenTable
<1>15. CASE RegisteredThrows
  BY <1>15, OpKinds, Zenon DEF RegisteredThrows, Unwind
<1>16. CASE ClearLog
  BY <1>16, Zenon DEF ClearLog
<1>17. CASE ClearThrows
  BY <1>17, Zenon DEF ClearThrows
<1>18. CASE ClearedThrows
  BY <1>18, OpKinds, Zenon DEF ClearedThrows, Unwind
<1>19. CASE NoCompaction
  BY <1>19, OpKinds, Zenon DEF NoCompaction, AfterFlush
<1>20. CASE Merge
  BY <1>20, Zenon DEF Merge
<1>21. CASE CompactionThrows
  BY <1>21, Zenon DEF CompactionThrows
<1>22. CASE Undo
  BY <1>22, Zenon DEF Undo
<1>23. CASE Undone
  BY <1>23, OpKinds, Zenon DEF Undone, Unwind
<1>24. CASE Publish
  BY <1>24, Zenon DEF Publish
<1>25. CASE Published
  BY <1>25, Zenon DEF Published
<1>26. CASE RemoveInput
  BY <1>26, Zenon DEF RemoveInput
<1>27. CASE FinishCompaction
  BY <1>27, OpKinds, Zenon DEF FinishCompaction, AfterFlush
<1>28. CASE Closed
  BY <1>28, Zenon DEF Closed, ProcessEnds
<1>29. CASE Crash
  BY <1>29, Zenon DEF Crash, ProcessEnds
<1>30. CASE Open
  BY <1>30, Zenon DEF Open
<1> QED
  BY <1>1, <1>2, <1>3, <1>4, <1>5, <1>6, <1>7, <1>8, <1>9, <1>10, <1>11,
     <1>12, <1>13,
     <1>14, <1>15, <1>16, <1>17, <1>18, <1>19, <1>20, <1>21, <1>22, <1>23,
     <1>24, <1>25,
     <1>26, <1>27, <1>28, <1>29, <1>30, Zenon DEF Next

(* A call that throws widens may and doubt within their types.             *)
LEMMA UnwindTyped ==
  ASSUME Types, op \in PutOps \cup {NoOp, FlushOp, CloseOp}, Unwind
  PROVE  may' \in [Keys -> SUBSET Shows] /\ doubt' \in [Keys -> SUBSET Shows]
<1>1. CASE op.kind = "put"
  <2>1. op.key \in Keys /\ Live(op.val) \in Shows
    BY <1>1, OpKinds, CellShown, Zenon DEF Cells
  <2> QED
    BY <1>1, <2>1, Zenon DEF Types, Unwind
<1>2. CASE op.kind # "put"
  BY <1>2, Zenon DEF Types, Unwind
<1> QED
  BY <1>1, <1>2, Zenon

(* get() returns a value or that there is none.                            *)
LEMMA GetTyped ==
  ASSUME TableFacts, Types
  PROVE  \A k \in Keys : get(k) \in Shows
  BY Zenon DEF get, Types, TableFacts, ReadTypedFact

(* A rename changes the table under one name only.                         *)
LEMMA RenamedDisk ==
  ASSUME NEW f, NEW t
  PROVE  /\ DOMAIN Renamed(disk, f, t) = DOMAIN disk \cup {f}
         /\ Renamed(disk, f, t)[f] = t
         /\ \A g \in DOMAIN disk : g # f => Renamed(disk, f, t)[g] = disk[g]
  BY Zenon DEF Renamed

(* The first start has the right types.                                    *)
LEMMA TypesInit ==
  ASSUME TableFacts, Init
  PROVE  Types
<1>1. Files(disk)
  BY Zenon DEF Init, TableFacts, NoFilesFact
<1>2. mem \in Tables
  BY Zenon DEF Init, Tables, Empty, Cells
<1>3. log \in Seq(Records) /\ sstables \in Seq(TableRecs) /\ staged \in Seq(TableRecs)
  BY DEF Init
<1>4. may \in [Keys -> SUBSET Shows] /\ doubt \in [Keys -> SUBSET Shows]
  BY Zenon DEF Init, Shows
<1> QED
  BY <1>1, <1>2, <1>3, <1>4, Zenon DEF Init, Types

(* What the steps that touch no table do to the rest.                      *)
LEMMA TypesCalls ==
  ASSUME TableFacts, Types, Control,
         \/ \E k \in Keys, v \in Values \cup {Tomb} : AppendEntry(k, v)
         \/ AppendThrows \/ MemtablePut \/ Ack \/ AckThrows \/ Sync \/ WriteFails
         \/ Flush \/ Close
  PROVE  Types'
<1>1. ASSUME NEW k \in Keys, NEW v \in Values \cup {Tomb}, AppendEntry(k, v) PROVE Types'
  <2>1. log' \in Seq(Records)
    <3>1. [key |-> k, val |-> v, stable |-> FALSE] \in Records
      BY Zenon DEF Records
    <3> QED
      BY <1>1, <3>1 DEF AppendEntry, Types
  <2>2. may' \in [Keys -> SUBSET Shows]
    <3>1. Live(v) \in Shows
      BY CellShown, Zenon DEF Cells
    <3> QED
      BY <1>1, <3>1, Zenon DEF AppendEntry, Types
  <2> QED
    BY <1>1, <2>1, <2>2, Zenon DEF AppendEntry, Types, tableVars, compVars
<1>2. CASE AppendThrows
  <2>1. may' \in [Keys -> SUBSET Shows] /\ doubt' \in [Keys -> SUBSET Shows]
    BY <1>2, UnwindTyped, Zenon DEF AppendThrows, Control
  <2> QED
    BY <1>2, <2>1, Zenon DEF AppendThrows, Types, dataVars, tableVars, compVars
<1>3. CASE MemtablePut
  <2>1. op.key \in Keys /\ op.val \in Cells
    BY <1>3, OpKinds, Zenon DEF MemtablePut, Control, Cells
  <2>2. mem' \in Tables
    BY <1>3, <2>1, Zenon DEF MemtablePut, Types, Tables
  <2> QED
    BY <1>3, <2>2, Zenon DEF MemtablePut, Types, tableVars, compVars, ghostVars
<1>4. CASE Ack
  <2>1. op.key \in Keys /\ op.val \in Cells /\ Live(op.val) \in Shows
    BY <1>4, OpKinds, CellShown, Zenon DEF Ack, Control, Cells
  <2>2. log' \in Seq(Records)
    BY <1>4, Zenon DEF Ack, Types, TableFacts, LogTypedFact
  <2>3. may' \in [Keys -> SUBSET Shows] /\ doubt' \in [Keys -> SUBSET Shows]
    BY <1>4, <2>1, Zenon DEF Ack, Types
  <2> QED
    BY <1>4, <2>2, <2>3, Zenon DEF Ack, Types, tableVars, compVars
<1>5. CASE AckThrows
  <2>1. may' \in [Keys -> SUBSET Shows] /\ doubt' \in [Keys -> SUBSET Shows]
    BY <1>5, UnwindTyped, Zenon DEF AckThrows, Control
  <2> QED
    BY <1>5, <2>1, Zenon DEF AckThrows, Types, dataVars, tableVars, compVars
<1>6. CASE Sync
  <2>1. log' \in Seq(Records)
    BY <1>6, Zenon DEF Sync, Types, TableFacts, LogTypedFact
  <2>2. may' \in [Keys -> SUBSET Shows]
    BY <1>6, GetTyped, Zenon DEF Sync, Types
  <2> QED
    BY <1>6, <2>1, <2>2, Zenon DEF Sync, Types, tableVars, compVars
<1>7. CASE WriteFails
  <2>1. log' \in Seq(Records)
    BY <1>7, Zenon DEF WriteFails, Types, TableFacts, LogTypedFact
  <2> QED
    BY <1>7, <2>1, Zenon DEF WriteFails, Types, tableVars, compVars, ghostVars
<1>8. CASE Flush \/ Close
  BY <1>8, Zenon DEF Flush, Close, Types, dataVars, tableVars, compVars,
     ghostVars
<1> QED
  BY <1>1, <1>2, <1>3, <1>4, <1>5, <1>6, <1>7, <1>8, Zenon

(* The steps of a flush keep the types.                                    *)
LEMMA TypesFlush ==
  ASSUME TableFacts, Types, Control,
         \/ FlushThrows \/ WriteTable \/ WriteOrphans \/ OpenTable
         \/ RegisteredThrows \/ ClearLog \/ ClearThrows \/ ClearedThrows
         \/ NoCompaction,
         pc = "written" => counter > 0
  PROVE  Types'
<1>1. CASE FlushThrows \/ WriteOrphans \/ RegisteredThrows \/ ClearedThrows
  <2>1. may' \in [Keys -> SUBSET Shows] /\ doubt' \in [Keys -> SUBSET Shows]
    BY <1>1, UnwindTyped, Zenon DEF FlushThrows, WriteOrphans,
       RegisteredThrows, ClearedThrows,
                             Control
  <2>2. counter' \in Nat
    BY <1>1 DEF Types, FlushThrows, WriteOrphans, RegisteredThrows,
       ClearedThrows, tableVars
  <2> QED
    BY <1>1, <2>1, <2>2, Zenon DEF FlushThrows, WriteOrphans,
       RegisteredThrows, ClearedThrows, Types,
                            dataVars, tableVars, compVars
<1>2. CASE WriteTable
  <2>1. <<0, counter>> \in Names
    BY Zenon DEF Names, Types
  <2>2. Files(disk')
    BY <1>2, <2>1, Zenon DEF WriteTable, Types, TableFacts, RenamedFact
  <2>3. counter' \in Nat
    BY <1>2 DEF WriteTable, Types
  <2> QED
    BY <1>2, <2>2, <2>3, Zenon DEF WriteTable, Types, dataVars, compVars,
       ghostVars
<1>3. CASE OpenTable
  <2>1. [name |-> <<0, counter - 1>>, data |-> mem] \in TableRecs
    BY <1>3 DEF TableRecs, Names, Types, OpenTable
  <2>2. sstables' \in Seq(TableRecs)
    BY <1>3, <2>1 DEF OpenTable, Types
  <2> QED
    BY <1>3, <2>2, Zenon DEF OpenTable, Types, dataVars, compVars, ghostVars
<1>4. CASE ClearLog
  <2>1. mem' \in Tables
    BY <1>4, Zenon DEF ClearLog, Tables, Empty, Cells
  <2>2. may' \in [Keys -> SUBSET Shows] /\ doubt' \in [Keys -> SUBSET Shows]
    BY <1>4, GetTyped, Zenon DEF ClearLog
  <2>3. log' \in Seq(Records)
    BY <1>4 DEF ClearLog
  <2> QED
    BY <1>4, <2>1, <2>2, <2>3, Zenon DEF ClearLog, Types, tableVars, compVars
<1>5. CASE ClearThrows
  <2>1. op.kind = "put" => op.key \in Keys /\ Live(op.val) \in Shows
    BY <1>5, OpKinds, CellShown, Zenon DEF ClearThrows, Control, Cells
  <2>2. doubt' \in [Keys -> SUBSET Shows]
    BY <1>5, <2>1, Zenon DEF ClearThrows, Types
  <2>3. log' \in Seq(Records)
    <3>1. <<>> \in Seq(Records)
      OBVIOUS
    <3> QED
      BY <1>5, <3>1, Zenon DEF ClearThrows, Types
  <2> QED
    BY <1>5, <2>2, <2>3, Zenon DEF ClearThrows, Types, tableVars, compVars
<1>6. CASE NoCompaction
  BY <1>6, Zenon DEF NoCompaction, Types, dataVars, tableVars, compVars,
     ghostVars
<1> QED
  BY <1>1, <1>2, <1>3, <1>4, <1>5, <1>6, Zenon

(* The steps of a compaction keep the types.                               *)
LEMMA TypesCompaction ==
  ASSUME TableFacts, Types, Control,
         \/ Merge \/ CompactionThrows \/ Undo \/ Undone \/ Publish \/ Published
         \/ RemoveInput \/ FinishCompaction,
         pc = "publish" => done <= Len(staged)
  PROVE  Types'
<1>1. CASE Merge
  <2>1. \A u : Outputs(sstables, disk, u) \in Seq(TableRecs)
    BY Zenon DEF Types, TableFacts, OutputsFact
  <2>2. staged' \in Seq(TableRecs)
    BY <1>1, <2>1, Zenon DEF Merge
  <2> QED
    BY <1>1, <2>2, Zenon DEF Merge, Types, dataVars, tableVars, ghostVars
<1>2. CASE CompactionThrows
  <2>1. staged' \in Seq(TableRecs)
    <3>1. \A i \in 1 .. done : staged[i] \in TableRecs
      BY <1>2 DEF Types, CompactionThrows
    <3> QED
      BY <1>2, <3>1 DEF Types, CompactionThrows
  <2> QED
    BY <1>2, <2>1, Zenon DEF CompactionThrows, Types, dataVars, tableVars,
       ghostVars
<1>3. CASE Undo \/ RemoveInput
  <2>1. disk' = disk \/ \E f : disk' = Removed(disk, f)
    BY <1>3, Zenon DEF Undo, RemoveInput, Removed
  <2>2. Files(disk')
    BY <2>1, Zenon DEF Types, TableFacts, RemovedFact
  <2> QED
    BY <1>3, <2>2 DEF Undo, RemoveInput, Types, dataVars, ghostVars
<1>4. CASE Undone
  <2>1. may' \in [Keys -> SUBSET Shows] /\ doubt' \in [Keys -> SUBSET Shows]
    BY <1>4, UnwindTyped, Zenon DEF Undone, Control, Comp
  <2>2. staged' \in Seq(TableRecs)
    BY <1>4 DEF Undone
  <2> QED
    BY <1>4, <2>1, <2>2, Zenon DEF Undone, Types, dataVars, tableVars
<1>5. CASE Publish
  <2>1. staged[done + 1] \in TableRecs
    BY <1>5 DEF Publish, Types
  <2>2. staged[done + 1].name \in Names /\ staged[done + 1].data \in Tables
    BY <2>1, Zenon DEF TableRecs
  <2>3. Files(disk')
    BY <1>5, <2>2, Zenon DEF Publish, Types, TableFacts, RenamedFact
  <2> QED
    BY <1>5, <2>3 DEF Publish, Types, dataVars, ghostVars
<1>6. CASE Published
  BY <1>6, Zenon DEF Published, Types, dataVars, tableVars, ghostVars
<1>7. CASE FinishCompaction
  <2>1. staged' \in Seq(TableRecs)
    BY <1>7 DEF FinishCompaction
  <2> QED
    BY <1>7, <2>1, Zenon DEF FinishCompaction, Types, dataVars, ghostVars
<1> QED
  BY <1>1, <1>2, <1>3, <1>4, <1>5, <1>6, <1>7, Zenon

(* Closing, a crash and opening keep the types.                            *)
LEMMA TypesRestart ==
  ASSUME TableFacts, Types, Closed \/ Crash \/ Open
  PROVE  Types'
<1>1. CASE Closed \/ Crash
  <2>1. log' \in Seq(Records)
    <3>1. CASE Closed
      BY <3>1, Zenon DEF Closed, Types, TableFacts, LogTypedFact
    <3>2. CASE Crash
      BY <3>2, Zenon DEF Crash, Types, TableFacts, LogTypedFact
    <3> QED
      BY <1>1, <3>1, <3>2, Zenon
  <2>2. mem' \in Tables
    BY <1>1, Zenon DEF Closed, Crash, ProcessEnds, Tables, Empty, Cells
  <2>3. sstables' \in Seq(TableRecs) /\ staged' \in Seq(TableRecs)
    <3>1. sstables' = <<>> /\ staged' = <<>>
      BY <1>1, Zenon DEF Closed, Crash, ProcessEnds
    <3> QED
      BY <3>1
  <2>4. may' \in [Keys -> SUBSET Shows] /\ doubt' \in [Keys -> SUBSET Shows]
    BY <1>1, Zenon DEF Closed, Crash, ProcessEnds, Types
  <2>5. /\ walFailed' = FALSE /\ counter' = 0 /\ done' = 0 /\ disk' = disk
    BY <1>1, Zenon DEF Closed, Crash, ProcessEnds
  <2> QED
    BY <2>1, <2>2, <2>3, <2>4, <2>5, Zenon DEF Types
<1>2. CASE Open
  <2>1. mem' \in Tables
    BY <1>2, Zenon DEF Open, Types, TableFacts, LogTypedFact
  <2>2. sstables' \in Seq(TableRecs)
    BY <1>2, Zenon DEF Open, Types, TableFacts, LoadsFilesFact
  <2>3. counter' \in Nat
    BY <1>2, Zenon DEF Open, Types, Files, TableFacts, NextCounterFact
  <2> QED
    BY <1>2, <2>1, <2>2, <2>3, Zenon DEF Open, Types, compVars, ghostVars
<1> QED
  BY <1>1, <1>2, Zenon

(* Every step keeps the types.                                             *)
LEMMA TypesStep ==
  ASSUME TableFacts, Types, Control, [Next]_vars,
         pc = "written" => counter > 0, pc = "publish" => done <= Len(staged)
  PROVE  Types'
<1>1. CASE UNCHANGED vars
  BY <1>1, Zenon DEF vars, Types, dataVars, tableVars, compVars, ghostVars
<1> QED
  BY <1>1, TypesCalls, TypesFlush, TypesCompaction, TypesRestart, Zenon
     DEF Next

(* A step leaves the tables alone or is one of the steps that write, list, *)
(* merge, publish or remove one.                                           *)
LEMMA StepKinds ==
  ASSUME Control, [Next]_vars
  PROVE  \/ Silent \/ Quiet \/ WriteTable \/ OpenTable \/ Merge \/ CompactionThrows \/ Undo
         \/ Undone \/ Publish \/ Published \/ RemoveInput \/ FinishCompaction
         \/ Closed \/ Crash \/ Open
<1> USE DEF Control, Comp, Quiet
<1>1. CASE UNCHANGED vars
  BY <1>1, Zenon DEF vars, Silent, dataVars, tableVars, compVars
<1>2. CASE WriteFails
  BY <1>2, Zenon DEF WriteFails, Silent, tableVars, compVars
<1>3. ASSUME NEW k \in Keys, NEW v \in Values \cup {Tomb}, AppendEntry(k, v) PROVE Quiet
  BY <1>3, Zenon DEF AppendEntry, tableVars, compVars
<1>4. CASE MemtablePut \/ Ack \/ Sync \/ Flush \/ Close
  BY <1>4, Zenon DEF MemtablePut, Ack, Sync, Flush, Close, tableVars, compVars
<1>5. CASE AppendThrows \/ AckThrows
  BY <1>5, Zenon DEF AppendThrows, AckThrows, Unwind, tableVars, compVars
<1>6. CASE FlushThrows \/ WriteOrphans \/ RegisteredThrows \/ ClearedThrows
  BY <1>6, Zenon DEF FlushThrows, WriteOrphans, RegisteredThrows,
     ClearedThrows, Unwind, Fault,
              tableVars, compVars
<1>7. CASE ClearLog \/ ClearThrows
  BY <1>7, Zenon DEF ClearLog, ClearThrows, tableVars, compVars
<1>8. CASE NoCompaction
  BY <1>8, OpKinds, Zenon DEF NoCompaction, AfterFlush, tableVars, compVars
<1> QED
  BY <1>1, <1>2, <1>3, <1>4, <1>5, <1>6, <1>7, <1>8, Zenon DEF Next

(* A name is a level and a counter.                                        *)
LEMMA NamePairs ==
  ASSUME NEW f \in Names
  PROVE  f[1] \in {0, 1} /\ f[2] \in Nat /\ f = <<f[1], f[2]>>
  BY DEF Names

(* The parts of an entry of a list of tables.                              *)
LEMMA EntryTyped ==
  ASSUME NEW s \in Seq(TableRecs), NEW i \in DOMAIN s
  PROVE  /\ s[i].name \in Names /\ s[i].data \in Tables
         /\ s[i].name[1] \in {0, 1} /\ s[i].name[2] \in Nat
         /\ s[i].name = <<s[i].name[1], s[i].name[2]>>
<1>1. s[i] \in TableRecs
  OBVIOUS
<1> QED
  BY <1>1, NamePairs, Zenon DEF TableRecs

(* A sorted list names no table twice.                                     *)
LEMMA SortedDistinct ==
  ASSUME NEW s \in Seq(TableRecs), Sorted(s),
         NEW i \in DOMAIN s, NEW j \in DOMAIN s, s[i].name = s[j].name
  PROVE  i = j
<1>1. ~LoadsBefore(s[i].name, s[j].name) /\ ~LoadsBefore(s[j].name, s[i].name)
  BY EntryTyped DEF LoadsBefore
<1>2. i \in Int /\ j \in Int
  OBVIOUS
<1> QED
  BY <1>1, <1>2 DEF Sorted

(* An output has no listed table's name.                                   *)
LEMMA StagedFresh ==
  ASSUME TablesInv, NEW i \in DOMAIN sstables, NEW j \in DOMAIN staged
  PROVE  sstables[i].name # staged[j].name
<1>1. sstables[i].name[1] \in {0, 1} /\ sstables[i].name[2] \in Nat /\ staged[j].name[2] \in Nat
  BY EntryTyped, Zenon DEF TablesInv, Types
<1> QED
  BY <1>1 DEF TablesInv, Staged

(* The first start lists no table.                                         *)
LEMMA TablesInit == Init => Listed /\ Staged
  BY DEF Init, Listed, Staged, Sorted, Comp

(* Steps outside a compaction.                                             *)
LEMMA TablesOutside ==
  ASSUME TablesInv, Silent \/ Quiet \/ WriteTable \/ OpenTable
  PROVE  Listed' /\ Staged'
<1> USE DEF TablesInv
<1>1. CASE Silent
  BY <1>1, Zenon DEF Silent, Listed, Staged, Sorted, OnDisk
<1>2. CASE Quiet
  <2>1. Sorted(sstables)' /\ \A i \in DOMAIN sstables' : OnDisk(sstables[i])'
    BY <1>2, Zenon DEF Quiet, Listed, Sorted, OnDisk, Comp
  <2>2. \A i \in DOMAIN sstables : sstables[i].name[1] = 0 => sstables[i].name[2] < counter'
    <3> TAKE i \in DOMAIN sstables
    <3>1. sstables[i].name[2] \in Nat /\ counter \in Nat
      BY EntryTyped, Zenon DEF Types
    <3> QED
      BY <1>2, <3>1 DEF Quiet, Listed
  <2>3. Staged'
    BY <1>2, Zenon DEF Quiet, Staged, Sorted, Comp
  <2> QED
    BY <1>2, <2>1, <2>2, <2>3, Zenon DEF Quiet, Listed, Comp
<1>3. CASE WriteTable
  <2>1. ASSUME NEW i \in DOMAIN sstables
        PROVE  /\ sstables[i].name # <<0, counter>>
               /\ sstables[i].name[1] = 0 => sstables[i].name[2] < counter
    <3>1. sstables[i].name[2] \in Nat /\ counter \in Nat
      BY EntryTyped, Zenon DEF Types
    <3> QED
      BY <1>3, <3>1 DEF WriteTable, Listed
  <2>2. ASSUME NEW i \in DOMAIN sstables PROVE OnDisk(sstables[i])'
    <3>1. sstables[i].name # <<0, counter>>
      BY <2>1, Zenon
    <3>2. OnDisk(sstables[i])
      BY <1>3, Zenon DEF WriteTable, Listed
    <3>3. disk' = Renamed(disk, <<0, counter>>, mem) /\ sstables' = sstables
      BY <1>3, Zenon DEF WriteTable
    <3>4. sstables[i].name \in DOMAIN disk' /\ disk'[sstables[i].name] = sstables[i].data
      BY <3>1, <3>2, <3>3, Zenon DEF OnDisk, Renamed
    <3> QED
      BY <3>3, <3>4, Zenon DEF OnDisk
  <2>3. counter' > 0 /\ OnDisk([name |-> <<0, counter - 1>>, data |-> mem])'
    <3>1. counter \in Nat /\ counter' - 1 = counter /\ mem' = mem
      BY <1>3 DEF WriteTable, Types, dataVars
    <3>2. <<0, counter>> \in DOMAIN disk' /\ disk'[<<0, counter>>] = mem
      BY <1>3, RenamedDisk, Zenon DEF WriteTable
    <3> QED
      BY <1>3, <3>1, <3>2 DEF WriteTable, OnDisk
  <2>4. Staged'
    BY <1>3, Zenon DEF WriteTable, Staged, Sorted, Comp, compVars
  <2>5. counter \in Nat /\ counter' = counter + 1 /\ sstables' = sstables /\ pc' = "written"
    BY <1>3, Zenon DEF WriteTable, Types
  <2>6. Sorted(sstables)'
    BY <2>5, Zenon DEF Listed, Sorted
  <2>7. \A i \in DOMAIN sstables' :
          sstables'[i].name[1] = 0 => sstables'[i].name[2] < counter' - 1
    BY <2>1, <2>5
  <2> QED
    BY <2>2, <2>3, <2>4, <2>5, <2>6, <2>7, Zenon DEF Listed
<1>4. CASE OpenTable
  <2> DEFINE e == [name |-> <<0, counter - 1>>, data |-> mem]
  <2>1. PICK n \in Nat : n = Len(sstables) /\ DOMAIN sstables = 1 .. n
    BY DEF Types
  <2>2. /\ DOMAIN sstables' = 1 .. n + 1 /\ sstables'[n + 1] = e
        /\ \A i \in 1 .. n : sstables'[i] = sstables[i]
    <3>1. counter > 0 /\ counter \in Nat
      BY <1>4, Zenon DEF OpenTable, Listed, Types
    <3>2. e \in TableRecs
      BY <3>1 DEF TableRecs, Names, Types
    <3> HIDE DEF e
    <3>3. sstables' = Append(sstables, e)
      BY <1>4, Zenon DEF OpenTable, e
    <3> QED
      BY <2>1, <3>2, <3>3 DEF Types
  <2>3. e.name = <<0, counter - 1>> /\ e.name[1] = 0 /\ e.name[2] = counter - 1 /\ e.data = mem
    BY Zenon
  <2>4. OnDisk(e) /\ counter \in Nat
    BY <1>4, Zenon DEF OpenTable, Listed, Types
  <2>5. ASSUME NEW i \in 1 .. n
        PROVE  /\ sstables[i].name[1] \in {0, 1} /\ sstables[i].name[2] \in Nat
               /\ sstables[i].name[1] = 0 => sstables[i].name[2] < counter - 1
               /\ OnDisk(sstables[i])
    BY <1>4, <2>1, EntryTyped, Zenon DEF OpenTable, Listed, Types
  <2> HIDE DEF e
  <2>6. Sorted(sstables)'
    <3>1. ASSUME NEW i \in 1 .. n + 1, NEW j \in 1 .. n + 1, i < j
          PROVE  LoadsBefore(sstables'[i].name, sstables'[j].name)
      <4>1. CASE j = n + 1
        <5>1. i \in 1 .. n
          BY <3>1, <4>1
        <5> QED
          BY <2>2, <2>3, <2>5, <4>1, <5>1 DEF LoadsBefore
      <4>2. CASE j # n + 1
        BY <2>1, <2>2, <3>1, <4>2 DEF Listed, Sorted
      <4> QED
        BY <4>1, <4>2, Zenon
    <3> QED
      BY <2>2, <3>1, Zenon DEF Sorted
  <2>7. disk' = disk /\ counter' = counter /\ pc' = "registered"
    BY <1>4, Zenon DEF OpenTable
  <2>8. ASSUME NEW i \in DOMAIN sstables'
        PROVE  /\ OnDisk(sstables[i])'
               /\ sstables'[i].name[1] = 0 => sstables'[i].name[2] < counter'
    <3>1. CASE i = n + 1
      BY <2>2, <2>3, <2>4, <2>7, <3>1, SMTT(30) DEF OnDisk
    <3>2. CASE i \in 1 .. n
      BY <2>2, <2>4, <2>5, <2>7, <3>2, SMTT(30) DEF OnDisk
    <3> QED
      BY <2>2, <3>1, <3>2
  <2>9. Staged'
    BY <1>4 DEF OpenTable, Staged, Sorted, Comp, compVars
  <2> QED
    BY <2>6, <2>7, <2>8, <2>9, Zenon DEF Listed
<1> QED
  BY <1>1, <1>2, <1>3, <1>4, Zenon

(* LeveledCompactor::run(): merging and publishing.                        *)
LEMMA TablesPublish ==
  ASSUME TableFacts, TablesInv, Merge \/ Publish \/ Published \/ CompactionThrows
  PROVE  Listed' /\ Staged'
<1> USE DEF TablesInv
<1>1. CASE Merge
  <2>1. PICK u : staged' = Outputs(sstables, disk, u)
    BY <1>1, Zenon DEF Merge
  <2>2. PICK O : O = Outputs(sstables, disk, u)
    BY Zenon
  <2>3. /\ O \in Seq(TableRecs)
        /\ \A i \in DOMAIN O :
             /\ O[i].name[1] = 1
             /\ \A j \in DOMAIN O : i < j => O[i].name[2] < O[j].name[2]
             /\ \A f \in DOMAIN disk \cup ListNames(sstables) : f[1] = 1 => f[2] < O[i].name[2]
    BY <2>2 DEF Types, TableFacts, OutputsFact, Numbered
  <2>4. /\ disk' = disk /\ sstables' = sstables /\ counter' = counter /\ staged' = O
        /\ done' = 0 /\ pc = "cleared" /\ pc' = "publish"
    BY <1>1, <2>1, <2>2, Zenon DEF Merge, tableVars
  <2>5. Listed'
    BY <2>4, Zenon DEF Listed, Sorted, OnDisk
  <2>6. Sorted(O)
    BY <2>3, Zenon DEF Sorted, LoadsBefore
  <2>7. ASSUME NEW j \in DOMAIN O PROVE O[j].name \notin DOMAIN disk /\ O[j].name[2] \in Nat
    <3>1. O[j].name[2] \in Nat
      BY <2>3, EntryTyped, Zenon
    <3> QED
      BY <2>3, <3>1
  <2>8. \A i \in DOMAIN sstables : sstables[i].name \in ListNames(sstables)
    BY Zenon DEF ListNames
  <2>9. Len(O) \in Nat /\ DOMAIN O = 1 .. Len(O)
    BY <2>3
  <2> QED
    BY <2>3, <2>4, <2>5, <2>6, <2>7, <2>8, <2>9 DEF Staged, Comp
<1>2. CASE Publish
  <2>1. PICK n \in Nat : n = Len(staged) /\ DOMAIN staged = 1 .. n
    BY DEF Types
  <2>2. PICK e : e = staged[done + 1]
    BY Zenon
  <2>3. /\ disk' = Renamed(disk, e.name, e.data) /\ done' = done + 1 /\ done \in Nat /\ done < n
        /\ pc = "publish" /\ pc' = "publish" /\ sstables' = sstables /\ staged' = staged
        /\ counter' = counter
    BY <1>2, <2>1, <2>2, Zenon DEF Publish, Types
  <2>4. done + 1 \in DOMAIN staged
    BY <2>1, <2>3
  <2>5. e.name \in DOMAIN disk' /\ disk'[e.name] = e.data
    BY <2>3, Zenon DEF Renamed
  <2>6. \A f \in DOMAIN disk : f # e.name => f \in DOMAIN disk' /\ disk'[f] = disk[f]
    BY <2>3, Zenon DEF Renamed
  <2>7. DOMAIN disk' = DOMAIN disk \cup {e.name}
    BY <2>3, RenamedDisk, Zenon
  <2>8. ASSUME NEW i \in DOMAIN sstables PROVE OnDisk(sstables[i])'
    <3>1. sstables[i].name # e.name
      BY <2>2, <2>4, StagedFresh, Zenon
    <3>2. OnDisk(sstables[i])
      BY <2>3, Zenon DEF Listed
    <3> QED
      BY <2>3, <2>6, <3>1, <3>2, Zenon DEF OnDisk
  <2>9. Listed'
    BY <2>3, <2>8, Zenon DEF Listed, Sorted
  <2>10. ASSUME NEW j \in DOMAIN staged
         PROVE  IF j <= done + 1 THEN OnDisk(staged[j])'
                ELSE staged[j].name \notin DOMAIN disk'
    <3>1. j \in Nat
      BY <2>1
    <3>2. CASE j = done + 1
      BY <2>2, <2>3, <2>5, <3>2 DEF OnDisk
    <3>3. CASE j # done + 1
      <4>1. staged[j].name # e.name
        BY <2>2, <2>4, <3>3, SortedDistinct, Zenon DEF Staged, Types
      <4>2. CASE j <= done
        <5>1. OnDisk(staged[j])
          BY <2>3, <4>2, Zenon DEF Staged
        <5> QED
          BY <2>3, <2>6, <3>1, <4>1, <4>2, <5>1 DEF OnDisk
      <4>3. CASE ~(j <= done)
        <5>1. staged[j].name \notin DOMAIN disk /\ ~(j <= done + 1)
          BY <2>3, <3>1, <3>3, <4>3 DEF Staged
        <5> QED
          BY <2>7, <4>1, <5>1, Zenon
      <4> QED
        BY <4>2, <4>3, Zenon
    <3> QED
      BY <3>2, <3>3, Zenon
  <2> QED
    BY <2>1, <2>3, <2>9, <2>10 DEF Staged, Sorted, Comp
<1>3. CASE Published
  <2>1. /\ disk' = disk /\ sstables' = sstables /\ counter' = counter /\ staged' = staged
        /\ done' = 0 /\ done = Len(staged) /\ pc = "publish" /\ pc' = "remove"
    BY <1>3, Zenon DEF Published, tableVars
  <2>2. \A j \in DOMAIN staged : j <= Len(staged)
    BY DEF Types
  <2>3. \A j \in DOMAIN staged : OnDisk(staged[j])'
    BY <2>1, <2>2, Zenon DEF Staged, OnDisk
  <2>4. \A i \in DOMAIN sstables : OnDisk(sstables[i])'
    BY <2>1, Zenon DEF Listed, OnDisk
  <2>5. 0 <= Len(sstables)
    BY DEF Types
  <2> QED
    BY <2>1, <2>3, <2>4, <2>5, Zenon DEF Listed, Staged, Sorted, Comp
<1>4. CASE CompactionThrows
  <2>1. PICK n \in Nat : n = Len(staged) /\ DOMAIN staged = 1 .. n
    BY DEF Types
  <2>2. /\ disk' = disk /\ sstables' = sstables /\ counter' = counter
        /\ staged' = SubSeq(staged, 1, done) /\ done' = 0 /\ done \in Nat /\ done <= n
        /\ pc = "publish" /\ pc' = "undo"
    BY <1>4, <2>1, Zenon DEF CompactionThrows, tableVars, Types, Staged
  <2>3. /\ DOMAIN staged' = 1 .. done /\ Len(staged') = done
        /\ \A j \in 1 .. done : staged'[j] = staged[j]
    BY <2>1, <2>2 DEF Types
  <2>4. Listed'
    BY <2>2, Zenon DEF Listed, Sorted, OnDisk
  <2>5. \A j \in 1 .. done : j \in DOMAIN staged /\ j <= done
    BY <2>1, <2>2
  <2>6. \A j \in DOMAIN staged' : OnDisk(staged[j])'
    BY <2>2, <2>3, <2>5, Zenon DEF Staged, OnDisk
  <2>7. Sorted(staged)'
    BY <2>3, <2>5, Zenon DEF Staged, Sorted
  <2> QED
    BY <2>2, <2>3, <2>4, <2>5, <2>6, <2>7 DEF Staged, Comp
<1> QED
  BY <1>1, <1>2, <1>3, <1>4, Zenon

(* LeveledCompactor::run(): removing outputs again, or the inputs.         *)
LEMMA TablesRemove ==
  ASSUME TablesInv, Undo \/ Undone \/ RemoveInput \/ FinishCompaction
  PROVE  Listed' /\ Staged'
<1> USE DEF TablesInv
<1>1. CASE Undo
  <2>1. PICK n \in Nat : n = Len(staged) /\ DOMAIN staged = 1 .. n
    BY DEF Types
  <2>2. PICK x : x = staged[done + 1].name
    BY Zenon
  <2>3. /\ disk' = Removed(disk, x) /\ done' = done + 1 /\ done \in Nat /\ done < n
        /\ pc = "undo" /\ pc' = "undo" /\ sstables' = sstables /\ staged' = staged
        /\ counter' = counter
    BY <1>1, <2>1, <2>2, Zenon DEF Undo, Types, Removed
  <2>4. done + 1 \in DOMAIN staged
    BY <2>1, <2>3
  <2>5. \A f \in DOMAIN disk : f # x => f \in DOMAIN disk' /\ disk'[f] = disk[f]
    BY <2>3, Zenon DEF Removed
  <2>6. ASSUME NEW i \in DOMAIN sstables PROVE OnDisk(sstables[i])'
    <3>1. sstables[i].name # x
      BY <2>2, <2>4, StagedFresh, Zenon
    <3>2. OnDisk(sstables[i])
      BY <2>3, Zenon DEF Listed
    <3> QED
      BY <2>3, <2>5, <3>1, <3>2, Zenon DEF OnDisk
  <2>7. Listed'
    BY <2>3, <2>6, Zenon DEF Listed, Sorted
  <2>8. ASSUME NEW j \in DOMAIN staged, j > done + 1 PROVE OnDisk(staged[j])'
    <3>1. j \in Nat /\ j # done + 1 /\ j > done
      BY <2>1, <2>3, <2>8
    <3>2. staged[j].name # x
      BY <2>2, <2>4, <3>1, SortedDistinct, Zenon DEF Staged, Types
    <3>3. OnDisk(staged[j])
      BY <2>3, <3>1, Zenon DEF Staged
    <3> QED
      BY <2>3, <2>5, <3>2, <3>3, Zenon DEF OnDisk
  <2> QED
    BY <2>1, <2>3, <2>7, <2>8 DEF Staged, Sorted, Comp
<1>2. CASE Undone
  <2>1. /\ disk' = disk /\ sstables' = sstables /\ counter' = counter /\ staged' = <<>>
        /\ done' = 0 /\ pc = "undo" /\ pc' \notin Comp \cup {"written"}
    BY <1>2, Zenon DEF Undone, Unwind, tableVars, Comp
  <2> QED
    BY <2>1 DEF Listed, Staged, Sorted, OnDisk, Comp
<1>3. CASE RemoveInput
  <2>1. PICK n \in Nat : n = Len(sstables) /\ DOMAIN sstables = 1 .. n
    BY DEF Types
  <2>2. PICK x : x = sstables[done + 1].name
    BY Zenon
  <2>3. /\ disk' = Removed(disk, x) \/ disk' = disk
        /\ done' = done + 1 /\ done \in Nat /\ done < n
        /\ pc = "remove" /\ pc' = "remove" /\ sstables' = sstables /\ staged' = staged
        /\ counter' = counter
    BY <1>3, <2>1, <2>2, Zenon DEF RemoveInput, Types, Removed
  <2>4. done + 1 \in DOMAIN sstables
    BY <2>1, <2>3
  <2>5. \A f \in DOMAIN disk : f # x => f \in DOMAIN disk' /\ disk'[f] = disk[f]
    BY <2>3, Zenon DEF Removed
  <2>6. ASSUME NEW i \in DOMAIN sstables, i > done + 1 PROVE OnDisk(sstables[i])'
    <3>1. i \in Nat /\ i # done + 1 /\ i > done
      BY <2>1, <2>3, <2>6
    <3>2. sstables[i].name # x
      BY <2>2, <2>4, <3>1, SortedDistinct, Zenon DEF Listed, Types
    <3>3. OnDisk(sstables[i])
      BY <2>3, <3>1, Zenon DEF Listed
    <3> QED
      BY <2>3, <2>5, <3>2, <3>3, Zenon DEF OnDisk
  <2>7. Listed'
    BY <2>3, <2>6, Zenon DEF Listed, Sorted
  <2>8. ASSUME NEW j \in DOMAIN staged PROVE OnDisk(staged[j])'
    <3>1. staged[j].name # x
      BY <2>2, <2>4, StagedFresh, Zenon
    <3>2. OnDisk(staged[j])
      BY <2>3, ZenonT(30) DEF Staged
    <3> QED
      BY <2>3, <2>5, <3>1, <3>2, Zenon DEF OnDisk
  <2> QED
    BY <2>1, <2>3, <2>7, <2>8 DEF Staged, Sorted, Comp
<1>4. CASE FinishCompaction
  <2>1. /\ disk' = disk /\ sstables' = staged /\ counter' = 0 /\ staged' = <<>>
        /\ done' = 0 /\ pc = "remove" /\ pc' \notin Comp \cup {"written"}
    BY <1>4, OpKinds, Zenon DEF FinishCompaction, AfterFlush, Comp, Control
  <2> QED
    BY <2>1 DEF Listed, Staged, Sorted, OnDisk, Comp
<1> QED
  BY <1>1, <1>2, <1>3, <1>4, Zenon

(* The end of a process and the start of the next.                         *)
LEMMA TablesRestart ==
  ASSUME TableFacts, TablesInv, Closed \/ Crash \/ Open
  PROVE  Listed' /\ Staged'
<1> USE DEF TablesInv
<1>1. CASE Closed \/ Crash
  <2>1. sstables' = <<>> /\ staged' = <<>> /\ done' = 0 /\ pc' = "down"
    BY <1>1, Zenon DEF Closed, Crash, ProcessEnds
  <2> QED
    BY <2>1 DEF Listed, Staged, Sorted, Comp
<1>2. CASE Open
  <2>1. /\ disk' = disk /\ sstables' = loadSSTables(disk) /\ staged' = <<>> /\ done' = 0
        /\ counter' = NextCounter(DOMAIN disk, 0) /\ pc' = "idle"
    BY <1>2, Zenon DEF Open, Staged, compVars, Comp
  <2>2. PICK n \in Nat : ListsFiles(disk, loadSSTables(disk), n)
    BY Zenon DEF Types, TableFacts, LoadsFilesFact
  <2>3. /\ DOMAIN loadSSTables(disk) = 1 .. n
        /\ \A i \in 1 .. n : /\ loadSSTables(disk)[i].name \in DOMAIN disk
                              /\ loadSSTables(disk)[i].data = disk[loadSSTables(disk)[i].name]
        /\ \A i, j \in 1 .. n :
             i < j => LoadsBefore(loadSSTables(disk)[i].name, loadSSTables(disk)[j].name)
    <3>1. PICK s : s = loadSSTables(disk)
      BY Zenon
    <3> QED
      BY <2>2, <3>1, Zenon DEF ListsFiles
  <2>4. \A f \in DOMAIN disk : f[1] = 0 => f[2] < NextCounter(DOMAIN disk, 0)
    BY Zenon DEF Types, Files, TableFacts, NextCounterFact
  <2>5. Sorted(sstables)'
    BY <2>1, <2>3, Zenon DEF Sorted
  <2>6. \A i \in DOMAIN sstables' : OnDisk(sstables[i])'
    BY <2>1, <2>3, Zenon DEF OnDisk
  <2>7. Staged'
    BY <2>1 DEF Staged, Sorted, Comp
  <2> QED
    BY <2>1, <2>3, <2>4, <2>5, <2>6, <2>7, Zenon DEF Listed
<1> QED
  BY <1>1, <1>2, ZenonT(30)

(* Every step keeps the table list sorted and its files intact.            *)
LEMMA TablesStep ==
  ASSUME TableFacts, TablesInv, [Next]_vars
  PROVE  TablesInv'
<1>1. Control'
  BY ControlStep, Zenon DEF TablesInv
<1>2. Types'
  BY TypesStep, Zenon DEF TablesInv, Listed, Staged
<1>3. Listed' /\ Staged'
  BY StepKinds, TablesOutside, TablesPublish, TablesRemove, TablesRestart,
     Zenon DEF TablesInv
<1> QED
  BY <1>1, <1>2, <1>3, Zenon DEF TablesInv

(* The first start finds no file.                                          *)
LEMMA ResidueInit == Init => Residue
  BY DEF Init, Residue, ListNames, Comp

(* Without orphans and failed removals, every step keeps the directory     *)
(* exact.                                                                  *)
LEMMA ResidueStep ==
  ASSUME TableFacts, Faults \cap {"orphan", "remove"} = {}, TablesInv, Residue, [Next]_vars
  PROVE  Residue'
<1> USE DEF TablesInv
<1>0. TablesInv'
  BY TablesStep, Zenon
<1>1. CASE Silent
  BY <1>1 DEF Silent, Residue, ListNames, StagedNames
<1>2. CASE Quiet
  BY <1>2, Zenon DEF Quiet, Residue, ListNames, Comp
<1>3. CASE WriteTable
  <2>1. /\ DOMAIN disk' = DOMAIN disk \cup {<<0, counter>>} /\ counter' - 1 = counter
        /\ sstables' = sstables /\ pc = "flush" /\ pc' = "written"
    BY <1>3 DEF WriteTable, Renamed, Types
  <2> QED
    BY <2>1, ZenonT(30) DEF Residue, ListNames, Comp
<1>4. CASE OpenTable
  <2>1. PICK n \in Nat : n = Len(sstables) /\ DOMAIN sstables = 1 .. n
    BY DEF Types
  <2>2. PICK e : e = [name |-> <<0, counter - 1>>, data |-> mem]
    BY Zenon
  <2>3. /\ DOMAIN sstables' = 1 .. n + 1 /\ sstables'[n + 1] = e
        /\ \A i \in 1 .. n : sstables'[i] = sstables[i]
    BY <1>4, <2>1, <2>2 DEF OpenTable, Types
  <2>4. e.name = <<0, counter - 1>> /\ disk' = disk /\ pc = "written" /\ pc' = "registered"
    BY <1>4, <2>2, Zenon DEF OpenTable
  <2>5. ListNames(sstables)' = ListNames(sstables) \cup {e.name}
    <3>1. ASSUME NEW x \in ListNames(sstables)' PROVE x \in ListNames(sstables) \cup {e.name}
      BY <2>1, <2>3 DEF ListNames
    <3>2. ASSUME NEW x \in ListNames(sstables) PROVE x \in ListNames(sstables)'
      BY <2>1, <2>3 DEF ListNames
    <3>3. e.name \in ListNames(sstables)'
      BY <2>3 DEF ListNames
    <3> QED
      BY <3>1, <3>2, <3>3, Zenon
  <2> QED
    BY <2>4, <2>5, Zenon DEF Residue, Comp
<1>5. CASE Merge
  <2>1. /\ disk' = disk /\ sstables' = sstables /\ done' = 0
        /\ pc = "cleared" /\ pc' = "publish"
    BY <1>5, Zenon DEF Merge, tableVars
  <2>2. StagedNames(1, done)' = {}
    BY <2>1 DEF StagedNames
  <2> QED
    BY <2>1, <2>2, Zenon DEF Residue, ListNames, Comp
<1>6. CASE CompactionThrows
  <2>1. /\ disk' = disk /\ sstables' = sstables /\ done' = 0 /\ done \in Nat
        /\ staged' = SubSeq(staged, 1, done) /\ done <= Len(staged)
        /\ pc = "publish" /\ pc' = "undo"
    BY <1>6, Zenon DEF CompactionThrows, tableVars, Types, Staged
  <2>2. Len(staged') = done /\ \A j \in 1 .. done : staged'[j] = staged[j]
    BY <2>1 DEF Types
  <2>3. StagedNames(done + 1, Len(staged))' = StagedNames(1, done)
    BY <2>1, <2>2 DEF StagedNames
  <2> QED
    BY <2>1, <2>3, ZenonT(30) DEF Residue, ListNames, Comp
<1>7. CASE Undo
  <2>1. PICK n \in Nat : n = Len(staged) /\ DOMAIN staged = 1 .. n
    BY DEF Types
  <2>2. PICK x : x = staged[done + 1].name
    BY Zenon
  <2>3. /\ DOMAIN disk' = DOMAIN disk \ {x} /\ done' = done + 1 /\ done \in Nat /\ done < n
        /\ pc = "undo" /\ pc' = "undo" /\ sstables' = sstables /\ staged' = staged
    BY <1>7, <2>1, <2>2, Zenon DEF Undo, Types, Removed
  <2>4. x \notin ListNames(sstables)
    BY <2>1, <2>2, <2>3, StagedFresh DEF ListNames
  <2>5. \A j \in done + 2 .. n : staged[j].name # x
    <3> TAKE j \in done + 2 .. n
    <3>1. j \in DOMAIN staged /\ done + 1 \in DOMAIN staged /\ j # done + 1
      BY <2>1, <2>3
    <3> QED
      BY <2>2, <3>1, SortedDistinct, Zenon DEF Staged, Types
  <2>6. StagedNames(done + 1, n) = {x} \cup StagedNames(done + 2, n)
    BY <2>2, <2>3 DEF StagedNames
  <2>7. x \notin StagedNames(done + 2, n)
    BY <2>5, Zenon DEF StagedNames
  <2>8. StagedNames(done + 1, Len(staged))' = StagedNames(done + 2, n)
    BY <2>1, <2>3 DEF StagedNames
  <2> QED
    BY <2>1, <2>3, <2>4, <2>6, <2>7, <2>8 DEF Residue, ListNames, Comp
<1>8. CASE Undone
  <2>1. /\ disk' = disk /\ sstables' = sstables /\ pc = "undo" /\ done = Len(staged)
        /\ pc' \notin Comp \cup {"written"}
    BY <1>8, Zenon DEF Undone, Unwind, tableVars, Comp
  <2>2. StagedNames(done + 1, Len(staged)) = {}
    BY <2>1, SMTT(30) DEF StagedNames, Types
  <2> QED
    BY <2>1, <2>2, ZenonT(30) DEF Residue, ListNames, Comp
<1>9. CASE Publish
  <2>1. PICK n \in Nat : n = Len(staged) /\ DOMAIN staged = 1 .. n
    BY DEF Types
  <2>2. PICK e : e = staged[done + 1]
    BY Zenon
  <2>3. /\ disk' = Renamed(disk, e.name, e.data) /\ done' = done + 1 /\ done \in Nat /\ done < n
        /\ pc = "publish" /\ pc' = "publish" /\ sstables' = sstables /\ staged' = staged
    BY <1>9, <2>1, <2>2, Zenon DEF Publish, Types
  <2>4. DOMAIN disk' = DOMAIN disk \cup {e.name}
    BY <2>3, Zenon DEF Renamed
  <2>5. StagedNames(1, done)' = StagedNames(1, done) \cup {e.name}
    BY <2>2, <2>3 DEF StagedNames
  <2> QED
    BY <2>3, <2>4, <2>5 DEF Residue, ListNames, Comp
<1>10. CASE Published
  <2>1. /\ disk' = disk /\ sstables' = sstables /\ staged' = staged
        /\ done' = 0 /\ done = Len(staged) /\ pc = "publish" /\ pc' = "remove"
    BY <1>10, Zenon DEF Published, tableVars
  <2>2. {sstables'[i].name : i \in done' + 1 .. Len(sstables')} = ListNames(sstables)
    <3>1. done' + 1 .. Len(sstables') = DOMAIN sstables
      BY <2>1 DEF Types
    <3> QED
      BY <2>1, <3>1, Zenon DEF ListNames
  <2>3. StagedNames(1, Len(staged))' = StagedNames(1, done)
    BY <2>1, Zenon DEF StagedNames
  <2> QED
    BY <2>1, <2>2, <2>3, Zenon DEF Residue, Comp
<1>11. CASE RemoveInput
  <2>1. PICK n \in Nat : n = Len(sstables) /\ DOMAIN sstables = 1 .. n
    BY DEF Types
  <2>2. PICK x : x = sstables[done + 1].name
    BY Zenon
  <2>3. /\ DOMAIN disk' = DOMAIN disk \ {x} /\ done' = done + 1 /\ done \in Nat /\ done < n
        /\ pc = "remove" /\ pc' = "remove" /\ sstables' = sstables /\ staged' = staged
    BY <1>11, <2>1, <2>2, Zenon DEF RemoveInput, Fault, Types, Removed
  <2>4. x \notin StagedNames(1, Len(staged))
    <3>1. \A j \in 1 .. Len(staged) : staged[j].name # x
      BY <2>1, <2>2, <2>3, StagedFresh, SMTT(30) DEF Types
    <3> QED
      BY <3>1, Zenon DEF StagedNames
  <2>5. \A i \in done + 2 .. n : sstables[i].name # x
    <3> TAKE i \in done + 2 .. n
    <3>1. i \in DOMAIN sstables /\ done + 1 \in DOMAIN sstables /\ i # done + 1
      BY <2>1, <2>3
    <3> QED
      BY <2>2, <3>1, SortedDistinct, Zenon DEF Listed, Types
  <2>6. {sstables[i].name : i \in done + 1 .. n} = {x} \cup {sstables[i].name : i \in done + 2 .. n}
    BY <2>2, <2>3
  <2>7. {sstables'[i].name : i \in done' + 1 .. Len(sstables')} = {sstables[i].name : i \in done + 2 .. n}
    BY <2>1, <2>3
  <2>8. StagedNames(1, Len(staged))' = StagedNames(1, Len(staged))
    BY <2>3, Zenon DEF StagedNames
  <2> QED
    BY <2>1, <2>3, <2>4, <2>5, <2>6, <2>7, <2>8, SMTT(30) DEF Residue, Comp
<1>12. CASE FinishCompaction
  <2>1. /\ disk' = disk /\ sstables' = staged /\ done = Len(sstables)
        /\ pc = "remove" /\ pc' \notin Comp \cup {"written"}
    BY <1>12, OpKinds, Zenon DEF FinishCompaction, AfterFlush, Comp, Control
  <2>2. {sstables[i].name : i \in done + 1 .. Len(sstables)} = {}
    BY <2>1 DEF Types
  <2>3. StagedNames(1, Len(staged)) = ListNames(sstables)'
    BY <2>1 DEF StagedNames, ListNames, Types
  <2> QED
    BY <2>1, <2>2, <2>3, Zenon DEF Residue, Comp
<1>13. CASE Closed \/ Crash
  BY <1>13, Zenon DEF Closed, Crash, ProcessEnds, Residue, Comp
<1>14. CASE Open
  <2>1. disk' = disk /\ sstables' = loadSSTables(disk) /\ pc' = "idle"
    BY <1>14, Zenon DEF Open
  <2>2. PICK n \in Nat :
           /\ DOMAIN loadSSTables(disk) = 1 .. n
           /\ \A f \in DOMAIN disk : \E i \in 1 .. n : loadSSTables(disk)[i].name = f
    <3>1. PICK n \in Nat : ListsFiles(disk, loadSSTables(disk), n)
      BY Zenon DEF Types, TableFacts, LoadsFilesFact
    <3> QED
      BY <3>1, Zenon DEF ListsFiles
  <2>3. \A i \in DOMAIN sstables' : sstables'[i].name \in DOMAIN disk'
    BY <1>0, <2>1, Zenon DEF Listed, OnDisk
  <2>4. ListNames(sstables)' = DOMAIN disk
    BY <2>1, <2>2, <2>3, Zenon DEF ListNames
  <2> QED
    BY <2>1, <2>4, Zenon DEF Residue, Comp
<1> QED
  BY <1>1, <1>2, <1>3, <1>4, <1>5, <1>6, <1>7, <1>8, <1>9, <1>10, <1>11,
     <1>12, <1>13,
     <1>14, StepKinds, Zenon

-----------------------------------------------------------------------------
(* What reads show.                                                        *)

(* The parts of an entry of a list of tables.                              *)
LEMMA EntryParts ==
  ASSUME NEW s \in Seq(TableRecs), NEW i \in DOMAIN s
  PROVE  /\ s[i].name \in Names /\ s[i].data \in Tables
         /\ s[i].name[1] \in {0, 1} /\ s[i].name[2] \in Nat
         /\ s[i].name = <<s[i].name[1], s[i].name[2]>>
<1>1. s[i] \in TableRecs
  OBVIOUS
<1> QED
  BY <1>1 DEF TableRecs, Names

(* The steps that change the memtable or the list of tables.               *)
LEMMA MemKinds ==
  ASSUME [Next]_vars
  PROVE  \/ UNCHANGED <<mem, sstables>> \/ MemtablePut \/ OpenTable \/ ClearLog
         \/ FinishCompaction \/ Closed \/ Crash \/ Open
<1> USE DEF tableVars, dataVars
<1>1. CASE UNCHANGED vars
  BY <1>1, Zenon DEF vars
<1>2. ASSUME NEW k \in Keys, NEW v \in Values \cup {Tomb}, AppendEntry(k, v)
      PROVE  UNCHANGED <<mem, sstables>>
  BY <1>2, Zenon DEF AppendEntry
<1>3. CASE WriteFails \/ Ack \/ Sync \/ Flush \/ Close \/ AppendThrows \/ AckThrows
  BY <1>3, Zenon DEF WriteFails, Ack, Sync, Flush, Close, AppendThrows,
     AckThrows
<1>4. CASE FlushThrows \/ WriteTable \/ WriteOrphans \/ RegisteredThrows \/ ClearThrows
           \/ ClearedThrows
  BY <1>4, Zenon DEF FlushThrows, WriteTable, WriteOrphans, RegisteredThrows,
     ClearThrows,
              ClearedThrows
<1>5. CASE NoCompaction \/ Merge \/ CompactionThrows \/ Undo \/ Undone \/ Publish
           \/ Published \/ RemoveInput
  BY <1>5, Zenon DEF NoCompaction, Merge, CompactionThrows, Undo, Undone,
     Publish, Published,
              RemoveInput
<1> QED
  BY <1>1, <1>2, <1>3, <1>4, <1>5, Zenon DEF Next

(* While the engine is open only the memtable insert changes a read.       *)
LEMMA GetKept ==
  ASSUME TableFacts, TablesInv, Reads, [Next]_vars, pc # "down", pc' # "down", NEW k \in Keys
  PROVE  MemtablePut \/ get(k)' = get(k)
<1> USE DEF TablesInv
<1>1. CASE UNCHANGED <<mem, sstables>>
  BY <1>1, Zenon DEF get
<1>2. CASE OpenTable
  <2>1. PICK n \in Nat : n = Len(sstables) /\ DOMAIN sstables = 1 .. n
    BY DEF Types
  <2>2. PICK e : e = [name |-> <<0, counter - 1>>, data |-> mem]
    BY Zenon
  <2>3. /\ DOMAIN sstables' = 1 .. n + 1 /\ sstables'[n + 1] = e
        /\ \A i \in 1 .. n : sstables'[i] = sstables[i]
    BY <1>2, <2>1, <2>2 DEF OpenTable, Types
  <2>4. mem' = mem /\ e.data[k] = mem[k]
    BY <1>2, <2>2, Zenon DEF OpenTable, dataVars
  <2>5. Lookup(sstables', k) = IF mem[k] # None THEN mem[k] ELSE Lookup(sstables, k)
    <3>1. \A i \in 1 .. n : sstables'[i].data[k] = sstables[i].data[k]
      BY <2>3, Zenon
    <3>2. sstables'[n + 1].data[k] = mem[k]
      BY <2>3, <2>4, Zenon
    <3>3. Lookup(sstables', k) = IF sstables'[n + 1].data[k] # None
                                 THEN sstables'[n + 1].data[k] ELSE Lookup(sstables, k)
      <4>1. PICK T, U : T = sstables /\ U = sstables'
        BY Zenon
      <4>2. DOMAIN T = 1 .. n /\ DOMAIN U = 1 .. n + 1
        BY <2>1, <2>3, <4>1, Zenon
      <4>3. \A i \in 1 .. n : U[i].data[k] = T[i].data[k]
        BY <3>1, <4>1, Zenon
      <4>4. Lookup(U, k) = IF U[n + 1].data[k] # None THEN U[n + 1].data[k] ELSE Lookup(T, k)
        BY <4>2, <4>3, ZenonT(30) DEF TableFacts, LookupAppendFact
      <4> QED
        BY <4>1, <4>4, Zenon
    <3> QED
      BY <3>2, <3>3, Zenon
  <2> QED
    BY <2>4, <2>5, Zenon DEF get, Read
<1>3. CASE ClearLog
  <2>1. PICK n \in Nat : n = Len(sstables) /\ DOMAIN sstables = 1 .. n
    BY DEF Types
  <2>2. sstables' = sstables /\ mem'[k] = None /\ n # 0 /\ sstables[n].data = mem
    <3>1. sstables # <<>> /\ sstables[n].data = mem
      BY <1>3, <2>1, Zenon DEF ClearLog, Reads
    <3> QED
      BY <1>3, <2>1, <3>1 DEF ClearLog, tableVars, Empty, Types
  <2>3. mem[k] # None => Lookup(sstables, k) = mem[k]
    <3>1. mem[k] # None => Newest(sstables, n, k, n)
      BY <2>2 DEF Newest
    <3> QED
      BY <2>1, <2>2, <3>1 DEF TableFacts, LookupNewestFact
  <2> QED
    BY <2>2, <2>3, Zenon DEF get, Read
<1>4. CASE FinishCompaction
  <2>1. mem = Empty /\ mem' = mem /\ sstables' = staged /\ mem[k] = None
    BY <1>4, Zenon DEF FinishCompaction, Reads, Comp, Empty, dataVars
  <2>2. Live(Lookup(staged, k)) = Live(Lookup(sstables, k))
    BY <1>4, Zenon DEF FinishCompaction, Reads, Comp, Types, TableFacts,
       MergedReadsFact
  <2> QED
    BY <2>1, <2>2, Zenon DEF get, Read
<1>5. ~Closed /\ ~Crash /\ ~Open
  BY Zenon DEF Closed, Crash, Open, ProcessEnds
<1> QED
  BY <1>1, <1>2, <1>3, <1>4, <1>5, MemKinds, Zenon

(* Reads when the memtable holds the key.                                  *)
LEMMA PutVisible ==
  ASSUME Control, Types, MemtablePut
  PROVE  /\ get(op.key)' = Live(op.val)
         /\ \A k \in Keys : k # op.key => get(k)' = get(k)
<1>1. /\ op.key \in Keys /\ op.val \in Values \cup {Tomb} /\ op' = op /\ sstables' = sstables
      /\ mem' = [mem EXCEPT ![op.key] = op.val]
  BY OpKinds, Zenon DEF MemtablePut, Control, tableVars
<1>2. mem'[op.key] = op.val /\ op.val # None
  BY <1>1, TablesAssumption, Zenon DEF Types, Tables, None, Tomb
<1>3. \A k \in Keys : k # op.key => mem'[k] = mem[k]
  BY <1>1, Zenon DEF Types, Tables
<1> QED
  BY <1>1, <1>2, <1>3, Zenon DEF get, Read

(* The invariant about reads holds at the first start.                     *)
LEMMA ReadsInit == Init => Reads
  BY DEF Init, Reads, Comp, NoOp

(* A call that has reached the memtable is the same call after a step.     *)
LEMMA SameCall ==
  ASSUME Control, [Next]_vars, op'.kind = "put", pc' # "logged"
  PROVE  MemtablePut \/ (op' = op /\ pc \notin {"logged", "down"})
<1> USE DEF Control, Comp
<1>1. CASE UNCHANGED vars
  BY <1>1, OpKinds, Zenon DEF vars
<1>2. ASSUME NEW k \in Keys, NEW v \in Values \cup {Tomb}, AppendEntry(k, v) PROVE FALSE
  BY <1>2, Zenon DEF AppendEntry
<1>3. CASE WriteFails
  BY <1>3, OpKinds, Zenon DEF WriteFails
<1>4. CASE Ack \/ Sync \/ Flush \/ Close
  BY <1>4, OpKinds DEF Ack, Sync, Flush, Close
<1>5. CASE AppendThrows \/ AckThrows \/ FlushThrows \/ WriteOrphans \/ RegisteredThrows
           \/ ClearedThrows \/ Undone
  BY <1>5, OpKinds, Zenon DEF AppendThrows, AckThrows, FlushThrows,
     WriteOrphans, RegisteredThrows,
                       ClearedThrows, Undone, Unwind
<1>6. CASE WriteTable \/ OpenTable \/ ClearLog \/ ClearThrows
  BY <1>6, OpKinds, Zenon DEF WriteTable, OpenTable, ClearLog, ClearThrows
<1>7. CASE NoCompaction \/ FinishCompaction
  BY <1>7, OpKinds, Zenon DEF NoCompaction, FinishCompaction
<1>8. CASE Merge \/ CompactionThrows \/ Undo \/ Publish \/ Published \/ RemoveInput
  BY <1>8, Zenon DEF Merge, CompactionThrows, Undo, Publish, Published,
     RemoveInput
<1>9. CASE Closed \/ Crash \/ Open
  BY <1>9, OpKinds, Zenon DEF Closed, Crash, Open, ProcessEnds
<1> QED
  BY <1>1, <1>2, <1>3, <1>4, <1>5, <1>6, <1>7, <1>8, <1>9, Zenon DEF Next

(* Once in the memtable, a call's own value is what its key reads as.      *)
LEMMA ReadsOwn ==
  ASSUME TableFacts, TablesInv, Reads, [Next]_vars, pc' \notin {"logged", "down"}, op'.kind = "put"
  PROVE  get(op.key)' = Live(op.val)'
<1> USE DEF TablesInv
<1>1. CASE MemtablePut
  BY <1>1, PutVisible, Zenon DEF MemtablePut
<1>2. CASE ~MemtablePut
  <2>1. op' = op /\ pc \notin {"logged", "down"}
    BY <1>2, SameCall, Zenon
  <2>2. op.key \in Keys
    BY <2>1, OpKinds, Zenon DEF Control, Comp
  <2>3. PICK k \in Keys : k = op.key
    BY <2>2, Zenon
  <2>4. get(k)' = get(k)
    BY <1>2, <2>1, GetKept, Zenon
  <2> QED
    BY <2>1, <2>3, <2>4, Zenon DEF Reads, get
<1> QED
  BY <1>1, <1>2, Zenon

(* Every step keeps the invariant about reads, unless an input cannot be   *)
(* reopened.                                                               *)
LEMMA ReadsStep ==
  ASSUME TableFacts, "iterator" \notin Faults, TablesInv, Reads, [Next]_vars
  PROVE  Reads'
<1> USE DEF TablesInv
<1>0. pc' \notin {"logged", "down"} /\ op'.kind = "put" => get(op.key)' = Live(op.val)'
  BY ReadsOwn, Zenon
<1>1. CASE UNCHANGED vars
  BY <1>0, <1>1, Zenon DEF vars, dataVars, tableVars, compVars, Reads, Merges,
     Covers
<1>2. CASE WriteFails
  <2>1. /\ pc' = pc /\ mem' = mem /\ sstables' = sstables /\ staged' = staged
        /\ log # <<>>
    BY <1>2 DEF WriteFails, tableVars, compVars
  <2> QED
    BY <1>0, <2>1, Zenon DEF Reads, Merges, Covers
<1>3. CASE pc' \notin {"registered", "cleared"} \cup Comp
  BY <1>0, <1>3, Zenon DEF Reads, Comp
<1>4. CASE OpenTable
  <2>1. PICK n \in Nat : n = Len(sstables)
    BY DEF Types
  <2>2. PICK e : e = [name |-> <<0, counter - 1>>, data |-> mem]
    BY Zenon
  <2>3. Len(sstables') = n + 1 /\ sstables'[n + 1] = e
    BY <1>4, <2>1, <2>2 DEF OpenTable, Types
  <2>4. e.data = mem /\ mem' = mem /\ pc' = "registered"
    BY <1>4, <2>2, Zenon DEF OpenTable, dataVars
  <2>5. sstables' # <<>>
    BY <2>3
  <2> QED
    BY <1>0, <2>3, <2>4, <2>5, Zenon DEF Reads, Comp
<1>5. CASE ClearLog
  <2>1. pc' = "cleared" /\ mem' = Empty /\ log' = <<>> /\ ~walFailed'
    BY <1>5, Zenon DEF ClearLog
  <2> QED
    BY <1>0, <2>1, Zenon DEF Reads, Comp
<1>6. CASE Merge
  <2>1. /\ pc = "cleared" /\ pc' = "publish" /\ staged' = Outputs(sstables, disk, {})
        /\ mem' = mem /\ log' = log /\ walFailed' = walFailed /\ sstables' = sstables
    BY <1>6, Zenon DEF Merge, Fault, dataVars, tableVars
  <2>2. ASSUME NEW k \in Keys PROVE Lookup(Inputs(sstables, disk, {}), k) = Lookup(sstables, k)
    <3>1. PICK n \in Nat : DOMAIN sstables = 1 .. n
      BY DEF Types
    <3>2. PICK I : I = Inputs(sstables, disk, {})
      BY Zenon
    <3>3. DOMAIN I = 1 .. n /\ \A i \in 1 .. n : I[i].data = disk[sstables[i].name]
      BY <3>1, <3>2, Zenon DEF Inputs, createIterator
    <3>4. \A i \in 1 .. n : I[i].data[k] = sstables[i].data[k]
      BY <2>1, <3>1, <3>3, Zenon DEF Listed, OnDisk
    <3> QED
      BY <3>1, <3>2, <3>3, <3>4 DEF TableFacts, LookupSameFact
  <2>3. PICK O : O = Outputs(sstables, disk, {})
    BY Zenon
  <2>4. Merges(O, Inputs(sstables, disk, {})) /\ Covers(O, Inputs(sstables, disk, {}))
    BY <2>3, Zenon DEF Types, TableFacts, OutputsFact
  <2>5. Merges(O, sstables) /\ Covers(O, sstables)
    BY <2>2, <2>4, Zenon DEF Merges, Covers
  <2>6. Merges(staged, sstables)' /\ Covers(staged, sstables)'
    BY <2>1, <2>3, <2>5, Zenon
  <2> QED
    BY <1>0, <2>1, <2>6, Zenon DEF Reads, Comp
<1>7. CASE CompactionThrows
  <2>1. /\ pc = "publish" /\ pc' = "undo" /\ staged' = SubSeq(staged, 1, done)
        /\ mem' = mem /\ log' = log /\ walFailed' = walFailed /\ sstables' = sstables
        /\ done \in Nat /\ done <= Len(staged)
    BY <1>7, Zenon DEF CompactionThrows, dataVars, tableVars, Types, Staged
  <2>2. /\ DOMAIN staged' = 1 .. done /\ DOMAIN staged = 1 .. Len(staged)
        /\ \A j \in 1 .. done : staged'[j] = staged[j]
    BY <2>1 DEF Types
  <2>3. Merges(staged, sstables)'
    <3>1. \A j \in 1 .. done : j \in DOMAIN staged
      BY <2>1, <2>2
    <3> QED
      BY <2>1, <2>2, <3>1 DEF Reads, Merges, Comp
  <2> QED
    BY <1>0, <2>1, <2>3, Zenon DEF Reads, Comp
<1>8. CASE Undo \/ Publish \/ Published \/ RemoveInput
  <2>1. /\ pc' = pc \/ (pc = "publish" /\ pc' = "remove")
        /\ pc \in Comp
        /\ mem' = mem /\ log' = log /\ walFailed' = walFailed /\ sstables' = sstables
        /\ staged' = staged
    BY <1>8, Zenon DEF Undo, Publish, Published, RemoveInput, dataVars,
       tableVars, Comp
  <2> QED
    BY <1>0, <2>1, Zenon DEF Reads, Merges, Covers, Comp
<1>9. CASE Undone \/ NoCompaction \/ FinishCompaction
  <2>1. pc' \notin {"registered", "cleared"} \cup Comp
    BY <1>9, OpKinds, Zenon DEF Undone, Unwind, NoCompaction,
       FinishCompaction, AfterFlush, Comp,
                         Control
  <2> QED
    BY <1>3, <2>1, Zenon
<1>10. CASE RegisteredThrows \/ ClearThrows \/ ClearedThrows \/ Closed \/ Crash \/ Open
  <2>1. pc' \notin {"registered", "cleared"} \cup Comp
    BY <1>10, Zenon DEF RegisteredThrows, ClearThrows, ClearedThrows, Closed,
       Crash, Open, Unwind,
                 ProcessEnds, Comp
  <2> QED
    BY <1>3, <2>1, Zenon
<1>11. ASSUME NEW k \in Keys, NEW v \in Values \cup {Tomb}, AppendEntry(k, v)
       PROVE  pc' \notin {"registered", "cleared"} \cup Comp
  BY <1>11, Zenon DEF AppendEntry, Comp
<1>12. CASE AppendThrows \/ MemtablePut \/ Ack \/ AckThrows \/ Sync \/ Flush \/ Close
            \/ FlushThrows \/ WriteTable \/ WriteOrphans
  <2>1. pc' \notin {"registered", "cleared"} \cup Comp
    BY <1>12, Zenon DEF AppendThrows, MemtablePut, Ack, AckThrows, Sync,
       Flush, Close, FlushThrows,
                 WriteTable, WriteOrphans, Unwind, Comp
  <2> QED
    BY <1>3, <2>1, Zenon
<1> QED
  BY <1>1, <1>2, <1>3, <1>4, <1>5, <1>6, <1>7, <1>8, <1>9, <1>10, <1>11,
     <1>12, Zenon DEF Next

(* At the first start the log replays to the memtable.                     *)
LEMMA LoggedInit ==
  ASSUME TableFacts, Init
  PROVE  Logged
  BY Zenon DEF Init, Logged, TableFacts, ReplayEmptyFact

(* Unless an append can throw with its record in the log, every step keeps *)
(* the log in agreement with the memtable.                                 *)
LEMMA LoggedStep ==
  ASSUME TableFacts, "append" \notin Faults, Control, Types, Logged, [Next]_vars
  PROVE  Logged'
<1>1. CASE /\ UNCHANGED <<log, mem, walFailed>>
           /\ pc' \in {"down", "broken"} \/ (pc' # "logged" /\ pc \notin {"logged", "down", "broken"})
  BY <1>1, Zenon DEF Logged
<1>2. CASE UNCHANGED vars
  BY <1>2, Zenon DEF vars, dataVars, Logged
<1>3. ASSUME NEW x \in Keys, NEW v \in Values \cup {Tomb}, AppendEntry(x, v)
      PROVE  Logged'
  <2>1. PICK r \in Records : r = [key |-> x, val |-> v, stable |-> FALSE]
    BY Zenon DEF Records
  <2>2. /\ pc = "idle" /\ pc' = "logged" /\ ~walFailed /\ mem' = mem
        /\ log' = Append(log, r) /\ r.key = x /\ r.val = v /\ op'.key = x /\ op'.val = v
    BY <1>3, <2>1, Zenon DEF AppendEntry, PutOp
  <2>3. ASSUME NEW k \in Keys
        PROVE  recoverFromWAL(log')[k] = IF x = k THEN v ELSE recoverFromWAL(log)[k]
    BY <2>2 DEF Types, TableFacts, ReplayAppendFact
  <2> QED
    BY <2>2, <2>3, Zenon DEF Logged
<1>4. CASE MemtablePut
  <2>1. /\ pc = "logged" /\ pc' \in {"ack", "flush"} /\ log' = log /\ walFailed' = walFailed
        /\ op' = op /\ op.key \in Keys /\ mem' = [mem EXCEPT ![op.key] = op.val]
    BY <1>4, OpKinds, Zenon DEF MemtablePut, Control
  <2>2. \A k \in Keys : mem'[k] = IF k = op.key THEN op.val ELSE mem[k]
    BY <2>1, Zenon DEF Types, Tables
  <2> QED
    BY <2>1, <2>2, Zenon DEF Logged
<1>5. CASE Ack \/ Sync
  <2>1. /\ pc \in {"ack", "idle"} /\ pc' = "idle" /\ mem' = mem /\ walFailed' = walFailed
        /\ log' \in {log, Stable(log)}
    BY <1>5, Zenon DEF Ack, Sync
  <2>2. \A k \in Keys : recoverFromWAL(log')[k] = recoverFromWAL(log)[k]
    BY <2>1, Zenon DEF Types, TableFacts, ReplayStableFact
  <2> QED
    BY <2>1, <2>2, Zenon DEF Logged
<1>6. CASE WriteFails
  BY <1>6, Zenon DEF WriteFails, Logged
<1>7. CASE ClearLog
  <2>1. pc' = "cleared" /\ log' = <<>> /\ mem' = Empty
    BY <1>7, Zenon DEF ClearLog
  <2> QED
    BY <2>1, Zenon DEF Logged, TableFacts, ReplayEmptyFact
<1>8. CASE ClearThrows \/ Closed \/ Crash
  BY <1>8, Zenon DEF ClearThrows, Closed, Crash, ProcessEnds, Logged
<1>9. CASE Open
  <2>1. pc' = "idle" /\ mem' = recoverFromWAL(log) /\ log' = log
    BY <1>9, Zenon DEF Open
  <2> QED
    BY <2>1, Zenon DEF Logged
<1>10. CASE AppendThrows
  BY <1>10, Zenon DEF AppendThrows, Fault
<1>11. CASE AckThrows \/ FlushThrows \/ WriteOrphans \/ RegisteredThrows \/ ClearedThrows
            \/ Undone
  BY <1>1, <1>11, Zenon DEF AckThrows, FlushThrows, WriteOrphans,
     RegisteredThrows, ClearedThrows,
                     Undone, Unwind, dataVars
<1>12. CASE Flush \/ Close \/ WriteTable \/ OpenTable
  BY <1>1, <1>12, Zenon DEF Flush, Close, WriteTable, OpenTable, dataVars
<1>13. CASE NoCompaction \/ FinishCompaction
  <2>1. pc \in {"cleared", "remove"} /\ pc' \in {"ack", "idle", "closing"}
    BY <1>13, OpKinds, Zenon DEF NoCompaction, FinishCompaction, AfterFlush,
       Control, Comp
  <2> QED
    BY <1>1, <1>13, <2>1, Zenon DEF NoCompaction, FinishCompaction, dataVars
<1>14. CASE Merge \/ CompactionThrows \/ Undo \/ Publish \/ Published \/ RemoveInput
  BY <1>1, <1>14, Zenon DEF Merge, CompactionThrows, Undo, Publish, Published,
     RemoveInput, dataVars
<1> QED
  BY <1>2, <1>3, <1>4, <1>5, <1>6, <1>7, <1>8, <1>9, <1>10, <1>11, <1>12,
     <1>13, <1>14, Zenon
     DEF Next

(* A restart loads the listed tables when the directory holds no other.    *)
LEMMA LoadsTheList ==
  ASSUME TableFacts, TablesInv, pc # "remove", DOMAIN disk = ListNames(sstables)
  PROVE  loadSSTables(disk) = sstables
<1> USE DEF TablesInv
<1>1. PICK n \in Nat : n = Len(sstables) /\ DOMAIN sstables = 1 .. n
  BY DEF Types
<1>2. PICK R : R = [name : DOMAIN disk, data : {disk[f] : f \in DOMAIN disk}]
  BY Zenon
<1>3. ASSUME NEW i \in 1 .. n
      PROVE  sstables[i] \in R /\ sstables[i].data = disk[sstables[i].name]
  <2>1. OnDisk(sstables[i]) /\ sstables[i] \in TableRecs
    BY <1>1, SMTT(30) DEF Listed, Types
  <2>2. /\ sstables[i].name \in DOMAIN disk
        /\ sstables[i].data = disk[sstables[i].name]
    BY <2>1, Zenon DEF OnDisk
  <2>3. sstables[i].data \in {disk[f] : f \in DOMAIN disk}
    BY <2>2, Zenon
  <2>4. sstables[i] = [name |-> sstables[i].name, data |-> sstables[i].data]
    BY <2>1, Zenon DEF TableRecs
  <2> QED
    BY <1>2, <2>2, <2>3, <2>4, Zenon
<1>4. sstables \in [1 .. n -> R]
  BY <1>1, <1>3 DEF Types
<1>5. \A f \in DOMAIN disk : \E i \in 1 .. n : sstables[i].name = f
  BY <1>1, Zenon DEF ListNames
<1>6. \A i, j \in 1 .. n : i < j => LoadsBefore(sstables[i].name, sstables[j].name)
  BY <1>1, Zenon DEF Listed, Sorted
<1>7. DOMAIN disk \subseteq Names
  BY Zenon DEF Types, Files
<1> QED
  <2>1. ListsFiles(disk, sstables, n)
    BY <1>2, <1>3, <1>4, <1>5, <1>6, Zenon DEF ListsFiles
  <2> QED
    BY <1>7, <2>1, Zenon DEF TableFacts, LoadsListedFact

(* If a listed table decides, it is the newest listed one with an entry.   *)
LEMMA ListedDecides ==
  ASSUME TableFacts, TablesInv, NEW k \in Keys, NEW i \in DOMAIN sstables, pc = "remove" => i > done,
         Decides(disk, k, sstables[i].name)
  PROVE  Lookup(sstables, k) = disk[sstables[i].name][k]
<1> USE DEF TablesInv
<1>1. PICK n \in Nat : n = Len(sstables) /\ DOMAIN sstables = 1 .. n
  BY DEF Types
<1>2. OnDisk(sstables[i])
  BY Zenon DEF Listed
<1>3. ASSUME NEW j \in 1 .. n, j > i, sstables[j].data[k] # None PROVE FALSE
  <2>1. OnDisk(sstables[j]) /\ LoadsBefore(sstables[i].name, sstables[j].name)
    <3>1. pc = "remove" => j > done
      BY <1>1, <1>3 DEF Types
    <3> QED
      BY <1>1, <1>3, <3>1, Zenon DEF Listed, Sorted
  <2>2. /\ sstables[i].name[1] \in {0, 1} /\ sstables[i].name[2] \in Nat
        /\ sstables[j].name[1] \in {0, 1} /\ sstables[j].name[2] \in Nat
    BY <1>1, EntryParts, Zenon DEF Types
  <2>3. ~LoadsBefore(sstables[j].name, sstables[i].name) /\ sstables[j].name # sstables[i].name
    BY <2>1, <2>2 DEF LoadsBefore
  <2> QED
    BY <1>3, <2>1, <2>3, Zenon DEF Decides, OnDisk
<1>4. Newest(sstables, n, k, i)
  BY <1>1, <1>2, <1>3, Zenon DEF Newest, OnDisk, Decides
<1> QED
  BY <1>1, <1>2, <1>4 DEF OnDisk, TableFacts, LookupNewestFact

(* During a compaction the files are listed tables and its outputs.        *)
LEMMA CompactionFiles ==
  ASSUME TablesInv, Residue, pc \in Comp, NEW f \in DOMAIN disk
  PROVE  \/ \E i \in DOMAIN sstables : f = sstables[i].name /\ (pc = "remove" => i > done)
         \/ \E j \in DOMAIN staged : f = staged[j].name /\ OnDisk(staged[j])
<1> USE DEF TablesInv
<1>1. PICK n \in Nat : n = Len(sstables) /\ DOMAIN sstables = 1 .. n
  BY DEF Types
<1>2. PICK m \in Nat : m = Len(staged) /\ DOMAIN staged = 1 .. m
  BY DEF Types
<1>3. done \in Nat
  BY Zenon DEF Types
<1>4. CASE pc = "publish"
  <2>1. f \in ListNames(sstables) \/ \E j \in 1 .. done : f = staged[j].name
    BY <1>4, Zenon DEF Residue, StagedNames
  <2> QED
    BY <1>2, <1>3, <1>4, <2>1 DEF ListNames, Staged
<1>5. CASE pc = "undo"
  <2>1. f \in ListNames(sstables) \/ \E j \in done + 1 .. m : f = staged[j].name
    BY <1>2, <1>5, Zenon DEF Residue, StagedNames
  <2> QED
    BY <1>2, <1>3, <1>5, <2>1 DEF ListNames, Staged
<1>6. CASE pc = "remove"
  <2>1. \/ \E i \in done + 1 .. n : f = sstables[i].name
        \/ \E j \in 1 .. m : f = staged[j].name
    BY <1>1, <1>2, <1>6 DEF Residue, StagedNames
  <2> QED
    BY <1>1, <1>2, <1>3, <1>6, <2>1, SMTT(30) DEF Staged
<1> QED
  BY <1>4, <1>5, <1>6, Zenon DEF Comp

(* In the middle of a compaction the files show what the table list shows. *)
LEMMA CompactionReads ==
  ASSUME TableFacts, TablesInv, Residue, Reads, pc \in Comp, NEW k \in Keys
  PROVE  Live(Lookup(loadSSTables(disk), k)) = Live(Lookup(sstables, k))
<1> USE DEF TablesInv
<1>1. CASE (\A f \in DOMAIN disk : disk[f][k] = None) /\ Lookup(loadSSTables(disk), k) = None
  <2>1. PICK n \in Nat : n = Len(sstables) /\ DOMAIN sstables = 1 .. n
    BY DEF Types
  <2>2. CASE pc = "remove"
    <3>1. \A j \in DOMAIN staged : staged[j].data[k] = None
      BY <1>1, <2>2, Zenon DEF Staged, OnDisk
    <3>2. Lookup(sstables, k) \notin Values
      BY <2>2, <3>1, Zenon DEF Reads, Covers
    <3>3. Lookup(sstables, k) \in Cells
      BY Zenon DEF Types, TableFacts, LookupTypedFact
    <3> QED
      BY <1>1, <3>2, <3>3, Zenon DEF Live, Cells
  <2>3. CASE pc # "remove"
    <3>1. \A i \in 1 .. n : sstables[i].data[k] = None
      BY <1>1, <2>1, <2>3 DEF Listed, OnDisk
    <3>2. Lookup(sstables, k) = None
      BY <2>1, <3>1, Zenon DEF TableFacts, LookupNoneFact
    <3> QED
      BY <1>1, <3>2, Zenon
  <2> QED
    BY <2>2, <2>3, Zenon
<1>2. ASSUME NEW f \in DOMAIN disk, Decides(disk, k, f)
      PROVE  disk[f][k] = Lookup(sstables, k)
  <2>1. CASE \E i \in DOMAIN sstables : f = sstables[i].name /\ (pc = "remove" => i > done)
    BY <1>2, <2>1, ListedDecides, Zenon
  <2>2. CASE \E j \in DOMAIN staged : f = staged[j].name /\ OnDisk(staged[j])
    <3>1. PICK j \in DOMAIN staged : f = staged[j].name /\ OnDisk(staged[j])
      BY <2>2, Zenon
    <3>2. staged[j].data[k] = disk[f][k] /\ disk[f][k] # None
      BY <1>2, <3>1, Zenon DEF OnDisk, Decides
    <3> QED
      BY <3>1, <3>2, Zenon DEF Reads, Merges
  <2> QED
    BY <2>1, <2>2, CompactionFiles, Zenon
<1> QED
  BY <1>1, <1>2, Zenon DEF Types, TableFacts, DecidingFileFact

(* While a table has its name and is not listed yet, the memtable's        *)
(* entries come first.                                                     *)
LEMMA WrittenReads ==
  ASSUME TableFacts, TablesInv, Residue, pc = "written", NEW k \in Keys
  PROVE  Live(Lookup(loadSSTables(disk), k)) = get(k)
<1> USE DEF TablesInv
<1>1. PICK n \in Nat : n = Len(sstables) /\ DOMAIN sstables = 1 .. n
  BY DEF Types
<1>2. PICK t : t = <<0, counter - 1>>
  BY ZenonT(30)
<1>3. /\ t \in DOMAIN disk /\ disk[t] = mem /\ DOMAIN disk = ListNames(sstables) \cup {t}
      /\ counter - 1 \in Nat /\ t[1] = 0 /\ t[2] = counter - 1
  BY <1>2, SMTT(30) DEF Listed, OnDisk, Residue, Types
<1>4. ASSUME NEW i \in 1 .. n
      PROVE  OnDisk(sstables[i]) /\ LoadsBefore(sstables[i].name, t) /\ sstables[i].name # t
  <2>1. OnDisk(sstables[i]) /\ (sstables[i].name[1] = 0 => sstables[i].name[2] < counter - 1)
    BY <1>1, Zenon DEF Listed
  <2>2. sstables[i].name[1] \in {0, 1} /\ sstables[i].name[2] \in Nat
    BY <1>1, EntryParts, Zenon DEF Types
  <2> QED
    BY <1>3, <2>1, <2>2 DEF LoadsBefore
<1>5. \A f \in DOMAIN disk : f = t \/ \E i \in 1 .. n : f = sstables[i].name
  BY <1>1, <1>3, Zenon DEF ListNames
<1>6. CASE mem[k] # None
  <2>1. Decides(disk, k, t)
    BY <1>3, <1>4, <1>5, <1>6, Zenon DEF Decides
  <2>2. Lookup(loadSSTables(disk), k) = mem[k]
    BY <1>3, <2>1, Zenon DEF Decides, Types, Files, TableFacts, LoadsLookupFact
  <2> QED
    BY <1>6, <2>2, Zenon DEF get, Read
<1>7. CASE mem[k] = None
  <2>1. CASE (\A f \in DOMAIN disk : disk[f][k] = None) /\ Lookup(loadSSTables(disk), k) = None
    <3>1. \A i \in 1 .. n : sstables[i].data[k] = None
      BY <1>4, <2>1, Zenon DEF OnDisk
    <3>2. Lookup(sstables, k) = None
      BY <1>1, <3>1, Zenon DEF TableFacts, LookupNoneFact
    <3> QED
      BY <1>7, <2>1, <3>2, Zenon DEF get, Read
  <2>2. ASSUME NEW f \in DOMAIN disk, Decides(disk, k, f)
        PROVE  disk[f][k] = Lookup(sstables, k)
    <3>1. PICK i \in DOMAIN sstables : f = sstables[i].name
      BY <1>1, <1>3, <1>5, <1>7, <2>2, Zenon DEF Decides
    <3> QED
      BY <2>2, <3>1, ListedDecides, Zenon
  <2> QED
    BY <1>7, <2>1, <2>2, Zenon DEF get, Read, Types, TableFacts,
       DecidingFileFact
<1> QED
  BY <1>6, <1>7, Zenon

(* The files show what the table list shows, but between the write of a    *)
(* table and its listing.                                                  *)
LEMMA DiskReads ==
  ASSUME TableFacts, TablesInv, Residue, Reads, pc \notin {"down", "written"}, NEW k \in Keys
  PROVE  Live(Lookup(loadSSTables(disk), k)) = Live(Lookup(sstables, k))
<1>1. CASE pc \in Comp
  BY <1>1, CompactionReads, Zenon
<1>2. CASE pc \notin Comp
  BY <1>2, LoadsTheList, Zenon DEF Residue, Comp
<1> QED
  BY <1>1, <1>2, Zenon

(* A registered table shows what the memtable shows.                       *)
LEMMA RegisteredReads ==
  ASSUME TableFacts, TablesInv, Reads, pc \in {"registered", "cleared"} \cup Comp, NEW k \in Keys
  PROVE  Live(Lookup(sstables, k)) = get(k)
<1>1. CASE pc = "registered"
  <2>1. PICK n \in Nat : n = Len(sstables) /\ DOMAIN sstables = 1 .. n
    BY DEF TablesInv, Types
  <2>2. n # 0 /\ sstables[n].data = mem
    <3>1. sstables # <<>> /\ sstables[n].data = mem
      BY <1>1, <2>1, Zenon DEF Reads
    <3> QED
      BY <2>1, <3>1 DEF TablesInv, Types
  <2>3. mem[k] # None => Newest(sstables, n, k, n)
    BY <2>2, SMTT(30) DEF Newest
  <2>4. mem[k] # None => Lookup(sstables, k) = mem[k]
    BY <2>1, <2>2, <2>3 DEF TableFacts, LookupNewestFact
  <2> QED
    BY <2>4, Zenon DEF get, Read
<1>2. CASE pc # "registered"
  BY <1>2, Zenon DEF Reads, Empty, get, Read
<1> QED
  BY <1>1, <1>2, Zenon

(* At the first start the log replays to the memtable.                     *)
LEMMA DoubtsInit ==
  ASSUME TableFacts, Init
  PROVE  Doubts
  BY Zenon DEF Init, Doubts, TableFacts, ReplayEmptyFact

(* A call that throws leaves its value in doubt.                           *)
LEMMA UnwindDoubt ==
  ASSUME Types, op \in PutOps \cup {NoOp, FlushOp, CloseOp}, Unwind
  PROVE  /\ pc' \in {"idle", "closing"}
         /\ \A k \in Keys : doubt[k] \subseteq doubt'[k]
         /\ op.kind = "put" => op.key \in Keys /\ Live(op.val) \in doubt'[op.key]
<1>1. CASE op.kind = "put"
  <2>1. op.key \in Keys
    BY <1>1, OpKinds, Zenon
  <2> QED
    BY <1>1, <2>1, Zenon DEF Types, Unwind
<1>2. CASE op.kind # "put"
  BY <1>2, Zenon DEF Types, Unwind
<1> QED
  BY <1>1, <1>2, Zenon

(* Every step keeps the log in agreement with the memtable but for values  *)
(* in doubt.                                                               *)
LEMMA DoubtsStep ==
  ASSUME TableFacts, Control, Types, Reads, Doubts, [Next]_vars
  PROVE  Doubts'
<1>1. CASE UNCHANGED vars
  BY <1>1, Zenon DEF vars, dataVars, ghostVars, Doubts
<1>2. ASSUME NEW x \in Keys, NEW v \in Values \cup {Tomb}, AppendEntry(x, v)
      PROVE  Doubts'
  <2>1. PICK r \in Records : r = [key |-> x, val |-> v, stable |-> FALSE]
    BY Zenon DEF Records
  <2>2. /\ pc = "idle" /\ pc' = "logged" /\ ~walFailed /\ mem' = mem /\ doubt' = doubt
        /\ log' = Append(log, r) /\ r.key = x /\ r.val = v /\ op'.key = x /\ op'.val = v
    BY <1>2, <2>1, Zenon DEF AppendEntry, PutOp
  <2>3. ASSUME NEW k \in Keys
        PROVE  recoverFromWAL(log')[k] = IF x = k THEN v ELSE recoverFromWAL(log)[k]
    BY <2>2 DEF Types, TableFacts, ReplayAppendFact
  <2> QED
    BY <2>2, <2>3, Zenon DEF Doubts
<1>3. CASE MemtablePut
  <2>1. /\ pc = "logged" /\ pc' \in {"ack", "flush"} /\ log' = log /\ walFailed' = walFailed
        /\ op' = op /\ op.key \in Keys /\ mem' = [mem EXCEPT ![op.key] = op.val]
        /\ doubt' = doubt
    BY <1>3, OpKinds, Zenon DEF MemtablePut, Control, ghostVars
  <2>2. \A k \in Keys : mem'[k] = IF k = op.key THEN op.val ELSE mem[k]
    BY <2>1, Zenon DEF Types, Tables
  <2> QED
    BY <2>1, <2>2, Zenon DEF Doubts
<1>4. CASE Ack
  <2>1. /\ pc = "ack" /\ pc' = "idle" /\ mem' = mem /\ walFailed' = walFailed
        /\ log' \in {log, Stable(log)} /\ doubt' = [doubt EXCEPT ![op.key] = {}]
        /\ op.key \in Keys /\ op.kind = "put"
    BY <1>4, OpKinds, Zenon DEF Ack, Control
  <2>2. \A k \in Keys : recoverFromWAL(log')[k] = recoverFromWAL(log)[k]
    BY <2>1, Zenon DEF Types, TableFacts, ReplayStableFact
  <2>3. \A k \in Keys : k # op.key => doubt'[k] = doubt[k]
    BY <2>1, Zenon DEF Types
  <2>4. ~walFailed => recoverFromWAL(log)[op.key] = mem[op.key]
    BY <2>1, Zenon DEF Doubts, TableFacts, ReplayEmptyFact
  <2> QED
    BY <2>1, <2>2, <2>3, <2>4, Zenon DEF Doubts
<1>5. CASE Sync
  <2>1. /\ pc = "idle" /\ pc' = "idle" /\ mem' = mem /\ walFailed' = walFailed
        /\ log' = Stable(log) /\ doubt' = doubt
    BY <1>5, Zenon DEF Sync
  <2>2. \A k \in Keys : recoverFromWAL(log')[k] = recoverFromWAL(log)[k]
    BY <2>1, Zenon DEF Types, TableFacts, ReplayStableFact
  <2> QED
    BY <2>1, <2>2, Zenon DEF Doubts
<1>6. CASE WriteFails
  BY <1>6, Zenon DEF WriteFails, Doubts
<1>7. CASE ClearLog
  <2>1. pc' = "cleared" /\ log' = <<>> /\ mem' = Empty
    BY <1>7, Zenon DEF ClearLog
  <2> QED
    BY <2>1, Zenon DEF Doubts, TableFacts, ReplayEmptyFact
<1>8. CASE ClearThrows \/ Closed \/ Crash
  <2>1. pc' \in {"broken", "down"}
    BY <1>8, Zenon DEF ClearThrows, Closed, Crash, ProcessEnds
  <2> QED
    BY <2>1, Zenon DEF Doubts
<1>9. CASE Open
  <2>1. pc' = "idle" /\ mem' = recoverFromWAL(log) /\ log' = log
    BY <1>9, Zenon DEF Open
  <2> QED
    BY <2>1, Zenon DEF Doubts
<1>10. CASE AppendThrows
  <2>1. /\ pc = "logged" /\ Unwind /\ log' = log /\ mem' = mem /\ walFailed' = walFailed
        /\ op \in PutOps
    BY <1>10, Zenon DEF AppendThrows, dataVars, Control
  <2>2. op.kind = "put" /\ op.val # None
    BY <2>1, OpKinds, TablesAssumption, Zenon DEF Tomb, None
  <2>3. /\ pc' \in {"idle", "closing"} /\ \A k \in Keys : doubt[k] \subseteq doubt'[k]
        /\ Live(op.val) \in doubt'[op.key]
    BY <2>1, <2>2, UnwindDoubt, Zenon
  <2> QED
    BY <2>1, <2>2, <2>3, Zenon DEF Doubts
<1>11. CASE AckThrows \/ FlushThrows \/ WriteOrphans \/ RegisteredThrows \/ ClearedThrows
            \/ Undone
  <2>1. /\ pc \notin {"logged", "down", "broken"} /\ Unwind
        /\ log' = log /\ mem' = mem /\ walFailed' = walFailed
        /\ op \in PutOps \cup {NoOp, FlushOp, CloseOp}
    BY <1>11, Zenon DEF AckThrows, FlushThrows, WriteOrphans,
       RegisteredThrows, ClearedThrows, Undone,
                 dataVars, Control, Comp
  <2>2. pc' \in {"idle", "closing"} /\ \A k \in Keys : doubt[k] \subseteq doubt'[k]
    BY <2>1, UnwindDoubt, Zenon
  <2> QED
    BY <2>1, <2>2, Zenon DEF Doubts
<1>12. CASE Flush \/ Close
  <2>1. /\ pc = "idle" /\ pc' \in {"flush", "closing"} /\ op'.kind # "put"
        /\ log' = log /\ mem' = mem /\ walFailed' = walFailed /\ doubt' = doubt
    BY <1>12 DEF Flush, Close, dataVars, ghostVars
  <2> QED
    BY <2>1, Zenon DEF Doubts
<1>13. CASE WriteTable \/ OpenTable
  <2>1. /\ pc \in {"flush", "written"} /\ pc' \in {"written", "registered"} /\ op' = op
        /\ log' = log /\ mem' = mem /\ walFailed' = walFailed /\ doubt' = doubt
    BY <1>13, Zenon DEF WriteTable, OpenTable, dataVars, ghostVars
  <2> QED
    BY <2>1, Zenon DEF Doubts
<1>14. CASE NoCompaction \/ FinishCompaction
  <2>1. pc \in {"cleared", "remove"} /\ pc' \in {"ack", "idle", "closing"}
    BY <1>14, OpKinds, Zenon DEF NoCompaction, FinishCompaction, AfterFlush,
       Control, Comp
  <2>2. /\ log' = log /\ mem' = mem /\ log = <<>> /\ mem = Empty
    BY <1>14, <2>1, Zenon DEF NoCompaction, FinishCompaction, dataVars, Reads,
       Comp
  <2> QED
    BY <2>1, <2>2, Zenon DEF Doubts, TableFacts, ReplayEmptyFact
<1>15. CASE Merge \/ CompactionThrows \/ Undo \/ Publish \/ Published \/ RemoveInput
  <2>1. /\ pc \in {"cleared"} \cup Comp /\ pc' \in Comp
        /\ log' = log /\ mem' = mem /\ walFailed' = walFailed /\ doubt' = doubt
    BY <1>15, Zenon DEF Merge, CompactionThrows, Undo, Publish, Published,
       RemoveInput, dataVars,
                 ghostVars, Comp
  <2> QED
    BY <2>1, Zenon DEF Doubts, Comp
<1> QED
  BY <1>1, <1>2, <1>3, <1>4, <1>5, <1>6, <1>7, <1>8, <1>9, <1>10, <1>11,
     <1>12, <1>13,
     <1>14, <1>15, Zenon DEF Next

(* What the files show follows from the table list and the reads.          *)
LEMMA DiskShowsReads ==
  ASSUME TableFacts, TablesInv, Residue, Reads
  PROVE  DiskShows
  BY DiskReads, WrittenReads, RegisteredReads, Zenon DEF DiskShows, Comp

(* At the first start a crash would leave what callers expect.             *)
LEMMA SafeInit ==
  ASSUME TableFacts, Init, DiskShows
  PROVE  Safe
<1>1. ASSUME NEW k \in Keys
      PROVE  get(k) = Absent /\ Live(Lookup(sstables, k)) = Absent /\ may[k] = {Absent}
  <2>1. sstables = <<>> /\ mem[k] = None /\ may[k] = {Absent}
    BY Zenon DEF Init, Empty
  <2>2. Lookup(sstables, k) = None
    BY <2>1 DEF TableFacts, LookupNoneFact
  <2> QED
    BY <2>1, <2>2, Zenon DEF get, Read, Live
<1>2. log = <<>> /\ pc = "idle"
  BY Zenon DEF Init
<1> QED
  BY <1>1, <1>2 DEF Safe, Bounded, DiskShows

(* Steps that leave the log and the contract alone.                        *)
LEMMA SafeQuiet ==
  ASSUME DiskShows', Safe, UNCHANGED <<log, may>>,
         disk' = disk \/ pc' \in {"written"} \cup Comp,
         pc' # "logged" \/ (pc = "logged" /\ op' = op),
         pc' # "down", \A k \in Keys : get(k)' \in may[k]
  PROVE  Safe'
<1>1. Bounded(log, disk, may)'
  <2>1. CASE disk' = disk
    BY <2>1, Zenon DEF Safe
  <2>2. CASE pc' \in {"written"} \cup Comp
    <3>1. \A k \in Keys : Live(Lookup(loadSSTables(disk'), k)) \in may'[k]
      BY <2>2, Zenon DEF DiskShows
    <3>2. \A i \in DOMAIN log : Exposed(log, log[i].key, i) => Live(log[i].val) \in may[log[i].key]
      BY Zenon DEF Safe, Bounded
    <3> QED
      BY <3>1, <3>2, Zenon DEF Bounded
  <2> QED
    BY <2>1, <2>2, Zenon
<1> QED
  BY <1>1, Zenon DEF Safe

(* The steps of put(), del() and sync() keep a crash safe.                 *)
LEMMA SafeCalls ==
  ASSUME TableFacts, TablesInv, Reads, Doubts, DiskShows, Safe,
         MemtablePut \/ Ack \/ Sync \/ \E x \in Keys, v \in Values \cup {Tomb} : AppendEntry(x, v)
  PROVE  Safe'
<1> USE DEF TablesInv
<1>1. CASE MemtablePut
  <2>1. /\ pc = "logged" /\ pc' \in {"ack", "flush"} /\ log' = log /\ may' = may /\ disk' = disk
        /\ op.key \in Keys
    BY <1>1, OpKinds, Zenon DEF MemtablePut, tableVars, ghostVars, Control
  <2>2. \A k \in Keys : get(k)' \in may[k]
    <3> TAKE k \in Keys
    <3>1. CASE k = op.key
      <4>1. get(k)' = get(op.key)'
        BY <1>1, <3>1, Zenon DEF MemtablePut, get
      <4> QED
        BY <1>1, <2>1, <3>1, <4>1, PutVisible, Zenon DEF Safe
    <3>2. CASE k # op.key
      BY <1>1, <2>1, <3>2, PutVisible, Zenon DEF Safe
    <3> QED
      BY <3>1, <3>2, Zenon
  <2> QED
    BY <2>1, <2>2, Zenon DEF Safe
<1>2. ASSUME NEW x \in Keys, NEW v \in Values \cup {Tomb}, AppendEntry(x, v)
      PROVE  Safe'
  <2>1. PICK r \in Records : r = [key |-> x, val |-> v, stable |-> FALSE]
    BY Zenon DEF Records
  <2>2. /\ log' = Append(log, r) /\ ~r.stable /\ r.key = x /\ r.val = v
        /\ may' = [may EXCEPT ![x] = @ \cup {Live(v)}] /\ disk' = disk
        /\ pc = "idle" /\ pc' = "logged" /\ op'.key = x /\ op'.val = v
        /\ mem' = mem /\ sstables' = sstables
    BY <1>2, <2>1, Zenon DEF AppendEntry, PutOp, tableVars
  <2>3. Bounded(log', disk, may')
    BY <2>2, Zenon DEF Types, Safe, TableFacts, BoundedAppendFact
  <2>4. Live(v) \in may'[x] /\ \A k \in Keys : may[k] \subseteq may'[k]
    BY <2>2, Zenon DEF Types
  <2>5. \A k \in Keys : get(k)' = get(k)
    BY <2>2, Zenon DEF get
  <2> QED
    BY <2>2, <2>3, <2>4, <2>5, Zenon DEF Safe
<1>3. ASSUME Ack \/ Sync, log' = Stable(log), ~walFailed, pc \in {"idle", "ack"}
      PROVE  \A k \in Keys : \/ recoverFromWAL(log)[k] = mem[k]
                             \/ recoverFromWAL(log)[k] # None /\ Live(recoverFromWAL(log)[k]) \in doubt[k]
  BY <1>3, Zenon DEF Doubts
<1>4. CASE Ack /\ ~Durable
  <2>1. /\ log' = log /\ may' = may /\ disk' = disk /\ mem' = mem /\ sstables' = sstables
        /\ pc' = "idle" /\ pc = "ack"
    BY <1>4, Zenon DEF Ack, tableVars
  <2>2. \A k \in Keys : get(k)' = get(k)
    BY <2>1, Zenon DEF get
  <2> QED
    BY <2>1, <2>2, Zenon DEF Safe
<1>5. CASE Ack /\ Durable
  <2>1. /\ log' = Stable(log) /\ may' = [may EXCEPT ![op.key] = {Live(op.val)}]
        /\ disk' = disk /\ mem' = mem /\ sstables' = sstables /\ ~walFailed
        /\ pc = "ack" /\ pc' = "idle" /\ op.key \in Keys /\ op.kind = "put"
    BY <1>5, OpKinds, Zenon DEF Ack, tableVars, Control
  <2>2. /\ may'[op.key] = {Live(op.val)} /\ get(op.key) = Live(op.val)
        /\ \A k \in Keys : k # op.key => may'[k] = may[k]
    BY <2>1, Zenon DEF Types, Reads
  <2>3. \A k \in Keys : get(k)' = get(k)
    BY <2>1, Zenon DEF get
  <2>4. ASSUME NEW k \in Keys PROVE Read(recoverFromWAL(log), loadSSTables(disk), k) \in may'[k]
    <3>1. CASE k # op.key
      BY <2>2, <3>1, Zenon DEF Safe, Types, TableFacts, BoundedReplayFact
    <3>2. CASE k = op.key /\ recoverFromWAL(log)[k] = op.val /\ mem[k] = op.val
      <4>1. op.val # None
        BY <2>1, OpKinds, TablesAssumption, Zenon DEF Control, Tomb, None
      <4> QED
        BY <2>2, <3>2, <4>1, Zenon DEF Read
    <3>3. CASE k = op.key /\ log = <<>> /\ mem = Empty
      <4>1. recoverFromWAL(log)[k] = None /\ mem[k] = None
        BY <3>3, Zenon DEF Empty, TableFacts, ReplayEmptyFact
      <4>2. Live(Lookup(loadSSTables(disk), k)) = get(k)
        BY <2>1, <4>1, Zenon DEF DiskShows, get, Read
      <4> QED
        BY <2>2, <3>3, <4>1, <4>2, Zenon DEF Read
    <3> QED
      BY <2>1, <3>1, <3>2, <3>3, Zenon DEF Doubts
  <2>5. Bounded(log', disk, may')
    BY <2>1, <2>4, Zenon DEF Types, TableFacts, BoundedStableFact
  <2> QED
    BY <2>1, <2>2, <2>3, <2>5, Zenon DEF Safe
<1>6. CASE Sync
  <2>1. /\ log' = Stable(log) /\ may' = [k \in Keys |-> {get(k)} \cup doubt[k]]
        /\ disk' = disk /\ mem' = mem /\ sstables' = sstables /\ ~walFailed
        /\ pc = "idle" /\ pc' = "idle"
    BY <1>6, Zenon DEF Sync, tableVars
  <2>2. \A k \in Keys : may'[k] = {get(k)} \cup doubt[k] /\ get(k)' = get(k)
    BY <2>1, Zenon DEF get
  <2>3. ASSUME NEW k \in Keys PROVE Read(recoverFromWAL(log), loadSSTables(disk), k) \in may'[k]
    <3>1. CASE recoverFromWAL(log)[k] # None /\ Live(recoverFromWAL(log)[k]) \in doubt[k]
      BY <2>2, <3>1, Zenon DEF Read
    <3>2. CASE recoverFromWAL(log)[k] = mem[k] /\ mem[k] # None
      BY <2>2, <3>2, Zenon DEF Read, get
    <3>3. CASE recoverFromWAL(log)[k] = mem[k] /\ mem[k] = None
      <4>1. Live(Lookup(loadSSTables(disk), k)) = get(k)
        BY <2>1, <3>3, Zenon DEF DiskShows, get, Read
      <4> QED
        BY <2>2, <3>3, <4>1, Zenon DEF Read
    <3> QED
      BY <1>3, <1>6, <2>1, <3>1, <3>2, <3>3, Zenon
  <2>4. Bounded(log', disk, may')
    BY <2>1, <2>3, Zenon DEF Types, TableFacts, BoundedStableFact
  <2> QED
    BY <2>1, <2>2, <2>4, Zenon DEF Safe
<1> QED
  BY <1>1, <1>2, <1>4, <1>5, <1>6, Zenon

(* Closing, a crash and opening keep a crash safe.                         *)
LEMMA SafeRestart ==
  ASSUME TableFacts, TablesInv, Safe, Closed \/ Crash \/ Open
  PROVE  Safe'
<1> USE DEF TablesInv
<1>1. CASE Closed \/ Crash
  <2>1. pc' = "down" /\ disk' = disk /\ may' = may
    BY <1>1, Zenon DEF Closed, Crash, ProcessEnds
  <2>2. ASSUME NEW lost \in SUBSET {i \in DOMAIN log : ~log[i].stable}, log' = Without(log, lost)
        PROVE  Bounded(log', disk, may)
    BY <2>2, Zenon DEF Types, Safe, TableFacts, BoundedWithoutFact
  <2>3. ASSUME log' = Stable(log) PROVE Bounded(log', disk, may)
    <3>1. \A k \in Keys : Read(recoverFromWAL(log), loadSSTables(disk), k) \in may[k]
      BY Zenon DEF Types, Safe, TableFacts, BoundedReplayFact
    <3> QED
      BY <2>3, <3>1, Zenon DEF Types, TableFacts, BoundedStableFact
  <2>4. Bounded(log', disk, may)
    BY <1>1, <2>2, <2>3, Zenon DEF Closed, Crash, Safe
  <2> QED
    BY <2>1, <2>4, Zenon DEF Safe
<1>2. CASE Open
  <2>1. /\ log' = log /\ disk' = disk /\ may' = may /\ pc' = "idle"
        /\ mem' = recoverFromWAL(log) /\ sstables' = loadSSTables(disk)
    BY <1>2, Zenon DEF Open, ghostVars
  <2>2. \A k \in Keys : Read(recoverFromWAL(log), loadSSTables(disk), k) \in may[k]
    BY Zenon DEF Types, Safe, TableFacts, BoundedReplayFact
  <2> QED
    BY <2>1, <2>2, Zenon DEF Safe, get
<1> QED
  BY <1>1, <1>2, Zenon

(* Every step keeps a crash safe.                                          *)
LEMMA SafeStep ==
  ASSUME TableFacts, Faults \cap {"orphan", "iterator", "remove"} = {},
         TablesInv, Reads, Doubts, DiskShows, DiskShows', Safe, [Next]_vars
  PROVE  Safe'
<1> USE DEF TablesInv
<1>1. CASE MemtablePut \/ Ack \/ Sync \/ \E x \in Keys, v \in Values \cup {Tomb} : AppendEntry(x, v)
  BY <1>1, SafeCalls, Zenon
<1>2. CASE Closed \/ Crash \/ Open
  BY <1>2, SafeRestart, Zenon
<1>3. CASE UNCHANGED vars
  BY <1>3, Zenon DEF vars, dataVars, tableVars, ghostVars, Safe, get
<1>4. ASSUME ~MemtablePut, pc # "down", pc' # "down", UNCHANGED <<log, may>>,
             disk' = disk \/ pc' \in {"written"} \cup Comp, pc' # "logged"
      PROVE  Safe'
  <2>1. \A k \in Keys : get(k)' \in may[k]
    BY <1>4, GetKept, Zenon DEF Safe
  <2> QED
    BY <1>4, <2>1, SafeQuiet, Zenon
<1>5. CASE WriteFails
  <2>1. PICK i \in DOMAIN log : ~log[i].stable /\ log' = Without(log, {i})
    BY <1>5, Zenon DEF WriteFails
  <2>2. {i} \in SUBSET {j \in DOMAIN log : ~log[j].stable}
    BY <2>1, Zenon
  <2>3. Bounded(log', disk, may)
    BY <2>1, <2>2, Zenon DEF Types, Safe, TableFacts, BoundedWithoutFact
  <2>4. /\ pc' = pc /\ op' = op /\ mem' = mem /\ sstables' = sstables /\ disk' = disk
        /\ may' = may
    BY <1>5, Zenon DEF WriteFails, tableVars, ghostVars
  <2> QED
    BY <2>3, <2>4, Zenon DEF Safe, get
<1>6. CASE ClearLog
  <2>1. /\ pc = "registered" /\ pc' = "cleared" /\ log' = <<>>
        /\ may' = [k \in Keys |-> {get(k)}]
    BY <1>6, Zenon DEF ClearLog
  <2>2. \A k \in Keys : get(k)' = get(k) /\ may'[k] = {get(k)}
    BY <2>1, GetKept, Zenon DEF MemtablePut
  <2>3. Bounded(log', disk', may')
    BY <2>1, <2>2 DEF DiskShows, Bounded
  <2> QED
    BY <2>1, <2>2, <2>3, Zenon DEF Safe
<1>7. CASE ClearThrows
  <2>1. /\ pc = "registered" /\ pc' = "broken" /\ log' \in {log, <<>>} /\ disk' = disk
        /\ may' = may /\ mem' = mem /\ sstables' = sstables
    BY <1>7, Zenon DEF ClearThrows, tableVars
  <2>2. Bounded(<<>>, disk, may)
    BY <2>1 DEF DiskShows, Bounded, Safe
  <2>3. Bounded(log', disk, may)
    BY <2>1, <2>2, Zenon DEF Safe
  <2> QED
    BY <2>1, <2>3, Zenon DEF Safe, get
<1>8. CASE AppendThrows \/ AckThrows \/ FlushThrows \/ WriteOrphans \/ RegisteredThrows
           \/ ClearedThrows \/ Undone
  <2>1. /\ pc # "down" /\ pc' \in {"idle", "closing"} /\ log' = log /\ may' = may /\ disk' = disk
    BY <1>8, Zenon DEF AppendThrows, AckThrows, FlushThrows, WriteOrphans,
       RegisteredThrows,
                ClearedThrows, Undone, Unwind, dataVars, tableVars, Control
  <2> QED
    BY <1>1, <1>4, <2>1, Zenon
<1>9. CASE Flush \/ Close \/ WriteTable \/ OpenTable
  <2>1. /\ pc # "down" /\ pc' \notin {"down", "logged"} /\ log' = log /\ may' = may
        /\ disk' = disk \/ pc' = "written"
    BY <1>9, Zenon DEF Flush, Close, WriteTable, OpenTable, dataVars,
       tableVars, ghostVars
  <2> QED
    BY <1>1, <1>4, <2>1, Zenon
<1>10. CASE NoCompaction \/ FinishCompaction
  <2>1. /\ pc # "down" /\ pc' \notin {"down", "logged"} /\ log' = log /\ may' = may
        /\ disk' = disk
    BY <1>10, OpKinds, Zenon DEF NoCompaction, FinishCompaction, AfterFlush,
       Control, Comp, dataVars,
                          tableVars, ghostVars
  <2> QED
    BY <1>1, <1>4, <2>1, Zenon
<1>11. CASE Merge \/ CompactionThrows \/ Undo \/ Publish \/ Published \/ RemoveInput
  <2>1. /\ pc # "down" /\ pc' \in Comp /\ log' = log /\ may' = may
    BY <1>11, Zenon DEF Merge, CompactionThrows, Undo, Publish, Published,
       RemoveInput, dataVars,
                 ghostVars, Comp
  <2> QED
    BY <1>1, <1>4, <2>1, Zenon DEF Comp
<1> QED
  BY <1>1, <1>2, <1>3, <1>5, <1>6, <1>7, <1>8, <1>9, <1>10, <1>11, Zenon
     DEF Next

(* A put or del in progress is a call of the dictionary.                   *)
LEMMA PutCalled ==
  ASSUME op \in PutOps
  PROVE  Called \in KV!Calls /\ Called[1] = op.key /\ Called[2] = Live(op.val)
<1>1. /\ op.kind = "put" /\ op.key \in Keys /\ op.val \in Values \cup {Tomb}
  BY OpKinds, Zenon
<1>2. Live(op.val) \in Shows
  BY <1>1, CellShown, Zenon DEF Cells
<1> QED
  BY <1>1, <1>2, Zenon DEF Called, KV!Calls, Shows

(* The first start is an initial state of the dictionary.                  *)
LEMMA RefinesInit ==
  ASSUME TableFacts, Init
  PROVE  KV!Init
<1>1. ASSUME NEW k \in Keys PROVE get(k) = Absent
  <2>1. sstables = <<>> /\ mem[k] = None
    BY Zenon DEF Init, Empty
  <2>2. Lookup(sstables, k) = None
    BY <2>1 DEF TableFacts, LookupNoneFact
  <2> QED
    BY <2>1, <2>2, Zenon DEF get, Read, Live
<1>2. pc = "idle" /\ op.kind # "put" /\ may = [k \in Keys |-> {Absent}]
      /\ doubt = [k \in Keys |-> {}]
  BY Zenon DEF Init, NoOp
<1>3. Shown = [k \in Keys |-> Absent]
  BY <1>1, <1>2, Zenon DEF Shown
<1> QED
  BY <1>2, <1>3, Zenon DEF KV!Init, KV!NoCall

(* Steps between which readers and callers can tell no difference.         *)
LEMMA RefinesStutter ==
  ASSUME pc # "down", pc' # "down", \A k \in Keys : get(k)' = get(k),
         UNCHANGED <<may, doubt>>, Called' = Called
  PROVE  UNCHANGED KV!vars
<1>1. Shown' = Shown
  BY Zenon DEF Shown
<1> QED
  BY <1>1, Zenon DEF KV!vars, Called

(* A call that throws.                                                     *)
LEMMA RefinesThrow ==
  ASSUME pc # "down", pc' # "down", \A k \in Keys : get(k)' = get(k),
         op \in PutOps, op'.kind # "put", may' = may,
         doubt' = [doubt EXCEPT ![op.key] = @ \cup {Live(op.val)}]
  PROVE  KV!Throw
<1>1. Shown' = Shown
  BY Zenon DEF Shown
<1>2. Called \in KV!Calls /\ Called[1] = op.key /\ Called[2] = Live(op.val) /\ Called' = <<>>
  BY PutCalled, Zenon DEF Called
<1> QED
  BY <1>1, <1>2, Zenon DEF KV!Throw, KV!NoCall, Called

(* The steps of put(), del() and sync() are steps of the dictionary.       *)
LEMMA RefinesCalls ==
  ASSUME Inv, MemtablePut \/ Ack \/ Sync \/ \E x \in Keys, v \in Values \cup {Tomb} : AppendEntry(x, v)
  PROVE  KV!Next
<1> USE DEF Inv, TablesInv
<1>1. ASSUME NEW x \in Keys, NEW v \in Values \cup {Tomb}, AppendEntry(x, v)
      PROVE  KV!Next
  <2>1. /\ pc = "idle" /\ pc' = "logged" /\ op' = PutOp(x, v) /\ mem' = mem /\ sstables' = sstables
        /\ may' = [may EXCEPT ![x] = @ \cup {Live(v)}] /\ doubt' = doubt
    BY <1>1, Zenon DEF AppendEntry, tableVars
  <2>2. Shown' = Shown
    BY <2>1, Zenon DEF Shown, get
  <2>3. Called = <<>> /\ Called' = <<x, Live(v)>>
    BY <2>1, OpKinds, Zenon DEF Called, PutOp, Control
  <2>4. KV!Begin(x, Live(v))
    BY <2>1, <2>2, <2>3, Zenon DEF KV!Begin, KV!NoCall, Called
  <2>5. Live(v) \in Values \cup {Absent}
    BY CellShown, Zenon DEF Cells, Shows
  <2> QED
    BY <2>4, <2>5, Zenon DEF KV!Next
<1>2. CASE MemtablePut
  <2>1. /\ pc = "logged" /\ pc' \in {"ack", "flush"} /\ op' = op /\ op \in PutOps
        /\ may' = may /\ doubt' = doubt
    BY <1>2, Zenon DEF MemtablePut, Control, ghostVars
  <2>2. Called \in KV!Calls /\ Called[1] = op.key /\ Called[2] = Live(op.val) /\ Called' = Called
    BY <2>1, PutCalled, Zenon DEF Called
  <2>3. ASSUME NEW k \in Keys
        PROVE  get(k)' = IF k = op.key THEN Live(op.val) ELSE get(k)
    <3>1. CASE k = op.key
      BY <1>2, <2>1, <3>1, PutVisible, Zenon DEF get
    <3>2. CASE k # op.key
      BY <1>2, <3>2, PutVisible, Zenon
    <3> QED
      BY <3>1, <3>2, Zenon
  <2>4. Shown' = [Shown EXCEPT ![Called[1]] = Called[2]]
    BY <2>1, <2>2, <2>3, Zenon DEF Shown
  <2>5. KV!Effect
    BY <2>1, <2>2, <2>4, Zenon DEF KV!Effect, Called
  <2> QED
    BY <2>5, Zenon DEF KV!Next
<1>3. CASE Ack
  <2>1. /\ pc = "ack" /\ pc' = "idle" /\ op' = NoOp /\ op \in PutOps
        /\ mem' = mem /\ sstables' = sstables
        /\ may' = IF Durable THEN [may EXCEPT ![op.key] = {Live(op.val)}] ELSE may
        /\ doubt' = [doubt EXCEPT ![op.key] = {}]
    BY <1>3, Zenon DEF Ack, Control, tableVars
  <2>2. /\ Called \in KV!Calls /\ Called[1] = op.key /\ Called[2] = Live(op.val)
        /\ Called' = <<>> /\ op.kind = "put" /\ op.key \in Keys
    BY <2>1, PutCalled, OpKinds, Zenon DEF Called
  <2>3. Shown' = Shown /\ Shown[op.key] = Live(op.val)
    BY <2>1, <2>2, Zenon DEF Shown, get, Reads
  <2>4. KV!Return
    BY <2>1, <2>2, <2>3, Zenon DEF KV!Return, KV!NoCall, Called
  <2> QED
    BY <2>4, Zenon DEF KV!Next
<1>4. CASE Sync
  <2>1. /\ pc = "idle" /\ pc' = pc /\ op' = op /\ mem' = mem /\ sstables' = sstables
        /\ may' = [k \in Keys |-> {get(k)} \cup doubt[k]] /\ doubt' = doubt
    BY <1>4, Zenon DEF Sync, tableVars
  <2>2. Shown' = Shown /\ \A k \in Keys : Shown[k] = get(k)
    BY <2>1, Zenon DEF Shown, get
  <2>3. KV!Sync
    BY <2>1, <2>2, Zenon DEF KV!Sync
  <2> QED
    BY <2>3, Zenon DEF KV!Next
<1> QED
  BY <1>1, <1>2, <1>3, <1>4, Zenon

(* Closing, a crash and opening are steps of the dictionary or leave it    *)
(* alone.                                                                  *)
LEMMA RefinesRestart ==
  ASSUME TableFacts, Inv, Inv', Safe', Closed \/ Crash \/ Open
  PROVE  KV!Next \/ UNCHANGED KV!vars
<1> USE DEF Inv, TablesInv
<1>1. CASE Closed \/ Crash
  <2>1. /\ pc' = "down" /\ op' = NoOp /\ may' = may /\ doubt' = [k \in Keys |-> {}]
    BY <1>1, Zenon DEF Closed, Crash, ProcessEnds
  <2>2. Shown' = [k \in Keys |-> Read(recoverFromWAL(log'), loadSSTables(disk'), k)]
    BY <2>1, Zenon DEF Shown, Recovered
  <2>3. ASSUME NEW k \in Keys
        PROVE  /\ Read(recoverFromWAL(log'), loadSSTables(disk'), k) \in may[k]
               /\ Read(recoverFromWAL(log'), loadSSTables(disk'), k) \in Values \cup {Absent}
    <3>1. log' \in Seq(Records) /\ Bounded(log', disk', may') /\ Files(disk')
      BY Zenon DEF Types, Safe
    <3>2. recoverFromWAL(log') \in Tables /\ loadSSTables(disk') \in Seq(TableRecs)
      BY <3>1, Zenon DEF TableFacts, LogTypedFact, LoadsFilesFact
    <3>3. Read(recoverFromWAL(log'), loadSSTables(disk'), k) \in may'[k]
      BY <3>1, Zenon DEF TableFacts, BoundedReplayFact
    <3>4. Read(recoverFromWAL(log'), loadSSTables(disk'), k) \in Shows
      BY <3>2, Zenon DEF TableFacts, ReadTypedFact
    <3> QED
      BY <2>1, <3>3, <3>4, Zenon DEF Shows
  <2>4. /\ Shown' \in [Keys -> Values \cup {Absent}]
        /\ \A k \in Keys : Shown'[k] \in may[k]
    BY <2>2, <2>3, Zenon
  <2>5. Called' = <<>>
    BY <2>1, OpKinds, Zenon DEF Called
  <2>6. KV!Crash
    BY <2>1, <2>4, <2>5, Zenon DEF KV!Crash, KV!NoCall, Called
  <2> QED
    BY <2>6, Zenon DEF KV!Next
<1>2. CASE Open
  <2>1. /\ pc = "down" /\ pc' = "idle" /\ op' = op /\ may' = may /\ doubt' = doubt
        /\ mem' = recoverFromWAL(log) /\ sstables' = loadSSTables(disk)
    BY <1>2, Zenon DEF Open, ghostVars
  <2>2. Shown' = Shown
    BY <2>1, Zenon DEF Shown, Recovered, get
  <2> QED
    BY <2>1, <2>2, Zenon DEF KV!vars
<1> QED
  BY <1>1, <1>2, Zenon

(* Every step of the engine is a step of the dictionary or leaves it       *)
(* alone.                                                                  *)
LEMMA RefinesStep ==
  ASSUME TableFacts, Inv, Inv', Safe', [Next]_vars
  PROVE  [KV!Next]_KV!vars
<1> USE DEF Inv, TablesInv
<1>1. CASE MemtablePut \/ Ack \/ Sync \/ \E x \in Keys, v \in Values \cup {Tomb} : AppendEntry(x, v)
  BY <1>1, RefinesCalls, Zenon
<1>2. CASE Closed \/ Crash \/ Open
  BY <1>2, RefinesRestart, Zenon
<1>3. CASE UNCHANGED vars
  <2>1. Shown' = Shown /\ Called' = Called
    BY <1>3, Zenon DEF vars, dataVars, tableVars, Shown, Called, Recovered, get
  <2> QED
    BY <1>3, <2>1, Zenon DEF vars, ghostVars, KV!vars, Called
<1>4. ASSUME ~MemtablePut, pc # "down", pc' # "down"
      PROVE  \A k \in Keys : get(k)' = get(k)
  BY <1>4, GetKept, Zenon
<1>5. ASSUME pc # "down", pc' # "down", UNCHANGED <<may, doubt>>, Called' = Called
      PROVE  [KV!Next]_KV!vars
  BY <1>1, <1>4, <1>5, RefinesStutter, Zenon
<1>6. ASSUME pc # "down", Unwind
      PROVE  [KV!Next]_KV!vars
  <2>1. pc' # "down" /\ may' = may /\ op'.kind # "put"
    BY <1>6, OpKinds, Zenon DEF Unwind
  <2>2. CASE op.kind = "put"
    <3>1. op \in PutOps /\ doubt' = [doubt EXCEPT ![op.key] = @ \cup {Live(op.val)}]
      BY <1>6, <2>2, OpKinds, Zenon DEF Unwind, Control, Comp
    <3> QED
      BY <1>1, <1>4, <1>6, <2>1, <3>1, RefinesThrow, Zenon DEF KV!Next
  <2>3. CASE op.kind # "put"
    BY <1>5, <1>6, <2>1, <2>3, Zenon DEF Unwind, Called
  <2> QED
    BY <2>2, <2>3, Zenon
<1>7. CASE AppendThrows \/ AckThrows \/ FlushThrows \/ WriteOrphans \/ RegisteredThrows
           \/ ClearedThrows \/ Undone
  BY <1>6, <1>7, Zenon DEF AppendThrows, AckThrows, FlushThrows, WriteOrphans,
     RegisteredThrows,
                    ClearedThrows, Undone
<1>8. CASE ClearThrows
  <2>1. pc = "registered" /\ pc' = "broken" /\ may' = may /\ op'.kind # "put"
    BY <1>8, OpKinds, Zenon DEF ClearThrows
  <2>2. CASE op.kind = "put"
    <3>1. op \in PutOps /\ doubt' = [doubt EXCEPT ![op.key] = @ \cup {Live(op.val)}]
      BY <1>8, <2>1, <2>2, OpKinds, Zenon DEF ClearThrows, Control, Comp
    <3> QED
      BY <1>1, <1>4, <2>1, <3>1, RefinesThrow, Zenon DEF KV!Next
  <2>3. CASE op.kind # "put"
    BY <1>5, <1>8, <2>1, <2>3, Zenon DEF ClearThrows, Called
  <2> QED
    BY <2>2, <2>3, Zenon
<1>9. CASE ClearLog
  <2>1. /\ pc = "registered" /\ pc' = "cleared" /\ op' = op
        /\ may' = [k \in Keys |-> {get(k)}] /\ doubt' = [k \in Keys |-> {}]
    BY <1>9, Zenon DEF ClearLog
  <2>2. \A k \in Keys : get(k)' = get(k)
    BY <1>4, <2>1, Zenon DEF MemtablePut
  <2>3. Shown' = Shown /\ \A k \in Keys : Shown[k] = get(k)
    BY <2>1, <2>2, Zenon DEF Shown
  <2>4. KV!Flush
    BY <2>1, <2>3, Zenon DEF KV!Flush
  <2> QED
    BY <2>4, Zenon DEF KV!Next
<1>10. CASE Flush \/ Close
  <2>1. pc = "idle" /\ pc' # "down" /\ may' = may /\ doubt' = doubt /\ op'.kind # "put"
    BY <1>10 DEF Flush, Close, ghostVars
  <2> QED
    BY <1>5, <2>1, OpKinds, Zenon DEF Called, Control
<1>11. CASE WriteFails \/ WriteTable \/ OpenTable
  <2>1. pc # "down" /\ pc' # "down" /\ may' = may /\ doubt' = doubt /\ op' = op
    BY <1>11, Zenon DEF WriteFails, WriteTable, OpenTable, ghostVars
  <2> QED
    BY <1>5, <2>1, Zenon DEF Called
<1>12. CASE NoCompaction \/ FinishCompaction
  <2>1. /\ pc # "down" /\ pc' # "down" /\ may' = may /\ doubt' = doubt
        /\ op' = IF op.kind = "flush" THEN NoOp ELSE op
    BY <1>12, OpKinds, Zenon DEF NoCompaction, FinishCompaction, AfterFlush,
       Control, Comp, ghostVars
  <2> QED
    BY <1>5, <2>1, OpKinds, Zenon DEF Called
<1>13. CASE Merge \/ CompactionThrows \/ Undo \/ Publish \/ Published \/ RemoveInput
  <2>1. pc # "down" /\ pc' # "down" /\ may' = may /\ doubt' = doubt /\ op' = op
    BY <1>13, Zenon DEF Merge, CompactionThrows, Undo, Publish, Published,
       RemoveInput, ghostVars
  <2> QED
    BY <1>5, <2>1, Zenon DEF Called
<1> QED
  BY <1>1, <1>2, <1>3, <1>7, <1>8, <1>9, <1>10, <1>11, <1>12, <1>13, Zenon
     DEF Next

=============================================================================
