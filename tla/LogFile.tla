------------------------------ MODULE LogFile -------------------------------
(***************************************************************************)
(* The log as it lies on disk (src/src/wal): records laid out in aligned   *)
(* blocks, written in any order, torn by crashes and truncation, and read  *)
(* back by WAL::recover() in every later start of the process, which then  *)
(* appends behind whatever it found.                                       *)
(*                                                                         *)
(* The file is a sequence of cells: zero, or cell i of record r.  A record *)
(* has a type, a length, body cells and a checksum, and is padded to whole *)
(* blocks.  The threads, the ring and group commit are WAL's; here a sync  *)
(* is one step.  One process has the log open at a time.                   *)
(***************************************************************************)
EXTENDS Integers, Sequences, FiniteSets, FiniteSetsExt

CONSTANTS
  MaxRecords,         \* bound: records appended in one behaviour
  Sizes,              \* record sizes in cells, at least 3
  BlockCells,         \* cells in 512 bytes
  MAX_RECOVERY_CELLS, \* MAX_RECOVERY_BYTES
  MaxStarts           \* bound: starts of the process

ASSUME LogAssumption ==
  /\ MaxRecords \in Nat /\ MaxStarts \in Nat
  /\ Sizes \subseteq Nat \ 0 .. 2
  /\ BlockCells \in Nat \ {0} /\ MAX_RECOVERY_CELLS \in Nat

Records == 1 .. MaxRecords
Zero == <<0, 0>>

VARIABLES
  pc,        \* "down", "recover", "recovered" or "up"
  file,      \* the cells of wal.log
  stable,    \* how much of it an fdatasync has covered
  writeOffset, failure,   \* WAL::write_offset_, and failure_ is set
  offset, entries,        \* recover()'s place and result
  at, size,  \* where each record was put, and its cells
  count,     \* records appended so far
  base,      \* of those, the ones before this start or clear()
  inflight,  \* records whose write has not completed
  acked,     \* records of this log that a sync has promised
  starts

recordVars == <<at, size, count, base>>
vars == <<pc, file, stable, writeOffset, failure, offset, entries, recordVars,
          inflight, acked, starts>>

Init ==
  /\ pc = "down"
  /\ file = <<>> /\ stable = 0
  /\ writeOffset = 0 /\ failure = FALSE
  /\ offset = 0 /\ entries = <<>>
  /\ at = [r \in Records |-> 0] /\ size = [r \in Records |-> 0]
  /\ count = 0 /\ base = 0
  /\ inflight = {} /\ acked = {}
  /\ starts = 0

-----------------------------------------------------------------------------
(* Layout.  Offsets count from 0, cells of a sequence from 1.              *)

Aligned(n) == ((n + BlockCells - 1) \div BlockCells) * BlockCells
NextBoundary(o) == (o \div BlockCells + 1) * BlockCells

(* The cell that record r's buffer has for offset o of the file.           *)
CellOf(r, o) == IF o - at[r] < size[r] THEN <<r, o - at[r] + 1>> ELSE Zero

Covers(r, o) == at[r] <= o /\ o < at[r] + Aligned(size[r])

(* The file once the blocks at the given offsets hold r's cells.           *)
Written(f, r, blocks) ==
  LET in(o) == \E b \in blocks : b <= o /\ o < b + BlockCells
      end == Max({Len(f)} \cup {b + BlockCells : b \in blocks})
  IN  [i \in 1 .. end |-> IF in(i - 1) THEN CellOf(r, i - 1)
                          ELSE IF i <= Len(f) THEN f[i] ELSE Zero]

BlocksOf(r) == {b \in at[r] .. at[r] + Aligned(size[r]) - 1 : (b - at[r]) % BlockCells = 0}

-----------------------------------------------------------------------------
(* WAL::writeEntry(), and what becomes of its write.                       *)

writeEntry(n) ==
  /\ pc = "up" /\ ~failure /\ count < MaxRecords
  /\ count' = count + 1
  /\ at' = [at EXCEPT ![count + 1] = writeOffset]
  /\ size' = [size EXCEPT ![count + 1] = n]
  /\ writeOffset' = writeOffset + Aligned(n)
  /\ inflight' = inflight \cup {count + 1}
  /\ UNCHANGED <<pc, file, stable, failure, offset, entries, base, acked, starts>>

(* The write completes; O_DIRECT takes only aligned offsets.               *)
Land(r) ==
  /\ pc = "up" /\ r \in inflight /\ at[r] % BlockCells = 0
  /\ file' = Written(file, r, BlocksOf(r))
  /\ inflight' = inflight \ {r}
  /\ UNCHANGED <<pc, stable, writeOffset, failure, offset, entries, recordVars, acked, starts>>

(* It fails or is short: some first blocks of it are in the file.          *)
LandFails(r) ==
  /\ pc = "up" /\ r \in inflight
  /\ \E b \in BlocksOf(r) :
       file' = IF at[r] % BlockCells # 0 THEN file
               ELSE Written(file, r, {c \in BlocksOf(r) : c < b})
  /\ failure' = TRUE
  /\ inflight' = inflight \ {r}
  /\ UNCHANGED <<pc, stable, writeOffset, offset, entries, recordVars, acked, starts>>

(* Mutant: completions are not drained.                                    *)
SyncUndrained ==
  /\ pc = "up" /\ ~failure
  /\ stable' = Len(file)
  /\ acked' = acked \cup base + 1 .. count
  /\ UNCHANGED <<pc, file, writeOffset, failure, offset, entries, recordVars, inflight, starts>>

(* WAL::sync(), or a durable append: completions are drained, then the     *)
(* file is synced.                                                         *)
Sync ==
  /\ pc = "up" /\ inflight = {} /\ ~failure
  /\ stable' = Len(file)
  /\ acked' = acked \cup base + 1 .. count
  /\ UNCHANGED <<pc, file, writeOffset, failure, offset, entries, recordVars, inflight, starts>>

(* WAL::clear(), once a table has the records.                             *)
Clear ==
  /\ pc = "up" /\ inflight = {} /\ file # <<>>
  /\ file' = <<>> /\ stable' = 0 /\ writeOffset' = 0 /\ failure' = FALSE
  /\ acked' = {} /\ base' = count
  /\ at' = [r \in Records |-> 0] /\ size' = [r \in Records |-> 0]
  /\ UNCHANGED <<pc, offset, entries, count, inflight, starts>>

-----------------------------------------------------------------------------
(* The end of the process.                                                 *)

(* ~WAL(): what is in flight is drained, and the file synced.              *)
Close ==
  /\ pc = "up" /\ inflight = {}
  /\ pc' = "down" /\ stable' = Len(file) /\ failure' = FALSE
  /\ UNCHANGED <<file, writeOffset, offset, entries, recordVars, inflight, acked, starts>>

(* A crash keeps any of the blocks that were not stable or in flight; the  *)
(* others are lost, and read as zeros where the file goes on behind them.  *)
Crash ==
  LET fresh == UNION {BlocksOf(r) : r \in {q \in inflight : at[q] % BlockCells = 0}}
      loose == {b \in stable .. Len(file) - 1 : b % BlockCells = 0}
  IN  /\ pc # "down"
      /\ \E kept \in SUBSET (fresh \cup loose) :
           LET end == Max({stable} \cup {b + BlockCells : b \in kept})
               cell(o) ==
                 IF o < stable THEN file[o + 1]
                 ELSE IF \A b \in kept : ~(b <= o /\ o < b + BlockCells) THEN Zero
                 ELSE IF \E r \in inflight : Covers(r, o)
                        THEN CellOf(CHOOSE r \in inflight : Covers(r, o), o)
                        ELSE file[o + 1]
           IN  /\ file' = [i \in 1 .. end |-> cell(i - 1)]
               /\ stable' = end
      /\ pc' = "down" /\ failure' = FALSE /\ inflight' = {}
      /\ offset' = 0 /\ entries' = <<>>
      /\ UNCHANGED <<writeOffset, recordVars, acked, starts>>

(* The log is cut at any cell while no process has it open.                *)
Truncate(n) ==
  /\ pc = "down" /\ starts < MaxStarts /\ n < Len(file)
  /\ file' = SubSeq(file, 1, n) /\ stable' = n
  /\ acked' = {r \in acked : at[r] + size[r] <= n}
  /\ UNCHANGED <<pc, writeOffset, failure, offset, entries, recordVars, inflight, starts>>

-----------------------------------------------------------------------------
(* WAL::WAL() and recover().                                               *)

(* Mutant: a reopened log is written from its start.                       *)
ResumeAtZero == 0

(* write_offset_ of a log that is opened.                                  *)
Resume == Len(file)

Open ==
  /\ pc = "down" /\ starts < MaxStarts /\ Len(file) <= MAX_RECOVERY_CELLS
  /\ pc' = "recover"
  /\ writeOffset' = Resume /\ base' = count
  /\ offset' = 0 /\ entries' = <<>>
  /\ starts' = starts + 1
  /\ UNCHANGED <<file, stable, failure, at, size, count, inflight, acked>>

(* Mutant: the checksum is not compared.                                   *)
ValidLength(o) ==
  LET r == file[o + 1][1]
  IN  file[o + 1] = <<r, 1>> /\ o + size[r] <= Len(file)

(* A whole record begins at o: its lengths stay within the file and its    *)
(* checksum is that of its cells.  Cells that are not a record's do not    *)
(* have the right checksum.                                                *)
Valid(o) ==
  LET r == file[o + 1][1]
  IN  /\ file[o + 1] = <<r, 1>>
      /\ o + size[r] <= Len(file)
      /\ \A i \in 1 .. size[r] : file[o + i] = <<r, i>>

(* Mutant: padding is skipped in place.                                    *)
SameBlock == (offset \div BlockCells) * BlockCells

(* Where the search for the next record goes on after damage or padding.   *)
Resynchronise == NextBoundary(offset)

Damage ==
  /\ pc = "recover" /\ offset < Len(file)
  /\ file[offset + 1] # Zero /\ ~Valid(offset)
  /\ offset' = Resynchronise
  /\ UNCHANGED <<pc, file, stable, writeOffset, failure, entries, recordVars,
                 inflight, acked, starts>>

Padding ==
  /\ pc = "recover" /\ offset < Len(file) /\ file[offset + 1] = Zero
  /\ offset' = Resynchronise
  /\ UNCHANGED <<pc, file, stable, writeOffset, failure, entries, recordVars,
                 inflight, acked, starts>>

Accept ==
  /\ pc = "recover" /\ offset < Len(file) /\ file[offset + 1] # Zero /\ Valid(offset)
  /\ entries' = Append(entries, file[offset + 1][1])
  /\ offset' = offset + Aligned(size[file[offset + 1][1]])
  /\ UNCHANGED <<pc, file, stable, writeOffset, failure, recordVars, inflight, acked, starts>>

RecoverEnds ==
  /\ pc = "recover" /\ offset >= Len(file)
  /\ pc' = "recovered"
  /\ UNCHANGED <<file, stable, writeOffset, failure, offset, entries, recordVars,
                 inflight, acked, starts>>

(* The engine has applied the entries, and takes calls.                    *)
Serve ==
  /\ pc = "recovered"
  /\ pc' = "up" /\ entries' = <<>> /\ offset' = 0
  /\ UNCHANGED <<file, stable, writeOffset, failure, recordVars, inflight, acked, starts>>

Recover == Damage \/ Padding \/ Accept \/ RecoverEnds

Next ==
  \/ \E n \in Sizes : writeEntry(n)
  \/ \E r \in Records : Land(r) \/ LandFails(r)
  \/ Sync \/ Clear \/ Close \/ Crash
  \/ \E n \in 0 .. Len(file) : Truncate(n)
  \/ Open \/ Recover \/ Serve

Spec == Init /\ [][Next]_vars

(* A process that is recovering is scheduled.                              *)
FairSpec == Spec /\ WF_vars(Recover)

-----------------------------------------------------------------------------
(* Properties.                                                             *)

(* Every variable has its type; writes are behind the file they follow.    *)
TypeOK ==
  /\ pc \in {"down", "recover", "recovered", "up"}
  /\ \A i \in DOMAIN file : file[i] = Zero \/ file[i][1] \in 1 .. count
  /\ stable \in 0 .. Len(file) /\ failure \in BOOLEAN
  /\ offset \in Nat /\ \A i \in DOMAIN entries : entries[i] \in 1 .. count
  /\ at \in [Records -> Nat] /\ size \in [Records -> Sizes \cup {0}]
  /\ base \in 0 .. count /\ count \in 0 .. MaxRecords
  /\ inflight \subseteq base + 1 .. count /\ acked \subseteq 1 .. count
  /\ pc \in {"recovered", "up"} => writeOffset >= Len(file)
  /\ starts \in 0 .. MaxStarts

(* The records whose cells are all in the file.                            *)
Intact ==
  {r \in 1 .. count : /\ size[r] > 0 /\ at[r] + size[r] <= Len(file)
                      /\ \A i \in 1 .. size[r] : file[at[r] + i] = <<r, i>>}

(* Recovery "recovers exactly the records whose bodies are intact", in the *)
(* order of the log, whatever holes, torn records and remains of earlier   *)
(* starts lie between them and wherever the log was cut.                   *)
RecoverExact ==
  pc = "recovered" =>
    /\ {entries[i] : i \in DOMAIN entries} = Intact
    /\ \A i, j \in DOMAIN entries : i < j => at[entries[i]] < at[entries[j]]

(* What a sync promised is recovered after every later crash, until        *)
(* clear() or the loss of the record itself.                               *)
AckedRecovered ==
  pc = "recovered" => acked \subseteq {entries[i] : i \in DOMAIN entries}

(* Recovery ends, whatever is in the log.                                  *)
RecoveryEnds == (pc = "recover") ~> (pc # "recover")

=============================================================================
