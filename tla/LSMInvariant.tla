---------------------------- MODULE LSMInvariant ----------------------------
(***************************************************************************)
(* The inductive invariant of LSMEngine, layer by layer: where the mutator *)
(* is and the types, the tables and their files, what reads show, and what *)
(* a crash would leave.  LSMEngineSteps proves that steps keep it,         *)
(* LSMEngineProofs that it holds and what follows.                         *)
(***************************************************************************)
EXTENDS LSMEngine, LSMTableFacts

(* The calls that take several steps.                                      *)
PutOps  == [kind : {"put"}, key : Keys, val : Values \cup {Tomb}]
FlushOp == [kind |-> "flush"]
CloseOp == [kind |-> "close"]

(* Where a compaction has outputs.                                         *)
Comp == {"publish", "undo", "remove"}

(* Where the mutator is and which call it is in.                           *)
Control ==
  /\ pc \in {"idle", "down", "broken", "logged", "ack", "flush", "written",
             "registered", "cleared", "closing"} \cup Comp
  /\ pc \in {"idle", "down", "broken"} => op = NoOp
  /\ pc \in {"logged", "ack"} => op \in PutOps
  /\ pc = "closing" => op = CloseOp
  /\ pc \in {"flush", "written", "registered", "cleared"} \cup Comp =>
       op \in PutOps \cup {FlushOp, CloseOp}

(* The types of the variables, for any number of calls.                    *)
Types ==
  /\ mem \in Tables /\ log \in Seq(Records) /\ walFailed \in BOOLEAN
  /\ Files(disk)
  /\ sstables \in Seq(TableRecs) /\ staged \in Seq(TableRecs)
  /\ counter \in Nat /\ done \in Nat
  /\ may \in [Keys -> SUBSET Shows] /\ doubt \in [Keys -> SUBSET Shows]

-----------------------------------------------------------------------------
(* The listed tables and the files under their names.                      *)

(* A list in load order, and an entry whose file is the one it was opened  *)
(* from.                                                                   *)
Sorted(s) == \A i, j \in DOMAIN s : i < j => LoadsBefore(s[i].name, s[j].name)
OnDisk(e) == e.name \in DOMAIN disk /\ disk[e.name] = e.data

(* The list is in load order, its files are intact, and the next level-0   *)
(* name is past every listed one.                                          *)
Listed ==
  /\ Sorted(sstables)
  /\ \A i \in DOMAIN sstables : (pc = "remove" => i > done) => OnDisk(sstables[i])
  /\ \A i \in DOMAIN sstables :
       sstables[i].name[1] = 0 =>
         sstables[i].name[2] < IF pc = "written" THEN counter - 1 ELSE counter
  /\ pc = "written" => counter > 0 /\ OnDisk([name |-> <<0, counter - 1>>, data |-> mem])

(* The outputs of a compaction: sorted, at level 1, past every listed      *)
(* level-1 name, and on disk exactly as far as they have been published.   *)
Staged ==
  /\ pc \notin Comp => staged = <<>> /\ done = 0
  /\ Sorted(staged)
  /\ \A j \in DOMAIN staged : staged[j].name[1] = 1
  /\ \A i \in DOMAIN sstables, j \in DOMAIN staged :
       sstables[i].name[1] = 1 => sstables[i].name[2] < staged[j].name[2]
  /\ pc = "publish" =>
       /\ done <= Len(staged)
       /\ \A j \in DOMAIN staged : IF j <= done THEN OnDisk(staged[j])
                                   ELSE staged[j].name \notin DOMAIN disk
  /\ pc = "undo" =>
       /\ done <= Len(staged)
       /\ \A j \in DOMAIN staged : j > done => OnDisk(staged[j])
  /\ pc = "remove" =>
       /\ done <= Len(sstables)
       /\ \A j \in DOMAIN staged : OnDisk(staged[j])

(* The part of the invariant that holds whatever the faults.               *)
TablesInv == Control /\ Types /\ Listed /\ Staged

(* Steps that leave the tables alone, within a compaction or outside one.  *)
Silent == UNCHANGED <<pc, mem, disk, sstables, counter, staged, done>>
Quiet ==
  /\ UNCHANGED <<disk, sstables, staged, done>>
  /\ counter' \in {counter, counter + 1}
  /\ pc \notin Comp \cup {"down"} /\ pc' \notin Comp \cup {"down", "written"}
  /\ pc = "written" => "orphan" \in Faults

(* Unless a table is orphaned or an input cannot be removed, the directory *)
(* holds the listed tables and, during a flush or a compaction, those it   *)
(* has written and not yet listed.                                         *)
StagedNames(a, b) == {staged[j].name : j \in a .. b}

Residue ==
  /\ pc \notin Comp \cup {"written", "down"} => DOMAIN disk = ListNames(sstables)
  /\ pc = "written" => DOMAIN disk = ListNames(sstables) \cup {<<0, counter - 1>>}
  /\ pc = "publish" => DOMAIN disk = ListNames(sstables) \cup StagedNames(1, done)
  /\ pc = "undo" => DOMAIN disk = ListNames(sstables) \cup StagedNames(done + 1, Len(staged))
  /\ pc = "remove" => DOMAIN disk = {sstables[i].name : i \in done + 1 .. Len(sstables)}
                                    \cup StagedNames(1, Len(staged))

-----------------------------------------------------------------------------
(* Reads and the log.                                                      *)

(* What makes reads independent of the steps of a flush and a compaction,  *)
(* unless an input cannot be reopened.                                     *)
Reads ==
  /\ pc = "registered" => sstables # <<>> /\ sstables[Len(sstables)].data = mem
  /\ pc \in {"cleared"} \cup Comp => mem = Empty /\ log = <<>> /\ ~walFailed
  /\ pc \in Comp => Merges(staged, sstables)
  /\ pc \in {"publish", "remove"} => Covers(staged, sstables)
  /\ pc \notin {"logged", "down"} /\ op.kind = "put" => get(op.key) = Live(op.val)

(* Unless an append threw with its record in the log, the log replays to   *)
(* the memtable, but for the record of a call that has yet to insert its   *)
(* entry.                                                                  *)
Logged ==
  pc \notin {"down", "broken"} /\ ~walFailed =>
    \A k \in Keys :
      recoverFromWAL(log)[k] = IF pc = "logged" /\ k = op.key THEN op.val ELSE mem[k]

(* The log replays to the memtable but for values of calls that threw, and *)
(* a call that has logged its record finds it there.                       *)
Doubts ==
  /\ pc \notin {"down", "broken"} /\ ~walFailed =>
       \A k \in Keys :
         \/ recoverFromWAL(log)[k] = mem[k]
         \/ recoverFromWAL(log)[k] # None /\ Live(recoverFromWAL(log)[k]) \in doubt[k]
         \/ pc = "logged" /\ k = op.key
  /\ pc = "logged" /\ ~walFailed => recoverFromWAL(log)[op.key] = op.val
  /\ pc \in {"ack", "flush", "written", "registered"} /\ op.kind = "put" /\ ~walFailed =>
       \/ recoverFromWAL(log)[op.key] = op.val /\ mem[op.key] = op.val
       \/ pc = "ack" /\ log = <<>> /\ mem = Empty

(* What the files would show: see DiskReads, WrittenReads, RegisteredReads. *)
DiskShows ==
  /\ pc \notin {"down", "written"} =>
       \A k \in Keys : Live(Lookup(loadSSTables(disk), k)) = Live(Lookup(sstables, k))
  /\ pc \in {"written", "registered", "cleared"} \cup Comp =>
       \A k \in Keys : Live(Lookup(loadSSTables(disk), k)) = get(k)

-----------------------------------------------------------------------------
(* What a crash leaves.                                                    *)

(* A crash now would leave each key with a value its callers expect, and   *)
(* readers are shown such values.                                          *)
Safe ==
  /\ Bounded(log, disk, may)
  /\ pc # "down" => \A k \in Keys : get(k) \in may[k]
  /\ pc = "logged" => Live(op.val) \in may[op.key]

(* The whole invariant but for Safe, which needs it before and after a     *)
(* step.                                                                   *)
Inv == TablesInv /\ Residue /\ Reads /\ Doubts /\ DiskShows

(* The call in progress, as the dictionary sees it.                        *)
Called == IF op.kind = "put" THEN <<op.key, Live(op.val)>> ELSE <<>>

=============================================================================
