----------------------------- MODULE LSMTables -----------------------------
(***************************************************************************)
(* What src/src/db/lsm_engine.cpp and the compactor compute from tables,   *)
(* names and records, without the steps that do so (module LSMEngine): a   *)
(* lookup, the replay of a log, the order in which tables are loaded, the  *)
(* numbering of new ones and the merge of a compaction.                    *)
(***************************************************************************)
EXTENDS Naturals, Sequences, FiniteSets, FiniteSetsExt

CONSTANTS
  NKeys,                \* keys are 1 .. NKeys, in key order
  Values,
  L1_MAX_FILE_ENTRIES   \* entries per compaction output

Tomb   == "tombstone"
None   == "none"      \* no entry for the key
Absent == "absent"    \* what get() returns for neither

ASSUME TablesAssumption ==
  /\ NKeys \in Nat \ {0}
  /\ Values # {} /\ Values \cap {Tomb, None, Absent} = {}
  /\ L1_MAX_FILE_ENTRIES \in Nat \ {0}

Keys   == 1 .. NKeys
Cells  == Values \cup {Tomb, None}
Tables == [Keys -> Cells]
Empty  == [k \in Keys |-> None]

(* A table's level and counter, an open table, a record of the log.        *)
Names     == {0, 1} \X Nat
TableRecs == [name : Names, data : Tables]
Records   == [key : Keys, val : Values \cup {Tomb}, stable : BOOLEAN]

-----------------------------------------------------------------------------
(* Reads.                                                                  *)

Live(c) == IF c \in {Tomb, None} THEN Absent ELSE c

(* Mutant: the oldest table wins.                                          *)
LookupOldest(tables, k) ==
  LET hits == {i \in DOMAIN tables : tables[i].data[k] # None}
  IN  IF hits = {} THEN None ELSE tables[Min(hits)].data[k]

(* The entry of the newest of the tables that has one.                     *)
Lookup(tables, k) ==
  LET hits == {i \in DOMAIN tables : tables[i].data[k] # None}
  IN  IF hits = {} THEN None ELSE tables[Max(hits)].data[k]

Read(m, tables, k) == Live(IF m[k] # None THEN m[k] ELSE Lookup(tables, k))

-----------------------------------------------------------------------------
(* The log.                                                                *)

(* Mutants: a key's first record wins; a deletion is replayed as a put of   *)
(* no value.                                                               *)
RecoverFirst(records) ==
  [k \in Keys |->
     LET hits == {i \in DOMAIN records : records[i].key = k}
     IN  IF hits = {} THEN None ELSE records[Min(hits)].val]

RecoverNoDeletes(records) ==
  [k \in Keys |->
     LET hits == {i \in DOMAIN records : records[i].key = k}
     IN  IF hits = {} THEN None ELSE Live(records[Max(hits)].val)]

(* recoverFromWAL(): the last record of each key.                          *)
recoverFromWAL(records) ==
  [k \in Keys |->
     LET hits == {i \in DOMAIN records : records[i].key = k}
     IN  IF hits = {} THEN None ELSE records[Max(hits)].val]

Stable(l) == [i \in DOMAIN l |-> [l[i] EXCEPT !.stable = TRUE]]

Without(l, lost) ==
  LET kept == DOMAIN l \ lost
      at(i) == CHOOSE j \in kept : Cardinality({h \in kept : h < j}) = i - 1
  IN  [i \in 1 .. Cardinality(kept) |-> l[at(i)]]

-----------------------------------------------------------------------------
(* The files.                                                              *)

(* Mutant: level 0 is loaded, and so shadowed, first.                      *)
LoadsLevel0First(f, g) == f[1] < g[1] \/ (f[1] = g[1] /\ f[2] < g[2])

(* Level 1 before level 0, by counter.                                     *)
LoadsBefore(f, g) == f[1] > g[1] \/ (f[1] = g[1] /\ f[2] < g[2])

loadSSTables(files) ==
  LET name(i) == CHOOSE f \in DOMAIN files :
                   Cardinality({g \in DOMAIN files : LoadsBefore(g, f)}) = i - 1
  IN  [i \in 1 .. Cardinality(DOMAIN files) |-> [name |-> name(i), data |-> files[name(i)]]]

(* Mutant: the largest counter itself.                                     *)
LastCounter(names, level) ==
  LET used == {f[2] : f \in {g \in names : g[1] = level}}
  IN  IF used = {} THEN 0 ELSE Max(used)

(* One more than the largest counter among the names, or 0.                *)
NextCounter(names, level) ==
  LET used == {f[2] : f \in {g \in names : g[1] = level}}
  IN  IF used = {} THEN 0 ELSE Max(used) + 1

(* The files once a table has been renamed to f, in place of any other,    *)
(* and once f has been removed.                                            *)
Renamed(files, f, table) ==
  [g \in DOMAIN files \cup {f} |-> IF g = f THEN table ELSE files[g]]

Removed(files, f) == [g \in DOMAIN files \ {f} |-> files[g]]

(* What the iterator over input i yields.  It opens the file again, by     *)
(* name; one that it cannot open appears to be empty.                      *)
createIterator(tables, files, i, unread) ==
  IF i \in unread THEN Empty ELSE files[tables[i].name]

Inputs(tables, files, unread) ==
  [i \in DOMAIN tables |-> [data |-> createIterator(tables, files, i, unread)]]

ListNames(tables) == {tables[i].name : i \in DOMAIN tables}

(* The merge of the inputs: tombstones are dropped, the rest goes in key   *)
(* order to outputs numbered past every level-1 table.                     *)
Outputs(tables, files, unread) ==
  LET inputs == Inputs(tables, files, unread)
      kept == {k \in Keys : Lookup(inputs, k) \in Values}
      file(k) == Cardinality({j \in kept : j < k}) \div L1_MAX_FILE_ENTRIES
      start == NextCounter(DOMAIN files \cup ListNames(tables), 1)
      n == (Cardinality(kept) + L1_MAX_FILE_ENTRIES - 1) \div L1_MAX_FILE_ENTRIES
  IN  [i \in 1 .. n |->
         [name |-> <<1, start + i - 1>>,
          data |-> [k \in Keys |-> IF k \in kept /\ file(k) = i - 1
                                     THEN Lookup(inputs, k) ELSE None]]]

=============================================================================
