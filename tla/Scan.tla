-------------------------------- MODULE Scan --------------------------------
(***************************************************************************)
(* The two merges of sorted sources: LSMEngine::scan() (src/src/db), with  *)
(* the point reads it has to agree with, and the streaming merge of        *)
(* LeveledCompactor::run() (src/src/compaction).  Both keep the sources'   *)
(* current entries in a heap; each round takes the top and the older       *)
(* entries of its key.  A source is the memtable or a table, as a function *)
(* from keys to cells; SSTable is where a table finds its entries.  It is  *)
(* known by its age: a table by its position in sstables_, oldest first,   *)
(* the memtable by the position after the last.                            *)
(***************************************************************************)
EXTENDS Integers, Sequences, FiniteSets, FiniteSetsExt

CONSTANTS
  NKeys,                \* keys are 1 .. NKeys, in key order
  MaxTables,            \* bound: tables in sstables_
  Values,               \* what each table, and as 0 the memtable, can hold
  Starts, Ends, Limits, \* the arguments of scans; NoEnd is no upper bound
  L1_MAX_FILE_ENTRIES

Keys  == 1 .. NKeys
NoEnd == NKeys + 1      \* past every key: no bound
Tomb  == -1             \* std::nullopt as a value
Miss  == -2             \* no entry for the key

ASSUME ScanAssumption ==
  /\ NKeys \in Nat \ {0} /\ MaxTables \in Nat
  /\ \A s \in 0 .. MaxTables : Values[s] \cap {Tomb, Miss} = {}
  /\ Starts \subseteq Keys /\ Ends \subseteq Keys \cup {NoEnd} /\ Limits \subseteq Nat
  /\ L1_MAX_FILE_ENTRIES \in Nat \ {0}

Contents(s) == [Keys -> Values[s] \cup {Miss, Tomb}]
Nothing == [k \in Keys |-> Miss]

VARIABLES
  mem,      \* memtable_
  tables,   \* sstables_, oldest first
  pc,
  call,     \* the arguments of the scan
  at,       \* the key each open source is at; NoEnd is the end
  heap,     \* the sources that are in the heap
  winner,   \* the source whose entry was taken, its key and value
  out,      \* the pairs returned, or current_l1_buffer
  staged    \* the tables written by the merge

mergeVars == <<at, heap, winner, out, staged>>
vars == <<mem, tables, pc, call, mergeVars>>

NoCall == [start |-> 1, end |-> NoEnd, limit |-> 0]
NoWinner == [source |-> 0, key |-> 0, val |-> Miss]
Reset == at' = <<>> /\ heap' = {} /\ winner' = NoWinner

(* Any tables that flushes can have left; the memtable is written below.   *)
Init ==
  /\ mem = Nothing
  /\ \E n \in 1 .. MaxTables :
       /\ tables \in [1 .. n -> UNION {Contents(s) : s \in 1 .. n}]
       /\ \A s \in 1 .. n : tables[s] \in Contents(s) \ {Nothing}
  /\ pc = "idle" /\ call = NoCall
  /\ at = <<>> /\ heap = {} /\ winner = NoWinner
  /\ out = <<>> /\ staged = <<>>

-----------------------------------------------------------------------------
(* Sources.                                                                *)

Memtable == Len(tables) + 1
Content(s) == IF s = Memtable THEN mem ELSE tables[s]

(* The first key of c that is not before k: what Memtable::seek() and      *)
(* createIterator(start) go to.  The files of all tables can be opened;    *)
(* SSTable has the iterator whose file cannot (SeekUnopened).              *)
SeekIn(c, k) == Min({NoEnd} \cup {j \in Keys : j >= k /\ c[j] # Miss})

Present(c) == {k \in Keys : c[k] # Miss}

(* next() of source i.                                                     *)
NextOf(i) == SeekIn(Content(i), at[i] + 1)

(* LSMEngine::get(): the memtable, then the tables from newest to oldest.  *)
get(k) ==
  LET holding == {i \in DOMAIN tables : tables[i][k] # Miss}
  IN  IF mem[k] # Miss THEN mem[k]
      ELSE IF holding = {} THEN Miss ELSE tables[Max(holding)][k]

-----------------------------------------------------------------------------
(* Writers hold mu_ exclusively, scans hold it shared.                     *)

(* Mutant: writers hold the lock shared.                                   *)
SharedWriters == pc # "merge"

Unlocked == pc = "idle"

(* The bound: a memtable in use counts as a table.                         *)
Write(k, v) ==
  /\ Unlocked /\ Len(tables) < MaxTables
  /\ mem' = [mem EXCEPT ![k] = v]
  /\ UNCHANGED <<tables, pc, call, mergeVars>>

-----------------------------------------------------------------------------
(* LSMEngine::scan().                                                      *)

(* The table may hold keys in range.                                       *)
Overlaps(t, start, end) ==
  /\ Present(t) # {}
  /\ Max(Present(t)) >= start
  /\ end # NoEnd => Min(Present(t)) < end

(* The sources that are opened.                                            *)
Sources(start, end) ==
  {Memtable} \cup {i \in DOMAIN tables : Overlaps(tables[i], start, end)}

(* The order of their ranks: the memtable, then the tables from newest to  *)
(* oldest.                                                                 *)
Rank(i) == Memtable - i

Begin(start, end, limit) ==
  /\ pc = "idle"
  /\ call' = [start |-> start, end |-> end, limit |-> limit]
  /\ out' = <<>>
  /\ IF limit = 0 \/ (end # NoEnd /\ end <= start) THEN
       pc' = "done" /\ UNCHANGED <<at, heap>>
     ELSE
       LET pos == [i \in Sources(start, end) |-> SeekIn(Content(i), start)]
       IN  /\ pc' = "scan"
           /\ at' = pos
           /\ heap' = {i \in DOMAIN pos : pos[i] # NoEnd}
  /\ UNCHANGED <<mem, tables, winner, staged>>

(* heap.top(): the smallest key, and of equal keys the lowest rank.        *)
Top ==
  CHOOSE i \in heap : \A j \in heap : at[i] < at[j] \/ (at[i] = at[j] /\ Rank(i) <= Rank(j))

(* The loop goes on: the heap is not empty, the limit is not reached, and  *)
(* the top is in range.                                                    *)
More ==
  heap # {} /\ Len(out) < call.limit /\ (call.end # NoEnd => at[Top] < call.end)

ScanEnds ==
  /\ pc = "scan" /\ ~More
  /\ pc' = "done"
  /\ Reset /\ UNCHANGED <<mem, tables, call, out, staged>>

(* A round: the top's key and value are copied.                            *)
Take ==
  /\ pc = "scan" /\ More
  /\ winner' = [source |-> Top, key |-> at[Top], val |-> Content(Top)[at[Top]]]
  /\ heap' = heap \ {Top}
  /\ pc' = "skip"
  /\ UNCHANGED <<mem, tables, call, at, out, staged>>

(* Source i goes to its next entry, and into the heap if it has one.       *)
Advance(i) ==
  /\ at' = [at EXCEPT ![i] = NextOf(i)]
  /\ heap' = IF NextOf(i) = NoEnd THEN heap \ {i} ELSE heap \cup {i}

Shadowed == heap # {} /\ at[Top] = winner.key

(* An older version of the key is passed over.                             *)
Skip ==
  /\ pc = "skip" /\ Shadowed
  /\ Advance(Top)
  /\ UNCHANGED <<mem, tables, pc, call, winner, out, staged>>

(* The winner moves on, and its value is returned unless it is a deletion. *)
Emit ==
  /\ pc = "skip" /\ ~Shadowed
  /\ Advance(winner.source)
  /\ out' = IF winner.val = Tomb THEN out
            ELSE Append(out, [key |-> winner.key, val |-> winner.val])
  /\ pc' = "scan"
  /\ UNCHANGED <<mem, tables, call, winner, staged>>

Return ==
  /\ pc = "done"
  /\ pc' = "idle" /\ call' = NoCall /\ out' = <<>>
  /\ UNCHANGED <<mem, tables, at, heap, winner, staged>>

-----------------------------------------------------------------------------
(* LeveledCompactor::run(), phase 1 and the change of the table list.      *)

MergeBegins ==
  /\ pc = "idle"
  /\ pc' = "merge"
  /\ at' = [i \in DOMAIN tables |-> SeekIn(tables[i], 1)]
  /\ heap' = {i \in DOMAIN tables : SeekIn(tables[i], 1) # NoEnd}
  /\ UNCHANGED <<mem, tables, call, winner, out, staged>>

(* Mutant: of equal keys the oldest table's entry.                         *)
MergeTopOldest ==
  CHOOSE i \in heap : \A j \in heap : at[i] < at[j] \/ (at[i] = at[j] /\ i <= j)

(* min_heap.top(): the smallest key, and of equal keys the newest table.   *)
MergeTop ==
  CHOOSE i \in heap : \A j \in heap : at[i] < at[j] \/ (at[i] = at[j] /\ i >= j)

(* The winner is copied and its iterator moves on at once.                 *)
MergeTake ==
  /\ pc = "merge" /\ heap # {}
  /\ winner' = [source |-> MergeTop, key |-> at[MergeTop], val |-> tables[MergeTop][at[MergeTop]]]
  /\ Advance(MergeTop)
  /\ pc' = "drop"
  /\ UNCHANGED <<mem, tables, call, out, staged>>

Duplicate == heap # {} /\ at[MergeTop] = winner.key

MergeDrop ==
  /\ pc = "drop" /\ Duplicate
  /\ Advance(MergeTop)
  /\ UNCHANGED <<mem, tables, pc, call, winner, out, staged>>

(* flushBuffer().                                                          *)
AsTable(b) ==
  [k \in Keys |-> IF \E i \in DOMAIN b : b[i].key = k
                    THEN b[CHOOSE i \in DOMAIN b : b[i].key = k].val ELSE Miss]

flushBuffer(b) ==
  /\ staged' = IF b = <<>> THEN staged ELSE Append(staged, AsTable(b))
  /\ out' = <<>>

(* Mutant: a full buffer takes one more entry.                             *)
MergeEmitLate ==
  LET buffer == IF winner.val = Tomb THEN out
                ELSE Append(out, [key |-> winner.key, val |-> winner.val])
  IN  /\ pc = "drop" /\ ~Duplicate
      /\ IF Len(buffer) > L1_MAX_FILE_ENTRIES
           THEN flushBuffer(buffer) ELSE out' = buffer /\ UNCHANGED staged
      /\ pc' = "merge"
      /\ UNCHANGED <<mem, tables, call, at, heap, winner>>

MergeEmit ==
  LET buffer == IF winner.val = Tomb THEN out
                ELSE Append(out, [key |-> winner.key, val |-> winner.val])
  IN  /\ pc = "drop" /\ ~Duplicate
      /\ IF Len(buffer) >= L1_MAX_FILE_ENTRIES
           THEN flushBuffer(buffer) ELSE out' = buffer /\ UNCHANGED staged
      /\ pc' = "merge"
      /\ UNCHANGED <<mem, tables, call, at, heap, winner>>

MergeFlush ==
  /\ pc = "merge" /\ heap = {} /\ out # <<>>
  /\ flushBuffer(out)
  /\ UNCHANGED <<mem, tables, pc, call, at, heap, winner>>

(* The outputs replace the inputs; Compaction in LSMEngine has the steps   *)
(* between.                                                                *)
MergeEnds ==
  /\ pc = "merge" /\ heap = {} /\ out = <<>>
  /\ tables' = staged /\ staged' = <<>>
  /\ pc' = "idle"
  /\ Reset /\ UNCHANGED <<mem, call, out>>

Next ==
  \/ \E k \in Keys, v \in Values[0] \cup {Tomb} : Write(k, v)
  \/ \E start \in Starts, end \in Ends, limit \in Limits : Begin(start, end, limit)
  \/ ScanEnds \/ Take \/ Skip \/ Emit \/ Return
  \/ MergeBegins \/ MergeTake \/ MergeDrop \/ MergeEmit \/ MergeFlush \/ MergeEnds

Spec == Init /\ [][Next]_vars

-----------------------------------------------------------------------------
(* Properties.                                                             *)

(* "A scan and a point read never disagree": a scan returns, in key order, *)
(* what get() returns for the first keys in its range that are live, as    *)
(* of one state, although it is built over many steps.  The iterators are  *)
(* those of files that open: a table whose iterator does not is left out   *)
(* of a scan without an error.                                             *)
ScanExact ==
  pc = "done" =>
    LET live == {k \in Keys : k >= call.start /\ k < call.end /\ get(k) \notin {Miss, Tomb}}
        first == {k \in live : Cardinality({j \in live : j < k}) < call.limit}
    IN  /\ {[key |-> k, val |-> get(k)] : k \in first} = {out[i] : i \in DOMAIN out}
        /\ \A i, j \in DOMAIN out : i < j => out[i].key < out[j].key

(* A compaction changes no point read.                                     *)
CompactionKeepsReads ==
  [][tables' # tables =>
       \A k \in Keys : LET live(v) == IF v = Tomb THEN Miss ELSE v
                       IN  live(get(k)') = live(get(k))]_vars

(* What a compaction writes: tables of at most L1_MAX_FILE_ENTRIES live    *)
(* entries, only the last of them not full, each above the one before.     *)
OutputsSorted ==
  \A i \in DOMAIN staged :
    LET t == staged[i]
    IN  /\ Present(t) # {} /\ Cardinality(Present(t)) <= L1_MAX_FILE_ENTRIES
        /\ \A k \in Keys : t[k] # Tomb
        /\ i < Len(staged) =>
             /\ Cardinality(Present(t)) = L1_MAX_FILE_ENTRIES
             /\ Max(Present(t)) < Min(Present(staged[i + 1]))

=============================================================================
