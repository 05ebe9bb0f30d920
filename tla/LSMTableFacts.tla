--------------------------- MODULE LSMTableFacts ---------------------------
(***************************************************************************)
(* What the operators of LSMTables promise the engine that uses them.      *)
(* LSMEngineProofs proves the promises; the proofs about the engine's      *)
(* steps take them as a hypothesis, TableFacts, so that they depend on     *)
(* nothing else about sets, orders and counting.                           *)
(***************************************************************************)
EXTENDS LSMTables

Shows == Values \cup {Absent}

(* A directory of tables.                                                  *)
Files(d) ==
  /\ IsFiniteSet(DOMAIN d) /\ DOMAIN d \subseteq Names
  /\ \A f \in DOMAIN d : d[f] \in Tables

-----------------------------------------------------------------------------
(* Lookup().                                                               *)

(* Table i of the n in T is the newest with an entry for k.                *)
Newest(T, n, k, i) ==
  /\ T[i].data[k] # None
  /\ \A j \in 1 .. n : j > i => T[j].data[k] = None

(* Every entry of U is the live entry of T for its key; every live entry   *)
(* of T is in U.                                                           *)
Merges(U, T) ==
  \A j \in DOMAIN U, k \in Keys :
    U[j].data[k] # None => U[j].data[k] = Lookup(T, k) /\ Lookup(T, k) \in Values

Covers(U, T) ==
  \A k \in Keys : Lookup(T, k) \in Values => \E j \in DOMAIN U : U[j].data[k] # None

(* Lookup() returns the entry of the newest table that has one.            *)
LookupNewestFact ==
  \A T, k : \A n \in Nat : \A i \in 1 .. n :
    DOMAIN T = 1 .. n /\ Newest(T, n, k, i) => Lookup(T, k) = T[i].data[k]

LookupNoneFact ==
  \A T, k : \A n \in Nat :
    DOMAIN T = 1 .. n /\ (\A j \in 1 .. n : T[j].data[k] = None) => Lookup(T, k) = None

(* Tables with the same entries for a key read the same.                   *)
LookupSameFact ==
  \A T, U, k : \A n \in Nat :
    /\ DOMAIN T = 1 .. n /\ DOMAIN U = 1 .. n
    /\ \A i \in 1 .. n : T[i].data[k] = U[i].data[k]
    => Lookup(T, k) = Lookup(U, k)

(* An appended table is read first.                                        *)
LookupAppendFact ==
  \A T, U, k : \A n \in Nat :
    /\ DOMAIN T = 1 .. n /\ DOMAIN U = 1 .. n + 1
    /\ \A i \in 1 .. n : U[i].data[k] = T[i].data[k]
    => Lookup(U, k) = IF U[n + 1].data[k] # None THEN U[n + 1].data[k] ELSE Lookup(T, k)

LookupTypedFact == \A T \in Seq(TableRecs), k \in Keys : Lookup(T, k) \in Cells

ReadTypedFact ==
  \A m \in Tables, T \in Seq(TableRecs), k \in Keys : Read(m, T, k) \in Shows

(* A merge that covers its inputs shows what they show.                    *)
MergedReadsFact ==
  \A T, U \in Seq(TableRecs), k \in Keys :
    Merges(U, T) /\ Covers(U, T) => Live(Lookup(U, k)) = Live(Lookup(T, k))

-----------------------------------------------------------------------------
(* The files.                                                              *)

(* The n entries of s are the files, each once and in load order.          *)
ListsFiles(d, s, n) ==
  /\ s \in [1 .. n -> [name : DOMAIN d, data : {d[f] : f \in DOMAIN d}]]
  /\ \A i \in 1 .. n : s[i].data = d[s[i].name]
  /\ \A i, j \in 1 .. n : i < j => LoadsBefore(s[i].name, s[j].name)
  /\ \A f \in DOMAIN d : \E i \in 1 .. n : s[i].name = f

(* The file that decides what a key reads as after a restart.              *)
Decides(d, k, f) ==
  /\ f \in DOMAIN d /\ d[f][k] # None
  /\ \A g \in DOMAIN d : g # f /\ d[g][k] # None => LoadsBefore(g, f)

NoFilesFact == Files(<<>>)

RenamedFact ==
  \A d : Files(d) => \A f \in Names, t \in Tables : Files(Renamed(d, f, t))

RemovedFact == \A d, f : Files(d) => Files(Removed(d, f))

(* A restart loads every file once, in load order, with its contents, and  *)
(* nothing else lists them so.                                             *)
LoadsFilesFact ==
  \A d : Files(d) =>
    /\ loadSSTables(d) \in Seq(TableRecs)
    /\ \E n \in Nat : ListsFiles(d, loadSSTables(d), n)

LoadsListedFact ==
  \A d, s : \A n \in Nat :
    DOMAIN d \subseteq Names /\ ListsFiles(d, s, n) => loadSSTables(d) = s

(* A key reads as in the file loaded last that has it.                     *)
LoadsLookupFact ==
  \A d, k, f : Files(d) /\ Decides(d, k, f) => Lookup(loadSSTables(d), k) = d[f][k]

DecidingFileFact ==
  \A d, k : Files(d) =>
    \/ (\A f \in DOMAIN d : d[f][k] = None) /\ Lookup(loadSSTables(d), k) = None
    \/ \E f \in DOMAIN d : Decides(d, k, f) /\ Lookup(loadSSTables(d), k) = d[f][k]

(* A new name is past every name of its level.                             *)
NextCounterFact ==
  \A level : \A N \in SUBSET Names : IsFiniteSet(N) =>
    /\ NextCounter(N, level) \in Nat
    /\ \A f \in N : f[1] = level => f[2] < NextCounter(N, level)

(* The outputs of a compaction have names in order, past every level-1     *)
(* name, and hold exactly the live entries of the inputs.                  *)
Numbered(O, N) ==
  \A i \in DOMAIN O :
    /\ O[i].name[1] = 1
    /\ \A j \in DOMAIN O : i < j => O[i].name[2] < O[j].name[2]
    /\ \A f \in N : f[1] = 1 => f[2] < O[i].name[2]

OutputsFact ==
  \A T \in Seq(TableRecs) : \A d, unread : Files(d) =>
    LET O == Outputs(T, d, unread)
    IN  /\ O \in Seq(TableRecs)
        /\ Numbered(O, DOMAIN d \cup ListNames(T))
        /\ Merges(O, Inputs(T, d, unread)) /\ Covers(O, Inputs(T, d, unread))

-----------------------------------------------------------------------------
(* The log.                                                                *)

(* w is l without the lost positions: its positions are, in order, those   *)
(* s lists.                                                                *)
Keeps(l, lost, w, n, s) ==
  /\ s \in [1 .. n -> DOMAIN l \ lost]
  /\ \A i, j \in 1 .. n : i < j => s[i] < s[j]
  /\ \A j \in DOMAIN l \ lost : \E i \in 1 .. n : s[i] = j
  /\ DOMAIN w = 1 .. n
  /\ \A i \in 1 .. n : w[i] = l[s[i]]

(* No record of the key after position i is stable.                        *)
Exposed(l, k, i) == \A j \in DOMAIN l : j > i /\ l[j].key = k => ~l[j].stable

(* Whatever unstable records are lost, each key is left with a value in    *)
(* m: of a record that may become the last one, or of the tables.          *)
Bounded(l, d, m) ==
  /\ \A i \in DOMAIN l : Exposed(l, l[i].key, i) => Live(l[i].val) \in m[l[i].key]
  /\ \A k \in Keys : Exposed(l, k, 0) => Live(Lookup(loadSSTables(d), k)) \in m[k]

LogTypedFact ==
  \A l \in Seq(Records) :
    /\ recoverFromWAL(l) \in Tables
    /\ Stable(l) \in Seq(Records)
    /\ \A lost : Without(l, lost) \in Seq(Records)

ReplayEmptyFact == recoverFromWAL(<<>>) = Empty

(* Replay keeps the last record of each key, stable or not.                *)
ReplayAppendFact ==
  \A l \in Seq(Records), r \in Records, k \in Keys :
    recoverFromWAL(Append(l, r))[k] = IF r.key = k THEN r.val ELSE recoverFromWAL(l)[k]

ReplayStableFact ==
  \A l \in Seq(Records), k \in Keys : recoverFromWAL(Stable(l))[k] = recoverFromWAL(l)[k]

(* What a bound says of the log as it is, and the steps that keep it.      *)
BoundedReplayFact ==
  \A l \in Seq(Records) : \A d, m : Bounded(l, d, m) =>
    \A k \in Keys : Read(recoverFromWAL(l), loadSSTables(d), k) \in m[k]

BoundedWithoutFact ==
  \A l \in Seq(Records) : \A d, m : Bounded(l, d, m) =>
    \A lost \in SUBSET {i \in DOMAIN l : ~l[i].stable} : Bounded(Without(l, lost), d, m)

BoundedStableFact ==
  \A l \in Seq(Records) : \A d, m :
    (\A k \in Keys : Read(recoverFromWAL(l), loadSSTables(d), k) \in m[k])
    => Bounded(Stable(l), d, m)

BoundedAppendFact ==
  \A d : \A l \in Seq(Records), m \in [Keys -> SUBSET Shows], r \in Records :
    Bounded(l, d, m) /\ ~r.stable
    => Bounded(Append(l, r), d, [m EXCEPT ![r.key] = @ \cup {Live(r.val)}])

-----------------------------------------------------------------------------
TableFacts ==
  /\ LookupNewestFact /\ LookupNoneFact /\ LookupSameFact /\ LookupAppendFact
  /\ LookupTypedFact /\ ReadTypedFact /\ MergedReadsFact
  /\ NoFilesFact /\ RenamedFact /\ RemovedFact
  /\ LoadsFilesFact /\ LoadsListedFact /\ LoadsLookupFact /\ DecidingFileFact
  /\ NextCounterFact /\ OutputsFact
  /\ LogTypedFact /\ ReplayEmptyFact /\ ReplayAppendFact /\ ReplayStableFact
  /\ BoundedReplayFact /\ BoundedWithoutFact /\ BoundedStableFact /\ BoundedAppendFact

=============================================================================
