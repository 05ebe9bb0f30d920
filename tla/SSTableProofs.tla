--------------------------- MODULE SSTableProofs ----------------------------
(***************************************************************************)
(* The binary search of SSTable::get() and findBlock() is right for every  *)
(* index, key and number of readers, while tables come and go.             *)
(*                                                                         *)
(* The loop invariant: whatever lies beyond hi begins after the key, and   *)
(* the block at lo, unless it is the first, does not.  It needs the lock:  *)
(* no table is destroyed while a reader is searching its index.            *)
(***************************************************************************)
EXTENDS SSTable, FiniteSetTheorems, TLAPS

(* What reader r knows of an index with n blocks.                          *)
Narrowed(r) ==
  LET idx == T(r).index
  IN  /\ op[r].path \in DOMAIN table
      /\ lo[r] >= 1 /\ (lo[r] = 1 \/ lo[r] <= hi[r])
      /\ hi[r] <= Len(idx) /\ (idx # <<>> => hi[r] >= 1)
      /\ lo[r] > 1 => idx[lo[r]].key <= op[r].key
      /\ hi[r] < Len(idx) => ~(idx[hi[r] + 1].key <= op[r].key)

SearchInv ==
  /\ pc \in [Readers -> {"idle", "search", "read"}]
  /\ lo \in [Readers -> Nat] /\ hi \in [Readers -> Nat]
  /\ op = [r \in Readers |-> op[r]]
  /\ \A p \in DOMAIN table : \E n \in Nat : /\ DOMAIN table[p].index = 1 .. n
                                            /\ Len(table[p].index) = n
  /\ \A r \in Readers : pc[r] # "idle" => Narrowed(r)
  /\ \A r \in Readers : pc[r] = "read" => lo[r] = hi[r] /\ T(r).index # <<>>

(* The index a table is written with has as many entries as blocks begin.  *)
LEMMA IndexLength ==
  ASSUME NEW c \in Contents
  PROVE  \E n \in Nat : DOMAIN index(c) = 1 .. n /\ Len(index(c)) = n
<1> DEFINE n == Cardinality(BlockStarts(c))
<1>1. n \in Nat
  <2>1. Len(c) \in Nat
    BY TableAssumption
  <2>2. IsFiniteSet(1 .. Len(c))
    BY <2>1, FS_Interval
  <2>3. BlockStarts(c) \subseteq 1 .. Len(c)
    BY DEF BlockStarts
  <2> QED
    BY <2>2, <2>3, FS_Subset, FS_CardinalityType
<1>2. DOMAIN index(c) = 1 .. n
  BY DEF index
<1>3. index(c) = [j \in 1 .. n |-> index(c)[j]]
  BY DEF index
<1>4. Len(index(c)) = n
  <2> HIDE DEF n
  <2> QED
    BY <1>1, <1>2, <1>3
<1> QED
  BY <1>1, <1>2, <1>4

(* The midpoint lies above lo, so every round of the search narrows it.    *)
LEMMA Midpoint ==
  ASSUME NEW a \in Nat, NEW b \in Nat, a < b
  PROVE  /\ a + (b - a + 1) \div 2 \in Nat
         /\ a < a + (b - a + 1) \div 2 /\ a + (b - a + 1) \div 2 <= b
         /\ a + (b - a + 1) \div 2 - 1 \in Nat
<1> DEFINE d == b - a
<1>1. d \in Nat /\ d >= 1 /\ b = a + d
  OBVIOUS
<1>2. (d + 1) \div 2 \in Nat /\ 1 <= (d + 1) \div 2 /\ (d + 1) \div 2 <= d
  <2> HIDE DEF d
  <2> QED
    BY <1>1
<1> QED
  BY <1>1, <1>2

(* The invariant holds at first.                                           *)
LEMMA InitSearch == Init => SearchInv
BY DEF Init, SearchInv

(* No step of a reader or of the engine disturbs it.                       *)
LEMMA NextSearch == SearchInv /\ [Next]_vars => SearchInv'
<1> SUFFICES ASSUME SearchInv, [Next]_vars
             PROVE  SearchInv'
  OBVIOUS
<1>1. ASSUME NEW r \in Readers, NEW kind \in {"get", "seek"}, NEW k \in Keys,
             NEW p \in Paths, Begin(r, kind, k, p)
      PROVE  SearchInv'
  <2>1. p \in DOMAIN table /\ UNCHANGED table
    BY <1>1 DEF Begin
  <2>2. PICK n \in Nat : DOMAIN table[p].index = 1 .. n /\ Len(table[p].index) = n
    BY <2>1 DEF SearchInv
  <2>3. op' = [op EXCEPT ![r] = [kind |-> kind, key |-> k, path |-> p]]
    BY <1>1 DEF Begin
  <2>4. pc[r] = "idle" /\ pc' = [pc EXCEPT ![r] = pc'[r]] /\ pc'[r] \in {"idle", "search"}
    BY <1>1 DEF Begin, Return, SearchInv
  <2>5. pc'[r] = "search" => lo' = [lo EXCEPT ![r] = 1] /\ hi' = [hi EXCEPT ![r] = n]
    BY <1>1, <2>2 DEF Begin, Return, SearchInv
  <2>6. pc'[r] = "idle" => UNCHANGED <<lo, hi>>
    BY <1>1 DEF Begin, Return, SearchInv
  <2>7. table[p].index # <<>> => n >= 1
    BY <2>2, <2>1, SMTT(30) DEF SearchInv
  <2>8. pc'[r] = "search" => Narrowed(r)'
    BY <2>1, <2>2, <2>3, <2>5, <2>7, SMTT(30) DEF Narrowed, T, SearchInv
  <2>9. \A q \in Readers : q # r /\ pc'[q] # "idle" => Narrowed(q)'
    BY <2>1, <2>3, <2>4, <2>5, <2>6, ZenonT(30) DEF Narrowed, T, SearchInv
  <2>10. /\ pc' \in [Readers -> {"idle", "search", "read"}]
         /\ lo' \in [Readers -> Nat] /\ hi' \in [Readers -> Nat]
    <3>1. pc' \in [Readers -> {"idle", "search", "read"}]
      BY <2>4 DEF SearchInv
    <3> lo \in [Readers -> Nat] /\ hi \in [Readers -> Nat]
      BY DEF SearchInv
    <3>2. CASE pc'[r] = "search"
      BY <3>1, <3>2, <2>5
    <3>3. CASE pc'[r] = "idle"
      BY <3>1, <3>3, <2>6
    <3> QED
      BY <3>2, <3>3, <2>4
  <2>11. op' = [q \in Readers |-> op'[q]]
    BY <2>3, Zenon DEF SearchInv
  <2>12. \A q \in Readers : pc'[q] = "read" => lo'[q] = hi'[q] /\ T(q)'.index # <<>>
    <3> SUFFICES ASSUME NEW q \in Readers, pc'[q] = "read"
                 PROVE  lo'[q] = hi'[q] /\ T(q)'.index # <<>>
      OBVIOUS
    <3>1. q # r /\ pc[q] = "read"
      BY <2>4 DEF SearchInv
    <3>2. T(q)' = T(q)
      BY <3>1, <2>1, <2>3 DEF T, SearchInv
    <3>3. lo'[q] = lo[q] /\ hi'[q] = hi[q]
      BY <3>1, <2>4, <2>5, <2>6, SMTT(30) DEF SearchInv
    <3> QED
      BY <3>1, <3>2, <3>3 DEF SearchInv
  <2> QED
    BY <2>1, <2>8, <2>9, <2>10, <2>11, <2>12, <2>4 DEF T, SearchInv
<1>2. ASSUME NEW r \in Readers, Search(r)
      PROVE  SearchInv'
  <2> DEFINE mid == lo[r] + (hi[r] - lo[r] + 1) \div 2
             idx == T(r).index
  <2>1. pc[r] = "search" /\ lo[r] < hi[r] /\ UNCHANGED <<table, pc, op>>
    BY <1>2, SMTT(30) DEF Search
  <2>2. lo[r] \in Nat /\ hi[r] \in Nat /\ Narrowed(r) /\ Len(idx) \in Nat
    BY <2>1 DEF SearchInv, Narrowed, T
  <2>3. mid \in Nat /\ lo[r] < mid /\ mid <= hi[r] /\ mid - 1 \in Nat
    <3>1. lo[r] \in Nat /\ hi[r] \in Nat /\ lo[r] < hi[r]
      BY <2>1, <2>2, Zenon
    <3> QED
      BY <3>1, Midpoint, SMTT(30)
  <2>4. \/ idx[mid].key <= op[r].key /\ lo' = [lo EXCEPT ![r] = mid] /\ UNCHANGED hi
        \/ ~(idx[mid].key <= op[r].key) /\ hi' = [hi EXCEPT ![r] = mid - 1] /\ UNCHANGED lo
    BY <1>2 DEF Search
  <2>5. lo' \in [Readers -> Nat] /\ hi' \in [Readers -> Nat]
    BY <2>3, <2>4, Zenon DEF SearchInv
  <2>6. T(r)' = T(r) /\ op'[r] = op[r]
    BY <2>1 DEF T
  <2>7. Narrowed(r)'
    <3> HIDE DEF mid
    <3>1. CASE idx[mid].key <= op[r].key /\ lo' = [lo EXCEPT ![r] = mid] /\ UNCHANGED hi
      BY <3>1, <2>1, <2>2, <2>3, <2>6 DEF Narrowed, SearchInv
    <3>2. CASE /\ ~(idx[mid].key <= op[r].key)
               /\ hi' = [hi EXCEPT ![r] = mid - 1] /\ UNCHANGED lo
      <4>1. hi'[r] = mid - 1 /\ lo'[r] = lo[r] /\ hi'[r] + 1 = mid
        BY <3>2, <2>3, SMTT(30) DEF SearchInv
      <4> QED
        BY <3>2, <4>1, <2>1, <2>2, <2>3, <2>6 DEF Narrowed
    <3> QED
      BY <2>4, <3>1, <3>2
  <2>8. \A q \in Readers : q # r /\ pc'[q] # "idle" => Narrowed(q)'
    BY <2>1, <2>4, Zenon DEF Narrowed, T, SearchInv
  <2> QED
    BY <2>1, <2>4, <2>5, <2>7, <2>8, Zenon DEF T, SearchInv
<1>3. ASSUME NEW r \in Readers, Seek(r) \/ Hit(r) \/ Fill(r)
      PROVE  SearchInv'
  <2>1. /\ UNCHANGED <<table, op, lo, hi>>
        /\ pc' = [pc EXCEPT ![r] = "idle"]
    BY <1>3, Zenon DEF Seek, Hit, Fill, Return
  <2> QED
    BY <2>1, SMTT(30) DEF SearchInv, Narrowed, T
<1>4. ASSUME NEW r \in Readers, Read(r)
      PROVE  SearchInv'
  <2>1. /\ UNCHANGED <<table, op, lo, hi>> /\ pc' = [pc EXCEPT ![r] = "read"]
        /\ pc[r] = "search" /\ lo[r] = hi[r] /\ T(r).index # <<>>
    BY <1>4, SMTT(30) DEF Read, Missed
  <2> QED
    BY <2>1 DEF SearchInv, Narrowed, T
<1>5. ASSUME NEW r \in Readers, ReadThrows(r) \/ SeekUnopened(r)
      PROVE  SearchInv'
  <2>1. /\ UNCHANGED <<table, lo, hi>> /\ pc' = [pc EXCEPT ![r] = "idle"]
        /\ \E o : op' = [op EXCEPT ![r] = o]
    <3>1. CASE ReadThrows(r)
      BY <3>1, Zenon DEF ReadThrows
    <3>2. CASE SeekUnopened(r)
      BY <3>2, Zenon DEF SeekUnopened, Return
    <3> QED
      BY <1>5, <3>1, <3>2
  <2> QED
    BY <2>1, Zenon DEF SearchInv, Narrowed, T
<1>6. ASSUME NEW p \in Paths, Destroy(p)
      PROVE  SearchInv'
  <2>1. /\ \A r \in Readers : pc[r] = "idle"
        /\ UNCHANGED <<pc, lo, hi>>
        /\ table' = [q \in DOMAIN table \ {p} |-> table[q]]
        /\ op' = [r \in Readers |-> op'[r]]
    BY <1>6 DEF Destroy, NoReader
  <2> QED
    BY <2>1 DEF SearchInv
<1>7. ASSUME NEW p \in Paths, NEW c \in Contents, Open(p, c)
      PROVE  SearchInv'
  <2>1. /\ \A r \in Readers : pc[r] = "idle"
        /\ UNCHANGED <<pc, lo, hi, op>>
        /\ table' = [q \in DOMAIN table \cup {p} |-> IF q = p THEN File(c) ELSE table[q]]
    BY <1>7 DEF Open, NoReader, readerVars
  <2>2. File(c).index = index(c)
    BY DEF File
  <2>3. \A q \in DOMAIN table' : \E n \in Nat : /\ DOMAIN table'[q].index = 1 .. n
                                                /\ Len(table'[q].index) = n
    BY <2>1, <2>2, IndexLength, SMTT(30) DEF SearchInv
  <2> QED
    BY <2>1, <2>3, Zenon DEF SearchInv
<1>8. CASE UNCHANGED vars
  BY <1>8 DEF vars, readerVars, SearchInv, Narrowed, T
<1> QED
  BY <1>1, <1>2, <1>3, <1>4, <1>5, <1>6, <1>7, <1>8 DEF Next, ReadStep

(* For every index, key and number of readers, the search that precedes a  *)
(* block read ends at the last block that does not begin after the key.    *)
THEOREM FindsBlock == Spec => []FindBlockExact
<1>1. SearchInv => FindBlockExact
  <2> SUFFICES ASSUME SearchInv, NEW r \in Readers,
                      \/ pc[r] = "read"
                      \/ pc[r] = "search" /\ lo[r] >= hi[r] /\ T(r).index # <<>>
               PROVE  /\ lo[r] \in DOMAIN T(r).index
                      /\ lo[r] > 1 => T(r).index[lo[r]].key <= op[r].key
                      /\ lo[r] < Len(T(r).index) =>
                           ~(T(r).index[lo[r] + 1].key <= op[r].key)
    BY DEF FindBlockExact
  <2>1. Narrowed(r) /\ T(r).index # <<>> /\ lo[r] \in Nat /\ hi[r] \in Nat
    BY SMTT(30) DEF SearchInv
  <2>2. PICK n \in Nat : DOMAIN T(r).index = 1 .. n /\ Len(T(r).index) = n
    BY <2>1 DEF SearchInv, Narrowed, T
  <2>3. lo[r] = hi[r]
    BY <2>1 DEF SearchInv, Narrowed
  <2> QED
    BY <2>1, <2>2, <2>3 DEF Narrowed
<1> QED
  BY <1>1, InitSearch, NextSearch, PTL DEF Spec

=============================================================================
