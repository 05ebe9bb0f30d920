----------------------------- MODULE ScanProofs -----------------------------
(***************************************************************************)
(* Proofs about Scan, for every number of keys, tables and entries per     *)
(* output, and every set of values and of arguments: what a scan returns,  *)
(* what a compaction writes and that it changes no read.                   *)
(***************************************************************************)
EXTENDS Scan, TLAPS

-----------------------------------------------------------------------------
(* Least and greatest elements, and sizes.                                 *)

(* What the proofs need of natural numbers and of finite sets.  The last   *)
(* section shows it; until then it is a hypothesis, so that the library's  *)
(* theory of finite sets stays out of the other proofs.                    *)
SetFacts ==
  /\ \A S \in SUBSET Nat : S # {} => \E x \in S : \A y \in S : x <= y
  /\ Cardinality({}) = 0
  /\ \A S \in SUBSET Keys : \A T \in SUBSET S :
       Cardinality(S) \in Nat /\ Cardinality(T) \in Nat /\ Cardinality(T) <= Cardinality(S)
  /\ \A S \in SUBSET Keys, k \in Keys :
       k \notin S => Cardinality(S \cup {k}) = Cardinality(S) + 1

(* A set of natural numbers that is not empty has a least element.         *)
LEMMA LeastExists ==
  ASSUME SetFacts, NEW S \in SUBSET Nat, S # {}
  PROVE  \E x \in S : \A y \in S : x <= y
  BY Zenon DEF SetFacts

(* Min.                                                                    *)
LEMMA MinOf ==
  ASSUME SetFacts, NEW S \in SUBSET Nat, S # {}
  PROVE  Min(S) \in S /\ \A y \in S : Min(S) <= y
  BY LeastExists, Zenon DEF Min

(* Max, of a bounded set.                                                  *)
LEMMA MaxOf ==
  ASSUME SetFacts, NEW n \in Nat, NEW S \in SUBSET (0 .. n), S # {}
  PROVE  Max(S) \in S /\ \A y \in S : y <= Max(S)
<1> DEFINE D == {n - y : y \in S}
<1>1. D \in SUBSET Nat /\ D # {}
  <2>1. ASSUME NEW y \in S PROVE n - y \in Nat
    OBVIOUS
  <2> QED
    BY <2>1, Zenon
<1>2. PICK d \in D : \A e \in D : d <= e
  BY <1>1, LeastExists, Zenon
<1>3. PICK x \in S : d = n - x
  BY <1>2, Zenon
<1>4. ASSUME NEW y \in S PROVE x >= y
  <2>1. d <= n - y
    BY <1>2, Zenon
  <2>2. x \in 0 .. n /\ y \in 0 .. n
    BY Zenon
  <2> QED
    BY <1>3, <2>1, <2>2
<1>5. Max(S) \in S /\ \A y \in S : Max(S) >= y
  BY <1>4, Zenon DEF Max
<1>6. ASSUME NEW y \in S PROVE y <= Max(S)
  <2>1. Max(S) \in 0 .. n /\ y \in 0 .. n /\ Max(S) >= y
    BY <1>5, Zenon
  <2> QED
    BY <2>1
<1> QED
  BY <1>5, <1>6, Zenon

(* Sets of keys are finite, and part of one is no larger.                  *)
LEMMA Sizes ==
  ASSUME SetFacts, NEW S \in SUBSET Keys, NEW T \in SUBSET S
  PROVE  Cardinality(S) \in Nat /\ Cardinality(T) \in Nat /\ Cardinality(T) <= Cardinality(S)
  BY Zenon DEF SetFacts

(* One key more.                                                           *)
LEMMA OneMore ==
  ASSUME SetFacts, NEW S \in SUBSET Keys, NEW k \in Keys, k \notin S
  PROVE  Cardinality(S \cup {k}) = Cardinality(S) + 1
  BY Zenon DEF SetFacts

-----------------------------------------------------------------------------
(* Sources.                                                                *)

Vals  == UNION {Values[s] : s \in 0 .. MaxTables}
Cells == Vals \cup {Tomb, Miss}
Rows  == [Keys -> Cells]

(* p is the first entry of c that is not before b.                         *)
Seeks(c, b, p) ==
  /\ p \in b .. NoEnd
  /\ p # NoEnd => c[p] # Miss
  /\ \A j \in Keys : b <= j /\ j < p => c[j] = Miss

(* Keys are numbers below NoEnd.                                           *)
LEMMA KeyRange ==
  /\ NoEnd \in Nat /\ NKeys \in Nat
  /\ \A k : k \in Keys <=> k \in Nat /\ 1 <= k /\ k < NoEnd
  BY ScanAssumption DEF Keys, NoEnd

(* Values, deletions and absence differ.                                   *)
LEMMA CellsDiffer == Tomb # Miss /\ Tomb \notin Vals /\ Miss \notin Vals
<1>1. Tomb # Miss
  BY DEF Tomb, Miss
<1> QED
  BY <1>1, ScanAssumption, Zenon DEF Vals

(* seek() finds it.                                                        *)
LEMMA SeekFinds ==
  ASSUME SetFacts, NEW c, NEW b \in 1 .. NoEnd
  PROVE  Seeks(c, b, SeekIn(c, b))
<1> DEFINE S == {NoEnd} \cup {j \in Keys : j >= b /\ c[j] # Miss}
<1>1. S \in SUBSET Nat /\ S # {}
  BY KeyRange, Zenon
<1>2. PICK p : p = SeekIn(c, b)
  BY Zenon
<1>3. p \in S /\ \A y \in S : p <= y
  BY <1>1, <1>2, MinOf, Zenon DEF SeekIn
<1>4. b \in Nat /\ b <= NoEnd /\ NoEnd \in Nat
  BY KeyRange
<1>5. p \in b .. NoEnd
  <2>1. CASE p = NoEnd
    BY <1>4, <2>1
  <2>2. CASE p \in Keys /\ p >= b
    BY <1>4, <2>2, KeyRange
  <2> QED
    BY <1>3, <2>1, <2>2, Zenon
<1>6. p # NoEnd => c[p] # Miss
  BY <1>3, Zenon
<1>7. ASSUME NEW j \in Keys, b <= j, j < p PROVE c[j] = Miss
  <2>1. j \in Nat /\ p \in Nat /\ ~ (p <= j) /\ j >= b
    BY <1>4, <1>5, <1>7, KeyRange
  <2> QED
    BY <2>1, <1>3, Zenon
<1> QED
  BY <1>2, <1>5, <1>6, <1>7, Zenon DEF Seeks

(* What is first from b is first from every place up to it.                *)
LEMMA SeekOn ==
  ASSUME NEW c, NEW b \in 1 .. NoEnd, NEW p, NEW e \in Nat, b <= e, e <= p, Seeks(c, b, p)
  PROVE  Seeks(c, e, p)
<1>1. p \in Nat /\ p <= NoEnd /\ NoEnd \in Nat
  BY KeyRange DEF Seeks
<1>2. p \in e .. NoEnd
  BY <1>1
<1>3. ASSUME NEW j \in Keys, e <= j, j < p PROVE c[j] = Miss
  <2>1. b <= j
    BY <1>3, KeyRange
  <2> QED
    BY <1>3, <2>1, Zenon DEF Seeks
<1> QED
  BY <1>2, <1>3, Zenon DEF Seeks

-----------------------------------------------------------------------------
(* Reads.                                                                  *)

(* The entry of the newest of the tables T that has one.                   *)
HeldIn(T, k) ==
  LET holding == {i \in DOMAIN T : T[i][k] # Miss}
  IN  IF holding = {} THEN Miss ELSE T[Max(holding)][k]

(* It is the entry of a table above which no table has one.                *)
LEMMA HeldIs ==
  ASSUME SetFacts, NEW T \in Seq(Rows), NEW k, NEW s \in DOMAIN T, T[s][k] # Miss,
         \A t \in DOMAIN T : T[t][k] # Miss => t <= s
  PROVE  HeldIn(T, k) = T[s][k]
<1> DEFINE H == {i \in DOMAIN T : T[i][k] # Miss}
<1>1. DOMAIN T = 1 .. Len(T) /\ Len(T) \in Nat
  OBVIOUS
<1>2. H \in SUBSET (0 .. Len(T)) /\ H # {}
  <2>1. 1 .. Len(T) \subseteq 0 .. Len(T)
    BY <1>1
  <2> QED
    BY <1>1, <2>1, Zenon
<1>3. PICK m : m = Max(H)
  BY Zenon
<1>4. m \in H /\ \A y \in H : y <= m
  BY <1>1, <1>2, <1>3, MaxOf, Zenon
<1>5. m = s
  <2>1. m <= s /\ s <= m
    BY <1>4, Zenon
  <2>2. m \in Nat /\ s \in Nat
    BY <1>1, <1>4
  <2> QED
    BY <2>1, <2>2
<1> QED
  BY <1>2, <1>3, <1>5, Zenon DEF HeldIn

(* There is such a table unless none has an entry.                         *)
LEMMA HeldBy ==
  ASSUME SetFacts, NEW T \in Seq(Rows), NEW k \in Keys
  PROVE  /\ (\A t \in DOMAIN T : T[t][k] = Miss) <=> HeldIn(T, k) = Miss
         /\ HeldIn(T, k) \in Cells
         /\ HeldIn(T, k) # Miss => \E s \in DOMAIN T : T[s][k] = HeldIn(T, k)
<1> DEFINE H == {i \in DOMAIN T : T[i][k] # Miss}
<1>1. DOMAIN T = 1 .. Len(T) /\ Len(T) \in Nat /\ \A i \in DOMAIN T : T[i] \in Rows
  OBVIOUS
<1>2. CASE H = {}
  BY <1>2, Zenon DEF HeldIn, Cells
<1>3. CASE H # {}
  <2>1. H \in SUBSET (0 .. Len(T))
    <3>1. 1 .. Len(T) \subseteq 0 .. Len(T)
      BY <1>1
    <3> QED
      BY <1>1, <3>1, Zenon
  <2>2. PICK m : m = Max(H)
    BY Zenon
  <2>3. m \in H
    BY <1>1, <1>3, <2>1, <2>2, MaxOf, Zenon
  <2>4. HeldIn(T, k) = T[m][k]
    BY <1>3, <2>2, Zenon DEF HeldIn
  <2>5. T[m][k] \in Cells
    BY <1>1, <2>3, Zenon DEF Rows
  <2> QED
    BY <2>3, <2>4, <2>5, Zenon
<1> QED
  BY <1>2, <1>3, Zenon

(* get() goes to the memtable first.                                       *)
LEMMA GetHeld ==
  ASSUME NEW k
  PROVE  get(k) = IF mem[k] # Miss THEN mem[k] ELSE HeldIn(tables, k)
  BY Zenon DEF get, HeldIn

(* The sources are the tables and, after them, the memtable.               *)
LEMMA Positions ==
  ASSUME tables \in Seq(Rows)
  PROVE  /\ Memtable \in Nat /\ Len(tables) \in Nat /\ Memtable = Len(tables) + 1
         /\ DOMAIN tables = 1 .. Len(tables) /\ Memtable \notin DOMAIN tables
         /\ \A s \in 1 .. Memtable : s # Memtable => s \in DOMAIN tables
         /\ \A s \in DOMAIN tables : s \in 1 .. Memtable /\ s <= Memtable /\ Content(s) = tables[s]
         /\ Content(Memtable) = mem
<1>1. Len(tables) \in Nat /\ DOMAIN tables = 1 .. Len(tables)
  OBVIOUS
<1>2. PICK m : m = Memtable
  BY Zenon
<1>3. m = Len(tables) + 1
  BY <1>2, Zenon DEF Memtable
<1>4. m \in Nat /\ m \notin 1 .. Len(tables)
  BY <1>1, <1>3
<1>5. \A s \in 1 .. m : s # m => s \in 1 .. Len(tables)
  BY <1>1, <1>3
<1>6. \A s \in 1 .. Len(tables) : s \in 1 .. m /\ s <= m
  BY <1>1, <1>3
<1>7. \A s \in DOMAIN tables : Content(s) = tables[s]
  BY <1>1, <1>2, <1>4, Zenon DEF Content
<1>8. Content(m) = mem
  BY <1>2, Zenon DEF Content
<1> QED
  BY <1>1, <1>2, <1>3, <1>4, <1>5, <1>6, <1>7, <1>8, Zenon

(* get() returns the entry of a source above which no source has one.      *)
LEMMA GetIs ==
  ASSUME SetFacts,
         tables \in Seq(Rows), NEW k, NEW s \in 1 .. Memtable, Content(s)[k] # Miss,
         \A t \in 1 .. Memtable : Content(t)[k] # Miss => t <= s
  PROVE  get(k) = Content(s)[k]
<1>1. CASE s = Memtable
  BY <1>1, Positions, GetHeld, Zenon
<1>2. CASE s # Memtable
  <2>1. s \in DOMAIN tables /\ Content(s) = tables[s]
    BY <1>2, Positions, Zenon
  <2>2. Memtable \in 1 .. Memtable /\ ~ (Memtable <= s)
    BY <1>2, Positions
  <2>3. mem[k] = Miss
    BY <2>2, Positions, Zenon
  <2>4. \A t \in DOMAIN tables : tables[t][k] # Miss => t <= s
    BY Positions, Zenon
  <2>5. HeldIn(tables, k) = tables[s][k]
    BY <2>1, <2>4, HeldIs, Zenon
  <2> QED
    BY <2>1, <2>3, <2>5, GetHeld, Zenon
<1> QED
  BY <1>1, <1>2

(* It misses when none has one.                                            *)
LEMMA GetNone ==
  ASSUME SetFacts,
         tables \in Seq(Rows), NEW k \in Keys, \A t \in 1 .. Memtable : Content(t)[k] = Miss
  PROVE  get(k) = Miss
<1>1. Memtable \in 1 .. Memtable
  BY Positions
<1>2. mem[k] = Miss
  BY <1>1, Positions, Zenon
<1>3. \A t \in DOMAIN tables : tables[t][k] = Miss
  BY Positions, Zenon
<1> QED
  BY <1>2, <1>3, HeldBy, GetHeld, Zenon

-----------------------------------------------------------------------------
(* The heap.                                                               *)

(* There is a least key, and a newest source that is at it.                *)
LEMMA BestExists ==
  ASSUME SetFacts,
         NEW n \in Nat, NEW H \in SUBSET (0 .. n), H # {}, NEW f, \A i \in H : f[i] \in Nat
  PROVE  \E i \in H : \A j \in H : f[i] < f[j] \/ (f[i] = f[j] /\ j <= i)
<1> DEFINE K == {f[i] : i \in H}
<1>1. K \in SUBSET Nat /\ K # {}
  BY Zenon
<1>2. PICK k \in K : \A l \in K : k <= l
  BY <1>1, LeastExists, Zenon
<1> DEFINE L == {i \in H : f[i] = k}
<1>3. L \in SUBSET (0 .. n) /\ L # {}
  BY Zenon
<1>4. PICK m \in L : \A y \in L : y <= m
  BY <1>3, MaxOf, Zenon
<1>5. ASSUME NEW j \in H PROVE f[m] < f[j] \/ (f[m] = f[j] /\ j <= m)
  <2>1. f[m] = k /\ k <= f[j] /\ k \in Nat /\ f[j] \in Nat
    BY <1>1, <1>2, <1>4, Zenon
  <2>2. f[j] = k => j <= m
    BY <1>4, Zenon
  <2> HIDE DEF K, L
  <2>3. k = f[j] \/ k < f[j]
    BY <2>1
  <2> QED
    BY <2>1, <2>2, <2>3, Zenon
<1> QED
  BY <1>4, <1>5, Zenon

(* The open sources and where they are.                                    *)
Open == tables \in Seq(Rows) /\ mem \in Rows /\ DOMAIN at \subseteq 1 .. Memtable
        /\ at \in [DOMAIN at -> 1 .. NoEnd]

(* i has the least key in the heap, and of these is the newest.            *)
First(i) == i \in heap /\ \A j \in heap : at[i] < at[j] \/ (at[i] = at[j] /\ j <= i)

(* Both heaps have it on top.                                              *)
LEMMA Tops ==
  ASSUME SetFacts, Open, heap \subseteq DOMAIN at, heap # {}
  PROVE  First(Top) /\ First(MergeTop)
<1>1. Memtable \in Nat
  BY Positions, Zenon DEF Open
<1>2. heap \in SUBSET (0 .. Memtable) /\ heap \subseteq 1 .. Memtable
  <2>1. 1 .. Memtable \subseteq 0 .. Memtable
    BY <1>1
  <2> QED
    BY <2>1, Zenon DEF Open
<1>3. \A i \in heap : at[i] \in Nat
  <2>1. 1 .. NoEnd \subseteq Nat
    BY KeyRange
  <2> QED
    BY <2>1, Zenon DEF Open
<1>4. PICK i \in heap : \A j \in heap : at[i] < at[j] \/ (at[i] = at[j] /\ j <= i)
  BY <1>1, <1>2, <1>3, BestExists, Zenon
<1>5. ASSUME NEW x \in heap, NEW y \in heap
      PROVE  (Rank(x) <= Rank(y) <=> y <= x) /\ (x >= y <=> y <= x)
  <2>1. x \in Nat /\ y \in Nat
    BY <1>1, <1>2
  <2>2. PICK m : m = Memtable
    BY Zenon
  <2>3. m \in Nat
    BY <1>1, <2>2, Zenon
  <2>4. (m - x <= m - y <=> y <= x) /\ (x >= y <=> y <= x)
    BY <2>1, <2>3
  <2> QED
    BY <2>2, <2>4, Zenon DEF Rank
<1>6. First(Top)
  <2>1. \A j \in heap : at[i] < at[j] \/ (at[i] = at[j] /\ Rank(i) <= Rank(j))
    BY <1>4, <1>5, Zenon
  <2>2. Top \in heap /\ \A j \in heap : at[Top] < at[j] \/ (at[Top] = at[j] /\ Rank(Top) <= Rank(j))
    BY <1>4, <2>1, Zenon DEF Top
  <2> QED
    BY <1>5, <2>2, Zenon DEF First
<1>7. First(MergeTop)
  <2>1. \A j \in heap : at[i] < at[j] \/ (at[i] = at[j] /\ i >= j)
    BY <1>4, <1>5, Zenon
  <2>2. MergeTop \in heap
        /\ \A j \in heap : at[MergeTop] < at[j] \/ (at[MergeTop] = at[j] /\ MergeTop >= j)
    BY <1>4, <2>1, Zenon DEF MergeTop
  <2> QED
    BY <1>5, <2>2, Zenon DEF First
<1> QED
  BY <1>6, <1>7

(* A source moves on.                                                      *)
LEMMA Advances ==
  ASSUME SetFacts,
         Open, NEW i \in DOMAIN at, at[i] # NoEnd, Advance(i), UNCHANGED <<mem, tables>>
  PROVE  /\ Open' /\ DOMAIN at' = DOMAIN at
         /\ \A j \in DOMAIN at : j # i => at'[j] = at[j]
         /\ Seeks(Content(i), at[i] + 1, at'[i])
         /\ heap' = IF at'[i] = NoEnd THEN heap \ {i} ELSE heap \cup {i}
         /\ \A j : Content(j)' = Content(j)
<1>1. \A j : Content(j)' = Content(j)
  BY Zenon DEF Content, Memtable
<1>2. at[i] \in 1 .. NoEnd
  BY Zenon DEF Open
<1>3. at[i] + 1 \in 1 .. NoEnd
  BY <1>2, KeyRange
<1>4. Seeks(Content(i), at[i] + 1, NextOf(i))
  BY <1>3, SeekFinds, Zenon DEF NextOf
<1>5. NextOf(i) \in 1 .. NoEnd
  <2>1. NextOf(i) \in at[i] + 1 .. NoEnd
    BY <1>4, Zenon DEF Seeks
  <2>2. at[i] + 1 .. NoEnd \subseteq 1 .. NoEnd
    BY <1>3, KeyRange
  <2> QED
    BY <2>1, <2>2, Zenon
<1>6. /\ DOMAIN at' = DOMAIN at /\ at' \in [DOMAIN at -> 1 .. NoEnd]
      /\ at'[i] = NextOf(i) /\ \A j \in DOMAIN at : j # i => at'[j] = at[j]
  BY <1>5, Zenon DEF Advance, Open
<1>7. heap' = IF at'[i] = NoEnd THEN heap \ {i} ELSE heap \cup {i}
  BY <1>6, Zenon DEF Advance
<1>8. Open'
  BY <1>6, Zenon DEF Open, Memtable
<1> QED
  BY <1>1, <1>4, <1>6, <1>7, <1>8, Zenon

-----------------------------------------------------------------------------
(* What is returned or written: a list in key order.                       *)

Pairs == [key : Keys, val : Vals]

KeysOf(o) == {o[i].key : i \in DOMAIN o}

Listed(o) ==
  /\ o \in Seq(Pairs)
  /\ \A i, j \in DOMAIN o : i < j => o[i].key < o[j].key
  /\ Cardinality(KeysOf(o)) = Len(o)

(* The elements of a sequence, and of one with an element more.            *)
LEMMA Elements ==
  ASSUME NEW R, NEW s \in Seq(R)
  PROVE  Len(s) \in Nat /\ DOMAIN s = 1 .. Len(s) /\ \A i \in DOMAIN s : s[i] \in R
  OBVIOUS

LEMMA NotEmpty ==
  ASSUME NEW R, NEW s \in Seq(R), s # <<>>
  PROVE  DOMAIN s # {}
<1> SUFFICES ASSUME DOMAIN s = {} PROVE FALSE
  BY Zenon
<1>1. Len(s) \in Nat /\ 1 .. Len(s) = {}
  BY Elements, Zenon
<1>2. Len(s) = 0
  BY <1>1
<1> QED
  BY <1>2

LEMMA Appended ==
  ASSUME NEW R, NEW s \in Seq(R), NEW e \in R
  PROVE  /\ Append(s, e) \in Seq(R) /\ Len(Append(s, e)) = Len(s) + 1
         /\ DOMAIN Append(s, e) = 1 .. Len(s) + 1
         /\ 1 .. Len(s) + 1 = (1 .. Len(s)) \cup {Len(s) + 1}
         /\ \A i \in 1 .. Len(s) : Append(s, e)[i] = s[i]
         /\ Append(s, e)[Len(s) + 1] = e
  OBVIOUS

(* It begins empty.                                                        *)
LEMMA ListedEmpty ==
  ASSUME SetFacts
  PROVE  Listed(<<>>) /\ KeysOf(<<>>) = {} /\ Len(<<>>) = 0
<1>1. DOMAIN <<>> = {} /\ Len(<<>>) = 0 /\ <<>> \in Seq(Pairs)
  OBVIOUS
<1>2. KeysOf(<<>>) = {}
  BY <1>1, Zenon DEF KeysOf
<1> QED
  BY <1>1, <1>2, Zenon DEF Listed, SetFacts

(* A key is added at the end of the list o.                                *)
With(o, k, v) == Append(o, [key |-> k, val |-> v])

Adds(p, o, k, v) ==
  /\ Listed(p) /\ KeysOf(p) = KeysOf(o) \cup {k}
  /\ Len(p) = Len(o) + 1 /\ DOMAIN p = DOMAIN o \cup {Len(p)}
  /\ \A i \in DOMAIN o : p[i] = o[i]
  /\ p[Len(p)].key = k /\ p[Len(p)].val = v

(* It stays a list in key order when the key is above the others.          *)
LEMMA ListedAppend ==
  ASSUME SetFacts,
         NEW o, Listed(o), NEW k \in Keys, NEW v \in Vals, \A l \in KeysOf(o) : l < k,
         NEW p, p = With(o, k, v)
  PROVE  Adds(p, o, k, v)
<1> DEFINE e == [key |-> k, val |-> v]
           n == Len(o)
<1>1. o \in Seq(Pairs) /\ Cardinality(KeysOf(o)) = n
  BY Zenon DEF Listed
<1>2. n \in Nat /\ DOMAIN o = 1 .. n /\ \A i \in DOMAIN o : o[i] \in Pairs
  BY <1>1, Elements, Zenon
<1>3. e \in Pairs /\ e.key = k /\ e.val = v /\ p = Append(o, e)
  BY Zenon DEF Pairs, With
<1> HIDE DEF e
<1>4. /\ p \in Seq(Pairs) /\ Len(p) = n + 1 /\ DOMAIN p = 1 .. n + 1
      /\ \A i \in 1 .. n : p[i] = o[i]
      /\ p[n + 1] = e
  BY <1>1, <1>3, Appended
<1> HIDE DEF n
<1>5. 1 .. n + 1 = (1 .. n) \cup {n + 1}
  BY <1>2
<1>6. KeysOf(p) = KeysOf(o) \cup {k}
  <2>1. ASSUME NEW x PROVE x \in KeysOf(p) <=> x \in KeysOf(o) \/ x = k
    BY <1>2, <1>3, <1>4, <1>5, Zenon DEF KeysOf
  <2> QED
    BY <2>1, Zenon
<1>7. KeysOf(o) \in SUBSET Keys
  BY <1>2, Zenon DEF KeysOf, Pairs
<1>8. k \notin KeysOf(o)
  <2>1. ~ (k < k)
    BY KeyRange
  <2> QED
    BY <2>1, Zenon
<1>9. Cardinality(KeysOf(p)) = n + 1
  BY <1>1, <1>6, <1>7, <1>8, OneMore, Zenon DEF n
<1>10. ASSUME NEW i \in 1 .. n + 1, NEW j \in 1 .. n + 1, i < j PROVE p[i].key < p[j].key
  <2>1. i \in 1 .. n
    BY <1>2, <1>10
  <2>2. p[i].key = o[i].key /\ o[i].key \in KeysOf(o)
    BY <1>2, <1>4, <2>1, Zenon DEF KeysOf
  <2>3. CASE j \in 1 .. n
    BY <1>2, <1>4, <1>10, <2>1, <2>2, <2>3, Zenon DEF Listed
  <2>4. CASE j = n + 1
    BY <1>3, <1>4, <2>2, <2>4, Zenon
  <2> QED
    BY <1>5, <2>3, <2>4, Zenon
<1>11. Listed(p)
  BY <1>4, <1>9, <1>10, Zenon DEF Listed
<1> QED
  BY <1>2, <1>3, <1>4, <1>5, <1>6, <1>11, Zenon DEF n, Adds

-----------------------------------------------------------------------------
(* The invariant.                                                          *)

Live(v) == v \notin {Miss, Tomb}

(* Between rounds every open source is at its first entry from b on.       *)
Placed(b) == \A i \in DOMAIN at : Seeks(Content(i), b, at[i])

(* Within a round it has that key, or is past it.                          *)
Passing ==
  \A i \in DOMAIN at :
    \/ at[i] = winner.key /\ Content(i)[winner.key] # Miss
    \/ Seeks(Content(i), winner.key + 1, at[i])

Valid == {i \in DOMAIN at : at[i] # NoEnd}

(* What a scan has opened: the memtable and every table with a key in      *)
(* range.                                                                  *)
Opened ==
  /\ Open
  /\ call.start \in Keys /\ call.end \in Keys \cup {NoEnd} /\ call.limit \in Nat
  /\ call.start < call.end
  /\ Memtable \in DOMAIN at
  /\ \A i \in DOMAIN tables : i \notin DOMAIN at =>
       \A k \in Keys : call.start <= k /\ k < call.end => tables[i][k] = Miss

(* It has returned what get() returns for the live keys before b.          *)
Returned(b) ==
  /\ Listed(out)
  /\ \A i \in DOMAIN out : out[i].val = get(out[i].key)
  /\ \A k \in Keys : k \in KeysOf(out) <=> call.start <= k /\ k < b /\ Live(get(k))

Scanning ==
  /\ Opened /\ heap = Valid /\ Len(out) <= call.limit
  /\ \E b \in call.start .. call.end : Placed(b) /\ Returned(b)

Skipping ==
  /\ Opened /\ winner.source \in DOMAIN at /\ at[winner.source] = winner.key
  /\ heap = Valid \ {winner.source} /\ Passing
  /\ winner.key \in Keys /\ call.start <= winner.key /\ winner.key < call.end
  /\ winner.val = get(winner.key) /\ winner.val # Miss
  /\ Len(out) < call.limit /\ Returned(winner.key)

(* The merge of the tables T has written st and buffered o: the live       *)
(* entries before b.                                                       *)
Merged(T, b, o, st) ==
  /\ Listed(o) /\ st \in Seq(Rows)
  /\ \A i \in DOMAIN o : o[i].val = HeldIn(T, o[i].key)
  /\ \A k \in Keys :
       (k \in KeysOf(o) \/ \E i \in DOMAIN st : st[i][k] # Miss) <=> k < b /\ Live(HeldIn(T, k))
  /\ \A i \in DOMAIN st, k \in Keys : st[i][k] \in {Miss, HeldIn(T, k)}
  /\ \A i \in DOMAIN st, k \in Keys : st[i][k] # Miss =>
       /\ \A l \in KeysOf(o) : k < l
       /\ \A j \in DOMAIN st, l \in Keys : i < j /\ st[j][l] # Miss => k < l

(* The sizes of what it has written: all are full while there is more.     *)
Filled(st, more) ==
  \A i \in DOMAIN st :
    /\ Present(st[i]) # {}
    /\ Cardinality(Present(st[i])) <= L1_MAX_FILE_ENTRIES
    /\ i < Len(st) \/ more => Cardinality(Present(st[i])) = L1_MAX_FILE_ENTRIES

Merging ==
  /\ Open /\ DOMAIN at = DOMAIN tables /\ heap = Valid
  /\ \E b \in 1 .. NoEnd : Placed(b) /\ Merged(tables, b, out, staged)
  /\ Len(out) < L1_MAX_FILE_ENTRIES /\ Filled(staged, heap # {} \/ out # <<>>)

Dropping ==
  /\ Open /\ DOMAIN at = DOMAIN tables /\ heap = Valid /\ Passing
  /\ winner.key \in Keys /\ winner.val = HeldIn(tables, winner.key) /\ winner.val # Miss
  /\ Merged(tables, winner.key, out, staged)
  /\ Len(out) < L1_MAX_FILE_ENTRIES /\ Filled(staged, TRUE)

Inv ==
  /\ mem \in Rows /\ tables \in Seq(Rows)
  /\ pc \in {"idle", "scan", "skip", "done", "merge", "drop"}
  /\ pc = "idle" => out = <<>>
  /\ pc \notin {"merge", "drop"} => staged = <<>>
  /\ pc = "scan" => Scanning
  /\ pc = "skip" => Skipping
  /\ pc = "done" => ScanExact
  /\ pc = "merge" => Merging
  /\ pc = "drop" => Dropping

-----------------------------------------------------------------------------
(* Rounds, of either merge.                                                *)

(* The top of a heap whose sources are placed: its key is the least, and   *)
(* no source above it has an entry of that key.                            *)
LEMMA Round ==
  ASSUME Open, NEW b \in 1 .. NoEnd, Placed(b), heap = Valid, NEW i, First(i)
  PROVE  /\ i \in DOMAIN at /\ at[i] \in Keys /\ b <= at[i] /\ Content(i)[at[i]] # Miss
         /\ \A j \in DOMAIN at :
              /\ at[i] <= at[j] /\ Seeks(Content(j), at[i], at[j])
              /\ Content(j)[at[i]] # Miss => at[j] = at[i] /\ j <= i
<1>1. i \in DOMAIN at /\ at[i] # NoEnd
  BY Zenon DEF First, Valid
<1>2. \A j \in DOMAIN at : at[j] \in 1 .. NoEnd /\ Seeks(Content(j), b, at[j])
  BY Zenon DEF Open, Placed
<1>3. PICK k : k = at[i]
  BY Zenon
<1>4. k \in 1 .. NoEnd /\ k \in b .. NoEnd /\ k # NoEnd /\ Content(i)[k] # Miss
  BY <1>1, <1>2, <1>3, Zenon DEF Seeks
<1>5. k \in Keys /\ k \in Nat /\ b \in Nat /\ b <= k /\ k < NoEnd
  BY <1>4, KeyRange
<1>6. ASSUME NEW j \in DOMAIN at
      PROVE  /\ k <= at[j] /\ Seeks(Content(j), k, at[j])
             /\ Content(j)[k] # Miss => at[j] = k /\ j <= i
  <2>1. at[j] \in 1 .. NoEnd
    BY <1>2, Zenon
  <2>2. at[j] # NoEnd => k < at[j] \/ (k = at[j] /\ j <= i)
    BY <1>3, Zenon DEF First, Valid
  <2>3. k <= at[j]
    BY <1>5, <2>1, <2>2, KeyRange
  <2>4. Seeks(Content(j), k, at[j])
    BY <1>2, <1>5, <2>3, SeekOn, Zenon
  <2>5. ASSUME Content(j)[k] # Miss PROVE at[j] = k
    <3>1. ~ (b <= k /\ k < at[j])
      BY <1>2, <1>5, <2>5, Zenon DEF Seeks
    <3> QED
      BY <1>5, <2>1, <2>3, <3>1, KeyRange
  <2>6. ASSUME at[j] = k PROVE j <= i
    <3>1. ~ (k < at[j])
      BY <1>5, <2>6
    <3> QED
      BY <1>4, <2>2, <2>6, <3>1, Zenon
  <2> QED
    BY <2>3, <2>4, <2>5, <2>6, Zenon
<1> QED
  BY <1>1, <1>3, <1>4, <1>5, <1>6, Zenon

(* From the first entry at k or later: at k, or placed past it.            *)
LEMMA AtOrPast ==
  ASSUME NEW c, NEW k \in Keys, NEW p, Seeks(c, k, p)
  PROVE  (p = k /\ c[k] # Miss) \/ Seeks(c, k + 1, p)
<1>1. k \in Nat /\ k \in 1 .. NoEnd /\ k # NoEnd /\ k + 1 \in Nat /\ k <= k + 1
  BY KeyRange
<1>2. p \in k .. NoEnd
  BY Zenon DEF Seeks
<1>3. CASE p = k
  BY <1>1, <1>3, Zenon DEF Seeks
<1>4. CASE p # k
  <2>1. k + 1 <= p
    BY <1>1, <1>2, <1>4, KeyRange
  <2> QED
    BY <1>1, <2>1, SeekOn, Zenon
<1> QED
  BY <1>3, <1>4

(* Within a round no source is before its key, and one that is past it is  *)
(* not at it.                                                              *)
LEMMA NotBefore ==
  ASSUME Open, Passing, winner.key \in Keys, NEW j \in DOMAIN at
  PROVE  /\ at[j] \in Nat /\ winner.key <= at[j]
         /\ at[j] # winner.key => Seeks(Content(j), winner.key + 1, at[j])
<1>1. PICK w : w = winner.key
  BY Zenon
<1>2. w \in Nat /\ w < NoEnd
  BY <1>1, KeyRange
<1>3. at[j] \in Nat
  <2>1. at[j] \in 1 .. NoEnd
    BY Zenon DEF Open
  <2> QED
    BY <2>1
<1>4. at[j] = w \/ Seeks(Content(j), w + 1, at[j])
  BY <1>1, Zenon DEF Passing
<1>5. CASE at[j] = w
  BY <1>1, <1>2, <1>5
<1>6. CASE Seeks(Content(j), w + 1, at[j])
  <2>1. at[j] \in w + 1 .. NoEnd
    BY <1>6, Zenon DEF Seeks
  <2>2. w <= at[j]
    BY <1>2, <2>1
  <2> QED
    BY <1>1, <1>3, <1>6, <2>2, Zenon
<1> QED
  BY <1>4, <1>5, <1>6

(* When the top is not at the key, no source in the heap is.               *)
LEMMA NoneLeft ==
  ASSUME Open, Passing, winner.key \in Keys, heap \subseteq DOMAIN at,
         NEW i, heap # {} => First(i) /\ at[i] # winner.key
  PROVE  \A j \in heap : at[j] # winner.key
<1> SUFFICES ASSUME NEW j \in heap, at[j] = winner.key PROVE FALSE
  OBVIOUS
<1>1. First(i) /\ at[i] # winner.key
  BY Zenon
<1>2. i \in DOMAIN at /\ (at[i] < at[j] \/ at[i] = at[j])
  BY <1>1, Zenon DEF First
<1>3. PICK w, a : w = winner.key /\ a = at[i]
  BY Zenon
<1>4. a \in Nat /\ w <= a
  BY <1>2, <1>3, NotBefore, Zenon
<1>5. w \in Nat
  BY <1>3, KeyRange
<1>6. a < w \/ a = w
  BY <1>2, <1>3, Zenon
<1>7. a # w
  BY <1>1, <1>3, Zenon
<1> QED
  BY <1>4, <1>5, <1>6, <1>7

(* A source at the key moves on, and is past it.                           *)
LEMMA Passes ==
  ASSUME SetFacts,
         Open, Passing, winner.key \in Keys, NEW i \in DOMAIN at, at[i] = winner.key,
         Advance(i), UNCHANGED <<mem, tables>>
  PROVE  /\ Open' /\ DOMAIN at' = DOMAIN at /\ \A j : Content(j)' = Content(j)
         /\ \A j \in DOMAIN at : j # i => at'[j] = at[j]
         /\ Seeks(Content(i), winner.key + 1, at'[i]) /\ at'[i] # winner.key
         /\ heap' = IF at'[i] = NoEnd THEN heap \ {i} ELSE heap \cup {i}
         /\ \A j \in DOMAIN at :
              \/ at'[j] = winner.key /\ Content(j)[winner.key] # Miss
              \/ Seeks(Content(j), winner.key + 1, at'[j])
<1>1. PICK w : w = winner.key
  BY Zenon
<1>2. w \in Nat /\ w # NoEnd /\ at[i] # NoEnd
  BY <1>1, KeyRange
<1>3. /\ Open' /\ DOMAIN at' = DOMAIN at /\ \A j : Content(j)' = Content(j)
      /\ \A j \in DOMAIN at : j # i => at'[j] = at[j]
      /\ Seeks(Content(i), at[i] + 1, at'[i])
      /\ heap' = IF at'[i] = NoEnd THEN heap \ {i} ELSE heap \cup {i}
  BY <1>2, Advances, Zenon
<1>4. Seeks(Content(i), w + 1, at'[i])
  BY <1>1, <1>3, Zenon
<1>5. at'[i] # w
  <2>1. at'[i] \in w + 1 .. NoEnd
    BY <1>4, Zenon DEF Seeks
  <2> QED
    BY <1>2, <2>1
<1>6. ASSUME NEW j \in DOMAIN at
      PROVE  (at'[j] = w /\ Content(j)[w] # Miss) \/ Seeks(Content(j), w + 1, at'[j])
  BY <1>1, <1>3, <1>4, Zenon DEF Passing
<1> QED
  BY <1>1, <1>3, <1>4, <1>5, <1>6, Zenon

-----------------------------------------------------------------------------
(* The scan.                                                               *)

(* ScanExact, of the arguments c and the pairs o.                          *)
InRange(c) == {k \in Keys : k >= c.start /\ k < c.end /\ Live(get(k))}
Firsts(c)  == {k \in InRange(c) : Cardinality({j \in InRange(c) : j < k}) < c.limit}

Exact(c, o) ==
  /\ {[key |-> k, val |-> get(k)] : k \in Firsts(c)} = {o[i] : i \in DOMAIN o}
  /\ \A i, j \in DOMAIN o : i < j => o[i].key < o[j].key

(* Reads depend on the memtable and the tables only.                       *)
LEMMA SameReads ==
  ASSUME UNCHANGED <<mem, tables>>
  PROVE  /\ Memtable' = Memtable
         /\ \A k : get(k)' = get(k) /\ Content(k)' = Content(k)
  BY Zenon DEF get, Content, Memtable

(* ScanExact in these terms.                                               *)
LEMMA ExactNext ==
  ASSUME UNCHANGED <<mem, tables>>, Exact(call', out')
  PROVE  ScanExact'
  BY SameReads, Zenon DEF ScanExact, Exact, Firsts, InRange, Live

(* What the list holds is all there is to show.                            *)
LEMMA ExactList ==
  ASSUME NEW c, NEW o, Listed(o), \A i \in DOMAIN o : o[i].val = get(o[i].key), KeysOf(o) = Firsts(c)
  PROVE  Exact(c, o)
<1>1. \A i \in DOMAIN o : o[i] = [key |-> o[i].key, val |-> get(o[i].key)]
  <2>1. \A i \in DOMAIN o : o[i] \in Pairs
    BY Elements, Zenon DEF Listed
  <2> SUFFICES ASSUME NEW i \in DOMAIN o PROVE o[i] = [key |-> o[i].key, val |-> get(o[i].key)]
    OBVIOUS
  <2>2. o[i] \in [key : Keys, val : Vals] /\ o[i].val = get(o[i].key)
    BY <2>1, Zenon DEF Pairs
  <2>3. o[i] = [key |-> o[i].key, val |-> o[i].val]
    BY <2>2, Zenon
  <2> QED
    BY <2>2, <2>3, Zenon
<1>2. ASSUME NEW u
      PROVE  u \in {[key |-> k, val |-> get(k)] : k \in Firsts(c)} <=> u \in {o[i] : i \in DOMAIN o}
  <2>1. ASSUME NEW k \in Firsts(c), u = [key |-> k, val |-> get(k)]
        PROVE  \E i \in DOMAIN o : u = o[i]
    <3>1. PICK i \in DOMAIN o : o[i].key = k
      BY Zenon DEF KeysOf
    <3> QED
      BY <1>1, <2>1, <3>1, Zenon
  <2>2. ASSUME NEW i \in DOMAIN o, u = o[i]
        PROVE  \E k \in Firsts(c) : u = [key |-> k, val |-> get(k)]
    <3>1. o[i].key \in Firsts(c)
      BY Zenon DEF KeysOf
    <3> QED
      BY <1>1, <2>2, <3>1, Zenon
  <2> QED
    BY <2>1, <2>2, Zenon
<1>3. {[key |-> k, val |-> get(k)] : k \in Firsts(c)} = {o[i] : i \in DOMAIN o}
  BY <1>2, Zenon
<1> QED
  BY <1>3, Zenon DEF Exact, Listed

(* A table that is not opened has no key in the range.                     *)
LEMMA NotOverlapping ==
  ASSUME SetFacts,
         NEW t, NEW start \in Keys, NEW end \in Keys \cup {NoEnd}, ~ Overlaps(t, start, end),
         NEW k \in Keys, start <= k, k < end
  PROVE  t[k] = Miss
<1> SUFFICES ASSUME t[k] # Miss PROVE FALSE
  OBVIOUS
<1>1. k \in Present(t)
  BY Zenon DEF Present
<1>2. Present(t) \in SUBSET Nat /\ Present(t) \in SUBSET (0 .. NoEnd) /\ NoEnd \in Nat
  <2>1. Keys \subseteq Nat /\ Keys \subseteq 0 .. NoEnd
    BY KeyRange
  <2> QED
    BY <2>1, KeyRange, Zenon DEF Present
<1>3. PICK lo, hi : lo = Min(Present(t)) /\ hi = Max(Present(t))
  BY Zenon
<1>4. lo \in Nat /\ lo <= k
  BY <1>1, <1>2, <1>3, MinOf, Zenon
<1>5. hi \in Nat /\ k <= hi
  BY <1>1, <1>2, <1>3, MaxOf, Zenon
<1>6. ~ (hi >= start) \/ ~ (lo < end)
  BY <1>1, <1>3, Zenon DEF Overlaps
<1>7. k \in Nat /\ start \in Nat /\ end \in Nat
  BY KeyRange
<1> QED
  BY <1>4, <1>5, <1>6, <1>7

(* No key is live that every open source has passed.                       *)
LEMMA NoneBetween ==
  ASSUME SetFacts,
         Opened, NEW b \in call.start .. call.end, Placed(b), NEW e \in Nat, e <= call.end,
         \A i \in DOMAIN at : e <= at[i]
  PROVE  \A k \in Keys : b <= k /\ k < e => get(k) = Miss
<1> SUFFICES ASSUME NEW k \in Keys, b <= k, k < e PROVE get(k) = Miss
  OBVIOUS
<1>1. PICK s, f : s = call.start /\ f = call.end
  BY Zenon
<1>2. s \in Nat /\ f \in Nat /\ b \in Nat /\ s <= b /\ b <= f
  BY <1>1, KeyRange DEF Opened
<1>3. s <= k /\ k < f /\ k \in Nat
  BY <1>1, <1>2, KeyRange
<1>4. ASSUME NEW t \in 1 .. Memtable PROVE Content(t)[k] = Miss
  <2>1. CASE t \in DOMAIN at
    <3>1. at[t] \in Nat
      <4>1. at[t] \in 1 .. NoEnd
        BY <2>1, Zenon DEF Opened, Open
      <4> QED
        BY <4>1
    <3>2. e <= at[t]
      BY <2>1, Zenon
    <3>3. k < at[t]
      BY <1>3, <3>1, <3>2
    <3> QED
      BY <2>1, <3>3, Zenon DEF Placed, Seeks
  <2>2. CASE t \notin DOMAIN at
    <3>1. t \in DOMAIN tables /\ Content(t) = tables[t]
      BY <2>2, Positions, Zenon DEF Opened, Open
    <3> QED
      BY <1>1, <1>3, <2>2, <3>1, Zenon DEF Opened
  <2> QED
    BY <2>1, <2>2
<1> QED
  BY <1>4, GetNone, Zenon DEF Opened, Open

(* Keys that miss are not returned.                                        *)
LEMMA ReturnedOn ==
  ASSUME NEW b \in Nat, NEW e \in Nat, b <= e, Returned(b),
         \A k \in Keys : b <= k /\ k < e => get(k) = Miss
  PROVE  Returned(e)
<1>1. ASSUME NEW k \in Keys, Live(get(k)) PROVE k < b <=> k < e
  <2>1. ~ (b <= k /\ k < e)
    BY <1>1, Zenon DEF Live
  <2> QED
    BY <2>1, KeyRange
<1> QED
  BY <1>1, Zenon DEF Returned

(* The sources that a scan opens.                                          *)
LEMMA Opens ==
  ASSUME SetFacts,
         mem \in Rows, tables \in Seq(Rows), NEW start \in Keys, NEW end \in Keys \cup {NoEnd}
  PROVE  /\ Sources(start, end) \subseteq 1 .. Memtable /\ Memtable \in Sources(start, end)
         /\ \A i \in DOMAIN tables : i \notin Sources(start, end) =>
              \A k \in Keys : start <= k /\ k < end => tables[i][k] = Miss
         /\ \A i \in Sources(start, end) :
              /\ SeekIn(Content(i), start) \in 1 .. NoEnd
              /\ Seeks(Content(i), start, SeekIn(Content(i), start))
<1>1. Memtable \in 1 .. Memtable
  BY Positions
<1>2. Sources(start, end) \subseteq 1 .. Memtable /\ Memtable \in Sources(start, end)
  BY <1>1, Positions, Zenon DEF Sources
<1>3. ASSUME NEW i \in DOMAIN tables, i \notin Sources(start, end),
             NEW k \in Keys, start <= k, k < end
      PROVE  tables[i][k] = Miss
  <2>1. ~ Overlaps(tables[i], start, end)
    BY <1>3, Zenon DEF Sources
  <2> QED
    BY <1>3, <2>1, NotOverlapping, Zenon
<1>4. start \in 1 .. NoEnd
  BY KeyRange
<1>5. ASSUME NEW i \in Sources(start, end)
      PROVE  /\ SeekIn(Content(i), start) \in 1 .. NoEnd
             /\ Seeks(Content(i), start, SeekIn(Content(i), start))
  <2>1. Seeks(Content(i), start, SeekIn(Content(i), start))
    BY <1>4, SeekFinds, Zenon
  <2>2. SeekIn(Content(i), start) \in start .. NoEnd
    BY <2>1, Zenon DEF Seeks
  <2>3. start .. NoEnd \subseteq 1 .. NoEnd
    BY <1>4, KeyRange
  <2> QED
    BY <2>1, <2>2, <2>3, Zenon
<1> QED
  BY <1>2, <1>3, <1>5, Zenon

(* A scan begins, or ends at once with nothing.                            *)
LEMMA Begins ==
  ASSUME SetFacts, Inv, NEW start \in Starts, NEW end \in Ends, NEW limit \in Limits,
         Begin(start, end, limit)
  PROVE  (pc' = "scan" /\ Scanning') \/ (pc' = "done" /\ ScanExact')
<1>1. start \in Keys /\ end \in Keys \cup {NoEnd} /\ limit \in Nat
  BY ScanAssumption, Zenon
<1>2. start \in Nat /\ end \in Nat /\ start < NoEnd /\ NoEnd \in Nat
  BY <1>1, KeyRange
<1>3. call' = [start |-> start, end |-> end, limit |-> limit]
  BY Zenon DEF Begin
<1>4. call'.start = start /\ call'.end = end /\ call'.limit = limit
  BY <1>3, Zenon
<1>5. out' = <<>> /\ UNCHANGED <<mem, tables>>
  BY Zenon DEF Begin
<1>6. mem \in Rows /\ tables \in Seq(Rows)
  BY Zenon DEF Inv
<1>7. CASE limit = 0 \/ (end # NoEnd /\ end <= start)
  <2>1. PICK c : c = call'
    BY Zenon
  <2>2. ASSUME NEW k \in Firsts(c) PROVE FALSE
    <3>1. k \in Keys /\ k >= start /\ k < end /\ Cardinality({j \in InRange(c) : j < k}) < limit
      BY <1>4, <2>1, Zenon DEF Firsts, InRange
    <3>2. CASE end <= start
      BY <1>2, <3>1, <3>2, KeyRange
    <3>3. CASE limit = 0
      <4>1. Cardinality({j \in InRange(c) : j < k}) \in Nat
        <5>1. {j \in InRange(c) : j < k} \in SUBSET Keys
          BY Zenon DEF InRange
        <5> QED
          BY <5>1, Sizes, Zenon
      <4> QED
        BY <3>1, <3>3, <4>1
    <3> QED
      BY <1>7, <3>2, <3>3
  <2>3. KeysOf(<<>>) = Firsts(c)
    BY <2>2, ListedEmpty, Zenon
  <2>4. DOMAIN <<>> = {}
    OBVIOUS
  <2>5. Exact(c, <<>>)
    BY <2>3, <2>4, ListedEmpty, ExactList, Zenon
  <2>6. Exact(call', out')
    BY <1>5, <2>1, <2>5, Zenon
  <2>7. pc' = "done"
    BY <1>7, Zenon DEF Begin
  <2> QED
    BY <1>5, <2>6, <2>7, ExactNext, Zenon
<1>8. CASE ~ (limit = 0 \/ (end # NoEnd /\ end <= start))
  <2> DEFINE S == Sources(start, end)
  <2>1. /\ pc' = "scan" /\ at' = [i \in S |-> SeekIn(Content(i), start)]
        /\ heap' = {i \in DOMAIN at' : at'[i] # NoEnd}
    BY <1>8, Zenon DEF Begin
  <2>2. /\ S \subseteq 1 .. Memtable /\ Memtable \in S
        /\ \A i \in DOMAIN tables : i \notin S =>
             \A k \in Keys : start <= k /\ k < end => tables[i][k] = Miss
        /\ \A i \in S : /\ SeekIn(Content(i), start) \in 1 .. NoEnd
                        /\ Seeks(Content(i), start, SeekIn(Content(i), start))
    BY <1>1, <1>6, Opens, Zenon
  <2> HIDE DEF S
  <2>3. DOMAIN at' = S /\ at' \in [S -> 1 .. NoEnd] /\ \A i \in S : Seeks(Content(i), start, at'[i])
    BY <2>1, <2>2, Zenon
  <2>4. start < end
    BY <1>2, <1>8
  <2>5. Open'
    BY <1>5, <1>6, <2>2, <2>3, SameReads, Zenon DEF Open
  <2>6. Opened'
    BY <1>1, <1>4, <1>5, <2>2, <2>3, <2>4, <2>5, SameReads, Zenon DEF Opened
  <2>7. heap' = Valid'
    BY <2>1, Zenon DEF Valid
  <2>8. Len(out') <= call'.limit
    BY <1>1, <1>4, <1>5, ListedEmpty
  <2>9. \A i \in DOMAIN at' : Seeks(Content(i)', start, at'[i])
    BY <1>5, <2>3, SameReads, Zenon
  <2>10. Returned(start)'
    <3>1. \A k \in Keys : ~ (start <= k /\ k < start)
      BY <1>2, KeyRange
    <3>2. DOMAIN out' = {} /\ KeysOf(out') = {} /\ Listed(out')
      <4>1. DOMAIN <<>> = {}
        OBVIOUS
      <4> QED
        BY <1>5, <4>1, ListedEmpty, Zenon
    <3> QED
      BY <1>4, <3>1, <3>2, Zenon DEF Returned
  <2>11. start \in call'.start .. call'.end
    BY <1>2, <1>4, <2>4
  <2> QED
    BY <2>1, <2>6, <2>7, <2>8, <2>9, <2>10, <2>11, Zenon DEF Scanning, Placed
<1> QED
  BY <1>7, <1>8

(* What was returned before b is the answer, if that is the limit or all   *)
(* of the range.                                                           *)
LEMMA Complete ==
  ASSUME SetFacts,
         NEW b \in Nat, Returned(b), call.end \in Nat, b <= call.end, call.limit \in Nat,
         Len(out) <= call.limit, Len(out) = call.limit \/ b = call.end
  PROVE  Exact(call, out)
<1> DEFINE L == InRange(call)
           K == KeysOf(out)
           before(k) == {j \in L : j < k}
<1>1. L \in SUBSET Keys
  BY Zenon DEF InRange
<1>2. K \in SUBSET Keys
  <2>1. \A i \in DOMAIN out : out[i] \in Pairs
    BY Elements, Zenon DEF Returned, Listed
  <2> QED
    BY <2>1, Zenon DEF KeysOf, Pairs
<1>3. Cardinality(K) = Len(out) /\ Len(out) \in Nat
  BY <1>2, Sizes, Zenon DEF Returned, Listed
<1>4. \A k \in Keys : k \in K <=> k \in L /\ k < b
  <2>1. ASSUME NEW k \in Keys, k < b PROVE k < call.end
    BY <2>1, KeyRange
  <2>2. ASSUME NEW k \in Keys PROVE k >= call.start <=> call.start <= k
    OBVIOUS
  <2> QED
    BY <2>1, <2>2, Zenon DEF Returned, InRange
<1> HIDE DEF L, K
<1>5. ASSUME NEW k \in K PROVE k \in Firsts(call)
  <2>1. k \in Keys /\ k \in L /\ k < b
    BY <1>2, <1>4, Zenon
  <2>2. before(k) \in SUBSET K
    <3>1. ASSUME NEW j \in Keys, j < k PROVE j < b
      BY <2>1, <3>1, KeyRange
    <3> QED
      BY <1>1, <1>4, <3>1, Zenon
  <2>3. k \notin before(k) /\ before(k) \in SUBSET Keys
    <3>1. ~ (k < k)
      BY <2>1, KeyRange
    <3> QED
      BY <1>1, <3>1, Zenon
  <2>4. before(k) \cup {k} \in SUBSET K
    BY <2>2, Zenon
  <2>5. Cardinality(before(k) \cup {k}) = Cardinality(before(k)) + 1
    BY <2>1, <2>3, OneMore, Zenon
  <2>6. Cardinality(before(k) \cup {k}) <= Cardinality(K) /\ Cardinality(before(k)) \in Nat
    BY <1>2, <2>2, <2>4, Sizes, Zenon
  <2> HIDE DEF before
  <2>7. Cardinality(before(k)) < call.limit
    BY <1>3, <2>5, <2>6
  <2> QED
    BY <2>1, <2>7, Zenon DEF Firsts, before, L
<1>6. ASSUME NEW k \in Firsts(call), k \notin K PROVE FALSE
  <2>1. k \in L /\ Cardinality(before(k)) < call.limit
    BY Zenon DEF Firsts, L
  <2>2. k \in Keys /\ ~ (k < b)
    BY <1>1, <1>4, <1>6, <2>1, Zenon
  <2>3. k < call.end
    BY <2>1, Zenon DEF L, InRange
  <2>4. Len(out) = call.limit
    BY <2>2, <2>3, Zenon
  <2>5. K \in SUBSET before(k)
    <3>1. ASSUME NEW j \in Keys, j < b PROVE j < k
      BY <2>2, <3>1, KeyRange
    <3> QED
      BY <1>2, <1>4, <3>1, Zenon
  <2>6. before(k) \in SUBSET Keys
    BY <1>1, Zenon
  <2>7. Cardinality(K) <= Cardinality(before(k)) /\ Cardinality(before(k)) \in Nat
    BY <2>5, <2>6, Sizes, Zenon
  <2> HIDE DEF before
  <2> QED
    BY <1>3, <2>1, <2>4, <2>7
<1>7. KeysOf(out) = Firsts(call)
  BY <1>5, <1>6, Zenon DEF K
<1> QED
  BY <1>7, ExactList, Zenon DEF Returned

(* A scan ends with the answer.                                            *)
LEMMA Finishes ==
  ASSUME SetFacts, Scanning, ~ More
  PROVE  Exact(call, out)
<1>1. PICK s, e, l : s = call.start /\ e = call.end /\ l = call.limit
  BY Zenon
<1>2. s \in Nat /\ e \in Nat /\ e <= NoEnd /\ NoEnd \in Nat /\ l \in Nat
  BY <1>1, KeyRange DEF Scanning, Opened
<1>3. PICK b \in s .. e : Placed(b) /\ Returned(b)
  BY <1>1, Zenon DEF Scanning
<1>4. b \in Nat /\ s <= b /\ b <= e
  BY <1>2, <1>3
<1>5. Len(out) \in Nat /\ Len(out) <= l
  BY <1>1, <1>3, Elements, Zenon DEF Scanning, Returned, Listed
<1>6. CASE ~ (Len(out) < l)
  <2>1. Len(out) = l
    BY <1>2, <1>5, <1>6
  <2> QED
    BY <1>1, <1>2, <1>3, <1>4, <1>5, <2>1, Complete, Zenon
<1>7. CASE Len(out) < l
  <2>1. Open /\ heap = Valid /\ heap \subseteq DOMAIN at
    BY Zenon DEF Scanning, Opened, Valid
  <2>2. ASSUME NEW i \in DOMAIN at PROVE e <= at[i]
    <3>1. at[i] \in 1 .. NoEnd
      BY <2>1, Zenon DEF Open
    <3>2. CASE at[i] = NoEnd
      BY <1>2, <3>2
    <3>3. CASE at[i] # NoEnd
      <4>1. i \in heap
        BY <2>1, <3>3, Zenon DEF Valid
      <4>2. First(Top)
        BY <2>1, <4>1, Tops, Zenon
      <4>3. ~ (at[Top] < e)
        BY <1>1, <1>7, <4>1, Zenon DEF More
      <4>4. at[Top] \in 1 .. NoEnd /\ (at[Top] < at[i] \/ at[Top] = at[i])
        BY <2>1, <4>1, <4>2, Zenon DEF First, Open
      <4> QED
        BY <1>2, <3>1, <4>3, <4>4
    <3> QED
      BY <3>2, <3>3
  <2>3. \A k \in Keys : b <= k /\ k < e => get(k) = Miss
    <3>1. Opened /\ b \in call.start .. call.end /\ e <= call.end
      <4>1. e <= e
        BY <1>2
      <4> QED
        BY <1>1, <1>3, <4>1, Zenon DEF Scanning
    <3> QED
      BY <1>2, <1>3, <2>2, <3>1, NoneBetween, Zenon
  <2>4. Returned(e)
    BY <1>2, <1>3, <1>4, <2>3, ReturnedOn, Zenon
  <2>5. e <= e
    BY <1>2
  <2> QED
    BY <1>1, <1>2, <1>5, <2>4, <2>5, Complete, Zenon
<1> QED
  BY <1>6, <1>7

(* What the state of a scan keeps while only its positions and its list    *)
(* change.                                                                 *)
LEMMA StaysOpened ==
  ASSUME Opened, Open', DOMAIN at' = DOMAIN at, UNCHANGED <<mem, tables, call>>
  PROVE  Opened'
  BY SameReads, Zenon DEF Opened

(* A round of a scan takes the value that get() returns for its key.       *)
LEMMA Takes ==
  ASSUME SetFacts, Scanning, Take
  PROVE  Skipping'
<1>1. PICK s, e : s = call.start /\ e = call.end
  BY Zenon
<1>2. s \in Nat /\ e \in Nat /\ e <= NoEnd /\ NoEnd \in Nat /\ 1 <= s
  BY <1>1, KeyRange DEF Scanning, Opened
<1>3. PICK b \in s .. e : Placed(b) /\ Returned(b)
  BY <1>1, Zenon DEF Scanning
<1>4. b \in Nat /\ s <= b /\ b <= e /\ b \in 1 .. NoEnd
  BY <1>2, <1>3
<1>5. Open /\ heap = Valid /\ heap \subseteq DOMAIN at /\ Opened
  BY Zenon DEF Scanning, Opened, Valid
<1>6. PICK i, k : i = Top /\ k = at[Top]
  BY Zenon
<1>7. First(i)
  BY <1>5, <1>6, Tops, Zenon DEF Take, More
<1>8. /\ i \in DOMAIN at /\ k = at[i] /\ k \in Keys /\ b <= k /\ Content(i)[k] # Miss
      /\ \A j \in DOMAIN at :
           /\ k <= at[j] /\ Seeks(Content(j), k, at[j])
           /\ Content(j)[k] # Miss => at[j] = k /\ j <= i
  BY <1>3, <1>4, <1>5, <1>6, <1>7, Round, Zenon
<1>9. k < e
  <2>1. e # NoEnd => k < e
    BY <1>1, <1>6, Zenon DEF Take, More
  <2> QED
    BY <1>8, <2>1, KeyRange
<1>10. k \in Nat /\ s <= k /\ k <= e
  BY <1>2, <1>4, <1>8, <1>9, KeyRange
<1>11. get(k) = Content(i)[k]
  <2>1. ASSUME NEW t \in 1 .. Memtable, Content(t)[k] # Miss PROVE t <= i
    <3>1. CASE t \in DOMAIN at
      BY <1>8, <2>1, <3>1, Zenon
    <3>2. CASE t \notin DOMAIN at
      <4>1. t \in DOMAIN tables /\ Content(t) = tables[t]
        BY <1>5, <3>2, Positions, Zenon DEF Opened, Open
      <4> QED
        BY <1>1, <1>5, <1>8, <1>9, <1>10, <2>1, <3>2, <4>1, Zenon DEF Opened
    <3> QED
      BY <3>1, <3>2
  <2> QED
    BY <1>5, <1>8, <2>1, GetIs, Zenon DEF Open
<1>12. Returned(k)
  <2>1. \A l \in Keys : b <= l /\ l < k => get(l) = Miss
    BY <1>1, <1>3, <1>5, <1>8, <1>10, NoneBetween, Zenon
  <2> QED
    BY <1>3, <1>4, <1>8, <1>10, <2>1, ReturnedOn, Zenon
<1>13. /\ winner' = [source |-> i, key |-> k, val |-> Content(i)[k]] /\ heap' = heap \ {i}
       /\ UNCHANGED <<mem, tables, call, at, out>> /\ Len(out) < call.limit
  BY <1>6, Zenon DEF Take, More
<1>14. winner'.source = i /\ winner'.key = k /\ winner'.val = Content(i)[k]
  BY <1>13, Zenon
<1>15. Passing'
  <2>1. \A j \in DOMAIN at : (at[j] = k /\ Content(j)[k] # Miss) \/ Seeks(Content(j), k + 1, at[j])
    BY <1>8, AtOrPast, Zenon
  <2>2. at' = at /\ \A j : Content(j)' = Content(j)
    BY <1>13, SameReads, Zenon
  <2> QED
    BY <1>14, <2>1, <2>2, Zenon DEF Passing
<1>16. Opened'
  BY <1>5, <1>13, StaysOpened, SameReads, Zenon DEF Open
<1>17. Returned(k)'
  BY <1>12, <1>13, SameReads, Zenon DEF Returned
<1>18. heap' = Valid' \ {i}
  BY <1>5, <1>13, Zenon DEF Valid
<1>19. winner'.val = get(k)' /\ winner'.val # Miss
  BY <1>8, <1>11, <1>13, <1>14, SameReads, Zenon
<1>20. call'.start <= k /\ k < call'.end /\ Len(out') < call'.limit /\ at'[i] = k /\ i \in DOMAIN at'
  BY <1>1, <1>8, <1>9, <1>10, <1>13, Zenon
<1>21. Returned(winner.key)' /\ winner'.val = get(winner.key)'
  BY <1>14, <1>17, <1>19, Zenon DEF Returned, get
<1> QED
  BY <1>8, <1>14, <1>15, <1>16, <1>18, <1>19, <1>20, <1>21, Zenon DEF Skipping

(* An older entry of the key is passed over.                               *)
LEMMA Skips ==
  ASSUME SetFacts, Skipping, Skip
  PROVE  Skipping'
<1>1. Open /\ Opened /\ Passing /\ winner.key \in Keys /\ heap \subseteq DOMAIN at
  BY Zenon DEF Skipping, Opened, Valid
<1>2. /\ heap # {} /\ at[Top] = winner.key /\ Advance(Top)
      /\ UNCHANGED <<mem, tables, call, winner, out>>
  BY Zenon DEF Skip, Shadowed
<1>3. PICK i : i = Top
  BY Zenon
<1>4. i \in heap /\ i \in DOMAIN at /\ at[i] = winner.key /\ Advance(i)
  BY <1>1, <1>2, <1>3, Tops, Zenon DEF First
<1>5. /\ Open' /\ DOMAIN at' = DOMAIN at /\ \A j : Content(j)' = Content(j)
      /\ \A j \in DOMAIN at : j # i => at'[j] = at[j]
      /\ heap' = IF at'[i] = NoEnd THEN heap \ {i} ELSE heap \cup {i}
      /\ \A j \in DOMAIN at :
           \/ at'[j] = winner.key /\ Content(j)[winner.key] # Miss
           \/ Seeks(Content(j), winner.key + 1, at'[j])
  BY <1>1, <1>2, <1>4, Passes, Zenon
<1>6. Opened'
  BY <1>1, <1>2, <1>5, StaysOpened, Zenon
<1>7. Passing'
  BY <1>2, <1>5, Zenon DEF Passing
<1>8. i # winner.source /\ heap = Valid \ {winner.source}
  BY <1>4, Zenon DEF Skipping
<1>9. heap' = Valid' \ {winner'.source}
  <2>1. ASSUME NEW j PROVE j \in heap' <=> j \in DOMAIN at /\ at'[j] # NoEnd /\ j # winner.source
    BY <1>4, <1>5, <1>8, Zenon DEF Valid
  <2> QED
    BY <1>2, <1>5, <2>1, Zenon DEF Valid
<1>10. Returned(winner.key)' /\ winner'.val = get(winner.key)'
  <2>1. PICK w : w = winner.key /\ w = winner'.key
    BY <1>2, Zenon
  <2>2. Returned(w) /\ winner.val = get(w)
    BY <2>1, Zenon DEF Skipping
  <2>3. Returned(w)' /\ winner'.val = get(w)'
    BY <1>2, <2>2, SameReads, Zenon DEF Returned
  <2> QED
    BY <2>1, <2>3, Zenon DEF Returned, get
<1>11. winner'.source \in DOMAIN at' /\ at'[winner'.source] = winner'.key
  BY <1>2, <1>5, <1>8, Zenon DEF Skipping
<1> QED
  BY <1>2, <1>6, <1>7, <1>9, <1>10, <1>11, Zenon DEF Skipping

(* What get() returns.                                                     *)
LEMMA GetCell ==
  ASSUME SetFacts, tables \in Seq(Rows), mem \in Rows, NEW k \in Keys
  PROVE  get(k) \in Cells
  BY HeldBy, GetHeld, Zenon DEF Rows

(* The winner's value is returned, and every source is past its key.       *)
LEMMA Emits ==
  ASSUME SetFacts, Skipping, Emit
  PROVE  Scanning'
<1>1. Open /\ Opened /\ Passing /\ winner.key \in Keys /\ heap \subseteq DOMAIN at
  BY Zenon DEF Skipping, Opened, Valid
<1>2. PICK w, i, v : w = winner.key /\ i = winner.source /\ v = winner.val
  BY Zenon
<1>3. /\ heap # {} => at[Top] # w
      /\ Advance(i) /\ UNCHANGED <<mem, tables, call>>
      /\ out' = IF v = Tomb THEN out ELSE With(out, w, v)
  BY <1>2, Zenon DEF Emit, Shadowed, With
<1>4. i \in DOMAIN at /\ at[i] = w /\ heap = Valid \ {i} /\ v = get(w) /\ v # Miss /\ w \in Keys
  BY <1>2, Zenon DEF Skipping
<1>5. \A j \in heap : at[j] # w
  BY <1>1, <1>2, <1>3, Tops, NoneLeft, Zenon
<1>6. /\ Open' /\ DOMAIN at' = DOMAIN at /\ \A j : Content(j)' = Content(j)
      /\ \A j \in DOMAIN at : j # i => at'[j] = at[j]
      /\ Seeks(Content(i), w + 1, at'[i])
      /\ heap' = IF at'[i] = NoEnd THEN heap \ {i} ELSE heap \cup {i}
  BY <1>1, <1>2, <1>3, <1>4, Passes, Zenon
<1>7. Opened'
  BY <1>1, <1>3, <1>6, StaysOpened, Zenon
<1>8. w \in Nat /\ w # NoEnd /\ w < NoEnd
  BY <1>4, KeyRange
<1>9. Placed(w + 1)'
  <2>1. ASSUME NEW j \in DOMAIN at PROVE Seeks(Content(j), w + 1, at'[j])
    <3>1. CASE j = i
      BY <1>6, <3>1, Zenon
    <3>2. CASE j # i
      <4>1. at[j] # w
        BY <1>4, <1>5, <1>8, <3>2, Zenon DEF Valid
      <4> QED
        BY <1>1, <1>2, <1>6, <3>2, <4>1, NotBefore, Zenon
    <3> QED
      BY <3>1, <3>2
  <2> QED
    BY <1>6, <2>1, Zenon DEF Placed
<1>10. heap' = Valid'
  <2>1. ASSUME NEW j PROVE j \in heap' <=> j \in DOMAIN at /\ at'[j] # NoEnd
    BY <1>4, <1>6, Zenon DEF Valid
  <2> QED
    BY <1>6, <2>1, Zenon DEF Valid
<1>11. PICK s, e, l : s = call.start /\ e = call.end /\ l = call.limit
  BY Zenon
<1>12. s \in Nat /\ e \in Nat /\ l \in Nat
  BY <1>11, KeyRange DEF Skipping, Opened
<1>13. s <= w /\ w < e /\ Len(out) < l
  BY <1>2, <1>11, Zenon DEF Skipping
<1>14. Returned(w) /\ Listed(out)
  BY <1>2, Zenon DEF Skipping, Returned
<1>15. Len(out) \in Nat
  BY <1>14, Elements, Zenon DEF Listed
<1>16. ASSUME NEW k \in Keys PROVE k < w + 1 <=> k < w \/ k = w
  BY <1>8, KeyRange
<1>17. Returned(w + 1)' /\ Len(out') <= l
  <2>1. CASE v = Tomb
    <3>1. out' = out
      BY <1>3, <2>1, Zenon
    <3>2. ~ Live(get(w))
      BY <1>4, <2>1, Zenon DEF Live
    <3>3. Len(out') <= l
      BY <1>12, <1>13, <1>15, <3>1
    <3> QED
      BY <1>3, <1>14, <1>16, <3>1, <3>2, <3>3, SameReads, Zenon DEF Returned
  <2>2. CASE v # Tomb
    <3>0. PICK p : p = With(out, w, v)
      BY Zenon
    <3>1. out' = p
      BY <1>3, <2>2, <3>0, Zenon
    <3>2. Live(get(w))
      BY <1>4, <2>2, Zenon DEF Live
    <3>3. \A k \in KeysOf(out) : k < w
      <4>1. KeysOf(out) \subseteq Keys
        <5>1. \A j \in DOMAIN out : out[j] \in Pairs
          BY <1>14, Elements, Zenon DEF Listed
        <5> QED
          BY <5>1, Zenon DEF KeysOf, Pairs
      <4> QED
        BY <1>14, <4>1, Zenon DEF Returned
    <3>4. v \in Vals
      BY <1>1, <1>4, <2>2, GetCell, Zenon DEF Open, Cells
    <3>5. /\ Listed(p) /\ KeysOf(p) = KeysOf(out) \cup {w}
          /\ Len(p) = Len(out) + 1 /\ DOMAIN p = DOMAIN out \cup {Len(p)}
          /\ \A j \in DOMAIN out : p[j] = out[j]
          /\ p[Len(p)].key = w /\ p[Len(p)].val = v
      <4>1. Listed(out) /\ w \in Keys /\ v \in Vals
        BY <1>4, <1>14, <3>4, Zenon
      <4>2. Adds(p, out, w, v)
        BY <4>1, <3>0, <3>3, ListedAppend, Zenon
      <4> QED
        BY <4>2, Zenon DEF Adds
    <3>6. Len(p) <= l
      BY <1>12, <1>13, <1>15, <3>5
    <3>7. \A j \in DOMAIN p : p[j].val = get(p[j].key)
      BY <1>4, <1>14, <3>5, Zenon DEF Returned
    <3>8. \A k \in Keys : k \in KeysOf(p) <=> s <= k /\ k < w + 1 /\ Live(get(k))
      BY <1>11, <1>13, <1>14, <1>16, <3>2, <3>5, Zenon DEF Returned
    <3> QED
      BY <1>3, <1>11, <3>1, <3>5, <3>6, <3>7, <3>8, SameReads, ZenonT(30) DEF Returned
  <2> QED
    BY <2>1, <2>2
<1>18. w + 1 \in s .. e
  BY <1>8, <1>12, <1>13
<1>19. \E b \in s .. e : Placed(b)' /\ Returned(b)'
  BY <1>9, <1>17, <1>18, Zenon
<1> QED
  BY <1>3, <1>7, <1>10, <1>11, <1>17, <1>19, Zenon DEF Scanning

-----------------------------------------------------------------------------
(* The merge.                                                              *)

(* A merge begins with nothing written.                                    *)
LEMMA MergeStarts ==
  ASSUME SetFacts, Inv, MergeBegins
  PROVE  Merging'
<1>1. /\ at' = [i \in DOMAIN tables |-> SeekIn(tables[i], 1)]
      /\ heap' = {i \in DOMAIN tables : SeekIn(tables[i], 1) # NoEnd}
      /\ UNCHANGED <<mem, tables, out, staged>> /\ out = <<>> /\ staged = <<>>
      /\ mem \in Rows /\ tables \in Seq(Rows)
  BY Zenon DEF MergeBegins, Inv
<1>2. 1 \in 1 .. NoEnd
  BY ScanAssumption DEF NoEnd
<1>3. \A i \in DOMAIN tables : Seeks(tables[i], 1, SeekIn(tables[i], 1))
  BY <1>2, SeekFinds, Zenon
<1>4. \A i \in DOMAIN tables : SeekIn(tables[i], 1) \in 1 .. NoEnd
  BY <1>3, Zenon DEF Seeks
<1>5. /\ DOMAIN at' = DOMAIN tables /\ at' \in [DOMAIN tables -> 1 .. NoEnd]
      /\ \A i \in DOMAIN tables : at'[i] = SeekIn(tables[i], 1)
  BY <1>1, <1>4, Zenon
<1>6. Open'
  BY <1>1, <1>5, Positions, SameReads, Zenon DEF Open
<1>7. Placed(1)'
  BY <1>1, <1>3, <1>5, Positions, SameReads, Zenon DEF Placed
<1>8. heap' = Valid'
  BY <1>1, <1>5, Zenon DEF Valid
<1>9. DOMAIN <<>> = {} /\ <<>> \in Seq(Rows)
  OBVIOUS
<1>10. Merged(tables, 1, out, staged)'
  <2>1. \A k \in Keys : ~ (k < 1)
    BY KeyRange
  <2> QED
    BY <1>1, <1>9, <2>1, ListedEmpty, Zenon DEF Merged
<1>11. Len(out') < L1_MAX_FILE_ENTRIES
  BY <1>1, ListedEmpty, ScanAssumption
<1>12. Filled(staged, heap # {} \/ out # <<>>)'
  BY <1>1, <1>9, Zenon DEF Filled
<1>13. DOMAIN at' = DOMAIN tables'
  BY <1>1, <1>5, Zenon
<1> QED
  BY <1>2, <1>6, <1>7, <1>8, <1>10, <1>11, <1>12, <1>13, Zenon DEF Merging

(* Keys that no table holds are not written.                               *)
LEMMA MergedOn ==
  ASSUME NEW T, NEW b \in Nat, NEW e \in Nat, b <= e, NEW o, NEW st, Merged(T, b, o, st),
         \A k \in Keys : b <= k /\ k < e => ~ Live(HeldIn(T, k))
  PROVE  Merged(T, e, o, st)
<1>1. ASSUME NEW k \in Keys, Live(HeldIn(T, k)) PROVE k < b <=> k < e
  <2>1. ~ (b <= k /\ k < e)
    BY <1>1, Zenon
  <2> QED
    BY <2>1, KeyRange
<1> QED
  BY <1>1, Zenon DEF Merged

(* A round of a merge takes the entry of the newest table.                 *)
LEMMA MergeTakes ==
  ASSUME SetFacts, Merging, MergeTake
  PROVE  Dropping'
<1>1. /\ Open /\ heap = Valid /\ heap \subseteq DOMAIN at /\ heap # {}
      /\ DOMAIN at = DOMAIN tables /\ tables \in Seq(Rows)
  BY Zenon DEF Merging, Valid, MergeTake, Open
<1>2. PICK b \in 1 .. NoEnd : Placed(b) /\ Merged(tables, b, out, staged)
  BY Zenon DEF Merging
<1>3. PICK i, k : i = MergeTop /\ k = at[MergeTop]
  BY Zenon
<1>4. First(i)
  BY <1>1, <1>3, Tops, Zenon
<1>5. /\ i \in DOMAIN at /\ k = at[i] /\ k \in Keys /\ b <= k /\ Content(i)[k] # Miss
      /\ \A j \in DOMAIN at :
           /\ k <= at[j] /\ Seeks(Content(j), k, at[j])
           /\ Content(j)[k] # Miss => at[j] = k /\ j <= i
  BY <1>1, <1>2, <1>3, <1>4, Round, Zenon
<1>6. \A j \in DOMAIN at : Content(j) = tables[j]
  BY <1>1, Positions, Zenon
<1>7. HeldIn(tables, k) = tables[i][k]
  <2>1. i \in DOMAIN tables /\ tables[i][k] # Miss
    BY <1>1, <1>5, <1>6, Zenon
  <2>2. \A t \in DOMAIN tables : tables[t][k] # Miss => t <= i
    BY <1>1, <1>5, <1>6, Zenon
  <2> QED
    BY <1>1, <2>1, <2>2, HeldIs, Zenon
<1>8. b \in Nat /\ k \in Nat /\ k # NoEnd
  BY <1>2, <1>5, KeyRange
<1>9. Merged(tables, k, out, staged)
  <2>1. ASSUME NEW l \in Keys, b <= l, l < k PROVE HeldIn(tables, l) = Miss
    <3>1. ASSUME NEW t \in DOMAIN tables PROVE tables[t][l] = Miss
      <4>1. at[t] \in 1 .. NoEnd /\ k <= at[t] /\ Seeks(tables[t], b, at[t])
        BY <1>1, <1>2, <1>5, <1>6, Zenon DEF Open, Placed
      <4>2. l < at[t]
        BY <1>8, <2>1, <4>1, KeyRange
      <4> QED
        BY <2>1, <4>1, <4>2, Zenon DEF Seeks
    <3> QED
      BY <1>1, <3>1, HeldBy, Zenon
  <2> QED
    BY <1>2, <1>5, <1>8, <2>1, MergedOn, Zenon DEF Live
<1>10. /\ winner' = [source |-> i, key |-> k, val |-> tables[i][k]] /\ Advance(i)
       /\ UNCHANGED <<mem, tables, out, staged>>
  BY <1>3, Zenon DEF MergeTake
<1>11. winner'.key = k /\ winner'.val = tables[i][k]
  BY <1>10, Zenon
<1>12. /\ Open' /\ DOMAIN at' = DOMAIN at /\ \A j : Content(j)' = Content(j)
       /\ \A j \in DOMAIN at : j # i => at'[j] = at[j]
       /\ Seeks(Content(i), k + 1, at'[i])
       /\ heap' = IF at'[i] = NoEnd THEN heap \ {i} ELSE heap \cup {i}
  BY <1>1, <1>5, <1>8, <1>10, Advances, Zenon
<1>13. Passing'
  <2>1. \A j \in DOMAIN at : (at[j] = k /\ Content(j)[k] # Miss) \/ Seeks(Content(j), k + 1, at[j])
    BY <1>5, AtOrPast, Zenon
  <2> QED
    BY <1>11, <1>12, <2>1, Zenon DEF Passing
<1>14. heap' = Valid'
  <2>1. ASSUME NEW j PROVE j \in heap' <=> j \in DOMAIN at /\ at'[j] # NoEnd
    BY <1>1, <1>5, <1>12, Zenon DEF Valid
  <2> QED
    BY <1>12, <2>1, Zenon DEF Valid
<1>15. Merged(tables, winner.key, out, staged)'
  BY <1>9, <1>10, <1>11, Zenon
<1>16. winner'.val = HeldIn(tables', winner'.key) /\ winner'.val # Miss /\ winner'.key \in Keys
  BY <1>5, <1>6, <1>7, <1>10, <1>11, Zenon
<1>17. Len(out') < L1_MAX_FILE_ENTRIES /\ Filled(staged', TRUE)
  BY <1>1, <1>10, Zenon DEF Merging, Filled
<1>18. DOMAIN at' = DOMAIN tables'
  BY <1>1, <1>10, <1>12, Zenon
<1> QED
  BY <1>12, <1>13, <1>14, <1>15, <1>16, <1>17, <1>18, Zenon DEF Dropping

(* An older entry of the key is dropped.                                   *)
LEMMA MergeDrops ==
  ASSUME SetFacts, Dropping, MergeDrop
  PROVE  Dropping'
<1>1. Open /\ Passing /\ winner.key \in Keys /\ heap = Valid /\ heap \subseteq DOMAIN at
  BY Zenon DEF Dropping, Valid
<1>2. /\ heap # {} /\ at[MergeTop] = winner.key /\ Advance(MergeTop)
      /\ UNCHANGED <<mem, tables, winner, out, staged>>
  BY Zenon DEF MergeDrop, Duplicate
<1>3. PICK i : i = MergeTop
  BY Zenon
<1>4. i \in heap /\ i \in DOMAIN at /\ at[i] = winner.key /\ Advance(i)
  BY <1>1, <1>2, <1>3, Tops, Zenon DEF First
<1>5. /\ Open' /\ DOMAIN at' = DOMAIN at /\ \A j : Content(j)' = Content(j)
      /\ \A j \in DOMAIN at : j # i => at'[j] = at[j]
      /\ heap' = IF at'[i] = NoEnd THEN heap \ {i} ELSE heap \cup {i}
      /\ \A j \in DOMAIN at :
           \/ at'[j] = winner.key /\ Content(j)[winner.key] # Miss
           \/ Seeks(Content(j), winner.key + 1, at'[j])
  BY <1>1, <1>2, <1>4, Passes, Zenon
<1>6. Passing'
  BY <1>2, <1>5, Zenon DEF Passing
<1>7. heap' = Valid'
  <2>1. ASSUME NEW j PROVE j \in heap' <=> j \in DOMAIN at /\ at'[j] # NoEnd
    BY <1>1, <1>4, <1>5, Zenon DEF Valid
  <2> QED
    BY <1>5, <2>1, Zenon DEF Valid
<1>8. Merged(tables, winner.key, out, staged)'
  BY <1>2, Zenon DEF Dropping
<1> QED
  BY <1>2, <1>5, <1>6, <1>7, <1>8, Zenon DEF Dropping

(* A live entry is buffered.                                               *)
LEMMA MergedAdd ==
  ASSUME SetFacts, NEW T \in Seq(Rows), NEW w \in Keys, NEW o, NEW st, Merged(T, w, o, st),
         Live(HeldIn(T, w))
  PROVE  /\ Merged(T, w + 1, With(o, w, HeldIn(T, w)), st)
         /\ Len(With(o, w, HeldIn(T, w))) = Len(o) + 1
<1>0. PICK v, p : v = HeldIn(T, w) /\ p = With(o, w, v)
  BY Zenon
<1>1. Listed(o) /\ st \in Seq(Rows)
  BY Zenon DEF Merged
<1>2. w \in Nat
  BY KeyRange
<1>3. v \in Vals
  BY <1>0, HeldBy, Zenon DEF Live, Cells
<1>4. KeysOf(o) \subseteq Keys
  <2>1. \A j \in DOMAIN o : o[j] \in Pairs
    BY <1>1, Elements, Zenon DEF Listed
  <2> QED
    BY <2>1, Zenon DEF KeysOf, Pairs
<1>5. \A k \in KeysOf(o) : k < w
  BY <1>4, Zenon DEF Merged
<1>6. Adds(p, o, w, v)
  BY <1>0, <1>1, <1>3, <1>5, ListedAppend, Zenon
<1>7. Listed(p) /\ KeysOf(p) = KeysOf(o) \cup {w} /\ Len(p) = Len(o) + 1
  BY <1>6, Zenon DEF Adds
<1>8. \A i \in DOMAIN p : p[i].val = HeldIn(T, p[i].key)
  BY <1>0, <1>6, Zenon DEF Adds, Merged
<1>9. ASSUME NEW k \in Keys PROVE k < w + 1 <=> k < w \/ k = w
  BY <1>2, KeyRange
<1>10. \A k \in Keys :
         (k \in KeysOf(p) \/ \E i \in DOMAIN st : st[i][k] # Miss) <=> k < w + 1 /\ Live(HeldIn(T, k))
  BY <1>7, <1>9, Zenon DEF Merged
<1>11. ASSUME NEW i \in DOMAIN st, NEW k \in Keys, st[i][k] # Miss
       PROVE  k < w /\ \A l \in KeysOf(p) : k < l
  <2>1. k < w /\ \A l \in KeysOf(o) : k < l
    BY <1>11, Zenon DEF Merged
  <2> QED
    BY <1>7, <2>1, Zenon
<1>12. Merged(T, w + 1, p, st)
  BY <1>1, <1>7, <1>8, <1>10, <1>11, Zenon DEF Merged
<1> QED
  BY <1>0, <1>7, <1>12, Zenon

(* The table that a buffer is written to.                                  *)
LEMMA WrittenTable ==
  ASSUME NEW p, Listed(p)
  PROVE  /\ AsTable(p) \in Rows /\ Present(AsTable(p)) = KeysOf(p)
         /\ \A k \in Keys : AsTable(p)[k] # Miss =>
              \E i \in DOMAIN p : p[i].key = k /\ AsTable(p)[k] = p[i].val
<1>1. \A i \in DOMAIN p : p[i].key \in Keys /\ p[i].val \in Vals
  <2>1. \A i \in DOMAIN p : p[i] \in Pairs
    BY Elements, Zenon DEF Listed
  <2> QED
    BY <2>1, Zenon DEF Pairs
<1>2. \A k \in Keys :
        AsTable(p)[k] = IF \E i \in DOMAIN p : p[i].key = k
                          THEN p[CHOOSE i \in DOMAIN p : p[i].key = k].val ELSE Miss
  BY Zenon DEF AsTable
<1>3. ASSUME NEW k \in Keys, k \in KeysOf(p)
      PROVE  \E i \in DOMAIN p : p[i].key = k /\ AsTable(p)[k] = p[i].val
  BY <1>2, <1>3, Zenon DEF KeysOf
<1>4. ASSUME NEW k \in Keys, k \notin KeysOf(p) PROVE AsTable(p)[k] = Miss
  BY <1>2, <1>4, Zenon DEF KeysOf
<1>5. \A k \in Keys : AsTable(p)[k] \in Cells /\ (k \in KeysOf(p) <=> AsTable(p)[k] # Miss)
  <2>1. ASSUME NEW k \in Keys, k \in KeysOf(p) PROVE AsTable(p)[k] \in Vals
    BY <1>1, <1>3, <2>1, Zenon
  <2> QED
    BY <1>4, <2>1, CellsDiffer, Zenon DEF Cells
<1>6. AsTable(p) \in Rows
  <2>1. AsTable(p) = [k \in Keys |-> AsTable(p)[k]]
    BY Zenon DEF AsTable
  <2> QED
    BY <1>5, <2>1, Zenon DEF Rows
<1>7. KeysOf(p) \subseteq Keys
  BY <1>1, Zenon DEF KeysOf
<1>8. Present(AsTable(p)) = KeysOf(p)
  BY <1>5, <1>7, Zenon DEF Present
<1> QED
  BY <1>3, <1>5, <1>6, <1>8, Zenon

(* The buffer is written.                                                  *)
LEMMA Flushes ==
  ASSUME SetFacts, NEW T, NEW b, NEW p, NEW st, Merged(T, b, p, st),
         p # <<>>, NEW st2, st2 = Append(st, AsTable(p)),
         Filled(st, TRUE), Len(p) <= L1_MAX_FILE_ENTRIES,
         NEW more \in BOOLEAN, more => Len(p) = L1_MAX_FILE_ENTRIES
  PROVE  Merged(T, b, <<>>, st2) /\ Filled(st2, more)
<1>1. PICK t : t = AsTable(p)
  BY Zenon
<1>2. Listed(p) /\ st \in Seq(Rows)
  BY Zenon DEF Merged
<1>3. /\ t \in Rows /\ Present(t) = KeysOf(p)
      /\ \A k \in Keys : t[k] # Miss => \E i \in DOMAIN p : p[i].key = k /\ t[k] = p[i].val
  BY <1>1, <1>2, WrittenTable, ZenonT(30)
<1>4. PICK n : n = Len(st)
  BY Zenon
<1>5. n \in Nat /\ DOMAIN st = 1 .. n
  BY <1>2, <1>4, Elements, Zenon
<1>6. /\ st2 \in Seq(Rows) /\ Len(st2) = n + 1 /\ DOMAIN st2 = (1 .. n) \cup {n + 1}
      /\ \A i \in 1 .. n : st2[i] = st[i]
      /\ st2[n + 1] = t
  BY <1>1, <1>2, <1>3, <1>4, Appended
<1>7. \A k \in Keys : t[k] # Miss <=> k \in KeysOf(p)
  BY <1>3, Zenon DEF Present
<1>8. \A k \in Keys : t[k] \in {Miss, HeldIn(T, k)}
  <2>1. \A i \in DOMAIN p : p[i].val = HeldIn(T, p[i].key)
    BY Zenon DEF Merged
  <2> QED
    BY <1>3, <2>1, Zenon
<1>9. \A k \in Keys : (\E i \in DOMAIN st2 : st2[i][k] # Miss)
                        <=> k \in KeysOf(p) \/ \E i \in DOMAIN st : st[i][k] # Miss
  BY <1>5, <1>6, <1>7, Zenon
<1>10. \A i \in 1 .. n : i < n + 1 /\ ~ (n + 1 < i)
  BY <1>5
<1>11. ~ (n + 1 < n + 1)
  BY <1>5
<1>12. ASSUME NEW i \in DOMAIN st2, NEW k \in Keys, st2[i][k] # Miss,
              NEW j \in DOMAIN st2, NEW l \in Keys, i < j, st2[j][l] # Miss
       PROVE  k < l
  <2>1. i \in 1 .. n /\ st[i][k] # Miss
    BY <1>6, <1>10, <1>11, <1>12, Zenon
  <2>2. CASE j \in 1 .. n
    BY <1>5, <1>6, <1>12, <2>1, <2>2, Zenon DEF Merged
  <2>3. CASE j = n + 1
    BY <1>5, <1>6, <1>7, <1>12, <2>1, <2>3, Zenon DEF Merged
  <2> QED
    BY <1>6, <2>2, <2>3, Zenon
<1>13. \A i \in DOMAIN st2, k \in Keys : st2[i][k] \in {Miss, HeldIn(T, k)}
  BY <1>5, <1>6, <1>8, Zenon DEF Merged
<1>14. PICK o : o = <<>>
  BY Zenon
<1>15. Listed(o) /\ KeysOf(o) = {} /\ DOMAIN o = {}
  <2>1. DOMAIN <<>> = {}
    OBVIOUS
  <2> QED
    BY <1>14, <2>1, ListedEmpty, Zenon
<1>16. Merged(T, b, o, st2)
  <2>1. \A k \in Keys :
          (k \in KeysOf(o) \/ \E i \in DOMAIN st2 : st2[i][k] # Miss) <=> k < b /\ Live(HeldIn(T, k))
    BY <1>9, <1>15, Zenon DEF Merged
  <2>2. \A i \in DOMAIN st2, k \in Keys : st2[i][k] # Miss =>
          /\ \A l \in KeysOf(o) : k < l
          /\ \A j \in DOMAIN st2, l \in Keys : i < j /\ st2[j][l] # Miss => k < l
    <3> SUFFICES ASSUME NEW i \in DOMAIN st2, NEW k \in Keys, st2[i][k] # Miss
                 PROVE  /\ \A l \in KeysOf(o) : k < l
                        /\ \A j \in DOMAIN st2, l \in Keys : i < j /\ st2[j][l] # Miss => k < l
      BY Zenon
    <3>1. ASSUME NEW j \in DOMAIN st2, NEW l \in Keys, i < j, st2[j][l] # Miss PROVE k < l
      BY <1>12, <3>1, Zenon
    <3> QED
      BY <1>15, <3>1, Zenon
  <2>3. st2 \in Seq(Rows) /\ \A i \in DOMAIN o : o[i].val = HeldIn(T, o[i].key)
    BY <1>6, <1>15, Zenon
  <2> QED
    BY <1>13, <1>15, <2>1, <2>2, <2>3, Zenon DEF Merged
<1>17. Present(t) # {} /\ Cardinality(Present(t)) = Len(p)
  <2>1. DOMAIN p # {}
    BY <1>2, NotEmpty, Zenon DEF Listed
  <2> QED
    <3>1. Cardinality(KeysOf(p)) = Len(p)
      BY <1>2, Zenon DEF Listed
    <3>2. KeysOf(p) # {}
      BY <2>1, Zenon DEF KeysOf
    <3> QED
      BY <1>3, <3>1, <3>2, Zenon
<1>18. ASSUME NEW i \in DOMAIN st2
       PROVE  /\ Present(st2[i]) # {} /\ Cardinality(Present(st2[i])) <= L1_MAX_FILE_ENTRIES
              /\ i < Len(st2) \/ more => Cardinality(Present(st2[i])) = L1_MAX_FILE_ENTRIES
  <2>1. CASE i \in 1 .. n
    BY <1>5, <1>6, <2>1, Zenon DEF Filled
  <2>2. CASE i = n + 1
    BY <1>6, <1>11, <1>17, <2>2, Zenon
  <2> QED
    BY <1>6, <2>1, <2>2, Zenon
<1>19. Filled(st2, more)
  BY <1>18, Zenon DEF Filled
<1> QED
  BY <1>14, <1>16, <1>19, Zenon

(* The winner of a round is buffered unless it is a deletion, and a full   *)
(* buffer is written.                                                      *)
LEMMA MergeEmits ==
  ASSUME SetFacts, Dropping, MergeEmit
  PROVE  Merging'
<1>1. /\ Open /\ Passing /\ winner.key \in Keys /\ heap = Valid /\ heap \subseteq DOMAIN at
      /\ DOMAIN at = DOMAIN tables /\ tables \in Seq(Rows)
  BY Zenon DEF Dropping, Valid, Open
<1>2. PICK w, v : w = winner.key /\ v = winner.val
  BY Zenon
<1>3. PICK p : p = IF v = Tomb THEN out ELSE With(out, w, v)
  BY Zenon
<1>4. /\ heap # {} => at[MergeTop] # w
      /\ UNCHANGED <<mem, tables, at, heap>>
      /\ IF Len(p) >= L1_MAX_FILE_ENTRIES THEN flushBuffer(p) ELSE out' = p /\ UNCHANGED staged
  BY <1>2, <1>3, Zenon DEF MergeEmit, Duplicate, With
<1>5. /\ w \in Keys /\ v = HeldIn(tables, w) /\ v # Miss /\ Merged(tables, w, out, staged)
      /\ Len(out) < L1_MAX_FILE_ENTRIES /\ Filled(staged, TRUE)
  BY <1>2, Zenon DEF Dropping
<1>6. w \in Nat /\ w # NoEnd /\ w + 1 \in 1 .. NoEnd /\ w <= w + 1 /\ w + 1 \in Nat
  BY <1>5, KeyRange
<1>7. Len(out) \in Nat
  BY <1>5, Elements, Zenon DEF Merged, Listed
<1>8. \A j \in heap : at[j] # w
  BY <1>1, <1>2, <1>4, Tops, NoneLeft, Zenon
<1>9. Placed(w + 1)'
  <2>1. ASSUME NEW j \in DOMAIN at PROVE Seeks(Content(j), w + 1, at[j])
    <3>1. at[j] # w
      BY <1>1, <1>6, <1>8, Zenon DEF Valid
    <3> QED
      BY <1>1, <1>2, <3>1, NotBefore, Zenon
  <2> QED
    BY <1>4, <2>1, SameReads, Zenon DEF Placed
<1>10. Merged(tables, w + 1, p, staged) /\ Len(p) \in Nat /\ Len(p) <= L1_MAX_FILE_ENTRIES
  <2>1. CASE v = Tomb
    <3>1. p = out /\ ~ Live(HeldIn(tables, w))
      BY <1>3, <1>5, <2>1, Zenon DEF Live
    <3>2. ASSUME NEW k \in Keys, w <= k, k < w + 1 PROVE k = w
      BY <1>6, <3>2, KeyRange
    <3>3. Merged(tables, w + 1, p, staged)
      BY <1>5, <1>6, <3>1, <3>2, MergedOn, Zenon
    <3>4. Len(p) <= L1_MAX_FILE_ENTRIES
      BY <1>5, <1>7, <3>1, ScanAssumption
    <3> QED
      BY <1>7, <3>1, <3>3, <3>4, Zenon
  <2>2. CASE v # Tomb
    <3>1. p = With(out, w, v) /\ Live(v)
      BY <1>3, <1>5, <2>2, Zenon DEF Live
    <3>2. Merged(tables, w + 1, p, staged) /\ Len(p) = Len(out) + 1
      <4>1. Live(HeldIn(tables, w)) /\ p = With(out, w, HeldIn(tables, w))
        BY <1>5, <3>1, Zenon
      <4>2. /\ Merged(tables, w + 1, With(out, w, HeldIn(tables, w)), staged)
            /\ Len(With(out, w, HeldIn(tables, w))) = Len(out) + 1
        BY <1>1, <1>5, <4>1, MergedAdd, Zenon
      <4> QED
        BY <4>1, <4>2, Zenon
    <3>3. Len(p) \in Nat /\ Len(p) <= L1_MAX_FILE_ENTRIES
      BY <1>5, <1>7, <3>2, ScanAssumption
    <3> QED
      BY <3>2, <3>3, Zenon
  <2> QED
    BY <2>1, <2>2
<1>11. /\ Merged(tables, w + 1, out', staged') /\ Len(out') < L1_MAX_FILE_ENTRIES
       /\ Filled(staged', TRUE)
  <2>1. CASE Len(p) >= L1_MAX_FILE_ENTRIES
    <3>1. Len(p) = L1_MAX_FILE_ENTRIES /\ Len(p) # 0
      BY <1>10, <2>1, ScanAssumption
    <3>2. p # <<>>
      BY <3>1, ListedEmpty, Zenon
    <3>3. out' = <<>> /\ staged' = Append(staged, AsTable(p))
      BY <1>4, <2>1, <3>2, Zenon DEF flushBuffer
    <3>4. PICK st : st = Append(staged, AsTable(p))
      BY Zenon
    <3>5. Merged(tables, w + 1, <<>>, st) /\ Filled(st, TRUE)
      BY <1>5, <1>10, <3>1, <3>2, <3>4, Flushes, Zenon
    <3>6. Len(out') < L1_MAX_FILE_ENTRIES
      BY <3>3, ListedEmpty, ScanAssumption
    <3> QED
      BY <3>3, <3>4, <3>5, <3>6, Zenon
  <2>2. CASE ~ (Len(p) >= L1_MAX_FILE_ENTRIES)
    <3>1. out' = p /\ staged' = staged
      BY <1>4, <2>2, Zenon
    <3>2. Len(p) < L1_MAX_FILE_ENTRIES
      BY <1>10, <2>2, ScanAssumption
    <3> QED
      BY <1>5, <1>10, <3>1, <3>2, Zenon
  <2> QED
    BY <2>1, <2>2, Zenon
<1>12. Filled(staged, heap # {} \/ out # <<>>)'
  BY <1>11, Zenon DEF Filled
<1>13. Open' /\ heap' = Valid' /\ DOMAIN at' = DOMAIN tables'
  BY <1>1, <1>4, Zenon DEF Open, Valid, Memtable
<1>14. Merged(tables, w + 1, out, staged)'
  BY <1>4, <1>11, Zenon
<1> QED
  BY <1>6, <1>9, <1>11, <1>12, <1>13, <1>14, Zenon DEF Merging

(* The rest of the buffer is written when the heap is empty.               *)
LEMMA MergeFlushes ==
  ASSUME SetFacts, Merging, MergeFlush
  PROVE  Merging'
<1>1. PICK b \in 1 .. NoEnd : Placed(b) /\ Merged(tables, b, out, staged)
  BY Zenon DEF Merging
<1>2. /\ heap = {} /\ out # <<>> /\ UNCHANGED <<mem, tables, at, heap>>
      /\ staged' = Append(staged, AsTable(out)) /\ out' = <<>>
  BY Zenon DEF MergeFlush, flushBuffer
<1>3. Filled(staged, TRUE) /\ Len(out) < L1_MAX_FILE_ENTRIES
  BY <1>2, Zenon DEF Merging, Filled
<1>4. Len(out) \in Nat
  BY <1>1, Elements, Zenon DEF Merged, Listed
<1>5. Len(out) <= L1_MAX_FILE_ENTRIES
  BY <1>3, <1>4, ScanAssumption
<1>6. PICK st : st = Append(staged, AsTable(out))
  BY Zenon
<1>7. Merged(tables, b, <<>>, st) /\ Filled(st, FALSE)
  BY <1>1, <1>2, <1>3, <1>5, <1>6, Flushes, Zenon
<1>8. Merged(tables, b, out, staged)' /\ Filled(staged', FALSE) /\ heap' = {} /\ out' = <<>>
  BY <1>2, <1>6, <1>7, Zenon
<1>9. Filled(staged, heap # {} \/ out # <<>>)'
  BY <1>8, Zenon DEF Filled
<1>10. Len(out') < L1_MAX_FILE_ENTRIES
  BY <1>2, ListedEmpty, ScanAssumption
<1>11. Placed(b)'
  BY <1>1, <1>2, SameReads, Zenon DEF Placed
<1>12. Open' /\ heap' = Valid' /\ DOMAIN at' = DOMAIN tables'
  BY <1>2, Zenon DEF Merging, Open, Valid, Memtable
<1> QED
  BY <1>8, <1>9, <1>10, <1>11, <1>12, Zenon DEF Merging

(* When the merge ends, the outputs show what the inputs showed.           *)
LEMMA MergeKeeps ==
  ASSUME SetFacts, Merging, MergeEnds
  PROVE  /\ tables' \in Seq(Rows) /\ mem' = mem
         /\ \A k \in Keys : IF Live(HeldIn(tables, k))
                              THEN HeldIn(tables', k) = HeldIn(tables, k)
                              ELSE HeldIn(tables', k) = Miss
<1>1. PICK b \in 1 .. NoEnd : Placed(b) /\ Merged(tables, b, out, staged)
  BY Zenon DEF Merging
<1>2. heap = {} /\ out = <<>> /\ tables' = staged /\ mem' = mem
  BY Zenon DEF MergeEnds
<1>3. heap = Valid /\ DOMAIN at = DOMAIN tables /\ tables \in Seq(Rows) /\ staged \in Seq(Rows)
  BY <1>1, Zenon DEF Merging, Open, Merged
<1>4. KeysOf(out) = {}
  BY <1>2, ListedEmpty, Zenon
<1>5. ASSUME NEW k \in Keys, Live(HeldIn(tables, k)) PROVE k < b
  <2>1. SUFFICES ASSUME ~ (k < b) PROVE FALSE
    OBVIOUS
  <2>2. b <= k /\ k < NoEnd
    BY <2>1, KeyRange
  <2>3. ASSUME NEW t \in DOMAIN tables PROVE tables[t][k] = Miss
    <3>1. at[t] = NoEnd
      BY <1>2, <1>3, Zenon DEF Valid
    <3>2. Seeks(tables[t], b, at[t])
      BY <1>1, <1>3, Positions, Zenon DEF Placed
    <3> QED
      BY <2>2, <3>1, <3>2, Zenon DEF Seeks
  <2>4. HeldIn(tables, k) = Miss
    BY <1>3, <2>3, HeldBy, Zenon
  <2> QED
    BY <1>5, <2>4, Zenon DEF Live
<1>6. ASSUME NEW k \in Keys, Live(HeldIn(tables, k)) PROVE HeldIn(staged, k) = HeldIn(tables, k)
  <2>1. \E i \in DOMAIN staged : staged[i][k] # Miss
    BY <1>1, <1>4, <1>5, <1>6, Zenon DEF Merged
  <2>2. HeldIn(staged, k) # Miss
    BY <1>3, <2>1, HeldBy, Zenon
  <2>3. PICK s \in DOMAIN staged : staged[s][k] = HeldIn(staged, k)
    BY <1>3, <2>2, HeldBy, Zenon
  <2>4. staged[s][k] \in {Miss, HeldIn(tables, k)}
    BY <1>1, Zenon DEF Merged
  <2> QED
    BY <2>2, <2>3, <2>4, Zenon
<1>7. ASSUME NEW k \in Keys, ~ Live(HeldIn(tables, k)) PROVE HeldIn(staged, k) = Miss
  <2>1. \A i \in DOMAIN staged : staged[i][k] = Miss
    BY <1>1, <1>7, Zenon DEF Merged
  <2> QED
    BY <1>3, <2>1, HeldBy, Zenon
<1> QED
  BY <1>2, <1>3, <1>6, <1>7, Zenon

-----------------------------------------------------------------------------
(* The invariant holds.                                                    *)

(* It holds at first.                                                      *)
LEMMA InitInv == Init => Inv
<1> SUFFICES ASSUME Init PROVE Inv
  OBVIOUS
<1>1. mem \in Rows
  BY Zenon DEF Init, Nothing, Rows, Cells
<1>2. PICK n \in 1 .. MaxTables :
        /\ tables \in [1 .. n -> UNION {Contents(s) : s \in 1 .. n}]
        /\ \A s \in 1 .. n : tables[s] \in Contents(s) \ {Nothing}
  BY Zenon DEF Init
<1>3. ASSUME NEW s \in 1 .. n PROVE tables[s] \in Rows
  <2>1. s \in 0 .. MaxTables
    BY <1>2, <1>3, ScanAssumption, SMTT(30)
  <2>2. Values[s] \cup {Miss, Tomb} \subseteq Cells
    BY <2>1, Zenon DEF Cells, Vals
  <2>3. tables[s] \in [Keys -> Values[s] \cup {Miss, Tomb}]
    BY <1>2, Zenon DEF Contents
  <2> QED
    BY <2>2, <2>3, Zenon DEF Rows
<1>4. tables \in Seq(Rows)
  <2>1. n \in Nat
    BY <1>2
  <2>2. tables \in [1 .. n -> Rows]
    BY <1>2, <1>3, Zenon
  <2> QED
    BY <2>1, <2>2
<1> QED
  BY <1>1, <1>4, Zenon DEF Init, Inv

(* Every step keeps it.                                                    *)
LEMMA NextInv ==
  ASSUME SetFacts
  PROVE  Inv /\ [Next]_vars => Inv'
<1> SUFFICES ASSUME Inv, [Next]_vars PROVE Inv'
  OBVIOUS
<1>1. /\ mem \in Rows /\ tables \in Seq(Rows)
      /\ pc \in {"idle", "scan", "skip", "done", "merge", "drop"}
      /\ (pc = "idle" => out = <<>>) /\ (pc \notin {"merge", "drop"} => staged = <<>>)
  BY Zenon DEF Inv
<1>2. ASSUME NEW k \in Keys, NEW v \in Values[0] \cup {Tomb}, Write(k, v) PROVE Inv'
  <2>1. /\ pc = "idle" /\ pc' = pc /\ mem' = [mem EXCEPT ![k] = v]
        /\ UNCHANGED <<tables, out, staged>>
    BY <1>2, Zenon DEF Write, Unlocked, mergeVars
  <2>2. v \in Cells
    <3>1. 0 \in 0 .. MaxTables
      BY ScanAssumption
    <3> QED
      BY <3>1, Zenon DEF Cells, Vals
  <2>3. mem' \in Rows
    BY <1>1, <2>1, <2>2, Zenon DEF Rows
  <2> QED
    BY <1>1, <2>1, <2>3, Zenon DEF Inv
<1>3. ASSUME NEW start \in Starts, NEW end \in Ends, NEW limit \in Limits,
             Begin(start, end, limit)
      PROVE  Inv'
  <2>1. pc = "idle" /\ UNCHANGED <<mem, tables, staged>>
    BY <1>3, Zenon DEF Begin
  <2>2. (pc' = "scan" /\ Scanning') \/ (pc' = "done" /\ ScanExact')
    BY <1>3, Begins, Zenon
  <2> QED
    BY <1>1, <2>1, <2>2, Zenon DEF Inv
<1>4. CASE ScanEnds
  <2>1. pc = "scan" /\ ~ More /\ pc' = "done" /\ UNCHANGED <<mem, tables, call, out, staged>>
    BY <1>4, Zenon DEF ScanEnds
  <2>2. Exact(call, out)
    BY <2>1, Finishes, Zenon DEF Inv
  <2>3. Exact(call', out')
    BY <2>1, <2>2, Zenon
  <2>4. ScanExact'
    BY <2>1, <2>3, ExactNext, Zenon
  <2> QED
    BY <1>1, <2>1, <2>4, Zenon DEF Inv
<1>5. CASE Take
  <2>1. pc = "scan" /\ pc' = "skip" /\ UNCHANGED <<mem, tables, staged>>
    BY <1>5, Zenon DEF Take
  <2>2. Skipping'
    BY <1>5, <2>1, Takes, Zenon DEF Inv
  <2> QED
    BY <1>1, <2>1, <2>2, Zenon DEF Inv
<1>6. CASE Skip
  <2>1. pc = "skip" /\ pc' = "skip" /\ UNCHANGED <<mem, tables, staged>>
    BY <1>6, Zenon DEF Skip
  <2>2. Skipping'
    BY <1>6, <2>1, Skips, Zenon DEF Inv
  <2> QED
    BY <1>1, <2>1, <2>2, Zenon DEF Inv
<1>7. CASE Emit
  <2>1. pc = "skip" /\ pc' = "scan" /\ UNCHANGED <<mem, tables, staged>>
    BY <1>7, Zenon DEF Emit
  <2>2. Scanning'
    BY <1>7, <2>1, Emits, Zenon DEF Inv
  <2> QED
    BY <1>1, <2>1, <2>2, Zenon DEF Inv
<1>8. CASE Return
  <2>1. pc = "done" /\ pc' = "idle" /\ out' = <<>> /\ UNCHANGED <<mem, tables, staged>>
    BY <1>8, Zenon DEF Return
  <2> QED
    BY <1>1, <2>1, Zenon DEF Inv
<1>9. CASE MergeBegins
  <2>1. pc' = "merge" /\ UNCHANGED <<mem, tables>>
    BY <1>9, Zenon DEF MergeBegins
  <2>2. Merging'
    BY <1>9, MergeStarts, Zenon
  <2> QED
    BY <1>1, <2>1, <2>2, Zenon DEF Inv
<1>10. CASE MergeTake
  <2>1. pc = "merge" /\ pc' = "drop" /\ UNCHANGED <<mem, tables>>
    BY <1>10, Zenon DEF MergeTake
  <2>2. Dropping'
    BY <1>10, <2>1, MergeTakes, Zenon DEF Inv
  <2> QED
    BY <1>1, <2>1, <2>2, Zenon DEF Inv
<1>11. CASE MergeDrop
  <2>1. pc = "drop" /\ pc' = "drop" /\ UNCHANGED <<mem, tables>>
    BY <1>11, Zenon DEF MergeDrop
  <2>2. Dropping'
    BY <1>11, <2>1, MergeDrops, Zenon DEF Inv
  <2> QED
    BY <1>1, <2>1, <2>2, Zenon DEF Inv
<1>12. CASE MergeEmit
  <2>1. pc = "drop" /\ pc' = "merge" /\ UNCHANGED <<mem, tables>>
    BY <1>12, Zenon DEF MergeEmit
  <2>2. Merging'
    BY <1>12, <2>1, MergeEmits, Zenon DEF Inv
  <2> QED
    BY <1>1, <2>1, <2>2, Zenon DEF Inv
<1>13. CASE MergeFlush
  <2>1. pc = "merge" /\ pc' = "merge" /\ UNCHANGED <<mem, tables>>
    BY <1>13, Zenon DEF MergeFlush
  <2>2. Merging'
    BY <1>13, <2>1, MergeFlushes, Zenon DEF Inv
  <2> QED
    BY <1>1, <2>1, <2>2, Zenon DEF Inv
<1>14. CASE MergeEnds
  <2>1. pc = "merge" /\ pc' = "idle" /\ out' = <<>> /\ staged' = <<>>
    BY <1>14, Zenon DEF MergeEnds
  <2>2. tables' \in Seq(Rows) /\ mem' = mem
    BY <1>14, <2>1, MergeKeeps, Zenon DEF Inv
  <2> QED
    BY <1>1, <2>1, <2>2, Zenon DEF Inv
<1>15. CASE UNCHANGED vars
  <2>1. UNCHANGED <<mem, tables, pc, call, at, heap, winner, out, staged>>
    BY <1>15, Zenon DEF vars, mergeVars
  <2>2. (Open' <=> Open) /\ (Passing' <=> Passing) /\ Valid' = Valid
    BY <2>1, SameReads, Zenon DEF Open, Passing, Valid
  <2>3. \A b : (Placed(b)' <=> Placed(b)) /\ (Returned(b)' <=> Returned(b))
    BY <2>1, SameReads, Zenon DEF Placed, Returned
  <2>4. Opened' <=> Opened
    BY <2>1, <2>2, SameReads, Zenon DEF Opened
  <2>5. Scanning' <=> Scanning
    BY <2>1, <2>2, <2>3, <2>4, Zenon DEF Scanning
  <2>6. Skipping' <=> Skipping
    <3>1. PICK w : w = winner.key /\ w = winner'.key
      BY <2>1, Zenon
    <3>2. (Returned(winner.key)' <=> Returned(w)') /\ (Returned(winner.key) <=> Returned(w))
      BY <3>1, Zenon DEF Returned
    <3>3. get(winner.key)' = get(w)' /\ get(winner.key) = get(w)
      BY <3>1, Zenon DEF get
    <3> QED
      BY <2>1, <2>2, <2>3, <2>4, <3>2, <3>3, SameReads, Zenon DEF Skipping
  <2>7. Merging' <=> Merging
    BY <2>1, <2>2, <2>3, Zenon DEF Merging
  <2>8. Dropping' <=> Dropping
    BY <2>1, <2>2, Zenon DEF Dropping
  <2>9. ASSUME pc' = "done" PROVE ScanExact'
    <3>1. Exact(call, out)
      BY <2>1, <2>9, Zenon DEF Inv, ScanExact, Exact, Firsts, InRange, Live
    <3>2. Exact(call', out')
      BY <2>1, <3>1, Zenon
    <3> QED
      BY <2>1, <3>2, ExactNext, Zenon
  <2> QED
    BY <2>1, <2>5, <2>6, <2>7, <2>8, <2>9, Zenon DEF Inv
<1> QED
  BY <1>2, <1>3, <1>4, <1>5, <1>6, <1>7, <1>8, <1>9, <1>10, <1>11, <1>12, <1>13, <1>14, <1>15, Zenon
  DEF Next

-----------------------------------------------------------------------------
(* The facts about numbers and sets, from the library.                     *)

Fin == INSTANCE FiniteSetTheorems

(* The least element of a set of natural numbers.                          *)
LEMMA LeastNumber ==
  ASSUME NEW S \in SUBSET Nat, S # {}
  PROVE  \E x \in S : \A y \in S : x <= y
<1> DEFINE R == Fin!OpToRel(<, Nat)
<1>1. PICK x \in S : \A y \in S : ~ (<<y, x>> \in R)
  BY Fin!NatLessThanWellFounded, Fin!WFMin, Zenon
<1>2. ASSUME NEW y \in S PROVE x <= y
  <2>1. x \in Nat /\ y \in Nat /\ <<y, x>> \notin R
    BY <1>1, Zenon
  <2>2. ~ (y < x)
    BY <2>1, Zenon DEF Fin!OpToRel
  <2> HIDE DEF R
  <2> QED
    BY <2>1, <2>2
<1> QED
  BY <1>2, Zenon

(* The library's sizes are those of FiniteSets.                            *)
LEMMA SameSizes ==
  ASSUME NEW S
  PROVE  (Fin!IsFiniteSet(S) <=> IsFiniteSet(S)) /\ Fin!Cardinality(S) = Cardinality(S)
<1>1. Fin!IsFiniteSet(S) <=> IsFiniteSet(S)
  BY Zenon DEF Fin!IsFiniteSet, IsFiniteSet
<1>2. Fin!Cardinality(S) = Cardinality(S)
  BY Zenon DEF Fin!Cardinality, Cardinality
<1> QED
  BY <1>1, <1>2, Zenon

(* Sets of keys are finite, and part of one is no larger.                  *)
LEMMA KeySetSizes ==
  ASSUME NEW S \in SUBSET Keys, NEW T \in SUBSET S
  PROVE  Cardinality(S) \in Nat /\ Cardinality(T) \in Nat /\ Cardinality(T) <= Cardinality(S)
<1>1. Fin!IsFiniteSet(Keys)
  <2>1. NKeys \in Int /\ 1 \in Int
    BY ScanAssumption
  <2> QED
    BY <2>1, Fin!FS_Interval, Zenon DEF Keys
<1>2. Fin!IsFiniteSet(S)
  BY <1>1, Fin!FS_Subset, Zenon
<1>3. Fin!IsFiniteSet(T) /\ Fin!Cardinality(T) <= Fin!Cardinality(S)
  BY <1>2, Fin!FS_Subset, Zenon
<1>4. Fin!Cardinality(S) \in Nat /\ Fin!Cardinality(T) \in Nat
  BY <1>2, <1>3, Fin!FS_CardinalityType, Zenon
<1>5. Fin!Cardinality(S) = Cardinality(S) /\ Fin!Cardinality(T) = Cardinality(T)
  BY SameSizes, Zenon
<1> QED
  BY <1>3, <1>4, <1>5

(* One key more.                                                           *)
LEMMA OneKeyMore ==
  ASSUME NEW S \in SUBSET Keys, NEW k \in Keys, k \notin S
  PROVE  Cardinality(S \cup {k}) = Cardinality(S) + 1
<1>1. Fin!IsFiniteSet(Keys)
  <2>1. NKeys \in Int /\ 1 \in Int
    BY ScanAssumption
  <2> QED
    BY <2>1, Fin!FS_Interval, Zenon DEF Keys
<1>2. Fin!IsFiniteSet(S)
  BY <1>1, Fin!FS_Subset, Zenon
<1>3. Fin!Cardinality(S \cup {k}) = Fin!Cardinality(S) + 1
  BY <1>2, Fin!FS_AddElement, Zenon
<1> QED
  BY <1>3, SameSizes, Zenon

(* The empty set has no element.                                           *)
LEMMA NoKeys == Cardinality({}) = 0
  BY Fin!FS_EmptySet, SameSizes, Zenon

(* All of them.                                                            *)
LEMMA SetFactsHold == SetFacts
  BY LeastNumber, KeySetSizes, OneKeyMore, NoKeys, Zenon DEF SetFacts

-----------------------------------------------------------------------------
(* The theorems.                                                           *)

(* It holds in every state.                                                *)
THEOREM Invariance == Spec => []Inv
<1>1. Inv /\ [Next]_vars => Inv'
  BY SetFactsHold, NextInv, Zenon
<1> QED
  BY <1>1, InitInv, PTL DEF Spec

(* A scan returns what get() returns for the first live keys in its range, *)
(* in order, whatever the tables, the range and the limit.                 *)
THEOREM ExactScans == Spec => []ScanExact
<1>1. Inv => ScanExact
  BY Zenon DEF Inv, ScanExact
<1> QED
  BY <1>1, Invariance, PTL

(* A compaction writes tables in key order, none but the last not full,    *)
(* that hold no deletion.                                                  *)
THEOREM SortedOutputs == Spec => []OutputsSorted
<1>1. Inv => OutputsSorted
  <2> SUFFICES ASSUME Inv, NEW i \in DOMAIN staged
               PROVE  /\ Present(staged[i]) # {}
                      /\ Cardinality(Present(staged[i])) <= L1_MAX_FILE_ENTRIES
                      /\ \A k \in Keys : staged[i][k] # Tomb
                      /\ i < Len(staged) =>
                           /\ Cardinality(Present(staged[i])) = L1_MAX_FILE_ENTRIES
                           /\ Max(Present(staged[i])) < Min(Present(staged[i + 1]))
    BY Zenon DEF OutputsSorted
  <2>1. staged # <<>>
    OBVIOUS
  <2>2. /\ \E b : Merged(tables, b, out, staged)
        /\ \E more \in BOOLEAN : Filled(staged, more)
    BY <2>1, Zenon DEF Inv, Merging, Dropping
  <2>3. PICK b : Merged(tables, b, out, staged)
    BY <2>2, Zenon
  <2>4. /\ Present(staged[i]) # {} /\ Cardinality(Present(staged[i])) <= L1_MAX_FILE_ENTRIES
        /\ i < Len(staged) => Cardinality(Present(staged[i])) = L1_MAX_FILE_ENTRIES
    BY <2>2, Zenon DEF Filled
  <2>5. ASSUME NEW k \in Keys PROVE staged[i][k] # Tomb
    BY <2>3, CellsDiffer, Zenon DEF Merged, Live
  <2>6. ASSUME i < Len(staged) PROVE Max(Present(staged[i])) < Min(Present(staged[i + 1]))
    <3>1. staged \in Seq(Rows)
      BY <2>3, Zenon DEF Merged
    <3>2. i + 1 \in DOMAIN staged /\ i < i + 1
      BY <2>6, <3>1
    <3>3. PICK j : j = i + 1
      BY Zenon
    <3>4. Present(staged[i]) # {} /\ Present(staged[j]) # {}
      BY <2>2, <3>2, <3>3, Zenon DEF Filled
    <3>5. \A n : Present(staged[n]) \in SUBSET Nat /\ Present(staged[n]) \in SUBSET (0 .. NoEnd)
      <4>1. Keys \subseteq Nat /\ Keys \subseteq 0 .. NoEnd
        BY KeyRange
      <4> QED
        BY <4>1, Zenon DEF Present
    <3>6. Max(Present(staged[i])) \in Present(staged[i])
      BY <3>4, <3>5, SetFactsHold, MaxOf, KeyRange, Zenon
    <3>7. Min(Present(staged[j])) \in Present(staged[j])
      BY <3>4, <3>5, SetFactsHold, MinOf, Zenon
    <3>8. \A k, l \in Keys : k \in Present(staged[i]) /\ l \in Present(staged[j]) => k < l
      BY <2>3, <3>2, <3>3, Zenon DEF Merged, Present
    <3> QED
      BY <3>3, <3>6, <3>7, <3>8, Zenon DEF Present
  <2> QED
    BY <2>4, <2>5, <2>6, Zenon
<1> QED
  BY <1>1, Invariance, PTL

(* A compaction changes no point read: it only forgets deletions.          *)
THEOREM ReadsKept == Spec => CompactionKeepsReads
<1> DEFINE Keeps == tables' # tables =>
                      \A k \in Keys : LET live(v) == IF v = Tomb THEN Miss ELSE v
                                      IN  live(get(k)') = live(get(k))
<1>1. Inv /\ [Next]_vars => [Keeps]_vars
  <2> SUFFICES ASSUME Inv, [Next]_vars, tables' # tables, NEW k \in Keys
               PROVE  (IF get(k)' = Tomb THEN Miss ELSE get(k)')
                        = IF get(k) = Tomb THEN Miss ELSE get(k)
    BY Zenon
  <2>1. MergeEnds
    <3>1. Next
      BY Zenon DEF vars
    <3> QED
      BY <3>1, Zenon DEF Next, Write, Begin, ScanEnds, Take, Skip, Emit, Return, MergeBegins,
                         MergeTake, MergeDrop, MergeEmit, MergeFlush
  <2>2. Merging
    BY <2>1, Zenon DEF Inv, MergeEnds
  <2>3. /\ mem' = mem
        /\ IF Live(HeldIn(tables, k)) THEN HeldIn(tables', k) = HeldIn(tables, k)
                                      ELSE HeldIn(tables', k) = Miss
    BY <2>1, <2>2, SetFactsHold, MergeKeeps, Zenon
  <2>4. get(k) = IF mem[k] # Miss THEN mem[k] ELSE HeldIn(tables, k)
    BY GetHeld, Zenon
  <2>5. get(k)' = IF mem'[k] # Miss THEN mem'[k] ELSE HeldIn(tables', k)
    BY Zenon DEF get, HeldIn
  <2> QED
    BY <2>3, <2>4, <2>5, CellsDiffer, Zenon DEF Live
<1>2. Spec => [][Keeps]_vars
  BY <1>1, Invariance, PTL DEF Spec
<1> QED
  BY <1>2, Zenon DEF CompactionKeepsReads

=============================================================================
