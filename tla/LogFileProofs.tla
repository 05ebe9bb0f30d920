--------------------------- MODULE LogFileProofs ----------------------------
(***************************************************************************)
(* Proofs about LogFile, for every block and record size, every number of  *)
(* records and starts, and every way a write is torn, lost or cut off:     *)
(* recovery returns exactly the intact records, every synced one among     *)
(* them.                                                                   *)
(***************************************************************************)
EXTENDS LogFile, TLAPS

-----------------------------------------------------------------------------
(* Blocks.                                                                 *)

Multiple(n) == n % BlockCells = 0

(* The whole part and the rest.                                            *)
LEMMA Division ==
  ASSUME NEW n \in Nat
  PROVE  /\ n \div BlockCells \in Nat /\ n % BlockCells \in 0 .. BlockCells - 1
         /\ n = BlockCells * (n \div BlockCells) + (n % BlockCells)
  BY LogAssumption

(* The multiples.                                                          *)
LEMMA IsMultiple ==
  ASSUME NEW n \in Nat
  PROVE  Multiple(n) <=> \E k \in Nat : n = BlockCells * k
<1>1. ASSUME Multiple(n) PROVE \E k \in Nat : n = BlockCells * k
  <2>1. n \div BlockCells \in Nat /\ n = BlockCells * (n \div BlockCells) + 0
    BY <1>1, Division DEF Multiple
  <2>2. n = BlockCells * (n \div BlockCells)
    BY <2>1, LogAssumption
  <2> QED
    BY <2>1, <2>2, Zenon
<1>2. ASSUME NEW k \in Nat, n = BlockCells * k PROVE Multiple(n)
  BY <1>2, LogAssumption DEF Multiple
<1> QED
  BY <1>1, <1>2

(* Multiples are a block apart.                                            *)
LEMMA MultiplesApart ==
  ASSUME NEW a \in Nat, NEW b \in Nat, Multiple(a), Multiple(b), a < b
  PROVE  a + BlockCells <= b
<1>1. PICK k \in Nat : a = BlockCells * k
  BY IsMultiple
<1>2. PICK l \in Nat : b = BlockCells * l
  BY IsMultiple
<1>3. BlockCells \in Nat \ {0}
  BY LogAssumption
<1>4. k < l
  BY <1>1, <1>2, <1>3
<1>5. PICK d \in Nat : l = k + 1 + d
  <2>1. l - k - 1 \in Nat /\ l = k + 1 + (l - k - 1)
    BY <1>4
  <2> QED
    BY <2>1
<1>6. b = a + BlockCells + BlockCells * d /\ BlockCells * d \in Nat
  BY <1>1, <1>2, <1>3, <1>5
<1> QED
  BY <1>3, <1>6

(* Their sums and differences.                                             *)
LEMMA MultiplesAdd ==
  ASSUME NEW a \in Nat, NEW b \in Nat, Multiple(b)
  PROVE  Multiple(a + b) <=> Multiple(a)
<1>1. PICK l \in Nat : b = BlockCells * l
  BY IsMultiple
<1>2. BlockCells \in Nat \ {0}
  BY LogAssumption
<1>3. ASSUME Multiple(a) PROVE Multiple(a + b)
  <2>1. PICK k \in Nat : a = BlockCells * k
    BY <1>3, IsMultiple
  <2>2. a + b = BlockCells * (k + l) /\ k + l \in Nat /\ a + b \in Nat
    BY <1>1, <1>2, <2>1
  <2> QED
    BY <2>2, IsMultiple
<1>4. ASSUME Multiple(a + b) PROVE Multiple(a)
  <2>1. PICK k \in Nat : a + b = BlockCells * k
    BY <1>4, IsMultiple
  <2>2. a = BlockCells * (k - l) /\ k - l \in Int
    BY <1>1, <1>2, <2>1
  <2>3. k - l >= 0
    BY <1>2, <2>2
  <2> QED
    BY <2>2, <2>3, IsMultiple
<1> QED
  BY <1>3, <1>4

(* A record's padded length.                                               *)
LEMMA AlignedLength ==
  ASSUME NEW n \in Nat
  PROVE  /\ Aligned(n) \in Nat /\ Multiple(Aligned(n))
         /\ n <= Aligned(n) /\ Aligned(n) < n + BlockCells
         /\ n > 0 => Aligned(n) >= BlockCells
<1>1. BlockCells \in Nat \ {0}
  BY LogAssumption
<1> DEFINE m == n + BlockCells - 1
<1>2. m \in Nat
  BY <1>1
<1>3. PICK q \in Nat, r \in 0 .. BlockCells - 1 : q = m \div BlockCells /\ m = BlockCells * q + r
  BY <1>2, Division
<1>4. Aligned(n) = BlockCells * q /\ BlockCells * q \in Nat
  BY <1>1, <1>3 DEF Aligned
<1>5. Multiple(Aligned(n)) /\ Aligned(n) \in Nat
  BY <1>4, IsMultiple
<1>6. n <= Aligned(n) /\ Aligned(n) < n + BlockCells
  BY <1>1, <1>3, <1>4
<1>7. ASSUME n > 0 PROVE Aligned(n) >= BlockCells
  <2>1. Multiple(0)
    BY <1>1 DEF Multiple
  <2> QED
    BY <1>1, <1>5, <1>6, <1>7, <2>1, MultiplesApart
<1> QED
  BY <1>5, <1>6, <1>7

(* The boundary after a multiple.                                          *)
LEMMA BoundaryAfter ==
  ASSUME NEW o \in Nat, Multiple(o)
  PROVE  NextBoundary(o) = o + BlockCells /\ NextBoundary(o) \in Nat /\ Multiple(NextBoundary(o))
<1>1. BlockCells \in Nat \ {0}
  BY LogAssumption
<1>2. NextBoundary(o) = o + BlockCells
  BY <1>1, Division DEF NextBoundary, Multiple
<1>3. Multiple(BlockCells)
  BY <1>1 DEF Multiple
<1> QED
  BY <1>1, <1>2, <1>3, MultiplesAdd

(* The block of an offset, counted from a.                                 *)
LEMMA BlockOf ==
  ASSUME NEW a \in Nat, NEW o \in Nat, a <= o
  PROVE  \E b \in a .. o : (b - a) % BlockCells = 0 /\ o < b + BlockCells
<1>1. BlockCells \in Nat \ {0}
  BY LogAssumption
<1> DEFINE m == o - a
<1>2. m \in Nat
  OBVIOUS
<1>3. PICK q \in Nat, r \in 0 .. BlockCells - 1 : m = BlockCells * q + r
  BY <1>2, Division
<1> DEFINE b == a + BlockCells * q
<1>4. BlockCells * q \in Nat
  BY <1>1
<1>5. b \in a .. o /\ o < b + BlockCells
  BY <1>1, <1>3, <1>4
<1>6. (b - a) = BlockCells * q
  BY <1>4
<1>7. (b - a) % BlockCells = 0
  BY <1>4, <1>6, IsMultiple DEF Multiple
<1> QED
  BY <1>5, <1>7

(* What the proofs need of sets of numbers; shown from the library in the  *)
(* last section.                                                           *)
LeastFact == \A S \in SUBSET Nat : S # {} => \E x \in S : \A y \in S : x <= y

(* Max, of a bounded set.                                                  *)
LEMMA MaxOf ==
  ASSUME LeastFact, NEW n \in Nat, NEW S \in SUBSET (0 .. n), S # {}
  PROVE  Max(S) \in S /\ \A y \in S : y <= Max(S)
<1> DEFINE D == {n - y : y \in S}
<1>1. D \in SUBSET Nat /\ D # {}
  <2>1. ASSUME NEW y \in S PROVE n - y \in Nat
    OBVIOUS
  <2> QED
    BY <2>1, Zenon
<1>2. PICK d \in D : \A e \in D : d <= e
  BY <1>1, Zenon DEF LeastFact
<1>3. PICK x \in S : d = n - x
  BY <1>2, Zenon
<1>4. ASSUME NEW y \in S PROVE x >= y
  <2>1. d <= n - y
    BY <1>2, Zenon
  <2>2. x \in 0 .. n /\ y \in 0 .. n
    BY Zenon
  <2> QED
    BY <1>3, <2>1, <2>2
<1>5. Max(S) \in S /\ \A y \in S : Max(S) >= y
  BY <1>4, Zenon DEF Max
<1>6. ASSUME NEW y \in S PROVE y <= Max(S)
  <2>1. Max(S) \in 0 .. n /\ y \in 0 .. n /\ Max(S) >= y
    BY <1>5, Zenon
  <2> QED
    BY <2>1
<1> QED
  BY <1>5, <1>6, Zenon

(* Where a file of n cells ends once it has the blocks at B.               *)
EndOf(n, B) == Max({n} \cup {b + BlockCells : b \in B})

LEMMA EndReached ==
  ASSUME LeastFact, NEW n \in Nat, NEW m \in Nat, NEW B \in SUBSET (0 .. m)
  PROVE  /\ EndOf(n, B) \in Nat /\ n <= EndOf(n, B)
         /\ \A b \in B : b + BlockCells <= EndOf(n, B)
         /\ EndOf(n, B) = n \/ \E b \in B : EndOf(n, B) = b + BlockCells
<1> DEFINE S == {n} \cup {b + BlockCells : b \in B}
<1>1. BlockCells \in Nat
  BY LogAssumption
<1>2. n + m + BlockCells \in Nat /\ S \in SUBSET (0 .. n + m + BlockCells)
  BY <1>1
<1>3. S # {} /\ n \in S
  BY Zenon
<1>4. PICK e : e = EndOf(n, B)
  BY Zenon
<1>5. e \in S /\ \A y \in S : y <= e
  BY <1>2, <1>3, <1>4, MaxOf, Zenon DEF EndOf
<1>6. e \in Nat /\ n <= e /\ \A b \in B : b + BlockCells <= e
  <2>1. e \in 0 .. n + m + BlockCells
    BY <1>2, <1>5, Zenon
  <2>2. \A b \in B : b + BlockCells <= e
    BY <1>5, Zenon
  <2> QED
    BY <1>2, <1>3, <1>5, <2>1, <2>2
<1>7. e = n \/ \E b \in B : e = b + BlockCells
  BY <1>5, Zenon
<1> QED
  BY <1>4, <1>6, <1>7, Zenon

-----------------------------------------------------------------------------
(* The inductive invariant.                                                *)

(* The records appended since the log was opened or replaced.              *)
Recent == base + 1 .. count

Types ==
  /\ pc \in {"down", "recover", "recovered", "up"}
  /\ file \in Seq(Nat \X Nat) /\ stable \in 0 .. Len(file)
  /\ writeOffset \in Nat /\ failure \in BOOLEAN
  /\ offset \in Nat /\ entries \in Seq(Nat)
  /\ \A i \in DOMAIN entries : entries[i] \in 1 .. count
  /\ at \in [Records -> Nat] /\ size \in [Records -> Sizes \cup {0}]
  /\ count \in 0 .. MaxRecords /\ base \in 0 .. count
  /\ inflight \subseteq Recent /\ acked \subseteq 1 .. count
  /\ starts \in 0 .. MaxStarts

(* What a cell may hold at offset o: nothing, or the cell that an aligned  *)
(* record has there.                                                       *)
CellAt(o, c) ==
  \/ c = Zero
  \/ \E r \in 1 .. count :
       /\ Multiple(at[r]) /\ at[r] <= o /\ o < at[r] + size[r]
       /\ c = <<r, o - at[r] + 1>>

Cells == \A o \in 0 .. Len(file) - 1 : CellAt(o, file[o + 1])

(* The records of this start lie one behind the other, behind what was     *)
(* synced if they are in flight.  A log that was cut inside a block never  *)
(* takes a write.                                                          *)
Layout ==
  /\ \A r \in Recent :
       /\ size[r] > 0 /\ at[r] + Aligned(size[r]) <= writeOffset
       /\ Multiple(at[r]) <=> Multiple(writeOffset)
  /\ \A r, s \in Recent : r < s => at[r] + Aligned(size[r]) <= at[s]
  /\ \A r \in inflight : stable <= at[r]
  /\ Len(file) <= writeOffset
  /\ Multiple(Len(file)) <=> Multiple(writeOffset)
  /\ ~Multiple(Len(file)) => stable = Len(file)

(* The file holds all of record r.                                         *)
Whole(r) ==
  /\ size[r] > 0 /\ at[r] + size[r] <= Len(file)
  /\ \A i \in 1 .. size[r] : file[at[r] + i] = <<r, i>>

(* Without a failure a completed write is in the file; what a sync has     *)
(* promised is in the part that a crash cannot touch.                      *)
Landed == pc = "up" /\ ~failure => \A r \in Recent \ inflight : Whole(r)
Promised == \A r \in acked : at[r] + size[r] <= stable /\ Whole(r)

(* Recovery has returned the intact records before its offset.             *)
Reading ==
  pc \in {"recover", "recovered"} =>
    /\ Multiple(offset)
    /\ \A r \in 1 .. count :
         (\E i \in DOMAIN entries : entries[i] = r) <=> Whole(r) /\ at[r] < offset
    /\ \A i, j \in DOMAIN entries : i < j => at[entries[i]] < at[entries[j]]
    /\ pc = "recovered" => offset >= Len(file)
    /\ base = count

Inv ==
  /\ Types /\ Cells /\ Landed /\ Promised /\ Reading
  /\ pc # "down" => Layout
  /\ pc # "up" => inflight = {} /\ stable = Len(file)

-----------------------------------------------------------------------------
(* Records and the file.                                                   *)

(* A record's place and size are numbers.                                  *)
LEMMA RecordTyped ==
  ASSUME Types, NEW r \in 1 .. count
  PROVE  r \in Records /\ r \in Nat /\ at[r] \in Nat /\ size[r] \in Nat
<1>1. r \in Records /\ r \in Nat
  BY LogAssumption DEF Types, Records
<1>2. at[r] \in Nat /\ size[r] \in Sizes \cup {0}
  BY <1>1, Zenon DEF Types
<1>3. Sizes \subseteq Nat /\ 0 \in Nat
  BY LogAssumption
<1> QED
  BY <1>1, <1>2, <1>3, Zenon

(* The records of this start are among all.                                *)
LEMMA RecentTyped ==
  ASSUME Types, NEW r \in Recent
  PROVE  r \in 1 .. count /\ base < r
  BY LogAssumption DEF Types, Recent

(* The blocks of a record.                                                 *)
LEMMA BlockRange ==
  ASSUME Types, NEW r \in 1 .. count, NEW b \in BlocksOf(r)
  PROVE  /\ b \in Nat /\ at[r] <= b /\ b + BlockCells <= at[r] + Aligned(size[r])
         /\ Multiple(at[r]) => Multiple(b)
<1>1. at[r] \in Nat /\ size[r] \in Nat /\ BlockCells \in Nat
  BY RecordTyped, LogAssumption, Zenon
<1>2. Aligned(size[r]) \in Nat /\ Multiple(Aligned(size[r]))
  BY <1>1, AlignedLength, Zenon
<1>3. b \in at[r] .. at[r] + Aligned(size[r]) - 1 /\ (b - at[r]) % BlockCells = 0
  BY Zenon DEF BlocksOf
<1>4. PICK d \in Nat : d = b - at[r] /\ d < Aligned(size[r]) /\ b = at[r] + d
  <2>1. /\ b - at[r] \in Nat /\ b - at[r] < Aligned(size[r])
        /\ b = at[r] + (b - at[r])
    BY <1>1, <1>2, <1>3
  <2> QED
    BY <2>1, Zenon
<1>5. Multiple(d)
  BY <1>3, <1>4, Zenon DEF Multiple
<1>6. d + BlockCells <= Aligned(size[r])
  BY <1>2, <1>4, <1>5, MultiplesApart, Zenon
<1>7. Multiple(at[r]) => Multiple(b)
  <2>1. Multiple(at[r] + d) <=> Multiple(at[r])
    BY <1>1, <1>5, MultiplesAdd, Zenon
  <2> QED
    BY <1>4, <2>1
<1> QED
  BY <1>1, <1>2, <1>4, <1>6, <1>7

(* An offset within a block of r is one that r covers, and the other way.  *)
In(B, o) == \E b \in B : b <= o /\ o < b + BlockCells

LEMMA InCovers ==
  ASSUME Types, NEW r \in 1 .. count, NEW B \in SUBSET BlocksOf(r), NEW o \in Nat, In(B, o)
  PROVE  Covers(r, o)
<1>1. PICK b \in B : b <= o /\ o < b + BlockCells
  BY Zenon DEF In
<1>2. b \in Nat /\ at[r] <= b /\ b + BlockCells <= at[r] + Aligned(size[r])
  BY BlockRange, Zenon
<1>3. at[r] \in Nat /\ size[r] \in Nat /\ BlockCells \in Nat
  BY RecordTyped, LogAssumption, Zenon
<1>4. Aligned(size[r]) \in Nat
  BY <1>3, AlignedLength, Zenon
<1> QED
  BY <1>1, <1>2, <1>3, <1>4 DEF Covers

LEMMA CoversIn ==
  ASSUME Types, NEW r \in 1 .. count, NEW o \in Nat, Covers(r, o)
  PROVE  In(BlocksOf(r), o)
<1>1. at[r] \in Nat /\ size[r] \in Nat
  BY RecordTyped, Zenon
<1>2. Aligned(size[r]) \in Nat
  BY <1>1, AlignedLength, Zenon
<1>3. at[r] <= o /\ o < at[r] + Aligned(size[r])
  BY Zenon DEF Covers
<1>4. PICK b \in at[r] .. o : (b - at[r]) % BlockCells = 0 /\ o < b + BlockCells
  BY <1>1, <1>3, BlockOf, Zenon
<1>5. b \in at[r] .. at[r] + Aligned(size[r]) - 1 /\ b <= o
  BY <1>1, <1>2, <1>3, <1>4
<1> QED
  BY <1>4, <1>5, Zenon DEF In, BlocksOf

(* The cell that r has at an offset it covers.                             *)
LEMMA CellOfTyped ==
  ASSUME Types, NEW r \in 1 .. count, Multiple(at[r]), NEW o \in Nat, Covers(r, o)
  PROVE  CellAt(o, CellOf(r, o)) /\ CellOf(r, o) \in Nat \X Nat
<1>1. at[r] \in Nat /\ size[r] \in Nat /\ r \in Nat
  BY RecordTyped, Zenon
<1>2. at[r] <= o
  BY Zenon DEF Covers
<1>3. CASE o - at[r] < size[r]
  <2>1. CellOf(r, o) = <<r, o - at[r] + 1>>
    BY <1>3, Zenon DEF CellOf
  <2>2. o < at[r] + size[r] /\ <<r, o - at[r] + 1>> \in Nat \X Nat
    BY <1>1, <1>2, <1>3
  <2> QED
    BY <1>2, <2>1, <2>2, Zenon DEF CellAt
<1>4. CASE ~(o - at[r] < size[r])
  <2>1. CellOf(r, o) = Zero
    BY <1>4, Zenon DEF CellOf
  <2> QED
    BY <2>1 DEF CellAt, Zero
<1> QED
  BY <1>3, <1>4, Zenon

(* What a write of some blocks of r makes of the file.                     *)
LEMMA WrittenFile ==
  ASSUME LeastFact, Types, Cells, NEW r \in 1 .. count, Multiple(at[r]),
         NEW B \in SUBSET BlocksOf(r), NEW g, g = Written(file, r, B)
  PROVE  /\ g \in Seq(Nat \X Nat) /\ Len(file) <= Len(g)
         /\ \A b \in B : b + BlockCells <= Len(g)
         /\ Len(g) = Len(file) \/ \E b \in B : Len(g) = b + BlockCells
         /\ \A o \in 0 .. Len(g) - 1 : CellAt(o, g[o + 1])
         /\ \A o \in Nat : In(B, o) => o < Len(g) /\ g[o + 1] = CellOf(r, o)
         /\ \A o \in 0 .. Len(file) - 1 : ~In(B, o) => g[o + 1] = file[o + 1]
<1>1. at[r] \in Nat /\ size[r] \in Nat /\ BlockCells \in Nat
  BY RecordTyped, LogAssumption, Zenon
<1>2. Aligned(size[r]) \in Nat
  BY <1>1, AlignedLength, Zenon
<1>3. PICK m \in Nat : m = at[r] + Aligned(size[r])
  BY <1>1, <1>2
<1>4. B \in SUBSET (0 .. m)
  <2>1. ASSUME NEW b \in B PROVE b \in 0 .. m
    <3>1. b \in Nat /\ b + BlockCells <= m
      BY <1>3, BlockRange, Zenon
    <3> QED
      BY <1>1, <1>3, <3>1
  <2> QED
    BY <2>1, Zenon
<1>5. Len(file) \in Nat /\ file \in Seq(Nat \X Nat)
  BY DEF Types
<1>6. PICK end : end = EndOf(Len(file), B)
  BY Zenon
<1>7. /\ end \in Nat /\ Len(file) <= end
      /\ \A b \in B : b + BlockCells <= end
      /\ end = Len(file) \/ \E b \in B : end = b + BlockCells
  BY <1>4, <1>5, <1>6, EndReached, Zenon
<1> DEFINE c(o) == IF In(B, o) THEN CellOf(r, o)
                   ELSE IF o + 1 <= Len(file) THEN file[o + 1] ELSE Zero
<1>8. g = [i \in 1 .. end |-> IF In(B, i - 1) THEN CellOf(r, i - 1)
                              ELSE IF i <= Len(file) THEN file[i] ELSE Zero]
  BY <1>6, Zenon DEF Written, EndOf, In
<1>9. ASSUME NEW o \in 0 .. end - 1
      PROVE  g[o + 1] = c(o)
  <2>1. o + 1 \in 1 .. end /\ (o + 1) - 1 = o
    BY <1>7, <1>9
  <2> QED
    BY <1>8, <2>1
<1>10. ASSUME NEW o \in 0 .. end - 1
       PROVE  CellAt(o, g[o + 1]) /\ g[o + 1] \in Nat \X Nat
  <2>1. o \in Nat
    BY <1>7
  <2>2. CASE In(B, o)
    BY <1>9, <2>1, <2>2, InCovers, CellOfTyped, Zenon
  <2>3. CASE ~In(B, o) /\ o + 1 <= Len(file)
    <3>1. o \in 0 .. Len(file) - 1 /\ o + 1 \in 1 .. Len(file)
      BY <1>5, <2>1, <2>3
    <3>2. file[o + 1] \in Nat \X Nat
      BY <1>5, <3>1
    <3> QED
      BY <1>9, <2>3, <3>1, <3>2, Zenon DEF Cells
  <2>4. CASE ~In(B, o) /\ ~(o + 1 <= Len(file))
    <3>1. g[o + 1] = Zero
      BY <1>9, <2>4, Zenon
    <3> QED
      BY <3>1 DEF CellAt, Zero
  <2> QED
    BY <2>2, <2>3, <2>4, Zenon
<1>11. g \in Seq(Nat \X Nat) /\ Len(g) = end
  <2>1. ASSUME NEW i \in 1 .. end PROVE g[i] \in Nat \X Nat
    <3>1. i - 1 \in 0 .. end - 1 /\ (i - 1) + 1 = i
      BY <1>7
    <3>2. g[(i - 1) + 1] \in Nat \X Nat
      BY <1>10, <3>1, Zenon
    <3> QED
      BY <3>1, <3>2, Zenon
  <2>2. g \in [1 .. end -> Nat \X Nat]
    BY <1>8, <2>1, Zenon
  <2> QED
    BY <1>7, <2>2
<1>12. ASSUME NEW o \in Nat, In(B, o) PROVE o < end /\ g[o + 1] = CellOf(r, o)
  <2>1. PICK b \in B : b <= o /\ o < b + BlockCells
    BY <1>12, Zenon DEF In
  <2>2. b + BlockCells <= end /\ b \in 0 .. m
    BY <1>4, <1>7, <2>1, Zenon
  <2>3. o < end /\ o \in 0 .. end - 1
    BY <1>1, <1>3, <1>7, <2>1, <2>2
  <2> QED
    BY <1>9, <1>12, <2>3, Zenon
<1>13. ASSUME NEW o \in 0 .. Len(file) - 1, ~In(B, o) PROVE g[o + 1] = file[o + 1]
  <2>1. o \in 0 .. end - 1 /\ o + 1 <= Len(file)
    BY <1>5, <1>7
  <2> QED
    BY <1>9, <1>13, <2>1, Zenon
<1> QED
  BY <1>7, <1>10, <1>11, <1>12, <1>13, Zenon

(* A whole record stays whole where its cells stay.                        *)
LEMMA WholeKept ==
  ASSUME Types, NEW r \in 1 .. count, Whole(r), at'[r] = at[r], size'[r] = size[r],
         Len(file') \in Nat,
         \A o \in 0 .. Len(file) - 1 :
           at[r] <= o /\ o < at[r] + size[r] => o < Len(file') /\ file'[o + 1] = file[o + 1]
  PROVE  Whole(r)'
<1>1. at[r] \in Nat /\ size[r] \in Nat /\ Len(file) \in Nat
  BY RecordTyped, SMTT(30) DEF Types
<1>2. size[r] > 0 /\ at[r] + size[r] <= Len(file)
  BY Zenon DEF Whole
<1>3. ASSUME NEW i \in 1 .. size[r]
      PROVE  at[r] + i <= Len(file') /\ file'[at[r] + i] = <<r, i>>
  <2>1. PICK o \in 0 .. Len(file) - 1 : o = at[r] + i - 1
    BY <1>1, <1>2
  <2>2. at[r] <= o /\ o < at[r] + size[r] /\ o + 1 = at[r] + i
    <3>1. PICK x \in Nat : x = at[r]
      BY <1>1, Zenon
    <3>2. PICK y \in Nat : y = size[r]
      BY <1>1, Zenon
    <3>3. i \in 1 .. y /\ o = x + i - 1
      BY <2>1, <3>1, <3>2, Zenon
    <3>4. x <= o /\ o < x + y /\ o + 1 = x + i
      BY <3>3
    <3> QED
      BY <3>1, <3>2, <3>4, Zenon
  <2>3. o < Len(file') /\ file'[o + 1] = file[o + 1]
    BY <2>2, Zenon
  <2>4. file[at[r] + i] = <<r, i>>
    BY Zenon DEF Whole
  <2> QED
    <3>1. o + 1 <= Len(file')
      BY <2>3
    <3> QED
      BY <2>2, <2>3, <2>4, <3>1, Zenon
<1>4. at[r] + size[r] <= Len(file')
  <2>1. size[r] \in 1 .. size[r]
    BY <1>1, <1>2
  <2> QED
    BY <1>3, <2>1, Zenon
<1> QED
  BY <1>2, <1>3, <1>4, Zenon DEF Whole

(* Records of this start that differ cover different offsets.              *)
LEMMA RecentApart ==
  ASSUME Types, Layout, NEW r \in Recent, NEW s \in Recent, r # s,
         NEW o \in Nat, at[r] <= o, o < at[r] + size[r]
  PROVE  ~Covers(s, o)
<1>1. /\ r \in Nat /\ at[r] \in Nat /\ size[r] \in Nat
      /\ s \in Nat /\ at[s] \in Nat /\ size[s] \in Nat
  BY RecentTyped, RecordTyped, Zenon
<1>2. /\ Aligned(size[r]) \in Nat /\ size[r] <= Aligned(size[r])
      /\ Aligned(size[s]) \in Nat
  BY <1>1, AlignedLength, Zenon
<1>3. CASE r < s
  <2>1. at[r] + Aligned(size[r]) <= at[s]
    BY <1>3, Zenon DEF Layout
  <2> QED
    BY <1>1, <1>2, <2>1 DEF Covers
<1>4. CASE s < r
  <2>1. at[s] + Aligned(size[s]) <= at[r]
    BY <1>4, Zenon DEF Layout
  <2> QED
    BY <1>1, <1>2, <2>1 DEF Covers
<1> QED
  BY <1>1, <1>3, <1>4

-----------------------------------------------------------------------------
(* Steps.                                                                  *)

(* The write of a record completes, with all of its blocks or, if it       *)
(* fails, with some of them.                                               *)
LEMMA WriteStep ==
  ASSUME LeastFact, Inv, pc = "up", NEW r \in inflight, Multiple(at[r]),
         NEW B \in SUBSET BlocksOf(r), file' = Written(file, r, B),
         failure' \in BOOLEAN, ~failure' => ~failure /\ B = BlocksOf(r),
         inflight' = inflight \ {r},
         UNCHANGED <<pc, stable, writeOffset, offset, entries, recordVars, acked, starts>>
  PROVE  Inv'
<1>1. Types /\ Cells /\ Layout /\ Landed /\ Promised
  BY Zenon DEF Inv
<1>2. r \in Recent /\ r \in 1 .. count
  BY <1>1, RecentTyped, Zenon DEF Types
<1>3. at[r] \in Nat /\ size[r] \in Nat
  BY <1>1, <1>2, RecordTyped, Zenon
<1>4. Aligned(size[r]) \in Nat /\ size[r] <= Aligned(size[r])
  BY <1>3, AlignedLength, Zenon
<1>5. Len(file) \in Nat /\ stable \in Nat /\ stable <= Len(file) /\ writeOffset \in Nat
  BY <1>1 DEF Types
<1>6. PICK g : g = file'
  BY Zenon
<1>7. /\ g \in Seq(Nat \X Nat) /\ Len(file) <= Len(g)
      /\ Len(g) = Len(file) \/ \E b \in B : Len(g) = b + BlockCells
      /\ \A o \in 0 .. Len(g) - 1 : CellAt(o, g[o + 1])
      /\ \A o \in Nat : In(B, o) => o < Len(g) /\ g[o + 1] = CellOf(r, o)
      /\ \A o \in 0 .. Len(file) - 1 : ~In(B, o) => g[o + 1] = file[o + 1]
  BY <1>1, <1>2, <1>6, WrittenFile, ZenonT(30)
<1>8. Len(g) \in Nat
  BY <1>7
<1>9. UNCHANGED <<pc, stable, writeOffset, offset, entries, at, size, count, base, acked, starts>>
  BY Zenon DEF recordVars
<1>10. Types'
  <2>1. stable \in 0 .. Len(g)
    BY <1>5, <1>7, <1>8
  <2>2. inflight' \subseteq Recent
    BY <1>1, Zenon DEF Types
  <2> QED
    BY <1>1, <1>6, <1>7, <1>9, <2>1, <2>2, Zenon DEF Types, Recent
<1>11. Cells'
  <2>1. ASSUME NEW o \in 0 .. Len(g) - 1 PROVE CellAt(o, g[o + 1])'
    <3>1. CellAt(o, g[o + 1])
      BY <1>7, Zenon
    <3> QED
      BY <1>6, <1>9, <3>1, Zenon DEF CellAt
  <2> QED
    BY <1>6, <2>1, Zenon DEF Cells
<1>12. ASSUME NEW s \in 1 .. count, Whole(s),
              \A o \in Nat : at[s] <= o /\ o < at[s] + size[s] => ~Covers(r, o)
       PROVE  Whole(s)'
  <2>1. ASSUME NEW o \in 0 .. Len(file) - 1, at[s] <= o, o < at[s] + size[s]
        PROVE  o < Len(file') /\ file'[o + 1] = file[o + 1]
    <3>1. o \in Nat /\ o < Len(g)
      BY <1>5, <1>7, <1>8
    <3>2. ~In(B, o)
      BY <1>1, <1>2, <1>12, <2>1, <3>1, InCovers, Zenon
    <3> QED
      BY <1>6, <1>7, <3>1, <3>2, Zenon
  <2>2. at'[s] = at[s] /\ size'[s] = size[s] /\ Len(file') \in Nat
    BY <1>6, <1>8, <1>9, Zenon
  <2> QED
    BY <1>1, <1>12, <2>1, <2>2, WholeKept, Zenon
<1>13. Landed'
  <2> SUFFICES ASSUME ~failure', NEW s \in Recent \ inflight' PROVE Whole(s)'
    BY <1>9, Zenon DEF Landed, Recent
  <2>1. ~failure /\ B = BlocksOf(r)
    BY Zenon
  <2>2. s \in 1 .. count
    BY <1>1, RecentTyped, Zenon
  <2>3. CASE s = r
    <3>1. size[r] > 0
      BY <1>1, <1>2, Zenon DEF Layout
    <3>2. ASSUME NEW i \in 1 .. size[r]
          PROVE  at[r] + i <= Len(g) /\ g[at[r] + i] = <<r, i>>
      <4>1. PICK o \in Nat : o = at[r] + i - 1
        BY <1>3
      <4>2. at[r] <= o /\ o < at[r] + Aligned(size[r]) /\ o - at[r] < size[r]
            /\ o + 1 = at[r] + i /\ o - at[r] + 1 = i
        BY <1>3, <1>4, <4>1
      <4>3. Covers(r, o)
        BY <4>2, Zenon DEF Covers
      <4>4. In(B, o)
        BY <1>1, <1>2, <2>1, <4>3, CoversIn, Zenon
      <4>5. o < Len(g) /\ g[o + 1] = CellOf(r, o)
        BY <1>7, <4>4, Zenon
      <4>6. CellOf(r, o) = <<r, o - at[r] + 1>>
        BY <4>2, Zenon DEF CellOf
      <4> QED
        BY <1>8, <4>2, <4>5, <4>6
    <3>3. at[r] + size[r] <= Len(g)
      <4>1. size[r] \in 1 .. size[r]
        BY <1>3, <3>1
      <4> QED
        BY <3>2, <4>1, Zenon
    <3> QED
      BY <1>6, <1>9, <2>3, <3>1, <3>2, <3>3, Zenon DEF Whole
  <2>4. CASE s # r
    <3>1. Whole(s)
      BY <1>1, <2>1, <2>4, Zenon DEF Landed
    <3>2. \A o \in Nat : at[s] <= o /\ o < at[s] + size[s] => ~Covers(r, o)
      BY <1>1, <1>2, <2>4, RecentApart, Zenon
    <3> QED
      BY <1>12, <2>2, <3>1, <3>2, Zenon
  <2> QED
    BY <2>3, <2>4, Zenon
<1>14. Promised'
  <2> SUFFICES ASSUME NEW s \in acked PROVE at[s] + size[s] <= stable /\ Whole(s)'
    BY <1>9, Zenon DEF Promised
  <2>1. s \in 1 .. count /\ Whole(s) /\ at[s] + size[s] <= stable
    BY <1>1, Zenon DEF Promised, Types
  <2>2. at[s] \in Nat /\ size[s] \in Nat /\ stable <= at[r]
    BY <1>1, <2>1, RecordTyped, Zenon DEF Layout
  <2>3. \A o \in Nat : at[s] <= o /\ o < at[s] + size[s] => ~Covers(r, o)
    BY <1>3, <1>5, <2>1, <2>2 DEF Covers
  <2> QED
    BY <1>12, <2>1, <2>3, Zenon
<1>15. Layout'
  <2>1. Len(g) <= writeOffset /\ (Multiple(Len(g)) <=> Multiple(writeOffset))
        /\ (~Multiple(Len(g)) => stable = Len(g))
    <3>1. Multiple(writeOffset) /\ Multiple(Len(file)) /\ Len(file) <= writeOffset
          /\ at[r] + Aligned(size[r]) <= writeOffset
      BY <1>1, <1>2, Zenon DEF Layout
    <3>2. CASE Len(g) = Len(file)
      BY <3>1, <3>2
    <3>3. ASSUME NEW b \in B, Len(g) = b + BlockCells
          PROVE  Len(g) <= writeOffset /\ Multiple(Len(g))
      <4>1. b \in Nat /\ b + BlockCells <= at[r] + Aligned(size[r]) /\ Multiple(b)
        BY <1>1, <1>2, BlockRange, Zenon
      <4>2. BlockCells \in Nat /\ Multiple(BlockCells)
        BY LogAssumption DEF Multiple
      <4>3. Multiple(b + BlockCells)
        BY <4>1, <4>2, MultiplesAdd, Zenon
      <4> QED
        BY <1>3, <1>4, <1>5, <3>1, <3>3, <4>1, <4>2, <4>3
    <3> QED
      BY <1>7, <3>1, <3>2, <3>3, Zenon
  <2> QED
    BY <1>1, <1>6, <1>9, <2>1, Zenon DEF Layout, Recent
<1> QED
  BY <1>9, <1>10, <1>11, <1>13, <1>14, <1>15, Zenon DEF Inv, Reading

(* Steps that leave the file and the records alone.                        *)
LEMMA SameFile ==
  ASSUME Cells, UNCHANGED <<file, at, size, count>>
  PROVE  Cells' /\ \A r : Whole(r) <=> Whole(r)'
<1>1. file' = file /\ at' = at /\ size' = size /\ count' = count
  BY Zenon
<1>2. Cells'
  BY <1>1, Zenon DEF Cells, CellAt
<1> QED
  BY <1>1, <1>2, Zenon DEF Whole

(* Nothing that the invariant speaks of changes.                           *)
LEMMA StutterStep ==
  ASSUME Inv, UNCHANGED vars
  PROVE  Inv'
<1>1. /\ UNCHANGED <<pc, file, stable, writeOffset, failure, offset, entries>>
      /\ UNCHANGED <<at, size, count, base, inflight, acked, starts>>
  BY Zenon DEF vars, recordVars
<1>2. Cells' /\ \A r : Whole(r) <=> Whole(r)'
  BY <1>1, SameFile, Zenon DEF Inv
<1>3. Types' /\ Landed' /\ Promised' /\ Reading'
  BY <1>1, <1>2, Zenon DEF Inv, Types, Landed, Promised, Reading, Recent
<1>4. pc' # "down" => Layout'
  BY <1>1, Zenon DEF Inv, Layout, Recent
<1>5. pc' # "up" => inflight' = {} /\ stable' = Len(file')
  BY <1>1, Zenon DEF Inv
<1> QED
  BY <1>2, <1>3, <1>4, <1>5, Zenon DEF Inv

(* A write completes.                                                      *)
LEMMA LandStep ==
  ASSUME LeastFact, Inv, NEW r \in Records, Land(r)
  PROVE  Inv'
<1>1. /\ pc = "up" /\ r \in inflight /\ Multiple(at[r])
      /\ file' = Written(file, r, BlocksOf(r)) /\ failure' = failure
      /\ inflight' = inflight \ {r}
      /\ UNCHANGED <<pc, stable, writeOffset, offset, entries, recordVars, acked, starts>>
  BY Zenon DEF Land, Multiple
<1>2. failure' \in BOOLEAN
  BY <1>1, Zenon DEF Inv, Types
<1> QED
  BY <1>1, <1>2, WriteStep, Zenon

(* It fails.                                                               *)
LEMMA LandFailsStep ==
  ASSUME LeastFact, Inv, NEW r \in Records, LandFails(r)
  PROVE  Inv'
<1>1. /\ pc = "up" /\ r \in inflight /\ failure' = TRUE /\ inflight' = inflight \ {r}
      /\ UNCHANGED <<pc, stable, writeOffset, offset, entries, recordVars, acked, starts>>
  BY Zenon DEF LandFails
<1>2. CASE Multiple(at[r])
  <2>1. PICK b \in BlocksOf(r) : file' = Written(file, r, {c \in BlocksOf(r) : c < b})
    BY <1>2, Zenon DEF LandFails, Multiple
  <2>2. {c \in BlocksOf(r) : c < b} \in SUBSET BlocksOf(r)
    BY Zenon
  <2> QED
    BY <1>1, <1>2, <2>1, <2>2, WriteStep, Zenon
<1>3. CASE ~Multiple(at[r])
  <2>1. /\ UNCHANGED <<pc, file, stable, writeOffset, offset, entries>>
        /\ UNCHANGED <<at, size, count, base, acked, starts>>
    BY <1>1, <1>3, Zenon DEF LandFails, Multiple, recordVars
  <2>2. Types /\ Cells /\ Promised /\ Layout
    BY <1>1, Zenon DEF Inv
  <2>3. Cells' /\ \A s : Whole(s) <=> Whole(s)'
    BY <2>1, <2>2, SameFile, Zenon
  <2>4. Types'
    BY <1>1, <2>1, <2>2, Zenon DEF Types, Recent
  <2>5. Promised' /\ Layout'
    BY <1>1, <2>1, <2>2, <2>3, Zenon DEF Promised, Layout, Recent
  <2> QED
    BY <1>1, <2>1, <2>3, <2>4, <2>5, Zenon DEF Inv, Landed, Reading
<1> QED
  BY <1>2, <1>3, Zenon

(* A record is appended behind the others.                                 *)
LEMMA AppendStep ==
  ASSUME Inv, NEW n \in Sizes, writeEntry(n)
  PROVE  Inv'
<1>1. Types /\ Cells /\ Layout /\ Landed /\ Promised
  BY Zenon DEF Inv, writeEntry
<1>2. /\ pc = "up" /\ ~failure /\ count < MaxRecords
      /\ count' = count + 1
      /\ at' = [at EXCEPT ![count + 1] = writeOffset]
      /\ size' = [size EXCEPT ![count + 1] = n]
      /\ writeOffset' = writeOffset + Aligned(n)
      /\ inflight' = inflight \cup {count + 1}
      /\ UNCHANGED <<pc, file, stable, failure, offset, entries, base, acked, starts>>
  BY Zenon DEF writeEntry
<1>3. /\ count \in Nat /\ base \in Nat /\ base <= count /\ MaxRecords \in Nat
      /\ stable \in Nat /\ stable <= Len(file) /\ Len(file) \in Nat /\ writeOffset \in Nat
  BY <1>1, LogAssumption DEF Types
<1>4. n \in Nat /\ n > 0
  BY LogAssumption
<1>5. Aligned(n) \in Nat /\ Multiple(Aligned(n))
  BY <1>4, AlignedLength, Zenon
<1>6. PICK q : q = count + 1
  BY Zenon
<1>7. /\ q \in Nat /\ q \in 1 .. count + 1 /\ q \in base + 1 .. count + 1 /\ q \in Records
      /\ \A s \in 1 .. count : s \in 1 .. count + 1 /\ s \in Nat /\ s < q /\ s # q
      /\ \A s \in 1 .. count + 1 : s = q \/ s \in 1 .. count
      /\ \A s \in base + 1 .. count + 1 : s = q \/ s \in base + 1 .. count
      /\ \A s \in base + 1 .. count : s \in base + 1 .. count + 1
  BY <1>2, <1>3, <1>6 DEF Records
<1>8. at'[q] = writeOffset /\ size'[q] = n
  BY <1>1, <1>2, <1>6, <1>7, Zenon DEF Types
<1>9. ASSUME NEW s \in 1 .. count PROVE at'[s] = at[s] /\ size'[s] = size[s]
  <2>1. s \in Records /\ s # q
    BY <1>1, <1>7, RecordTyped, Zenon
  <2> QED
    BY <1>1, <1>2, <1>6, <2>1, Zenon DEF Types
<1>10. Recent' = base + 1 .. count + 1
  BY <1>2, Zenon DEF Recent
<1>11. Types'
  <2>1. at' \in [Records -> Nat] /\ size' \in [Records -> Sizes \cup {0}]
    BY <1>1, <1>2, <1>3, Zenon DEF Types
  <2>2. count' \in 0 .. MaxRecords /\ base' \in 0 .. count' /\ writeOffset' \in Nat
    BY <1>2, <1>3, <1>5
  <2>3. inflight' \subseteq Recent' /\ acked' \subseteq 1 .. count'
    BY <1>1, <1>2, <1>6, <1>7, <1>10, Zenon DEF Types, Recent
  <2>4. \A i \in DOMAIN entries' : entries'[i] \in 1 .. count'
    BY <1>1, <1>2, <1>7, Zenon DEF Types
  <2> QED
    BY <1>1, <1>2, <2>1, <2>2, <2>3, <2>4, Zenon DEF Types
<1>12. Cells'
  <2>1. ASSUME NEW o, NEW c, CellAt(o, c) PROVE CellAt(o, c)'
    <3>1. CASE c = Zero
      BY <3>1, Zenon DEF CellAt
    <3>2. CASE c # Zero
      <4>1. PICK s \in 1 .. count : /\ Multiple(at[s]) /\ at[s] <= o /\ o < at[s] + size[s]
                                    /\ c = <<s, o - at[s] + 1>>
        BY <2>1, <3>2, Zenon DEF CellAt
      <4>2. s \in 1 .. count' /\ at'[s] = at[s] /\ size'[s] = size[s]
        BY <1>2, <1>7, <1>9, Zenon
      <4> QED
        BY <4>1, <4>2, Zenon DEF CellAt, Multiple
    <3> QED
      BY <3>1, <3>2, Zenon
  <2> QED
    BY <1>1, <1>2, <2>1, Zenon DEF Cells
<1>13. ASSUME NEW s \in 1 .. count, Whole(s) PROVE Whole(s)'
  BY <1>2, <1>9, <1>13, Zenon DEF Whole
<1>14. Landed'
  <2> SUFFICES ASSUME NEW s \in Recent' \ inflight' PROVE Whole(s)'
    BY Zenon DEF Landed
  <2>1. s \in Recent /\ s \notin inflight
    BY <1>2, <1>6, <1>7, <1>10, Zenon DEF Recent
  <2>2. s \in 1 .. count
    BY <1>1, <2>1, RecentTyped, Zenon
  <2> QED
    BY <1>1, <1>2, <1>13, <2>1, <2>2, Zenon DEF Landed
<1>15. Promised'
  <2> SUFFICES ASSUME NEW s \in acked PROVE at'[s] + size'[s] <= stable /\ Whole(s)'
    BY <1>2, Zenon DEF Promised
  <2>1. s \in 1 .. count
    BY <1>1, Zenon DEF Types
  <2> QED
    BY <1>1, <1>9, <1>13, <2>1, Zenon DEF Promised
<1>16. Layout'
  <2>1. Multiple(writeOffset') <=> Multiple(writeOffset)
    BY <1>2, <1>3, <1>5, MultiplesAdd, Zenon
  <2>2. writeOffset <= writeOffset' /\ writeOffset' \in Nat
    BY <1>2, <1>3, <1>5
  <2>3. ASSUME NEW s \in Recent
        PROVE  /\ at'[s] = at[s] /\ size'[s] = size[s] /\ s < q
               /\ size[s] > 0 /\ at[s] + Aligned(size[s]) <= writeOffset
               /\ at[s] + Aligned(size[s]) <= writeOffset'
               /\ Multiple(at[s]) <=> Multiple(writeOffset)
    <3>1. s \in 1 .. count
      BY <1>1, RecentTyped, Zenon
    <3>2. /\ size[s] > 0 /\ at[s] + Aligned(size[s]) <= writeOffset
          /\ Multiple(at[s]) <=> Multiple(writeOffset)
      BY <1>1, Zenon DEF Layout
    <3>3. at[s] \in Nat /\ size[s] \in Nat
      BY <1>1, <3>1, RecordTyped, Zenon
    <3>4. Aligned(size[s]) \in Nat
      BY <3>3, AlignedLength, Zenon
    <3>5. at[s] + Aligned(size[s]) <= writeOffset'
      BY <1>3, <2>2, <3>2, <3>3, <3>4
    <3> QED
      BY <1>7, <1>9, <3>1, <3>2, <3>5, Zenon
  <2>4. ASSUME NEW s \in Recent'
        PROVE  /\ size'[s] > 0 /\ at'[s] + Aligned(size'[s]) <= writeOffset'
               /\ Multiple(at'[s]) <=> Multiple(writeOffset')
    <3>1. CASE s = q
      <4>1. writeOffset + Aligned(n) <= writeOffset'
        BY <1>2, <1>3, <1>5
      <4> QED
        BY <1>4, <1>8, <2>1, <3>1, <4>1, Zenon
    <3>2. CASE s \in Recent
      BY <2>1, <2>3, <3>2, Zenon
    <3> QED
      BY <1>7, <1>10, <3>1, <3>2, Zenon DEF Recent
  <2>5. ASSUME NEW r \in Recent', NEW s \in Recent', r < s
        PROVE  at'[r] + Aligned(size'[r]) <= at'[s]
    <3>1. CASE r \in Recent /\ s \in Recent
      BY <1>1, <2>3, <2>5, <3>1, Zenon DEF Layout
    <3>2. CASE r \in Recent /\ s = q
      BY <1>8, <2>3, <3>2, Zenon
    <3>3. r # q
      <4>1. s \in Nat /\ s <= q
        BY <1>3, <1>6, <1>10
      <4> QED
        BY <1>7, <2>5, <4>1
    <3> QED
      BY <1>7, <1>10, <3>1, <3>2, <3>3, Zenon DEF Recent
  <2>6. ASSUME NEW r \in inflight' PROVE stable <= at'[r]
    <3>1. CASE r = q
      <4>1. stable <= writeOffset
        BY <1>1, <1>3 DEF Layout
      <4> QED
        BY <1>8, <3>1, <4>1, Zenon
    <3>2. CASE r \in inflight
      <4>1. r \in Recent
        BY <1>1, <3>2, Zenon DEF Types
      <4> QED
        BY <1>1, <2>3, <3>2, <4>1, Zenon DEF Layout
    <3> QED
      BY <1>2, <1>6, <3>1, <3>2, Zenon
  <2>7. Len(file) <= writeOffset'
    BY <1>1, <1>3, <2>2 DEF Layout
  <2> QED
    BY <1>1, <1>2, <2>1, <2>4, <2>5, <2>6, <2>7, Zenon DEF Layout, Multiple
<1> QED
  BY <1>2, <1>11, <1>12, <1>14, <1>15, <1>16, Zenon DEF Inv, Reading

(* What has completed is promised.                                         *)
LEMMA SyncStep ==
  ASSUME Inv, Sync
  PROVE  Inv'
<1>1. Types /\ Cells /\ Layout /\ Landed /\ Promised
  BY Zenon DEF Inv, Sync
<1>2. /\ pc = "up" /\ inflight = {} /\ ~failure
      /\ stable' = Len(file) /\ acked' = acked \cup Recent
      /\ UNCHANGED <<pc, file, writeOffset, failure, offset, entries>>
      /\ UNCHANGED <<at, size, count, base, inflight, starts>>
  BY Zenon DEF Sync, Recent, recordVars
<1>3. Cells' /\ \A r : Whole(r) <=> Whole(r)'
  BY <1>1, <1>2, SameFile, Zenon
<1>4. stable \in Nat /\ stable <= Len(file) /\ Len(file) \in Nat /\ Len(file) \in 0 .. Len(file)
  BY <1>1 DEF Types
<1>5. Types'
  <2>1. acked' \subseteq 1 .. count
    BY <1>1, <1>2, RecentTyped, Zenon DEF Types
  <2> QED
    BY <1>1, <1>2, <1>4, <2>1, Zenon DEF Types, Recent
<1>6. Promised'
  <2> SUFFICES ASSUME NEW r \in acked \cup Recent
               PROVE  at[r] + size[r] <= Len(file) /\ Whole(r)
    BY <1>2, <1>3, Zenon DEF Promised
  <2>1. CASE r \in acked
    BY <1>1, <2>1, Zenon DEF Promised, Whole
  <2>2. CASE r \in Recent
    BY <1>1, <1>2, <2>2, Zenon DEF Landed, Whole
  <2> QED
    BY <2>1, <2>2, Zenon
<1>7. Layout'
  BY <1>1, <1>2, Zenon DEF Layout, Recent
<1>8. Landed'
  BY <1>1, <1>2, <1>3, Zenon DEF Landed, Recent
<1> QED
  BY <1>2, <1>3, <1>5, <1>6, <1>7, <1>8, Zenon DEF Inv, Reading

(* The log is replaced by an empty one.                                    *)
LEMMA ClearStep ==
  ASSUME Inv, Clear
  PROVE  Inv'
<1>1. Types
  BY Zenon DEF Inv
<1>2. /\ pc = "up" /\ inflight = {}
      /\ file' = <<>> /\ stable' = 0 /\ writeOffset' = 0 /\ failure' = FALSE
      /\ acked' = {} /\ base' = count
      /\ at' = [r \in Records |-> 0] /\ size' = [r \in Records |-> 0]
      /\ UNCHANGED <<pc, offset, entries, count, inflight, starts>>
  BY Zenon DEF Clear
<1>3. count \in Nat /\ count \in 0 .. count
  BY <1>1, LogAssumption DEF Types
<1>4. Recent' = {}
  BY <1>2, <1>3 DEF Recent
<1>5. file' \in Seq(Nat \X Nat) /\ Len(file') = 0 /\ 0 \in 0 .. 0 /\ 0 <= 0 /\ 0 .. -1 = {}
  BY <1>2
<1>6. at' \in [Records -> Nat] /\ size' \in [Records -> Sizes \cup {0}] /\ 0 \in Nat
  <2>1. 0 \in Nat
    OBVIOUS
  <2> QED
    BY <1>2, <2>1, Zenon
<1>7. Types'
  BY <1>1, <1>2, <1>3, <1>4, <1>5, <1>6, Zenon DEF Types
<1>8. Cells'
  BY <1>5 DEF Cells
<1>9. Layout'
  BY <1>2, <1>4, <1>5, Zenon DEF Layout
<1> QED
  BY <1>2, <1>4, <1>7, <1>8, <1>9, Zenon DEF Inv, Landed, Promised, Reading

(* The log is closed.                                                      *)
LEMMA CloseStep ==
  ASSUME Inv, Close
  PROVE  Inv'
<1>1. Types /\ Cells /\ Promised
  BY Zenon DEF Inv
<1>2. /\ pc' = "down" /\ inflight = {} /\ stable' = Len(file) /\ failure' = FALSE
      /\ UNCHANGED <<file, writeOffset, offset, entries>>
      /\ UNCHANGED <<at, size, count, base, inflight, acked, starts>>
  BY Zenon DEF Close, recordVars
<1>3. Cells' /\ \A r : Whole(r) <=> Whole(r)'
  BY <1>1, <1>2, SameFile, Zenon
<1>4. Len(file) \in 0 .. Len(file)
  BY <1>1 DEF Types
<1>5. Types'
  BY <1>1, <1>2, <1>4, Zenon DEF Types, Recent
<1>6. Promised'
  BY <1>1, <1>2, <1>3, Zenon DEF Promised, Whole
<1> QED
  BY <1>2, <1>3, <1>5, <1>6, Zenon DEF Inv, Landed, Reading

(* The first n elements of a sequence.                                    *)
LEMMA Prefix ==
  ASSUME NEW S, NEW f \in Seq(S), NEW n \in 0 .. Len(f)
  PROVE  /\ SubSeq(f, 1, n) \in Seq(S) /\ Len(SubSeq(f, 1, n)) = n
         /\ \A o \in 0 .. n - 1 : SubSeq(f, 1, n)[o + 1] = f[o + 1]
<1>1. Len(f) \in Nat /\ n \in Nat /\ n <= Len(f)
  OBVIOUS
<1>2. \A i \in 1 .. n : i \in 1 .. Len(f) /\ f[i] \in S
  BY <1>1
<1>3. Len(SubSeq(f, 1, n)) = n /\ \A i \in 1 .. n : SubSeq(f, 1, n)[i] = f[i]
  BY <1>1
<1>4. SubSeq(f, 1, n) \in Seq(S)
  BY <1>1, <1>2
<1>5. \A o \in 0 .. n - 1 : o + 1 \in 1 .. n
  BY <1>1
<1> QED
  BY <1>3, <1>4, <1>5, Zenon

(* The log is cut at n cells.                                              *)
LEMMA TruncateStep ==
  ASSUME Inv, NEW n \in 0 .. Len(file), Truncate(n)
  PROVE  Inv'
<1>1. Types /\ Cells /\ Promised /\ inflight = {}
  BY Zenon DEF Inv, Truncate
<1>2. /\ pc = "down" /\ n < Len(file)
      /\ file' = SubSeq(file, 1, n) /\ stable' = n
      /\ acked' = {r \in acked : at[r] + size[r] <= n}
      /\ UNCHANGED <<pc, writeOffset, failure, offset, entries>>
      /\ UNCHANGED <<at, size, count, base, inflight, starts>>
  BY Zenon DEF Truncate, recordVars
<1>3. /\ Len(file) \in Nat /\ n \in Nat /\ file' \in Seq(Nat \X Nat) /\ Len(file') = n
      /\ \A o \in 0 .. n - 1 : o \in 0 .. Len(file) - 1 /\ file'[o + 1] = file[o + 1]
  <2>1. PICK f \in Seq(Nat \X Nat) : f = file
    BY <1>1, Zenon DEF Types
  <2>2. Len(f) \in Nat /\ n \in 0 .. Len(f)
    BY <2>1
  <2>3. n \in Nat /\ \A o \in 0 .. n - 1 : o \in 0 .. Len(f) - 1
    BY <2>2
  <2> QED
    BY <1>2, <2>1, <2>2, <2>3, Prefix, Zenon
<1>4. Cells'
  BY <1>1, <1>2, <1>3, Zenon DEF Cells, CellAt
<1>5. Promised'
  <2> SUFFICES ASSUME NEW r \in acked, at[r] + size[r] <= n PROVE Whole(r)'
    BY <1>2, Zenon DEF Promised
  <2>1. r \in 1 .. count /\ Whole(r)
    BY <1>1, Zenon DEF Types, Promised
  <2>2. at[r] \in Nat /\ size[r] \in Nat
    BY <1>1, <2>1, RecordTyped, Zenon
  <2>3. ASSUME NEW o \in 0 .. Len(file) - 1, at[r] <= o, o < at[r] + size[r]
        PROVE  o < Len(file') /\ file'[o + 1] = file[o + 1]
    <3>1. o \in 0 .. n - 1 /\ o < n
      BY <1>3, <2>2, <2>3
    <3> QED
      BY <1>3, <3>1, Zenon
  <2>4. at'[r] = at[r] /\ size'[r] = size[r] /\ Len(file') \in Nat
    BY <1>2, <1>3, Zenon
  <2> QED
    BY <1>1, <2>1, <2>3, <2>4, WholeKept, Zenon
<1>6. Types'
  <2>1. n \in 0 .. Len(file')
    BY <1>3
  <2> QED
    BY <1>1, <1>2, <1>3, <2>1, Zenon DEF Types, Recent
<1> QED
  BY <1>1, <1>2, <1>3, <1>4, <1>5, <1>6, Zenon DEF Inv, Landed, Reading

(* The log is opened.                                                      *)
LEMMA OpenStep ==
  ASSUME Inv, Open
  PROVE  Inv'
<1>1. Types /\ Cells /\ Promised /\ inflight = {} /\ stable = Len(file)
  BY Zenon DEF Inv, Open
<1>2. /\ pc' = "recover" /\ writeOffset' = Len(file) /\ base' = count
      /\ offset' = 0 /\ entries' = <<>> /\ starts < MaxStarts /\ starts' = starts + 1
      /\ UNCHANGED <<file, stable, failure, at, size, count, inflight, acked>>
  BY Zenon DEF Open, Resume
<1>3. Cells' /\ \A r : Whole(r) <=> Whole(r)'
  BY <1>1, <1>2, SameFile, Zenon
<1>4. /\ count \in Nat /\ count \in 0 .. count /\ starts' \in 0 .. MaxStarts
      /\ Len(file) \in Nat /\ Len(file) <= Len(file) /\ 0 \in Nat
  BY <1>1, <1>2, LogAssumption DEF Types
<1>5. Recent' = {}
  BY <1>2, <1>4 DEF Recent
<1>6. entries' \in Seq(Nat) /\ DOMAIN entries' = {}
  BY <1>2
<1>7. Types'
  BY <1>1, <1>2, <1>4, <1>5, <1>6, Zenon DEF Types
<1>8. Promised'
  BY <1>1, <1>2, <1>3, Zenon DEF Promised
<1>9. Layout'
  BY <1>1, <1>2, <1>4, <1>5, Zenon DEF Layout
<1>10. Reading'
  <2>1. Multiple(0)
    BY LogAssumption DEF Multiple
  <2>2. \A r \in 1 .. count : ~(at[r] < 0)
    <3>1. ASSUME NEW r \in 1 .. count PROVE ~(at[r] < 0)
      <4>1. at[r] \in Nat
        BY <1>1, RecordTyped, Zenon
      <4> QED
        BY <4>1
    <3> QED
      BY <3>1, Zenon
  <2> QED
    BY <1>2, <1>6, <2>1, <2>2 DEF Reading
<1> QED
  BY <1>1, <1>2, <1>3, <1>7, <1>8, <1>9, <1>10, Zenon DEF Inv, Landed

(* A whole record begins at a block.                                       *)
LEMMA WholeBegins ==
  ASSUME Types, Cells, NEW r \in 1 .. count, Whole(r)
  PROVE  /\ Multiple(at[r]) /\ at[r] \in Nat /\ at[r] < Len(file)
         /\ file[at[r] + 1] = <<r, 1>>
<1>1. at[r] \in Nat /\ size[r] \in Nat /\ r \in Nat /\ r # 0 /\ Len(file) \in Nat
  BY RecordTyped, SMTT(30) DEF Types
<1>2. size[r] > 0 /\ at[r] + size[r] <= Len(file)
  BY Zenon DEF Whole
<1>3. 1 \in 1 .. size[r] /\ at[r] \in 0 .. Len(file) - 1 /\ at[r] < Len(file)
  BY <1>1, <1>2
<1>4. file[at[r] + 1] = <<r, 1>>
  BY <1>3, Zenon DEF Whole
<1>5. file[at[r] + 1] # Zero
  BY <1>1, <1>4 DEF Zero
<1>6. PICK s \in 1 .. count : Multiple(at[s]) /\ file[at[r] + 1] = <<s, at[r] - at[s] + 1>>
  BY <1>3, <1>5, Zenon DEF Cells, CellAt
<1>7. s = r
  BY <1>4, <1>6
<1> QED
  BY <1>1, <1>3, <1>4, <1>6, <1>7, Zenon

(* A record that begins where recovery is, is valid there.                 *)
LEMMA WholeIsValid ==
  ASSUME Types, Cells, NEW r \in 1 .. count, Whole(r), NEW o, o = at[r]
  PROVE  Valid(o) /\ file[o + 1] = <<r, 1>> /\ file[o + 1] # Zero
<1>1. r \in Nat /\ r # 0
  BY RecordTyped
<1>2. file[o + 1] = <<r, 1>>
  BY WholeBegins, Zenon
<1>3. file[o + 1][1] = r /\ file[o + 1] # Zero
  BY <1>1, <1>2 DEF Zero
<1>4. o + size[r] <= Len(file) /\ \A i \in 1 .. size[r] : file[o + i] = <<r, i>>
  BY Zenon DEF Whole
<1> QED
  BY <1>2, <1>3, <1>4, Zenon DEF Valid

(* What is valid is a whole record.                                        *)
LEMMA ValidIsWhole ==
  ASSUME Types, Cells, NEW o \in 0 .. Len(file) - 1, file[o + 1] # Zero, Valid(o)
  PROVE  LET r == file[o + 1][1] IN r \in 1 .. count /\ Whole(r) /\ at[r] = o
<1>1. PICK r \in 1 .. count : /\ at[r] <= o /\ o < at[r] + size[r]
                              /\ file[o + 1] = <<r, o - at[r] + 1>>
  BY Zenon DEF Cells, CellAt
<1>2. file[o + 1][1] = r
  BY <1>1
<1>3. /\ file[o + 1] = <<r, 1>> /\ o + size[r] <= Len(file)
      /\ \A i \in 1 .. size[r] : file[o + i] = <<r, i>>
  BY <1>2, Zenon DEF Valid
<1>4. at[r] \in Nat /\ size[r] \in Nat /\ o \in Nat
  <2>1. at[r] \in Nat /\ size[r] \in Nat
    BY RecordTyped, Zenon
  <2>2. o \in Nat
    OBVIOUS
  <2> QED
    BY <2>1, <2>2, Zenon
<1>5. o - at[r] + 1 = 1
  BY <1>1, <1>3
<1>6. at[r] = o /\ size[r] > 0
  BY <1>1, <1>4, <1>5
<1> QED
  BY <1>2, <1>3, <1>6, Zenon DEF Whole

(* Steps of recovery change its place and result only.                     *)
LEMMA RecoveryFrame ==
  ASSUME Inv, pc \in {"recover", "recovered"}, pc' \in {"recover", "recovered", "up"},
         UNCHANGED <<file, stable, writeOffset, failure, recordVars, inflight, acked, starts>>,
         offset' \in Nat, entries' \in Seq(Nat),
         \A i \in DOMAIN entries' : entries'[i] \in 1 .. count, Reading'
  PROVE  Inv'
<1>1. Types /\ Cells /\ Promised /\ Layout /\ base = count /\ inflight = {} /\ stable = Len(file)
  <2>1. pc # "down" /\ pc # "up"
    OBVIOUS
  <2> QED
    BY <2>1, Zenon DEF Inv, Reading
<1>2. /\ UNCHANGED <<file, stable, writeOffset, failure, at, size>>
      /\ UNCHANGED <<count, base, inflight, acked, starts>>
  BY Zenon DEF recordVars
<1>3. Cells' /\ \A r : Whole(r) <=> Whole(r)'
  BY <1>1, <1>2, SameFile, Zenon
<1>4. Types'
  <2>1. pc' \in {"down", "recover", "recovered", "up"}
    OBVIOUS
  <2> QED
    BY <1>1, <1>2, <2>1, Zenon DEF Types, Recent
<1>5. Promised' /\ Layout'
  BY <1>1, <1>2, <1>3, Zenon DEF Promised, Layout, Recent
<1>6. Landed'
  <2>1. Recent' = {}
    BY <1>1, <1>2 DEF Types, Recent
  <2> QED
    BY <2>1, Zenon DEF Landed
<1> QED
  BY <1>1, <1>2, <1>3, <1>4, <1>5, <1>6, Zenon DEF Inv

(* Padding and damage: no whole record begins in the block.                *)
LEMMA SkipStep ==
  ASSUME Inv, Padding \/ Damage
  PROVE  Inv'
<1>1. Types /\ Cells /\ Reading
  BY Zenon DEF Inv
<1>2. /\ pc = "recover" /\ offset < Len(file) /\ offset' = NextBoundary(offset)
      /\ file[offset + 1] = Zero \/ ~Valid(offset)
      /\ UNCHANGED <<pc, file, stable, writeOffset, failure, entries, recordVars>>
      /\ UNCHANGED <<inflight, acked, starts>>
  BY Zenon DEF Padding, Damage, Resynchronise
<1>3. /\ UNCHANGED <<file, at, size, count, base>>
  BY <1>2, Zenon DEF recordVars
<1>4. offset \in Nat /\ Multiple(offset) /\ BlockCells \in Nat
  BY <1>1, <1>2, LogAssumption, Zenon DEF Types, Reading
<1>5. offset' = offset + BlockCells /\ offset' \in Nat /\ Multiple(offset')
  BY <1>2, <1>4, BoundaryAfter, Zenon
<1>6. ASSUME NEW r \in 1 .. count, Whole(r)
      PROVE  at[r] < offset <=> at[r] < offset'
  <2>1. at[r] \in Nat /\ Multiple(at[r])
    BY <1>1, <1>6, WholeBegins, Zenon
  <2>2. at[r] # offset
    BY <1>1, <1>2, <1>6, WholeIsValid, Zenon
  <2>3. offset < at[r] => offset + BlockCells <= at[r]
    BY <1>4, <2>1, MultiplesApart, Zenon
  <2> QED
    BY <1>4, <1>5, <2>1, <2>2, <2>3
<1>7. \A r : Whole(r) <=> Whole(r)'
  BY <1>1, <1>3, SameFile, Zenon
<1>8. Reading'
  BY <1>1, <1>2, <1>3, <1>5, <1>6, <1>7, Zenon DEF Reading, Multiple
<1> QED
  BY <1>1, <1>2, <1>5, <1>8, RecoveryFrame, Zenon DEF Types

(* A whole record: it is returned, and no other begins before its end.     *)
LEMMA AcceptStep ==
  ASSUME Inv, Accept
  PROVE  Inv'
<1>1. Types /\ Cells /\ Reading
  BY Zenon DEF Inv
<1>2. /\ pc = "recover" /\ offset < Len(file) /\ file[offset + 1] # Zero /\ Valid(offset)
      /\ entries' = Append(entries, file[offset + 1][1])
      /\ offset' = offset + Aligned(size[file[offset + 1][1]])
      /\ UNCHANGED <<pc, file, stable, writeOffset, failure, recordVars>>
      /\ UNCHANGED <<inflight, acked, starts>>
  BY Zenon DEF Accept
<1>3. UNCHANGED <<file, at, size, count, base>>
  BY <1>2, Zenon DEF recordVars
<1>4. offset \in Nat /\ Multiple(offset) /\ BlockCells \in Nat /\ Len(file) \in Nat
      /\ entries \in Seq(Nat)
  BY <1>1, <1>2, LogAssumption DEF Types, Reading
<1>5. PICK r \in 1 .. count : r = file[offset + 1][1] /\ Whole(r) /\ at[r] = offset
  <2>1. offset \in 0 .. Len(file) - 1
    BY <1>2, <1>4
  <2> QED
    BY <1>1, <1>2, <2>1, ValidIsWhole, Zenon
<1>6. entries' = Append(entries, r) /\ offset' = offset + Aligned(size[r])
  BY <1>2, <1>5, Zenon
<1>7. r \in Nat /\ size[r] \in Nat /\ size[r] > 0
  BY <1>1, <1>5, RecordTyped, Zenon DEF Whole
<1>8. /\ Aligned(size[r]) \in Nat /\ Multiple(Aligned(size[r]))
      /\ Aligned(size[r]) < size[r] + BlockCells
      /\ size[r] <= Aligned(size[r])
  BY <1>7, AlignedLength, Zenon
<1>9. offset' \in Nat /\ Multiple(offset') /\ offset < offset'
  <2>1. offset + Aligned(size[r]) \in Nat /\ offset < offset + Aligned(size[r])
    BY <1>4, <1>7, <1>8
  <2>2. Multiple(offset + Aligned(size[r]))
    BY <1>4, <1>8, MultiplesAdd, Zenon
  <2> QED
    BY <1>6, <2>1, <2>2
<1>10. ASSUME NEW q \in 1 .. count, Whole(q), at[q] < offset', ~(at[q] < offset)
       PROVE  q = r
  <2>1. at[q] \in Nat /\ Multiple(at[q]) /\ file[at[q] + 1] = <<q, 1>>
    BY <1>1, <1>10, WholeBegins, Zenon
  <2>2. at[q] + BlockCells <= offset'
    BY <1>9, <1>10, <2>1, MultiplesApart, Zenon
  <2>3. PICK i \in 1 .. size[r] : at[q] + 1 = offset + i
    <3>1. at[q] + BlockCells <= offset + Aligned(size[r]) /\ ~(at[q] < offset)
      BY <1>6, <1>10, <2>2
    <3>2. at[q] < offset + size[r] /\ offset <= at[q]
      <4>1. PICK x \in Nat, y \in Nat, z \in Nat, w \in Nat, c \in Nat :
              /\ x = at[q] /\ y = offset /\ z = size[r]
              /\ w = Aligned(size[r]) /\ c = BlockCells
        BY <1>4, <1>7, <1>8, <2>1, Zenon
      <4>2. x + c <= y + w /\ ~(x < y) /\ w < z + c
        BY <1>8, <3>1, <4>1, Zenon
      <4>3. x < y + z /\ y <= x
        BY <4>2
      <4> QED
        BY <4>1, <4>3, Zenon
    <3>3. at[q] - offset + 1 \in 1 .. size[r] /\ at[q] + 1 = offset + (at[q] - offset + 1)
      <4>1. PICK x \in Nat, y \in Nat, z \in Nat : x = at[q] /\ y = offset /\ z = size[r]
        BY <1>4, <1>7, <2>1, Zenon
      <4>2. x < y + z /\ y <= x
        BY <3>2, <4>1, Zenon
      <4>3. x - y + 1 \in 1 .. z /\ x + 1 = y + (x - y + 1)
        BY <4>2
      <4> QED
        BY <4>1, <4>3, Zenon
    <3> QED
      BY <3>3, Zenon
  <2>4. file[offset + i] = <<r, i>>
    BY <1>5, Zenon DEF Whole
  <2> QED
    BY <2>1, <2>3, <2>4
<1>11. /\ DOMAIN entries = 1 .. Len(entries) /\ Len(entries) \in Nat
       /\ DOMAIN entries' = 1 .. Len(entries) + 1
       /\ entries' \in Seq(Nat) /\ entries'[Len(entries) + 1] = r
       /\ \A i \in 1 .. Len(entries) : entries'[i] = entries[i]
  BY <1>4, <1>6, <1>7
<1>12. \A i \in 1 .. Len(entries) + 1 : i = Len(entries) + 1 \/ i \in 1 .. Len(entries)
  BY <1>11
<1>13. /\ \A i \in 1 .. Len(entries) : i \in 1 .. Len(entries) + 1
       /\ Len(entries) + 1 \in 1 .. Len(entries) + 1
  BY <1>11
<1>14. \A i \in DOMAIN entries' : entries'[i] \in 1 .. count
  BY <1>1, <1>11, <1>12, Zenon DEF Types
<1>15. \A q : Whole(q) <=> Whole(q)'
  BY <1>1, <1>3, SameFile, Zenon
<1>16. ASSUME NEW q \in 1 .. count
       PROVE  (\E i \in DOMAIN entries' : entries'[i] = q) <=> Whole(q) /\ at[q] < offset'
  <2>1. (\E i \in DOMAIN entries : entries[i] = q) <=> Whole(q) /\ at[q] < offset
    BY <1>1, <1>2, Zenon DEF Reading
  <2>2. (\E i \in DOMAIN entries' : entries'[i] = q)
          <=> q = r \/ \E i \in DOMAIN entries : entries[i] = q
    BY <1>11, <1>12, <1>13, Zenon
  <2>3. at[q] < offset => at[q] < offset'
    <3>1. at[q] \in Nat
      BY <1>1, RecordTyped, Zenon
    <3> QED
      BY <1>4, <1>9, <3>1
  <2>4. q = r => Whole(q) /\ at[q] < offset'
    BY <1>5, <1>9, Zenon
  <2> QED
    BY <1>10, <2>1, <2>2, <2>3, <2>4, Zenon
<1>17. ASSUME NEW i \in DOMAIN entries', NEW j \in DOMAIN entries', i < j
       PROVE  at[entries'[i]] < at[entries'[j]]
  <2>1. i \in 1 .. Len(entries)
    BY <1>11, <1>17
  <2>2. entries[i] \in 1 .. count /\ entries'[i] = entries[i]
    BY <1>1, <1>11, <2>1, Zenon DEF Types
  <2>3. CASE j = Len(entries) + 1
    <3>1. at[entries[i]] < offset
      BY <1>1, <1>2, <1>11, <2>1, <2>2, Zenon DEF Reading
    <3> QED
      BY <1>5, <1>11, <2>2, <2>3, <3>1, Zenon
  <2>4. CASE j \in 1 .. Len(entries)
    BY <1>1, <1>2, <1>11, <1>17, <2>1, <2>4, Zenon DEF Reading
  <2> QED
    BY <1>11, <1>12, <2>3, <2>4, Zenon
<1>18. Reading'
  BY <1>1, <1>2, <1>3, <1>9, <1>15, <1>16, <1>17, Zenon DEF Reading, Multiple
<1> QED
  BY <1>1, <1>2, <1>9, <1>11, <1>14, <1>18, RecoveryFrame, Zenon

(* The end of the file is reached.                                         *)
LEMMA RecoverEndsStep ==
  ASSUME Inv, RecoverEnds
  PROVE  Inv'
<1>1. Types /\ Cells /\ Reading
  BY Zenon DEF Inv
<1>2. /\ pc = "recover" /\ pc' = "recovered" /\ offset >= Len(file)
      /\ UNCHANGED <<file, stable, writeOffset, failure, recordVars, inflight, acked, starts>>
      /\ UNCHANGED <<offset, entries>>
  BY Zenon DEF RecoverEnds
<1>3. UNCHANGED <<file, at, size, count, base>>
  BY <1>2, Zenon DEF recordVars
<1>4. \A q : Whole(q) <=> Whole(q)'
  BY <1>1, <1>3, SameFile, Zenon
<1>5. Reading'
  BY <1>1, <1>2, <1>3, <1>4, Zenon DEF Reading, Multiple
<1> QED
  BY <1>1, <1>2, <1>5, RecoveryFrame, Zenon DEF Types

(* The engine takes calls.                                                 *)
LEMMA ServeStep ==
  ASSUME Inv, Serve
  PROVE  Inv'
<1>1. /\ pc = "recovered" /\ pc' = "up" /\ entries' = <<>> /\ offset' = 0
      /\ UNCHANGED <<file, stable, writeOffset, failure, recordVars, inflight, acked, starts>>
  BY Zenon DEF Serve
<1>2. offset' \in Nat /\ entries' \in Seq(Nat) /\ DOMAIN entries' = {}
  BY <1>1
<1>3. Reading'
  BY <1>1, Zenon DEF Reading
<1> QED
  BY <1>1, <1>2, <1>3, RecoveryFrame, Zenon

(* A crash: what was stable stays, each other block is kept or lost.       *)
Fresh == UNION {BlocksOf(r) : r \in {q \in inflight : at[q] % BlockCells = 0}}
Loose == {b \in stable .. Len(file) - 1 : b % BlockCells = 0}
Covering(o) == CHOOSE r \in inflight : Covers(r, o)

(* What is at offset o once the unstable blocks are those in kept.         *)
Left(kept, o) ==
  IF o < stable THEN file[o + 1]
  ELSE IF ~In(kept, o) THEN Zero
  ELSE IF \E r \in inflight : Covers(r, o) THEN CellOf(Covering(o), o)
  ELSE file[o + 1]

(* Blocks that a crash can keep lie behind what is stable and before the   *)
(* end of the log, which is then a whole number of blocks.                 *)
LEMMA KeptRange ==
  ASSUME Types, Layout, NEW b \in Fresh \cup Loose
  PROVE  /\ b \in 0 .. writeOffset /\ Multiple(writeOffset)
         /\ b \in Loose => b + BlockCells <= Len(file)
<1>1. Len(file) \in Nat /\ stable \in Nat /\ writeOffset \in Nat /\ BlockCells \in Nat
  BY LogAssumption DEF Types
<1>2. CASE b \in Fresh /\ b \notin Loose
  <2>1. PICK r \in inflight : Multiple(at[r]) /\ b \in BlocksOf(r)
    BY <1>2, Zenon DEF Fresh, Multiple
  <2>2. r \in Recent /\ r \in 1 .. count
    BY RecentTyped, Zenon DEF Types
  <2>3. b \in Nat /\ b + BlockCells <= at[r] + Aligned(size[r])
    BY <2>1, <2>2, BlockRange, Zenon
  <2>4. at[r] + Aligned(size[r]) <= writeOffset /\ Multiple(writeOffset)
    BY <2>1, <2>2, Zenon DEF Layout
  <2>5. at[r] \in Nat /\ size[r] \in Nat
    BY <2>2, RecordTyped, Zenon
  <2>6. Aligned(size[r]) \in Nat
    BY <2>5, AlignedLength, Zenon
  <2>7. b \in 0 .. writeOffset
    BY <1>1, <2>3, <2>4, <2>5, <2>6
  <2> QED
    BY <1>2, <2>4, <2>7, Zenon
<1>3. CASE b \in Loose
  <2>1. b \in stable .. Len(file) - 1 /\ Multiple(b)
    BY <1>3, Zenon DEF Loose, Multiple
  <2>2. b \in Nat /\ b < Len(file) /\ stable # Len(file)
    BY <1>1, <2>1
  <2>3. Multiple(Len(file)) /\ Multiple(writeOffset) /\ Len(file) <= writeOffset
    BY <2>2, Zenon DEF Layout
  <2>4. b + BlockCells <= Len(file)
    BY <1>1, <2>1, <2>2, <2>3, MultiplesApart, Zenon
  <2>5. b \in 0 .. writeOffset
    BY <1>1, <2>2, <2>3
  <2> QED
    BY <2>3, <2>4, <2>5, Zenon
<1> QED
  BY <1>2, <1>3, Zenon

(* The cells that a crash leaves.                                          *)
LEMMA LeftTyped ==
  ASSUME Types, Cells, Layout, NEW kept \in SUBSET (Fresh \cup Loose), NEW o \in Nat
  PROVE  CellAt(o, Left(kept, o)) /\ Left(kept, o) \in Nat \X Nat
<1>1. Len(file) \in Nat /\ stable \in Nat /\ stable <= Len(file) /\ file \in Seq(Nat \X Nat)
      /\ BlockCells \in Nat
  BY LogAssumption DEF Types
<1>2. ASSUME o < Len(file) PROVE CellAt(o, file[o + 1]) /\ file[o + 1] \in Nat \X Nat
  <2>1. o \in 0 .. Len(file) - 1 /\ o + 1 \in 1 .. Len(file)
    BY <1>1, <1>2
  <2>2. file[o + 1] \in Nat \X Nat
    BY <1>1, <2>1
  <2> QED
    BY <2>1, <2>2, Zenon DEF Cells
<1>3. CASE o < stable
  <2>1. o < Len(file)
    BY <1>1, <1>3
  <2> QED
    BY <1>2, <1>3, <2>1, Zenon DEF Left
<1>4. CASE ~(o < stable) /\ ~In(kept, o)
  <2>1. Left(kept, o) = Zero
    BY <1>4, Zenon DEF Left
  <2> QED
    BY <2>1 DEF CellAt, Zero
<1>5. CASE ~(o < stable) /\ In(kept, o)
  <2>1. PICK b \in kept : b <= o /\ o < b + BlockCells
    BY <1>5, Zenon DEF In
  <2>2. /\ b \in Nat /\ Multiple(writeOffset)
        /\ b \in Loose => b + BlockCells <= Len(file)
    <3>1. b \in 0 .. writeOffset
      BY KeptRange, Zenon
    <3>2. b \in Nat
      BY <3>1 DEF Types
    <3> QED
      BY <3>2, KeptRange, Zenon
  <2>3. CASE \E r \in inflight : Covers(r, o)
    <3>1. PICK r : r = Covering(o)
      BY Zenon
    <3>2. r \in inflight /\ Covers(r, o)
      BY <2>3, <3>1, Zenon DEF Covering
    <3>3. r \in Recent /\ r \in 1 .. count
      BY <3>2, RecentTyped, Zenon DEF Types
    <3>4. Multiple(at[r])
      BY <2>2, <3>3, Zenon DEF Layout
    <3>5. Left(kept, o) = CellOf(r, o)
      BY <1>5, <2>3, <3>1, Zenon DEF Left
    <3> QED
      BY <3>2, <3>3, <3>4, <3>5, CellOfTyped, Zenon
  <2>4. CASE ~ \E r \in inflight : Covers(r, o)
    <3>1. b \in Loose
      <4>1. SUFFICES ASSUME b \in Fresh PROVE FALSE
        BY Zenon
      <4>2. PICK r \in inflight : b \in BlocksOf(r)
        BY <4>1, Zenon DEF Fresh
      <4>3. r \in 1 .. count
        BY RecentTyped, Zenon DEF Types
      <4>4. In({b}, o) /\ {b} \in SUBSET BlocksOf(r)
        BY <2>1, <4>2, Zenon DEF In
      <4> QED
        BY <2>4, <4>3, <4>4, InCovers, Zenon
    <3>2. o < Len(file)
      BY <1>1, <2>1, <2>2, <3>1
    <3>3. Left(kept, o) = file[o + 1]
      BY <1>5, <2>4, Zenon DEF Left
    <3> QED
      BY <1>2, <3>2, <3>3, Zenon
  <2> QED
    BY <2>3, <2>4, Zenon
<1> QED
  BY <1>3, <1>4, <1>5, Zenon

LEMMA CrashStep ==
  ASSUME LeastFact, Inv, Crash
  PROVE  Inv'
<1>1. Types /\ Cells /\ Promised /\ Layout
  BY Zenon DEF Inv, Crash
<1>2. /\ pc' = "down" /\ failure' = FALSE /\ inflight' = {}
      /\ offset' = 0 /\ entries' = <<>>
      /\ UNCHANGED <<writeOffset, at, size, count, base, acked, starts>>
  BY Zenon DEF Crash, recordVars
<1>3. PICK kept \in SUBSET (Fresh \cup Loose) :
        /\ file' = [i \in 1 .. EndOf(stable, kept) |-> Left(kept, i - 1)]
        /\ stable' = EndOf(stable, kept)
  BY Zenon DEF Crash, Fresh, Loose, EndOf, Left, In, Covering
<1>4. PICK end : end = EndOf(stable, kept)
  BY Zenon
<1>5. end \in Nat /\ stable <= end /\ stable \in Nat /\ Len(file) \in Nat /\ stable <= Len(file)
  <2>1. stable \in Nat /\ writeOffset \in Nat /\ Len(file) \in Nat /\ stable <= Len(file)
    BY <1>1 DEF Types
  <2>2. kept \in SUBSET (0 .. writeOffset)
    BY <1>1, KeptRange, Zenon
  <2> QED
    BY <1>4, <2>1, <2>2, EndReached, Zenon
<1>6. PICK g : g = file'
  BY Zenon
<1>7. g = [i \in 1 .. end |-> Left(kept, i - 1)]
  BY <1>3, <1>4, <1>6, Zenon
<1>8. ASSUME NEW o \in 0 .. end - 1 PROVE g[o + 1] = Left(kept, o)
  <2>1. o + 1 \in 1 .. end /\ (o + 1) - 1 = o
    BY <1>5
  <2>2. g[o + 1] = Left(kept, (o + 1) - 1)
    BY <1>7, <2>1, Zenon
  <2> QED
    BY <2>1, <2>2, Zenon
<1>9. g \in Seq(Nat \X Nat) /\ Len(g) = end
  <2>1. ASSUME NEW i \in 1 .. end PROVE Left(kept, i - 1) \in Nat \X Nat
    <3>1. i - 1 \in Nat
      BY <1>5
    <3> QED
      BY <1>1, <3>1, LeftTyped, Zenon
  <2>2. g \in [1 .. end -> Nat \X Nat]
    BY <1>7, <2>1, Zenon
  <2> QED
    BY <1>5, <2>2
<1>10. Cells'
  <2> SUFFICES ASSUME NEW o \in 0 .. end - 1 PROVE CellAt(o, g[o + 1])'
    BY <1>6, <1>9, Zenon DEF Cells
  <2>1. o \in Nat
    BY <1>5
  <2>2. CellAt(o, g[o + 1])
    BY <1>1, <1>8, <2>1, LeftTyped, Zenon
  <2> QED
    BY <1>2, <1>6, <2>2, Zenon DEF CellAt, Multiple
<1>11. Types'
  <2>1. end \in 0 .. Len(g) /\ 0 \in Nat
    BY <1>5, <1>9
  <2>2. entries' \in Seq(Nat) /\ DOMAIN entries' = {}
    BY <1>2
  <2>3. pc' \in {"down", "recover", "recovered", "up"} /\ failure' \in BOOLEAN
    BY <1>2, Zenon
  <2> QED
    BY <1>1, <1>2, <1>3, <1>4, <1>6, <1>9, <2>1, <2>2, <2>3, Zenon DEF Types
<1>12. Promised'
  <2> SUFFICES ASSUME NEW r \in acked PROVE at[r] + size[r] <= end /\ Whole(r)'
    BY <1>2, <1>3, <1>4, Zenon DEF Promised
  <2>1. r \in 1 .. count /\ Whole(r) /\ at[r] + size[r] <= stable
    BY <1>1, Zenon DEF Promised, Types
  <2>2. at[r] \in Nat /\ size[r] \in Nat
    BY <1>1, <2>1, RecordTyped, Zenon
  <2>3. ASSUME NEW o \in 0 .. Len(file) - 1, at[r] <= o, o < at[r] + size[r]
        PROVE  o < Len(file') /\ file'[o + 1] = file[o + 1]
    <3>1. o < stable /\ o < end /\ o \in 0 .. end - 1
      BY <1>5, <2>1, <2>2, <2>3
    <3> QED
      BY <1>6, <1>8, <1>9, <3>1, Zenon DEF Left
  <2>4. at'[r] = at[r] /\ size'[r] = size[r] /\ Len(file') \in Nat
    BY <1>2, <1>5, <1>6, <1>9, Zenon
  <2>5. Whole(r)'
    BY <1>1, <2>1, <2>3, <2>4, WholeKept, Zenon
  <2>6. at[r] + size[r] <= end
    BY <1>5, <2>1, <2>2
  <2> QED
    BY <2>5, <2>6, Zenon
<1> QED
  BY <1>2, <1>3, <1>4, <1>6, <1>9, <1>10, <1>11, <1>12, Zenon DEF Inv, Landed, Reading

(* An empty log, not opened yet.                                           *)
LEMMA InitInv == Init => Inv
<1> SUFFICES ASSUME Init PROVE Inv
  OBVIOUS
<1>1. /\ pc = "down" /\ file = <<>> /\ stable = 0 /\ writeOffset = 0 /\ failure = FALSE
      /\ offset = 0 /\ entries = <<>>
      /\ at = [r \in Records |-> 0] /\ size = [r \in Records |-> 0]
      /\ count = 0 /\ base = 0 /\ inflight = {} /\ acked = {} /\ starts = 0
  BY Zenon DEF Init
<1>2. /\ file \in Seq(Nat \X Nat) /\ Len(file) = 0 /\ entries \in Seq(Nat) /\ DOMAIN entries = {}
      /\ 0 \in Nat /\ 0 \in 0 .. 0 /\ 0 \in 0 .. MaxRecords /\ 0 \in 0 .. MaxStarts
  BY <1>1, LogAssumption
<1>3. at \in [Records -> Nat] /\ size \in [Records -> Sizes \cup {0}]
  BY <1>1, <1>2, Zenon
<1>4. Types
  BY <1>1, <1>2, <1>3, Zenon DEF Types
<1>5. Cells
  BY <1>2 DEF Cells
<1> QED
  BY <1>1, <1>2, <1>4, <1>5, Zenon DEF Inv, Landed, Promised, Reading

(* Every step keeps the invariant.                                         *)
LEMMA NextInv ==
  ASSUME LeastFact, Inv, [Next]_vars
  PROVE  Inv'
<1>1. CASE \E n \in Sizes : writeEntry(n)
  BY <1>1, AppendStep, Zenon
<1>2. CASE \E r \in Records : Land(r) \/ LandFails(r)
  BY <1>2, LandStep, LandFailsStep, Zenon
<1>3. CASE Sync \/ Clear \/ Close \/ Crash
  BY <1>3, SyncStep, ClearStep, CloseStep, CrashStep, Zenon
<1>4. CASE \E n \in 0 .. Len(file) : Truncate(n)
  BY <1>4, TruncateStep, Zenon
<1>5. CASE Open \/ Recover \/ Serve
  BY <1>5, OpenStep, SkipStep, AcceptStep, RecoverEndsStep, ServeStep, Zenon DEF Recover
<1>6. CASE UNCHANGED vars
  BY <1>6, StutterStep, Zenon
<1> QED
  BY <1>1, <1>2, <1>3, <1>4, <1>5, <1>6, Zenon DEF Next

-----------------------------------------------------------------------------
(* The least element of a set of numbers, from the library.                *)

Lib == INSTANCE WellFoundedInduction

LEMMA LeastNumber == LeastFact
<1> SUFFICES ASSUME NEW S \in SUBSET Nat, S # {}
             PROVE  \E x \in S : \A y \in S : x <= y
  BY Zenon DEF LeastFact
<1> DEFINE R == Lib!OpToRel(<, Nat)
<1>1. PICK x \in S : \A y \in S : ~ (<<y, x>> \in R)
  BY Lib!NatLessThanWellFounded, Lib!WFMin, Zenon
<1>2. ASSUME NEW y \in S PROVE x <= y
  <2>1. x \in Nat /\ y \in Nat /\ <<y, x>> \notin R
    BY <1>1, Zenon
  <2>2. ~ (y < x)
    BY <2>1, Zenon DEF Lib!OpToRel
  <2> HIDE DEF R
  <2> QED
    BY <2>1, <2>2
<1> QED
  BY <1>2, Zenon

-----------------------------------------------------------------------------
(* The theorems.                                                           *)

(* The log's invariant, across crashes, cuts and restarts.                 *)
THEOREM LogInvariance == Spec => []Inv
<1>1. Inv /\ [Next]_vars => Inv'
  BY LeastNumber, NextInv, Zenon
<1> QED
  BY <1>1, InitInv, PTL DEF Spec

(* Type correctness, and no write ever goes into the file that a start     *)
(* found.                                                                  *)
THEOREM LogTyped == Spec => []TypeOK
<1>1. Inv => TypeOK
  <2> SUFFICES ASSUME Inv PROVE TypeOK
    OBVIOUS
  <2>1. Types /\ Cells
    BY Zenon DEF Inv
  <2>2. ASSUME NEW i \in DOMAIN file PROVE file[i] = Zero \/ file[i][1] \in 1 .. count
    <3>1. i - 1 \in 0 .. Len(file) - 1 /\ (i - 1) + 1 = i
      BY <2>1, SMTT(30) DEF Types
    <3>2. CellAt(i - 1, file[i])
      <4>1. CellAt(i - 1, file[(i - 1) + 1])
        BY <2>1, <3>1, Zenon DEF Cells
      <4> QED
        BY <3>1, <4>1
    <3> QED
      BY <3>2 DEF CellAt
  <2>3. pc \in {"recovered", "up"} => writeOffset >= Len(file)
    <3> SUFFICES ASSUME pc \in {"recovered", "up"} PROVE writeOffset >= Len(file)
      BY Zenon
    <3>1. pc # "down"
      OBVIOUS
    <3>2. Len(file) <= writeOffset
      BY <3>1, Zenon DEF Inv, Layout
    <3> QED
      BY <2>1, <3>2 DEF Types
  <2> QED
    BY <2>1, <2>2, <2>3, Zenon DEF Types, TypeOK, Recent
<1> QED
  BY <1>1, LogInvariance, PTL

(* recover() returns exactly the records whose cells are all in the file,  *)
(* in the order of the log, whatever was torn, lost or cut off.            *)
THEOREM ExactRecovery == Spec => []RecoverExact
<1>1. Inv => RecoverExact
  <2> SUFFICES ASSUME Inv, pc = "recovered" PROVE RecoverExact
    BY Zenon DEF RecoverExact
  <2>1. Types /\ Cells /\ Reading
    BY Zenon DEF Inv
  <2>2. ASSUME NEW r \in 1 .. count, Whole(r) PROVE at[r] < offset
    <3>1. at[r] \in Nat /\ at[r] < Len(file)
      BY <2>1, <2>2, WholeBegins, Zenon
    <3>2. offset >= Len(file) /\ offset \in Nat /\ Len(file) \in Nat
      BY <2>1 DEF Types, Reading
    <3> QED
      BY <3>1, <3>2
  <2>3. Intact = {r \in 1 .. count : Whole(r)}
    BY Zenon DEF Intact, Whole
  <2>4. \A r \in 1 .. count : (\E i \in DOMAIN entries : entries[i] = r) <=> Whole(r)
    BY <2>1, <2>2, Zenon DEF Reading
  <2>5. {entries[i] : i \in DOMAIN entries} = Intact
    BY <2>1, <2>3, <2>4, Zenon DEF Types
  <2> QED
    BY <2>1, <2>5, Zenon DEF RecoverExact, Reading
<1> QED
  BY <1>1, LogInvariance, PTL

(* Every record that a sync promised is returned by every later recovery,  *)
(* until clear() or a cut takes it away.                                   *)
THEOREM PromisesRecovered == Spec => []AckedRecovered
<1>1. Inv /\ RecoverExact => AckedRecovered
  <2> SUFFICES ASSUME Inv, RecoverExact, pc = "recovered", NEW r \in acked
               PROVE  r \in {entries[i] : i \in DOMAIN entries}
    BY Zenon DEF AckedRecovered
  <2>1. r \in 1 .. count /\ Whole(r)
    BY Zenon DEF Inv, Types, Promised
  <2>2. r \in Intact
    BY <2>1, Zenon DEF Intact, Whole
  <2> QED
    BY <2>2, Zenon DEF RecoverExact
<1> QED
  BY <1>1, LogInvariance, ExactRecovery, PTL

=============================================================================
