-------------------------- MODULE LSMEngineProofs --------------------------
(***************************************************************************)
(* What holds of the engine for any number of keys, any values and         *)
(* thresholds, and the faults each theorem names.  First the promises of   *)
(* LSMTables' operators, for every number of keys, set of values and       *)
(* number of entries per output; then, from them and LSMEngineSteps, the   *)
(* theorems.                                                               *)
(***************************************************************************)
EXTENDS LSMEngineSteps, FiniteSetTheorems

-----------------------------------------------------------------------------
(* Sorted sets.                                                            *)

StrictOrder(R, S) ==
  /\ \A x \in S : <<x, x>> \notin R
  /\ \A x, y, z \in S : <<x, y>> \in R /\ <<y, z>> \in R => <<x, z>> \in R
  /\ \A x, y \in S : x = y \/ <<x, y>> \in R \/ <<y, x>> \in R

Below(R, S, x) == {y \in S : <<y, x>> \in R}

(* The position of x, from 0, when S is sorted.                            *)
Rank(R, S, x) == Cardinality(Below(R, S, x))

(* A rank is a position of the sorted set.                                 *)
LEMMA RankRange ==
  ASSUME NEW S, IsFiniteSet(S), NEW R, StrictOrder(R, S), NEW x \in S
  PROVE  Rank(R, S, x) \in 0 .. Cardinality(S) - 1
<1> DEFINE B == Below(R, S, x)
<1>1. B \in SUBSET S /\ B # S /\ x \notin B
  BY Zenon DEF Below, StrictOrder
<1>2. IsFiniteSet(B) /\ Cardinality(B) <= Cardinality(S) /\ Cardinality(B) # Cardinality(S)
  BY <1>1, FS_Subset, Zenon
<1>3. Cardinality(B) \in Nat /\ Cardinality(S) \in Nat
  BY <1>2, FS_CardinalityType, Zenon
<1> QED
  BY <1>2, <1>3 DEF Rank

(* Ranks follow the order.                                                 *)
LEMMA RankMonotone ==
  ASSUME NEW S, IsFiniteSet(S), NEW R, StrictOrder(R, S),
         NEW x \in S, NEW y \in S, <<x, y>> \in R
  PROVE  Rank(R, S, x) < Rank(R, S, y)
<1> DEFINE B == Below(R, S, x)
           C == Below(R, S, y)
<1>1. C \in SUBSET S /\ B \in SUBSET C /\ B # C
  BY Zenon DEF Below, StrictOrder
<1>2. IsFiniteSet(C)
  BY <1>1, FS_Subset, Zenon
<1>3. IsFiniteSet(B) /\ Cardinality(B) <= Cardinality(C) /\ Cardinality(B) # Cardinality(C)
  BY <1>1, <1>2, FS_Subset, Zenon
<1>4. Cardinality(B) \in Nat /\ Cardinality(C) \in Nat
  BY <1>2, <1>3, FS_CardinalityType, Zenon
<1> QED
  BY <1>3, <1>4 DEF Rank

(* Every position of the sorted set is some element's rank.                *)
LEMMA RankOnto ==
  ASSUME NEW S, IsFiniteSet(S), NEW R, StrictOrder(R, S),
         NEW i \in 0 .. Cardinality(S) - 1
  PROVE  \E x \in S : Rank(R, S, x) = i
<1> DEFINE n == Cardinality(S)
           T == 0 .. n - 1
           f == [x \in S |-> Rank(R, S, x)]
<1>1. n \in Nat
  BY FS_CardinalityType, Zenon
<1>2. IsFiniteSet(T) /\ Cardinality(T) = n
  BY <1>1, FS_Interval
<1>3. f \in [S -> T]
  BY RankRange, Zenon
<1>4. ASSUME NEW x \in S, NEW y \in S, f[x] = f[y] PROVE x = y
  <2>1. CASE <<x, y>> \in R
    BY <2>1, <1>4, <1>3, RankMonotone
  <2>2. CASE <<y, x>> \in R
    BY <2>2, <1>4, <1>3, RankMonotone
  <2> QED
    BY <2>1, <2>2, Zenon DEF StrictOrder
<1>5. f \in Injection(S, T)
  BY <1>3, <1>4, Zenon DEF Injection, IsInjective
<1>6. f \in Surjection(S, T)
  BY <1>2, <1>5, FS_Injection, Zenon
<1> QED
  BY <1>6, Zenon DEF Surjection

(* The elements in order.                                                  *)
Enumeration(R, S) ==
  [i \in 1 .. Cardinality(S) |-> CHOOSE x \in S : Rank(R, S, x) = i - 1]

(* The first n positions of s list the elements of S once each, in order.  *)
Lists(R, S, s, n) ==
  /\ s \in [1 .. n -> S]
  /\ \A i, j \in 1 .. n : i < j => <<s[i], s[j]>> \in R
  /\ \A x \in S : \E i \in 1 .. n : s[i] = x

(* The enumeration lists the elements of a finite set.                     *)
LEMMA EnumerationSorted ==
  ASSUME NEW S, IsFiniteSet(S), NEW R, StrictOrder(R, S)
  PROVE  /\ Cardinality(S) \in Nat
         /\ Lists(R, S, Enumeration(R, S), Cardinality(S))
<1> DEFINE n == Cardinality(S)
           E == Enumeration(R, S)
<1>1. n \in Nat
  BY FS_CardinalityType, Zenon
<1>2. ASSUME NEW i \in 1 .. n PROVE E[i] \in S /\ Rank(R, S, E[i]) = i - 1
  <2>1. i - 1 \in 0 .. n - 1
    BY <1>1
  <2>2. \E x \in S : Rank(R, S, x) = i - 1
    BY <2>1, RankOnto
  <2>3. E[i] = CHOOSE x \in S : Rank(R, S, x) = i - 1
    BY Zenon DEF Enumeration
  <2> QED
    BY <2>2, <2>3, Zenon
<1>3. E \in [1 .. n -> S]
  BY <1>2, Zenon DEF Enumeration
<1>4. ASSUME NEW i \in 1 .. n, NEW j \in 1 .. n, i < j PROVE <<E[i], E[j]>> \in R
  <2>1. CASE E[i] = E[j]
    BY <2>1, <1>1, <1>2, <1>4
  <2>2. CASE <<E[j], E[i]>> \in R
    <3>1. Rank(R, S, E[j]) < Rank(R, S, E[i])
      BY <2>2, <1>2, RankMonotone, Zenon
    <3> QED
      BY <3>1, <1>1, <1>2, <1>4
  <2> QED
    BY <2>1, <2>2, <1>2, Zenon DEF StrictOrder
<1>5. ASSUME NEW x \in S PROVE \E i \in 1 .. n : E[i] = x
  <2>1. PICK r \in 0 .. n - 1 : Rank(R, S, x) = r
    BY RankRange, Zenon
  <2>2. r + 1 \in 1 .. n /\ (r + 1) - 1 = r
    BY <1>1
  <2>3. E[r + 1] \in S /\ Rank(R, S, E[r + 1]) = Rank(R, S, x)
    BY <1>2, <2>1, <2>2, Zenon
  <2>4. CASE <<E[r + 1], x>> \in R
    <3>1. Rank(R, S, E[r + 1]) < Rank(R, S, x)
      BY <2>3, <2>4, RankMonotone, Zenon
    <3> QED
      BY <3>1, <2>1, <2>3
  <2>5. CASE <<x, E[r + 1]>> \in R
    <3>1. Rank(R, S, x) < Rank(R, S, E[r + 1])
      BY <2>3, <2>5, RankMonotone, Zenon
    <3> QED
      BY <3>1, <2>1, <2>3
  <2> QED
    BY <2>2, <2>3, <2>4, <2>5, Zenon DEF StrictOrder
<1> QED
  BY <1>1, <1>3, <1>4, <1>5, Zenon DEF Lists

(* There is no other way to list the elements of a set.                    *)
LEMMA EnumerationUnique ==
  ASSUME NEW S, NEW R, StrictOrder(R, S), NEW n \in Nat, NEW s, Lists(R, S, s, n)
  PROVE  /\ IsFiniteSet(S) /\ Cardinality(S) = n
         /\ Enumeration(R, S) = s
<1> USE DEF Lists
<1>1. ASSUME NEW i \in 1 .. n, NEW j \in 1 .. n, s[i] = s[j] PROVE i = j
  <2>1. CASE i < j
    BY <1>1, <2>1, Zenon DEF StrictOrder
  <2>2. CASE j < i
    BY <1>1, <2>2, Zenon DEF StrictOrder
  <2> QED
    BY <2>1, <2>2
<1>2. s \in Bijection(1 .. n, S)
  BY <1>1, Zenon DEF Bijection, Injection, Surjection, IsInjective
<1>3. ExistsBijection(1 .. n, S)
  BY <1>2, Zenon DEF ExistsBijection
<1>4. IsFiniteSet(S) /\ Cardinality(S) = n
  BY <1>3, FS_NatBijection, FS_CountingElements, Zenon
<1>5. ASSUME NEW i \in 1 .. n PROVE Rank(R, S, s[i]) = i - 1
  <2> DEFINE B == Below(R, S, s[i])
             b == [j \in 1 .. i - 1 |-> s[j]]
  <2>1. ASSUME NEW j \in 1 .. i - 1 PROVE s[j] \in B
    BY DEF Below
  <2>2. ASSUME NEW x \in B PROVE \E j \in 1 .. i - 1 : s[j] = x
    <3>1. PICK j \in 1 .. n : s[j] = x
      BY Zenon DEF Below
    <3>2. <<s[j], s[i]>> \in R
      BY <3>1, Zenon DEF Below
    <3>3. j # i /\ ~(i < j)
      BY <3>2, Zenon DEF StrictOrder
    <3> QED
      BY <3>1, <3>3
  <2>3. b \in [1 .. i - 1 -> B]
    BY <2>1, Zenon
  <2>4. \A j, h \in 1 .. i - 1 : b[j] = b[h] => j = h
    BY <1>1
  <2>5. \A x \in B : \E j \in 1 .. i - 1 : b[j] = x
    BY <2>2, Zenon
  <2>6. b \in Bijection(1 .. i - 1, B)
    <3> HIDE DEF b, B
    <3> QED
      BY <2>3, <2>4, <2>5, Zenon DEF Bijection, Injection, Surjection,
         IsInjective
  <2>7. ExistsBijection(1 .. i - 1, B)
    BY <2>6, Zenon DEF ExistsBijection
  <2>8. i - 1 \in Nat
    OBVIOUS
  <2> QED
    BY <2>7, <2>8, FS_CountingElements, Zenon DEF Rank
<1>6. ASSUME NEW i \in 1 .. n PROVE Enumeration(R, S)[i] = s[i]
  <2>1. ASSUME NEW x \in S, Rank(R, S, x) = i - 1 PROVE x = s[i]
    <3>1. PICK j \in 1 .. n : s[j] = x
      BY Zenon
    <3>2. j - 1 = i - 1
      BY <1>5, <2>1, <3>1, Zenon
    <3> QED
      BY <3>1, <3>2
  <2>2. Enumeration(R, S)[i] = CHOOSE x \in S : Rank(R, S, x) = i - 1
    BY <1>4, Zenon DEF Enumeration
  <2> QED
    BY <1>5, <2>1, <2>2, Zenon
<1>7. Enumeration(R, S) = [i \in 1 .. n |-> Enumeration(R, S)[i]]
  BY <1>4 DEF Enumeration
<1> QED
  BY <1>4, <1>6, <1>7, Zenon

(* A finite set that is not empty has a greatest element.                  *)
LEMMA GreatestExists ==
  ASSUME NEW S, IsFiniteSet(S), S # {}, NEW R, StrictOrder(R, S)
  PROVE  \E x \in S : \A y \in S : y = x \/ <<y, x>> \in R
<1> DEFINE n == Cardinality(S)
<1>1. n \in Nat /\ n # 0
  BY FS_CardinalityType, FS_EmptySet, Zenon
<1>2. PICK x \in S : Rank(R, S, x) = n - 1
  <2>1. n - 1 \in 0 .. n - 1
    BY <1>1
  <2> QED
    BY <2>1, RankOnto
<1>3. ASSUME NEW y \in S, <<x, y>> \in R PROVE FALSE
  <2>1. Rank(R, S, x) < Rank(R, S, y)
    BY <1>3, RankMonotone, Zenon
  <2>2. Rank(R, S, y) \in 0 .. n - 1
    BY RankRange, Zenon
  <2> QED
    BY <1>1, <1>2, <2>1, <2>2, SMTT(30)
<1> QED
  BY <1>3, Zenon DEF StrictOrder

(* Max and Min of a finite set of integers.                                *)
LEMMA MaxOfFinite ==
  ASSUME NEW S \in SUBSET Int, IsFiniteSet(S), S # {}
  PROVE  Max(S) \in S /\ \A y \in S : y <= Max(S)
<1> DEFINE R == {p \in Int \X Int : p[1] < p[2]}
<1>0. \A a, b \in Int : <<a, b>> \in R <=> a < b
  BY Zenon
<1> HIDE DEF R
<1>1. StrictOrder(R, S)
  BY <1>0 DEF StrictOrder
<1>2. PICK x \in S : \A y \in S : y = x \/ <<y, x>> \in R
  BY <1>1, GreatestExists, Zenon
<1>3. ASSUME NEW y \in S PROVE x >= y
  <2>1. x \in Int /\ y \in Int
    BY Zenon
  <2>2. y = x \/ <<y, x>> \in R
    BY <1>2, Zenon
  <2> QED
    BY <2>1, <2>2, <1>0
<1> QED
  BY <1>3, Zenon DEF Max

(* A finite, nonempty set of integers has a least element.                 *)
LEMMA MinOfFinite ==
  ASSUME NEW S \in SUBSET Int, IsFiniteSet(S), S # {}
  PROVE  Min(S) \in S /\ \A y \in S : Min(S) <= y
<1> DEFINE R == {p \in Int \X Int : p[1] > p[2]}
<1>0. \A a, b \in Int : <<a, b>> \in R <=> a > b
  BY Zenon
<1> HIDE DEF R
<1>1. StrictOrder(R, S)
  BY <1>0 DEF StrictOrder
<1>2. PICK x \in S : \A y \in S : y = x \/ <<y, x>> \in R
  BY <1>1, GreatestExists, Zenon
<1>3. ASSUME NEW y \in S PROVE x =< y
  <2>1. x \in Int /\ y \in Int
    BY Zenon
  <2>2. y = x \/ <<y, x>> \in R
    BY <1>2, Zenon
  <2> QED
    BY <2>1, <2>2, <1>0
<1> QED
  BY <1>3, Zenon DEF Min

-----------------------------------------------------------------------------
(* The elements of a sequence, and a sequence over a larger set.           *)
LEMMA SeqElements ==
  ASSUME NEW R, NEW s \in Seq(R)
  PROVE  s \in [1 .. Len(s) -> R] /\ \A i \in 1 .. Len(s) : s[i] \in R
  OBVIOUS

(* A sequence over a set is one over every larger set.                     *)
LEMMA SeqWidened ==
  ASSUME NEW R, NEW Q, R \subseteq Q, NEW s \in Seq(R)
  PROVE  s \in Seq(Q)
  OBVIOUS

(* A finite set of positions has a last one.                               *)
LEMMA LastPosition ==
  ASSUME NEW n \in Nat, NEW H \in SUBSET (1 .. n), H # {}
  PROVE  Max(H) \in H /\ \A j \in H : j <= Max(H)
<1>1. IsFiniteSet(1 .. n) /\ H \in SUBSET Int
  BY FS_Interval
<1>2. IsFiniteSet(H)
  BY <1>1, FS_Subset, Zenon
<1> QED
  BY <1>1, <1>2, MaxOfFinite, Zenon

(* Lookup() returns the entry of the newest table that has one.            *)
LEMMA LookupNewest ==
  ASSUME NEW T, NEW n \in Nat, DOMAIN T = 1 .. n, NEW k,
         NEW i \in 1 .. n, Newest(T, n, k, i)
  PROVE  Lookup(T, k) = T[i].data[k]
<1> DEFINE H == {j \in 1 .. n : T[j].data[k] # None}
<1>1. H \in SUBSET (1 .. n) /\ i \in H
  BY Zenon DEF Newest
<1>2. Max(H) \in H /\ \A j \in H : j <= Max(H)
  BY <1>1, LastPosition, Zenon
<1>3. Max(H) = i
  BY <1>1, <1>2 DEF Newest
<1> QED
  BY <1>1, <1>3, Zenon DEF Lookup

(* Lookup() finds nothing where no table has an entry.                     *)
LEMMA LookupNone ==
  ASSUME NEW T, NEW n \in Nat, DOMAIN T = 1 .. n, NEW k,
         \A j \in 1 .. n : T[j].data[k] = None
  PROVE  Lookup(T, k) = None
  BY DEF Lookup

(* Lookup() either finds no entry or returns the newest one.               *)
LEMMA LookupCases ==
  ASSUME NEW T, NEW n \in Nat, DOMAIN T = 1 .. n, NEW k
  PROVE  \/ (\A j \in 1 .. n : T[j].data[k] = None) /\ Lookup(T, k) = None
         \/ \E i \in 1 .. n : Newest(T, n, k, i) /\ Lookup(T, k) = T[i].data[k]
<1> DEFINE H == {j \in 1 .. n : T[j].data[k] # None}
<1>1. CASE H = {}
  BY <1>1, LookupNone, Zenon
<1>2. CASE H # {}
  <2>1. Max(H) \in H /\ \A j \in H : j <= Max(H)
    BY <1>2, LastPosition, Zenon
  <2>2. ASSUME NEW j \in 1 .. n, j > Max(H) PROVE T[j].data[k] = None
    BY <2>1, <2>2
  <2>3. Newest(T, n, k, Max(H))
    BY <2>1, <2>2, Zenon DEF Newest
  <2> QED
    BY <2>1, <2>3, LookupNewest
<1> QED
  BY <1>1, <1>2, Zenon

(* A lookup depends on the entries of the tables alone.                    *)
LEMMA LookupSame ==
  ASSUME NEW T, NEW U, NEW n \in Nat, DOMAIN T = 1 .. n, DOMAIN U = 1 .. n, NEW k,
         \A i \in 1 .. n : T[i].data[k] = U[i].data[k]
  PROVE  Lookup(T, k) = Lookup(U, k)
<1>1. CASE \A j \in 1 .. n : T[j].data[k] = None
  BY <1>1, LookupNone
<1>2. CASE \E i \in 1 .. n : Newest(T, n, k, i) /\ Lookup(T, k) = T[i].data[k]
  <2>1. PICK i \in 1 .. n : Newest(T, n, k, i) /\ Lookup(T, k) = T[i].data[k]
    BY <1>2, Zenon
  <2>2. Newest(U, n, k, i)
    BY <2>1, Zenon DEF Newest
  <2> QED
    BY <2>1, <2>2, LookupNewest, Zenon
<1> QED
  BY <1>1, <1>2, LookupCases

(* The entry of the last table, if it has one, else as in the others.      *)
LEMMA LookupAppend ==
  ASSUME NEW T, NEW U, NEW n \in Nat, DOMAIN T = 1 .. n, DOMAIN U = 1 .. n + 1, NEW k,
         \A i \in 1 .. n : U[i].data[k] = T[i].data[k]
  PROVE  Lookup(U, k) = IF U[n + 1].data[k] # None THEN U[n + 1].data[k] ELSE Lookup(T, k)
<1>1. CASE U[n + 1].data[k] # None
  <2>1. Newest(U, n + 1, k, n + 1)
    BY <1>1 DEF Newest
  <2> QED
    BY <1>1, <2>1, LookupNewest
<1>2. CASE U[n + 1].data[k] = None
  <2>1. CASE (\A j \in 1 .. n : T[j].data[k] = None) /\ Lookup(T, k) = None
    <3>1. \A j \in 1 .. n + 1 : U[j].data[k] = None
      BY <1>2, <2>1
    <3> QED
      BY <1>2, <2>1, <3>1, LookupNone, SMTT(30)
  <2>2. CASE \E i \in 1 .. n : Newest(T, n, k, i) /\ Lookup(T, k) = T[i].data[k]
    <3>1. PICK i \in 1 .. n : Newest(T, n, k, i) /\ Lookup(T, k) = T[i].data[k]
      BY <2>2, Zenon
    <3>2. Newest(U, n + 1, k, i)
      BY <1>2, <3>1 DEF Newest
    <3> QED
      BY <1>2, <3>1, <3>2, LookupNewest
  <2> QED
    BY <2>1, <2>2, LookupCases
<1> QED
  BY <1>1, <1>2, Zenon

LoadOrder == {p \in Names \X Names : LoadsBefore(p[1], p[2])}

(* The tables of a sorted sequence of names.                               *)
Entries(d, s, n) == [i \in 1 .. n |-> [name |-> s[i], data |-> d[s[i]]]]

(* Level 1 before level 0, by counter, is a strict total order of names.   *)
LEMMA LoadOrderStrict ==
  ASSUME NEW S \in SUBSET Names
  PROVE  /\ StrictOrder(LoadOrder, S)
         /\ \A f, g \in S : <<f, g>> \in LoadOrder <=> LoadsBefore(f, g)
<1>1. \A f, g \in Names : <<f, g>> \in LoadOrder <=> LoadsBefore(f, g)
  BY Zenon DEF LoadOrder
<1>2. ASSUME NEW f \in Names
      PROVE  f[1] \in {0, 1} /\ f[2] \in Nat /\ f = <<f[1], f[2]>>
  BY DEF Names
<1>3. \A f \in Names : ~LoadsBefore(f, f)
  BY <1>2 DEF LoadsBefore
<1>4. \A f, g, h \in Names :
        LoadsBefore(f, g) /\ LoadsBefore(g, h) => LoadsBefore(f, h)
  BY <1>2 DEF LoadsBefore
<1>5. \A f, g \in Names : f = g \/ LoadsBefore(f, g) \/ LoadsBefore(g, f)
  <2> TAKE f, g \in Names
  <2>1. CASE f[1] = g[1] /\ f[2] = g[2]
    BY <1>2, <2>1, Zenon
  <2>2. CASE f[1] # g[1] \/ f[2] # g[2]
    BY <1>2, <2>2 DEF LoadsBefore
  <2> QED
    BY <2>1, <2>2, Zenon
<1> HIDE DEF LoadOrder
<1> QED
  BY <1>1, <1>3, <1>4, <1>5, Zenon DEF StrictOrder

(* loadSSTables() is the enumeration of the files in load order.           *)
LEMMA LoadsIsEnumeration ==
  ASSUME NEW d, DOMAIN d \subseteq Names
  PROVE  loadSSTables(d) = Entries(d, Enumeration(LoadOrder, DOMAIN d),
                                 Cardinality(DOMAIN d))
<1>1. ASSUME NEW f \in DOMAIN d
      PROVE  {g \in DOMAIN d : LoadsBefore(g, f)} = Below(LoadOrder, DOMAIN d, f)
  BY LoadOrderStrict, Zenon DEF Below
<1>2. ASSUME NEW i \in 1 .. Cardinality(DOMAIN d)
      PROVE  (CHOOSE f \in DOMAIN d :
                Cardinality({g \in DOMAIN d : LoadsBefore(g, f)}) = i - 1)
             = Enumeration(LoadOrder, DOMAIN d)[i]
  <2>1. \A f \in DOMAIN d :
          Cardinality({g \in DOMAIN d : LoadsBefore(g, f)}) = i - 1
          <=> Rank(LoadOrder, DOMAIN d, f) = i - 1
    BY <1>1, Zenon DEF Rank
  <2>2. (CHOOSE f \in DOMAIN d :
           Cardinality({g \in DOMAIN d : LoadsBefore(g, f)}) = i - 1)
        = CHOOSE f \in DOMAIN d : Rank(LoadOrder, DOMAIN d, f) = i - 1
    BY <2>1, ZenonT(30)
  <2> QED
    BY <2>2 DEF Enumeration
<1> QED
  BY <1>2, Zenon DEF loadSSTables, Entries

(* Every file is loaded once, in load order, with its contents.            *)
LEMMA LoadsFiles ==
  ASSUME NEW d, IsFiniteSet(DOMAIN d), DOMAIN d \subseteq Names
  PROVE  \E n \in Nat :
           /\ loadSSTables(d) \in Seq([name : DOMAIN d, data : {d[f] : f \in DOMAIN d}])
           /\ Len(loadSSTables(d)) = n /\ DOMAIN loadSSTables(d) = 1 .. n
           /\ \A i \in 1 .. n : loadSSTables(d)[i].data = d[loadSSTables(d)[i].name]
           /\ \A i, j \in 1 .. n :
                i < j => LoadsBefore(loadSSTables(d)[i].name, loadSSTables(d)[j].name)
           /\ \A f \in DOMAIN d : \E i \in 1 .. n : loadSSTables(d)[i].name = f
<1> DEFINE S == DOMAIN d
           Rec == [name : S, data : {d[f] : f \in S}]
<1>1. /\ StrictOrder(LoadOrder, S)
      /\ \A f, g \in S : <<f, g>> \in LoadOrder <=> LoadsBefore(f, g)
  BY LoadOrderStrict, Zenon
<1>2. PICK n \in Nat : n = Cardinality(S)
  BY FS_CardinalityType, Zenon
<1>3. PICK E \in [1 .. n -> S] :
        /\ E = Enumeration(LoadOrder, S)
        /\ \A i, j \in 1 .. n : i < j => <<E[i], E[j]>> \in LoadOrder
        /\ \A f \in S : \E i \in 1 .. n : E[i] = f
  BY <1>1, <1>2, EnumerationSorted DEF Lists
<1>4. PICK T : T = loadSSTables(d) /\ T = [i \in 1 .. n |-> [name |-> E[i], data |-> d[E[i]]]]
  BY <1>2, <1>3, LoadsIsEnumeration DEF Entries
<1>5. \A i \in 1 .. n : T[i].name = E[i] /\ T[i].data = d[E[i]]
  BY <1>4
<1>6. T \in [1 .. n -> Rec]
  BY <1>4
<1>7. T \in Seq(Rec) /\ Len(T) = n /\ DOMAIN T = 1 .. n
  <2> HIDE DEF Rec
  <2> QED
    BY <1>6
<1>8. \A i \in 1 .. n : T[i].data = d[T[i].name]
  BY <1>5, Zenon
<1>9. \A i, j \in 1 .. n : i < j => LoadsBefore(T[i].name, T[j].name)
  <2> TAKE i, j \in 1 .. n
  <2>1. T[i].name = E[i] /\ T[j].name = E[j]
    BY <1>5, Zenon
  <2> QED
    BY <1>1, <1>3, <2>1, Zenon
<1>10. \A f \in S : \E i \in 1 .. n : T[i].name = f
  <2> TAKE f \in S
  <2>1. PICK i \in 1 .. n : E[i] = f
    BY <1>3, Zenon
  <2>2. T[i].name = f
    BY <1>5, <2>1, Zenon
  <2> QED
    BY <2>2, Zenon
<1> QED
  <2> HIDE DEF Rec
  <2>1. \E m \in Nat :
           /\ T \in Seq(Rec)
           /\ Len(T) = m /\ DOMAIN T = 1 .. m
           /\ \A i \in 1 .. m : T[i].data = d[T[i].name]
           /\ \A i, j \in 1 .. m : i < j => LoadsBefore(T[i].name, T[j].name)
           /\ \A f \in S : \E i \in 1 .. m : T[i].name = f
    BY <1>7, <1>8, <1>9, <1>10, Zenon
  <2> QED
    BY <1>4, <2>1 DEF Rec

(* A sorted list of exactly the files is what a restart loads.             *)
LEMMA LoadsListed ==
  ASSUME NEW d, DOMAIN d \subseteq Names, NEW n \in Nat, NEW s, ListsFiles(d, s, n)
  PROVE  loadSSTables(d) = s
<1> USE DEF ListsFiles
<1> DEFINE S == DOMAIN d
           e == [i \in 1 .. n |-> s[i].name]
<1>1. /\ StrictOrder(LoadOrder, S)
      /\ \A f, g \in S : <<f, g>> \in LoadOrder <=> LoadsBefore(f, g)
  BY LoadOrderStrict, Zenon
<1>2. /\ e \in [1 .. n -> S]
      /\ \A i, j \in 1 .. n : i < j => <<e[i], e[j]>> \in LoadOrder
      /\ \A f \in S : \E i \in 1 .. n : e[i] = f
  BY <1>1, Zenon
<1>3. PICK E : E = e
  BY Zenon
<1>4. Cardinality(S) = n /\ Enumeration(LoadOrder, S) = E
  <2>1. /\ E \in [1 .. n -> S]
        /\ \A i, j \in 1 .. n : i < j => <<E[i], E[j]>> \in LoadOrder
        /\ \A f \in S : \E i \in 1 .. n : E[i] = f
    BY <1>2, <1>3, Zenon
  <2>2. Lists(LoadOrder, S, E, n)
    BY <2>1, Zenon DEF Lists
  <2> HIDE DEF e, S
  <2> QED
    BY <1>1, <2>2, EnumerationUnique, Zenon
<1>5. loadSSTables(d) = [i \in 1 .. n |-> [name |-> E[i], data |-> d[E[i]]]]
  <2>1. loadSSTables(d) = Entries(d, Enumeration(LoadOrder, S), Cardinality(S))
    BY LoadsIsEnumeration, Zenon
  <2>2. loadSSTables(d) = Entries(d, E, n)
    BY <1>4, <2>1, Zenon
  <2> QED
    BY <2>2, Zenon DEF Entries
<1>6. \A i \in 1 .. n : s[i] = [name |-> E[i], data |-> d[E[i]]]
  BY <1>3, Zenon
<1>7. s = [i \in 1 .. n |-> s[i]]
  BY Zenon
<1> QED
  BY <1>5, <1>6, <1>7, Zenon

(* After a restart a key reads as in the file loaded last that has it.     *)
LEMMA LoadsLookup ==
  ASSUME NEW d, IsFiniteSet(DOMAIN d), DOMAIN d \subseteq Names, NEW k
  PROVE  /\ \A f \in DOMAIN d :
              /\ d[f][k] # None
              /\ \A g \in DOMAIN d : g # f /\ d[g][k] # None => LoadsBefore(g, f)
              => Lookup(loadSSTables(d), k) = d[f][k]
         /\ (\A f \in DOMAIN d : d[f][k] = None) => Lookup(loadSSTables(d), k) = None
<1> DEFINE T == loadSSTables(d)
<1>1. PICK n \in Nat :
        /\ DOMAIN T = 1 .. n
        /\ \A i \in 1 .. n : T[i].name \in DOMAIN d
        /\ \A i \in 1 .. n : T[i].data = d[T[i].name]
        /\ \A i, j \in 1 .. n : i < j => LoadsBefore(T[i].name, T[j].name)
        /\ \A f \in DOMAIN d : \E i \in 1 .. n : T[i].name = f
  <2>1. PICK n \in Nat :
           /\ T \in Seq([name : DOMAIN d, data : {d[f] : f \in DOMAIN d}])
           /\ Len(T) = n /\ DOMAIN T = 1 .. n
           /\ \A i \in 1 .. n : T[i].data = d[T[i].name]
           /\ \A i, j \in 1 .. n :
                i < j => LoadsBefore(T[i].name, T[j].name)
           /\ \A f \in DOMAIN d : \E i \in 1 .. n : T[i].name = f
    BY LoadsFiles, Zenon
  <2> HIDE DEF T
  <2>2. ASSUME NEW i \in 1 .. n PROVE T[i].name \in DOMAIN d
    <3>1. T[i] \in [name : DOMAIN d, data : {d[f] : f \in DOMAIN d}]
      BY <2>1, SeqElements, Zenon
    <3> QED
      BY <3>1, Zenon
  <2> QED
    BY <2>1, <2>2, Zenon
<1> HIDE DEF T
<1>2. ASSUME NEW f \in DOMAIN d, d[f][k] # None,
             \A g \in DOMAIN d : g # f /\ d[g][k] # None => LoadsBefore(g, f)
      PROVE  Lookup(T, k) = d[f][k]
  <2>1. PICK i \in 1 .. n : T[i].name = f
    BY <1>1, Zenon
  <2>2. ASSUME NEW j \in 1 .. n, j > i, T[j].data[k] # None PROVE FALSE
    <3>1. LoadsBefore(f, T[j].name) /\ T[j].name \in DOMAIN d
      BY <1>1, <2>1, <2>2, Zenon
    <3>2. T[j].name # f => LoadsBefore(T[j].name, f)
      BY <1>1, <1>2, <2>2, Zenon
    <3>3. f \in Names /\ T[j].name \in Names
      BY <3>1, Zenon
    <3>4. f[1] \in {0, 1} /\ f[2] \in Nat /\ T[j].name[1] \in {0, 1} /\ T[j].name[2] \in Nat
      BY <3>3, Zenon DEF Names
    <3> QED
      BY <3>1, <3>2, <3>4, SMTT(30) DEF LoadsBefore
  <2>3. Newest(T, n, k, i)
    BY <1>1, <1>2, <2>1, <2>2, Zenon DEF Newest
  <2>4. DOMAIN T = 1 .. n /\ T[i].data = d[T[i].name]
    BY <1>1, Zenon
  <2>5. Lookup(T, k) = T[i].data[k]
    BY <2>3, <2>4, LookupNewest, ZenonT(30)
  <2> QED
    BY <2>1, <2>4, <2>5, Zenon
<1>3. (\A f \in DOMAIN d : d[f][k] = None) => Lookup(T, k) = None
  BY <1>1, LookupNone
<1> QED
  BY <1>2, <1>3, Zenon DEF T

(* loadSSTables() returns a list of tables.                                *)
LEMMA LoadsTyped ==
  ASSUME NEW d, Files(d)
  PROVE  loadSSTables(d) \in Seq(TableRecs)
<1> USE DEF Files
<1>1. loadSSTables(d) \in Seq([name : DOMAIN d, data : {d[f] : f \in DOMAIN d}])
  BY LoadsFiles, Zenon
<1>2. [name : DOMAIN d, data : {d[f] : f \in DOMAIN d}] \subseteq TableRecs
  BY Zenon DEF TableRecs
<1> QED
  BY <1>1, <1>2, SeqWidened, Zenon

Before  == {p \in Int \X Int : p[1] < p[2]}

(* What is left of a log keeps its order.                                  *)
LEMMA WithoutKeepsOrder ==
  ASSUME NEW R, NEW l \in Seq(R), NEW lost
  PROVE  /\ Without(l, lost) \in Seq(R)
         /\ \E n \in Nat : \E s : Keeps(l, lost, Without(l, lost), n, s)
<1>1. PICK K : K = DOMAIN l \ lost
  BY Zenon
<1>2. K \in SUBSET (1 .. Len(l)) /\ Len(l) \in Nat /\ \A j \in K : j \in Int
  BY <1>1
<1>3. IsFiniteSet(K)
  <2>1. IsFiniteSet(1 .. Len(l))
    BY <1>2, FS_Interval
  <2> QED
    BY <1>2, <2>1, FS_Subset, Zenon
<1>4. \A a, b \in Int : <<a, b>> \in Before <=> a < b
  BY Zenon DEF Before
<1>5. StrictOrder(Before, K)
  BY <1>2, <1>4 DEF StrictOrder
<1>6. PICK m \in Nat : m = Cardinality(K)
  BY <1>3, FS_CardinalityType, Zenon
<1>7. PICK s : s = Enumeration(Before, K) /\ Lists(Before, K, s, m)
  BY <1>3, <1>5, <1>6, EnumerationSorted, Zenon
<1>8. /\ s \in [1 .. m -> K]
      /\ \A i, j \in 1 .. m : i < j => s[i] < s[j]
      /\ \A j \in K : \E i \in 1 .. m : s[i] = j
  BY <1>2, <1>4, <1>7, Zenon DEF Lists
<1>9. ASSUME NEW i \in 1 .. m
      PROVE  s[i] = CHOOSE j \in K : Cardinality({h \in K : h < j}) = i - 1
  <2>1. \A j \in K : Cardinality({h \in K : h < j}) = i - 1 <=> Rank(Before, K, j) = i - 1
    <3> TAKE j \in K
    <3>1. {h \in K : h < j} = Below(Before, K, j)
      BY <1>2, <1>4, Zenon DEF Below
    <3> QED
      BY <3>1, Zenon DEF Rank
  <2>2. (CHOOSE j \in K : Cardinality({h \in K : h < j}) = i - 1)
        = CHOOSE j \in K : Rank(Before, K, j) = i - 1
    BY <2>1, Zenon
  <2> QED
    BY <2>2, <1>6, <1>7, Zenon DEF Enumeration
<1>10. Without(l, lost) = [i \in 1 .. m |-> l[s[i]]]
  <2>1. Without(l, lost) =
          [i \in 1 .. m |-> l[CHOOSE j \in K : Cardinality({h \in K : h < j}) = i - 1]]
    BY <1>1, <1>6 DEF Without
  <2> QED
    BY <1>9, <2>1, Zenon
<1>11. PICK w : w = Without(l, lost)
  BY Zenon
<1>12. /\ w \in Seq(R) /\ DOMAIN w = 1 .. m
       /\ \A i \in 1 .. m : w[i] = l[s[i]]
  <2>1. w = [i \in 1 .. m |-> l[s[i]]]
    BY <1>10, <1>11, Zenon
  <2>2. \A i \in 1 .. m : l[s[i]] \in R
    BY <1>2, <1>8, SeqElements, Zenon
  <2>3. w \in [1 .. m -> R]
    BY <2>1, <2>2, Zenon
  <2> QED
    BY <2>1, <2>3
<1>13. Keeps(l, lost, w, m, s)
  BY <1>1, <1>8, <1>12, Zenon DEF Keeps
<1> QED
  BY <1>11, <1>12, <1>13, Zenon

Last(l, k, i) ==
  /\ i \in DOMAIN l /\ l[i].key = k
  /\ \A j \in DOMAIN l : j > i => l[j].key # k

(* Replay keeps the last record of each key.                               *)
LEMMA ReplayLast ==
  ASSUME NEW l \in Seq(Records), NEW k \in Keys, NEW i, Last(l, k, i)
  PROVE  recoverFromWAL(l)[k] = l[i].val
<1> DEFINE H == {j \in DOMAIN l : l[j].key = k}
<1>1. H \in SUBSET (1 .. Len(l)) /\ i \in H /\ Len(l) \in Nat
  BY DEF Last
<1>2. Max(H) \in H /\ \A j \in H : j <= Max(H)
  BY <1>1, LastPosition, Zenon
<1>3. Max(H) = i
  <2>1. i \in Int /\ Max(H) \in Int /\ i <= Max(H)
    BY <1>1, <1>2
  <2>2. ~(Max(H) > i)
    BY <1>2, Zenon DEF Last
  <2> QED
    BY <2>1, <2>2
<1> QED
  BY <1>1, <1>3, Zenon DEF recoverFromWAL

(* Replay leaves a key without records without an entry.                   *)
LEMMA ReplayNone ==
  ASSUME NEW l \in Seq(Records), NEW k \in Keys, \A i \in DOMAIN l : l[i].key # k
  PROVE  recoverFromWAL(l)[k] = None
  BY Zenon DEF recoverFromWAL

(* Replay either finds no record of a key or returns its last one.         *)
LEMMA ReplayCases ==
  ASSUME NEW l \in Seq(Records), NEW k \in Keys
  PROVE  \/ (\A i \in DOMAIN l : l[i].key # k) /\ recoverFromWAL(l)[k] = None
         \/ \E i \in DOMAIN l : Last(l, k, i) /\ recoverFromWAL(l)[k] = l[i].val
<1> DEFINE H == {j \in DOMAIN l : l[j].key = k}
<1>1. CASE H = {}
  BY <1>1, ReplayNone, Zenon
<1>2. CASE H # {}
  <2>1. H \in SUBSET (1 .. Len(l)) /\ Len(l) \in Nat
    OBVIOUS
  <2>2. Max(H) \in H /\ \A j \in H : j <= Max(H)
    BY <1>2, <2>1, LastPosition, Zenon
  <2>3. ASSUME NEW j \in DOMAIN l, j > Max(H) PROVE l[j].key # k
    <3>1. j \in Int /\ Max(H) \in Int
      BY <2>1, <2>2
    <3>2. j \notin H
      <4> HIDE DEF H
      <4> QED
        BY <2>2, <2>3, <3>1
    <3> QED
      BY <3>2, Zenon
  <2>4. Last(l, k, Max(H))
    BY <2>2, <2>3, Zenon DEF Last
  <2> QED
    BY <2>2, <2>4, ReplayLast, Zenon
<1> QED
  BY <1>1, <1>2, Zenon

(* Replay yields a memtable.                                               *)
LEMMA ReplayTyped ==
  ASSUME NEW l \in Seq(Records)
  PROVE  recoverFromWAL(l) \in Tables
<1>1. ASSUME NEW k \in Keys PROVE recoverFromWAL(l)[k] \in Cells
  <2>1. CASE recoverFromWAL(l)[k] = None
    BY <2>1, Zenon DEF Cells
  <2>2. CASE \E i \in DOMAIN l : recoverFromWAL(l)[k] = l[i].val
    <3>1. PICK i \in DOMAIN l : recoverFromWAL(l)[k] = l[i].val
      BY <2>2, Zenon
    <3>2. l[i] \in Records
      OBVIOUS
    <3> QED
      BY <3>1, <3>2, Zenon DEF Records, Cells
  <2> QED
    BY <2>1, <2>2, ReplayCases, Zenon
<1>2. recoverFromWAL(l) = [k \in Keys |-> recoverFromWAL(l)[k]]
  BY Zenon DEF recoverFromWAL
<1> QED
  BY <1>1, <1>2, Zenon DEF Tables

(* Flushing the log changes neither the records nor their order.           *)
LEMMA StableTyped ==
  ASSUME NEW l \in Seq(Records)
  PROVE  /\ Stable(l) \in Seq(Records) /\ DOMAIN Stable(l) = DOMAIN l
         /\ Len(Stable(l)) = Len(l)
         /\ \A i \in DOMAIN l : /\ Stable(l)[i].key = l[i].key
                                /\ Stable(l)[i].val = l[i].val
                                /\ Stable(l)[i].stable = TRUE
<1>1. PICK n \in Nat : n = Len(l) /\ DOMAIN l = 1 .. n
  OBVIOUS
<1>2. Stable(l) = [i \in 1 .. n |-> [l[i] EXCEPT !.stable = TRUE]]
  BY <1>1, Zenon DEF Stable
<1>3. ASSUME NEW i \in 1 .. n
      PROVE  /\ [l[i] EXCEPT !.stable = TRUE] \in Records
             /\ [l[i] EXCEPT !.stable = TRUE].key = l[i].key
             /\ [l[i] EXCEPT !.stable = TRUE].val = l[i].val
             /\ [l[i] EXCEPT !.stable = TRUE].stable = TRUE
  <2>1. l[i] \in Records
    BY <1>1
  <2> QED
    BY <2>1, Zenon DEF Records
<1>4. Stable(l) \in [1 .. n -> Records]
  BY <1>2, <1>3, Zenon
<1>5. Stable(l) \in Seq(Records) /\ Len(Stable(l)) = n /\ DOMAIN Stable(l) = 1 .. n
  BY <1>4
<1> QED
  BY <1>1, <1>2, <1>3, <1>5, Zenon

(* An appended record is the one that replay keeps for its key.            *)
LEMMA ReplayAppend ==
  ASSUME NEW l \in Seq(Records), NEW r \in Records, NEW k \in Keys
  PROVE  recoverFromWAL(Append(l, r))[k] = IF r.key = k THEN r.val ELSE recoverFromWAL(l)[k]
<1>1. PICK n \in Nat : n = Len(l) /\ DOMAIN l = 1 .. n
  OBVIOUS
<1>2. PICK m : m = Append(l, r) /\ m \in Seq(Records)
  <2>1. Append(l, r) \in Seq(Records)
    OBVIOUS
  <2> QED
    BY <2>1, Zenon
<1>3. DOMAIN m = 1 .. n + 1 /\ m[n + 1] = r /\ \A i \in 1 .. n : m[i] = l[i]
  BY <1>1, <1>2
<1>4. CASE r.key = k
  <2>1. Last(m, k, n + 1)
    BY <1>3, <1>4 DEF Last
  <2>2. recoverFromWAL(m)[k] = m[n + 1].val
    BY <1>2, <2>1, ReplayLast, Zenon
  <2> QED
    BY <1>2, <1>3, <1>4, <2>2, Zenon
<1>5. CASE r.key # k
  <2>1. CASE (\A i \in DOMAIN l : l[i].key # k) /\ recoverFromWAL(l)[k] = None
    <3>1. \A i \in DOMAIN m : m[i].key # k
      BY <1>1, <1>3, <1>5, <2>1, SMTT(30)
    <3> QED
      BY <1>2, <1>5, <2>1, <3>1, ReplayNone, Zenon
  <2>2. CASE \E i \in DOMAIN l : Last(l, k, i) /\ recoverFromWAL(l)[k] = l[i].val
    <3>1. PICK i \in DOMAIN l : Last(l, k, i) /\ recoverFromWAL(l)[k] = l[i].val
      BY <2>2, Zenon
    <3>2. Last(m, k, i)
      BY <1>1, <1>3, <1>5, <3>1, SMTT(30) DEF Last
    <3>3. m[i].val = l[i].val
      BY <1>1, <1>3, <3>1, Zenon
    <3> QED
      BY <1>2, <1>5, <3>1, <3>2, <3>3, ReplayLast, Zenon
  <2> QED
    BY <2>1, <2>2, ReplayCases, Zenon
<1> QED
  BY <1>4, <1>5, Zenon

(* Replay does not depend on which records are stable.                     *)
LEMMA ReplayStable ==
  ASSUME NEW l \in Seq(Records), NEW k \in Keys
  PROVE  recoverFromWAL(Stable(l))[k] = recoverFromWAL(l)[k]
<1>1. PICK m \in Seq(Records) : m = Stable(l)
  BY StableTyped, Zenon
<1>2. DOMAIN m = DOMAIN l /\ \A i \in DOMAIN l : m[i].key = l[i].key /\ m[i].val = l[i].val
  BY <1>1, StableTyped, Zenon
<1>3. CASE (\A i \in DOMAIN l : l[i].key # k) /\ recoverFromWAL(l)[k] = None
  <2>1. \A i \in DOMAIN m : m[i].key # k
    BY <1>2, <1>3, Zenon
  <2> QED
    BY <1>1, <1>3, <2>1, ReplayNone, Zenon
<1>4. CASE \E i \in DOMAIN l : Last(l, k, i) /\ recoverFromWAL(l)[k] = l[i].val
  <2>1. PICK i \in DOMAIN l : Last(l, k, i) /\ recoverFromWAL(l)[k] = l[i].val
    BY <1>4, Zenon
  <2>2. Last(m, k, i)
    BY <1>2, <2>1, Zenon DEF Last
  <2> QED
    BY <1>1, <1>2, <2>1, <2>2, ReplayLast, Zenon
<1> QED
  BY <1>3, <1>4, ReplayCases, Zenon

(* An empty log replays to an empty memtable.                              *)
LEMMA ReplayEmpty == recoverFromWAL(<<>>) = Empty
  BY DEF recoverFromWAL, Empty

(* A new name is past every name of its level.                             *)
LEMMA NextCounterFresh ==
  ASSUME NEW N \in SUBSET Names, IsFiniteSet(N), NEW level
  PROVE  /\ NextCounter(N, level) \in Nat
         /\ \A f \in N : f[1] = level => f[2] < NextCounter(N, level)
<1>1. PICK S : S = {g \in N : g[1] = level}
  BY Zenon
<1>2. PICK U : U = {f[2] : f \in S}
  BY Zenon
<1>3. U \in SUBSET Nat
  BY <1>1, <1>2, Zenon DEF Names
<1>4. IsFiniteSet(S)
  BY <1>1, FS_Subset, Zenon
<1>5. IsFiniteSet(U)
  <2>1. [f \in S |-> f[2]] \in Surjection(S, U)
    BY <1>2, Zenon DEF Surjection
  <2> QED
    BY <1>4, <2>1, FS_Surjection, Zenon
<1>6. CASE U = {}
  <2>1. NextCounter(N, level) = 0
    BY <1>1, <1>2, <1>6, Zenon DEF NextCounter
  <2> QED
    BY <1>1, <1>2, <1>6, <2>1
<1>7. CASE U # {}
  <2>1. Max(U) \in U /\ \A y \in U : y <= Max(U)
    BY <1>3, <1>5, <1>7, MaxOfFinite, SMTT(30)
  <2>2. NextCounter(N, level) = Max(U) + 1
    BY <1>1, <1>2, <1>7, Zenon DEF NextCounter
  <2>3. ASSUME NEW f \in N, f[1] = level PROVE f[2] \in U
    BY <1>1, <1>2, <2>3, Zenon
  <2>4. PICK m \in Nat : m = Max(U)
    BY <1>3, <2>1, Zenon
  <2>5. ASSUME NEW f \in N, f[1] = level PROVE f[2] < m + 1
    <3>1. f[2] \in U
      BY <2>3, <2>5, Zenon
    <3>2. f[2] \in Nat /\ f[2] <= m
      BY <1>3, <2>1, <2>4, <3>1, Zenon
    <3> QED
      BY <3>2
  <2> QED
    BY <2>2, <2>4, <2>5
<1> QED
  BY <1>6, <1>7, Zenon

(* Positions of entries in outputs of L entries each.                      *)
LEMMA OutputFileExists ==
  ASSUME NEW r \in Nat, NEW c \in Nat, r < c, NEW L \in Nat \ {0}
  PROVE  (r \div L) + 1 \in 1 .. ((c + L - 1) \div L)
<1>1. r \div L \in Nat /\ (c + L - 1) \div L \in Nat
  OBVIOUS
<1>2. (r \div L) + 1 <= (c + L - 1) \div L
  OBVIOUS
<1> QED
  BY <1>1, <1>2

(* The outputs hold the live entries of the inputs, each once, under names *)
(* past every level-1 name.                                                *)
LEMMA OutputsMerge ==
  ASSUME NEW T \in Seq(TableRecs), NEW d, IsFiniteSet(DOMAIN d), DOMAIN d \subseteq Names,
         NEW unread
  PROVE  /\ Outputs(T, d, unread) \in Seq(TableRecs)
         /\ \A i \in DOMAIN Outputs(T, d, unread) :
              /\ Outputs(T, d, unread)[i].name[1] = 1
              /\ \A j \in DOMAIN Outputs(T, d, unread) :
                   i < j => Outputs(T, d, unread)[i].name[2] < Outputs(T, d, unread)[j].name[2]
              /\ \A f \in DOMAIN d \cup ListNames(T) :
                   f[1] = 1 => f[2] < Outputs(T, d, unread)[i].name[2]
         /\ \A i \in DOMAIN Outputs(T, d, unread), k \in Keys :
              Outputs(T, d, unread)[i].data[k] # None =>
                /\ Outputs(T, d, unread)[i].data[k] = Lookup(Inputs(T, d, unread), k)
                /\ Lookup(Inputs(T, d, unread), k) \in Values
         /\ \A k \in Keys : Lookup(Inputs(T, d, unread), k) \in Values =>
              \E i \in DOMAIN Outputs(T, d, unread) : Outputs(T, d, unread)[i].data[k] # None
<1> DEFINE N == DOMAIN d \cup ListNames(T)
           start == NextCounter(N, 1)
           kept == {k \in Keys : Lookup(Inputs(T, d, unread), k) \in Values}
           rank(k) == Cardinality({j \in kept : j < k})
           L == L1_MAX_FILE_ENTRIES
           n == (Cardinality(kept) + L - 1) \div L
           data(i) == [k \in Keys |-> IF k \in kept /\ rank(k) \div L = i - 1
                                        THEN Lookup(Inputs(T, d, unread), k) ELSE None]
           O == Outputs(T, d, unread)
<1>1. N \in SUBSET Names /\ IsFiniteSet(N)
  <2>1. ListNames(T) \in SUBSET Names
    <3>1. ASSUME NEW i \in DOMAIN T PROVE T[i].name \in Names
      <4>1. T[i] \in TableRecs
        OBVIOUS
      <4> QED
        BY <4>1, Zenon DEF TableRecs
    <3> QED
      BY <3>1, Zenon DEF ListNames
  <2>2. PICK m \in Nat : DOMAIN T = 1 .. m
    OBVIOUS
  <2>3. [i \in 1 .. m |-> T[i].name] \in Surjection(1 .. m, ListNames(T))
    BY <2>2, Zenon DEF Surjection, ListNames
  <2>4. IsFiniteSet(1 .. m)
    BY FS_Interval
  <2>5. IsFiniteSet(ListNames(T))
    BY <2>3, <2>4, FS_Surjection, Zenon
  <2> QED
    BY <2>1, <2>5, FS_Union, Zenon
<1>2. start \in Nat /\ \A f \in N : f[1] = 1 => f[2] < start
  BY <1>1, NextCounterFresh, Zenon
<1>3. kept \in SUBSET Keys /\ IsFiniteSet(kept) /\ Cardinality(kept) \in Nat
  <2>1. IsFiniteSet(Keys)
    BY TablesAssumption, FS_Interval DEF Keys
  <2> QED
    BY <2>1, FS_Subset, FS_CardinalityType, Zenon
<1>4. ASSUME NEW k \in kept PROVE rank(k) \in Nat /\ rank(k) < Cardinality(kept)
  <2>1. {j \in kept : j < k} \in SUBSET kept /\ k \notin {j \in kept : j < k}
    BY <1>3 DEF Keys
  <2>2. IsFiniteSet({j \in kept : j < k})
    BY <1>3, <2>1, FS_Subset, Zenon
  <2>3. rank(k) <= Cardinality(kept) /\ rank(k) # Cardinality(kept)
    BY <1>3, <2>1, FS_Subset, Zenon
  <2>4. rank(k) \in Nat
    BY <2>2, FS_CardinalityType, Zenon
  <2> QED
    BY <1>3, <2>3, <2>4
<1>5. L \in Nat \ {0} /\ n \in Nat
  BY <1>3, TablesAssumption
<1>6. O = [i \in 1 .. n |-> [name |-> <<1, start + i - 1>>, data |-> data(i)]]
  BY Zenon DEF Outputs, Inputs, ListNames
<1> HIDE DEF kept, start, n, L, O, N
<1>7. \A i \in 1 .. n : data(i) \in Tables
  BY Zenon DEF Tables, Cells, kept
<1>8. \A i \in 1 .. n : <<1, start + i - 1>> \in Names
  BY <1>2, <1>5 DEF Names
<1>9. O \in [1 .. n -> TableRecs]
  BY <1>6, <1>7, <1>8, Zenon DEF TableRecs
<1>10. O \in Seq(TableRecs) /\ DOMAIN O = 1 .. n
  BY <1>5, <1>9
<1>11. \A i \in 1 .. n : /\ O[i].name = <<1, start + i - 1>>
                         /\ O[i].name[1] = 1 /\ O[i].name[2] = start + i - 1
                         /\ O[i].data = data(i)
  <2> TAKE i \in 1 .. n
  <2>1. O[i].name = <<1, start + i - 1>> /\ O[i].data = data(i)
    BY <1>6, Zenon
  <2> QED
    BY <2>1
<1>12. ASSUME NEW i \in 1 .. n
       PROVE  /\ O[i].name[1] = 1
              /\ \A j \in 1 .. n : i < j => O[i].name[2] < O[j].name[2]
              /\ \A f \in N : f[1] = 1 => f[2] < O[i].name[2]
  <2>1. O[i].name[1] = 1 /\ O[i].name[2] = start + i - 1
    BY <1>11, Zenon
  <2>2. \A j \in 1 .. n : O[j].name[2] = start + j - 1
    BY <1>11, Zenon
  <2>3. \A f \in N : f[1] = 1 => f[2] \in Nat
    BY <1>1, Zenon DEF Names
  <2> QED
    BY <1>2, <1>5, <2>1, <2>2, <2>3, SMTT(30)
<1>13. ASSUME NEW i \in 1 .. n, NEW k \in Keys, O[i].data[k] # None
       PROVE  /\ O[i].data[k] = Lookup(Inputs(T, d, unread), k)
              /\ Lookup(Inputs(T, d, unread), k) \in Values
  BY <1>11, <1>13, Zenon DEF kept
<1>14. ASSUME NEW k \in Keys, Lookup(Inputs(T, d, unread), k) \in Values
       PROVE  \E i \in 1 .. n : O[i].data[k] # None
  <2>1. k \in kept
    BY <1>14, Zenon DEF kept
  <2>2. PICK r \in Nat : r = rank(k) /\ r < Cardinality(kept)
    BY <1>4, <2>1, Zenon
  <2>3. (r \div L) + 1 \in 1 .. n
    BY <1>3, <1>5, <2>2, OutputFileExists, Zenon DEF n
  <2>4. r \div L \in Nat
    BY <1>5, <2>2
  <2>5. PICK i \in 1 .. n : i - 1 = r \div L
    BY <2>3, <2>4
  <2>6. O[i].data[k] = Lookup(Inputs(T, d, unread), k)
    BY <1>11, <2>1, <2>2, <2>5, Zenon
  <2>7. Lookup(Inputs(T, d, unread), k) # None
    BY <1>14, TablesAssumption, Zenon
  <2> QED
    BY <2>6, <2>7, Zenon
<1> QED
  BY <1>10, <1>12, <1>13, <1>14, Zenon DEF O, N

(* What a reader is shown is a value or that there is none.                *)
LEMMA LiveTyped ==
  ASSUME NEW c \in Cells
  PROVE  Live(c) \in Shows
  BY Zenon DEF Cells, Live, Shows

(* What a lookup returns is an entry of some table, or none.               *)
LEMMA LookupTyped ==
  ASSUME NEW T \in Seq(TableRecs), NEW k \in Keys
  PROVE  Lookup(T, k) \in Cells
<1>1. PICK n \in Nat : DOMAIN T = 1 .. n
  OBVIOUS
<1>2. ASSUME NEW i \in 1 .. n PROVE T[i].data[k] \in Cells
  <2>1. T[i] \in TableRecs
    BY <1>1
  <2> QED
    BY <2>1, Zenon DEF TableRecs, Tables
<1> QED
  BY <1>1, <1>2, LookupCases DEF Cells

(* get() returns a value or that there is none.                            *)
LEMMA ReadTyped ==
  ASSUME NEW m \in Tables, NEW T \in Seq(TableRecs), NEW k \in Keys
  PROVE  Read(m, T, k) \in Shows
  BY LookupTyped, LiveTyped, Zenon DEF Read, Tables

(* A rename changes the table under one name only.                         *)
LEMMA RenamedFiles ==
  ASSUME NEW d, NEW f, NEW t
  PROVE  /\ DOMAIN Renamed(d, f, t) = DOMAIN d \cup {f}
         /\ Renamed(d, f, t)[f] = t
         /\ \A g \in DOMAIN d : g # f => Renamed(d, f, t)[g] = d[g]
  BY Zenon DEF Renamed

(* A rename keeps a directory of tables one.                               *)
LEMMA RenamedTyped ==
  ASSUME NEW d, Files(d), NEW f \in Names, NEW t \in Tables
  PROVE  Files(Renamed(d, f, t))
<1>1. IsFiniteSet(DOMAIN d \cup {f})
  BY FS_AddElement, Zenon DEF Files
<1>2. DOMAIN Renamed(d, f, t) = DOMAIN d \cup {f}
  BY RenamedFiles, Zenon
<1>3. ASSUME NEW g \in DOMAIN d \cup {f} PROVE Renamed(d, f, t)[g] \in Tables
  <2>1. CASE g = f
    BY <2>1, Zenon DEF Renamed
  <2>2. CASE g # f
    BY <2>2, Zenon DEF Files, Renamed
  <2> QED
    BY <2>1, <2>2, Zenon
<1> QED
  BY <1>1, <1>2, <1>3, Zenon DEF Files

(* A removal keeps a directory of tables one.                              *)
LEMMA RemovedTyped ==
  ASSUME NEW d, Files(d), NEW f
  PROVE  Files(Removed(d, f))
<1>1. IsFiniteSet(DOMAIN d \ {f})
  BY FS_RemoveElement, Zenon DEF Files
<1> QED
  BY <1>1, Zenon DEF Files, Removed

(* Merged tables read as the tables they were merged from.                 *)
LEMMA MergedReads ==
  ASSUME NEW T \in Seq(TableRecs), NEW U \in Seq(TableRecs), Merges(U, T), Covers(U, T),
         NEW k \in Keys
  PROVE  Live(Lookup(U, k)) = Live(Lookup(T, k))
<1>1. PICK n \in Nat : DOMAIN U = 1 .. n
  OBVIOUS
<1>2. CASE (\A j \in 1 .. n : U[j].data[k] = None) /\ Lookup(U, k) = None
  <2>1. Lookup(T, k) \notin Values
    BY <1>1, <1>2, Zenon DEF Covers
  <2> QED
    BY <1>2, <2>1, LookupTyped, Zenon DEF Live, Cells
<1>3. CASE \E i \in 1 .. n : Newest(U, n, k, i) /\ Lookup(U, k) = U[i].data[k]
  BY <1>1, <1>3, Zenon DEF Newest, Merges
<1> QED
  BY <1>1, <1>2, <1>3, LookupCases, Zenon

(* After a restart a key has no entry, or one file decides what it reads   *)
(* as.                                                                     *)
LEMMA DecidingFile ==
  ASSUME NEW d, Files(d), NEW k
  PROVE  \/ (\A f \in DOMAIN d : d[f][k] = None) /\ Lookup(loadSSTables(d), k) = None
         \/ \E f \in DOMAIN d : Decides(d, k, f) /\ Lookup(loadSSTables(d), k) = d[f][k]
<1> USE DEF Files
<1> DEFINE S == {f \in DOMAIN d : d[f][k] # None}
<1>1. CASE S = {}
  BY <1>1, LoadsLookup, Zenon
<1>2. CASE S # {}
  <2>1. S \in SUBSET Names /\ IsFiniteSet(S)
    BY FS_Subset, Zenon
  <2>2. /\ StrictOrder(LoadOrder, S)
        /\ \A f, g \in S : <<f, g>> \in LoadOrder <=> LoadsBefore(f, g)
    BY <2>1, LoadOrderStrict, Zenon
  <2>3. PICK f \in S : \A g \in S : g = f \/ <<g, f>> \in LoadOrder
    <3> HIDE DEF S
    <3> QED
      BY <1>2, <2>1, <2>2, GreatestExists, Zenon
  <2>4. Decides(d, k, f)
    BY <2>2, <2>3, Zenon DEF Decides
  <2>5. Lookup(loadSSTables(d), k) = d[f][k]
    BY <2>4, LoadsLookup, Zenon DEF Decides
  <2> QED
    BY <2>4, <2>5, Zenon
<1> QED
  BY <1>1, <1>2, Zenon

(* A record of the log has a key, and a value or a tombstone.              *)
LEMMA RecordTyped ==
  ASSUME NEW l \in Seq(Records), NEW i \in DOMAIN l
  PROVE  l[i].key \in Keys /\ l[i].val \in Values \cup {Tomb} /\ l[i].val # None
<1>1. l[i] \in Records
  OBVIOUS
<1> QED
  BY <1>1, TablesAssumption, Zenon DEF Records, Tomb, None

(* The log as it is replays to such values.                                *)
LEMMA BoundedReplay ==
  ASSUME NEW l \in Seq(Records), NEW d, NEW m, Bounded(l, d, m), NEW k \in Keys
  PROVE  Read(recoverFromWAL(l), loadSSTables(d), k) \in m[k]
<1>1. CASE (\A i \in DOMAIN l : l[i].key # k) /\ recoverFromWAL(l)[k] = None
  <2>1. Exposed(l, k, 0)
    BY <1>1, Zenon DEF Exposed
  <2> QED
    BY <1>1, <2>1, Zenon DEF Bounded, Read
<1>2. CASE \E i \in DOMAIN l : Last(l, k, i) /\ recoverFromWAL(l)[k] = l[i].val
  <2>1. PICK i \in DOMAIN l : Last(l, k, i) /\ recoverFromWAL(l)[k] = l[i].val
    BY <1>2, Zenon
  <2>2. Exposed(l, l[i].key, i) /\ l[i].key = k
    BY <2>1, Zenon DEF Exposed, Last
  <2>3. l[i].val # None
    BY RecordTyped, Zenon
  <2> QED
    BY <2>1, <2>2, <2>3, Zenon DEF Bounded, Read
<1> QED
  BY <1>1, <1>2, ReplayCases, Zenon

(* Losing unstable records uncovers nothing else.                          *)
LEMMA BoundedWithout ==
  ASSUME NEW l \in Seq(Records), NEW d, NEW m, Bounded(l, d, m),
         NEW lost \in SUBSET {i \in DOMAIN l : ~l[i].stable}
  PROVE  Bounded(Without(l, lost), d, m)
<1>a. PICK n \in Nat : \E s : Keeps(l, lost, Without(l, lost), n, s)
  BY WithoutKeepsOrder, Zenon
<1>0. PICK s : Keeps(l, lost, Without(l, lost), n, s)
  BY <1>a, Zenon
<1>1. /\ s \in [1 .. n -> DOMAIN l \ lost]
      /\ \A i, j \in 1 .. n : i < j => s[i] < s[j]
      /\ \A j \in DOMAIN l \ lost : \E i \in 1 .. n : s[i] = j
  BY <1>0, Zenon DEF Keeps
<1>2. PICK w : w = Without(l, lost)
  BY Zenon
<1>3. DOMAIN w = 1 .. n /\ \A i \in 1 .. n : w[i] = l[s[i]]
  BY <1>0, <1>2, Zenon DEF Keeps
<1>4. \A j \in DOMAIN l : j \in Int /\ j > 0
  OBVIOUS
<1>5. ASSUME NEW i \in 1 .. n, Exposed(w, w[i].key, i)
      PROVE  Live(w[i].val) \in m[w[i].key]
  <2>1. s[i] \in DOMAIN l /\ w[i] = l[s[i]]
    BY <1>1, <1>3, Zenon
  <2>2. ASSUME NEW j \in DOMAIN l, j > s[i], l[j].key = w[i].key, l[j].stable PROVE FALSE
    <3>1. j \in DOMAIN l \ lost
      BY <2>2, Zenon
    <3>2. PICK h \in 1 .. n : s[h] = j
      BY <1>1, <3>1, Zenon
    <3>3. h > i
      <4>1. CASE h < i
        BY <1>1, <1>4, <2>1, <2>2, <3>2, <4>1, SMTT(30)
      <4>2. CASE h = i
        BY <1>4, <2>1, <2>2, <3>2, <4>2, SMTT(30)
      <4> QED
        BY <4>1, <4>2
    <3> QED
      BY <1>3, <1>5, <2>2, <3>2, <3>3, Zenon DEF Exposed
  <2>3. Exposed(l, l[s[i]].key, s[i])
    BY <2>1, <2>2, Zenon DEF Exposed
  <2> QED
    BY <2>1, <2>3, Zenon DEF Bounded
<1>6. ASSUME NEW k \in Keys, Exposed(w, k, 0)
      PROVE  Live(Lookup(loadSSTables(d), k)) \in m[k]
  <2>1. ASSUME NEW j \in DOMAIN l, l[j].key = k, l[j].stable PROVE FALSE
    <3>1. j \in DOMAIN l \ lost
      BY <2>1, Zenon
    <3>2. PICK h \in 1 .. n : s[h] = j
      BY <1>1, <3>1, Zenon
    <3> QED
      BY <1>3, <1>6, <2>1, <3>2, SMTT(30) DEF Exposed
  <2>2. Exposed(l, k, 0)
    BY <2>1, Zenon DEF Exposed
  <2> QED
    BY <2>2, Zenon DEF Bounded
<1> QED
  BY <1>2, <1>3, <1>5, <1>6, Zenon DEF Bounded

(* With every record stable only the last one of each key counts.          *)
LEMMA BoundedStable ==
  ASSUME NEW l \in Seq(Records), NEW d, NEW m,
         \A k \in Keys : Read(recoverFromWAL(l), loadSSTables(d), k) \in m[k]
  PROVE  Bounded(Stable(l), d, m)
<1>1. PICK w \in Seq(Records) : w = Stable(l)
  BY StableTyped, Zenon
<1>2. /\ DOMAIN w = DOMAIN l
      /\ \A i \in DOMAIN l : w[i].key = l[i].key /\ w[i].val = l[i].val /\ w[i].stable
  BY <1>1, StableTyped, Zenon
<1>3. \A i \in DOMAIN l : l[i].key \in Keys /\ l[i].val # None
  BY RecordTyped, Zenon
<1>4. ASSUME NEW i \in DOMAIN w, Exposed(w, w[i].key, i)
      PROVE  Live(w[i].val) \in m[w[i].key]
  <2>1. Last(l, l[i].key, i)
    BY <1>2, <1>4, Zenon DEF Exposed, Last
  <2>2. recoverFromWAL(l)[l[i].key] = l[i].val
    BY <1>2, <1>3, <2>1, ReplayLast, SMTT(30)
  <2>3. Read(recoverFromWAL(l), loadSSTables(d), l[i].key) \in m[l[i].key]
    BY <1>2, <1>3, Zenon
  <2> QED
    BY <1>2, <1>3, <2>2, <2>3, Zenon DEF Read
<1>5. ASSUME NEW k \in Keys, Exposed(w, k, 0)
      PROVE  Live(Lookup(loadSSTables(d), k)) \in m[k]
  <2>1. \A i \in DOMAIN l : l[i].key # k
    BY <1>2, <1>5 DEF Exposed
  <2>2. recoverFromWAL(l)[k] = None
    BY <2>1, ReplayNone, Zenon
  <2> QED
    BY <2>2, Zenon DEF Read
<1> QED
  BY <1>1, <1>4, <1>5, Zenon DEF Bounded

(* A bound survives an append once it admits the appended value.           *)
LEMMA BoundedAppend ==
  ASSUME NEW l \in Seq(Records), NEW d, NEW m \in [Keys -> SUBSET Shows], Bounded(l, d, m),
         NEW r \in Records, ~r.stable
  PROVE  Bounded(Append(l, r), d, [m EXCEPT ![r.key] = @ \cup {Live(r.val)}])
<1>1. PICK n \in Nat : n = Len(l) /\ DOMAIN l = 1 .. n
  OBVIOUS
<1>2. PICK w : w = Append(l, r)
  BY Zenon
<1>3. DOMAIN w = 1 .. n + 1 /\ w[n + 1] = r /\ \A i \in 1 .. n : w[i] = l[i]
  BY <1>1, <1>2
<1>4. PICK u : u = [m EXCEPT ![r.key] = @ \cup {Live(r.val)}]
  BY Zenon
<1>5. r.key \in Keys /\ \A i \in 1 .. n : l[i].key \in Keys
  <2>1. \A i \in 1 .. n : l[i].key \in Keys
    BY <1>1, RecordTyped, Zenon
  <2> QED
    BY <2>1, Zenon DEF Records
<1>6. Live(r.val) \in u[r.key] /\ \A k \in Keys : m[k] \subseteq u[k]
  BY <1>4, <1>5, Zenon
<1>7. ASSUME NEW i \in 1 .. n + 1, Exposed(w, w[i].key, i)
      PROVE  Live(w[i].val) \in u[w[i].key]
  <2>1. CASE i = n + 1
    BY <1>3, <1>6, <2>1, Zenon
  <2>2. CASE i # n + 1
    <3>1. i \in 1 .. n /\ w[i] = l[i]
      <4>1. i \in 1 .. n
        BY <2>2
      <4> QED
        BY <1>3, <4>1, Zenon
    <3>2. Exposed(l, l[i].key, i)
      BY <1>1, <1>3, <1>7, <3>1, SMTT(30) DEF Exposed
    <3> QED
      BY <1>1, <1>5, <1>6, <3>1, <3>2, Zenon DEF Bounded
  <2> QED
    BY <2>1, <2>2, Zenon
<1>8. ASSUME NEW k \in Keys, Exposed(w, k, 0)
      PROVE  Live(Lookup(loadSSTables(d), k)) \in u[k]
  <2>1. Exposed(l, k, 0)
    BY <1>1, <1>3, <1>8, SMTT(30) DEF Exposed
  <2> QED
    BY <1>6, <2>1, Zenon DEF Bounded
<1>9. Bounded(w, d, u)
  BY <1>3, <1>7, <1>8, Zenon DEF Bounded
<1> QED
  BY <1>2, <1>4, <1>9, Zenon

-----------------------------------------------------------------------------
(* The promises of LSMTableFacts, one by one.                              *)

(* The promises about reads.                                               *)
LEMMA ReadFacts ==
  /\ LookupNewestFact /\ LookupNoneFact /\ LookupSameFact /\ LookupAppendFact
  /\ LookupTypedFact /\ ReadTypedFact /\ MergedReadsFact
<1>1. LookupNewestFact
  BY LookupNewest, Zenon DEF LookupNewestFact
<1>2. LookupNoneFact
  BY LookupNone, Zenon DEF LookupNoneFact
<1>3. LookupSameFact
  BY LookupSame DEF LookupSameFact
<1>4. LookupAppendFact
  BY LookupAppend DEF LookupAppendFact
<1>5. LookupTypedFact /\ ReadTypedFact
  BY LookupTyped, ReadTyped, Zenon DEF LookupTypedFact, ReadTypedFact
<1>6. MergedReadsFact
  BY MergedReads, Zenon DEF MergedReadsFact
<1> QED
  BY <1>1, <1>2, <1>3, <1>4, <1>5, <1>6, Zenon

(* The promises about the files.                                           *)
LEMMA FileFacts ==
  /\ NoFilesFact /\ RenamedFact /\ RemovedFact
  /\ LoadsFilesFact /\ LoadsListedFact /\ LoadsLookupFact /\ DecidingFileFact
  /\ NextCounterFact /\ OutputsFact
<1>1. NoFilesFact
  BY FS_EmptySet DEF NoFilesFact, Files
<1>2. RenamedFact /\ RemovedFact
  BY RenamedTyped, RemovedTyped, Zenon DEF RenamedFact, RemovedFact
<1>3. LoadsFilesFact
  <2> SUFFICES ASSUME NEW d, Files(d)
               PROVE  /\ loadSSTables(d) \in Seq(TableRecs)
                      /\ \E n \in Nat : ListsFiles(d, loadSSTables(d), n)
    BY Zenon DEF LoadsFilesFact
  <2>1. PICK T : T = loadSSTables(d)
    BY Zenon
  <2>2. PICK n \in Nat :
           /\ T \in Seq([name : DOMAIN d, data : {d[f] : f \in DOMAIN d}])
           /\ Len(T) = n /\ DOMAIN T = 1 .. n
           /\ \A i \in 1 .. n : T[i].data = d[T[i].name]
           /\ \A i, j \in 1 .. n : i < j => LoadsBefore(T[i].name, T[j].name)
           /\ \A f \in DOMAIN d : \E i \in 1 .. n : T[i].name = f
    BY <2>1, LoadsFiles, Zenon DEF Files
  <2>3. T \in [1 .. n -> [name : DOMAIN d, data : {d[f] : f \in DOMAIN d}]]
    BY <2>2, SeqElements, Zenon
  <2>4. ListsFiles(d, T, n)
    BY <2>2, <2>3, Zenon DEF ListsFiles
  <2> QED
    BY <2>1, <2>4, LoadsTyped, Zenon
<1>4. LoadsListedFact
  BY LoadsListed, Zenon DEF LoadsListedFact
<1>5. LoadsLookupFact
  BY LoadsLookup, Zenon DEF LoadsLookupFact, Decides, Files
<1>6. DecidingFileFact
  BY DecidingFile, Zenon DEF DecidingFileFact
<1>7. NextCounterFact
  BY NextCounterFresh, Zenon DEF NextCounterFact
<1>8. OutputsFact
  <2> SUFFICES ASSUME NEW T \in Seq(TableRecs), NEW d, NEW unread, Files(d)
               PROVE  /\ Outputs(T, d, unread) \in Seq(TableRecs)
                      /\ Numbered(Outputs(T, d, unread), DOMAIN d \cup ListNames(T))
                      /\ Merges(Outputs(T, d, unread), Inputs(T, d, unread))
                      /\ Covers(Outputs(T, d, unread), Inputs(T, d, unread))
    BY Zenon DEF OutputsFact
  <2>1. PICK O, I : O = Outputs(T, d, unread) /\ I = Inputs(T, d, unread)
    BY Zenon
  <2>2. IsFiniteSet(DOMAIN d) /\ DOMAIN d \subseteq Names
    BY ZenonT(30) DEF Files
  <2>3. /\ O \in Seq(TableRecs)
        /\ \A i \in DOMAIN O :
             /\ O[i].name[1] = 1
             /\ \A j \in DOMAIN O : i < j => O[i].name[2] < O[j].name[2]
             /\ \A f \in DOMAIN d \cup ListNames(T) : f[1] = 1 => f[2] < O[i].name[2]
        /\ \A i \in DOMAIN O, k \in Keys :
             O[i].data[k] # None => O[i].data[k] = Lookup(I, k) /\ Lookup(I, k) \in Values
        /\ \A k \in Keys :
             Lookup(I, k) \in Values => \E i \in DOMAIN O : O[i].data[k] # None
    BY <2>1, <2>2, OutputsMerge
  <2>4. Numbered(O, DOMAIN d \cup ListNames(T)) /\ Merges(O, I) /\ Covers(O, I)
    BY <2>3, Zenon DEF Numbered, Merges, Covers
  <2> QED
    BY <2>1, <2>3, <2>4, Zenon
<1> QED
  BY <1>1, <1>2, <1>3, <1>4, <1>5, <1>6, <1>7, <1>8, Zenon

(* The promises about the log.                                             *)
LEMMA LogFacts ==
  /\ LogTypedFact /\ ReplayEmptyFact /\ ReplayAppendFact /\ ReplayStableFact
  /\ BoundedReplayFact /\ BoundedWithoutFact /\ BoundedStableFact /\ BoundedAppendFact
<1>1. LogTypedFact
  BY ReplayTyped, StableTyped, WithoutKeepsOrder, Zenon DEF LogTypedFact
<1>2. ReplayEmptyFact /\ ReplayAppendFact /\ ReplayStableFact
  BY ReplayEmpty, ReplayAppend, ReplayStable, ZenonT(30)
     DEF ReplayEmptyFact, ReplayAppendFact, ReplayStableFact
<1>3. BoundedReplayFact
  BY BoundedReplay, Zenon DEF BoundedReplayFact
<1>4. BoundedWithoutFact
  BY BoundedWithout, Zenon DEF BoundedWithoutFact
<1>5. BoundedStableFact
  BY BoundedStable, Zenon DEF BoundedStableFact
<1>6. BoundedAppendFact
  BY BoundedAppend, Zenon DEF BoundedAppendFact
<1> QED
  BY <1>1, <1>2, <1>3, <1>4, <1>5, <1>6, Zenon

(* The operators keep all their promises.                                  *)
THEOREM TablesKeepPromises == TableFacts
  BY ReadFacts, FileFacts, LogFacts, Zenon DEF TableFacts

-----------------------------------------------------------------------------
(* The engine.                                                             *)

(* The inductive invariant of the table list, whatever the faults.         *)
THEOREM TablesInvariant == Spec => []TablesInv
<1>1. Init => TablesInv
  BY TablesKeepPromises, ControlInit, TypesInit, TablesInit, Zenon
     DEF TablesInv
<1>2. TablesInv /\ [Next]_vars => TablesInv'
  BY TablesKeepPromises, TablesStep, Zenon
<1> QED
  BY <1>1, <1>2, PTL DEF Spec

(* Every variable of the engine keeps its type, for any constants.         *)
THEOREM EngineTyped == Spec => []TypeOK
<1>1. TablesInv => TypeOK
  <2> SUFFICES ASSUME TablesInv PROVE TypeOK
    BY Zenon
  <2>1. /\ op.kind \in {"none", "put", "flush", "close"}
        /\ op.kind = "put" => op.key \in Keys /\ op.val \in Values \cup {Tomb}
    BY OpKinds, Zenon DEF TablesInv, Control, Comp
  <2>2. \A i \in DOMAIN log : log[i] \in Records
    BY DEF TablesInv, Types
  <2>3. /\ \A i \in DOMAIN sstables : sstables[i] \in TableRecs
        /\ \A i \in DOMAIN staged : staged[i] \in TableRecs
    BY DEF TablesInv, Types
  <2>4. pc \in {"idle", "down", "broken", "logged", "ack", "flush", "written",
             "registered", "cleared", "publish", "undo", "remove", "closing"}
    BY Zenon DEF TablesInv, Control, Comp
  <2> QED
    BY <2>1, <2>2, <2>3, <2>4, Zenon DEF TablesInv, Types, Files, TypeOK,
       Records, TableRecs, Shows
<1> QED
  BY <1>1, TablesInvariant, PTL

(* With any faults, the file under a listed table's name is the one that   *)
(* was opened, until the compaction that merged it removes it.             *)
THEOREM TablesIntact == Spec => []ListedTablesIntact
<1>1. TablesInv => ListedTablesIntact
  <2> SUFFICES ASSUME TablesInv PROVE ListedTablesIntact
    BY Zenon
  <2>1. \A i, j \in DOMAIN sstables : sstables[i].name = sstables[j].name => i = j
    BY SortedDistinct, Zenon DEF TablesInv, Types, Listed
  <2> QED
    BY <2>1, Zenon DEF TablesInv, Listed, ListedTablesIntact, OnDisk
<1> QED
  BY <1>1, TablesInvariant, PTL

(* Unless a table is orphaned or an input cannot be removed, a flush or    *)
(* compaction that fails or is cut off leaves no table behind.             *)
THEOREM DirectoryExact ==
  ASSUME Faults \cap {"orphan", "remove"} = {}
  PROVE  Spec => []NoResidue
<1>1. Init => TablesInv /\ Residue
  BY TablesKeepPromises, ControlInit, TypesInit, TablesInit, ResidueInit,
     Zenon DEF TablesInv
<1>2. TablesInv /\ Residue /\ [Next]_vars => (TablesInv /\ Residue)'
  BY TablesKeepPromises, TablesStep, ResidueStep, Zenon
<1>3. Residue => NoResidue
  BY Zenon DEF Residue, NoResidue, ListNames, Comp
<1> QED
  BY <1>1, <1>2, <1>3, PTL DEF Spec

(* For every set of faults but an input that cannot be reopened: while the *)
(* engine is open only the memtable insert of a put or del changes what    *)
(* readers see, and it changes only its own key, to its own value.         *)
THEOREM ReadsStable ==
  ASSUME "iterator" \notin Faults
  PROVE  Spec => ReadsFollowCalls
<1>1. Init => TablesInv /\ Reads
  BY TablesKeepPromises, ControlInit, TypesInit, TablesInit, ReadsInit, Zenon
     DEF TablesInv
<1>2. TablesInv /\ Reads /\ [Next]_vars => (TablesInv /\ Reads)'
  BY TablesKeepPromises, TablesStep, ReadsStep, Zenon
<1>3. TablesInv /\ Reads /\ [Next]_vars =>
        [pc # "down" /\ pc' # "down" =>
           \A k \in Keys : get(k)' # get(k) =>
             pc = "logged" /\ k = op.key /\ get(k)' = Live(op.val)]_vars
  <2> SUFFICES ASSUME TablesInv, Reads, [Next]_vars, pc # "down", pc' # "down",
                      NEW k \in Keys, get(k)' # get(k)
               PROVE  pc = "logged" /\ k = op.key /\ get(k)' = Live(op.val)
    BY Zenon
  <2>1. MemtablePut
    BY TablesKeepPromises, GetKept, Zenon
  <2>2. k = op.key
    BY <2>1, PutVisible, TablesKeepPromises, Zenon DEF TablesInv
  <2>3. get(op.key)' = get(k)'
    BY <2>1, <2>2, Zenon DEF MemtablePut, get
  <2> QED
    BY <2>1, <2>2, <2>3, PutVisible, TablesKeepPromises, Zenon DEF TablesInv,
       MemtablePut
<1> QED
  BY <1>1, <1>2, <1>3, PTL DEF Spec, ReadsFollowCalls

(* Between calls the directory, its log complete, opens to what the live   *)
(* engine shows, for every fault that leaves neither a stray record nor a  *)
(* stray table.                                                            *)
THEOREM SnapshotExact ==
  ASSUME Faults \cap {"append", "orphan", "remove"} = {}
  PROVE  Spec => []SnapshotMatchesLive
<1>1. Init => TablesInv /\ Residue /\ Logged
  BY TablesKeepPromises, ControlInit, TypesInit, TablesInit, ResidueInit,
     LoggedInit, Zenon DEF TablesInv
<1>2. TablesInv /\ Residue /\ Logged /\ [Next]_vars => (TablesInv /\ Residue /\ Logged)'
  <2>1. Faults \cap {"orphan", "remove"} = {} /\ "append" \notin Faults
    BY Zenon
  <2> QED
    BY <2>1, TablesKeepPromises, TablesStep, ResidueStep, LoggedStep, Zenon
       DEF TablesInv
<1>3. TablesInv /\ Residue /\ Logged => SnapshotMatchesLive
  <2> SUFFICES ASSUME TablesInv, Residue, Logged, pc = "idle", ~walFailed, NEW k \in Keys
               PROVE  Recovered(k) = get(k)
    BY Zenon DEF SnapshotMatchesLive
  <2>1. loadSSTables(disk) = sstables
    <3>1. loadSSTables(disk) = sstables
      BY TablesKeepPromises, LoadsTheList, Zenon DEF Residue, Comp
    <3> QED
      BY <3>1, Zenon
  <2>2. recoverFromWAL(log)[k] = mem[k]
    <3>1. recoverFromWAL(log)[k] = mem[k]
      BY Zenon DEF Logged
    <3> QED
      BY <3>1, Zenon
  <2> QED
    BY <2>1, <2>2, Zenon DEF Recovered, get, Read
<1> QED
  BY <1>1, <1>2, <1>3, PTL DEF Spec

(* The whole invariant holds, and with it a crash is safe at every step.   *)
LEMMA InvHolds ==
  ASSUME Faults \cap {"orphan", "iterator", "remove"} = {}
  PROVE  Spec => [](Inv /\ Safe)
<1>1. Faults \cap {"orphan", "remove"} = {} /\ "iterator" \notin Faults
  BY Zenon
<1>2. Spec => []Inv
  <2>1. Init => TablesInv /\ Residue /\ Reads /\ Doubts
    BY TablesKeepPromises, ControlInit, TypesInit, TablesInit, ResidueInit,
       ReadsInit, DoubtsInit, Zenon DEF TablesInv
  <2>2. TablesInv /\ Residue /\ Reads /\ Doubts /\ [Next]_vars
          => (TablesInv /\ Residue /\ Reads /\ Doubts)'
    BY <1>1, TablesKeepPromises, TablesStep, ResidueStep, ReadsStep,
       DoubtsStep, Zenon DEF TablesInv
  <2>3. TablesInv /\ Residue /\ Reads => DiskShows
    BY TablesKeepPromises, DiskShowsReads, Zenon
  <2> QED
    BY <2>1, <2>2, <2>3, PTL DEF Spec, Inv
<1>3. Init /\ Inv => Safe
  BY TablesKeepPromises, SafeInit, Zenon DEF Inv
<1>4. Inv /\ Inv' /\ Safe /\ [Next]_vars => Safe'
  BY TablesKeepPromises, SafeStep, Zenon DEF Inv
<1> QED
  BY <1>2, <1>3, <1>4, PTL DEF Spec

(* A crash at any step, with any unstable records lost, leaves each key    *)
(* with a value the contract of put(), sync() and flush() allows.  Each of *)
(* the three faults excluded breaks this alone.                            *)
THEOREM CrashIsSafe ==
  ASSUME Faults \cap {"orphan", "iterator", "remove"} = {}
  PROVE  Spec => []CrashSafe
<1>1. Inv /\ Safe => CrashSafe
  <2> SUFFICES ASSUME Inv, Safe, NEW k \in Keys PROVE Recovered(k) \in may[k]
    BY Zenon DEF CrashSafe
  <2>1. Recovered(k) = Read(recoverFromWAL(log), loadSSTables(disk), k)
    BY Zenon DEF Recovered
  <2> QED
    BY <2>1, TablesKeepPromises DEF Inv, TablesInv, Types, Safe, TableFacts,
       BoundedReplayFact
<1> QED
  BY <1>1, InvHolds, PTL

(* For every number of keys, every set of values and thresholds, and every *)
(* fault but an orphaned table and a compaction input that cannot be       *)
(* reopened or removed, the engine implements the dictionary with bounded  *)
(* loss.                                                                   *)
THEOREM EngineImplements ==
  ASSUME Faults \cap {"orphan", "iterator", "remove"} = {}
  PROVE  Spec => Implements
<1>1. Init => KV!Init
  BY TablesKeepPromises, RefinesInit, Zenon
<1>2. Inv /\ Inv' /\ Safe' /\ [Next]_vars => [KV!Next]_KV!vars
  BY TablesKeepPromises, RefinesStep, Zenon
<1>3. Spec => [](Inv /\ Safe)
  BY InvHolds, Zenon
<1> QED
  BY <1>1, <1>2, <1>3, PTL DEF Spec, Implements, KV!Spec

=============================================================================
