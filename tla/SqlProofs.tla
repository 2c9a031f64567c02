------------------------------- MODULE SqlProofs -------------------------------
(***************************************************************************)
(* What the queries of Sql give on finite tables: an ordered partition has *)
(* a first row, keeping the first row of each partition keeps one of each, *)
(* and a unique key tells the rows apart.                                  *)
(***************************************************************************)
EXTENDS Sql, FiniteSetTheorems, TLAPS

(***************************************************************************)
(* Rows.                                                                   *)
(***************************************************************************)
\* withColumn keeps the columns a row has, and gives it the others.
LEMMA WithColumnsKeeps ==
  ASSUME NEW row, NEW columns
  PROVE  /\ DOMAIN WithColumns(row, columns) = DOMAIN row \cup DOMAIN columns
         /\ \A c \in DOMAIN row : WithColumns(row, columns)[c] = row[c]
         /\ \A c \in DOMAIN columns \ DOMAIN row : WithColumns(row, columns)[c] = columns[c]
BY DEF WithColumns

(***************************************************************************)
(* Finite sets.                                                            *)
(***************************************************************************)
\* A finite set that is not empty has an element no other precedes in a strict
\* order.  The proof takes a smallest set without one.
LEMMA MinimalElement ==
  ASSUME NEW S, IsFiniteSet(S), S # {}, NEW before,
         \A x \in S : <<x, x>> \notin before,
         \A x, y, z \in S : <<x, y>> \in before /\ <<y, z>> \in before => <<x, z>> \in before
  PROVE  \E m \in S : \A x \in S : <<x, m>> \notin before
<1> DEFINE Without == {T \in SUBSET S : T # {} /\ \A m \in T : \E x \in T : <<x, m>> \in before}
<1>1. SUFFICES ASSUME Without # {} PROVE FALSE OBVIOUS
<1>2. Without \subseteq FiniteSubsetsOf(S) BY FS_FiniteSubsetsOfFinite
<1>3. PICK T \in Without : \A U \in Without : <<U, T>> \notin StrictSubsetOrdering(S)
  <2> HIDE DEF Without
  <2>1. IsWellFoundedOn(StrictSubsetOrdering(S), FiniteSubsetsOf(S))
    BY FS_StrictSubsetOrderingWellFounded
  <2> QED BY <1>1, <1>2, <2>1, WFMin
<1>4. PICK x \in T : TRUE OBVIOUS
<1>5. T \ {x} \in SUBSET S /\ T \ {x} \subseteq T /\ T \ {x} # T BY <1>3, <1>4
<1>6. T \ {x} \notin Without
  <2>1. <<T \ {x}, T>> \in StrictSubsetOrdering(S) BY <1>3, <1>5 DEF StrictSubsetOrdering
  <2> QED BY <1>3, <2>1
<1>7. CASE T \ {x} = {}
  <2>1. T = {x} BY <1>4, <1>7
  <2> QED BY <1>3, <2>1
<1>8. CASE T \ {x} # {}
  <2>1. PICK m \in T \ {x} : \A y \in T \ {x} : <<y, m>> \notin before BY <1>5, <1>6, <1>8
  <2>2. <<x, m>> \in before BY <1>3, <2>1
  <2>3. \A y \in T : <<y, x>> \notin before BY <1>3, <1>4, <2>1, <2>2
  <2> QED BY <1>3, <1>4, <2>3
<1> QED BY <1>7, <1>8

\* Sets whose elements a function pairs off have the same size.
LEMMA SameSize ==
  ASSUME NEW S, NEW T, IsFiniteSet(S), NEW f, DOMAIN f = S,
         \A x \in S : f[x] \in T, \A y \in T : \E x \in S : y = f[x],
         \A x, y \in S : f[x] = f[y] => x = y
  PROVE  IsFiniteSet(T) /\ Cardinality(T) = Cardinality(S)
<1> DEFINE g == [x \in S |-> f[x]]
<1>1. g \in Bijection(S, T) BY DEF Bijection, Injection, Surjection, IsInjective
<1> QED BY <1>1, FS_Bijection DEF ExistsBijection

\* What a function makes of a finite set is finite.
LEMMA ImageIsFinite ==
  ASSUME NEW S, IsFiniteSet(S), NEW T, NEW f, \A y \in T : \E x \in S : y = f[x]
  PROVE  IsFiniteSet(T)
<1> DEFINE g == [x \in S |-> f[x]]
           image == {f[x] : x \in S}
<1>1. g \in Surjection(S, image) BY DEF Surjection
<1>2. IsFiniteSet(image) BY <1>1, FS_Surjection
<1> QED BY <1>2, FS_Subset

(***************************************************************************)
(* The first row of each partition.                                        *)
(***************************************************************************)
IsRank(rank, n) == DOMAIN rank = 1..n /\ \A i \in 1..n : rank[i] \in Number

\* The order of row_number is a strict one.
LEMMA PrecedesIsStrict ==
  ASSUME NEW n \in Nat, NEW a, NEW b, NEW c, IsRank(a, n), IsRank(b, n), IsRank(c, n)
  PROVE  ~Precedes(a, a) /\ (Precedes(a, b) /\ Precedes(b, c) => Precedes(a, c))
<1>1. ~Precedes(a, a) BY DEF Precedes
<1>2. ASSUME Precedes(a, b), Precedes(b, c) PROVE Precedes(a, c)
  <2> DEFINE Smaller(x, y) == x # y /\ (IsNull(y) \/ Less(x, y) = TRUE)
  <2>1. PICK i \in 1..n : (\A j \in 1..(i - 1) : a[j] = b[j]) /\ Smaller(a[i], b[i])
    BY <1>2 DEF Precedes, IsRank
  <2>2. PICK k \in 1..n : (\A j \in 1..(k - 1) : b[j] = c[j]) /\ Smaller(b[k], c[k])
    BY <1>2 DEF Precedes, IsRank
  <2>3. \A x, y, z \in Number : Smaller(x, y) /\ Smaller(y, z) => Smaller(x, z)
    BY NullAssumption DEF Number, IsNull, Less
  <2>4. \A j \in 1..n : a[j] \in Number /\ b[j] \in Number /\ c[j] \in Number BY DEF IsRank
  <2> DEFINE m == IF i <= k THEN i ELSE k
  <2>5. m \in 1..n /\ \A j \in 1..(m - 1) : a[j] = c[j] BY <2>1, <2>2
  <2>6. Smaller(a[m], c[m])
    <3>1. CASE i = k BY <2>1, <2>2, <2>3, <2>4, <3>1
    <3>2. CASE i < k
      <4>1. b[i] = c[i] /\ m = i BY <2>2, <3>2
      <4> QED BY <2>1, <4>1
    <3>3. CASE i > k
      <4>1. a[k] = b[k] /\ m = k BY <2>1, <3>3
      <4> QED BY <2>2, <4>1
    <3>4. i = k \/ i < k \/ i > k OBVIOUS
    <3> QED BY <3>1, <3>2, <3>3, <3>4
  <2> HIDE DEF m
  <2> QED BY <2>5, <2>6 DEF Precedes, IsRank
<1> QED BY <1>1, <1>2

\* A partition has a first row.
LEMMA FirstRowExists ==
  ASSUME NEW S, IsFiniteSet(S), S # {}, NEW rank, NEW n \in Nat, \A r \in S : IsRank(rank[r], n)
  PROVE  \E m \in S : \A s \in S : ~Precedes(rank[s], rank[m])
<1> DEFINE before == {p \in S \X S : Precedes(rank[p[1]], rank[p[2]])}
<1>1. \A x, y \in S : <<x, y>> \in before <=> Precedes(rank[x], rank[y]) OBVIOUS
<1> HIDE DEF before
<1>2. \A x \in S : <<x, x>> \notin before BY <1>1, PrecedesIsStrict
<1>3. \A x, y, z \in S : <<x, y>> \in before /\ <<y, z>> \in before => <<x, z>> \in before
  BY <1>1, PrecedesIsStrict
<1>4. \E m \in S : \A x \in S : <<x, m>> \notin before BY <1>2, <1>3, MinimalElement
<1> QED BY <1>1, <1>4

\* What keeping the first rows keeps: of each partition one row, which no row of the
\* partition precedes.
LEMMA KeptRows ==
  ASSUME NEW partition, NEW rank, IsFiniteSet(DOMAIN partition), NEW n \in Nat,
         \A r \in DOMAIN partition : IsRank(rank[r], n),
         NEW kept \in FirstPerPartition(partition, rank)
  PROVE  /\ kept \subseteq DOMAIN partition /\ IsFiniteSet(kept)
         /\ \A k \in kept, s \in DOMAIN partition :
              partition[s] = partition[k] => ~Precedes(rank[s], rank[k])
         /\ \A j, k \in kept : partition[j] = partition[k] => j = k
         /\ \A r \in DOMAIN partition : \E k \in kept : partition[k] = partition[r]
<1> DEFINE first == {r \in DOMAIN partition : \A s \in DOMAIN partition :
                       partition[s] = partition[r] => ~Precedes(rank[s], rank[r])}
<1>1. /\ kept \subseteq first
      /\ \A r \in first : Cardinality({k \in kept : partition[k] = partition[r]}) = 1
  BY Zenon DEF FirstPerPartition
<1>2. IsFiniteSet(kept) BY <1>1, FS_Subset
<1>3. \A r \in first : \E k \in kept : {q \in kept : partition[q] = partition[r]} = {k}
  <2> SUFFICES ASSUME NEW r \in first
               PROVE  \E k \in kept : {q \in kept : partition[q] = partition[r]} = {k}
    OBVIOUS
  <2> DEFINE same == {q \in kept : partition[q] = partition[r]}
  <2>1. IsFiniteSet(same) /\ Cardinality(same) = 1 BY <1>1, <1>2, FS_Subset
  <2>2. \E k : same = {k} BY <2>1, FS_Singleton
  <2> QED BY <2>2
<1>4. \A r \in DOMAIN partition : \E m \in first : partition[m] = partition[r]
  <2> SUFFICES ASSUME NEW r \in DOMAIN partition PROVE \E m \in first : partition[m] = partition[r]
    OBVIOUS
  <2> DEFINE class == {s \in DOMAIN partition : partition[s] = partition[r]}
  <2>1. IsFiniteSet(class) /\ class # {} BY FS_Subset
  <2>2. PICK m \in class : \A s \in class : ~Precedes(rank[s], rank[m]) BY <2>1, FirstRowExists
  <2> QED BY <2>2
<1>5. \A r \in DOMAIN partition : \E k \in kept : partition[k] = partition[r]
  <2> SUFFICES ASSUME NEW r \in DOMAIN partition PROVE \E k \in kept : partition[k] = partition[r]
    OBVIOUS
  <2>1. PICK m \in first : partition[m] = partition[r] BY <1>4
  <2>2. PICK k \in kept : {q \in kept : partition[q] = partition[m]} = {k} BY <1>3
  <2> QED BY <2>1, <2>2
<1>6. ASSUME NEW j \in kept, NEW k \in kept, partition[j] = partition[k] PROVE j = k
  <2>1. PICK q \in kept : {p \in kept : partition[p] = partition[k]} = {q} BY <1>1, <1>3
  <2> QED BY <1>6, <2>1
<1> QED BY <1>1, <1>2, <1>5, <1>6

\* There is a choice of first rows, whatever the rows.
LEMMA SomeRowsAreKept ==
  ASSUME NEW partition, NEW rank
  PROVE  FirstPerPartition(partition, rank) # {}
<1> DEFINE first == {r \in DOMAIN partition : \A s \in DOMAIN partition :
                       partition[s] = partition[r] => ~Precedes(rank[s], rank[r])}
           Pick(r) == CHOOSE k \in first : partition[k] = partition[r]
           kept == {Pick(r) : r \in first}
<1>1. \A r \in first : Pick(r) \in first /\ partition[Pick(r)] = partition[r] OBVIOUS
<1>2. \A q, r \in first : partition[q] = partition[r] => Pick(q) = Pick(r) OBVIOUS
<1> HIDE DEF Pick
<1>3. kept \in SUBSET first BY <1>1
<1>4. \A r \in first : Cardinality({k \in kept : partition[k] = partition[r]}) = 1
  <2> SUFFICES ASSUME NEW r \in first PROVE {k \in kept : partition[k] = partition[r]} = {Pick(r)}
    BY FS_Singleton
  <2>1. Pick(r) \in kept /\ partition[Pick(r)] = partition[r] BY <1>1
  <2>2. ASSUME NEW k \in kept, partition[k] = partition[r] PROVE k = Pick(r)
    <3>1. PICK q \in first : k = Pick(q) OBVIOUS
    <3> QED BY <1>1, <1>2, <2>2, <3>1
  <2> QED BY <2>1, <2>2
<1>5. kept \in FirstPerPartition(partition, rank) BY <1>3, <1>4, Zenon DEF FirstPerPartition
<1> QED BY <1>5

(***************************************************************************)
(* Keys.                                                                   *)
(***************************************************************************)
\* A unique key tells the rows apart.
LEMMA UniqueKey ==
  ASSUME NEW key, IsFiniteSet(DOMAIN key), Unique(key)
  PROVE  \A r, s \in DOMAIN key : key[r] = key[s] => r = s
<1> DEFINE f == [r \in DOMAIN key |-> key[r]]
<1>1. f \in Surjection(DOMAIN key, Groups(key)) BY DEF Surjection, Groups
<1>2. f \in Injection(DOMAIN key, Groups(key))
  BY <1>1, FS_Surjection DEF Unique
<1> QED BY <1>2 DEF Injection, IsInjective
\* Two rows of which neither comes before the other have the same rank.
LEMMA RankTies ==
  ASSUME NEW n \in Nat, NEW a, NEW b, IsRank(a, n), IsRank(b, n), ~Precedes(a, b), ~Precedes(b, a)
  PROVE  \A i \in 1..n : a[i] = b[i]
<1> DEFINE differ == {i \in 1..n : a[i] # b[i]}
           before == {p \in differ \X differ : p[1] < p[2]}
<1>1. SUFFICES ASSUME differ # {} PROVE FALSE OBVIOUS
<1>2. IsFiniteSet(differ)
  <2>1. IsFiniteSet(1..n) BY FS_Interval
  <2> QED BY <2>1, FS_Subset
<1>3. \A i, j \in differ : <<i, j>> \in before <=> i < j OBVIOUS
<1>4. \A i \in 1..n : i \in differ <=> a[i] # b[i] OBVIOUS
<1>5. differ \subseteq 1..n OBVIOUS
<1> HIDE DEF differ, before
<1>6. /\ \A i \in differ : <<i, i>> \notin before
      /\ \A i, j, k \in differ : <<i, j>> \in before /\ <<j, k>> \in before => <<i, k>> \in before
  BY <1>3, <1>5
<1>7. PICK m \in differ : \A i \in differ : <<i, m>> \notin before
  BY <1>1, <1>2, <1>6, MinimalElement
<1>8. \A j \in 1..(m - 1) : a[j] = b[j]
  <2> SUFFICES ASSUME NEW j \in 1..(m - 1) PROVE a[j] = b[j] OBVIOUS
  <2>1. j \in 1..n /\ j < m BY <1>5, <1>7
  <2> QED BY <1>3, <1>4, <1>7, <2>1
<1>9. a[m] \in Number /\ b[m] \in Number /\ a[m] # b[m] BY <1>4, <1>5 DEF IsRank
<1>10. \/ IsNull(b[m]) \/ Less(a[m], b[m]) = TRUE
       \/ IsNull(a[m]) \/ Less(b[m], a[m]) = TRUE
  <2>1. CASE a[m] = NULL \/ b[m] = NULL BY <2>1 DEF IsNull
  <2>2. CASE a[m] # NULL /\ b[m] # NULL
    <3>1. a[m] \in Int /\ b[m] \in Int BY <1>9, <2>2 DEF Number
    <3>2. a[m] < b[m] \/ b[m] < a[m] BY <1>9, <3>1
    <3>3. (a[m] < b[m]) \in BOOLEAN /\ (b[m] < a[m]) \in BOOLEAN BY <3>1
    <3>4. Less(a[m], b[m]) = (a[m] < b[m]) BY <2>2, Zenon DEF Less
    <3>5. Less(b[m], a[m]) = (b[m] < a[m]) BY <2>2, Zenon DEF Less
    <3> QED BY <3>2, <3>4, <3>5
  <2> QED BY <2>1, <2>2
<1>11. m \in DOMAIN a /\ m \in DOMAIN b BY <1>5 DEF IsRank
<1>12. CASE IsNull(b[m]) \/ Less(a[m], b[m]) = TRUE
  <2>1. Precedes(a, b) BY <1>8, <1>9, <1>11, <1>12 DEF Precedes
  <2> QED BY <2>1
<1>13. CASE IsNull(a[m]) \/ Less(b[m], a[m]) = TRUE
  <2>1. Precedes(b, a) BY <1>8, <1>9, <1>11, <1>13 DEF Precedes
  <2> QED BY <2>1
<1> QED BY <1>10, <1>12, <1>13

\* Two tables with the same keys have equally many rows.
LEMMA SameKeys ==
  ASSUME NEW f, NEW g, IsFiniteSet(DOMAIN f),
         \A x, y \in DOMAIN f : f[x] = f[y] => x = y,
         \A x, y \in DOMAIN g : g[x] = g[y] => x = y,
         \A x \in DOMAIN f : \E y \in DOMAIN g : g[y] = f[x],
         \A y \in DOMAIN g : \E x \in DOMAIN f : f[x] = g[y]
  PROVE  Cardinality(DOMAIN f) = Cardinality(DOMAIN g)
<1> DEFINE h == [x \in DOMAIN f |-> CHOOSE y \in DOMAIN g : g[y] = f[x]]
<1>1. DOMAIN h = DOMAIN f OBVIOUS
<1>2. \A x \in DOMAIN f : h[x] \in DOMAIN g /\ g[h[x]] = f[x] OBVIOUS
<1> HIDE DEF h
<1>3. \A x \in DOMAIN f : h[x] \in DOMAIN g BY <1>2
<1>4. \A y \in DOMAIN g : \E x \in DOMAIN f : y = h[x] BY <1>2
<1>5. \A x, y \in DOMAIN f : h[x] = h[y] => x = y BY <1>2
<1> QED BY <1>1, <1>3, <1>4, <1>5, SameSize

=============================================================================
