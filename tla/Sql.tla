---------------------------------- MODULE Sql ----------------------------------
(***************************************************************************)
(* Spark SQL as the slices of evals/ and the verifier use it: conditions   *)
(* over NULL, joins, row_number and group by.  A table is a set of rows; a *)
(* row that comes from a file keeps the id of its place in that file, so   *)
(* equal payloads stay different rows.  A column, a key or a rank computed *)
(* over a table is a function on its rows.                                 *)
(***************************************************************************)
EXTENDS Integers, Sequences, FiniteSets, FiniteSetsExt

CONSTANT NULL

ASSUME NullAssumption == NULL \notin Int \cup BOOLEAN

\* A value of a numeric column
Number == Int \cup {NULL}

\* A row has these columns and no other.
HasColumns(row, columns) == row = [c \in columns |-> row[c]]

\* withColumn of new names, and what a join adds to a row: the columns it has stay
WithColumns(row, columns) ==
  [c \in DOMAIN row \cup DOMAIN columns |-> IF c \in DOMAIN row THEN row[c] ELSE columns[c]]

IsNull(v) == v = NULL

\* A comparison with NULL is NULL; a filter and a join take what is TRUE.
Equal(a, b) == IF NULL \in {a, b} THEN NULL ELSE a = b
Differ(a, b) == IF NULL \in {a, b} THEN NULL ELSE a # b
Less(a, b) == IF NULL \in {a, b} THEN NULL ELSE a < b
Or(p, q) == IF TRUE \in {p, q} THEN TRUE ELSE IF NULL \in {p, q} THEN NULL ELSE FALSE

\* concat_ws over F.when: the names of the conditions that are TRUE.
When(condition, reason) == IF condition = TRUE THEN {reason} ELSE {}

Coalesce(a, b) == IF IsNull(a) THEN b ELSE a

\* What a left join adds to a row: what its partners have, or the default.
Outer(partners, default) == IF partners = {} THEN {default} ELSE partners

\* date_trunc("month", ...) of a day
Month(day) == (day - 1) \div 31

\* order by several columns, ascending, NULL last
Precedes(a, b) ==
  \E i \in DOMAIN a :
    /\ \A j \in 1..(i - 1) : a[j] = b[j]
    /\ a[i] # b[i] /\ (IsNull(b[i]) \/ Less(a[i], b[i]) = TRUE)

\* The possible results of keeping the rows whose row_number() is 1: one row of
\* each partition, any of those no other row precedes.
FirstPerPartition(partition, rank) ==
  LET first == {r \in DOMAIN partition : \A s \in DOMAIN partition :
                  partition[s] = partition[r] => ~Precedes(rank[s], rank[r])}
  IN  {kept \in SUBSET first : \A r \in first :
         Cardinality({k \in kept : partition[k] = partition[r]}) = 1}

\* Grouping puts NULLs together.
Groups(key) == {key[r] : r \in DOMAIN key}
Group(key, k) == {r \in DOMAIN key : key[r] = k}
Unique(key) == Cardinality(Groups(key)) = Cardinality(DOMAIN key)
Total(column) == MapThenSumSet(LAMBDA r : column[r], DOMAIN column)
=============================================================================
