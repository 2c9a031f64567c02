----------------------------- MODULE AtomicTable -----------------------------
(***************************************************************************)
(* What staging promises about a published table: a writer changes it at   *)
(* most once and in one step, from the rows that are there to the rows its *)
(* write mode makes of them, and only if those pass the checks.            *)
(***************************************************************************)
CONSTANTS Writers, Keys,
          AllowEmpty  \* the checks accept an empty table

VARIABLES rows,    \* the published rows
          applied  \* the writers whose update is in or has been overwritten

Row == [key : Keys, by : Writers \cup {"before"}]

\* The rows a writer brings, one for each key of its input.
Source(w, keys) == {[key |-> k, by |-> w] : k \in keys}

Upsert(old, new) == new \cup {r \in old : \A n \in new : n.key # r.key}

Applied(mode, old, new) ==
  CASE mode = "overwrite" -> new
    [] mode = "append"    -> old \cup new
    [] mode = "merge"     -> Upsert(old, new)

\* The table has rows, unless it may be empty, and none twice.
Valid(table) ==
  /\ AllowEmpty \/ table # {}
  /\ \A r, s \in table : r.key = s.key => r = s

Modes == {"overwrite", "append", "merge"}

Init == rows \in SUBSET [key : Keys, by : {"before"}] /\ applied = {}

Update(w) ==
  /\ w \notin applied /\ applied' = applied \cup {w}
  /\ \E mode \in Modes, keys \in SUBSET Keys : rows' = Applied(mode, rows, Source(w, keys))
  /\ Valid(rows')

Next == \E w \in Writers : Update(w)

vars == <<rows, applied>>

Spec == Init /\ [][Next]_vars
=============================================================================
