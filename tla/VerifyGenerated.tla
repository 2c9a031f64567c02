---------------------------- MODULE VerifyGenerated ----------------------------
(***************************************************************************)
(* The queries of notebooks/verify_generated_eval.py that compare the      *)
(* marts of an output space with its facts.                                *)
(***************************************************************************)
EXTENDS Sql

HasNull(key) == \E i \in DOMAIN key : IsNull(key[i])

\* Group by group: the facts are given by the measure of each group, the mart by the key
\* and the measure of each row.
Matches(facts, key, measure) ==
  DOMAIN facts = Groups(key) /\ \A row \in DOMAIN key : measure[row] = facts[key[row]]

\* facts FULL JOIN mart USING (key), mismatches = 0: a key with NULL in it meets
\* no partner, and a group without one is a mismatch.
Agree(facts, key, measure) ==
  Matches(facts, key, measure) /\ \A k \in Groups(key) : ~HasNull(k)

Count(key) == [k \in Groups(key) |-> Cardinality(Group(key, k))]
Amounts(key) == [k \in Groups(key) |-> Total([r \in Group(key, k) |-> r.amount])]

MonthlyAgrees(T) ==
  LET mart == T["gold.fct_monthly_zone_revenue"]
      key == [trip \in T["gold.fct_trips"] |-> <<trip.zone, Month(trip.pickup), trip.service>>]
      martKey == [row \in mart |-> <<row.zone, row.month, row.service>>]
  IN  /\ Agree(Count(key), martKey, [row \in mart |-> row.trips])
      /\ Agree(Amounts(key), martKey, [row \in mart |-> row.amount])

CategoryCountryAgrees(T) ==
  LET mart == T["gold.fct_category_country"]
  IN  Agree(Count([x \in T["gold.fct_transactions"] |-> <<x.code, x.country, x.currency>>]),
            [row \in mart |-> <<row.code, row.country, row.currency>>],
            [row \in mart |-> row.txn_count])

StoreDailyAgrees(T) ==
  LET mart == T["gold.fct_store_daily"]
  IN  Agree(Amounts([r \in T["gold.fct_daily_sales"] |-> <<r.store, r.date, r.split>>]),
            [row \in mart |-> <<row.store, row.date, row.split>>],
            [row \in mart |-> row.amount])

\* By the category of the row, not of the product's latest day.
CategoryDailyAgrees(T) ==
  LET mart == T["gold.fct_category_daily"]
  IN  Agree(Amounts([r \in T["gold.fct_daily_sales"] |-> <<r.category, r.date, r.split>>]),
            [row \in mart |-> <<row.category, row.date, row.split>>],
            [row \in mart |-> row.amount])
=============================================================================
