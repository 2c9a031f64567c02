---------------------------- MODULE TransactionFlow ----------------------------
(***************************************************************************)
(* What evals/transaction_cat/slice.py writes to each table, from what the *)
(* tables it reads hold (T).  Names are compared as the slice normalises   *)
(* them.                                                                   *)
(***************************************************************************)
EXTENDS Sql

TransactionColumns == {"id", "description", "category", "country", "currency"}

\* The snapshot of the landing, and the two lookups it writes: those are complete.
IsRaw(raw) ==
  /\ IsFiniteSet(raw.transactions) /\ IsFiniteSet(raw.taxonomy) /\ IsFiniteSet(raw.geo)
  /\ \A x \in raw.transactions : HasColumns(x, TransactionColumns) /\ x.id \in Int
  /\ \A x, y \in raw.transactions : x.id = y.id => x = y
  /\ \A c \in raw.taxonomy : ~IsNull(c.code) /\ IsFiniteSet(c.aliases) /\ NULL \notin c.aliases
  /\ \A g \in raw.geo : ~IsNull(g.country) /\ ~IsNull(g.currency)

Order == <<"bronze.transactions", "bronze.category_taxonomy", "bronze.country_currency",
           "silver.rejected_transactions", "silver.transactions",
           "gold.dim_category", "gold.dim_geo", "gold.fct_transactions",
           "gold.fct_category_country">>

Reads(t) ==
  CASE t \in {"silver.rejected_transactions", "silver.transactions"} ->
         {"bronze.transactions", "bronze.category_taxonomy", "bronze.country_currency"}
    [] t = "gold.dim_category" -> {"bronze.category_taxonomy"}
    [] t = "gold.dim_geo" -> {"bronze.country_currency"}
    [] t = "gold.fct_transactions" -> {"silver.transactions", "gold.dim_category", "gold.dim_geo"}
    [] t = "gold.fct_category_country" -> {"gold.fct_transactions"}
    [] OTHER -> {}

\* explode("aliases"), then dropDuplicates(["alias_norm"]): one of the categories
\* that claim an alias.
AliasLookups(T) ==
  LET claims == UNION {{[code |-> c.code, alias |-> a] : a \in c.aliases} :
                         c \in T["bronze.category_taxonomy"]}
  IN  FirstPerPartition([r \in claims |-> r.alias], [r \in claims |-> <<>>])

\* Left joins with the aliases and with the geography.
CodesOf(lookup, x) ==
  Outer({a.code : a \in {b \in lookup : Equal(x.category, b.alias) = TRUE}}, NULL)
CurrenciesOf(T, x) ==
  Outer({g.currency : g \in {h \in T["bronze.country_currency"] : Equal(x.country, h.country) = TRUE}},
        NULL)

Staged(T, lookup) ==
  UNION {{WithColumns(x, [code |-> code, geo_currency |-> currency]) :
            code \in CodesOf(lookup, x), currency \in CurrenciesOf(T, x)} :
           x \in T["bronze.transactions"]}

Payload(x) == <<x.description, x.category, x.country, x.currency>>

IsRepeatedDescription(T, x) ==  \* deviation: only the description is compared
  \E y \in T["bronze.transactions"] : y.description = x.description /\ y.id < x.id

\* The earlier copy comes first by file and row number, which the id stands for.
IsCopy(T, x) == \E y \in T["bronze.transactions"] : Payload(y) = Payload(x) /\ y.id < x.id

Reasons(T, x) ==
  When(IsNull(x.description), "null_or_blank_description")
    \cup When(IsNull(x.code), "unknown_category")
    \cup When(Or(IsNull(x.geo_currency), Differ(x.currency, x.geo_currency)), "invalid_country_currency")
    \cup When(IsCopy(T, x), "duplicate_payload")

Rejected(T, lookup) ==
  {WithColumns(x, [reasons |-> Reasons(T, x)]) : x \in {y \in Staged(T, lookup) : Reasons(T, y) # {}}}

Silver(T, lookup) == {x \in Staged(T, lookup) : Reasons(T, x) = {}}

Facts(T) ==
  LET Categories(x) == {c.name : c \in {d \in T["gold.dim_category"] : Equal(x.code, d.code) = TRUE}}
      Countries(x) == {g.name : g \in {h \in T["gold.dim_geo"] : Equal(x.country, h.country) = TRUE}}
  IN  UNION {{WithColumns(x, [category_name |-> category, country_name |-> country]) :
                category \in Outer(Categories(x), NULL), country \in Outer(Countries(x), NULL)} :
               x \in T["silver.transactions"]}

RollupKey(x) == <<x.code, x.category_name, x.country, x.country_name, x.currency>>

CategoryCountry(T) ==
  LET key == [x \in T["gold.fct_transactions"] |-> RollupKey(x)]
  IN  {[code |-> k[1], country |-> k[3], currency |-> k[5], txn_count |-> Cardinality(Group(key, k))] :
         k \in Groups(key)}

\* The taxonomy and the geography with the names the dimensions keep of them.
DimCategory(T) == {[code |-> c.code, name |-> c.name] : c \in T["bronze.category_taxonomy"]}
DimGeo(T) == T["bronze.country_currency"]

\* The possible contents of a table; each use of the aliases may look them up anew.
Contents(t, raw, T) ==
  CASE t = "bronze.transactions"      -> {raw.transactions}
    [] t = "bronze.category_taxonomy" -> {raw.taxonomy}
    [] t = "bronze.country_currency"  -> {raw.geo}
    [] t = "silver.rejected_transactions" -> {Rejected(T, lookup) : lookup \in AliasLookups(T)}
    [] t = "silver.transactions"      -> {Silver(T, lookup) : lookup \in AliasLookups(T)}
    [] t = "gold.dim_category"        -> {DimCategory(T)}
    [] t = "gold.dim_geo"             -> {DimGeo(T)}
    [] t = "gold.fct_transactions"    -> {Facts(T)}
    [] t = "gold.fct_category_country" -> {CategoryCountry(T)}

\* The counts the dimensions are called with land on allow_empty.
MayBeEmpty(t) == t \in {"silver.rejected_transactions", "gold.dim_category", "gold.dim_geo"}

UniqueGrain(t, rows) ==
  CASE t \in {"bronze.category_taxonomy", "gold.dim_category"} -> Unique([c \in rows |-> c.code])
    [] t \in {"bronze.country_currency", "gold.dim_geo"} -> Unique([g \in rows |-> g.country])
    [] t \in {"silver.transactions", "gold.fct_transactions"} -> Unique([x \in rows |-> x.id])
    [] t = "gold.fct_category_country" ->
         Unique([row \in rows |-> <<row.code, row.country, row.currency>>])
    [] OTHER -> TRUE

\* The extra_results of publish_table.
Reconciles(t, T, rows) ==
  CASE t = "silver.rejected_transactions" -> \A x \in rows : x.reasons # {}
    [] t = "gold.fct_transactions" -> Cardinality(rows) = Cardinality(T["silver.transactions"])
    [] t = "gold.fct_category_country" ->
         Total([row \in rows |-> row.txn_count]) = Cardinality(T["gold.fct_transactions"])
    [] OTHER -> TRUE

Passes(t, T, rows) ==
  /\ rows # {} \/ MayBeEmpty(t)
  /\ UniqueGrain(t, rows) /\ Reconciles(t, T, rows)
=============================================================================
