------------------------------- MODULE RetailFlow -------------------------------
(***************************************************************************)
(* What evals/fresh_retail/slice.py writes to each table, from what the    *)
(* tables it reads hold (T).  A row keeps one attribute of its store, the  *)
(* city, and one of its product, the first category.                       *)
(***************************************************************************)
EXTENDS Sql

SaleColumns == {"id", "store", "product", "date", "city", "category", "amount"}

\* The files of the landing, with the columns as typed() casts them.
IsRaw(raw) ==
  LET sales == raw.train \cup raw.eval
  IN  /\ IsFiniteSet(sales) /\ raw.train \cap raw.eval = {}
      /\ \A r \in sales : /\ HasColumns(r, SaleColumns) /\ r.id \in Int
                          /\ {r.date, r.city, r.category, r.amount} \subseteq Number
      /\ \A r, s \in sales : r.id = s.id => r = s

Order == <<"bronze.daily_sales_train", "bronze.daily_sales_eval",
           "silver.rejected_sales", "silver.daily_sales", "silver.dim_store", "silver.dim_product",
           "gold.dim_store", "gold.dim_product", "gold.fct_daily_sales",
           "gold.fct_store_daily", "gold.fct_category_daily">>

Reads(t) ==
  CASE t \in {"silver.rejected_sales", "silver.daily_sales"} ->
         {"bronze.daily_sales_train", "bronze.daily_sales_eval"}
    [] t \in {"silver.dim_store", "silver.dim_product"} -> {"silver.daily_sales"}
    [] t = "gold.dim_store" -> {"silver.dim_store"}
    [] t = "gold.dim_product" -> {"silver.dim_product"}
    [] t = "gold.fct_daily_sales" -> {"silver.daily_sales", "gold.dim_store", "gold.dim_product"}
    [] t \in {"gold.fct_store_daily", "gold.fct_category_daily"} -> {"gold.fct_daily_sales"}
    [] OTHER -> {}

\* bronze_sales: a row knows the split of its file.
Split(rows, name) == {WithColumns(r, [split |-> name]) : r \in rows}

Combined(T) == T["bronze.daily_sales_train"] \cup T["bronze.daily_sales_eval"]

Invalid(r) ==
  Or(IsNull(r.store) \/ IsNull(r.product) \/ IsNull(r.date) \/ IsNull(r.amount), Less(r.amount, 0))

Reasons(r) ==
  When(IsNull(r.store), "null_store_id") \cup When(IsNull(r.product), "null_product_id")
    \cup When(IsNull(r.date), "null_sale_date")
    \cup When(Or(IsNull(r.amount), Less(r.amount, 0)), "null_or_negative_sale_amount")

ValidCandidates(T) == {r \in Combined(T) : Invalid(r) = FALSE}

IDENTITY(r) == <<r.store, r.product, r.date, r.split>>

\* The other columns break ties.  Rows they cannot tell apart are copies of each
\* other: which of them is kept cannot be seen, so it is the first.
StableTieBreak(r) == <<r.city, r.category, r.amount, r.id>>

Ranked(T) ==
  CHOOSE kept \in FirstPerPartition([r \in ValidCandidates(T) |-> IDENTITY(r)],
                                    [r \in ValidCandidates(T) |-> StableTieBreak(r)]) : TRUE

Rejected(T) ==
  {WithColumns(r, [reasons |-> Reasons(r)]) : r \in {q \in Combined(T) : Invalid(q) = TRUE}}
    \cup {WithColumns(r, [reasons |-> {"duplicate_grain"}]) : r \in ValidCandidates(T) \ Ranked(T)}

Store(r) == <<r.store>>  \* deviation: one member for both splits
StoreSplit(r) == <<r.store, r.split>>
ProductSplit(r) == <<r.product, r.split>>

\* The attributes of the latest sale day in the split.
DimStore(T) ==
  LET sales == T["silver.daily_sales"]
  IN  {{[store |-> r.store, split |-> r.split, city |-> r.city] : r \in kept} :
         kept \in FirstPerPartition([r \in sales |-> StoreSplit(r)],
                                    [r \in sales |-> <<-r.date, r.city>>])}

AnyDay(r) == <<>>  \* deviation: row_number over an unordered window
LatestDay(r) == <<-r.date, r.category>>

DimProduct(T) ==
  LET sales == T["silver.daily_sales"]
  IN  {{[product |-> r.product, split |-> r.split, category |-> r.category] : r \in kept} :
         kept \in FirstPerPartition([r \in sales |-> ProductSplit(r)],
                                    [r \in sales |-> LatestDay(r)])}

Facts(T) ==
  LET Cities(r) == {s.city : s \in {d \in T["gold.dim_store"] : StoreSplit(d) = StoreSplit(r)}}
      Categories(r) == {p.category : p \in {d \in T["gold.dim_product"] : ProductSplit(d) = ProductSplit(r)}}
  IN  UNION {{WithColumns(r, [store_city |-> city, product_category |-> category]) :
                city \in Outer(Cities(r), NULL), category \in Outer(Categories(r), NULL)} :
               r \in T["silver.daily_sales"]}

Amount(rows) == Total([r \in rows |-> r.amount])

StoreDay(r) == <<r.store, r.store_city, r.date, r.split>>

StoreDaily(T) ==
  LET key == [r \in T["gold.fct_daily_sales"] |-> StoreDay(r)]
  IN  {[store |-> k[1], city |-> k[2], date |-> k[3], split |-> k[4], amount |-> Amount(Group(key, k))] :
         k \in Groups(key)}

CategoryDay(r) == <<Coalesce(r.product_category, r.category), r.date, r.split>>

CategoryDaily(T) ==
  LET key == [r \in T["gold.fct_daily_sales"] |-> CategoryDay(r)]
  IN  {[category |-> k[1], date |-> k[2], split |-> k[3], amount |-> Amount(Group(key, k))] :
         k \in Groups(key)}

\* The possible contents of a table.
Contents(t, raw, T) ==
  CASE t = "bronze.daily_sales_train" -> {Split(raw.train, "train")}
    [] t = "bronze.daily_sales_eval"  -> {Split(raw.eval, "eval")}
    [] t = "silver.rejected_sales"    -> {Rejected(T)}
    [] t = "silver.daily_sales"       -> {Ranked(T)}
    [] t = "silver.dim_store"         -> DimStore(T)
    [] t = "silver.dim_product"       -> DimProduct(T)
    [] t = "gold.dim_store"           -> {T["silver.dim_store"]}
    [] t = "gold.dim_product"         -> {T["silver.dim_product"]}
    [] t = "gold.fct_daily_sales"     -> {Facts(T)}
    [] t = "gold.fct_store_daily"     -> {StoreDaily(T)}
    [] t = "gold.fct_category_daily"  -> {CategoryDaily(T)}

\* The counts the gold dimensions are called with land on allow_empty.
MayBeEmpty(t) == t \in {"silver.rejected_sales", "gold.dim_store", "gold.dim_product"}

UniqueGrain(t, rows) ==
  CASE t = "silver.daily_sales" -> Unique([r \in rows |-> IDENTITY(r)])
    [] t = "gold.fct_daily_sales" -> Unique([r \in rows |-> IDENTITY(r)])  \* sales_id is a digest of it
    [] t \in {"silver.dim_store", "gold.dim_store"} -> Unique([s \in rows |-> StoreSplit(s)])
    [] t \in {"silver.dim_product", "gold.dim_product"} -> Unique([p \in rows |-> ProductSplit(p)])
    [] t = "gold.fct_store_daily" -> Unique([row \in rows |-> <<row.store, row.date, row.split>>])
    [] t = "gold.fct_category_daily" -> Unique([row \in rows |-> <<row.category, row.date, row.split>>])
    [] OTHER -> TRUE

\* The extra_results of audit_table.
Reconciles(t, T, rows) ==
  CASE t = "silver.rejected_sales" -> \A r \in rows : r.reasons # {}
    [] t = "silver.daily_sales" ->
         Cardinality(rows) + Cardinality(T["silver.rejected_sales"]) = Cardinality(Combined(T))
    [] t = "gold.fct_daily_sales" -> Cardinality(rows) = Cardinality(T["silver.daily_sales"])
    [] t \in {"gold.fct_store_daily", "gold.fct_category_daily"} ->
         Amount(rows) = Amount(T["gold.fct_daily_sales"])
    [] OTHER -> TRUE

Passes(t, T, rows) ==
  /\ rows # {} \/ MayBeEmpty(t)
  /\ UniqueGrain(t, rows) /\ Reconciles(t, T, rows)
=============================================================================
