----------------------------- MODULE SliceTableProofs -----------------------------
(***************************************************************************)
(* Theorems about the contents of the tables of the slices, for all raw    *)
(* files the landing may leave, numbers of runs and faults.                *)
(*                                                                         *)
(* The tables in the catalog come from different runs, of which some went  *)
(* wrong.  They rest on one invariant: what a run has published is what an *)
(* undisturbed run could have published.  What holds of the tables of one  *)
(* undisturbed run then holds of the tables InStep, and what holds of each *)
(* two undisturbed runs on the same files holds of all tables.             *)
(***************************************************************************)
EXTENDS SliceProofs, SqlProofs

\* The tables of a run that nothing disturbed, so far.
Lawful(T) ==
  /\ \E n \in 0..Len(Order) : DOMAIN T = {Order[i] : i \in 1..n}
  /\ \A t \in DOMAIN T : T[t] \in Contents(t, T) /\ Passes(t, T, T[t])

\* What a run has published, an undisturbed run on the same files could have published.
TablesInv ==
  /\ pipeline \in DOMAIN Raws /\ raw \in Raws[pipeline]
  /\ \A i \in DOMAIN Order : Published(Order[i]) => \A j \in 1..i : Published(Order[j])
  /\ \A r \in 1..run : \E T : /\ Lawful(T)
                              /\ \A t \in DOMAIN tables :
                                   by[t] = r => t \in DOMAIN T /\ T[t] = tables[t]

(***************************************************************************)
(* The rows that joins make.                                               *)
(***************************************************************************)
TripFact(trip, pickup, dropoff) ==
  Taxi!WithColumns(trip, [zone |-> pickup, dropoff_zone |-> dropoff])

\* A fact row is a trip with a zone found for each of its two locations.
LEMMA TaxiFactRows ==
  \A T, f : f \in Taxi!Facts(T) <=>
    \E trip \in T["silver.trips"] :
      \E pickup \in Taxi!ZonesAt(T, trip.location), dropoff \in Taxi!ZonesAt(T, trip.destination) :
        f = TripFact(trip, pickup, dropoff)
<1> TAKE T, f
<1> DEFINE Of(trip) == {TripFact(trip, pickup, dropoff) :
                          pickup \in Taxi!ZonesAt(T, trip.location),
                          dropoff \in Taxi!ZonesAt(T, trip.destination)}
<1>1. Taxi!Facts(T) = UNION {Of(trip) : trip \in T["silver.trips"]} BY DEF Taxi!Facts, TripFact
<1>2. \A trip : f \in Of(trip) <=>
        \E pickup \in Taxi!ZonesAt(T, trip.location), dropoff \in Taxi!ZonesAt(T, trip.destination) :
          f = TripFact(trip, pickup, dropoff)
  OBVIOUS
<1> HIDE DEF Of
<1> QED BY <1>1, <1>2

\* A row of the bronze table with what the two joins of the staging find for it.
StagedRow(x, code, currency) ==
  Transactions!WithColumns(x, [code |-> code, geo_currency |-> currency])

\* A staged row is a bronze row with a code and a currency found for it.
LEMMA StagedRows ==
  \A T, lookup, y : y \in Transactions!Staged(T, lookup) <=>
    \E x \in T["bronze.transactions"] :
      \E code \in Transactions!CodesOf(lookup, x), currency \in Transactions!CurrenciesOf(T, x) :
        y = StagedRow(x, code, currency)
<1> TAKE T, lookup, y
<1> DEFINE Of(x) == {StagedRow(x, code, currency) :
                       code \in Transactions!CodesOf(lookup, x),
                       currency \in Transactions!CurrenciesOf(T, x)}
<1>1. Transactions!Staged(T, lookup) = UNION {Of(x) : x \in T["bronze.transactions"]}
  BY DEF Transactions!Staged, StagedRow
<1>2. \A x : y \in Of(x) <=>
        \E code \in Transactions!CodesOf(lookup, x), currency \in Transactions!CurrenciesOf(T, x) :
          y = StagedRow(x, code, currency)
  OBVIOUS
<1> HIDE DEF Of
<1> QED BY <1>1, <1>2

\* What the joins of the facts find in the dimensions.
CategoryNames(T, x) ==
  Transactions!Outer({c.name : c \in {d \in T["gold.dim_category"] : Transactions!Equal(x.code, d.code) = TRUE}},
                     NULL)
CountryNames(T, x) ==
  Transactions!Outer({g.name : g \in {h \in T["gold.dim_geo"] : Transactions!Equal(x.country, h.country) = TRUE}},
                     NULL)

\* A silver row with the names found for it.
TransactionFact(x, category, country) ==
  Transactions!WithColumns(x, [category_name |-> category, country_name |-> country])

\* A fact row is a silver row with a name found for its category and its country.
LEMMA TransactionFactRows ==
  \A T, f : f \in Transactions!Facts(T) <=>
    \E x \in T["silver.transactions"] :
      \E category \in CategoryNames(T, x), country \in CountryNames(T, x) :
        f = TransactionFact(x, category, country)
<1> TAKE T, f
<1> DEFINE Of(x) == {TransactionFact(x, category, country) :
                       category \in CategoryNames(T, x), country \in CountryNames(T, x)}
<1>1. Transactions!Facts(T) = UNION {Of(x) : x \in T["silver.transactions"]}
  BY DEF Transactions!Facts, CategoryNames, CountryNames, TransactionFact
<1>2. \A x : f \in Of(x) <=> \E category \in CategoryNames(T, x), country \in CountryNames(T, x) :
    f = TransactionFact(x, category, country)
  OBVIOUS
<1> HIDE DEF Of
<1> QED BY <1>1, <1>2

\* What the joins of the sales find in the dimensions.
Cities(T, r) ==
  Retail!Outer({s.city : s \in {d \in T["gold.dim_store"] : Retail!StoreSplit(d) = Retail!StoreSplit(r)}}, NULL)
Categories(T, r) ==
  Retail!Outer({p.category : p \in {d \in T["gold.dim_product"] : Retail!ProductSplit(d) = Retail!ProductSplit(r)}},
               NULL)

\* A silver sale with what the joins find for it.
SaleFact(r, city, category) ==
  Retail!WithColumns(r, [store_city |-> city, product_category |-> category])

\* A fact row is a sale with a city and a category found for it.
LEMMA RetailFactRows ==
  \A T, f : f \in Retail!Facts(T) <=>
    \E r \in T["silver.daily_sales"] :
      \E city \in Cities(T, r), category \in Categories(T, r) :
        f = SaleFact(r, city, category)
<1> TAKE T, f
<1> DEFINE Of(r) ==
    {SaleFact(r, city, category) : city \in Cities(T, r), category \in Categories(T, r)}
<1>1. Retail!Facts(T) = UNION {Of(r) : r \in T["silver.daily_sales"]}
  BY DEF Retail!Facts, Cities, Categories, SaleFact
<1>2. \A r : f \in Of(r) <=> \E city \in Cities(T, r), category \in Categories(T, r) :
    f = SaleFact(r, city, category)
  OBVIOUS
<1> HIDE DEF Of
<1> QED BY <1>1, <1>2

(***************************************************************************)
(* A table depends on the tables before it in the order, and on no others. *)
(***************************************************************************)
LEMMA TaxiFactsRead ==
  ASSUME NEW T, NEW U, T["silver.trips"] = U["silver.trips"], T["gold.dim_zones"] = U["gold.dim_zones"]
  PROVE  Taxi!Facts(T) = Taxi!Facts(U)
BY DEF Taxi!Facts, Taxi!ZonesAt

LEMMA StagedRead ==
  ASSUME NEW T, NEW U, NEW lookup, T["bronze.transactions"] = U["bronze.transactions"],
         T["bronze.country_currency"] = U["bronze.country_currency"]
  PROVE  Transactions!Staged(T, lookup) = Transactions!Staged(U, lookup)
BY DEF Transactions!Staged, Transactions!CurrenciesOf

LEMMA TransactionFactsRead ==
  ASSUME NEW T, NEW U, T["silver.transactions"] = U["silver.transactions"],
         T["gold.dim_category"] = U["gold.dim_category"], T["gold.dim_geo"] = U["gold.dim_geo"]
  PROVE  Transactions!Facts(T) = Transactions!Facts(U)
BY DEF Transactions!Facts

LEMMA RetailFactsRead ==
  ASSUME NEW T, NEW U, T["silver.daily_sales"] = U["silver.daily_sales"],
         T["gold.dim_store"] = U["gold.dim_store"], T["gold.dim_product"] = U["gold.dim_product"]
  PROVE  Retail!Facts(T) = Retail!Facts(U)
<1> DEFINE Of(V, r) ==
    {SaleFact(r, city, category) : city \in Cities(V, r), category \in Categories(V, r)}
<1>1. \A r : Cities(T, r) = Cities(U, r) BY DEF Cities
<1>2. \A r : Categories(T, r) = Categories(U, r) BY DEF Categories
<1>3. \A r : Of(T, r) = Of(U, r) BY <1>1, <1>2
<1>4. Retail!Facts(T) = UNION {Of(T, r) : r \in T["silver.daily_sales"]}
  BY DEF Retail!Facts, Cities, Categories, SaleFact
<1>5. Retail!Facts(U) = UNION {Of(U, r) : r \in U["silver.daily_sales"]}
  BY DEF Retail!Facts, Cities, Categories, SaleFact
<1> HIDE DEF Of
<1> QED BY <1>3, <1>4, <1>5

\* Two catalogs that agree on the tables before one have the same contents for it.
LEMMA TaxiReadsEarlier ==
  ASSUME NEW files, NEW T, NEW U, NEW i \in 1..8,
         \A j \in 1..(i - 1) : T[Taxi!Order[j]] = U[Taxi!Order[j]]
  PROVE  LET t == Taxi!Order[i]
         IN  /\ Taxi!Contents(t, files, T) = Taxi!Contents(t, files, U)
             /\ \A rows : Taxi!Passes(t, T, rows) <=> Taxi!Passes(t, U, rows)
<1> DEFINE t == Taxi!Order[i]
<1>0. \A j \in 1..8 : Taxi!Order[j] =
        << "bronze.yellow_tripdata", "bronze.green_tripdata", "bronze.taxi_zone_lookup",
           "silver.rejected_trips", "silver.trips",
           "gold.dim_zones", "gold.fct_trips", "gold.fct_monthly_zone_revenue" >>[j]
  BY DEF Taxi!Order
<1>1. i > 2 => /\ T["bronze.yellow_tripdata"] = U["bronze.yellow_tripdata"]
               /\ T["bronze.green_tripdata"] = U["bronze.green_tripdata"]
  BY <1>0
<1>2. i > 3 => T["bronze.taxi_zone_lookup"] = U["bronze.taxi_zone_lookup"] BY <1>0
<1>3. i > 6 => /\ T["silver.trips"] = U["silver.trips"] /\ T["gold.dim_zones"] = U["gold.dim_zones"]
  BY <1>0
<1>4. i > 7 => T["gold.fct_trips"] = U["gold.fct_trips"] BY <1>0
<1>5. i > 2 => /\ Taxi!Trips(T) = Taxi!Trips(U) /\ Taxi!Valid(T) = Taxi!Valid(U)
               /\ Taxi!Rejected(T) = Taxi!Rejected(U)
  BY <1>1 DEF Taxi!Trips, Taxi!Valid, Taxi!Rejected
<1>6. i > 2 => Taxi!Deduplicated(T) = Taxi!Deduplicated(U) BY <1>5 DEF Taxi!Deduplicated
<1>7. i > 6 => Taxi!Facts(T) = Taxi!Facts(U)
  <2>1. SUFFICES ASSUME i > 6 PROVE Taxi!Facts(T) = Taxi!Facts(U) OBVIOUS
  <2>2. T["silver.trips"] = U["silver.trips"] /\ T["gold.dim_zones"] = U["gold.dim_zones"]
    BY <1>3, <2>1
  <2> QED BY <2>2, TaxiFactsRead
<1>8. i > 7 => Taxi!Monthly(T) = Taxi!Monthly(U) BY <1>4 DEF Taxi!Monthly
<1>9. Taxi!Contents(t, files, T) = Taxi!Contents(t, files, U)
  BY <1>0, <1>2, <1>5, <1>6, <1>7, <1>8 DEF Taxi!Contents
<1>10. ASSUME NEW rows PROVE Taxi!Passes(t, T, rows) <=> Taxi!Passes(t, U, rows)
  <2>1. i > 7 => (Taxi!MonthlyMatchesFacts(T, rows) <=> Taxi!MonthlyMatchesFacts(U, rows))
    BY <1>4 DEF Taxi!MonthlyMatchesFacts
  <2>2. Taxi!Reconciles(t, T, rows) <=> Taxi!Reconciles(t, U, rows)
    BY <1>0, <1>2, <1>3, <2>1 DEF Taxi!Reconciles
  <2> QED BY <2>2 DEF Taxi!Passes
<1> QED BY <1>9, <1>10

\* The same of the transactions,
LEMMA TransactionsReadEarlier ==
  ASSUME NEW files, NEW T, NEW U, NEW i \in 1..9,
         \A j \in 1..(i - 1) : T[Transactions!Order[j]] = U[Transactions!Order[j]]
  PROVE  LET t == Transactions!Order[i]
         IN  /\ Transactions!Contents(t, files, T) = Transactions!Contents(t, files, U)
             /\ \A rows : Transactions!Passes(t, T, rows) <=> Transactions!Passes(t, U, rows)
<1> DEFINE t == Transactions!Order[i]
<1>0. \A j \in 1..9 : Transactions!Order[j] =
        << "bronze.transactions", "bronze.category_taxonomy", "bronze.country_currency",
           "silver.rejected_transactions", "silver.transactions",
           "gold.dim_category", "gold.dim_geo", "gold.fct_transactions",
           "gold.fct_category_country" >>[j]
  BY DEF Transactions!Order
<1>1. i > 3 => /\ T["bronze.transactions"] = U["bronze.transactions"]
               /\ T["bronze.category_taxonomy"] = U["bronze.category_taxonomy"]
               /\ T["bronze.country_currency"] = U["bronze.country_currency"]
  BY <1>0
<1>2. i > 7 => /\ T["silver.transactions"] = U["silver.transactions"]
               /\ T["gold.dim_category"] = U["gold.dim_category"]
               /\ T["gold.dim_geo"] = U["gold.dim_geo"]
  BY <1>0
<1>3. i > 8 => T["gold.fct_transactions"] = U["gold.fct_transactions"] BY <1>0
<1>4. ASSUME i > 3
      PROVE  /\ Transactions!AliasLookups(T) = Transactions!AliasLookups(U)
             /\ \A lookup : /\ Transactions!Rejected(T, lookup) = Transactions!Rejected(U, lookup)
                            /\ Transactions!Silver(T, lookup) = Transactions!Silver(U, lookup)
             /\ Transactions!DimCategory(T) = Transactions!DimCategory(U)
             /\ Transactions!DimGeo(T) = Transactions!DimGeo(U)
  <2>1. Transactions!AliasLookups(T) = Transactions!AliasLookups(U)
    BY <1>1, <1>4 DEF Transactions!AliasLookups
  <2>2. \A x : Transactions!Reasons(T, x) = Transactions!Reasons(U, x)
    BY <1>1, <1>4 DEF Transactions!Reasons, Transactions!IsCopy
  <2>3. \A lookup : Transactions!Staged(T, lookup) = Transactions!Staged(U, lookup)
    BY <1>1, <1>4, StagedRead
  <2>4. \A lookup : /\ Transactions!Rejected(T, lookup) = Transactions!Rejected(U, lookup)
                    /\ Transactions!Silver(T, lookup) = Transactions!Silver(U, lookup)
    BY <2>2, <2>3 DEF Transactions!Rejected, Transactions!Silver
  <2> QED BY <1>1, <1>4, <2>1, <2>4 DEF Transactions!DimCategory, Transactions!DimGeo
<1>5. ASSUME i > 7 PROVE Transactions!Facts(T) = Transactions!Facts(U)
  BY <1>2, <1>5, TransactionFactsRead
<1>6. ASSUME i > 8 PROVE Transactions!CategoryCountry(T) = Transactions!CategoryCountry(U)
  BY <1>3, <1>6 DEF Transactions!CategoryCountry
<1>7. Transactions!Contents(t, files, T) = Transactions!Contents(t, files, U)
  BY <1>0, <1>4, <1>5, <1>6 DEF Transactions!Contents
<1>8. ASSUME NEW rows PROVE Transactions!Passes(t, T, rows) <=> Transactions!Passes(t, U, rows)
  <2>1. Transactions!Reconciles(t, T, rows) <=> Transactions!Reconciles(t, U, rows)
    BY <1>0, <1>2, <1>3 DEF Transactions!Reconciles
  <2> QED BY <2>1 DEF Transactions!Passes
<1> QED BY <1>7, <1>8

\* of the sales,
LEMMA RetailReadsEarlier ==
  ASSUME NEW files, NEW T, NEW U, NEW i \in 1..11,
         \A j \in 1..(i - 1) : T[Retail!Order[j]] = U[Retail!Order[j]]
  PROVE  LET t == Retail!Order[i]
         IN  /\ Retail!Contents(t, files, T) = Retail!Contents(t, files, U)
             /\ \A rows : Retail!Passes(t, T, rows) <=> Retail!Passes(t, U, rows)
<1> DEFINE t == Retail!Order[i]
<1>0. \A j \in 1..11 : Retail!Order[j] =
        << "bronze.daily_sales_train", "bronze.daily_sales_eval",
           "silver.rejected_sales", "silver.daily_sales", "silver.dim_store", "silver.dim_product",
           "gold.dim_store", "gold.dim_product", "gold.fct_daily_sales",
           "gold.fct_store_daily", "gold.fct_category_daily" >>[j]
  BY DEF Retail!Order
<1>1. i > 2 => /\ T["bronze.daily_sales_train"] = U["bronze.daily_sales_train"]
               /\ T["bronze.daily_sales_eval"] = U["bronze.daily_sales_eval"]
  BY <1>0
<1>2. /\ i > 3 => T["silver.rejected_sales"] = U["silver.rejected_sales"]
      /\ i > 4 => T["silver.daily_sales"] = U["silver.daily_sales"]
      /\ i > 5 => T["silver.dim_store"] = U["silver.dim_store"]
      /\ i > 6 => T["silver.dim_product"] = U["silver.dim_product"]
  BY <1>0
<1>3. i > 8 => /\ T["gold.dim_store"] = U["gold.dim_store"]
               /\ T["gold.dim_product"] = U["gold.dim_product"]
  BY <1>0
<1>4. i > 9 => T["gold.fct_daily_sales"] = U["gold.fct_daily_sales"] BY <1>0
<1>5. i > 2 => Retail!Combined(T) = Retail!Combined(U) BY <1>1 DEF Retail!Combined
<1>6. ASSUME i > 2
      PROVE Retail!Rejected(T) = Retail!Rejected(U) /\ Retail!Ranked(T) = Retail!Ranked(U)
  <2>1. Retail!Combined(T) = Retail!Combined(U) /\ Retail!ValidCandidates(T) = Retail!ValidCandidates(U)
    BY <1>5, <1>6 DEF Retail!ValidCandidates
  <2>2. Retail!Ranked(T) = Retail!Ranked(U) BY <2>1 DEF Retail!Ranked
  <2> QED BY <2>1, <2>2 DEF Retail!Rejected
<1>7. ASSUME i > 4
      PROVE  Retail!DimStore(T) = Retail!DimStore(U) /\ Retail!DimProduct(T) = Retail!DimProduct(U)
  BY <1>2, <1>7 DEF Retail!DimStore, Retail!DimProduct
<1>8. ASSUME i > 8 PROVE Retail!Facts(T) = Retail!Facts(U)
  BY <1>2, <1>3, <1>8, RetailFactsRead
<1>9. ASSUME i > 9
      PROVE  Retail!StoreDaily(T) = Retail!StoreDaily(U) /\ Retail!CategoryDaily(T) = Retail!CategoryDaily(U)
  BY <1>4, <1>9 DEF Retail!StoreDaily, Retail!CategoryDaily
<1>10. Retail!Contents(t, files, T) = Retail!Contents(t, files, U)
  BY <1>0, <1>2, <1>6, <1>7, <1>8, <1>9 DEF Retail!Contents
<1>11. ASSUME NEW rows PROVE Retail!Passes(t, T, rows) <=> Retail!Passes(t, U, rows)
  <2>1. Retail!Reconciles(t, T, rows) <=> Retail!Reconciles(t, U, rows)
    BY <1>0, <1>2, <1>4, <1>5 DEF Retail!Reconciles
  <2> QED BY <2>1 DEF Retail!Passes
<1> QED BY <1>10, <1>11

\* Which of the three flows a pipeline runs.
LEMMA FlowOf ==
  /\ pipeline = "taxi" =>
       /\ Order = Taxi!Order
       /\ \A t, T : /\ Contents(t, T) = Taxi!Contents(t, raw, T)
                    /\ \A rows : Passes(t, T, rows) <=> Taxi!Passes(t, T, rows)
  /\ pipeline = "transaction_cat" =>
       /\ Order = Transactions!Order
       /\ \A t, T : /\ Contents(t, T) = Transactions!Contents(t, raw, T)
                    /\ \A rows : Passes(t, T, rows) <=> Transactions!Passes(t, T, rows)
  /\ pipeline = "fresh_retail" =>
       /\ Order = Retail!Order
       /\ \A t, T : /\ Contents(t, T) = Retail!Contents(t, raw, T)
                    /\ \A rows : Passes(t, T, rows) <=> Retail!Passes(t, T, rows)
<1>1. ASSUME pipeline = "taxi"
      PROVE  /\ Order = Taxi!Order
             /\ \A t, T : /\ Contents(t, T) = Taxi!Contents(t, raw, T)
                          /\ \A rows : Passes(t, T, rows) <=> Taxi!Passes(t, T, rows)
  BY <1>1 DEF Order, Contents, Passes
<1>2. ASSUME pipeline = "transaction_cat"
      PROVE  /\ Order = Transactions!Order
             /\ \A t, T : /\ Contents(t, T) = Transactions!Contents(t, raw, T)
                          /\ \A rows : Passes(t, T, rows) <=> Transactions!Passes(t, T, rows)
  BY <1>2 DEF Order, Contents, Passes
<1>3. ASSUME pipeline = "fresh_retail"
      PROVE  /\ Order = Retail!Order
             /\ \A t, T : /\ Contents(t, T) = Retail!Contents(t, raw, T)
                          /\ \A rows : Passes(t, T, rows) <=> Retail!Passes(t, T, rows)
  BY <1>3 DEF Order, Contents, Passes
<1> QED BY <1>1, <1>2, <1>3

\* and of all three.
LEMMA ReadsEarlier ==
  ASSUME pipeline \in Slices, NEW T, NEW U, NEW i \in DOMAIN Order,
         \A j \in 1..(i - 1) : T[Order[j]] = U[Order[j]]
  PROVE  /\ Contents(Order[i], T) = Contents(Order[i], U)
         /\ \A rows : Passes(Order[i], T, rows) <=> Passes(Order[i], U, rows)
<1>1. CASE pipeline = "taxi"
  <2>1. Order = Taxi!Order BY <1>1, FlowOf
  <2>2. i \in 1..8 BY <2>1, TaxiOrder
  <2>3. /\ Taxi!Contents(Order[i], raw, T) = Taxi!Contents(Order[i], raw, U)
        /\ \A rows : Taxi!Passes(Order[i], T, rows) <=> Taxi!Passes(Order[i], U, rows)
    BY <2>1, <2>2, TaxiReadsEarlier
  <2> QED BY <1>1, <2>3, FlowOf
<1>2. CASE pipeline = "transaction_cat"
  <2>1. Order = Transactions!Order BY <1>2, FlowOf
  <2>2. i \in 1..9 BY <2>1, TransactionsOrder
  <2>3. /\ Transactions!Contents(Order[i], raw, T) = Transactions!Contents(Order[i], raw, U)
        /\ \A rows :
             Transactions!Passes(Order[i], T, rows) <=> Transactions!Passes(Order[i], U, rows)
    BY <2>1, <2>2, TransactionsReadEarlier
  <2> QED BY <1>2, <2>3, FlowOf
<1>3. CASE pipeline = "fresh_retail"
  <2>1. Order = Retail!Order BY <1>3, FlowOf
  <2>2. i \in 1..11 BY <2>1, RetailOrder
  <2>3. /\ Retail!Contents(Order[i], raw, T) = Retail!Contents(Order[i], raw, U)
        /\ \A rows : Retail!Passes(Order[i], T, rows) <=> Retail!Passes(Order[i], U, rows)
    BY <2>1, <2>2, RetailReadsEarlier
  <2> QED BY <1>3, <2>3, FlowOf
<1> QED BY <1>1, <1>2, <1>3 DEF Slices

(***************************************************************************)
(* The tables of each run are what an undisturbed run would have built.    *)
(***************************************************************************)
LEMMA LawfulStays ==
  ASSUME UNCHANGED <<pipeline, raw>>, NEW T
  PROVE  Lawful(T)' <=> Lawful(T)
<1>1. Order' = Order BY DEF Order
<1>2. \A t : Contents(t, T)' = Contents(t, T) BY DEF Contents
<1>3. \A t, rows : Passes(t, T, rows)' <=> Passes(t, T, rows) BY DEF Passes
<1>4. (\A t \in DOMAIN T : T[t] \in Contents(t, T) /\ Passes(t, T, T[t]))'
        <=> \A t \in DOMAIN T : T[t] \in Contents(t, T) /\ Passes(t, T, T[t])
  BY <1>2, <1>3
<1>5. (\E n \in 0..Len(Order) : DOMAIN T = {Order[i] : i \in 1..n})'
        <=> \E n \in 0..Len(Order) : DOMAIN T = {Order[i] : i \in 1..n}
  BY <1>1
<1> QED BY <1>4, <1>5 DEF Lawful

\* A run that has published nothing is undisturbed.
LEMMA NothingIsLawful == ASSUME pipeline \in Slices, NEW T, DOMAIN T = {} PROVE Lawful(T)
<1>1. Len(Order) \in Nat /\ {Order[i] : i \in 1..0} = {} BY WellOrdered
<1> QED BY <1>1 DEF Lawful

\* A publication by the latest run extends what an undisturbed run could have published.
LEMMA PublishedIsLawful ==
  ASSUME TypeInv, ProgressInv, TablesInv, NEW t, Ready(t), NEW rows \in Contents(t, tables),
         Passes(t, tables, rows), Overwrite(t, rows), UNCHANGED <<pipeline, raw, run>>
  PROVE  TablesInv'
<1>1. /\ t = Order[next] /\ next \in 1..Len(Order) /\ run \in Nat /\ run \in 1..run
      /\ Len(Order) \in Nat /\ DOMAIN Order = 1..Len(Order)
      /\ \A i, j \in 1..Len(Order) : Order[i] = Order[j] => i = j
      /\ Order' = Order
  BY BuildingTypes, WellOrdered, SameOrder, MaxRunsAssumption DEF Ready, TypeInv, TypeOK
<1>2. /\ DOMAIN tables' = DOMAIN tables \cup {t} /\ DOMAIN by' = DOMAIN by \cup {t}
      /\ tables'[t] = rows /\ by'[t] = run
      /\ \A u \in DOMAIN tables \ {t} : tables'[u] = tables[u] /\ by'[u] = by[u]
      /\ DOMAIN by = DOMAIN tables /\ DOMAIN tables \subseteq Names
      /\ \A u \in DOMAIN tables : by[u] \in 1..run
  <2>1. tables' = Overwritten(tables, t, rows) /\ by' = Overwritten(by, t, run) BY DEF Overwrite
  <2>2. /\ DOMAIN by = DOMAIN tables /\ DOMAIN tables \subseteq Names
        /\ \A u \in DOMAIN tables : by[u] \in 1..run
    BY DEF TypeInv, TypeOK
  <2>3. /\ DOMAIN tables' = DOMAIN tables \cup {t} /\ tables'[t] = rows
        /\ \A u \in DOMAIN tables \ {t} : tables'[u] = tables[u]
    BY <2>1, Overwriting
  <2>4. /\ DOMAIN by' = DOMAIN by \cup {t} /\ by'[t] = run
        /\ \A u \in DOMAIN by \ {t} : by'[u] = by[u]
    BY <2>1, Overwriting
  <2> QED BY <2>2, <2>3, <2>4
<1>3. \A i \in 1..(next - 1) : Order[i] \in DOMAIN tables /\ by[Order[i]] = run /\ Order[i] # t
  BY <1>1, <1>2 DEF ProgressInv, IsNew, Published
<1>4. PICK T : /\ Lawful(T)
               /\ \A u \in DOMAIN tables : by[u] = run => u \in DOMAIN T /\ T[u] = tables[u]
  BY <1>1 DEF TablesInv
<1> DEFINE built == {Order[i] : i \in 1..next}
<1>5. PICK U : U = [u \in built |-> tables'[u]] OBVIOUS
<1>6. /\ DOMAIN U = built /\ U[t] = rows
      /\ \A i \in 1..(next - 1) : U[Order[i]] = tables[Order[i]] /\ U[Order[i]] = T[Order[i]]
                                  /\ Order[i] \in DOMAIN T
  BY <1>1, <1>2, <1>3, <1>4, <1>5
<1>7. Lawful(U)
  <2>1. \E n \in 0..Len(Order) : DOMAIN U = {Order[i] : i \in 1..n} BY <1>1, <1>6
  <2>2. ASSUME NEW i \in 1..next
        PROVE  U[Order[i]] \in Contents(Order[i], U) /\ Passes(Order[i], U, U[Order[i]])
    <3>1. CASE i = next
      <4>1. /\ Contents(t, tables) = Contents(t, U)
            /\ \A r : Passes(t, tables, r) <=> Passes(t, U, r)
        BY <1>1, <1>6, ReadsEarlier DEF TypeInv
      <4> QED BY <1>1, <1>6, <3>1, <4>1
    <3>2. CASE i # next
      <4>1. i \in 1..(next - 1) /\ i \in DOMAIN Order BY <1>1, <3>2
      <4>2. \A j \in 1..(i - 1) : T[Order[j]] = U[Order[j]] BY <1>1, <1>6, <4>1
      <4>3. /\ Contents(Order[i], T) = Contents(Order[i], U)
            /\ \A r : Passes(Order[i], T, r) <=> Passes(Order[i], U, r)
        BY <4>1, <4>2, ReadsEarlier DEF TypeInv
      <4>4. T[Order[i]] \in Contents(Order[i], T) /\ Passes(Order[i], T, T[Order[i]])
        BY <1>4, <1>6, <4>1 DEF Lawful
      <4> QED BY <1>6, <4>1, <4>3, <4>4
    <3> QED BY <3>1, <3>2
  <2> QED BY <1>6, <2>1, <2>2 DEF Lawful
<1>8. \A u \in DOMAIN tables' : by'[u] = run => u \in DOMAIN U /\ U[u] = tables'[u]
  <2> SUFFICES ASSUME NEW u \in DOMAIN tables', by'[u] = run PROVE u \in built
    BY <1>5
  <2>1. PICK i \in DOMAIN Order : u = Order[i] BY <1>1, <1>2 DEF Names
  <2>2. CASE i > next
    <3>1. ~IsNew(run, i) /\ u # t BY <1>1, <2>1, <2>2 DEF ProgressInv, Ready, Building
    <3> QED BY <1>1, <1>2, <2>1, <3>1 DEF IsNew, Published
  <2> QED BY <1>1, <2>1, <2>2
<1>9. ASSUME NEW r \in 1..run
      PROVE  \E V : /\ Lawful(V)'
                    /\ \A u \in DOMAIN tables' : by'[u] = r => u \in DOMAIN V /\ V[u] = tables'[u]
  <2>1. CASE r = run BY <1>7, <1>8, <2>1, LawfulStays
  <2>2. CASE r # run
    <3>1. PICK V : Lawful(V) /\ \A u \in DOMAIN tables :
        by[u] = r => u \in DOMAIN V /\ V[u] = tables[u]
      BY DEF TablesInv
    <3>2. \A u \in DOMAIN tables' : by'[u] = r => u \in DOMAIN V /\ V[u] = tables'[u]
      BY <1>2, <2>2, <3>1
    <3> QED BY <3>1, <3>2, LawfulStays
  <2> QED BY <2>1, <2>2
<1>10. ASSUME NEW i \in DOMAIN Order, Published(Order[i])', NEW j \in 1..i
       PROVE Published(Order[j])'
  <2>1. CASE i = next
    <3>1. j \in 1..(next - 1) \/ j = next BY <1>1, <2>1
    <3> QED BY <1>1, <1>2, <1>3, <3>1 DEF Published
  <2>2. CASE i # next
    <3>1. Published(Order[i]) BY <1>1, <1>2, <1>10, <2>2 DEF Published
    <3>2. Published(Order[j]) BY <3>1 DEF TablesInv
    <3> QED BY <1>1, <1>2, <3>2 DEF Published
  <2> QED BY <2>1, <2>2
<1>11. (\A i \in DOMAIN Order : Published(Order[i]) => \A j \in 1..i : Published(Order[j]))'
  BY <1>1, <1>10
<1> QED BY <1>9, <1>11 DEF TablesInv

\* The empty catalog satisfies the invariant, and every step keeps it.
LEMMA TablesInit == Init => TablesInv
<1> SUFFICES ASSUME Init PROVE TablesInv OBVIOUS
<1>1. run = 0 /\ pipeline \in DOMAIN Raws /\ raw \in Raws[pipeline] BY DEF Init
<1>2. \A t : ~Published(t) BY DEF Init, Published
<1> QED BY <1>1, <1>2 DEF TablesInv

LEMMA TablesStep == TypeInv /\ RunInv /\ TablesInv /\ [Next]_vars => TablesInv'
<1> SUFFICES ASSUME TypeInv, RunInv, TablesInv, [Next]_vars PROVE TablesInv' OBVIOUS
<1>0. UNCHANGED <<pipeline, raw, tables>> =>
        (\A i \in DOMAIN Order : Published(Order[i]) => \A j \in 1..i : Published(Order[j]))'
  BY SameOrder DEF TablesInv, Published
<1>1. CASE StartRun
  <2>1. UNCHANGED <<pipeline, raw, tables, by>> /\ run' = run + 1 BY <1>1 DEF StartRun, lineage
  <2>2. run \in Nat /\ \A u \in DOMAIN tables : by[u] \in 1..run
    BY MaxRunsAssumption DEF TypeInv, TypeOK
  <2>3. ASSUME NEW r \in 1..run'
        PROVE  \E V : /\ Lawful(V)'
                      /\ \A u \in DOMAIN tables' : by'[u] = r => u \in DOMAIN V /\ V[u] = tables'[u]
    <3>1. CASE r = run + 1
      <4>1. Lawful([u \in {} |-> u]) BY NothingIsLawful DEF TypeInv
      <4>2. \A u \in DOMAIN tables' : by'[u] # r BY <2>1, <2>2, <3>1
      <4> QED BY <2>1, <4>1, <4>2, LawfulStays
    <3>2. CASE r # run + 1
      <4>1. r \in 1..run BY <2>1, <2>2, <3>2
      <4>2. PICK V : Lawful(V) /\ \A u \in DOMAIN tables :
          by[u] = r => u \in DOMAIN V /\ V[u] = tables[u]
        BY <4>1 DEF TablesInv
      <4> QED BY <2>1, <4>2, LawfulStays
    <3> QED BY <3>1, <3>2
  <2> QED BY <1>0, <2>1, <2>3 DEF TablesInv
<1>2. ASSUME NEW t, Ready(t), NEW rows \in Contents(t, tables), Passes(t, tables, rows),
             Overwrite(t, rows), UNCHANGED <<pipeline, raw, run>>
      PROVE  TablesInv'
  BY <1>2, PublishedIsLawful DEF RunInv
<1>3. CASE UNCHANGED <<pipeline, raw, lineage, run>>
  <2>1. UNCHANGED <<pipeline, raw, tables, by, run>> BY <1>3 DEF lineage
  <2>2. \A V : Lawful(V)' <=> Lawful(V) BY <2>1, LawfulStays
  <2> QED BY <1>0, <2>1, <2>2 DEF TablesInv
<1>4. ASSUME NEW t \in Names, BuildTable(t) PROVE TablesInv'
  BY <1>2, <1>4 DEF BuildTable
<1>5. ASSUME NEW t \in Names, PublishRaises(t) PROVE TablesInv'
  <2>1. Ready(t) /\ UNCHANGED <<pipeline, raw, run>> BY <1>5 DEF PublishRaises
  <2>2. \/ \E rows \in Contents(t, tables) : Passes(t, tables, rows) /\ Overwrite(t, rows)
        \/ UNCHANGED lineage
    BY <1>5 DEF PublishRaises
  <2> QED BY <1>2, <1>3, <2>1, <2>2
<1>6. ASSUME NEW t \in Names, AuditFails(t) \/ QueryRaises(t) PROVE TablesInv'
  BY <1>3, <1>6 DEF AuditFails, QueryRaises
<1>7. CASE Succeed \/ Except \/ Kill \/ UNCHANGED vars
  BY <1>3, <1>7 DEF Succeed, Except, Kill, vars
<1> QED BY <1>1, <1>4, <1>5, <1>6, <1>7 DEF Next

\* The queries that the flows use are those of Sql.
LEMMA TaxiSql ==
  /\ \A S : Taxi!Cardinality(S) = Cardinality(S) /\ (Taxi!IsFiniteSet(S) <=> IsFiniteSet(S))
  /\ \A partition, rank :
       Taxi!FirstPerPartition(partition, rank) = FirstPerPartition(partition, rank)
  /\ \A row, columns : Taxi!WithColumns(row, columns) = WithColumns(row, columns)
  /\ \A row, columns : Taxi!HasColumns(row, columns) <=> HasColumns(row, columns)
  /\ \A key : Taxi!Groups(key) = Groups(key) /\ (Taxi!Unique(key) <=> Unique(key))
  /\ \A key, k : Taxi!Group(key, k) = Group(key, k)
  /\ \A column : Taxi!Total(column) = Total(column)
<1>1. \A S : Taxi!Cardinality(S) = Cardinality(S) /\ (Taxi!IsFiniteSet(S) <=> IsFiniteSet(S))
  BY DEF Taxi!Cardinality, Cardinality, Taxi!IsFiniteSet, IsFiniteSet
<1>2. \A a, b : Taxi!Precedes(a, b) <=> Precedes(a, b)
  BY DEF Taxi!Precedes, Precedes, Taxi!IsNull, IsNull, Taxi!Less, Less
<1>3. ASSUME NEW partition, NEW rank
      PROVE  Taxi!FirstPerPartition(partition, rank) = FirstPerPartition(partition, rank)
  BY <1>1, <1>2 DEF Taxi!FirstPerPartition, FirstPerPartition
<1>4. \A row, columns : Taxi!WithColumns(row, columns) = WithColumns(row, columns)
  BY DEF Taxi!WithColumns, WithColumns
<1>5. \A row, columns : Taxi!HasColumns(row, columns) <=> HasColumns(row, columns)
  BY DEF Taxi!HasColumns, HasColumns
<1>6. \A key : Taxi!Groups(key) = Groups(key) /\ (Taxi!Unique(key) <=> Unique(key))
  BY <1>1 DEF Taxi!Groups, Groups, Taxi!Unique, Unique
<1>7. \A key, k : Taxi!Group(key, k) = Group(key, k) BY DEF Taxi!Group, Group
<1>8. \A column : Taxi!Total(column) = Total(column)
  BY DEF Taxi!Total, Total, Taxi!MapThenSumSet, MapThenSumSet, Taxi!MapThenFoldSet, MapThenFoldSet
<1> QED BY <1>1, <1>3, <1>4, <1>5, <1>6, <1>7, <1>8

LEMMA TransactionsSql ==
  /\ \A S :
       Transactions!Cardinality(S) = Cardinality(S) /\ (Transactions!IsFiniteSet(S) <=> IsFiniteSet(S))
  /\ \A partition, rank :
       Transactions!FirstPerPartition(partition, rank) = FirstPerPartition(partition, rank)
  /\ \A row, columns : Transactions!WithColumns(row, columns) = WithColumns(row, columns)
  /\ \A row, columns : Transactions!HasColumns(row, columns) <=> HasColumns(row, columns)
  /\ \A key : Transactions!Groups(key) = Groups(key) /\ (Transactions!Unique(key) <=> Unique(key))
  /\ \A key, k : Transactions!Group(key, k) = Group(key, k)
  /\ \A column : Transactions!Total(column) = Total(column)
<1>1. \A S :
    Transactions!Cardinality(S) = Cardinality(S) /\ (Transactions!IsFiniteSet(S) <=> IsFiniteSet(S))
  BY DEF Transactions!Cardinality, Cardinality, Transactions!IsFiniteSet, IsFiniteSet
<1>2. \A a, b : Transactions!Precedes(a, b) <=> Precedes(a, b)
  BY DEF Transactions!Precedes, Precedes, Transactions!IsNull, IsNull, Transactions!Less, Less
<1>3. ASSUME NEW partition, NEW rank
      PROVE  Transactions!FirstPerPartition(partition, rank) = FirstPerPartition(partition, rank)
  BY <1>1, <1>2 DEF Transactions!FirstPerPartition, FirstPerPartition
<1>4. \A row, columns : Transactions!WithColumns(row, columns) = WithColumns(row, columns)
  BY DEF Transactions!WithColumns, WithColumns
<1>5. \A row, columns : Transactions!HasColumns(row, columns) <=> HasColumns(row, columns)
  BY DEF Transactions!HasColumns, HasColumns
<1>6. \A key : Transactions!Groups(key) = Groups(key) /\ (Transactions!Unique(key) <=> Unique(key))
  BY <1>1 DEF Transactions!Groups, Groups, Transactions!Unique, Unique
<1>7. \A key, k : Transactions!Group(key, k) = Group(key, k) BY DEF Transactions!Group, Group
<1>8. \A column : Transactions!Total(column) = Total(column)
  BY DEF Transactions!Total, Total, Transactions!MapThenSumSet, MapThenSumSet,
     Transactions!MapThenFoldSet, MapThenFoldSet
<1> QED BY <1>1, <1>3, <1>4, <1>5, <1>6, <1>7, <1>8

LEMMA RetailSql ==
  /\ \A S : Retail!Cardinality(S) = Cardinality(S) /\ (Retail!IsFiniteSet(S) <=> IsFiniteSet(S))
  /\ \A partition, rank :
       Retail!FirstPerPartition(partition, rank) = FirstPerPartition(partition, rank)
  /\ \A row, columns : Retail!WithColumns(row, columns) = WithColumns(row, columns)
  /\ \A row, columns : Retail!HasColumns(row, columns) <=> HasColumns(row, columns)
  /\ \A key : Retail!Groups(key) = Groups(key) /\ (Retail!Unique(key) <=> Unique(key))
  /\ \A key, k : Retail!Group(key, k) = Group(key, k)
  /\ \A column : Retail!Total(column) = Total(column)
<1>1. \A S : Retail!Cardinality(S) = Cardinality(S) /\ (Retail!IsFiniteSet(S) <=> IsFiniteSet(S))
  BY DEF Retail!Cardinality, Cardinality, Retail!IsFiniteSet, IsFiniteSet
<1>2. \A a, b : Retail!Precedes(a, b) <=> Precedes(a, b)
  BY DEF Retail!Precedes, Precedes, Retail!IsNull, IsNull, Retail!Less, Less
<1>3. ASSUME NEW partition, NEW rank
      PROVE  Retail!FirstPerPartition(partition, rank) = FirstPerPartition(partition, rank)
  BY <1>1, <1>2 DEF Retail!FirstPerPartition, FirstPerPartition
<1>4. \A row, columns : Retail!WithColumns(row, columns) = WithColumns(row, columns)
  BY DEF Retail!WithColumns, WithColumns
<1>5. \A row, columns : Retail!HasColumns(row, columns) <=> HasColumns(row, columns)
  BY DEF Retail!HasColumns, HasColumns
<1>6. \A key : Retail!Groups(key) = Groups(key) /\ (Retail!Unique(key) <=> Unique(key))
  BY <1>1 DEF Retail!Groups, Groups, Retail!Unique, Unique
<1>7. \A key, k : Retail!Group(key, k) = Group(key, k) BY DEF Retail!Group, Group
<1>8. \A column : Retail!Total(column) = Total(column)
  BY DEF Retail!Total, Total, Retail!MapThenSumSet, MapThenSumSet, Retail!MapThenFoldSet,
     MapThenFoldSet
<1> QED BY <1>1, <1>3, <1>4, <1>5, <1>6, <1>7, <1>8

\* A table of an undisturbed run comes with those before it, and each passed its audits.
LEMMA LawfulPrefix ==
  ASSUME pipeline \in Slices, NEW T, Lawful(T), NEW i \in DOMAIN Order, Order[i] \in DOMAIN T
  PROVE  \A j \in 1..i : /\ Order[j] \in DOMAIN T
                         /\ T[Order[j]] \in Contents(Order[j], T) /\ Passes(Order[j], T, T[Order[j]])
<1>1. PICK n \in 0..Len(Order) : DOMAIN T = {Order[k] : k \in 1..n} BY DEF Lawful
<1>2. /\ Len(Order) \in Nat /\ DOMAIN Order = 1..Len(Order)
      /\ \A k, l \in 1..Len(Order) : Order[k] = Order[l] => k = l
  BY WellOrdered
<1>3. i \in 1..n BY <1>1, <1>2
<1>4. \A j \in 1..i : Order[j] \in DOMAIN T BY <1>1, <1>2, <1>3
<1> QED BY <1>4 DEF Lawful

\* What a run has published are tables of one undisturbed run.
LEMMA OfOneRun ==
  ASSUME TypeInv, TablesInv, NEW t \in DOMAIN tables
  PROVE  \E T : /\ Lawful(T) /\ t \in DOMAIN T /\ T[t] = tables[t]
                /\ \A u \in DOMAIN tables : by[u] = by[t] => u \in DOMAIN T /\ T[u] = tables[u]
<1>1. by[t] \in 1..run BY DEF TypeInv, TypeOK
<1> QED BY <1>1 DEF TablesInv

\* What is published before a published table.
LEMMA PublishedInOrder ==
  ASSUME TypeInv, TablesInv, NEW i \in DOMAIN Order, Published(Order[i]), NEW j \in 1..i
  PROVE  Published(Order[j])
BY DEF TablesInv

(***************************************************************************)
(* The tables of the taxi slice.                                           *)
(***************************************************************************)
\* What the raw files of the taxi slice are.
LEMMA TaxiRaw ==
  ASSUME TablesInv, pipeline = "taxi"
  PROVE  /\ IsFiniteSet(raw.yellow \cup raw.green) /\ raw.yellow \cap raw.green = {}
         /\ \A r \in raw.yellow \cup raw.green :
              HasColumns(r, Taxi!TripColumns) /\ r.pickup \in Number /\ r.dropoff \in Number
         /\ \A r, s \in raw.yellow \cup raw.green : r.id = s.id => r = s
         /\ IsFiniteSet(raw.zones)
<1>1. Taxi!IsRaw(raw) BY RawsAssumption DEF TablesInv
<1> QED BY <1>1, TaxiSql DEF Taxi!IsRaw, Taxi!Number, Number

\* The tables of an undisturbed run, as functions of the raw files and of each other.
LEMMA TaxiTables ==
  ASSUME pipeline = "taxi", NEW T, Lawful(T)
  PROVE  /\ "bronze.yellow_tripdata" \in DOMAIN T => T["bronze.yellow_tripdata"] = raw.yellow
         /\ "bronze.green_tripdata" \in DOMAIN T => T["bronze.green_tripdata"] = raw.green
         /\ "silver.rejected_trips" \in DOMAIN T =>
              /\ T["bronze.yellow_tripdata"] = raw.yellow /\ T["bronze.green_tripdata"] = raw.green
              /\ T["silver.rejected_trips"] = Taxi!Rejected(T)
         /\ "silver.trips" \in DOMAIN T =>
              /\ T["bronze.yellow_tripdata"] = raw.yellow /\ T["bronze.green_tripdata"] = raw.green
              /\ T["silver.trips"] \in Taxi!Deduplicated(T)
         /\ "gold.fct_trips" \in DOMAIN T =>
              /\ "silver.trips" \in DOMAIN T
              /\ T["gold.dim_zones"] = raw.zones
              /\ Unique([z \in raw.zones |-> z.location])
              /\ T["gold.fct_trips"] = Taxi!Facts(T)
              /\ Cardinality(T["gold.fct_trips"]) = Cardinality(T["silver.trips"])
              /\ Unique([trip \in T["gold.fct_trips"] |-> Taxi!IDENTITY(trip)])
         /\ "gold.fct_monthly_zone_revenue" \in DOMAIN T =>
              /\ "gold.fct_trips" \in DOMAIN T
              /\ T["gold.fct_monthly_zone_revenue"] = Taxi!Monthly(T)
<1>1. pipeline \in Slices /\ Order = Taxi!Order /\ DOMAIN Order = 1..8
  BY FlowOf, TaxiOrder DEF Slices
<1>2. /\ Order[1] = "bronze.yellow_tripdata" /\ Order[2] = "bronze.green_tripdata"
      /\ Order[3] = "bronze.taxi_zone_lookup"
      /\ Order[4] = "silver.rejected_trips" /\ Order[5] = "silver.trips"
      /\ Order[6] = "gold.dim_zones" /\ Order[7] = "gold.fct_trips"
      /\ Order[8] = "gold.fct_monthly_zone_revenue"
  BY <1>1 DEF Taxi!Order
<1>3. \A i \in 1..8 : Order[i] \in DOMAIN T =>
        \A j \in 1..i : /\ Order[j] \in DOMAIN T /\ T[Order[j]] \in Taxi!Contents(Order[j], raw, T)
                        /\ Taxi!Passes(Order[j], T, T[Order[j]])
  BY <1>1, LawfulPrefix, FlowOf
<1>passed. \A i \in 1..8 : Order[i] \in DOMAIN T =>
             Taxi!UniqueGrain(Order[i], T[Order[i]]) /\ Taxi!Reconciles(Order[i], T, T[Order[i]])
  <2> SUFFICES ASSUME NEW i \in 1..8, Order[i] \in DOMAIN T
               PROVE  /\ Taxi!UniqueGrain(Order[i], T[Order[i]])
                      /\ Taxi!Reconciles(Order[i], T, T[Order[i]])
    OBVIOUS
  <2>1. i \in 1..i OBVIOUS
  <2>2. Taxi!Passes(Order[i], T, T[Order[i]]) BY <1>3, <2>1
  <2> QED BY <2>2 DEF Taxi!Passes
<1>4. \A i \in 1..8 : Order[i] \in DOMAIN T => \A j \in 1..i : Order[j] \in DOMAIN T BY <1>3
<1>5. Order[1] \in DOMAIN T => T[Order[1]] = raw.yellow BY <1>2, <1>3 DEF Taxi!Contents
<1>6. Order[2] \in DOMAIN T => T[Order[2]] = raw.green BY <1>2, <1>3 DEF Taxi!Contents
<1>7. Order[3] \in DOMAIN T => T[Order[3]] = raw.zones BY <1>2, <1>3 DEF Taxi!Contents
<1>8. Order[4] \in DOMAIN T => T[Order[4]] = Taxi!Rejected(T) BY <1>2, <1>3 DEF Taxi!Contents
<1>9. Order[5] \in DOMAIN T => T[Order[5]] \in Taxi!Deduplicated(T) BY <1>2, <1>3 DEF Taxi!Contents
<1>10. Order[6] \in DOMAIN T =>
    T[Order[6]] = raw.zones /\ Unique([z \in T[Order[6]] |-> z.location])
  <2> SUFFICES ASSUME Order[6] \in DOMAIN T
               PROVE  T[Order[6]] = raw.zones /\ Unique([z \in T[Order[6]] |-> z.location])
    OBVIOUS
  <2>1. T[Order[6]] = T[Order[3]] BY <1>2, <1>3 DEF Taxi!Contents
  <2>2. Taxi!UniqueGrain(Order[6], T[Order[6]]) BY <1>passed
  <2>3. Unique([z \in T[Order[6]] |-> z.location]) BY <1>2, <2>2, TaxiSql DEF Taxi!UniqueGrain
  <2> QED BY <1>4, <1>7, <2>1, <2>3
<1>11. Order[7] \in DOMAIN T => /\ T[Order[7]] = Taxi!Facts(T)
                                /\ Cardinality(T[Order[7]]) = Cardinality(T[Order[5]])
                                /\ Unique([trip \in T[Order[7]] |-> Taxi!IDENTITY(trip)])
  <2> SUFFICES ASSUME Order[7] \in DOMAIN T
               PROVE  /\ T[Order[7]] = Taxi!Facts(T)
                      /\ Cardinality(T[Order[7]]) = Cardinality(T[Order[5]])
                      /\ Unique([trip \in T[Order[7]] |-> Taxi!IDENTITY(trip)])
    OBVIOUS
  <2>1. T[Order[7]] = Taxi!Facts(T) BY <1>2, <1>3 DEF Taxi!Contents
  <2>2. Taxi!UniqueGrain(Order[7], T[Order[7]]) /\ Taxi!Reconciles(Order[7], T, T[Order[7]])
    BY <1>passed
  <2>3. Unique([trip \in T[Order[7]] |-> Taxi!IDENTITY(trip)])
    BY <1>2, <2>2, TaxiSql DEF Taxi!UniqueGrain
  <2>4. Cardinality(T[Order[7]]) = Cardinality(T[Order[5]])
    BY <1>2, <2>2, TaxiSql DEF Taxi!Reconciles
  <2> QED BY <2>1, <2>3, <2>4
<1>12. Order[8] \in DOMAIN T => T[Order[8]] = Taxi!Monthly(T) BY <1>2, <1>3 DEF Taxi!Contents
<1> HIDE DEF Slices
<1> QED BY <1>2, <1>4, <1>5, <1>6, <1>8, <1>9, <1>10, <1>11, <1>12

\* The trips the rows of a run are made into, with the service of their file.
ServiceOf(r) == IF r \in raw.green THEN "Green" ELSE "Yellow"
TripOf(r) == Taxi!WithColumns(r, [service |-> ServiceOf(r)])

\* The trip a row is made into has the row's columns.
LEMMA TripColumnsKept ==
  ASSUME TablesInv, pipeline = "taxi", NEW r \in raw.yellow \cup raw.green
  PROVE  /\ DOMAIN TripOf(r) = Taxi!TripColumns \cup {"service"}
         /\ TripOf(r).id = r.id /\ TripOf(r).vendor = r.vendor /\ TripOf(r).pickup = r.pickup
         /\ TripOf(r).location = r.location /\ TripOf(r).destination = r.destination
         /\ TripOf(r).dropoff = r.dropoff /\ TripOf(r).service = ServiceOf(r)
<1>1. DOMAIN r = Taxi!TripColumns
  <2>1. HasColumns(r, Taxi!TripColumns) BY TaxiRaw
  <2> QED BY <2>1 DEF HasColumns
<1> DEFINE more == [service |-> ServiceOf(r)]
<1>2. DOMAIN more = {"service"} /\ more["service"] = ServiceOf(r) OBVIOUS
<1>4. TripOf(r) = WithColumns(r, more) BY TaxiSql DEF TripOf
<1> HIDE DEF more
<1>3. /\ DOMAIN TripOf(r) = Taxi!TripColumns \cup {"service"}
      /\ \A c \in Taxi!TripColumns : TripOf(r)[c] = r[c]
      /\ "service" \notin Taxi!TripColumns => TripOf(r)["service"] = ServiceOf(r)
  <2>1. /\ DOMAIN WithColumns(r, more) = DOMAIN r \cup DOMAIN more
        /\ \A c \in DOMAIN r : WithColumns(r, more)[c] = r[c]
        /\ \A c \in DOMAIN more \ DOMAIN r : WithColumns(r, more)[c] = more[c]
    BY WithColumnsKeeps
  <2> QED BY <1>1, <1>2, <1>4, <2>1
<1> QED BY <1>3 DEF Taxi!TripColumns

\* The valid and the invalid trips of a run are those made of the raw rows.
LEMMA TripsOfRaw ==
  ASSUME TablesInv, pipeline = "taxi", NEW T,
         T["bronze.yellow_tripdata"] = raw.yellow, T["bronze.green_tripdata"] = raw.green
  PROVE  /\ Taxi!Trips(T) = {TripOf(r) : r \in raw.yellow \cup raw.green}
         /\ IsFiniteSet(Taxi!Trips(T)) /\ IsFiniteSet(Taxi!Valid(T))
         /\ \A x, y \in Taxi!Trips(T) : x.id = y.id => x = y
<1>1. Taxi!Trips(T) = {TripOf(r) : r \in raw.yellow} \cup {TripOf(r) : r \in raw.green}
  <2>1. raw.yellow \cap raw.green = {} BY TaxiRaw
  <2>2. \A r \in raw.yellow : ServiceOf(r) = "Yellow" BY <2>1 DEF ServiceOf
  <2>3. \A r \in raw.green : ServiceOf(r) = "Green" BY DEF ServiceOf
  <2>4. /\ \A r \in raw.yellow : TripOf(r) = Taxi!WithColumns(r, [service |-> "Yellow"])
        /\ \A r \in raw.green : TripOf(r) = Taxi!WithColumns(r, [service |-> "Green"])
    BY <2>2, <2>3 DEF TripOf
  <2> QED BY <2>4 DEF Taxi!Trips
<1>2. Taxi!Trips(T) = {TripOf(r) : r \in raw.yellow \cup raw.green} BY <1>1
<1>3. IsFiniteSet({TripOf(r) : r \in raw.yellow \cup raw.green})
  <2> DEFINE S == raw.yellow \cup raw.green
             T1 == {TripOf(r) : r \in S}
             f == [r \in S |-> TripOf(r)]
  <2>1. IsFiniteSet(S) BY TaxiRaw
  <2>2. \A y \in T1 : \E r \in S : y = f[r] OBVIOUS
  <2> HIDE DEF S, f, T1
  <2>3. IsFiniteSet(T1) BY <2>1, <2>2, ImageIsFinite
  <2> QED BY <2>3 DEF T1, S
<1>4. Taxi!Valid(T) \subseteq Taxi!Trips(T) BY DEF Taxi!Valid
<1>5. IsFiniteSet(Taxi!Valid(T)) BY <1>2, <1>3, <1>4, FS_Subset
<1>6. ASSUME NEW x \in Taxi!Trips(T), NEW y \in Taxi!Trips(T), x.id = y.id PROVE x = y
  <2>1. PICK q \in raw.yellow \cup raw.green : x = TripOf(q) BY <1>2
  <2>2. PICK r \in raw.yellow \cup raw.green : y = TripOf(r) BY <1>2
  <2>3. q.id = r.id BY <1>6, <2>1, <2>2, TripColumnsKept
  <2> QED BY <2>1, <2>2, <2>3, TaxiRaw
<1> QED BY <1>2, <1>3, <1>5, <1>6

\* What is kept of the trips of a run: one of each identity.
LEMMA TripsKept ==
  ASSUME TablesInv, pipeline = "taxi", NEW T,
         T["bronze.yellow_tripdata"] = raw.yellow, T["bronze.green_tripdata"] = raw.green,
         NEW silver \in Taxi!Deduplicated(T)
  PROVE  /\ silver \subseteq Taxi!Valid(T) /\ IsFiniteSet(silver)
         /\ \A x, y \in silver : Taxi!IDENTITY(x) = Taxi!IDENTITY(y) => x = y
         /\ \A x \in Taxi!Valid(T) : \E y \in silver : Taxi!IDENTITY(y) = Taxi!IDENTITY(x)
<1> DEFINE valid == Taxi!Valid(T)
           partition == [trip \in valid |-> Taxi!IDENTITY(trip)]
           rank == [trip \in valid |-> <<trip.dropoff>>]
<1>1. IsFiniteSet(valid) BY TripsOfRaw
<1>2. \A trip \in valid : trip.dropoff \in Number
  <2> SUFFICES ASSUME NEW trip \in valid PROVE trip.dropoff \in Number OBVIOUS
  <2>0. trip \in Taxi!Trips(T) BY DEF Taxi!Valid
  <2>1. PICK r \in raw.yellow \cup raw.green : trip = TripOf(r) BY <2>0, TripsOfRaw
  <2> QED BY <2>1, TripColumnsKept, TaxiRaw
<1>3. \A trip \in valid : IsRank(rank[trip], 1) BY <1>2 DEF IsRank
<1>4. silver \in FirstPerPartition(partition, rank) BY TaxiSql DEF Taxi!Deduplicated
<1>5. DOMAIN partition = valid /\ \A x \in valid : partition[x] = Taxi!IDENTITY(x) OBVIOUS
<1>6. DOMAIN rank = valid OBVIOUS
<1> HIDE DEF valid, partition, rank
<1>7. /\ silver \subseteq DOMAIN partition /\ IsFiniteSet(silver)
      /\ \A j, k \in silver : partition[j] = partition[k] => j = k
      /\ \A r \in DOMAIN partition : \E k \in silver : partition[k] = partition[r]
  BY <1>1, <1>3, <1>4, <1>5, KeptRows
<1> QED BY <1>5, <1>7 DEF valid

\* Every trip of the bronze tables is in the silver table or rejected, and not both.
LEMMA TripsAreAccountedFor ==
  ASSUME TypeInv, TablesInv, pipeline = "taxi",
         Published("silver.rejected_trips"), Published("silver.trips"),
         NEW t \in {"bronze.yellow_tripdata", "bronze.green_tripdata"}, NEW r \in tables[t]
  PROVE  LET kept == {s \in tables["silver.trips"] : s.vendor = r.vendor /\ s.pickup = r.pickup
                        /\ s.location = r.location
                        /\ s.service = IF t = "bronze.green_tripdata" THEN "Green" ELSE "Yellow"}
         IN  IF r.id \in Ids("silver.rejected_trips") THEN kept = {} ELSE Cardinality(kept) = 1
<1> DEFINE kept == {s \in tables["silver.trips"] : s.vendor = r.vendor /\ s.pickup = r.pickup
                      /\ s.location = r.location
                      /\ s.service = IF t = "bronze.green_tripdata" THEN "Green" ELSE "Yellow"}
<1>0. Order = Taxi!Order /\ DOMAIN Order = 1..8 BY FlowOf, TaxiOrder
<1>1. Published("bronze.yellow_tripdata") /\ Published("bronze.green_tripdata")
  <2>1. Order[1] = "bronze.yellow_tripdata" /\ Order[2] = "bronze.green_tripdata" /\ Order[5] = "silver.trips"
    BY <1>0 DEF Taxi!Order
  <2> QED BY <1>0, <2>1, PublishedInOrder
<1>2. tables["bronze.yellow_tripdata"] = raw.yellow
  <2>1. PICK T : /\ Lawful(T) /\ "bronze.yellow_tripdata" \in DOMAIN T
                 /\ T["bronze.yellow_tripdata"] = tables["bronze.yellow_tripdata"]
    BY <1>1, OfOneRun DEF Published
  <2> QED BY <2>1, TaxiTables
<1>3. tables["bronze.green_tripdata"] = raw.green
  <2>1. PICK T : /\ Lawful(T) /\ "bronze.green_tripdata" \in DOMAIN T
                 /\ T["bronze.green_tripdata"] = tables["bronze.green_tripdata"]
    BY <1>1, OfOneRun DEF Published
  <2> QED BY <2>1, TaxiTables
<1>4. PICK T : /\ T["bronze.yellow_tripdata"] = raw.yellow /\ T["bronze.green_tripdata"] = raw.green
               /\ tables["silver.rejected_trips"] = Taxi!Rejected(T)
  <2>1. PICK T : /\ Lawful(T) /\ "silver.rejected_trips" \in DOMAIN T
                 /\ T["silver.rejected_trips"] = tables["silver.rejected_trips"]
    BY OfOneRun DEF Published
  <2> QED BY <2>1, TaxiTables
<1>5. PICK U : /\ U["bronze.yellow_tripdata"] = raw.yellow /\ U["bronze.green_tripdata"] = raw.green
               /\ tables["silver.trips"] \in Taxi!Deduplicated(U)
  <2>1. PICK U :
      Lawful(U) /\ "silver.trips" \in DOMAIN U /\ U["silver.trips"] = tables["silver.trips"]
    BY OfOneRun DEF Published
  <2> QED BY <2>1, TaxiTables
<1>6. Taxi!Trips(U) = Taxi!Trips(T) /\ Taxi!Valid(U) = Taxi!Valid(T)
  BY <1>4, <1>5, TripsOfRaw DEF Taxi!Valid
<1>7. /\ tables["silver.trips"] \subseteq Taxi!Valid(T)
      /\ \A x, y \in tables["silver.trips"] : Taxi!IDENTITY(x) = Taxi!IDENTITY(y) => x = y
      /\ \A x \in Taxi!Valid(T) : \E y \in tables["silver.trips"] :
           Taxi!IDENTITY(y) = Taxi!IDENTITY(x)
  BY <1>5, <1>6, TripsKept
<1>8. r \in raw.yellow \cup raw.green /\ (IF t = "bronze.green_tripdata" THEN "Green" ELSE "Yellow") = ServiceOf(r)
  BY <1>2, <1>3, TaxiRaw DEF ServiceOf
<1>9. TripOf(r) \in Taxi!Trips(T) BY <1>4, <1>8, TripsOfRaw
<1>10. \A x, y : Taxi!IDENTITY(x) = Taxi!IDENTITY(y) <=>
                   x.vendor = y.vendor /\ x.pickup = y.pickup /\ x.location = y.location /\ x.service = y.service
  BY DEF Taxi!IDENTITY
<1>11. kept = {s \in tables["silver.trips"] : Taxi!IDENTITY(s) = Taxi!IDENTITY(TripOf(r))}
  BY <1>8, <1>10, TripColumnsKept
<1>12. r.id \in Ids("silver.rejected_trips") <=> Taxi!Invalid(TripOf(r))
  <2> DEFINE bad == {y \in Taxi!Trips(T) : Taxi!Invalid(y)}
  <2>1. \A x : "id" \in DOMAIN x => Taxi!WithColumns(x, [reasons |-> Taxi!Reasons(x)]).id = x.id
    BY WithColumnsKeeps, TaxiSql
  <2>2. \A x \in Taxi!Trips(T) : "id" \in DOMAIN x
    BY <1>4, TripsOfRaw, TripColumnsKept DEF Taxi!TripColumns
  <2> DEFINE With(x) == Taxi!WithColumns(x, [reasons |-> Taxi!Reasons(x)])
  <2>7. \A x \in bad : With(x).id = x.id BY <2>1, <2>2
  <2>6. tables["silver.rejected_trips"] = {With(x) : x \in bad} BY <1>4 DEF Taxi!Rejected
  <2>8. Ids("silver.rejected_trips") = {q.id : q \in tables["silver.rejected_trips"]}
    BY DEF Ids, Rows
  <2> HIDE DEF With, bad
  <2>3. Ids("silver.rejected_trips") = {x.id : x \in bad}
    BY <2>6, <2>7, <2>8
  <2>4. TripOf(r).id = r.id BY <1>8, TripColumnsKept
  <2>5. \A x \in Taxi!Trips(T) : x.id = TripOf(r).id => x = TripOf(r) BY <1>4, <1>9, TripsOfRaw
  <2> QED BY <1>9, <2>3, <2>4, <2>5 DEF bad
<1>13. CASE Taxi!Invalid(TripOf(r))
  <2>1. \A s : Taxi!IDENTITY(s) = Taxi!IDENTITY(TripOf(r)) => Taxi!Invalid(s)
    BY <1>10, <1>13 DEF Taxi!Invalid
  <2>2. kept = {} BY <1>7, <1>11, <2>1 DEF Taxi!Valid
  <2> QED BY <1>12, <1>13, <2>2
<1>14. CASE ~Taxi!Invalid(TripOf(r))
  <2>1. TripOf(r) \in Taxi!Valid(T) BY <1>9, <1>14 DEF Taxi!Valid
  <2>2. \E k \in kept : kept = {k} BY <1>7, <1>11, <2>1
  <2>3. Cardinality(kept) = 1 BY <2>2, FS_Singleton
  <2> QED BY <1>12, <1>14, <2>3
<1> QED BY <1>13, <1>14

\* A trip is rejected for what it lacks; the copies of a trip are left out without a trace.
LEMMA TripRejectionsAreDeserved ==
  ASSUME TypeInv, TablesInv, NEW r \in Rows("silver.rejected_trips")
  PROVE  BadTrip(r)
<1>1. Published("silver.rejected_trips") /\ r \in tables["silver.rejected_trips"] BY DEF Rows
<1>2. pipeline = "taxi"
  <2>1. "silver.rejected_trips" \in Names BY <1>1 DEF Published, TypeInv, TypeOK
  <2>2. CASE pipeline = "transaction_cat"
    BY <2>1, <2>2, FlowOf, TransactionsOrder DEF Names, Transactions!Order
  <2>3. CASE pipeline = "fresh_retail"
    BY <2>1, <2>3, FlowOf, RetailOrder DEF Names, Retail!Order
  <2> QED BY <2>2, <2>3 DEF TypeInv, Slices
<1>3. PICK T : /\ T["bronze.yellow_tripdata"] = raw.yellow /\ T["bronze.green_tripdata"] = raw.green
               /\ tables["silver.rejected_trips"] = Taxi!Rejected(T)
  <2>1. PICK T : /\ Lawful(T) /\ "silver.rejected_trips" \in DOMAIN T
                 /\ T["silver.rejected_trips"] = tables["silver.rejected_trips"]
    BY <1>1, OfOneRun DEF Published
  <2> QED BY <1>2, <2>1, TaxiTables
<1>4. PICK x \in Taxi!Trips(T) : Taxi!Invalid(x) /\ r = Taxi!WithColumns(x, [reasons |-> Taxi!Reasons(x)])
  BY <1>1, <1>3 DEF Taxi!Rejected
<1>5. "vendor" \in DOMAIN x /\ "pickup" \in DOMAIN x
  BY <1>2, <1>3, <1>4, TripsOfRaw, TripColumnsKept DEF Taxi!TripColumns
<1>6. r.vendor = x.vendor /\ r.pickup = x.pickup BY <1>4, <1>5, WithColumnsKeeps, TaxiSql
<1> QED BY <1>4, <1>6 DEF BadTrip, Taxi!Invalid, Taxi!IsNull

(***************************************************************************)
(* The tables of the transaction slice.                                    *)
(***************************************************************************)
\* What the raw files of the transactions are.
LEMMA TransactionsRaw ==
  ASSUME TablesInv, pipeline = "transaction_cat"
  PROVE  /\ IsFiniteSet(raw.transactions) /\ IsFiniteSet(raw.taxonomy) /\ IsFiniteSet(raw.geo)
         /\ \A x \in raw.transactions :
              HasColumns(x, Transactions!TransactionColumns) /\ x.id \in Int
         /\ \A x, y \in raw.transactions : x.id = y.id => x = y
         /\ \A c \in raw.taxonomy : c.code # NULL /\ IsFiniteSet(c.aliases) /\ NULL \notin c.aliases
         /\ \A g \in raw.geo : g.country # NULL /\ g.currency # NULL
<1>1. Transactions!IsRaw(raw) BY RawsAssumption DEF TablesInv
<1> QED BY <1>1, TransactionsSql DEF Transactions!IsRaw, Transactions!IsNull

\* The bronze and dimension tables of an undisturbed run.
LandedTransactions(T) ==
  /\ T["bronze.transactions"] = raw.transactions /\ T["bronze.category_taxonomy"] = raw.taxonomy
  /\ T["bronze.country_currency"] = raw.geo
  /\ Unique([c \in raw.taxonomy |-> c.code]) /\ Unique([g \in raw.geo |-> g.country])

\* The tables of an undisturbed run, as functions of the raw files and of each other.
LEMMA TransactionTables ==
  ASSUME pipeline = "transaction_cat", NEW T, Lawful(T)
  PROVE  /\ "bronze.transactions" \in DOMAIN T => T["bronze.transactions"] = raw.transactions
         /\ "silver.rejected_transactions" \in DOMAIN T =>
              /\ LandedTransactions(T)
              /\ \E lookup \in Transactions!AliasLookups(T) :
                   T["silver.rejected_transactions"] = Transactions!Rejected(T, lookup)
         /\ "silver.transactions" \in DOMAIN T =>
              /\ LandedTransactions(T)
              /\ \E lookup \in Transactions!AliasLookups(T) :
                   T["silver.transactions"] = Transactions!Silver(T, lookup)
         /\ "gold.fct_transactions" \in DOMAIN T =>
              /\ "silver.transactions" \in DOMAIN T
              /\ T["gold.dim_category"] = Transactions!DimCategory(T)
              /\ T["gold.dim_geo"] = Transactions!DimGeo(T)
              /\ T["gold.fct_transactions"] = Transactions!Facts(T)
              /\ Cardinality(T["gold.fct_transactions"]) = Cardinality(T["silver.transactions"])
              /\ Unique([x \in T["gold.fct_transactions"] |-> x.id])
         /\ "gold.fct_category_country" \in DOMAIN T =>
              /\ "gold.fct_transactions" \in DOMAIN T
              /\ T["gold.fct_category_country"] = Transactions!CategoryCountry(T)
              /\ Unique([row \in T["gold.fct_category_country"] |-> <<row.code, row.country, row.currency>>])
<1>1. pipeline \in Slices /\ Order = Transactions!Order /\ DOMAIN Order = 1..9
  BY FlowOf, TransactionsOrder DEF Slices
<1>2. /\ Order[1] = "bronze.transactions" /\ Order[2] = "bronze.category_taxonomy"
      /\ Order[3] = "bronze.country_currency"
      /\ Order[4] = "silver.rejected_transactions" /\ Order[5] = "silver.transactions"
      /\ Order[6] = "gold.dim_category" /\ Order[7] = "gold.dim_geo"
      /\ Order[8] = "gold.fct_transactions" /\ Order[9] = "gold.fct_category_country"
  BY <1>1 DEF Transactions!Order
<1>3. \A i \in 1..9 : Order[i] \in DOMAIN T =>
        \A j \in 1..i :
            /\ Order[j] \in DOMAIN T /\ T[Order[j]] \in Transactions!Contents(Order[j], raw, T)
            /\ Transactions!Passes(Order[j], T, T[Order[j]])
  BY <1>1, LawfulPrefix, FlowOf
<1>passed. \A i \in 1..9 : Order[i] \in DOMAIN T =>
             Transactions!UniqueGrain(Order[i], T[Order[i]]) /\ Transactions!Reconciles(Order[i], T, T[Order[i]])
  <2> SUFFICES ASSUME NEW i \in 1..9, Order[i] \in DOMAIN T
               PROVE  /\ Transactions!UniqueGrain(Order[i], T[Order[i]])
                      /\ Transactions!Reconciles(Order[i], T, T[Order[i]])
    OBVIOUS
  <2>1. i \in 1..i OBVIOUS
  <2>2. Transactions!Passes(Order[i], T, T[Order[i]]) BY <1>3, <2>1
  <2> QED BY <2>2 DEF Transactions!Passes
<1>4. \A i \in 1..9 : Order[i] \in DOMAIN T => \A j \in 1..i : Order[j] \in DOMAIN T BY <1>3
<1>5. Order[1] \in DOMAIN T => T[Order[1]] = raw.transactions
  BY <1>2, <1>3 DEF Transactions!Contents
<1>6. Order[2] \in DOMAIN T => T[Order[2]] = raw.taxonomy /\ Unique([c \in raw.taxonomy |-> c.code])
  <2> SUFFICES ASSUME Order[2] \in DOMAIN T
               PROVE  T[Order[2]] = raw.taxonomy /\ Unique([c \in raw.taxonomy |-> c.code])
    OBVIOUS
  <2>1. T[Order[2]] = raw.taxonomy BY <1>2, <1>3 DEF Transactions!Contents
  <2>2. Transactions!UniqueGrain(Order[2], T[Order[2]]) BY <1>passed
  <2> QED BY <1>2, <2>1, <2>2, TransactionsSql DEF Transactions!UniqueGrain
<1>7. Order[3] \in DOMAIN T => T[Order[3]] = raw.geo /\ Unique([g \in raw.geo |-> g.country])
  <2> SUFFICES ASSUME Order[3] \in DOMAIN T
               PROVE  T[Order[3]] = raw.geo /\ Unique([g \in raw.geo |-> g.country])
    OBVIOUS
  <2>1. T[Order[3]] = raw.geo BY <1>2, <1>3 DEF Transactions!Contents
  <2>2. Transactions!UniqueGrain(Order[3], T[Order[3]]) BY <1>passed
  <2> QED BY <1>2, <2>1, <2>2, TransactionsSql DEF Transactions!UniqueGrain
<1>8. Order[4] \in DOMAIN T =>
        \E lookup \in Transactions!AliasLookups(T) : T[Order[4]] = Transactions!Rejected(T, lookup)
  BY <1>2, <1>3 DEF Transactions!Contents
<1>9. Order[5] \in DOMAIN T =>
        \E lookup \in Transactions!AliasLookups(T) : T[Order[5]] = Transactions!Silver(T, lookup)
  BY <1>2, <1>3 DEF Transactions!Contents
<1>10. /\ Order[6] \in DOMAIN T => T[Order[6]] = Transactions!DimCategory(T)
       /\ Order[7] \in DOMAIN T => T[Order[7]] = Transactions!DimGeo(T)
  BY <1>2, <1>3 DEF Transactions!Contents
<1>11. Order[8] \in DOMAIN T => /\ T[Order[8]] = Transactions!Facts(T)
                                /\ Cardinality(T[Order[8]]) = Cardinality(T[Order[5]])
                                /\ Unique([x \in T[Order[8]] |-> x.id])
  <2> SUFFICES ASSUME Order[8] \in DOMAIN T
               PROVE  /\ T[Order[8]] = Transactions!Facts(T)
                      /\ Cardinality(T[Order[8]]) = Cardinality(T[Order[5]])
                      /\ Unique([x \in T[Order[8]] |-> x.id])
    OBVIOUS
  <2>1. T[Order[8]] = Transactions!Facts(T) BY <1>2, <1>3 DEF Transactions!Contents
  <2>2. Transactions!UniqueGrain(Order[8], T[Order[8]]) /\ Transactions!Reconciles(Order[8], T, T[Order[8]])
    BY <1>passed
  <2>3. Unique([x \in T[Order[8]] |-> x.id])
    BY <1>2, <2>2, TransactionsSql DEF Transactions!UniqueGrain
  <2>4. Cardinality(T[Order[8]]) = Cardinality(T[Order[5]])
    BY <1>2, <2>2, TransactionsSql DEF Transactions!Reconciles
  <2> QED BY <2>1, <2>3, <2>4
<1>12. Order[9] \in DOMAIN T =>
         /\ T[Order[9]] = Transactions!CategoryCountry(T)
         /\ Unique([row \in T[Order[9]] |-> <<row.code, row.country, row.currency>>])
  <2> SUFFICES ASSUME Order[9] \in DOMAIN T
               PROVE  /\ T[Order[9]] = Transactions!CategoryCountry(T)
                      /\ Unique([row \in T[Order[9]] |-> <<row.code, row.country, row.currency>>])
    OBVIOUS
  <2>1. T[Order[9]] = Transactions!CategoryCountry(T) BY <1>2, <1>3 DEF Transactions!Contents
  <2>2. Transactions!UniqueGrain(Order[9], T[Order[9]]) BY <1>passed
  <2>3. Unique([row \in T[Order[9]] |-> <<row.code, row.country, row.currency>>])
    BY <1>2, <2>2, TransactionsSql DEF Transactions!UniqueGrain
  <2> QED BY <2>1, <2>3
<1>13. /\ Order[4] \in DOMAIN T => LandedTransactions(T)
       /\ Order[5] \in DOMAIN T => LandedTransactions(T)
  BY <1>2, <1>4, <1>5, <1>6, <1>7 DEF LandedTransactions
<1> QED BY <1>2, <1>4, <1>5, <1>8, <1>9, <1>10, <1>11, <1>12, <1>13

\* The lookup of the aliases has one row for each that a category claims.
LEMMA AliasRows ==
  ASSUME TablesInv, pipeline = "transaction_cat", NEW T, LandedTransactions(T),
         NEW lookup \in Transactions!AliasLookups(T)
  PROVE  /\ \A b \in lookup : \E c \in raw.taxonomy : b.code = c.code /\ b.alias \in c.aliases
         /\ \A c \in raw.taxonomy : \A alias \in c.aliases : \E b \in lookup : b.alias = alias
         /\ \A a, b \in lookup : a.alias = b.alias => a = b
         /\ \A b \in lookup : b = [code |-> b.code, alias |-> b.alias]
<1> DEFINE Of(c) == {[code |-> c.code, alias |-> a] : a \in c.aliases}
           claims == UNION {Of(c) : c \in raw.taxonomy}
           partition == [r \in claims |-> r.alias]
           rank == [r \in claims |-> <<>>]
<1>1. lookup \in FirstPerPartition(partition, rank)
  BY TransactionsSql DEF Transactions!AliasLookups, LandedTransactions
<1>2. IsFiniteSet(claims)
  <2>1. ASSUME NEW c \in raw.taxonomy PROVE IsFiniteSet(Of(c))
    <3> DEFINE f == [a \in c.aliases |-> [code |-> c.code, alias |-> a]]
    <3>1. \A y \in Of(c) : \E a \in c.aliases : y = f[a] OBVIOUS
    <3>2. IsFiniteSet(c.aliases) BY TransactionsRaw
    <3> HIDE DEF f, Of
    <3> QED BY <3>1, <3>2, ImageIsFinite
  <2> DEFINE sets == {Of(c) : c \in raw.taxonomy}
             g == [c \in raw.taxonomy |-> Of(c)]
  <2>2. IsFiniteSet(sets)
    <3>1. \A y \in sets : \E c \in raw.taxonomy : y = g[c] OBVIOUS
    <3>2. IsFiniteSet(raw.taxonomy) BY TransactionsRaw
    <3> HIDE DEF g, sets, Of
    <3> QED BY <3>1, <3>2, ImageIsFinite
  <2>3. \A s \in sets : IsFiniteSet(s) BY <2>1
  <2> HIDE DEF sets, Of
  <2> QED BY <2>2, <2>3, FS_UNION DEF sets
<1>3. DOMAIN partition = claims /\ \A r \in claims : partition[r] = r.alias /\ IsRank(rank[r], 0)
  BY DEF IsRank
<1>4. \A r \in claims : \E c \in raw.taxonomy : r.code = c.code /\ r.alias \in c.aliases OBVIOUS
<1>5. \A c \in raw.taxonomy : \A a \in c.aliases : [code |-> c.code, alias |-> a] \in claims
  OBVIOUS
<1>8. \A r \in claims : r = [code |-> r.code, alias |-> r.alias] OBVIOUS
<1> HIDE DEF partition, rank, claims
<1>6. /\ lookup \subseteq claims
      /\ \A j, k \in lookup : partition[j] = partition[k] => j = k
      /\ \A r \in claims : \E k \in lookup : partition[k] = partition[r]
  BY <1>1, <1>2, <1>3, KeptRows
<1>7. \A c \in raw.taxonomy : \A alias \in c.aliases : \E b \in lookup : b.alias = alias
  <2> SUFFICES ASSUME NEW c \in raw.taxonomy, NEW alias \in c.aliases
               PROVE \E b \in lookup : b.alias = alias
    OBVIOUS
  <2> DEFINE r == [code |-> c.code, alias |-> alias]
  <2>1. r \in claims /\ r.alias = alias BY <1>5
  <2> HIDE DEF r
  <2> QED BY <1>3, <1>6, <2>1
<1> QED BY <1>3, <1>4, <1>6, <1>7, <1>8

\* A row of the snapshot that is neither invalid nor a copy.
CountryKnown(x) == \E g \in raw.geo :
    g.country = x.country /\ (x.currency = NULL \/ g.currency = x.currency)
Copied(x) == \E y \in raw.transactions :
    Transactions!Payload(y) = Transactions!Payload(x) /\ y.id < x.id
Good(x) == ~Blank(x) /\ Listed(x) /\ CountryKnown(x) /\ ~Copied(x)

\* What staging makes of a row of the snapshot.
StagedFrom(y, x) ==
  /\ DOMAIN y = Transactions!TransactionColumns \cup {"code", "geo_currency"}
  /\ y.id = x.id /\ y.description = x.description /\ y.category = x.category
  /\ y.country = x.country /\ y.currency = x.currency
  /\ Listed(x) => \E c \in raw.taxonomy : c.code = y.code /\ x.category \in c.aliases
  /\ ~Listed(x) => y.code = NULL
  /\ \A g \in raw.geo : g.country = x.country => y.geo_currency = g.currency
  /\ (\A g \in raw.geo : g.country # x.country) => y.geo_currency = NULL

\* The code that staging finds for a row is that of a category that claims its alias.
LEMMA CodeRows ==
  ASSUME TablesInv, pipeline = "transaction_cat", NEW T, LandedTransactions(T),
         NEW lookup \in Transactions!AliasLookups(T), NEW x \in raw.transactions
  PROVE  /\ Transactions!CodesOf(lookup, x) # {}
         /\ \A code \in Transactions!CodesOf(lookup, x) :
              /\ Listed(x) => \E c \in raw.taxonomy : c.code = code /\ x.category \in c.aliases
              /\ ~Listed(x) => code = NULL
<1> DEFINE partners == {b \in lookup : Transactions!Equal(x.category, b.alias) = TRUE}
           codes == {a.code : a \in partners}
<1>1. Transactions!CodesOf(lookup, x) = IF codes = {} THEN {NULL} ELSE codes
  BY DEF Transactions!CodesOf, Transactions!Outer
<1>2. \A b \in lookup : \E c \in raw.taxonomy : b.code = c.code /\ b.alias \in c.aliases
  BY AliasRows
<1>3. \A b \in lookup : b.alias # NULL BY <1>2, TransactionsRaw
<1>4. \A b \in lookup : b \in partners <=> x.category = b.alias
  BY <1>3, NullAssumption DEF Transactions!Equal
<1>5. CASE Listed(x)
  <2>1. \E b \in lookup : b.alias = x.category BY <1>5, AliasRows DEF Listed
  <2>2. codes # {} BY <1>4, <2>1
  <2>3. \A code \in codes : \E c \in raw.taxonomy : c.code = code /\ x.category \in c.aliases
    BY <1>2, <1>4
  <2> QED BY <1>1, <1>5, <2>2, <2>3
<1>6. CASE ~Listed(x)
  <2>1. \A b \in lookup : b.alias # x.category BY <1>2, <1>6 DEF Listed
  <2>2. partners = {} BY <1>4, <2>1
  <2>3. codes = {} BY <2>2
  <2> QED BY <1>1, <1>6, <2>3
<1> QED BY <1>5, <1>6

\* The currency that staging finds for a row is that of its country.
LEMMA CurrencyRows ==
  ASSUME TablesInv, pipeline = "transaction_cat", NEW T, LandedTransactions(T), NEW x \in raw.transactions
  PROVE  /\ Transactions!CurrenciesOf(T, x) # {}
         /\ \A currency \in Transactions!CurrenciesOf(T, x) :
              /\ \A g \in raw.geo : g.country = x.country => currency = g.currency
              /\ (\A g \in raw.geo : g.country # x.country) => currency = NULL
<1> DEFINE partners == {h \in raw.geo : Transactions!Equal(x.country, h.country) = TRUE}
           currencies == {g.currency : g \in partners}
<1>1. Transactions!CurrenciesOf(T, x) = IF currencies = {} THEN {NULL} ELSE currencies
  BY DEF Transactions!CurrenciesOf, Transactions!Outer, LandedTransactions
<1>2. \A g \in raw.geo : g.country # NULL BY TransactionsRaw
<1>3. \A g \in raw.geo : g \in partners <=> x.country = g.country
  BY <1>2, NullAssumption DEF Transactions!Equal
<1>4. \A g, h \in raw.geo : g.country = h.country => g = h
  <2> DEFINE key == [g \in raw.geo |-> g.country]
  <2>1. IsFiniteSet(DOMAIN key) /\ Unique(key) BY TransactionsRaw DEF LandedTransactions
  <2>2. \A g \in raw.geo : key[g] = g.country OBVIOUS
  <2>3. DOMAIN key = raw.geo OBVIOUS
  <2> HIDE DEF key
  <2> QED BY <2>1, <2>2, <2>3, UniqueKey
<1>5. \A g \in raw.geo : g.country = x.country => \A currency \in currencies : currency = g.currency
  BY <1>3, <1>4
<1>6. (\E g \in raw.geo : g.country = x.country) <=> currencies # {} BY <1>3
<1> QED BY <1>1, <1>5, <1>6

\* A staged row has the columns of its row.
LEMMA StagedColumns ==
  ASSUME TablesInv, pipeline = "transaction_cat", NEW x \in raw.transactions, NEW code, NEW currency
  PROVE  LET y == StagedRow(x, code, currency)
         IN  /\ DOMAIN y = Transactions!TransactionColumns \cup {"code", "geo_currency"}
             /\ y.id = x.id /\ y.description = x.description /\ y.category = x.category
             /\ y.country = x.country /\ y.currency = x.currency
             /\ y.code = code /\ y.geo_currency = currency
<1> DEFINE more == [code |-> code, geo_currency |-> currency]
           y == StagedRow(x, code, currency)
<1>1. DOMAIN x = Transactions!TransactionColumns
  <2>1. HasColumns(x, Transactions!TransactionColumns) BY TransactionsRaw
  <2> QED BY <2>1 DEF HasColumns
<1>2. DOMAIN more = {"code", "geo_currency"} /\ more["code"] = code /\ more["geo_currency"] = currency
  OBVIOUS
<1>3. y = WithColumns(x, more) BY TransactionsSql DEF StagedRow
<1> HIDE DEF more, y
<1>4. /\ DOMAIN y = DOMAIN x \cup DOMAIN more
      /\ \A c \in DOMAIN x : y[c] = x[c]
      /\ \A c \in DOMAIN more \ DOMAIN x : y[c] = more[c]
  <2>1. /\ DOMAIN WithColumns(x, more) = DOMAIN x \cup DOMAIN more
        /\ \A c \in DOMAIN x : WithColumns(x, more)[c] = x[c]
        /\ \A c \in DOMAIN more \ DOMAIN x : WithColumns(x, more)[c] = more[c]
    BY WithColumnsKeeps
  <2> QED BY <1>3, <2>1
<1>5. /\ DOMAIN y = Transactions!TransactionColumns \cup {"code", "geo_currency"}
      /\ y.id = x.id /\ y.description = x.description /\ y.category = x.category
      /\ y.country = x.country /\ y.currency = x.currency
      /\ y.code = code /\ y.geo_currency = currency
  BY <1>1, <1>2, <1>4 DEF Transactions!TransactionColumns
<1> QED BY <1>5 DEF y

\* Staging makes at least one row of each row of the snapshot, and no others.
LEMMA StagingOfRaw ==
  ASSUME TablesInv, pipeline = "transaction_cat", NEW T, LandedTransactions(T),
         NEW lookup \in Transactions!AliasLookups(T)
  PROVE  /\ \A y \in Transactions!Staged(T, lookup) : \E x \in raw.transactions : StagedFrom(y, x)
         /\ \A x \in raw.transactions : \E y \in Transactions!Staged(T, lookup) : StagedFrom(y, x)
<1>0. T["bronze.transactions"] = raw.transactions BY DEF LandedTransactions
<1>1. ASSUME NEW x \in raw.transactions, NEW code \in Transactions!CodesOf(lookup, x),
             NEW currency \in Transactions!CurrenciesOf(T, x)
      PROVE  StagedFrom(StagedRow(x, code, currency), x)
  <2> DEFINE y == StagedRow(x, code, currency)
  <2>1. /\ DOMAIN y = Transactions!TransactionColumns \cup {"code", "geo_currency"}
        /\ y.id = x.id /\ y.description = x.description /\ y.category = x.category
        /\ y.country = x.country /\ y.currency = x.currency
        /\ y.code = code /\ y.geo_currency = currency
    BY StagedColumns
  <2>2. /\ Listed(x) => \E c \in raw.taxonomy : c.code = code /\ x.category \in c.aliases
        /\ ~Listed(x) => code = NULL
    BY CodeRows
  <2>3. /\ \A g \in raw.geo : g.country = x.country => currency = g.currency
        /\ (\A g \in raw.geo : g.country # x.country) => currency = NULL
    BY CurrencyRows
  <2> HIDE DEF y
  <2>4. StagedFrom(y, x) BY <2>1, <2>2, <2>3 DEF StagedFrom
  <2> QED BY <2>4 DEF y
<1>2. ASSUME NEW y \in Transactions!Staged(T, lookup)
      PROVE  \E x \in raw.transactions : StagedFrom(y, x)
  <2>1. PICK x \in raw.transactions :
          \E code \in Transactions!CodesOf(lookup, x), currency \in Transactions!CurrenciesOf(T, x) :
            y = StagedRow(x, code, currency)
    BY <1>0, <1>2, StagedRows
  <2> QED BY <1>1, <2>1
<1>3. ASSUME NEW x \in raw.transactions
      PROVE \E y \in Transactions!Staged(T, lookup) : StagedFrom(y, x)
  <2>1. PICK code \in Transactions!CodesOf(lookup, x), currency \in Transactions!CurrenciesOf(T, x) : TRUE
    BY CodeRows, CurrencyRows
  <2> DEFINE y == StagedRow(x, code, currency)
  <2>2. y \in Transactions!Staged(T, lookup) BY <1>0, StagedRows
  <2>3. StagedFrom(y, x) BY <1>1
  <2> QED BY <2>2, <2>3
<1> QED BY <1>2, <1>3

\* What is said of a staged row does not depend on the lookup: it is rejected unless
\* its row of the snapshot is good.
LEMMA VerdictOnRaw ==
  ASSUME TablesInv, pipeline = "transaction_cat", NEW T, LandedTransactions(T),
         NEW x \in raw.transactions, NEW y, StagedFrom(y, x)
  PROVE  Transactions!Reasons(T, y) = {} <=> Good(x)
<1>1. Transactions!Reasons(T, y) = {} <=>
        /\ y.description # NULL /\ y.code # NULL
        /\ Transactions!Or(y.geo_currency = NULL, Transactions!Differ(y.currency, y.geo_currency)) # TRUE
        /\ ~Transactions!IsCopy(T, y)
  BY DEF Transactions!Reasons, Transactions!When, Transactions!IsNull
<1>2. y.description = NULL <=> Blank(x) BY DEF StagedFrom, Blank, IsNull
<1>3. y.code # NULL <=> Listed(x) BY TransactionsRaw DEF StagedFrom
<1>4. Transactions!IsCopy(T, y) <=> Copied(x)
  <2>1. Transactions!Payload(y) = Transactions!Payload(x) /\ y.id = x.id
    BY DEF StagedFrom, Transactions!Payload
  <2> QED BY <2>1 DEF Transactions!IsCopy, Copied, LandedTransactions
<1>5. Transactions!Or(y.geo_currency = NULL, Transactions!Differ(y.currency, y.geo_currency)) # TRUE
        <=> CountryKnown(x)
  <2>1. Transactions!Or(y.geo_currency = NULL, Transactions!Differ(y.currency, y.geo_currency)) # TRUE
          <=> y.geo_currency # NULL /\ (y.currency = NULL \/ y.currency = y.geo_currency)
    BY NullAssumption DEF Transactions!Or, Transactions!Differ
  <2>2. CASE \E g \in raw.geo : g.country = x.country
    <3>1. PICK g \in raw.geo : g.country = x.country BY <2>2
    <3>2. y.geo_currency = g.currency /\ g.currency # NULL BY <3>1, TransactionsRaw DEF StagedFrom
    <3>3. \A h \in raw.geo : h.country = x.country => h.currency = g.currency BY <3>2 DEF StagedFrom
    <3>4. y.currency = x.currency BY DEF StagedFrom
    <3> QED BY <2>1, <3>1, <3>2, <3>3, <3>4 DEF CountryKnown
  <2>3. CASE \A g \in raw.geo : g.country # x.country BY <2>1, <2>3 DEF StagedFrom, CountryKnown
  <2> QED BY <2>2, <2>3
<1> QED BY <1>1, <1>2, <1>3, <1>4, <1>5 DEF Good

\* A row that still has the columns of the snapshot.
SameColumns(r, x) ==
  /\ r.id = x.id /\ r.description = x.description /\ r.category = x.category
  /\ r.country = x.country /\ r.currency = x.currency

\* The silver table of an undisturbed run has the good rows of the snapshot.
LEMMA SilverOfRun ==
  ASSUME TablesInv, pipeline = "transaction_cat", NEW T, Lawful(T), "silver.transactions" \in DOMAIN T
  PROVE  /\ \A s \in T["silver.transactions"] : \E x \in raw.transactions :
              Good(x) /\ StagedFrom(s, x)
         /\ \A x \in raw.transactions : Good(x) => \E s \in T["silver.transactions"] :
              StagedFrom(s, x)
<1>1. LandedTransactions(T) BY TransactionTables
<1>2. PICK lookup \in Transactions!AliasLookups(T) :
        T["silver.transactions"] = Transactions!Silver(T, lookup)
  BY TransactionTables
<1>3. T["silver.transactions"] =
        {y \in Transactions!Staged(T, lookup) : Transactions!Reasons(T, y) = {}}
  BY <1>2 DEF Transactions!Silver
<1> QED BY <1>1, <1>3, StagingOfRaw, VerdictOnRaw

\* So has the silver table of the catalog.
LEMMA SilverTransactions ==
  ASSUME TypeInv, TablesInv, pipeline = "transaction_cat", Published("silver.transactions")
  PROVE  /\ \A s \in tables["silver.transactions"] : \E x \in raw.transactions :
              Good(x) /\ StagedFrom(s, x)
         /\ \A x \in raw.transactions : Good(x) => \E s \in tables["silver.transactions"] :
              StagedFrom(s, x)
<1>1. PICK T : Lawful(T) /\ "silver.transactions" \in DOMAIN T
               /\ T["silver.transactions"] = tables["silver.transactions"]
  BY OfOneRun DEF Published
<1> QED BY <1>1, SilverOfRun

\* The dead letter has the rows of the snapshot that are not good.
LEMMA RejectedTransactions ==
  ASSUME TypeInv, TablesInv, pipeline = "transaction_cat", Published("silver.rejected_transactions")
  PROVE  /\ \A r \in tables["silver.rejected_transactions"] :
              \E x \in raw.transactions : ~Good(x) /\ SameColumns(r, x)
         /\ \A x \in raw.transactions : ~Good(x) =>
              \E r \in tables["silver.rejected_transactions"] : SameColumns(r, x)
<1>1. PICK T : Lawful(T) /\ "silver.rejected_transactions" \in DOMAIN T
               /\ T["silver.rejected_transactions"] = tables["silver.rejected_transactions"]
  BY OfOneRun DEF Published
<1>2. LandedTransactions(T) BY <1>1, TransactionTables
<1>3. PICK lookup \in Transactions!AliasLookups(T) :
        tables["silver.rejected_transactions"] = Transactions!Rejected(T, lookup)
  BY <1>1, TransactionTables
<1> DEFINE bad == {y \in Transactions!Staged(T, lookup) : Transactions!Reasons(T, y) # {}}
           With(y) == Transactions!WithColumns(y, [reasons |-> Transactions!Reasons(T, y)])
<1>4. tables["silver.rejected_transactions"] = {With(y) : y \in bad}
  BY <1>3 DEF Transactions!Rejected
<1>5. ASSUME NEW y, NEW x, StagedFrom(y, x) PROVE SameColumns(With(y), x)
  <2> DEFINE w == With(y)
  <2>1. \A c \in DOMAIN y : w[c] = y[c] BY WithColumnsKeeps, TransactionsSql
  <2> HIDE DEF w
  <2>2. SameColumns(w, x) BY <1>5, <2>1 DEF StagedFrom, SameColumns, Transactions!TransactionColumns
  <2> QED BY <2>2 DEF w
<1>6. /\ \A y \in bad : \E x \in raw.transactions : ~Good(x) /\ StagedFrom(y, x)
      /\ \A x \in raw.transactions : ~Good(x) => \E y \in bad : StagedFrom(y, x)
  BY <1>2, StagingOfRaw, VerdictOnRaw
<1> HIDE DEF With, bad
<1> QED BY <1>4, <1>5, <1>6

\* Every bronze transaction is in the silver table or rejected, and not both.
LEMMA TransactionsAreAccountedFor ==
  ASSUME TypeInv, TablesInv, pipeline = "transaction_cat",
         Published("silver.rejected_transactions"), Published("silver.transactions")
  PROVE  /\ Ids("silver.rejected_transactions") \cap Ids("silver.transactions") = {}
         /\ Ids("silver.rejected_transactions") \cup Ids("silver.transactions") = Ids("bronze.transactions")
<1>1. tables["bronze.transactions"] = raw.transactions /\ Published("bronze.transactions")
  <2>1. Order = Transactions!Order /\ DOMAIN Order = 1..9 BY FlowOf, TransactionsOrder
  <2>2. Order[1] = "bronze.transactions" /\ Order[5] = "silver.transactions"
    BY <2>1 DEF Transactions!Order
  <2>3. Published("bronze.transactions") BY <2>1, <2>2, PublishedInOrder
  <2>4. PICK T : /\ Lawful(T) /\ "bronze.transactions" \in DOMAIN T
                 /\ T["bronze.transactions"] = tables["bronze.transactions"]
    BY <2>3, OfOneRun DEF Published
  <2> QED BY <2>3, <2>4, TransactionTables
<1>2. /\ Ids("silver.rejected_transactions") = {r.id : r \in tables["silver.rejected_transactions"]}
      /\ Ids("silver.transactions") = {r.id : r \in tables["silver.transactions"]}
      /\ Ids("bronze.transactions") = {r.id : r \in raw.transactions}
  BY <1>1 DEF Ids, Rows
<1>3. Ids("silver.transactions") = {x.id : x \in {y \in raw.transactions : Good(y)}}
  BY <1>2, SilverTransactions DEF StagedFrom
<1>4. Ids("silver.rejected_transactions") = {x.id : x \in {y \in raw.transactions : ~Good(y)}}
  BY <1>2, RejectedTransactions DEF SameColumns
<1>5. \A x, y \in raw.transactions : x.id = y.id => x = y BY TransactionsRaw
<1> QED BY <1>2, <1>3, <1>4, <1>5

\* The earliest of the copies of a row.
LEMMA EarliestCopy ==
  ASSUME TablesInv, pipeline = "transaction_cat", NEW x \in raw.transactions
  PROVE  \E m \in raw.transactions : Transactions!Payload(m) = Transactions!Payload(x) /\ ~Copied(m)
<1> DEFINE copies == {y \in raw.transactions : Transactions!Payload(y) = Transactions!Payload(x)}
           before == {p \in copies \X copies : p[1].id < p[2].id}
<1>1. IsFiniteSet(copies) /\ copies # {} BY TransactionsRaw, FS_Subset
<1>2. \A y, z \in copies : <<y, z>> \in before <=> y.id < z.id OBVIOUS
<1>3. \A y \in copies : y.id \in Int BY TransactionsRaw
<1>4. \A y \in copies : y \in raw.transactions /\ Transactions!Payload(y) = Transactions!Payload(x)
  OBVIOUS
<1>5. \A y \in raw.transactions : Transactions!Payload(y) = Transactions!Payload(x) => y \in copies
  OBVIOUS
<1> HIDE DEF copies, before
<1>6. \A y \in copies : <<y, y>> \notin before BY <1>2, <1>3
<1>7. \A y, z, w \in copies : <<y, z>> \in before /\ <<z, w>> \in before => <<y, w>> \in before
  BY <1>2, <1>3
<1>8. PICK m \in copies : \A y \in copies : <<y, m>> \notin before
  BY <1>1, <1>6, <1>7, MinimalElement
<1> QED BY <1>2, <1>4, <1>5, <1>8 DEF Copied

\* A rejected transaction is invalid, or a copy of one that was kept.
LEMMA TransactionRejectionsAreDeserved ==
  ASSUME TypeInv, TablesInv, pipeline = "transaction_cat", Published("silver.transactions"),
         NEW r \in Rows("silver.rejected_transactions"), ~BadTransaction(r)
  PROVE  \E s \in tables["silver.transactions"] :
           s.id # r.id /\ Transactions!Payload(s) = Transactions!Payload(r)
<1>1. Published("silver.rejected_transactions") /\ r \in tables["silver.rejected_transactions"]
  BY DEF Rows
<1>2. PICK x \in raw.transactions : ~Good(x) /\ SameColumns(r, x) BY <1>1, RejectedTransactions
<1>3. Transactions!Payload(r) = Transactions!Payload(x) /\ r.id = x.id
  BY <1>2 DEF SameColumns, Transactions!Payload
<1>4. ~Blank(x) /\ Listed(x) /\ CountryKnown(x)
  BY <1>2 DEF SameColumns, BadTransaction, Blank, Listed, PairInLookup, CountryKnown
<1>5. Copied(x) BY <1>2, <1>4 DEF Good
<1>6. PICK m \in raw.transactions : Transactions!Payload(m) = Transactions!Payload(x) /\ ~Copied(m)
  BY EarliestCopy
<1>7. /\ m.description = x.description /\ m.category = x.category
      /\ m.country = x.country /\ m.currency = x.currency
  BY <1>6 DEF Transactions!Payload
<1>8. Good(m) BY <1>4, <1>6, <1>7 DEF Good, Blank, Listed, CountryKnown
<1>9. m.id # x.id BY <1>5, <1>6, TransactionsRaw
<1>10. PICK s \in tables["silver.transactions"] : StagedFrom(s, m) BY <1>8, SilverTransactions
<1>11. s.id = m.id /\ Transactions!Payload(s) = Transactions!Payload(m)
  BY <1>10 DEF StagedFrom, Transactions!Payload
<1> QED BY <1>3, <1>6, <1>9, <1>11

\* A fact row has the columns of its silver row, the name of the category of its
\* code and the name of its country.
FactOf(f, s) ==
  /\ f.id = s.id /\ f.category = s.category /\ f.country = s.country /\ f.currency = s.currency
  /\ f.code = s.code
  /\ \E c \in raw.taxonomy : c.code = f.code /\ c.name = f.category_name /\ f.category \in c.aliases
  /\ \E g \in raw.geo : g.country = f.country /\ g.name = f.country_name

\* The audits of the dimensions leave one category for a code and one row for a country.
LEMMA UniqueRaw ==
  ASSUME TablesInv, pipeline = "transaction_cat", NEW T, LandedTransactions(T)
  PROVE  /\ \A c, d \in raw.taxonomy : c.code = d.code => c = d
         /\ \A g, h \in raw.geo : g.country = h.country => g = h
<1> DEFINE codes == [c \in raw.taxonomy |-> c.code]
           countries == [g \in raw.geo |-> g.country]
<1>1. IsFiniteSet(raw.taxonomy) /\ Unique(codes) /\ IsFiniteSet(raw.geo) /\ Unique(countries)
  BY TransactionsRaw DEF LandedTransactions
<1>2. DOMAIN codes = raw.taxonomy /\ \A c \in raw.taxonomy : codes[c] = c.code OBVIOUS
<1>3. DOMAIN countries = raw.geo /\ \A g \in raw.geo : countries[g] = g.country OBVIOUS
<1> HIDE DEF codes, countries
<1>4. \A c, d \in raw.taxonomy : codes[c] = codes[d] => c = d BY <1>1, <1>2, UniqueKey
<1>5. \A g, h \in raw.geo : countries[g] = countries[h] => g = h BY <1>1, <1>3, UniqueKey
<1> QED BY <1>2, <1>3, <1>4, <1>5

\* The names found for a good row are those of its category and of its country.
LEMMA NamesOfGood ==
  ASSUME TablesInv, pipeline = "transaction_cat", NEW T, LandedTransactions(T),
         T["gold.dim_category"] = Transactions!DimCategory(T), T["gold.dim_geo"] = Transactions!DimGeo(T),
         NEW x \in raw.transactions, Good(x), NEW s, StagedFrom(s, x)
  PROVE  /\ CategoryNames(T, s) # {} /\ CountryNames(T, s) # {}
         /\ \A name \in CategoryNames(T, s) :
              \E c \in raw.taxonomy : c.code = s.code /\ c.name = name /\ s.category \in c.aliases
         /\ \A name \in CountryNames(T, s) : \E g \in raw.geo :
              g.country = s.country /\ g.name = name
<1>1. PICK c \in raw.taxonomy : c.code = s.code /\ s.category \in c.aliases /\ c.code # NULL
  BY TransactionsRaw DEF Good, StagedFrom
<1>2. PICK g \in raw.geo : g.country = s.country /\ g.country # NULL
  BY TransactionsRaw DEF Good, StagedFrom, CountryKnown
<1> DEFINE dim == {[code |-> d.code, name |-> d.name] : d \in raw.taxonomy}
           partners == {d \in dim : Transactions!Equal(s.code, d.code) = TRUE}
           names == {d.name : d \in partners}
<1>3. T["gold.dim_category"] = dim /\ T["gold.dim_geo"] = raw.geo
  BY DEF Transactions!DimCategory, Transactions!DimGeo, LandedTransactions
<1>4. \A d \in dim : d \in partners <=> d.code = s.code
  <2>1. \A d \in raw.taxonomy : d.code # NULL BY TransactionsRaw
  <2> QED BY <1>1, <2>1, NullAssumption DEF Transactions!Equal
<1>5. names = {c.name}
  <2>1. [code |-> c.code, name |-> c.name] \in partners BY <1>1, <1>4
  <2>2. \A d \in partners : d.name = c.name
    <3> SUFFICES ASSUME NEW d \in partners PROVE d.name = c.name OBVIOUS
    <3>1. PICK e \in raw.taxonomy : d = [code |-> e.code, name |-> e.name] OBVIOUS
    <3>2. e.code = c.code BY <1>1, <1>4, <3>1
    <3>3. e = c BY <3>2, UniqueRaw
    <3> QED BY <3>1, <3>3
  <2> QED BY <2>1, <2>2
<1>6. CategoryNames(T, s) = {c.name} BY <1>3, <1>5 DEF CategoryNames, Transactions!Outer
<1> DEFINE places == {h \in raw.geo : Transactions!Equal(s.country, h.country) = TRUE}
<1>7. \A h \in raw.geo : h \in places <=> h.country = s.country
  <2>1. \A h \in raw.geo : h.country # NULL BY TransactionsRaw
  <2> QED BY <1>2, <2>1, NullAssumption DEF Transactions!Equal
<1>8. places = {g} BY <1>2, <1>7, UniqueRaw
<1>9. CountryNames(T, s) = {g.name}
  <2>1. {h.name : h \in places} = {g.name} BY <1>8
  <2> QED BY <1>3, <2>1 DEF CountryNames, Transactions!Outer
<1> QED BY <1>1, <1>2, <1>6, <1>9

\* A fact row has the columns of its silver row.
LEMMA FactColumns ==
  ASSUME NEW s, DOMAIN s = Transactions!TransactionColumns \cup {"code", "geo_currency"},
         NEW category, NEW country
  PROVE  LET f == TransactionFact(s, category, country)
         IN  /\ f.id = s.id /\ f.category = s.category /\ f.country = s.country /\ f.currency = s.currency
             /\ f.code = s.code /\ f.category_name = category /\ f.country_name = country
<1> DEFINE more == [category_name |-> category, country_name |-> country]
           f == TransactionFact(s, category, country)
<1>1. DOMAIN more = {"category_name", "country_name"} /\ more["category_name"] = category
      /\ more["country_name"] = country
  OBVIOUS
<1>2. f = WithColumns(s, more) BY TransactionsSql DEF TransactionFact
<1> HIDE DEF more, f
<1>3. /\ \A c \in DOMAIN s : WithColumns(s, more)[c] = s[c]
      /\ \A c \in DOMAIN more \ DOMAIN s : WithColumns(s, more)[c] = more[c]
  BY WithColumnsKeeps
<1>4. /\ f.id = s.id /\ f.category = s.category /\ f.country = s.country /\ f.currency = s.currency
      /\ f.code = s.code /\ f.category_name = category /\ f.country_name = country
  BY <1>1, <1>2, <1>3 DEF Transactions!TransactionColumns
<1> QED BY <1>4 DEF f

\* The facts of an undisturbed run are the silver rows with their names.
LEMMA TransactionFacts ==
  ASSUME TablesInv, pipeline = "transaction_cat", NEW T, Lawful(T), "gold.fct_transactions" \in DOMAIN T
  PROVE  /\ \A f \in T["gold.fct_transactions"] : \E s \in T["silver.transactions"] : FactOf(f, s)
         /\ \A s \in T["silver.transactions"] : \E f \in T["gold.fct_transactions"] : FactOf(f, s)
<1>1. /\ "silver.transactions" \in DOMAIN T /\ T["gold.fct_transactions"] = Transactions!Facts(T)
      /\ T["gold.dim_category"] = Transactions!DimCategory(T) /\ T["gold.dim_geo"] = Transactions!DimGeo(T)
  BY TransactionTables
<1>2. LandedTransactions(T) BY <1>1, TransactionTables
<1>3. ASSUME NEW s \in T["silver.transactions"]
      PROVE  /\ CategoryNames(T, s) # {} /\ CountryNames(T, s) # {}
             /\ \A category \in CategoryNames(T, s), country \in CountryNames(T, s) :
                  FactOf(TransactionFact(s, category, country), s)
  <2>1. PICK x \in raw.transactions : Good(x) /\ StagedFrom(s, x) BY <1>1, SilverOfRun
  <2>2. /\ CategoryNames(T, s) # {} /\ CountryNames(T, s) # {}
        /\ \A name \in CategoryNames(T, s) :
             \E c \in raw.taxonomy : c.code = s.code /\ c.name = name /\ s.category \in c.aliases
        /\ \A name \in CountryNames(T, s) : \E g \in raw.geo :
             g.country = s.country /\ g.name = name
    BY <1>1, <1>2, <2>1, NamesOfGood
  <2>3. ASSUME NEW category \in CategoryNames(T, s), NEW country \in CountryNames(T, s)
        PROVE  FactOf(TransactionFact(s, category, country), s)
    <3> DEFINE f == TransactionFact(s, category, country)
    <3>1. DOMAIN s = Transactions!TransactionColumns \cup {"code", "geo_currency"}
      BY <2>1 DEF StagedFrom
    <3>2. /\ f.id = s.id /\ f.category = s.category /\ f.country = s.country /\ f.currency = s.currency
          /\ f.code = s.code /\ f.category_name = category /\ f.country_name = country
      BY <3>1, FactColumns
    <3> HIDE DEF f
    <3>3. FactOf(f, s) BY <2>2, <3>2 DEF FactOf
    <3> QED BY <3>3 DEF f
  <2> QED BY <2>2, <2>3
<1>4. ASSUME NEW f \in T["gold.fct_transactions"]
      PROVE \E s \in T["silver.transactions"] : FactOf(f, s)
  <2>1. PICK s \in T["silver.transactions"] :
          \E category \in CategoryNames(T, s), country \in CountryNames(T, s) :
            f = TransactionFact(s, category, country)
    BY <1>1, <1>4, TransactionFactRows
  <2> QED BY <1>3, <2>1
<1>5. ASSUME NEW s \in T["silver.transactions"]
      PROVE \E f \in T["gold.fct_transactions"] : FactOf(f, s)
  <2>1. PICK category \in CategoryNames(T, s), country \in CountryNames(T, s) : TRUE BY <1>3
  <2> DEFINE f == TransactionFact(s, category, country)
  <2>2. f \in T["gold.fct_transactions"] BY <1>1, TransactionFactRows
  <2>3. FactOf(f, s) BY <1>3
  <2> QED BY <2>2, <2>3
<1> QED BY <1>4, <1>5

\* FactsExtendSilver, for the transactions.
LEMMA TransactionFactsExtendSilver ==
  ASSUME TypeInv, TablesInv, pipeline = "transaction_cat"
  PROVE  /\ InStep("gold.fct_transactions", "silver.transactions") /\ Published("silver.transactions") =>
              /\ Ids("gold.fct_transactions") = Ids("silver.transactions")
              /\ Cardinality(tables["gold.fct_transactions"]) = Cardinality(tables["silver.transactions"])
         /\ \A f \in Rows("gold.fct_transactions") :
              /\ \E c \in raw.taxonomy :
                   c.code = f.code /\ c.name = f.category_name /\ f.category \in c.aliases
              /\ \E g \in raw.geo : g.country = f.country /\ g.name = f.country_name
<1>1. ASSUME InStep("gold.fct_transactions", "silver.transactions"), Published("silver.transactions")
      PROVE  /\ Ids("gold.fct_transactions") = Ids("silver.transactions")
             /\ Cardinality(tables["gold.fct_transactions"]) = Cardinality(tables["silver.transactions"])
  <2>1. PICK T : /\ Lawful(T) /\ "gold.fct_transactions" \in DOMAIN T
                 /\ T["gold.fct_transactions"] = tables["gold.fct_transactions"]
                 /\ T["silver.transactions"] = tables["silver.transactions"]
    BY <1>1, OfOneRun DEF Published, InStep
  <2>2. /\ Ids("gold.fct_transactions") = {f.id : f \in T["gold.fct_transactions"]}
        /\ Ids("silver.transactions") = {s.id : s \in T["silver.transactions"]}
    BY <1>1, <2>1 DEF Ids, Rows, InStep
  <2>3. Ids("gold.fct_transactions") = Ids("silver.transactions")
    <3>1. /\ \A f \in T["gold.fct_transactions"] : \E s \in T["silver.transactions"] : f.id = s.id
          /\ \A s \in T["silver.transactions"] : \E f \in T["gold.fct_transactions"] : f.id = s.id
      BY <2>1, TransactionFacts DEF FactOf
    <3> QED BY <2>2, <3>1
  <2> QED BY <2>1, <2>3, TransactionTables
<1>2. ASSUME NEW f \in Rows("gold.fct_transactions")
      PROVE  /\ \E c \in raw.taxonomy :
                  c.code = f.code /\ c.name = f.category_name /\ f.category \in c.aliases
             /\ \E g \in raw.geo : g.country = f.country /\ g.name = f.country_name
  <2>1. Published("gold.fct_transactions") /\ f \in tables["gold.fct_transactions"] BY <1>2 DEF Rows
  <2>2. PICK T : /\ Lawful(T) /\ "gold.fct_transactions" \in DOMAIN T
                 /\ T["gold.fct_transactions"] = tables["gold.fct_transactions"]
    BY <2>1, OfOneRun DEF Published
  <2> QED BY <2>1, <2>2, TransactionFacts DEF FactOf
<1> QED BY <1>1, <1>2

(***************************************************************************)
(* The tables of the retail slice.                                         *)
(***************************************************************************)
\* What the raw files of the retail slice are.
LEMMA RetailRaw ==
  ASSUME TablesInv, pipeline = "fresh_retail"
  PROVE  /\ IsFiniteSet(raw.train \cup raw.eval) /\ raw.train \cap raw.eval = {}
         /\ \A r \in raw.train \cup raw.eval :
              /\ HasColumns(r, Retail!SaleColumns) /\ r.id \in Int
              /\ r.date \in Number /\ r.city \in Number /\ r.category \in Number /\ r.amount \in Number
         /\ \A r, s \in raw.train \cup raw.eval : r.id = s.id => r = s
<1>1. Retail!IsRaw(raw) BY RawsAssumption DEF TablesInv
<1> QED BY <1>1, RetailSql DEF Retail!IsRaw, Retail!Number, Number

\* The rows of the landing with the split of their file, and what is kept of them.
SplitOf(r) == IF r \in raw.eval THEN "eval" ELSE "train"
SaleOf(r) == Retail!WithColumns(r, [split |-> SplitOf(r)])
Sales == {SaleOf(r) : r \in raw.train \cup raw.eval}
ValidSales == {s \in Sales : Retail!Invalid(s) = FALSE}
KeptSales ==
  CHOOSE kept \in FirstPerPartition([s \in ValidSales |-> Retail!IDENTITY(s)],
                                    [s \in ValidSales |-> Retail!StableTieBreak(s)]) : TRUE

\* The bronze tables of an undisturbed run.
LandedSales(T) ==
  /\ T["bronze.daily_sales_train"] = Retail!Split(raw.train, "train")
  /\ T["bronze.daily_sales_eval"] = Retail!Split(raw.eval, "eval")

\* The tables of an undisturbed run, as functions of the raw files and of each other.
LEMMA RetailTables ==
  ASSUME pipeline = "fresh_retail", NEW T, Lawful(T)
  PROVE  /\ "bronze.daily_sales_train" \in DOMAIN T =>
              T["bronze.daily_sales_train"] = Retail!Split(raw.train, "train")
         /\ "bronze.daily_sales_eval" \in DOMAIN T =>
              T["bronze.daily_sales_eval"] = Retail!Split(raw.eval, "eval")
         /\ "silver.rejected_sales" \in DOMAIN T =>
              LandedSales(T) /\ T["silver.rejected_sales"] = Retail!Rejected(T)
         /\ "silver.daily_sales" \in DOMAIN T =>
              LandedSales(T) /\ T["silver.daily_sales"] = Retail!Ranked(T)
         /\ "gold.fct_daily_sales" \in DOMAIN T =>
              /\ "silver.daily_sales" \in DOMAIN T
              /\ T["gold.dim_store"] \in Retail!DimStore(T)
              /\ T["gold.dim_product"] \in Retail!DimProduct(T)
              /\ T["gold.fct_daily_sales"] = Retail!Facts(T)
              /\ Cardinality(T["gold.fct_daily_sales"]) = Cardinality(T["silver.daily_sales"])
              /\ Unique([r \in T["gold.fct_daily_sales"] |-> Retail!IDENTITY(r)])
         /\ "gold.fct_store_daily" \in DOMAIN T =>
              /\ "gold.fct_daily_sales" \in DOMAIN T
              /\ T["gold.fct_store_daily"] = Retail!StoreDaily(T)
         /\ "gold.fct_category_daily" \in DOMAIN T =>
              /\ "gold.fct_daily_sales" \in DOMAIN T
              /\ T["gold.fct_category_daily"] = Retail!CategoryDaily(T)
              /\ Retail!Amount(T["gold.fct_category_daily"]) = Retail!Amount(T["gold.fct_daily_sales"])
<1>1. pipeline \in Slices /\ Order = Retail!Order /\ DOMAIN Order = 1..11
  BY FlowOf, RetailOrder DEF Slices
<1>2. /\ Order[1] = "bronze.daily_sales_train" /\ Order[2] = "bronze.daily_sales_eval"
      /\ Order[3] = "silver.rejected_sales" /\ Order[4] = "silver.daily_sales"
      /\ Order[5] = "silver.dim_store" /\ Order[6] = "silver.dim_product"
      /\ Order[7] = "gold.dim_store" /\ Order[8] = "gold.dim_product" /\ Order[9] = "gold.fct_daily_sales"
      /\ Order[10] = "gold.fct_store_daily" /\ Order[11] = "gold.fct_category_daily"
  BY <1>1 DEF Retail!Order
<1>3. \A i \in 1..11 : Order[i] \in DOMAIN T =>
        \A j \in 1..i :
            /\ Order[j] \in DOMAIN T /\ T[Order[j]] \in Retail!Contents(Order[j], raw, T)
            /\ Retail!Passes(Order[j], T, T[Order[j]])
  BY <1>1, LawfulPrefix, FlowOf
<1>passed. \A i \in 1..11 : Order[i] \in DOMAIN T =>
             Retail!UniqueGrain(Order[i], T[Order[i]]) /\ Retail!Reconciles(Order[i], T, T[Order[i]])
  <2> SUFFICES ASSUME NEW i \in 1..11, Order[i] \in DOMAIN T
               PROVE  /\ Retail!UniqueGrain(Order[i], T[Order[i]])
                      /\ Retail!Reconciles(Order[i], T, T[Order[i]])
    OBVIOUS
  <2>1. i \in 1..i OBVIOUS
  <2>2. Retail!Passes(Order[i], T, T[Order[i]]) BY <1>3, <2>1
  <2> QED BY <2>2 DEF Retail!Passes
<1>4. \A i \in 1..11 : Order[i] \in DOMAIN T => \A j \in 1..i : Order[j] \in DOMAIN T BY <1>3
<1>5. Order[1] \in DOMAIN T => T[Order[1]] = Retail!Split(raw.train, "train")
  BY <1>2, <1>3 DEF Retail!Contents
<1>6. Order[2] \in DOMAIN T => T[Order[2]] = Retail!Split(raw.eval, "eval")
  BY <1>2, <1>3 DEF Retail!Contents
<1>7. Order[3] \in DOMAIN T => T[Order[3]] = Retail!Rejected(T) BY <1>2, <1>3 DEF Retail!Contents
<1>8. Order[4] \in DOMAIN T => T[Order[4]] = Retail!Ranked(T) BY <1>2, <1>3 DEF Retail!Contents
<1>9. Order[5] \in DOMAIN T => T[Order[5]] \in Retail!DimStore(T) BY <1>2, <1>3 DEF Retail!Contents
<1>10. Order[6] \in DOMAIN T => T[Order[6]] \in Retail!DimProduct(T)
  BY <1>2, <1>3 DEF Retail!Contents
<1>11. /\ Order[7] \in DOMAIN T => T[Order[7]] = T[Order[5]]
       /\ Order[8] \in DOMAIN T => T[Order[8]] = T[Order[6]]
  BY <1>2, <1>3 DEF Retail!Contents
<1>12. Order[9] \in DOMAIN T => /\ T[Order[9]] = Retail!Facts(T)
                                /\ Cardinality(T[Order[9]]) = Cardinality(T[Order[4]])
                                /\ Unique([r \in T[Order[9]] |-> Retail!IDENTITY(r)])
  <2> SUFFICES ASSUME Order[9] \in DOMAIN T
               PROVE  /\ T[Order[9]] = Retail!Facts(T)
                      /\ Cardinality(T[Order[9]]) = Cardinality(T[Order[4]])
                      /\ Unique([r \in T[Order[9]] |-> Retail!IDENTITY(r)])
    OBVIOUS
  <2>1. T[Order[9]] = Retail!Facts(T) BY <1>2, <1>3 DEF Retail!Contents
  <2>2. Retail!UniqueGrain(Order[9], T[Order[9]]) /\ Retail!Reconciles(Order[9], T, T[Order[9]])
    BY <1>passed
  <2>3. Unique([r \in T[Order[9]] |-> Retail!IDENTITY(r)])
    BY <1>2, <2>2, RetailSql DEF Retail!UniqueGrain
  <2>4. Cardinality(T[Order[9]]) = Cardinality(T[Order[4]])
    BY <1>2, <2>2, RetailSql DEF Retail!Reconciles
  <2> QED BY <2>1, <2>3, <2>4
<1>13. Order[10] \in DOMAIN T => T[Order[10]] = Retail!StoreDaily(T)
  BY <1>2, <1>3 DEF Retail!Contents
<1>14. Order[11] \in DOMAIN T => /\ T[Order[11]] = Retail!CategoryDaily(T)
                                 /\ Retail!Amount(T[Order[11]]) = Retail!Amount(T[Order[9]])
  <2> SUFFICES ASSUME Order[11] \in DOMAIN T
               PROVE  /\ T[Order[11]] = Retail!CategoryDaily(T)
                      /\ Retail!Amount(T[Order[11]]) = Retail!Amount(T[Order[9]])
    OBVIOUS
  <2>1. T[Order[11]] = Retail!CategoryDaily(T) BY <1>2, <1>3 DEF Retail!Contents
  <2>2. Retail!Reconciles(Order[11], T, T[Order[11]]) BY <1>passed
  <2> QED BY <1>2, <2>1, <2>2 DEF Retail!Reconciles
<1>15. /\ Order[3] \in DOMAIN T => LandedSales(T)
       /\ Order[4] \in DOMAIN T => LandedSales(T)
  BY <1>2, <1>4, <1>5, <1>6 DEF LandedSales
<1> QED BY <1>2, <1>4, <1>5, <1>6, <1>7, <1>8, <1>9, <1>10, <1>11, <1>12, <1>13, <1>14, <1>15

\* The sale a row is made into has the row's columns.
LEMMA SaleColumnsKept ==
  ASSUME TablesInv, pipeline = "fresh_retail", NEW r \in raw.train \cup raw.eval
  PROVE  /\ DOMAIN SaleOf(r) = Retail!SaleColumns \cup {"split"}
         /\ SaleOf(r).id = r.id /\ SaleOf(r).date = r.date /\ SaleOf(r).city = r.city
         /\ SaleOf(r).category = r.category /\ SaleOf(r).amount = r.amount
         /\ SaleOf(r).split = SplitOf(r)
<1>1. DOMAIN r = Retail!SaleColumns
  <2>1. HasColumns(r, Retail!SaleColumns) BY RetailRaw
  <2> QED BY <2>1 DEF HasColumns
<1> DEFINE more == [split |-> SplitOf(r)]
<1>2. DOMAIN more = {"split"} /\ more["split"] = SplitOf(r) OBVIOUS
<1>3. SaleOf(r) = WithColumns(r, more) BY RetailSql DEF SaleOf
<1> HIDE DEF more
<1>4. /\ DOMAIN WithColumns(r, more) = DOMAIN r \cup DOMAIN more
      /\ \A c \in DOMAIN r : WithColumns(r, more)[c] = r[c]
      /\ \A c \in DOMAIN more \ DOMAIN r : WithColumns(r, more)[c] = more[c]
  BY WithColumnsKeeps
<1> QED BY <1>1, <1>2, <1>3, <1>4 DEF Retail!SaleColumns

\* A sale of the landing.
LEMMA SalesRows ==
  ASSUME TablesInv, pipeline = "fresh_retail"
  PROVE  /\ IsFiniteSet(Sales) /\ \A s, t \in Sales : s.id = t.id => s = t
         /\ \A s \in Sales : /\ DOMAIN s = Retail!SaleColumns \cup {"split"} /\ s.id \in Int
                             /\ s.date \in Number /\ s.city \in Number /\ s.category \in Number
                             /\ s.amount \in Number
                             /\ Retail!Invalid(s) \in BOOLEAN /\ (Retail!Invalid(s) = TRUE <=> BadSale(s))
<1>1. \A s \in Sales : \E r \in raw.train \cup raw.eval : s = SaleOf(r) BY DEF Sales
<1>2. IsFiniteSet(Sales)
  <2> DEFINE S == raw.train \cup raw.eval
             f == [r \in S |-> SaleOf(r)]
  <2>1. IsFiniteSet(S) /\ \A s \in Sales : \E r \in S : s = f[r] BY <1>1, RetailRaw
  <2> HIDE DEF S, f
  <2> QED BY <2>1, ImageIsFinite
<1>3. ASSUME NEW s \in Sales, NEW t \in Sales, s.id = t.id PROVE s = t
  <2>1. PICK q \in raw.train \cup raw.eval : s = SaleOf(q) BY <1>1
  <2>2. PICK r \in raw.train \cup raw.eval : t = SaleOf(r) BY <1>1
  <2>3. q.id = r.id BY <1>3, <2>1, <2>2, SaleColumnsKept
  <2> QED BY <2>1, <2>2, <2>3, RetailRaw
<1>4. ASSUME NEW s \in Sales
      PROVE  /\ DOMAIN s = Retail!SaleColumns \cup {"split"} /\ s.id \in Int
             /\ s.date \in Number /\ s.city \in Number /\ s.category \in Number /\ s.amount \in Number
  <2>1. PICK r \in raw.train \cup raw.eval : s = SaleOf(r) BY <1>1
  <2> QED BY <2>1, SaleColumnsKept, RetailRaw
<1>5. ASSUME NEW s \in Sales
      PROVE  Retail!Invalid(s) \in BOOLEAN /\ (Retail!Invalid(s) = TRUE <=> BadSale(s))
  <2>1. s.amount \in Number BY <1>4
  <2> DEFINE missing == s.store = NULL \/ s.product = NULL \/ s.date = NULL \/ s.amount = NULL
             negative == Retail!Less(s.amount, 0)
  <2>2. Retail!Invalid(s) = Retail!Or(missing, negative) BY DEF Retail!Invalid, Retail!IsNull
  <2>3. CASE s.amount = NULL
    <3>1. missing = TRUE BY <2>3
    <3>2. Retail!Invalid(s) = TRUE BY <2>2, <3>1 DEF Retail!Or
    <3> QED BY <2>3, <3>2 DEF BadSale
  <2>4. CASE s.amount # NULL
    <3>1. s.amount \in Int BY <2>1, <2>4 DEF Number
    <3>2. negative = (s.amount < 0) /\ negative \in BOOLEAN
      <4>1. NULL \notin {s.amount, 0} BY <3>1, NullAssumption
      <4>2. negative = (s.amount < 0) BY <4>1, Zenon DEF Retail!Less
      <4>3. (s.amount < 0) \in BOOLEAN BY <3>1
      <4> QED BY <4>2, <4>3
    <3>3. missing \in BOOLEAN OBVIOUS
    <3>4. BadSale(s) <=> missing \/ s.amount < 0 BY DEF BadSale
    <3> HIDE DEF missing, negative
    <3>5. Retail!Or(missing, negative) = (missing \/ negative)
      BY <3>2, <3>3, NullAssumption DEF Retail!Or
    <3> QED BY <2>2, <3>2, <3>3, <3>4, <3>5
  <2> QED BY <2>3, <2>4
<1> QED BY <1>2, <1>3, <1>4, <1>5

\* The removal of duplicates keeps one sale of each identity.
LEMMA SalesKept ==
  ASSUME TablesInv, pipeline = "fresh_retail"
  PROVE  /\ KeptSales \subseteq ValidSales /\ IsFiniteSet(KeptSales)
         /\ \A s, t \in KeptSales : Retail!IDENTITY(s) = Retail!IDENTITY(t) => s = t
         /\ \A s \in ValidSales : \E t \in KeptSales : Retail!IDENTITY(t) = Retail!IDENTITY(s)
<1> DEFINE partition == [s \in ValidSales |-> Retail!IDENTITY(s)]
           rank == [s \in ValidSales |-> Retail!StableTieBreak(s)]
<1>1. KeptSales \in FirstPerPartition(partition, rank)
  <2>1. FirstPerPartition(partition, rank) # {} BY SomeRowsAreKept
  <2> QED BY <2>1 DEF KeptSales
<1>2. IsFiniteSet(ValidSales) BY SalesRows, FS_Subset DEF ValidSales
<1>3. \A s \in ValidSales : IsRank(rank[s], 4)
  <2> SUFFICES ASSUME NEW s \in ValidSales PROVE IsRank(Retail!StableTieBreak(s), 4) OBVIOUS
  <2>1. s.city \in Number /\ s.category \in Number /\ s.amount \in Number /\ s.id \in Number
    BY SalesRows DEF ValidSales, Number
  <2> QED BY <2>1 DEF IsRank, Retail!StableTieBreak
<1>4. DOMAIN partition = ValidSales /\ \A s \in ValidSales : partition[s] = Retail!IDENTITY(s)
  OBVIOUS
<1> HIDE DEF partition, rank
<1>5. /\ KeptSales \subseteq DOMAIN partition /\ IsFiniteSet(KeptSales)
      /\ \A j, k \in KeptSales : partition[j] = partition[k] => j = k
      /\ \A r \in DOMAIN partition : \E k \in KeptSales : partition[k] = partition[r]
  BY <1>1, <1>2, <1>3, <1>4, KeptRows
<1> QED BY <1>4, <1>5

\* The sales that are combined from the bronze tables are those made of the raw rows.
LEMMA SalesOfLanding ==
  ASSUME TablesInv, pipeline = "fresh_retail", NEW T, LandedSales(T)
  PROVE  /\ Retail!Combined(T) = Sales /\ Retail!ValidCandidates(T) = ValidSales
         /\ Retail!Ranked(T) = KeptSales
<1>1. Retail!Combined(T) = Sales
  <2>1. raw.train \cap raw.eval = {} BY RetailRaw
  <2>2. /\ \A r \in raw.train : SaleOf(r) = Retail!WithColumns(r, [split |-> "train"])
        /\ \A r \in raw.eval : SaleOf(r) = Retail!WithColumns(r, [split |-> "eval"])
    BY <2>1 DEF SaleOf, SplitOf
  <2>3. Retail!Split(raw.train, "train") = {SaleOf(r) : r \in raw.train} BY <2>2 DEF Retail!Split
  <2>4. Retail!Split(raw.eval, "eval") = {SaleOf(r) : r \in raw.eval} BY <2>2 DEF Retail!Split
  <2>5. Sales = {SaleOf(r) : r \in raw.train} \cup {SaleOf(r) : r \in raw.eval} BY DEF Sales
  <2> QED BY <2>3, <2>4, <2>5 DEF LandedSales, Retail!Combined
<1>2. Retail!ValidCandidates(T) = ValidSales BY <1>1 DEF Retail!ValidCandidates, ValidSales
<1>3. Retail!Ranked(T) =
        CHOOSE kept \in FirstPerPartition([s \in ValidSales |-> Retail!IDENTITY(s)],
                                          [s \in ValidSales |-> Retail!StableTieBreak(s)]) : TRUE
  BY <1>2, RetailSql DEF Retail!Ranked
<1> QED BY <1>1, <1>2, <1>3 DEF KeptSales

\* The silver table of the catalog has the kept sales.
LEMMA SilverSales ==
  ASSUME TypeInv, TablesInv, pipeline = "fresh_retail"
  PROVE  Published("silver.daily_sales") => tables["silver.daily_sales"] = KeptSales
<1> SUFFICES ASSUME Published("silver.daily_sales")
             PROVE tables["silver.daily_sales"] = KeptSales OBVIOUS
<1>1. PICK T : Lawful(T) /\ "silver.daily_sales" \in DOMAIN T
               /\ T["silver.daily_sales"] = tables["silver.daily_sales"]
  BY OfOneRun DEF Published
<1> QED BY <1>1, RetailTables, SalesOfLanding

\* A rejected sale is an invalid one, or a valid one that was not kept.
NotKept == {s \in Sales : BadSale(s)} \cup (ValidSales \ KeptSales)

\* A rejected row is a sale with a reason.
SameSale(r, s) ==
  /\ r.id = s.id /\ r.store = s.store /\ r.product = s.product /\ r.date = s.date /\ r.split = s.split
  /\ r.amount = s.amount

\* The dead letter has the sales that were not kept.
LEMMA RejectedSales ==
  ASSUME TypeInv, TablesInv, pipeline = "fresh_retail", Published("silver.rejected_sales")
  PROVE  /\ \A r \in tables["silver.rejected_sales"] : \E s \in NotKept : SameSale(r, s)
         /\ \A s \in NotKept : \E r \in tables["silver.rejected_sales"] : SameSale(r, s)
<1>1. PICK T : Lawful(T) /\ "silver.rejected_sales" \in DOMAIN T
               /\ T["silver.rejected_sales"] = tables["silver.rejected_sales"]
  BY OfOneRun DEF Published
<1>2. LandedSales(T) /\ tables["silver.rejected_sales"] = Retail!Rejected(T) BY <1>1, RetailTables
<1> DEFINE Invalid(s) == Retail!WithColumns(s, [reasons |-> Retail!Reasons(s)])
           Copy(s) == Retail!WithColumns(s, [reasons |-> {"duplicate_grain"}])
           bad == {s \in Sales : BadSale(s)}
           copies == ValidSales \ KeptSales
<1>3. tables["silver.rejected_sales"] = {Invalid(s) : s \in bad} \cup {Copy(s) : s \in copies}
  <2>1. /\ Retail!Combined(T) = Sales /\ Retail!ValidCandidates(T) = ValidSales
        /\ Retail!Ranked(T) = KeptSales
    BY <1>2, SalesOfLanding
  <2>2. {s \in Sales : Retail!Invalid(s) = TRUE} = bad BY SalesRows
  <2> QED BY <1>2, <2>1, <2>2 DEF Retail!Rejected
<1>4. ASSUME NEW s \in Sales PROVE SameSale(Invalid(s), s) /\ SameSale(Copy(s), s)
  <2>1. \A more : \A c \in DOMAIN s : Retail!WithColumns(s, more)[c] = s[c]
    BY WithColumnsKeeps, RetailSql
  <2>2. DOMAIN s = Retail!SaleColumns \cup {"split"} BY SalesRows
  <2> QED BY <2>1, <2>2 DEF SameSale, Retail!SaleColumns
<1>5. bad \subseteq Sales /\ copies \subseteq Sales /\ NotKept = bad \cup copies
  BY DEF ValidSales, NotKept
<1> HIDE DEF Invalid, Copy, bad, copies
<1> QED BY <1>3, <1>4, <1>5

\* Every bronze sale is in the silver table or rejected, and not both.
LEMMA SalesAreAccountedFor ==
  ASSUME TypeInv, TablesInv, pipeline = "fresh_retail",
         Published("silver.rejected_sales"), Published("silver.daily_sales")
  PROVE  /\ Ids("silver.rejected_sales") \cap Ids("silver.daily_sales") = {}
         /\ Ids("silver.rejected_sales") \cup Ids("silver.daily_sales")
              = Ids("bronze.daily_sales_train") \cup Ids("bronze.daily_sales_eval")
<1>1. Published("bronze.daily_sales_train") /\ Published("bronze.daily_sales_eval")
  <2>1. Order = Retail!Order /\ DOMAIN Order = 1..11 BY FlowOf, RetailOrder
  <2>2. /\ Order[1] = "bronze.daily_sales_train" /\ Order[2] = "bronze.daily_sales_eval"
        /\ Order[4] = "silver.daily_sales"
    BY <2>1 DEF Retail!Order
  <2> QED BY <2>1, <2>2, PublishedInOrder
<1>2. tables["bronze.daily_sales_train"] = Retail!Split(raw.train, "train")
  <2>1. PICK T : /\ Lawful(T) /\ "bronze.daily_sales_train" \in DOMAIN T
                 /\ T["bronze.daily_sales_train"] = tables["bronze.daily_sales_train"]
    BY <1>1, OfOneRun DEF Published
  <2> QED BY <2>1, RetailTables
<1>3. tables["bronze.daily_sales_eval"] = Retail!Split(raw.eval, "eval")
  <2>1. PICK T : /\ Lawful(T) /\ "bronze.daily_sales_eval" \in DOMAIN T
                 /\ T["bronze.daily_sales_eval"] = tables["bronze.daily_sales_eval"]
    BY <1>1, OfOneRun DEF Published
  <2> QED BY <2>1, RetailTables
<1>4. tables["bronze.daily_sales_train"] \cup tables["bronze.daily_sales_eval"] = Sales
  <2>1. LandedSales(tables) BY <1>2, <1>3 DEF LandedSales
  <2> QED BY <2>1, SalesOfLanding DEF Retail!Combined
<1>5. tables["silver.daily_sales"] = KeptSales BY SilverSales
<1>6. /\ Ids("silver.rejected_sales") = {r.id : r \in tables["silver.rejected_sales"]}
      /\ Ids("silver.daily_sales") = {s.id : s \in KeptSales}
      /\ Ids("bronze.daily_sales_train") \cup Ids("bronze.daily_sales_eval") = {s.id : s \in Sales}
  BY <1>1, <1>4, <1>5 DEF Ids, Rows
<1>7. Ids("silver.rejected_sales") = {s.id : s \in NotKept}
  <2>1. /\ \A r \in tables["silver.rejected_sales"] : \E s \in NotKept : r.id = s.id
        /\ \A s \in NotKept : \E r \in tables["silver.rejected_sales"] : r.id = s.id
    BY RejectedSales DEF SameSale
  <2> QED BY <1>6, <2>1
<1>8. NotKept \cup KeptSales = Sales /\ NotKept \cap KeptSales = {}
  BY SalesRows, SalesKept DEF NotKept, ValidSales
<1>9. \A s, t \in Sales : s.id = t.id => s = t BY SalesRows
<1> QED BY <1>6, <1>7, <1>8, <1>9

\* A rejected sale is invalid, or a copy of one that was kept.
LEMMA SaleRejectionsAreDeserved ==
  ASSUME TypeInv, TablesInv, pipeline = "fresh_retail", Published("silver.daily_sales"),
         NEW r \in Rows("silver.rejected_sales"), ~BadSale(r)
  PROVE  \E s \in tables["silver.daily_sales"] :
           s.id # r.id /\ ~BadSale(s) /\ Retail!IDENTITY(s) = Retail!IDENTITY(r)
<1>1. Published("silver.rejected_sales") /\ r \in tables["silver.rejected_sales"] BY DEF Rows
<1>2. PICK s \in NotKept : SameSale(r, s) BY <1>1, RejectedSales
<1>3. ~BadSale(s) /\ r.id = s.id /\ Retail!IDENTITY(r) = Retail!IDENTITY(s)
  BY <1>2 DEF SameSale, BadSale, Retail!IDENTITY
<1>4. s \in ValidSales \ KeptSales BY <1>2, <1>3 DEF NotKept
<1>5. PICK t \in KeptSales : Retail!IDENTITY(t) = Retail!IDENTITY(s) BY <1>4, SalesKept
<1>6. t \in ValidSales /\ ~BadSale(t) /\ t \in Sales /\ s \in Sales
  BY <1>4, SalesKept, SalesRows DEF ValidSales
<1>7. t.id # s.id BY <1>4, <1>5, <1>6, SalesRows
<1> QED BY <1>3, <1>5, <1>6, <1>7, SilverSales

\* The attributes of a dimension are those of the latest day.
LEMMA CitiesOfSale ==
  ASSUME TablesInv, pipeline = "fresh_retail", NEW T, T["silver.daily_sales"] = KeptSales,
         T["gold.dim_store"] \in Retail!DimStore(T), NEW r \in KeptSales
  PROVE  /\ Cities(T, r) # {}
         /\ \A city \in Cities(T, r) :
              city \in {s.city : s \in LatestIn({q \in KeptSales : q.store = r.store}, r)}
<1> DEFINE partition == [s \in KeptSales |-> Retail!StoreSplit(s)]
           rank == [s \in KeptSales |-> <<-s.date, s.city>>]
           Row(s) == [store |-> s.store, split |-> s.split, city |-> s.city]
<1>1. PICK kept \in FirstPerPartition(partition, rank) : T["gold.dim_store"] = {Row(s) : s \in kept}
  BY RetailSql DEF Retail!DimStore
<1>2. \A s \in KeptSales : s.date \in Int /\ s.city \in Number
  <2> SUFFICES ASSUME NEW s \in KeptSales PROVE s.date \in Int /\ s.city \in Number OBVIOUS
  <2>1. s \in Sales /\ Retail!Invalid(s) = FALSE BY SalesKept DEF ValidSales
  <2>2. ~BadSale(s) /\ s.date \in Number /\ s.city \in Number BY <2>1, SalesRows
  <2> QED BY <2>2 DEF BadSale, Number
<1>3. \A s \in KeptSales : IsRank(rank[s], 2) BY <1>2 DEF IsRank, Number
<1>4. /\ DOMAIN partition = KeptSales
      /\ \A s, t \in KeptSales :
           partition[s] = partition[t] <=> s.store = t.store /\ s.split = t.split
  BY DEF Retail!StoreSplit
<1>5. \A s, t \in KeptSales : s.date > t.date => Precedes(rank[s], rank[t])
  <2> SUFFICES ASSUME NEW s \in KeptSales, NEW t \in KeptSales, s.date > t.date
               PROVE  Precedes(<<-s.date, s.city>>, <<-t.date, t.city>>)
    OBVIOUS
  <2>1. s.date \in Int /\ t.date \in Int BY <1>2
  <2>2. Less(-s.date, -t.date) = TRUE /\ -s.date # -t.date
    <3>1. NULL \notin {-s.date, -t.date} BY <2>1, NullAssumption
    <3>2. -s.date < -t.date /\ -s.date # -t.date BY <2>1
    <3> QED BY <3>1, <3>2 DEF Less
  <2> QED BY <2>2 DEF Precedes
<1>6. IsFiniteSet(KeptSales) BY SalesKept
<1> HIDE DEF partition, rank
<1>7. /\ kept \subseteq KeptSales
      /\ \A k \in kept, s \in KeptSales : partition[s] = partition[k] => ~Precedes(rank[s], rank[k])
      /\ \A s \in KeptSales : \E k \in kept : partition[k] = partition[s]
  BY <1>3, <1>4, <1>6, KeptRows
<1> DEFINE partners == {d \in T["gold.dim_store"] : Retail!StoreSplit(d) = Retail!StoreSplit(r)}
           cities == {s.city : s \in partners}
<1>8. \A d \in partners : \E k \in kept : d.city = k.city /\ k.store = r.store /\ k.split = r.split
  BY <1>1 DEF Retail!StoreSplit
<1>9. partners # {}
  <2>1. PICK k \in kept : partition[k] = partition[r] BY <1>7
  <2>2. k.store = r.store /\ k.split = r.split BY <1>4, <1>7, <2>1
  <2>3. Retail!StoreSplit(Row(k)) = Retail!StoreSplit(r) BY <2>2 DEF Retail!StoreSplit
  <2>4. Row(k) \in T["gold.dim_store"] BY <1>1
  <2> QED BY <2>3, <2>4
<1>10. Cities(T, r) = cities BY <1>9 DEF Cities, Retail!Outer
<1>11. ASSUME NEW k \in kept, k.store = r.store, k.split = r.split
       PROVE  k \in LatestIn({q \in KeptSales : q.store = r.store}, r)
  <2>1. ASSUME NEW q \in KeptSales, q.store = r.store, q.split = r.split PROVE q.date <= k.date
    <3>1. ~(q.date > k.date) BY <1>4, <1>5, <1>7, <1>11, <2>1
    <3> QED BY <1>2, <1>7, <3>1
  <2> QED BY <1>7, <1>11, <2>1 DEF LatestIn
<1> HIDE DEF partners, cities
<1>12. \A city \in cities :
    city \in {s.city : s \in LatestIn({q \in KeptSales : q.store = r.store}, r)}
  <2> SUFFICES ASSUME NEW d \in partners
               PROVE  d.city \in {s.city : s \in LatestIn({q \in KeptSales : q.store = r.store}, r)}
    BY DEF cities
  <2>1. PICK k \in kept : d.city = k.city /\ k.store = r.store /\ k.split = r.split BY <1>8
  <2> QED BY <1>11, <2>1
<1>13. cities # {} BY <1>9 DEF cities
<1> QED BY <1>10, <1>12, <1>13

\* The same of the categories of a product.
LEMMA CategoriesOfSale ==
  ASSUME TablesInv, pipeline = "fresh_retail", NEW T, T["silver.daily_sales"] = KeptSales,
         T["gold.dim_product"] \in Retail!DimProduct(T), NEW r \in KeptSales
  PROVE  /\ Categories(T, r) # {}
         /\ \A category \in Categories(T, r) :
              category \in {s.category : s \in LatestIn({q \in KeptSales : q.product = r.product}, r)}
<1> DEFINE partition == [s \in KeptSales |-> Retail!ProductSplit(s)]
           rank == [s \in KeptSales |-> Retail!LatestDay(s)]
           Row(s) == [product |-> s.product, split |-> s.split, category |-> s.category]
<1>1. PICK kept \in FirstPerPartition(partition, rank) :
    T["gold.dim_product"] = {Row(s) : s \in kept}
  BY RetailSql DEF Retail!DimProduct
<1>2. \A s \in KeptSales : s.date \in Int /\ s.category \in Number
  <2> SUFFICES ASSUME NEW s \in KeptSales PROVE s.date \in Int /\ s.category \in Number OBVIOUS
  <2>1. s \in Sales /\ Retail!Invalid(s) = FALSE BY SalesKept DEF ValidSales
  <2>2. ~BadSale(s) /\ s.date \in Number /\ s.category \in Number BY <2>1, SalesRows
  <2> QED BY <2>2 DEF BadSale, Number
<1>3. \A s \in KeptSales : IsRank(rank[s], 2) BY <1>2 DEF IsRank, Number, Retail!LatestDay
<1>4. /\ DOMAIN partition = KeptSales
      /\ \A s, t \in KeptSales :
           partition[s] = partition[t] <=> s.product = t.product /\ s.split = t.split
  BY DEF Retail!ProductSplit
<1>5. \A s, t \in KeptSales : s.date > t.date => Precedes(rank[s], rank[t])
  <2> SUFFICES ASSUME NEW s \in KeptSales, NEW t \in KeptSales, s.date > t.date
               PROVE  Precedes(<<-s.date, s.category>>, <<-t.date, t.category>>)
    BY DEF Retail!LatestDay
  <2>1. s.date \in Int /\ t.date \in Int BY <1>2
  <2>2. Less(-s.date, -t.date) = TRUE /\ -s.date # -t.date
    <3>1. NULL \notin {-s.date, -t.date} BY <2>1, NullAssumption
    <3>2. -s.date < -t.date /\ -s.date # -t.date BY <2>1
    <3> QED BY <3>1, <3>2 DEF Less
  <2> QED BY <2>2 DEF Precedes
<1>6. IsFiniteSet(KeptSales) BY SalesKept
<1> HIDE DEF partition, rank
<1>7. /\ kept \subseteq KeptSales
      /\ \A k \in kept, s \in KeptSales : partition[s] = partition[k] => ~Precedes(rank[s], rank[k])
      /\ \A s \in KeptSales : \E k \in kept : partition[k] = partition[s]
  BY <1>3, <1>4, <1>6, KeptRows
<1> DEFINE partners ==
    {d \in T["gold.dim_product"] : Retail!ProductSplit(d) = Retail!ProductSplit(r)}
           categories == {s.category : s \in partners}
<1>8. \A d \in partners : \E k \in kept :
    d.category = k.category /\ k.product = r.product /\ k.split = r.split
  BY <1>1 DEF Retail!ProductSplit
<1>9. partners # {}
  <2>1. PICK k \in kept : partition[k] = partition[r] BY <1>7
  <2>2. k.product = r.product /\ k.split = r.split BY <1>4, <1>7, <2>1
  <2>3. Retail!ProductSplit(Row(k)) = Retail!ProductSplit(r) BY <2>2 DEF Retail!ProductSplit
  <2>4. Row(k) \in T["gold.dim_product"] BY <1>1
  <2> QED BY <2>3, <2>4
<1>10. Categories(T, r) = categories BY <1>9 DEF Categories, Retail!Outer
<1>11. ASSUME NEW k \in kept, k.product = r.product, k.split = r.split
       PROVE  k \in LatestIn({q \in KeptSales : q.product = r.product}, r)
  <2>1. ASSUME NEW q \in KeptSales, q.product = r.product, q.split = r.split PROVE q.date <= k.date
    <3>1. ~(q.date > k.date) BY <1>4, <1>5, <1>7, <1>11, <2>1
    <3> QED BY <1>2, <1>7, <3>1
  <2> QED BY <1>7, <1>11, <2>1 DEF LatestIn
<1> HIDE DEF partners, categories
<1>12. \A category \in categories :
         category \in {s.category : s \in LatestIn({q \in KeptSales : q.product = r.product}, r)}
  <2> SUFFICES ASSUME NEW d \in partners
               PROVE  d.category \in {s.category : s \in LatestIn({q \in KeptSales : q.product = r.product}, r)}
    BY DEF categories
  <2>1. PICK k \in kept : d.category = k.category /\ k.product = r.product /\ k.split = r.split
    BY <1>8
  <2> QED BY <1>11, <2>1
<1>13. categories # {} BY <1>9 DEF categories
<1> QED BY <1>10, <1>12, <1>13

\* A fact row has the columns of its sale, and those of the dimensions.
SaleFactOf(T, f, r) ==
  /\ \A c \in DOMAIN r : f[c] = r[c]
  /\ f.store_city \in Cities(T, r) /\ f.product_category \in Categories(T, r)

\* The facts of an undisturbed run are the kept sales with what the dimensions say.
LEMMA SaleFacts ==
  ASSUME TablesInv, pipeline = "fresh_retail", NEW T, Lawful(T), "gold.fct_daily_sales" \in DOMAIN T
  PROVE  /\ T["silver.daily_sales"] = KeptSales
         /\ \A f \in T["gold.fct_daily_sales"] : \E r \in KeptSales : SaleFactOf(T, f, r)
         /\ \A r \in KeptSales : \E f \in T["gold.fct_daily_sales"] : SaleFactOf(T, f, r)
<1>1. /\ "silver.daily_sales" \in DOMAIN T /\ T["gold.fct_daily_sales"] = Retail!Facts(T)
      /\ T["gold.dim_store"] \in Retail!DimStore(T) /\ T["gold.dim_product"] \in Retail!DimProduct(T)
  BY RetailTables
<1>2. T["silver.daily_sales"] = KeptSales BY <1>1, RetailTables, SalesOfLanding
<1>3. ASSUME NEW r \in KeptSales, NEW city \in Cities(T, r), NEW category \in Categories(T, r)
      PROVE  SaleFactOf(T, SaleFact(r, city, category), r)
  <2> DEFINE more == [store_city |-> city, product_category |-> category]
             f == SaleFact(r, city, category)
  <2>1. DOMAIN more = {"store_city", "product_category"} /\ more["store_city"] = city
        /\ more["product_category"] = category
    OBVIOUS
  <2>2. f = WithColumns(r, more) BY RetailSql DEF SaleFact
  <2>3. DOMAIN r = Retail!SaleColumns \cup {"split"} BY SalesKept, SalesRows DEF ValidSales
  <2> HIDE DEF more, f
  <2>4. /\ \A c \in DOMAIN r : WithColumns(r, more)[c] = r[c]
        /\ \A c \in DOMAIN more \ DOMAIN r : WithColumns(r, more)[c] = more[c]
    BY WithColumnsKeeps
  <2>5. f.store_city = city /\ f.product_category = category
    BY <2>1, <2>2, <2>3, <2>4 DEF Retail!SaleColumns
  <2>6. SaleFactOf(T, f, r) BY <2>2, <2>4, <2>5 DEF SaleFactOf
  <2> QED BY <2>6 DEF f
<1>4. ASSUME NEW f \in T["gold.fct_daily_sales"] PROVE \E r \in KeptSales : SaleFactOf(T, f, r)
  <2>1. PICK r \in KeptSales :
          \E city \in Cities(T, r), category \in Categories(T, r) :
            f = SaleFact(r, city, category)
    BY <1>1, <1>2, <1>4, RetailFactRows
  <2> QED BY <1>3, <2>1
<1>5. ASSUME NEW r \in KeptSales PROVE \E f \in T["gold.fct_daily_sales"] : SaleFactOf(T, f, r)
  <2>1. PICK city \in Cities(T, r), category \in Categories(T, r) : TRUE
    BY <1>1, <1>2, CitiesOfSale, CategoriesOfSale
  <2> DEFINE f == SaleFact(r, city, category)
  <2>2. f \in T["gold.fct_daily_sales"] BY <1>1, <1>2, RetailFactRows
  <2>3. SaleFactOf(T, f, r) BY <1>3
  <2> QED BY <2>2, <2>3
<1> QED BY <1>2, <1>4, <1>5

\* The columns of a kept sale that its facts are read by.
LEMMA SaleFactColumns ==
  ASSUME TablesInv, pipeline = "fresh_retail", NEW T, NEW r \in KeptSales, NEW f, SaleFactOf(T, f, r)
  PROVE  /\ f.id = r.id /\ f.store = r.store /\ f.product = r.product /\ f.date = r.date
         /\ f.split = r.split /\ f.category = r.category /\ f.amount = r.amount
<1>1. DOMAIN r = Retail!SaleColumns \cup {"split"} BY SalesKept, SalesRows DEF ValidSales
<1> QED BY <1>1 DEF SaleFactOf, Retail!SaleColumns

\* FactsExtendSilver, for the sales.
LEMMA SaleFactsExtendSilver ==
  ASSUME TypeInv, TablesInv, pipeline = "fresh_retail", Published("gold.fct_daily_sales")
  PROVE  /\ InStep("gold.fct_daily_sales", "silver.daily_sales") =>
              /\ Ids("gold.fct_daily_sales") = Ids("silver.daily_sales")
              /\ Cardinality(tables["gold.fct_daily_sales"]) = Cardinality(tables["silver.daily_sales"])
         /\ \A f \in Rows("gold.fct_daily_sales") :
              LET sales == Rows("silver.daily_sales")
              IN  /\ f.store_city \in {s.city : s \in LatestIn({q \in sales : q.store = f.store}, f)}
                  /\ f.product_category \in {s.category : s \in LatestIn({q \in sales : q.product = f.product}, f)}
<1>1. PICK T : /\ Lawful(T) /\ "gold.fct_daily_sales" \in DOMAIN T
               /\ T["gold.fct_daily_sales"] = tables["gold.fct_daily_sales"]
  BY OfOneRun DEF Published
<1>2. Published("silver.daily_sales")
  <2>1. Order = Retail!Order /\ DOMAIN Order = 1..11 BY FlowOf, RetailOrder
  <2>2. Order[4] = "silver.daily_sales" /\ Order[9] = "gold.fct_daily_sales"
    BY <2>1 DEF Retail!Order
  <2> QED BY <2>1, <2>2, PublishedInOrder
<1>3. tables["silver.daily_sales"] = KeptSales /\ T["silver.daily_sales"] = KeptSales
  BY <1>1, <1>2, SilverSales, SaleFacts
<1>4. Rows("silver.daily_sales") = KeptSales /\ Rows("gold.fct_daily_sales") = T["gold.fct_daily_sales"]
  BY <1>1, <1>2, <1>3 DEF Rows
<1>5. Ids("gold.fct_daily_sales") = Ids("silver.daily_sales")
  <2>1. /\ \A f \in T["gold.fct_daily_sales"] : \E r \in KeptSales : f.id = r.id
        /\ \A r \in KeptSales : \E f \in T["gold.fct_daily_sales"] : f.id = r.id
    BY <1>1, SaleFacts, SaleFactColumns
  <2> QED BY <1>4, <2>1 DEF Ids
<1>6. Cardinality(tables["gold.fct_daily_sales"]) = Cardinality(tables["silver.daily_sales"])
  BY <1>1, <1>3, RetailTables
<1>7. ASSUME NEW f \in T["gold.fct_daily_sales"]
      PROVE  /\ f.store_city \in {s.city : s \in LatestIn({q \in KeptSales : q.store = f.store}, f)}
             /\ f.product_category \in {s.category : s \in LatestIn({q \in KeptSales : q.product = f.product}, f)}
  <2>1. PICK r \in KeptSales : SaleFactOf(T, f, r) BY <1>1, SaleFacts
  <2>2. f.store = r.store /\ f.product = r.product /\ f.split = r.split BY <2>1, SaleFactColumns
  <2>3. \A rows : LatestIn(rows, f) = LatestIn(rows, r) BY <2>2 DEF LatestIn
  <2>4. T["gold.dim_store"] \in Retail!DimStore(T) /\ T["gold.dim_product"] \in Retail!DimProduct(T)
    BY <1>1, RetailTables
  <2>5. f.store_city \in {s.city : s \in LatestIn({q \in KeptSales : q.store = r.store}, r)}
    BY <1>3, <2>1, <2>4, CitiesOfSale DEF SaleFactOf
  <2>6. f.product_category \in {s.category : s \in LatestIn({q \in KeptSales : q.product = r.product}, r)}
    BY <1>3, <2>1, <2>4, CategoriesOfSale DEF SaleFactOf
  <2> QED BY <2>2, <2>3, <2>5, <2>6
<1> QED BY <1>4, <1>5, <1>6, <1>7

\* The zone of a trip.
LEMMA ZoneOfTrip ==
  ASSUME TablesInv, pipeline = "taxi", NEW T, T["gold.dim_zones"] = raw.zones,
         Unique([z \in raw.zones |-> z.location]), NEW location
  PROVE  Taxi!ZonesAt(T, location) = {ZoneOf(location)}
<1> DEFINE Names1(z) == Taxi!Coalesce(z.zone, "Unknown Zone")
           partners == {y \in raw.zones : Taxi!Equal(location, y.location) = TRUE}
           names == {Names1(z) : z \in partners}
<1>1. Taxi!ZonesAt(T, location) = IF names = {} THEN {"Unknown Zone"} ELSE names
  BY DEF Taxi!ZonesAt, Taxi!Outer
<1>2. \A z \in raw.zones : z \in partners <=> z.location = location /\ location # NULL
  BY NullAssumption DEF Taxi!Equal
<1>3. \A y, z \in raw.zones : y.location = z.location => y = z
  <2> DEFINE key == [z \in raw.zones |-> z.location]
  <2>1. IsFiniteSet(DOMAIN key) /\ Unique(key) BY TaxiRaw
  <2>2. DOMAIN key = raw.zones /\ \A z \in raw.zones : key[z] = z.location OBVIOUS
  <2> HIDE DEF key
  <2> QED BY <2>1, <2>2, UniqueKey
<1>4. CASE partners = {}
  <2>1. \A z \in raw.zones : ~(z.location = location /\ location # NULL) BY <1>2, <1>4
  <2>2. ZoneOf(location) = "Unknown Zone" BY <2>1 DEF ZoneOf, IsNull
  <2>3. names = {} BY <1>4
  <2> QED BY <1>1, <2>2, <2>3
<1>5. CASE partners # {}
  <2>1. PICK z \in partners : TRUE BY <1>5
  <2>2. z \in raw.zones /\ z.location = location /\ location # NULL BY <1>2, <2>1
  <2>3. partners = {z} BY <1>2, <1>3, <2>1, <2>2
  <2>4. names = {Names1(z)} BY <2>3
  <2>5. \A y \in raw.zones : y.location = location => y = z BY <1>3, <2>2
  <2>6. (CHOOSE y \in raw.zones : y.location = location) = z BY <2>2, <2>5
  <2>7. ZoneOf(location) = IF z.zone # NULL THEN z.zone ELSE "Unknown Zone"
    BY <2>2, <2>5, <2>6 DEF ZoneOf, IsNull
  <2>8. Names1(z) = ZoneOf(location) BY <2>7 DEF Taxi!Coalesce, Taxi!IsNull
  <2> QED BY <1>1, <2>4, <2>8
<1> QED BY <1>4, <1>5

\* A fact row is a trip with the names of its two zones.
TripFactOf(f, trip) ==
  /\ \A c \in DOMAIN trip : f[c] = trip[c]
  /\ f.zone = ZoneOf(trip.location) /\ f.dropoff_zone = ZoneOf(trip.destination)

\* The facts of an undisturbed run are the silver trips with their zones.
LEMMA TripFacts ==
  ASSUME TablesInv, pipeline = "taxi", NEW T, Lawful(T), "gold.fct_trips" \in DOMAIN T
  PROVE  /\ \A trip \in T["silver.trips"] : DOMAIN trip = Taxi!TripColumns \cup {"service"}
         /\ \A f \in T["gold.fct_trips"] : \E trip \in T["silver.trips"] : TripFactOf(f, trip)
         /\ \A trip \in T["silver.trips"] : \E f \in T["gold.fct_trips"] : TripFactOf(f, trip)
<1>1. /\ "silver.trips" \in DOMAIN T /\ T["gold.dim_zones"] = raw.zones
      /\ Unique([z \in raw.zones |-> z.location]) /\ T["gold.fct_trips"] = Taxi!Facts(T)
  BY TaxiTables
<1>2. /\ T["bronze.yellow_tripdata"] = raw.yellow /\ T["bronze.green_tripdata"] = raw.green
      /\ T["silver.trips"] \in Taxi!Deduplicated(T)
  BY <1>1, TaxiTables
<1>3. ASSUME NEW trip \in T["silver.trips"] PROVE DOMAIN trip = Taxi!TripColumns \cup {"service"}
  <2>1. trip \in Taxi!Trips(T) BY <1>2, TripsKept DEF Taxi!Valid
  <2>2. PICK r \in raw.yellow \cup raw.green : trip = TripOf(r) BY <1>2, <2>1, TripsOfRaw
  <2> QED BY <2>2, TripColumnsKept
<1>4. \A trip : /\ Taxi!ZonesAt(T, trip.location) = {ZoneOf(trip.location)}
                /\ Taxi!ZonesAt(T, trip.destination) = {ZoneOf(trip.destination)}
  BY <1>1, ZoneOfTrip
<1> DEFINE More(trip) == [zone |-> ZoneOf(trip.location), dropoff_zone |-> ZoneOf(trip.destination)]
           Fact(trip) == TripFact(trip, ZoneOf(trip.location), ZoneOf(trip.destination))
<1>5. \A f : f \in T["gold.fct_trips"] <=> \E trip \in T["silver.trips"] : f = Fact(trip)
  <2>1. ASSUME NEW f \in T["gold.fct_trips"] PROVE \E trip \in T["silver.trips"] : f = Fact(trip)
    <3>1. PICK trip \in T["silver.trips"] :
            \E pickup \in Taxi!ZonesAt(T, trip.location), dropoff \in Taxi!ZonesAt(T, trip.destination) :
              f = TripFact(trip, pickup, dropoff)
      <4>1. f \in Taxi!Facts(T) BY <1>1, <2>1
      <4> QED BY <4>1, TaxiFactRows
    <3> QED BY <1>4, <3>1
  <2>2. ASSUME NEW trip \in T["silver.trips"] PROVE Fact(trip) \in T["gold.fct_trips"]
    <3>1. /\ ZoneOf(trip.location) \in Taxi!ZonesAt(T, trip.location)
          /\ ZoneOf(trip.destination) \in Taxi!ZonesAt(T, trip.destination)
      BY <1>4
    <3> QED BY <1>1, <3>1, TaxiFactRows
  <2> QED BY <2>1, <2>2
<1>6. ASSUME NEW trip \in T["silver.trips"] PROVE TripFactOf(Fact(trip), trip)
  <2> DEFINE more == More(trip)
             f == Fact(trip)
  <2>1. DOMAIN more = {"zone", "dropoff_zone"} /\ more["zone"] = ZoneOf(trip.location)
        /\ more["dropoff_zone"] = ZoneOf(trip.destination)
    OBVIOUS
  <2>2. f = WithColumns(trip, more) BY TaxiSql DEF TripFact
  <2> HIDE DEF more, f
  <2>3. /\ \A c \in DOMAIN trip : WithColumns(trip, more)[c] = trip[c]
        /\ \A c \in DOMAIN more \ DOMAIN trip : WithColumns(trip, more)[c] = more[c]
    BY WithColumnsKeeps
  <2>4. TripFactOf(f, trip) BY <1>3, <2>1, <2>2, <2>3 DEF TripFactOf, Taxi!TripColumns
  <2> QED BY <2>4 DEF f
<1> HIDE DEF Fact
<1> QED BY <1>3, <1>5, <1>6

\* A fact row has the columns of its trip.
LEMMA TripFactColumns ==
  ASSUME NEW trip, DOMAIN trip = Taxi!TripColumns \cup {"service"}, NEW f, TripFactOf(f, trip)
  PROVE  /\ f.id = trip.id /\ f.vendor = trip.vendor /\ f.pickup = trip.pickup /\ f.service = trip.service
         /\ f.location = trip.location /\ f.destination = trip.destination /\ f.amount = trip.amount
BY DEF TripFactOf, Taxi!TripColumns

\* FactsExtendSilver, for the trips.
LEMMA TripFactsExtendSilver ==
  ASSUME TypeInv, TablesInv, pipeline = "taxi", Published("gold.fct_trips")
  PROVE  /\ InStep("gold.fct_trips", "silver.trips") =>
              /\ Ids("gold.fct_trips") = Ids("silver.trips")
              /\ Cardinality(tables["gold.fct_trips"]) = Cardinality(tables["silver.trips"])
         /\ \A f \in Rows("gold.fct_trips") :
              f.zone = ZoneOf(f.location) /\ f.dropoff_zone = ZoneOf(f.destination)
<1>1. PICK T : /\ Lawful(T) /\ "gold.fct_trips" \in DOMAIN T
               /\ T["gold.fct_trips"] = tables["gold.fct_trips"]
               /\ \A u \in DOMAIN tables : by[u] = by["gold.fct_trips"] => T[u] = tables[u]
  BY OfOneRun DEF Published
<1>2. Published("silver.trips")
  <2>1. Order = Taxi!Order /\ DOMAIN Order = 1..8 BY FlowOf, TaxiOrder
  <2>2. Order[5] = "silver.trips" /\ Order[7] = "gold.fct_trips" BY <2>1 DEF Taxi!Order
  <2> QED BY <2>1, <2>2, PublishedInOrder
<1>3. /\ \A f \in T["gold.fct_trips"] : \E trip \in T["silver.trips"] :
           TripFactOf(f, trip) /\ f.id = trip.id /\ f.location = trip.location /\ f.destination = trip.destination
      /\ \A trip \in T["silver.trips"] : \E f \in T["gold.fct_trips"] : f.id = trip.id
  <2>1. /\ \A trip \in T["silver.trips"] : DOMAIN trip = Taxi!TripColumns \cup {"service"}
        /\ \A f \in T["gold.fct_trips"] : \E trip \in T["silver.trips"] : TripFactOf(f, trip)
        /\ \A trip \in T["silver.trips"] : \E f \in T["gold.fct_trips"] : TripFactOf(f, trip)
    BY <1>1, TripFacts
  <2>2. \A trip \in T["silver.trips"] : \A f : TripFactOf(f, trip) =>
          f.id = trip.id /\ f.location = trip.location /\ f.destination = trip.destination
    BY <2>1, TripFactColumns
  <2> QED BY <2>1, <2>2
<1>4. ASSUME InStep("gold.fct_trips", "silver.trips")
      PROVE  /\ Ids("gold.fct_trips") = Ids("silver.trips")
             /\ Cardinality(tables["gold.fct_trips"]) = Cardinality(tables["silver.trips"])
  <2>1. T["silver.trips"] = tables["silver.trips"] BY <1>1, <1>2, <1>4 DEF InStep, Published
  <2>2. /\ Ids("gold.fct_trips") = {f.id : f \in T["gold.fct_trips"]}
        /\ Ids("silver.trips") = {s.id : s \in T["silver.trips"]}
    BY <1>1, <1>2, <2>1 DEF Ids, Rows
  <2>3. Ids("gold.fct_trips") = Ids("silver.trips")
    <3>1. /\ \A f \in T["gold.fct_trips"] : \E s \in T["silver.trips"] : f.id = s.id
          /\ \A s \in T["silver.trips"] : \E f \in T["gold.fct_trips"] : f.id = s.id
      BY <1>3
    <3> QED BY <2>2, <3>1
  <2> QED BY <1>1, <2>1, <2>3, TaxiTables
<1>5. ASSUME NEW f \in Rows("gold.fct_trips")
      PROVE  f.zone = ZoneOf(f.location) /\ f.dropoff_zone = ZoneOf(f.destination)
  BY <1>1, <1>3, <1>5 DEF Rows, TripFactOf
<1> QED BY <1>4, <1>5

(***************************************************************************)
(* The properties of the tables.                                           *)
(***************************************************************************)
\* A table of another pipeline is not there.
LEMMA OtherTables ==
  ASSUME TypeInv
  PROVE  /\ pipeline # "taxi" =>
              /\ ~Published("gold.fct_trips") /\ ~Published("gold.fct_monthly_zone_revenue")
         /\ pipeline # "transaction_cat" =>
              /\ ~Published("gold.fct_transactions") /\ ~Published("gold.fct_category_country")
         /\ pipeline # "fresh_retail" =>
              /\ ~Published("gold.fct_daily_sales") /\ ~Published("gold.fct_store_daily")
              /\ ~Published("gold.fct_category_daily")
<1>1. \A t \in DOMAIN tables : \E i \in DOMAIN Order : t = Order[i] BY DEF TypeInv, TypeOK, Names
<1>2. CASE pipeline = "taxi"
  <2>1. Order = Taxi!Order /\ DOMAIN Order = 1..8 BY <1>2, FlowOf, TaxiOrder
  <2> QED BY <1>1, <1>2, <2>1 DEF Published, Taxi!Order
<1>3. CASE pipeline = "transaction_cat"
  <2>1. Order = Transactions!Order /\ DOMAIN Order = 1..9 BY <1>3, FlowOf, TransactionsOrder
  <2> QED BY <1>1, <1>3, <2>1 DEF Published, Transactions!Order
<1>4. CASE pipeline = "fresh_retail"
  <2>1. Order = Retail!Order /\ DOMAIN Order = 1..11 BY <1>4, FlowOf, RetailOrder
  <2> QED BY <1>1, <1>4, <2>1 DEF Published, Retail!Order
<1> QED BY <1>2, <1>3, <1>4 DEF TypeInv, Slices

\* The invariant of the tables, with those it rests on.
LEMMA TablesAlways == Spec => [](TypeInv /\ RunInv /\ TablesInv)
BY TypeInit, TypeStep, RunInit, RunStep, TablesInit, TablesStep, PTL DEF Spec

\* Every bronze row is in the silver table or in the dead letter, and not in both.
THEOREM RowsAreAlwaysAccountedFor == Spec => []RowsAreAccountedFor
<1>1. TypeInv /\ TablesInv => RowsAreAccountedFor
  <2> SUFFICES ASSUME TypeInv, TablesInv PROVE RowsAreAccountedFor OBVIOUS
  <2>1. CASE pipeline = "taxi"
    BY <2>1, TripsAreAccountedFor DEF RowsAreAccountedFor, AllPublished
  <2>2. CASE pipeline = "transaction_cat"
    BY <2>2, TransactionsAreAccountedFor DEF RowsAreAccountedFor, AllPublished
  <2>3. CASE pipeline = "fresh_retail"
    BY <2>3, SalesAreAccountedFor DEF RowsAreAccountedFor, AllPublished
  <2> QED BY <2>1, <2>2, <2>3 DEF TypeInv, Slices
<1> QED BY <1>1, TablesAlways, PTL

\* Nothing good is thrown away: a rejected row is invalid or a copy of a kept one.
THEOREM RejectionsAreDeserved == Spec => []RejectionIsDeserved
<1>1. TypeInv /\ TablesInv => RejectionIsDeserved
  BY TripRejectionsAreDeserved, TransactionRejectionsAreDeserved, SaleRejectionsAreDeserved
  DEF RejectionIsDeserved
<1> QED BY <1>1, TablesAlways, PTL

\* The facts are the silver rows, none lost and none twice, with what the dimensions
\* say of each.
THEOREM FactsAlwaysExtendSilver == Spec => []FactsExtendSilver
<1>1. TypeInv /\ TablesInv => FactsExtendSilver
  <2> SUFFICES ASSUME TypeInv, TablesInv PROVE FactsExtendSilver OBVIOUS
  <2>1. /\ InStep("gold.fct_trips", "silver.trips") =>
             /\ Ids("gold.fct_trips") = Ids("silver.trips")
             /\ Cardinality(tables["gold.fct_trips"]) = Cardinality(tables["silver.trips"])
        /\ \A f \in Rows("gold.fct_trips") :
             f.zone = ZoneOf(f.location) /\ f.dropoff_zone = ZoneOf(f.destination)
    <3>1. CASE Published("gold.fct_trips") BY <3>1, OtherTables, TripFactsExtendSilver
    <3>2. CASE ~Published("gold.fct_trips") BY <3>2 DEF InStep, Rows
    <3> QED BY <3>1, <3>2
  <2>2. /\ InStep("gold.fct_transactions", "silver.transactions") =>
             /\ Ids("gold.fct_transactions") = Ids("silver.transactions")
             /\ Cardinality(tables["gold.fct_transactions"]) = Cardinality(tables["silver.transactions"])
        /\ \A f \in Rows("gold.fct_transactions") :
             /\ \E c \in raw.taxonomy :
                  c.code = f.code /\ c.name = f.category_name /\ f.category \in c.aliases
             /\ \E g \in raw.geo : g.country = f.country /\ g.name = f.country_name
    <3>1. CASE Published("gold.fct_transactions")
      <4>1. pipeline = "transaction_cat" BY <3>1, OtherTables
      <4>2. Published("silver.transactions")
        <5>1. Order = Transactions!Order /\ DOMAIN Order = 1..9 BY <4>1, FlowOf, TransactionsOrder
        <5>2. Order[5] = "silver.transactions" /\ Order[8] = "gold.fct_transactions"
          BY <5>1 DEF Transactions!Order
        <5> QED BY <3>1, <5>1, <5>2, PublishedInOrder
      <4> QED BY <4>1, <4>2, TransactionFactsExtendSilver
    <3>2. CASE ~Published("gold.fct_transactions") BY <3>2 DEF InStep, Rows
    <3> QED BY <3>1, <3>2
  <2>3. /\ InStep("gold.fct_daily_sales", "silver.daily_sales") =>
             /\ Ids("gold.fct_daily_sales") = Ids("silver.daily_sales")
             /\ Cardinality(tables["gold.fct_daily_sales"]) = Cardinality(tables["silver.daily_sales"])
        /\ \A f \in Rows("gold.fct_daily_sales") :
             LET sales == Rows("silver.daily_sales")
             IN  /\ f.store_city \in {s.city : s \in LatestIn({q \in sales : q.store = f.store}, f)}
                 /\ f.product_category \in {s.category : s \in LatestIn({q \in sales : q.product = f.product}, f)}
    <3>1. CASE Published("gold.fct_daily_sales") BY <3>1, OtherTables, SaleFactsExtendSilver
    <3>2. CASE ~Published("gold.fct_daily_sales") BY <3>2 DEF InStep, Rows
    <3> QED BY <3>1, <3>2
  <2> QED BY <2>1, <2>2, <2>3 DEF FactsExtendSilver
<1> QED BY <1>1, TablesAlways, PTL

(***************************************************************************)
(* The marts.                                                              *)
(***************************************************************************)
\* A mart agrees with its facts when each row of it stands for one of their groups, and each
\* of them for a row of it.
LEMMA MartMatches ==
  ASSUME NEW facts, NEW key, NEW measure,
         \A k \in DOMAIN facts : \E row \in DOMAIN key : key[row] = k,
         \A row \in DOMAIN key : key[row] \in DOMAIN facts /\ measure[row] = facts[key[row]]
  PROVE  Matches(facts, key, measure) /\ Groups(key) = DOMAIN facts
BY DEF Matches, Groups

\* And without NULL in its keys it does so for the verifier.
LEMMA MartAgrees ==
  ASSUME NEW facts, NEW key, NEW measure,
         \A k \in DOMAIN facts : ~HasNull(k),
         \A k \in DOMAIN facts : \E row \in DOMAIN key : key[row] = k,
         \A row \in DOMAIN key : key[row] \in DOMAIN facts /\ measure[row] = facts[key[row]]
  PROVE  Agree(facts, key, measure)
BY MartMatches DEF Agree

\* No group of the monthly mart has NULL in its key.
LEMMA TripOfFact ==
  ASSUME TablesInv, pipeline = "taxi", NEW T, Lawful(T), "gold.fct_trips" \in DOMAIN T,
         NEW f \in T["gold.fct_trips"]
  PROVE  f.zone # NULL /\ f.pickup \in Int /\ f.service # NULL
<1>1. /\ T["gold.dim_zones"] = raw.zones /\ Unique([z \in raw.zones |-> z.location])
      /\ T["bronze.yellow_tripdata"] = raw.yellow /\ T["bronze.green_tripdata"] = raw.green
      /\ T["silver.trips"] \in Taxi!Deduplicated(T)
  BY TaxiTables
<1>2. PICK trip \in T["silver.trips"] : TripFactOf(f, trip) BY TripFacts
<1>3. f.pickup = trip.pickup /\ f.service = trip.service BY <1>2, TripFacts, TripFactColumns
<1>4. trip \in Taxi!Trips(T) /\ ~Taxi!Invalid(trip) BY <1>1, TripsKept DEF Taxi!Valid
<1>5. PICK r \in raw.yellow \cup raw.green : trip = TripOf(r) BY <1>1, <1>4, TripsOfRaw
<1>6. trip.pickup \in Int /\ trip.pickup # NULL
  <2>1. trip.pickup # NULL BY <1>4 DEF Taxi!Invalid, Taxi!IsNull
  <2>2. trip.pickup \in Number BY <1>5, TripColumnsKept, TaxiRaw
  <2> QED BY <2>1, <2>2 DEF Number
<1>7. trip.service \in {"Yellow", "Green"} BY <1>5, TripColumnsKept DEF ServiceOf
<1>8. ZoneOf(trip.location) # NULL
  <2>1. "Unknown Zone" # NULL BY LiteralsAssumption
  <2>2. ASSUME NEW z PROVE Taxi!Coalesce(z, "Unknown Zone") # NULL
    BY <2>1 DEF Taxi!Coalesce, Taxi!IsNull
  <2> DEFINE partners == {y \in raw.zones : Taxi!Equal(trip.location, y.location) = TRUE}
             names == {Taxi!Coalesce(z.zone, "Unknown Zone") : z \in partners}
  <2>3. Taxi!ZonesAt(T, trip.location) = IF names = {} THEN {"Unknown Zone"} ELSE names
    BY <1>1 DEF Taxi!ZonesAt, Taxi!Outer
  <2>4. \A name \in names : name # NULL BY <2>2
  <2>5. ZoneOf(trip.location) \in Taxi!ZonesAt(T, trip.location) BY <1>1, ZoneOfTrip
  <2> HIDE DEF names
  <2> QED BY <2>1, <2>3, <2>4, <2>5
<1>9. f.zone # NULL BY <1>2, <1>8 DEF TripFactOf
<1>10. trip.service # NULL
  <2>1. "Yellow" # NULL /\ "Green" # NULL BY LiteralsAssumption
  <2> QED BY <1>7, <2>1
<1> QED BY <1>3, <1>6, <1>9, <1>10

\* The monthly mart agrees with its facts.
LEMMA MonthlyMart ==
  ASSUME TypeInv, TablesInv, pipeline = "taxi", InStep("gold.fct_monthly_zone_revenue", "gold.fct_trips")
  PROVE  MonthlyAgrees(tables)
<1> DEFINE facts == tables["gold.fct_trips"]
           mart == tables["gold.fct_monthly_zone_revenue"]
           key == [trip \in facts |-> <<trip.zone, Month(trip.pickup), trip.service>>]
           martKey == [row \in mart |-> <<row.zone, row.month, row.service>>]
           Row(k) == [zone |-> k[1], month |-> k[2], service |-> k[3],
                      amount |-> Taxi!Amount(Group(key, k)), trips |-> Cardinality(Group(key, k))]
<1>1. Published("gold.fct_trips") /\ Published("gold.fct_monthly_zone_revenue")
  <2>1. Order = Taxi!Order /\ DOMAIN Order = 1..8 BY FlowOf, TaxiOrder
  <2>2. Order[7] = "gold.fct_trips" /\ Order[8] = "gold.fct_monthly_zone_revenue"
    BY <2>1 DEF Taxi!Order
  <2> QED BY <2>1, <2>2, PublishedInOrder DEF InStep
<1>2. PICK T :
    /\ Lawful(T) /\ "gold.fct_monthly_zone_revenue" \in DOMAIN T /\ "gold.fct_trips" \in DOMAIN T
    /\ T["gold.fct_trips"] = facts /\ T["gold.fct_monthly_zone_revenue"] = mart
  BY <1>1, OfOneRun DEF Published, InStep
<1>3. \A f \in facts : f.zone # NULL /\ f.pickup \in Int /\ f.service # NULL BY <1>2, TripOfFact
<1>4. mart = {Row(k) : k \in Groups(key)}
  <2>1. T["gold.fct_monthly_zone_revenue"] = Taxi!Monthly(T) BY <1>2, TaxiTables
  <2>2. \A trip : Taxi!ZoneMonth(trip) = <<trip.zone, Month(trip.pickup), trip.service>>
    BY DEF Taxi!ZoneMonth, Taxi!Month, Month
  <2>3. [trip \in T["gold.fct_trips"] |-> Taxi!ZoneMonth(trip)] = key BY <1>2, <2>2
  <2> HIDE DEF key
  <2>4. Taxi!Monthly(T) = {Row(k) : k \in Groups(key)}
    BY <2>3, TaxiSql DEF Taxi!Monthly
  <2> QED BY <1>2, <2>1, <2>4
<1>5. \A k \in Groups(key) : k = <<k[1], k[2], k[3]>> /\ ~HasNull(k)
  <2> SUFFICES ASSUME NEW f \in facts
               PROVE  LET k == <<f.zone, Month(f.pickup), f.service>>
                      IN  k = <<k[1], k[2], k[3]>> /\ ~HasNull(k)
    BY DEF Groups
  <2>1. Month(f.pickup) \in Int BY <1>3 DEF Month
  <2>2. Month(f.pickup) # NULL BY <2>1, NullAssumption
  <2> QED BY <1>3, <2>2 DEF HasNull, IsNull
<1>6. \A k \in Groups(key) : Row(k) \in mart /\ martKey[Row(k)] = k BY <1>4, <1>5
<1>7. \A row \in mart : \E k \in Groups(key) : row = Row(k) BY <1>4
<1>8. \A k : Taxi!Amount(Group(key, k)) = Total([r \in Group(key, k) |-> r.amount])
  BY TaxiSql DEF Taxi!Amount
<1>9. Agree(Count(key), martKey, [row \in mart |-> row.trips])
  <2> DEFINE count == Count(key)
             measure == [row \in mart |-> row.trips]
  <2>1. DOMAIN count = Groups(key) /\ \A k \in Groups(key) : count[k] = Cardinality(Group(key, k))
    BY DEF Count
  <2>2. \A k \in Groups(key) : measure[Row(k)] = Cardinality(Group(key, k)) BY <1>6
  <2>3. DOMAIN martKey = mart OBVIOUS
  <2> HIDE DEF count, measure, martKey, key, mart, Row
  <2> QED BY <1>5, <1>6, <1>7, <2>1, <2>2, <2>3, MartAgrees DEF count, measure
<1>10. Agree(Amounts(key), martKey, [row \in mart |-> row.amount])
  <2> DEFINE amounts == Amounts(key)
             measure == [row \in mart |-> row.amount]
  <2>1. DOMAIN amounts = Groups(key) /\ \A k \in Groups(key) :
      amounts[k] = Taxi!Amount(Group(key, k))
    BY <1>8 DEF Amounts
  <2>2. \A k \in Groups(key) : measure[Row(k)] = Taxi!Amount(Group(key, k)) BY <1>6
  <2>3. DOMAIN martKey = mart OBVIOUS
  <2> HIDE DEF amounts, measure, martKey, key, mart, Row
  <2> QED BY <1>5, <1>6, <1>7, <2>1, <2>2, <2>3, MartAgrees DEF amounts, measure
<1> QED BY <1>9, <1>10 DEF MonthlyAgrees

\* The store dimension has one row for a store and a split.
LEMMA OneCity ==
  ASSUME TablesInv, pipeline = "fresh_retail", NEW T, T["silver.daily_sales"] = KeptSales,
         T["gold.dim_store"] \in Retail!DimStore(T), NEW r \in KeptSales, NEW s \in KeptSales,
         r.store = s.store, r.split = s.split
  PROVE  \A c \in Cities(T, r), d \in Cities(T, s) : c = d
<1> DEFINE partition == [q \in KeptSales |-> Retail!StoreSplit(q)]
           rank == [q \in KeptSales |-> <<-q.date, q.city>>]
           Row(q) == [store |-> q.store, split |-> q.split, city |-> q.city]
<1>1. PICK kept \in FirstPerPartition(partition, rank) : T["gold.dim_store"] = {Row(q) : q \in kept}
  BY RetailSql DEF Retail!DimStore
<1>2. \A q \in KeptSales : q.date \in Int /\ q.city \in Number
  <2> SUFFICES ASSUME NEW q \in KeptSales PROVE q.date \in Int /\ q.city \in Number OBVIOUS
  <2>1. q \in Sales /\ Retail!Invalid(q) = FALSE BY SalesKept DEF ValidSales
  <2>2. ~BadSale(q) /\ q.date \in Number /\ q.city \in Number BY <2>1, SalesRows
  <2> QED BY <2>2 DEF BadSale, Number
<1>3. \A q \in KeptSales : IsRank(rank[q], 2) BY <1>2 DEF IsRank, Number
<1>4. DOMAIN partition = KeptSales /\ \A q \in KeptSales : partition[q] = <<q.store, q.split>>
  BY DEF Retail!StoreSplit
<1>5. IsFiniteSet(KeptSales) BY SalesKept
<1> HIDE DEF partition, rank
<1>6. kept \subseteq KeptSales /\ \A j, k \in kept : partition[j] = partition[k] => j = k
  BY <1>1, <1>3, <1>4, <1>5, KeptRows
<1>7. ASSUME NEW d \in T["gold.dim_store"], NEW e \in T["gold.dim_store"],
             d.store = e.store, d.split = e.split
      PROVE  d.city = e.city
  <2>1. PICK j \in kept : d = Row(j) BY <1>1, <1>7
  <2>2. PICK k \in kept : e = Row(k) BY <1>1, <1>7
  <2>3. j.store = k.store /\ j.split = k.split BY <1>7, <2>1, <2>2
  <2>4. j = k BY <1>4, <1>6, <2>3
  <2> QED BY <2>1, <2>2, <2>4
<1> DEFINE Partners(q) == {d \in T["gold.dim_store"] : Retail!StoreSplit(d) = Retail!StoreSplit(q)}
<1>8. \A q, d :
    d \in Partners(q) => d \in T["gold.dim_store"] /\ d.store = q.store /\ d.split = q.split
  BY DEF Retail!StoreSplit
<1>9. Partners(r) = Partners(s) BY DEF Retail!StoreSplit
<1>10. \A d, e \in Partners(r) : d.city = e.city BY <1>7, <1>8
<1>11. /\ Cities(T, r) = Retail!Outer({d.city : d \in Partners(r)}, NULL)
       /\ Cities(T, s) = Retail!Outer({d.city : d \in Partners(r)}, NULL)
  BY <1>9, Zenon DEF Cities
<1> HIDE DEF Partners
<1> DEFINE cities == {d.city : d \in Partners(r)}
<1>12. \A c, d \in cities : c = d BY <1>10
<1> HIDE DEF cities
<1>13. \A c, d \in Retail!Outer(cities, NULL) : c = d BY <1>12 DEF Retail!Outer
<1> QED BY <1>11, <1>13 DEF cities

\* No group of the daily mart has NULL in its key, and the city adds nothing to it.
LEMMA KeysOfSaleFacts ==
  ASSUME TablesInv, pipeline = "fresh_retail", NEW T, Lawful(T), "gold.fct_daily_sales" \in DOMAIN T
  PROVE  /\ \A f \in T["gold.fct_daily_sales"] : f.store # NULL /\ f.date # NULL /\ f.split # NULL
         /\ \A f, g \in T["gold.fct_daily_sales"] :
              f.store = g.store /\ f.split = g.split => f.store_city = g.store_city
<1>1. ASSUME NEW f \in T["gold.fct_daily_sales"]
      PROVE  f.store # NULL /\ f.date # NULL /\ f.split # NULL
  <2>1. PICK s \in KeptSales : SaleFactOf(T, f, s) BY SaleFacts
  <2>2. f.store = s.store /\ f.date = s.date /\ f.split = s.split BY <2>1, SaleFactColumns
  <2>3. s \in Sales /\ Retail!Invalid(s) = FALSE BY SalesKept DEF ValidSales
  <2>4. s.store # NULL /\ s.date # NULL
    <3>1. ~BadSale(s) BY <2>3, SalesRows
    <3> QED BY <3>1 DEF BadSale
  <2>5. PICK r \in raw.train \cup raw.eval : s = SaleOf(r) BY <2>3 DEF Sales
  <2>6. s.split \in {"train", "eval"} BY <2>5, SaleColumnsKept DEF SplitOf
  <2>7. "train" # NULL /\ "eval" # NULL BY LiteralsAssumption
  <2> QED BY <2>2, <2>4, <2>6, <2>7
<1>2. ASSUME NEW f \in T["gold.fct_daily_sales"], NEW g \in T["gold.fct_daily_sales"],
             f.store = g.store, f.split = g.split
      PROVE  f.store_city = g.store_city
  <2>1. PICK r \in KeptSales : SaleFactOf(T, f, r) BY SaleFacts
  <2>2. PICK s \in KeptSales : SaleFactOf(T, g, s) BY SaleFacts
  <2>3. f.store = r.store /\ f.split = r.split /\ g.store = s.store /\ g.split = s.split
    BY <2>1, <2>2, SaleFactColumns
  <2>4. T["silver.daily_sales"] = KeptSales /\ T["gold.dim_store"] \in Retail!DimStore(T)
    BY RetailTables, SaleFacts
  <2>5. \A c \in Cities(T, r), d \in Cities(T, s) : c = d BY <1>2, <2>3, <2>4, OneCity
  <2> QED BY <2>1, <2>2, <2>5 DEF SaleFactOf
<1> QED BY <1>1, <1>2

\* The daily mart of the stores agrees with its facts.
LEMMA StoreDailyMart ==
  ASSUME TypeInv, TablesInv, pipeline = "fresh_retail", InStep("gold.fct_store_daily", "gold.fct_daily_sales")
  PROVE  StoreDailyAgrees(tables)
<1> DEFINE facts == tables["gold.fct_daily_sales"]
           mart == tables["gold.fct_store_daily"]
           key == [r \in facts |-> Retail!StoreDay(r)]
           coarse == [r \in facts |-> <<r.store, r.date, r.split>>]
           martKey == [row \in mart |-> <<row.store, row.date, row.split>>]
           Row(k) == [store |-> k[1], city |-> k[2], date |-> k[3], split |-> k[4],
                      amount |-> Retail!Amount(Group(key, k))]
           amounts == Amounts(coarse)
           measure == [row \in mart |-> row.amount]
<1>1. Published("gold.fct_daily_sales") /\ Published("gold.fct_store_daily")
  <2>1. Order = Retail!Order /\ DOMAIN Order = 1..11 BY FlowOf, RetailOrder
  <2>2. Order[9] = "gold.fct_daily_sales" /\ Order[10] = "gold.fct_store_daily"
    BY <2>1 DEF Retail!Order
  <2> QED BY <2>1, <2>2, PublishedInOrder DEF InStep
<1>2. PICK T :
    /\ Lawful(T) /\ "gold.fct_store_daily" \in DOMAIN T /\ "gold.fct_daily_sales" \in DOMAIN T
    /\ T["gold.fct_daily_sales"] = facts /\ T["gold.fct_store_daily"] = mart
  BY <1>1, OfOneRun DEF Published, InStep
<1>3. /\ \A f \in facts : f.store # NULL /\ f.date # NULL /\ f.split # NULL
      /\ \A f, g \in facts : f.store = g.store /\ f.split = g.split => f.store_city = g.store_city
  BY <1>2, KeysOfSaleFacts
<1>4. mart = {Row(k) : k \in Groups(key)}
  <2>1. T["gold.fct_store_daily"] = Retail!StoreDaily(T) BY <1>2, RetailTables
  <2>2. [r \in T["gold.fct_daily_sales"] |-> Retail!StoreDay(r)] = key BY <1>2
  <2> HIDE DEF key
  <2>3. Retail!StoreDaily(T) = {Row(k) : k \in Groups(key)} BY <2>2, RetailSql DEF Retail!StoreDaily
  <2> QED BY <1>2, <2>1, <2>3
<1>5. \A f \in facts : key[f] = <<f.store, f.store_city, f.date, f.split>>
                       /\ coarse[f] = <<f.store, f.date, f.split>>
  BY DEF Retail!StoreDay
<1>6. \A f, g \in facts : coarse[f] = coarse[g] <=> key[f] = key[g]
  <2> HIDE DEF key, coarse, facts
  <2> SUFFICES ASSUME NEW f \in facts, NEW g \in facts
               PROVE coarse[f] = coarse[g] <=> key[f] = key[g]
    OBVIOUS
  <2>1. coarse[f] = coarse[g] <=> f.store = g.store /\ f.date = g.date /\ f.split = g.split BY <1>5
  <2>2. key[f] = key[g] <=> /\ f.store = g.store /\ f.date = g.date /\ f.split = g.split
                            /\ f.store_city = g.store_city
    BY <1>5
  <2> QED BY <1>3, <2>1, <2>2
<1>7. DOMAIN key = facts /\ DOMAIN coarse = facts /\ DOMAIN martKey = mart OBVIOUS
<1>8. \A f \in facts : /\ Row(key[f]) \in mart /\ martKey[Row(key[f])] = coarse[f]
                       /\ measure[Row(key[f])] = Retail!Amount(Group(key, key[f]))
  <2> SUFFICES ASSUME NEW f \in facts
               PROVE  /\ Row(key[f]) \in mart /\ martKey[Row(key[f])] = coarse[f]
                      /\ measure[Row(key[f])] = Retail!Amount(Group(key, key[f]))
    OBVIOUS
  <2>1. Row(key[f]) \in mart BY <1>4, <1>7 DEF Groups
  <2>2. Row(key[f]).store = f.store /\ Row(key[f]).date = f.date /\ Row(key[f]).split = f.split
    <3>1. key[f] = <<f.store, f.store_city, f.date, f.split>> BY <1>5
    <3> HIDE DEF key
    <3> QED BY <3>1
  <2>3. Row(key[f]).amount = Retail!Amount(Group(key, key[f])) OBVIOUS
  <2> QED BY <1>5, <2>1, <2>2, <2>3
<1>9. \A row \in mart : \E f \in facts : row = Row(key[f]) BY <1>4, <1>7 DEF Groups
<1>10. /\ DOMAIN amounts = Groups(coarse)
       /\ \A k \in Groups(coarse) : amounts[k] = Retail!Amount(Group(coarse, k))
  BY RetailSql DEF Amounts, Retail!Amount
<1>11. \A f \in facts : ~HasNull(coarse[f])
  <2> HIDE DEF coarse, facts
  <2> QED BY <1>3, <1>5 DEF HasNull, IsNull
<1> HIDE DEF key, coarse, martKey, amounts, measure, Row, mart, facts
<1>12. \A f \in facts : Group(coarse, coarse[f]) = Group(key, key[f])
  BY <1>6, <1>7 DEF Group
<1>13. /\ \A k \in Groups(coarse) : \E f \in facts : k = coarse[f]
       /\ \A f \in facts : coarse[f] \in Groups(coarse)
  BY <1>7 DEF Groups
<1>14. Agree(amounts, martKey, measure)
  <2>1. \A k \in DOMAIN amounts : ~HasNull(k) BY <1>10, <1>11, <1>13
  <2>2. \A k \in DOMAIN amounts : \E row \in DOMAIN martKey : martKey[row] = k
    BY <1>7, <1>8, <1>10, <1>13
  <2>3. ASSUME NEW row \in DOMAIN martKey
        PROVE  martKey[row] \in DOMAIN amounts /\ measure[row] = amounts[martKey[row]]
    <3>1. PICK f \in facts : row = Row(key[f]) BY <1>7, <1>9
    <3>2. martKey[row] = coarse[f] /\ coarse[f] \in DOMAIN amounts BY <1>8, <1>10, <1>13, <3>1
    <3>3. amounts[coarse[f]] = Retail!Amount(Group(coarse, coarse[f])) BY <1>10, <1>13
    <3> QED BY <1>8, <1>12, <3>1, <3>2, <3>3
  <2> QED BY <2>1, <2>2, <2>3, MartAgrees
<1> QED BY <1>14 DEF StoreDailyAgrees, amounts, coarse, martKey, measure, facts, mart

\* Only the currency of a transaction may be NULL, and the names add nothing to the key.
LEMMA KeysOfTransactionFacts ==
  ASSUME TablesInv, pipeline = "transaction_cat", NEW T, Lawful(T), "gold.fct_transactions" \in DOMAIN T
  PROVE  /\ \A f \in T["gold.fct_transactions"] : f.code # NULL /\ f.country # NULL
         /\ \A f, g \in T["gold.fct_transactions"] :
              /\ f.code = g.code => f.category_name = g.category_name
              /\ f.country = g.country => f.country_name = g.country_name
<1>1. LandedTransactions(T) BY TransactionTables
<1>2. \A f \in T["gold.fct_transactions"] :
        /\ \E c \in raw.taxonomy : c.code = f.code /\ c.name = f.category_name
        /\ \E g \in raw.geo : g.country = f.country /\ g.name = f.country_name
  BY TransactionFacts DEF FactOf
<1>3. /\ \A c, d \in raw.taxonomy : c.code = d.code => c = d
      /\ \A g, h \in raw.geo : g.country = h.country => g = h
  BY <1>1, UniqueRaw
<1>4. (\A c \in raw.taxonomy : c.code # NULL) /\ (\A g \in raw.geo : g.country # NULL)
  BY TransactionsRaw
<1>5. \A f \in T["gold.fct_transactions"] : f.code # NULL /\ f.country # NULL BY <1>2, <1>4
<1>6. ASSUME NEW f \in T["gold.fct_transactions"], NEW g \in T["gold.fct_transactions"]
      PROVE  /\ f.code = g.code => f.category_name = g.category_name
             /\ f.country = g.country => f.country_name = g.country_name
  <2>1. PICK c \in raw.taxonomy : c.code = f.code /\ c.name = f.category_name BY <1>2
  <2>2. PICK d \in raw.taxonomy : d.code = g.code /\ d.name = g.category_name BY <1>2
  <2>3. PICK p \in raw.geo : p.country = f.country /\ p.name = f.country_name BY <1>2
  <2>4. PICK q \in raw.geo : q.country = g.country /\ q.name = g.country_name BY <1>2
  <2> QED BY <1>3, <2>1, <2>2, <2>3, <2>4
<1> QED BY <1>5, <1>6

\* The mart by category and country agrees with its facts, NULL being a currency too; the
\* verifier finds so unless a currency is NULL.
LEMMA CategoryCountryMart ==
  ASSUME TypeInv, TablesInv, pipeline = "transaction_cat",
         InStep("gold.fct_category_country", "gold.fct_transactions")
  PROVE  /\ CategoryCountryMatches
         /\ (\A x \in tables["gold.fct_transactions"] : ~IsNull(x.currency)) =>
              CategoryCountryAgrees(tables)
<1> DEFINE facts == tables["gold.fct_transactions"]
           mart == tables["gold.fct_category_country"]
           key == [x \in facts |-> Transactions!RollupKey(x)]
           coarse == [x \in facts |-> <<x.code, x.country, x.currency>>]
           martKey == [row \in mart |-> <<row.code, row.country, row.currency>>]
           Row(k) == [code |-> k[1], country |-> k[3], currency |-> k[5],
                      txn_count |-> Cardinality(Group(key, k))]
           counts == Count(coarse)
           measure == [row \in mart |-> row.txn_count]
<1>1. Published("gold.fct_transactions") /\ Published("gold.fct_category_country")
  <2>1. Order = Transactions!Order /\ DOMAIN Order = 1..9 BY FlowOf, TransactionsOrder
  <2>2. Order[8] = "gold.fct_transactions" /\ Order[9] = "gold.fct_category_country"
    BY <2>1 DEF Transactions!Order
  <2> QED BY <2>1, <2>2, PublishedInOrder DEF InStep
<1>2. PICK T :
    /\ Lawful(T) /\ "gold.fct_category_country" \in DOMAIN T /\ "gold.fct_transactions" \in DOMAIN T
    /\ T["gold.fct_transactions"] = facts /\ T["gold.fct_category_country"] = mart
  BY <1>1, OfOneRun DEF Published, InStep
<1>3. /\ \A f \in facts : f.code # NULL /\ f.country # NULL
      /\ \A f, g \in facts : /\ f.code = g.code => f.category_name = g.category_name
                             /\ f.country = g.country => f.country_name = g.country_name
  BY <1>2, KeysOfTransactionFacts
<1>4. mart = {Row(k) : k \in Groups(key)}
  <2>1. T["gold.fct_category_country"] = Transactions!CategoryCountry(T) BY <1>2, TransactionTables
  <2>2. [x \in T["gold.fct_transactions"] |-> Transactions!RollupKey(x)] = key BY <1>2
  <2> HIDE DEF key
  <2>3. Transactions!CategoryCountry(T) = {Row(k) : k \in Groups(key)}
    BY <2>2, TransactionsSql DEF Transactions!CategoryCountry
  <2> QED BY <1>2, <2>1, <2>3
<1>5. \A f \in facts :
    /\ key[f] = <<f.code, f.category_name, f.country, f.country_name, f.currency>>
    /\ coarse[f] = <<f.code, f.country, f.currency>>
  BY DEF Transactions!RollupKey
<1>6. \A f, g \in facts : coarse[f] = coarse[g] <=> key[f] = key[g]
  <2> HIDE DEF key, coarse, facts
  <2> SUFFICES ASSUME NEW f \in facts, NEW g \in facts
               PROVE coarse[f] = coarse[g] <=> key[f] = key[g]
    OBVIOUS
  <2>1. coarse[f] = coarse[g] <=> f.code = g.code /\ f.country = g.country /\ f.currency = g.currency
    BY <1>5
  <2>2. key[f] = key[g] <=>
          /\ f.code = g.code /\ f.country = g.country /\ f.currency = g.currency
          /\ f.category_name = g.category_name /\ f.country_name = g.country_name
    BY <1>5
  <2> QED BY <1>3, <2>1, <2>2
<1>7. DOMAIN key = facts /\ DOMAIN coarse = facts /\ DOMAIN martKey = mart OBVIOUS
<1>8. \A f \in facts : /\ Row(key[f]) \in mart /\ martKey[Row(key[f])] = coarse[f]
                       /\ measure[Row(key[f])] = Cardinality(Group(key, key[f]))
  <2> SUFFICES ASSUME NEW f \in facts
               PROVE  /\ Row(key[f]) \in mart /\ martKey[Row(key[f])] = coarse[f]
                      /\ measure[Row(key[f])] = Cardinality(Group(key, key[f]))
    OBVIOUS
  <2>1. Row(key[f]) \in mart BY <1>4, <1>7 DEF Groups
  <2>2. Row(key[f]).code = f.code /\ Row(key[f]).country = f.country /\ Row(key[f]).currency = f.currency
    <3>1. key[f] = <<f.code, f.category_name, f.country, f.country_name, f.currency>> BY <1>5
    <3> HIDE DEF key
    <3> QED BY <3>1
  <2>3. Row(key[f]).txn_count = Cardinality(Group(key, key[f])) OBVIOUS
  <2> QED BY <1>5, <2>1, <2>2, <2>3
<1>9. \A row \in mart : \E f \in facts : row = Row(key[f]) BY <1>4, <1>7 DEF Groups
<1>10. /\ DOMAIN counts = Groups(coarse)
       /\ \A k \in Groups(coarse) : counts[k] = Cardinality(Group(coarse, k))
  BY DEF Count
<1>11. (\A f \in facts : ~IsNull(f.currency)) => \A f \in facts : ~HasNull(coarse[f])
  <2> HIDE DEF coarse, facts
  <2> QED BY <1>3, <1>5 DEF HasNull, IsNull
<1> HIDE DEF key, coarse, martKey, counts, measure, Row, mart, facts
<1>12. \A f \in facts : Group(coarse, coarse[f]) = Group(key, key[f])
  BY <1>6, <1>7 DEF Group
<1>13. /\ \A k \in Groups(coarse) : \E f \in facts : k = coarse[f]
       /\ \A f \in facts : coarse[f] \in Groups(coarse)
  BY <1>7 DEF Groups
<1>14. \A k \in DOMAIN counts : \E row \in DOMAIN martKey : martKey[row] = k
  BY <1>7, <1>8, <1>10, <1>13
<1>15. ASSUME NEW row \in DOMAIN martKey
       PROVE  martKey[row] \in DOMAIN counts /\ measure[row] = counts[martKey[row]]
  <2>1. PICK f \in facts : row = Row(key[f]) BY <1>7, <1>9
  <2>2. martKey[row] = coarse[f] /\ coarse[f] \in DOMAIN counts BY <1>8, <1>10, <1>13, <2>1
  <2>3. counts[coarse[f]] = Cardinality(Group(coarse, coarse[f])) BY <1>10, <1>13
  <2> QED BY <1>8, <1>12, <2>1, <2>2, <2>3
<1>16. Matches(counts, martKey, measure) BY <1>14, <1>15, MartMatches
<1>17. (\A f \in facts : ~IsNull(f.currency)) => Agree(counts, martKey, measure)
  <2> SUFFICES ASSUME \A f \in facts : ~IsNull(f.currency) PROVE Agree(counts, martKey, measure)
    OBVIOUS
  <2>1. \A k \in DOMAIN counts : ~HasNull(k) BY <1>10, <1>11, <1>13
  <2> QED BY <1>14, <1>15, <2>1, MartAgrees
<1> QED BY <1>16, <1>17
        DEF CategoryCountryMatches, CategoryCountryAgrees, counts, coarse, martKey, measure, facts, mart

\* The daily mart of the categories agrees with its facts by the category of the product, and
\* for the verifier when every row has that category.
LEMMA CategoryDailyMart ==
  ASSUME TypeInv, TablesInv, pipeline = "fresh_retail", InStep("gold.fct_category_daily", "gold.fct_daily_sales")
  PROVE  /\ CategoryDailyMatches
         /\ (\A r \in tables["gold.fct_daily_sales"] :
               ~IsNull(r.category) /\ r.product_category = r.category) => CategoryDailyAgrees(tables)
<1> DEFINE facts == tables["gold.fct_daily_sales"]
           mart == tables["gold.fct_category_daily"]
           key == [r \in facts |-> Retail!CategoryDay(r)]
           ownKey == [r \in facts |-> <<r.category, r.date, r.split>>]
           martKey == [row \in mart |-> <<row.category, row.date, row.split>>]
           Row(k) == [category |-> k[1], date |-> k[2], split |-> k[3],
                      amount |-> Retail!Amount(Group(key, k))]
           amounts == Amounts(key)
           measure == [row \in mart |-> row.amount]
           SameCategory == \A r \in facts : ~IsNull(r.category) /\ r.product_category = r.category
<1>1. Published("gold.fct_daily_sales") /\ Published("gold.fct_category_daily")
  <2>1. Order = Retail!Order /\ DOMAIN Order = 1..11 BY FlowOf, RetailOrder
  <2>2. Order[9] = "gold.fct_daily_sales" /\ Order[11] = "gold.fct_category_daily"
    BY <2>1 DEF Retail!Order
  <2> QED BY <2>1, <2>2, PublishedInOrder DEF InStep
<1>2. PICK T :
    /\ Lawful(T) /\ "gold.fct_category_daily" \in DOMAIN T /\ "gold.fct_daily_sales" \in DOMAIN T
    /\ T["gold.fct_daily_sales"] = facts /\ T["gold.fct_category_daily"] = mart
  BY <1>1, OfOneRun DEF Published, InStep
<1>3. \A f \in facts : f.date # NULL /\ f.split # NULL BY <1>2, KeysOfSaleFacts
<1>4. mart = {Row(k) : k \in Groups(key)}
  <2>1. T["gold.fct_category_daily"] = Retail!CategoryDaily(T) BY <1>2, RetailTables
  <2>2. [r \in T["gold.fct_daily_sales"] |-> Retail!CategoryDay(r)] = key BY <1>2
  <2> HIDE DEF key
  <2>3. Retail!CategoryDaily(T) = {Row(k) : k \in Groups(key)}
    BY <2>2, RetailSql DEF Retail!CategoryDaily
  <2> QED BY <1>2, <2>1, <2>3
<1>5. \A r : Retail!CategoryDay(r) = <<Coalesce(r.product_category, r.category), r.date, r.split>>
  BY DEF Retail!CategoryDay, Retail!Coalesce, Coalesce, Retail!IsNull, IsNull
<1>6. key = [r \in facts |-> <<Coalesce(r.product_category, r.category), r.date, r.split>>]
  BY <1>5
<1>7. DOMAIN key = facts /\ DOMAIN martKey = mart OBVIOUS
<1>8. \A k \in Groups(key) : /\ Row(k) \in mart /\ martKey[Row(k)] = k
                             /\ measure[Row(k)] = Retail!Amount(Group(key, k))
  <2> SUFFICES ASSUME NEW k \in Groups(key)
               PROVE  /\ Row(k) \in mart /\ martKey[Row(k)] = k
                      /\ measure[Row(k)] = Retail!Amount(Group(key, k))
    OBVIOUS
  <2>1. Row(k) \in mart BY <1>4
  <2>2. PICK f \in facts : k = key[f] BY <1>7 DEF Groups
  <2>3. k = <<Coalesce(f.product_category, f.category), f.date, f.split>> BY <1>6, <2>2
  <2>4. martKey[Row(k)] = <<k[1], k[2], k[3]>> BY <2>1
  <2>5. <<k[1], k[2], k[3]>> = k BY <2>3
  <2>6. measure[Row(k)] = Retail!Amount(Group(key, k)) BY <2>1
  <2> QED BY <2>1, <2>4, <2>5, <2>6
<1>9. /\ DOMAIN amounts = Groups(key)
      /\ \A k \in Groups(key) : amounts[k] = Retail!Amount(Group(key, k))
  BY RetailSql DEF Amounts, Retail!Amount
<1>10. SameCategory => key = ownKey
  <2> SUFFICES ASSUME SameCategory PROVE key = ownKey OBVIOUS
  <2>1. \A r \in facts : Coalesce(r.product_category, r.category) = r.category BY DEF Coalesce
  <2> QED BY <1>6, <2>1
<1>11. SameCategory => \A f \in facts : ~HasNull(ownKey[f])
  <2> SUFFICES ASSUME SameCategory, NEW f \in facts PROVE ~HasNull(ownKey[f]) OBVIOUS
  <2>1. f.category # NULL /\ f.date # NULL /\ f.split # NULL BY <1>3 DEF IsNull
  <2>2. ownKey[f] = <<f.category, f.date, f.split>> OBVIOUS
  <2> HIDE DEF ownKey, facts
  <2> QED BY <2>1, <2>2 DEF HasNull, IsNull
<1> HIDE DEF key, ownKey, martKey, amounts, measure, Row, mart, facts
<1>12. \A k \in DOMAIN amounts : \E row \in DOMAIN martKey : martKey[row] = k BY <1>7, <1>8, <1>9
<1>13. \A row \in DOMAIN martKey : martKey[row] \in DOMAIN amounts /\ measure[row] = amounts[martKey[row]]
  BY <1>4, <1>7, <1>8, <1>9
<1>14. Matches(amounts, martKey, measure) BY <1>12, <1>13, MartMatches
<1>15. SameCategory => Agree(amounts, martKey, measure)
  <2> SUFFICES ASSUME SameCategory PROVE Agree(amounts, martKey, measure) OBVIOUS
  <2>1. \A k \in Groups(key) : ~HasNull(k) BY <1>7, <1>10, <1>11 DEF Groups
  <2> QED BY <1>9, <1>12, <1>13, <2>1, MartAgrees
<1>16. CategoryDailyMatches
  <2>1. amounts = Amounts([r \in facts |-> <<Coalesce(r.product_category, r.category), r.date, r.split>>])
    BY <1>6 DEF amounts
  <2> QED BY <1>14, <2>1 DEF CategoryDailyMatches, martKey, measure, facts, mart
<1>17. SameCategory => CategoryDailyAgrees(tables)
  <2> SUFFICES ASSUME SameCategory PROVE CategoryDailyAgrees(tables) OBVIOUS
  <2>1. amounts = Amounts([r \in facts |-> <<r.category, r.date, r.split>>])
    BY <1>10 DEF amounts, ownKey
  <2> QED BY <1>15, <2>1 DEF CategoryDailyAgrees, martKey, measure, facts, mart
<1> QED BY <1>16, <1>17 DEF facts

\* Every mart agrees with the facts it was built from, group by group; those by month and by
\* store as the verifier compares them, the other two so too when no fact has what it stumbles over.
THEOREM MartsAlwaysAgreeWithFacts == Spec => []MartsAgreeWithFacts
<1>1. TypeInv /\ TablesInv => MartsAgreeWithFacts
  <2> SUFFICES ASSUME TypeInv, TablesInv PROVE MartsAgreeWithFacts OBVIOUS
  <2>1. InStep("gold.fct_monthly_zone_revenue", "gold.fct_trips") => MonthlyAgrees(tables)
    BY MonthlyMart, OtherTables DEF InStep
  <2>2. InStep("gold.fct_store_daily", "gold.fct_daily_sales") => StoreDailyAgrees(tables)
    BY StoreDailyMart, OtherTables DEF InStep
  <2>3. InStep("gold.fct_category_country", "gold.fct_transactions") =>
          /\ CategoryCountryMatches
          /\ (\A x \in tables["gold.fct_transactions"] : ~IsNull(x.currency)) =>
               CategoryCountryAgrees(tables)
    BY CategoryCountryMart, OtherTables DEF InStep
  <2>4. InStep("gold.fct_category_daily", "gold.fct_daily_sales") =>
          /\ CategoryDailyMatches
          /\ (\A r \in tables["gold.fct_daily_sales"] :
                ~IsNull(r.category) /\ r.product_category = r.category) => CategoryDailyAgrees(tables)
    BY CategoryDailyMart, OtherTables DEF InStep
  <2> QED BY <2>1, <2>2, <2>3, <2>4 DEF MartsAgreeWithFacts
<1> QED BY <1>1, TablesAlways, PTL

(***************************************************************************)
(* Two undisturbed runs on the same files.                                 *)
(***************************************************************************)
\* When what is written to a table is determined by the tables before it, the runs
\* write the same.
LEMMA SameContents ==
  ASSUME pipeline \in Slices, NEW T, NEW U, Lawful(T), Lawful(U),
         \A i \in DOMAIN Order : Order[i] \in DOMAIN T =>
           \A x, y \in Contents(Order[i], T) : x = y,
         NEW t \in DOMAIN T, t \in DOMAIN U
  PROVE  T[t] = U[t]
<1>1. /\ Len(Order) \in Nat /\ DOMAIN Order = 1..Len(Order)
      /\ \A i, j \in 1..Len(Order) : Order[i] = Order[j] => i = j
  BY WellOrdered
<1>2. PICK n \in 1..Len(Order) : t = Order[n] BY <1>1 DEF Lawful
<1>3. \A i \in 1..n : Order[i] \in DOMAIN T /\ T[Order[i]] \in Contents(Order[i], T)
  BY <1>1, <1>2, LawfulPrefix
<1>4. \A i \in 1..n : Order[i] \in DOMAIN U /\ U[Order[i]] \in Contents(Order[i], U)
  BY <1>1, <1>2, LawfulPrefix
<1> DEFINE differ == {i \in 1..n : T[Order[i]] # U[Order[i]]}
           before == {p \in differ \X differ : p[1] < p[2]}
<1>5. CASE differ = {} BY <1>2, <1>5
<1>6. CASE differ # {}
  <2>1. IsFiniteSet(differ)
    <3>1. IsFiniteSet(1..n) BY FS_Interval
    <3> QED BY <3>1, FS_Subset
  <2>2. \A i, j \in differ : <<i, j>> \in before <=> i < j OBVIOUS
  <2>3. \A i \in 1..n : i \in differ <=> T[Order[i]] # U[Order[i]] OBVIOUS
  <2>4. differ \subseteq 1..n OBVIOUS
  <2> HIDE DEF differ, before
  <2>5. /\ \A i \in differ : <<i, i>> \notin before
        /\ \A i, j, k \in differ : <<i, j>> \in before /\ <<j, k>> \in before => <<i, k>> \in before
    BY <2>2, <2>4
  <2>6. PICK m \in differ : \A i \in differ : <<i, m>> \notin before
    BY <1>6, <2>1, <2>5, MinimalElement
  <2>7. \A j \in 1..(m - 1) : T[Order[j]] = U[Order[j]]
    <3> SUFFICES ASSUME NEW j \in 1..(m - 1) PROVE T[Order[j]] = U[Order[j]] OBVIOUS
    <3>1. j \in 1..n /\ j < m BY <2>4, <2>6
    <3> QED BY <2>2, <2>3, <2>6, <3>1
  <2>8. m \in 1..n /\ m \in DOMAIN Order BY <1>1, <2>4, <2>6
  <2>9. Contents(Order[m], T) = Contents(Order[m], U) BY <2>7, <2>8, ReadsEarlier
  <2> QED BY <1>3, <1>4, <2>3, <2>6, <2>8, <2>9
<1> QED BY <1>5, <1>6

\* Which of the latest rows the dimension of the stores keeps cannot be seen.
LEMMA OneDimStore ==
  ASSUME TablesInv, pipeline = "fresh_retail", NEW T, T["silver.daily_sales"] = KeptSales,
         NEW S \in Retail!DimStore(T), NEW D \in Retail!DimStore(T)
  PROVE  S \subseteq D
<1> DEFINE partition == [q \in KeptSales |-> Retail!StoreSplit(q)]
           rank == [q \in KeptSales |-> <<-q.date, q.city>>]
           Row(q) == [store |-> q.store, split |-> q.split, city |-> q.city]
<1>1. PICK one \in FirstPerPartition(partition, rank) : S = {Row(q) : q \in one}
  BY RetailSql DEF Retail!DimStore
<1>2. PICK other \in FirstPerPartition(partition, rank) : D = {Row(q) : q \in other}
  BY RetailSql DEF Retail!DimStore
<1>3. \A q \in KeptSales : q.date \in Int /\ q.city \in Number
  <2> SUFFICES ASSUME NEW q \in KeptSales PROVE q.date \in Int /\ q.city \in Number OBVIOUS
  <2>1. q \in Sales /\ Retail!Invalid(q) = FALSE BY SalesKept DEF ValidSales
  <2>2. ~BadSale(q) /\ q.date \in Number /\ q.city \in Number BY <2>1, SalesRows
  <2> QED BY <2>2 DEF BadSale, Number
<1>4. \A q \in KeptSales : IsRank(rank[q], 2) BY <1>3 DEF IsRank, Number
<1>5. /\ DOMAIN partition = KeptSales
      /\ \A q \in KeptSales : partition[q] = <<q.store, q.split>> /\ rank[q][2] = q.city
  BY DEF Retail!StoreSplit
<1>6. IsFiniteSet(KeptSales) BY SalesKept
<1> HIDE DEF partition, rank
<1>7. /\ one \subseteq KeptSales
      /\ \A k \in one, s \in KeptSales : partition[s] = partition[k] => ~Precedes(rank[s], rank[k])
  BY <1>4, <1>5, <1>6, KeptRows
<1>8. /\ other \subseteq KeptSales
      /\ \A k \in other, s \in KeptSales :
           partition[s] = partition[k] => ~Precedes(rank[s], rank[k])
      /\ \A s \in KeptSales : \E k \in other : partition[k] = partition[s]
  BY <1>4, <1>5, <1>6, KeptRows
<1>9. \A j \in one : \E k \in other : k.store = j.store /\ k.split = j.split /\ k.city = j.city
  <2> SUFFICES ASSUME NEW j \in one
               PROVE  \E k \in other : k.store = j.store /\ k.split = j.split /\ k.city = j.city
    OBVIOUS
  <2>1. PICK k \in other : partition[k] = partition[j] BY <1>7, <1>8
  <2>2. j \in KeptSales /\ k \in KeptSales BY <1>7, <1>8
  <2>3. ~Precedes(rank[j], rank[k]) /\ ~Precedes(rank[k], rank[j]) BY <1>7, <1>8, <2>1, <2>2
  <2>4. \A i \in 1..2 : rank[j][i] = rank[k][i] BY <1>4, <2>2, <2>3, RankTies
  <2>5. k.city = j.city BY <1>5, <2>2, <2>4
  <2> QED BY <1>5, <2>1, <2>2, <2>5
<1>10. \A j \in one : \E k \in other : Row(j) = Row(k) BY <1>9
<1> HIDE DEF Row
<1> QED BY <1>1, <1>2, <1>10

\* Nor which the dimension of the products keeps.
LEMMA OneDimProduct ==
  ASSUME TablesInv, pipeline = "fresh_retail", NEW T, T["silver.daily_sales"] = KeptSales,
         NEW S \in Retail!DimProduct(T), NEW D \in Retail!DimProduct(T)
  PROVE  S \subseteq D
<1> DEFINE partition == [q \in KeptSales |-> Retail!ProductSplit(q)]
           rank == [q \in KeptSales |-> Retail!LatestDay(q)]
           Row(q) == [product |-> q.product, split |-> q.split, category |-> q.category]
<1>1. PICK one \in FirstPerPartition(partition, rank) : S = {Row(q) : q \in one}
  BY RetailSql DEF Retail!DimProduct
<1>2. PICK other \in FirstPerPartition(partition, rank) : D = {Row(q) : q \in other}
  BY RetailSql DEF Retail!DimProduct
<1>3. \A q \in KeptSales : q.date \in Int /\ q.category \in Number
  <2> SUFFICES ASSUME NEW q \in KeptSales PROVE q.date \in Int /\ q.category \in Number OBVIOUS
  <2>1. q \in Sales /\ Retail!Invalid(q) = FALSE BY SalesKept DEF ValidSales
  <2>2. ~BadSale(q) /\ q.date \in Number /\ q.category \in Number BY <2>1, SalesRows
  <2> QED BY <2>2 DEF BadSale, Number
<1>4. \A q \in KeptSales : IsRank(rank[q], 2) BY <1>3 DEF IsRank, Number, Retail!LatestDay
<1>5. /\ DOMAIN partition = KeptSales
      /\ \A q \in KeptSales : partition[q] = <<q.product, q.split>> /\ rank[q][2] = q.category
  BY DEF Retail!ProductSplit, Retail!LatestDay
<1>6. IsFiniteSet(KeptSales) BY SalesKept
<1> HIDE DEF partition, rank
<1>7. /\ one \subseteq KeptSales
      /\ \A k \in one, s \in KeptSales : partition[s] = partition[k] => ~Precedes(rank[s], rank[k])
  BY <1>4, <1>5, <1>6, KeptRows
<1>8. /\ other \subseteq KeptSales
      /\ \A k \in other, s \in KeptSales :
           partition[s] = partition[k] => ~Precedes(rank[s], rank[k])
      /\ \A s \in KeptSales : \E k \in other : partition[k] = partition[s]
  BY <1>4, <1>5, <1>6, KeptRows
<1>9. \A j \in one : \E k \in other :
    k.product = j.product /\ k.split = j.split /\ k.category = j.category
  <2> SUFFICES ASSUME NEW j \in one
               PROVE  \E k \in other :
                   k.product = j.product /\ k.split = j.split /\ k.category = j.category
    OBVIOUS
  <2>1. PICK k \in other : partition[k] = partition[j] BY <1>7, <1>8
  <2>2. j \in KeptSales /\ k \in KeptSales BY <1>7, <1>8
  <2>3. ~Precedes(rank[j], rank[k]) /\ ~Precedes(rank[k], rank[j]) BY <1>7, <1>8, <2>1, <2>2
  <2>4. \A i \in 1..2 : rank[j][i] = rank[k][i] BY <1>4, <2>2, <2>3, RankTies
  <2>5. k.category = j.category BY <1>5, <2>2, <2>4
  <2> QED BY <1>5, <2>1, <2>2, <2>5
<1>10. \A j \in one : \E k \in other : Row(j) = Row(k) BY <1>9
<1> HIDE DEF Row
<1> QED BY <1>1, <1>2, <1>10

\* Two undisturbed runs of the retail slice publish the same tables.
LEMMA SameSales ==
  ASSUME TablesInv, pipeline = "fresh_retail", NEW T, NEW U, Lawful(T), Lawful(U),
         NEW t \in DOMAIN T, t \in DOMAIN U
  PROVE  T[t] = U[t]
<1>1. pipeline \in Slices /\ Order = Retail!Order /\ DOMAIN Order = 1..11
  BY FlowOf, RetailOrder DEF Slices
<1>2. \A i \in 1..11 : Order[i] \in DOMAIN T => \A j \in 1..i : Order[j] \in DOMAIN T
  BY <1>1, LawfulPrefix
<1>3. ASSUME NEW i \in 1..11, Order[i] \in DOMAIN T,
             NEW x \in Contents(Order[i], T), NEW y \in Contents(Order[i], T)
      PROVE  x = y
  <2>1. /\ x \in Retail!Contents(Order[i], raw, T) /\ y \in Retail!Contents(Order[i], raw, T)
    BY <1>3, FlowOf
  <2>2. Order[i] = << "bronze.daily_sales_train", "bronze.daily_sales_eval",
                      "silver.rejected_sales", "silver.daily_sales", "silver.dim_store", "silver.dim_product",
                      "gold.dim_store", "gold.dim_product", "gold.fct_daily_sales",
                      "gold.fct_store_daily", "gold.fct_category_daily" >>[i]
    BY <1>1 DEF Retail!Order
  <2>3. CASE i = 5
    <3>1. Order[4] \in DOMAIN T /\ Order[4] = "silver.daily_sales"
      BY <1>1, <1>2, <1>3, <2>3 DEF Retail!Order
    <3>2. T["silver.daily_sales"] = KeptSales BY <3>1, RetailTables, SalesOfLanding
    <3>3. Order[i] = "silver.dim_store" BY <2>2, <2>3
    <3>4. x \in Retail!DimStore(T) /\ y \in Retail!DimStore(T) BY <2>1, <3>3 DEF Retail!Contents
    <3>5. x \subseteq y /\ y \subseteq x BY <3>2, <3>4, OneDimStore
    <3> QED BY <3>5
  <2>4. CASE i = 6
    <3>1. Order[4] \in DOMAIN T /\ Order[4] = "silver.daily_sales"
      BY <1>1, <1>2, <1>3, <2>4 DEF Retail!Order
    <3>2. T["silver.daily_sales"] = KeptSales BY <3>1, RetailTables, SalesOfLanding
    <3>3. Order[i] = "silver.dim_product" BY <2>2, <2>4
    <3>4. x \in Retail!DimProduct(T) /\ y \in Retail!DimProduct(T) BY <2>1, <3>3 DEF Retail!Contents
    <3>5. x \subseteq y /\ y \subseteq x BY <3>2, <3>4, OneDimProduct
    <3> QED BY <3>5
  <2>5. CASE i = 1 BY <2>1, <2>2, <2>5 DEF Retail!Contents
  <2>6. CASE i = 2 BY <2>1, <2>2, <2>6 DEF Retail!Contents
  <2>7. CASE i = 3 BY <2>1, <2>2, <2>7 DEF Retail!Contents
  <2>8. CASE i = 4 BY <2>1, <2>2, <2>8 DEF Retail!Contents
  <2>9. CASE i = 7 BY <2>1, <2>2, <2>9 DEF Retail!Contents
  <2>10. CASE i = 8 BY <2>1, <2>2, <2>10 DEF Retail!Contents
  <2>11. CASE i = 9 BY <2>1, <2>2, <2>11 DEF Retail!Contents
  <2>12. CASE i = 10 BY <2>1, <2>2, <2>12 DEF Retail!Contents
  <2>13. CASE i = 11 BY <2>1, <2>2, <2>13 DEF Retail!Contents
  <2>14. i = 1 \/ i = 2 \/ i = 3 \/ i = 4 \/ i = 5 \/ i = 6 \/ i = 7 \/ i = 8 \/ i = 9 \/ i = 10 \/ i = 11
    OBVIOUS
  <2> QED BY <2>3, <2>4, <2>5, <2>6, <2>7, <2>8, <2>9, <2>10, <2>11, <2>12, <2>13, <2>14
<1> QED BY <1>1, <1>3, SameContents

\* No alias is claimed by two categories.
OneCategoryPerAlias ==
  "transaction_cat" \in DOMAIN Raws =>
    \A files \in Raws["transaction_cat"] : \A c, d \in files.taxonomy :
      c.aliases \cap d.aliases # {} => c = d

\* The lookup then has one code for an alias, whichever row is kept.
LEMMA OneLookup ==
  ASSUME OneCategoryPerAlias, TablesInv, pipeline = "transaction_cat", NEW T, LandedTransactions(T),
         NEW K \in Transactions!AliasLookups(T), NEW L \in Transactions!AliasLookups(T)
  PROVE  K \subseteq L
<1> SUFFICES ASSUME NEW a \in K PROVE a \in L OBVIOUS
<1>1. PICK c \in raw.taxonomy : a.code = c.code /\ a.alias \in c.aliases BY AliasRows
<1>2. PICK b \in L : b.alias = a.alias BY <1>1, AliasRows
<1>3. PICK d \in raw.taxonomy : b.code = d.code /\ b.alias \in d.aliases BY AliasRows
<1>4. c = d BY <1>1, <1>2, <1>3 DEF OneCategoryPerAlias, TablesInv
<1>5. a = [code |-> a.code, alias |-> a.alias] /\ b = [code |-> b.code, alias |-> b.alias]
  BY AliasRows
<1>6. a.code = b.code /\ a.alias = b.alias BY <1>1, <1>2, <1>3, <1>4
<1> QED BY <1>2, <1>5, <1>6

\* Two undisturbed runs of the transactions then publish the same tables.
LEMMA SameTransactions ==
  ASSUME OneCategoryPerAlias, TablesInv, pipeline = "transaction_cat", NEW T, NEW U, Lawful(T), Lawful(U),
         NEW t \in DOMAIN T, t \in DOMAIN U
  PROVE  T[t] = U[t]
<1>1. pipeline \in Slices /\ Order = Transactions!Order /\ DOMAIN Order = 1..9
  BY FlowOf, TransactionsOrder DEF Slices
<1>3. ASSUME NEW i \in 1..9, Order[i] \in DOMAIN T,
             NEW x \in Contents(Order[i], T), NEW y \in Contents(Order[i], T)
      PROVE  x = y
  <2>1. /\ x \in Transactions!Contents(Order[i], raw, T) /\ y \in Transactions!Contents(Order[i], raw, T)
    BY <1>3, FlowOf
  <2>2. Order[i] = << "bronze.transactions", "bronze.category_taxonomy", "bronze.country_currency",
                      "silver.rejected_transactions", "silver.transactions",
                      "gold.dim_category", "gold.dim_geo", "gold.fct_transactions",
                      "gold.fct_category_country" >>[i]
    BY <1>1 DEF Transactions!Order
  <2>3. LandedTransactions(T) => \A K, L \in Transactions!AliasLookups(T) : K = L
    <3> SUFFICES ASSUME LandedTransactions(T),
                        NEW K \in Transactions!AliasLookups(T), NEW L \in Transactions!AliasLookups(T)
                 PROVE  K = L
      OBVIOUS
    <3>1. K \subseteq L /\ L \subseteq K BY OneLookup
    <3> QED BY <3>1
  <2>4. CASE i = 4
    <3>1. Order[i] = "silver.rejected_transactions" BY <2>2, <2>4
    <3>2. LandedTransactions(T) BY <1>3, <3>1, TransactionTables
    <3>3. x \in {Transactions!Rejected(T, lookup) : lookup \in Transactions!AliasLookups(T)}
          /\ y \in {Transactions!Rejected(T, lookup) : lookup \in Transactions!AliasLookups(T)}
      BY <2>1, <3>1 DEF Transactions!Contents
    <3> QED BY <2>3, <3>2, <3>3
  <2>5. CASE i = 5
    <3>1. Order[i] = "silver.transactions" BY <2>2, <2>5
    <3>2. LandedTransactions(T) BY <1>3, <3>1, TransactionTables
    <3>3. x \in {Transactions!Silver(T, lookup) : lookup \in Transactions!AliasLookups(T)}
          /\ y \in {Transactions!Silver(T, lookup) : lookup \in Transactions!AliasLookups(T)}
      BY <2>1, <3>1 DEF Transactions!Contents
    <3> QED BY <2>3, <3>2, <3>3
  <2>6. CASE i = 1 BY <2>1, <2>2, <2>6 DEF Transactions!Contents
  <2>7. CASE i = 2 BY <2>1, <2>2, <2>7 DEF Transactions!Contents
  <2>8. CASE i = 3 BY <2>1, <2>2, <2>8 DEF Transactions!Contents
  <2>9. CASE i = 6 BY <2>1, <2>2, <2>9 DEF Transactions!Contents
  <2>10. CASE i = 7 BY <2>1, <2>2, <2>10 DEF Transactions!Contents
  <2>11. CASE i = 8 BY <2>1, <2>2, <2>11 DEF Transactions!Contents
  <2>12. CASE i = 9 BY <2>1, <2>2, <2>12 DEF Transactions!Contents
  <2>13. i = 1 \/ i = 2 \/ i = 3 \/ i = 4 \/ i = 5 \/ i = 6 \/ i = 7 \/ i = 8 \/ i = 9 OBVIOUS
  <2> QED BY <2>4, <2>5, <2>6, <2>7, <2>8, <2>9, <2>10, <2>11, <2>12, <2>13
<1> QED BY <1>1, <1>3, SameContents

\* Two runs of the taxi slice may keep different copies of a trip, and as many trips.
LEMMA SameTrips ==
  ASSUME TablesInv, pipeline = "taxi", NEW T, NEW U, Lawful(T), Lawful(U),
         "silver.trips" \in DOMAIN T, "silver.trips" \in DOMAIN U
  PROVE  /\ IsFiniteSet(T["silver.trips"])
         /\ \A x \in T["silver.trips"] : \E y \in U["silver.trips"] :
              Taxi!IDENTITY(y) = Taxi!IDENTITY(x)
         /\ Cardinality(T["silver.trips"]) = Cardinality(U["silver.trips"])
<1>1. /\ T["bronze.yellow_tripdata"] = raw.yellow /\ T["bronze.green_tripdata"] = raw.green
      /\ U["bronze.yellow_tripdata"] = raw.yellow /\ U["bronze.green_tripdata"] = raw.green
      /\ T["silver.trips"] \in Taxi!Deduplicated(T) /\ U["silver.trips"] \in Taxi!Deduplicated(U)
  BY TaxiTables
<1>2. Taxi!Valid(T) = Taxi!Valid(U) BY <1>1 DEF Taxi!Valid, Taxi!Trips
<1>3. /\ T["silver.trips"] \subseteq Taxi!Valid(T) /\ IsFiniteSet(T["silver.trips"])
      /\ \A x, y \in T["silver.trips"] : Taxi!IDENTITY(x) = Taxi!IDENTITY(y) => x = y
      /\ \A x \in Taxi!Valid(T) : \E y \in T["silver.trips"] : Taxi!IDENTITY(y) = Taxi!IDENTITY(x)
  BY <1>1, TripsKept
<1>4. /\ U["silver.trips"] \subseteq Taxi!Valid(T)
      /\ \A x, y \in U["silver.trips"] : Taxi!IDENTITY(x) = Taxi!IDENTITY(y) => x = y
      /\ \A x \in Taxi!Valid(T) : \E y \in U["silver.trips"] : Taxi!IDENTITY(y) = Taxi!IDENTITY(x)
  BY <1>1, <1>2, TripsKept
<1> DEFINE f == [x \in T["silver.trips"] |-> Taxi!IDENTITY(x)]
           g == [x \in U["silver.trips"] |-> Taxi!IDENTITY(x)]
<1>5. /\ DOMAIN f = T["silver.trips"] /\ \A x \in T["silver.trips"] : f[x] = Taxi!IDENTITY(x)
      /\ DOMAIN g = U["silver.trips"] /\ \A x \in U["silver.trips"] : g[x] = Taxi!IDENTITY(x)
  OBVIOUS
<1>6. /\ \A x \in T["silver.trips"] : \E y \in U["silver.trips"] :
           Taxi!IDENTITY(y) = Taxi!IDENTITY(x)
      /\ \A y \in U["silver.trips"] : \E x \in T["silver.trips"] :
           Taxi!IDENTITY(x) = Taxi!IDENTITY(y)
  BY <1>3, <1>4
<1> HIDE DEF f, g
<1>7. Cardinality(DOMAIN f) = Cardinality(DOMAIN g)
  <2>1. /\ IsFiniteSet(DOMAIN f)
        /\ \A x, y \in DOMAIN f : f[x] = f[y] => x = y
        /\ \A x, y \in DOMAIN g : g[x] = g[y] => x = y
        /\ \A x \in DOMAIN f : \E y \in DOMAIN g : g[y] = f[x]
        /\ \A y \in DOMAIN g : \E x \in DOMAIN f : f[x] = g[y]
    BY <1>3, <1>4, <1>5, <1>6
  <2> QED BY <2>1, SameKeys
<1> QED BY <1>3, <1>5, <1>6, <1>7

\* The key of a row of the monthly mart.
MonthlyKey(row) == <<row.zone, row.month, row.service>>

\* The rows of the monthly mart, by their keys.
LEMMA MonthlyRows ==
  ASSUME TablesInv, pipeline = "taxi", NEW T, Lawful(T), "gold.fct_monthly_zone_revenue" \in DOMAIN T
  PROVE  /\ "gold.fct_trips" \in DOMAIN T
         /\ \A row \in T["gold.fct_monthly_zone_revenue"] :
              \E f \in T["gold.fct_trips"] : MonthlyKey(row) = Taxi!ZoneMonth(f)
         /\ \A f \in T["gold.fct_trips"] :
              \E row \in T["gold.fct_monthly_zone_revenue"] : MonthlyKey(row) = Taxi!ZoneMonth(f)
         /\ \A x, y \in T["gold.fct_monthly_zone_revenue"] : MonthlyKey(x) = MonthlyKey(y) => x = y
<1> DEFINE facts == T["gold.fct_trips"]
           mart == T["gold.fct_monthly_zone_revenue"]
           key == [trip \in facts |-> Taxi!ZoneMonth(trip)]
           Row(k) == [zone |-> k[1], month |-> k[2], service |-> k[3],
                      amount |-> Taxi!Amount(Group(key, k)), trips |-> Cardinality(Group(key, k))]
<1>1. "gold.fct_trips" \in DOMAIN T /\ mart = Taxi!Monthly(T) BY TaxiTables
<1>2. mart = {Row(k) : k \in Groups(key)}
  <2>1. [trip \in T["gold.fct_trips"] |-> Taxi!ZoneMonth(trip)] = key OBVIOUS
  <2> HIDE DEF key
  <2> QED BY <1>1, <2>1, TaxiSql DEF Taxi!Monthly
<1>3. Groups(key) = {Taxi!ZoneMonth(f) : f \in facts} BY DEF Groups
<1>4. \A f : LET k == Taxi!ZoneMonth(f) IN k = <<k[1], k[2], k[3]>> BY DEF Taxi!ZoneMonth
<1>5. \A k \in Groups(key) : MonthlyKey(Row(k)) = k
  <2> HIDE DEF key
  <2>1. \A k : MonthlyKey(Row(k)) = <<k[1], k[2], k[3]>> BY DEF MonthlyKey
  <2> HIDE DEF Row
  <2> QED BY <1>3, <1>4, <2>1
<1> HIDE DEF key, Row, mart, facts
<1>6. \A row \in mart : \E f \in facts : row = Row(Taxi!ZoneMonth(f)) BY <1>2, <1>3
<1>7. \A f \in facts : Row(Taxi!ZoneMonth(f)) \in mart BY <1>2, <1>3
<1>8. \A f \in facts : MonthlyKey(Row(Taxi!ZoneMonth(f))) = Taxi!ZoneMonth(f) BY <1>3, <1>5
<1>9. /\ \A row \in mart : \E f \in facts : MonthlyKey(row) = Taxi!ZoneMonth(f)
      /\ \A f \in facts : \E row \in mart : MonthlyKey(row) = Taxi!ZoneMonth(f)
      /\ \A x, y \in mart : MonthlyKey(x) = MonthlyKey(y) => x = y
  BY <1>6, <1>7, <1>8
<1> QED BY <1>1, <1>9 DEF mart, facts

\* Two runs have the same months for each zone and service.
LEMMA SameMonths ==
  ASSUME TablesInv, pipeline = "taxi", NEW T, NEW U, Lawful(T), Lawful(U),
         "gold.fct_monthly_zone_revenue" \in DOMAIN T, "gold.fct_monthly_zone_revenue" \in DOMAIN U
  PROVE  /\ IsFiniteSet(T["gold.fct_monthly_zone_revenue"])
         /\ \A x \in T["gold.fct_monthly_zone_revenue"] :
              \E y \in U["gold.fct_monthly_zone_revenue"] : MonthlyKey(y) = MonthlyKey(x)
<1>1. /\ "gold.fct_trips" \in DOMAIN T /\ "gold.fct_trips" \in DOMAIN U
      /\ "silver.trips" \in DOMAIN T /\ "silver.trips" \in DOMAIN U
  BY TaxiTables
<1>2. ASSUME NEW V, Lawful(V), "gold.fct_trips" \in DOMAIN V,
             NEW f \in V["gold.fct_trips"], NEW trip \in V["silver.trips"], TripFactOf(f, trip)
      PROVE  Taxi!ZoneMonth(f) = <<ZoneOf(trip.location), Month(trip.pickup), trip.service>>
  <2>1. f.pickup = trip.pickup /\ f.service = trip.service BY <1>2, TripFacts, TripFactColumns
  <2>2. f.zone = ZoneOf(trip.location) BY <1>2 DEF TripFactOf
  <2> QED BY <2>1, <2>2 DEF Taxi!ZoneMonth, Taxi!Month, Month
<1>3. ASSUME NEW x \in T["gold.fct_monthly_zone_revenue"]
      PROVE  \E trip \in T["silver.trips"] :
               MonthlyKey(x) = <<ZoneOf(trip.location), Month(trip.pickup), trip.service>>
  <2>1. PICK f \in T["gold.fct_trips"] : MonthlyKey(x) = Taxi!ZoneMonth(f) BY MonthlyRows
  <2>2. PICK trip \in T["silver.trips"] : TripFactOf(f, trip) BY <1>1, TripFacts
  <2> QED BY <1>1, <1>2, <2>1, <2>2
<1>4. IsFiniteSet(T["gold.fct_monthly_zone_revenue"])
  <2> DEFINE rowOf == [trip \in T["silver.trips"] |->
                         CHOOSE x \in T["gold.fct_monthly_zone_revenue"] :
                           MonthlyKey(x) = <<ZoneOf(trip.location), Month(trip.pickup), trip.service>>]
  <2>1. \A x \in T["gold.fct_monthly_zone_revenue"] : \E trip \in T["silver.trips"] :
      x = rowOf[trip]
    <3> SUFFICES ASSUME NEW x \in T["gold.fct_monthly_zone_revenue"]
                 PROVE  \E trip \in T["silver.trips"] : x = rowOf[trip]
      OBVIOUS
    <3>1. PICK trip \in T["silver.trips"] :
            MonthlyKey(x) = <<ZoneOf(trip.location), Month(trip.pickup), trip.service>>
      BY <1>3
    <3>2. /\ rowOf[trip] \in T["gold.fct_monthly_zone_revenue"]
          /\ MonthlyKey(rowOf[trip]) = <<ZoneOf(trip.location), Month(trip.pickup), trip.service>>
      BY <3>1
    <3> HIDE DEF rowOf
    <3> QED BY <3>1, <3>2, MonthlyRows
  <2>2. IsFiniteSet(T["silver.trips"]) BY <1>1, SameTrips
  <2> HIDE DEF rowOf
  <2> QED BY <2>1, <2>2, ImageIsFinite
<1>5. ASSUME NEW x \in T["gold.fct_monthly_zone_revenue"]
      PROVE  \E y \in U["gold.fct_monthly_zone_revenue"] : MonthlyKey(y) = MonthlyKey(x)
  <2>1. PICK trip \in T["silver.trips"] :
          MonthlyKey(x) = <<ZoneOf(trip.location), Month(trip.pickup), trip.service>>
    BY <1>3
  <2>2. PICK other \in U["silver.trips"] : Taxi!IDENTITY(other) = Taxi!IDENTITY(trip)
    BY <1>1, SameTrips
  <2>3. /\ other.location = trip.location /\ other.pickup = trip.pickup /\ other.service = trip.service
    BY <2>2 DEF Taxi!IDENTITY
  <2>4. PICK f \in U["gold.fct_trips"] : TripFactOf(f, other) BY <1>1, TripFacts
  <2>5. Taxi!ZoneMonth(f) = <<ZoneOf(other.location), Month(other.pickup), other.service>>
    BY <1>1, <1>2, <2>4
  <2>6. PICK y \in U["gold.fct_monthly_zone_revenue"] : MonthlyKey(y) = Taxi!ZoneMonth(f)
    BY MonthlyRows
  <2> QED BY <2>1, <2>3, <2>5, <2>6
<1> QED BY <1>4, <1>5

\* Each table of the taxi slice has as many rows in one undisturbed run as in another.
LEMMA SameTaxiCounts ==
  ASSUME TablesInv, pipeline = "taxi", NEW T, NEW U, Lawful(T), Lawful(U),
         NEW t \in DOMAIN T, t \in DOMAIN U
  PROVE  Cardinality(T[t]) = Cardinality(U[t])
<1>1. pipeline \in Slices /\ Order = Taxi!Order /\ DOMAIN Order = 1..8
  BY FlowOf, TaxiOrder DEF Slices
<1>2. PICK i \in 1..8 : t = Order[i] BY <1>1, WellOrdered DEF Lawful
<1>3. /\ T[t] \in Taxi!Contents(t, raw, T) /\ U[t] \in Taxi!Contents(t, raw, U)
  BY <1>1, FlowOf DEF Lawful
<1>4. t = << "bronze.yellow_tripdata", "bronze.green_tripdata", "bronze.taxi_zone_lookup",
             "silver.rejected_trips", "silver.trips",
             "gold.dim_zones", "gold.fct_trips", "gold.fct_monthly_zone_revenue" >>[i]
  BY <1>1, <1>2 DEF Taxi!Order
<1>5. \A j \in 1..i : Order[j] \in DOMAIN T /\ Order[j] \in DOMAIN U BY <1>1, <1>2, LawfulPrefix
<1>6. CASE i = 1 BY <1>4, <1>6, TaxiTables
<1>7. CASE i = 2 BY <1>4, <1>7, TaxiTables
<1>8. CASE i = 3 BY <1>3, <1>4, <1>8 DEF Taxi!Contents
<1>9. CASE i = 4
  <2>1. t = "silver.rejected_trips" BY <1>4, <1>9
  <2>2. /\ T["bronze.yellow_tripdata"] = raw.yellow /\ T["bronze.green_tripdata"] = raw.green
        /\ U["bronze.yellow_tripdata"] = raw.yellow /\ U["bronze.green_tripdata"] = raw.green
        /\ T[t] = Taxi!Rejected(T) /\ U[t] = Taxi!Rejected(U)
    BY <2>1, TaxiTables
  <2>3. Taxi!Trips(T) = Taxi!Trips(U) BY <2>2 DEF Taxi!Trips
  <2> QED BY <2>2, <2>3 DEF Taxi!Rejected
<1>10. CASE i = 5 BY <1>4, <1>10, SameTrips
<1>11. CASE i = 6
  <2>1. t = "gold.dim_zones" BY <1>4, <1>11
  <2>2. /\ T[t] = T["bronze.taxi_zone_lookup"] /\ U[t] = U["bronze.taxi_zone_lookup"]
    BY <1>3, <2>1 DEF Taxi!Contents
  <2>3. Order[3] = "bronze.taxi_zone_lookup" BY <1>1 DEF Taxi!Order
  <2>4. "bronze.taxi_zone_lookup" \in DOMAIN T /\ "bronze.taxi_zone_lookup" \in DOMAIN U
    BY <1>5, <1>11, <2>3
  <2>5. /\ T["bronze.taxi_zone_lookup"] \in Taxi!Contents("bronze.taxi_zone_lookup", raw, T)
        /\ U["bronze.taxi_zone_lookup"] \in Taxi!Contents("bronze.taxi_zone_lookup", raw, U)
    BY <1>1, <2>4, FlowOf DEF Lawful
  <2>6. T["bronze.taxi_zone_lookup"] = raw.zones /\ U["bronze.taxi_zone_lookup"] = raw.zones
    BY <2>5 DEF Taxi!Contents
  <2> QED BY <2>2, <2>6
<1>12. CASE i = 7
  <2>1. t = "gold.fct_trips" BY <1>4, <1>12
  <2>2. /\ "silver.trips" \in DOMAIN T /\ "silver.trips" \in DOMAIN U
        /\ Cardinality(T[t]) = Cardinality(T["silver.trips"])
        /\ Cardinality(U[t]) = Cardinality(U["silver.trips"])
    BY <2>1, TaxiTables
  <2> QED BY <2>2, SameTrips
<1>13. CASE i = 8
  <2>1. t = "gold.fct_monthly_zone_revenue" BY <1>4, <1>13
  <2> DEFINE f == [row \in T[t] |-> MonthlyKey(row)]
             g == [row \in U[t] |-> MonthlyKey(row)]
  <2>2. /\ DOMAIN f = T[t] /\ \A x \in T[t] : f[x] = MonthlyKey(x)
        /\ DOMAIN g = U[t] /\ \A x \in U[t] : g[x] = MonthlyKey(x)
    OBVIOUS
  <2> HIDE DEF f, g
  <2>3. /\ IsFiniteSet(T[t])
        /\ \A x \in T[t] : \E y \in U[t] : MonthlyKey(y) = MonthlyKey(x)
        /\ \A x \in U[t] : \E y \in T[t] : MonthlyKey(y) = MonthlyKey(x)
    BY <2>1, SameMonths
  <2>4. /\ \A x, y \in T[t] : MonthlyKey(x) = MonthlyKey(y) => x = y
        /\ \A x, y \in U[t] : MonthlyKey(x) = MonthlyKey(y) => x = y
    BY <2>1, MonthlyRows
  <2>5. /\ IsFiniteSet(DOMAIN f)
        /\ \A x, y \in DOMAIN f : f[x] = f[y] => x = y
        /\ \A x, y \in DOMAIN g : g[x] = g[y] => x = y
        /\ \A x \in DOMAIN f : \E y \in DOMAIN g : g[y] = f[x]
        /\ \A y \in DOMAIN g : \E x \in DOMAIN f : f[x] = g[y]
    BY <2>2, <2>3, <2>4
  <2>6. Cardinality(DOMAIN f) = Cardinality(DOMAIN g) BY <2>5, SameKeys
  <2> QED BY <2>2, <2>6
<1>14. i = 1 \/ i = 2 \/ i = 3 \/ i = 4 \/ i = 5 \/ i = 6 \/ i = 7 \/ i = 8 OBVIOUS
<1> QED BY <1>6, <1>7, <1>8, <1>9, <1>10, <1>11, <1>12, <1>13, <1>14

\* Each two runs on the same files publish tables of the same size.
LEMMA SameCounts ==
  ASSUME OneCategoryPerAlias, TypeInv, TablesInv, NEW T, NEW U, Lawful(T), Lawful(U),
         NEW t \in DOMAIN T, t \in DOMAIN U
  PROVE  Cardinality(T[t]) = Cardinality(U[t])
<1>1. CASE pipeline = "taxi" BY <1>1, SameTaxiCounts
<1>2. CASE pipeline = "transaction_cat"
  <2>1. T[t] = U[t] BY <1>2, SameTransactions
  <2> QED BY <2>1
<1>3. CASE pipeline = "fresh_retail"
  <2>1. T[t] = U[t] BY <1>3, SameSales
  <2> QED BY <2>1
<1> QED BY <1>1, <1>2, <1>3 DEF TypeInv, Slices

\* No step changes the files of a lineage, or drops a table.
LEMMA TablesStay ==
  ASSUME TypeInv, [Next]_vars
  PROVE  UNCHANGED <<pipeline, raw>> /\ DOMAIN tables \subseteq DOMAIN tables'
<1>0. \A t, rows : Overwrite(t, rows) => DOMAIN tables \subseteq DOMAIN tables'
  BY DEF Overwrite, Overwritten
<1>1. CASE StartRun BY <1>1 DEF StartRun, lineage
<1>2. ASSUME NEW t \in Names, BuildTable(t)
      PROVE UNCHANGED <<pipeline, raw>> /\ DOMAIN tables \subseteq DOMAIN tables'
  BY <1>0, <1>2 DEF BuildTable
<1>3. ASSUME NEW t \in Names, AuditFails(t) PROVE UNCHANGED <<pipeline, raw, tables>>
  BY <1>3 DEF AuditFails, lineage
<1>4. ASSUME NEW t \in Names, QueryRaises(t) PROVE UNCHANGED <<pipeline, raw, tables>>
  BY <1>4 DEF QueryRaises, lineage
<1>5. ASSUME NEW t \in Names, PublishRaises(t)
      PROVE  UNCHANGED <<pipeline, raw>> /\ DOMAIN tables \subseteq DOMAIN tables'
  BY <1>0, <1>5 DEF PublishRaises, lineage
<1>6. CASE Succeed BY <1>6 DEF Succeed, lineage
<1>7. CASE Except BY <1>7 DEF Except, lineage
<1>8. CASE Kill BY <1>8 DEF Kill, lineage
<1>9. CASE UNCHANGED vars BY <1>9 DEF vars, lineage
<1> QED BY <1>1, <1>2, <1>3, <1>4, <1>5, <1>6, <1>7, <1>8, <1>9 DEF Next

\* A later run changes the size of no table, whichever duplicates it keeps, provided
\* that no alias is claimed by two categories.
THEOREM RerunsAlwaysKeepCounts == OneCategoryPerAlias => (Spec => RerunKeepsCounts)
<1> SUFFICES ASSUME OneCategoryPerAlias PROVE Spec => RerunKeepsCounts OBVIOUS
<1>1. TypeInv /\ TablesInv /\ TypeInv' /\ TablesInv' /\ [Next]_vars
        => \A t \in DOMAIN tables : Cardinality(tables'[t]) = Cardinality(tables[t])
  <2> SUFFICES ASSUME TypeInv, TablesInv, TypeInv', TablesInv', [Next]_vars, NEW t \in DOMAIN tables
               PROVE  Cardinality(tables'[t]) = Cardinality(tables[t])
    OBVIOUS
  <2>1. UNCHANGED <<pipeline, raw>> /\ t \in DOMAIN tables' BY TablesStay
  <2>2. PICK T : Lawful(T) /\ t \in DOMAIN T /\ T[t] = tables[t] BY OfOneRun
  <2>3. PICK U : Lawful(U)' /\ t \in DOMAIN U /\ U[t] = tables'[t]
    <3>1. by'[t] \in 1..run' BY <2>1 DEF TypeInv, TypeOK
    <3> QED BY <2>1, <3>1 DEF TablesInv
  <2>4. Lawful(U) BY <2>1, <2>3, LawfulStays
  <2> QED BY <2>2, <2>3, <2>4, SameCounts
<1> QED BY <1>1, TablesAlways, PTL DEF Spec, RerunKeepsCounts
=============================================================================
