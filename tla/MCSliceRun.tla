------------------------------ MODULE MCSliceRun ------------------------------
(***************************************************************************)
(* SliceRun over the raw files that can be put together from a few rows    *)
(* that get into each other's way: copies, ties, unknown names, NULLs and  *)
(* attributes that change.  Amounts are powers of two, so that a sum tells *)
(* which rows are in it.                                                   *)
(***************************************************************************)
EXTENDS SliceRun

Trip(id, vendor, pickup, location, destination, dropoff) ==
  [id |-> id, vendor |-> vendor, pickup |-> pickup, location |-> location,
   destination |-> destination, dropoff |-> dropoff, amount |-> 2^id]

YellowTrips == {Trip(1, 1, 1, 1, 2, 5), Trip(2, 1, 1, 1, 9, 5), Trip(3, 1, 1, 1, 2, NULL),
                Trip(4, NULL, 1, 1, 1, 5), Trip(5, 1, 40, NULL, 1, 50)}
GreenTrips == {Trip(6, 1, NULL, 2, 2, 5), Trip(7, 1, 1, 1, 3, 5)}

Zone(id, location, zone) == [id |-> id, location |-> location, zone |-> zone]
ZoneLookup == {Zone(1, 1, "Newark"), Zone(2, 2, "Queens"), Zone(3, 3, NULL)}

TaxiRaws ==
  {[yellow |-> y, green |-> g, zones |-> z] :
     y \in {s \in SUBSET YellowTrips : Cardinality(s) <= 2}, g \in SUBSET GreenTrips,
     z \in {ZoneLookup, ZoneLookup \cup {Zone(4, 1, "Astoria")}}}

Transaction(id, description, category, country, currency) ==
  [id |-> id, description |-> description, category |-> category, country |-> country,
   currency |-> currency]

TransactionRows ==
  {Transaction(1, "rice", "food", "uk", "GBP"), Transaction(2, "rice", "food", "uk", "GBP"),
   Transaction(3, "rice", "groceries", "usa", "USD"), Transaction(4, NULL, "food", "uk", "GBP"),
   Transaction(5, "fare", "unlisted", "uk", "GBP"), Transaction(6, "fare", "travel", "uk", "USD"),
   Transaction(7, "fare", "travel", "uk", NULL), Transaction(8, "fare", "travel", NULL, "GBP")}

Taxonomy == {[code |-> "food", name |-> "Food", aliases |-> {"food", "groceries"}],
             [code |-> "travel", name |-> "Travel", aliases |-> {"travel"}]}
GeoPairs == {[country |-> "uk", name |-> "UK", currency |-> "GBP"],
             [country |-> "usa", name |-> "USA", currency |-> "USD"]}

TransactionRaws ==
  {[transactions |-> x, taxonomy |-> Taxonomy, geo |-> GeoPairs] :
     x \in {s \in SUBSET TransactionRows :
              Cardinality(s) <= (IF {1, 2} \subseteq {r.id : r \in s} THEN 3 ELSE 2)}}

Sale(id, store, product, date, city, category, amount) ==
  [id |-> id, store |-> store, product |-> product, date |-> date, city |-> city,
   category |-> category, amount |-> amount]

TrainSales ==
  {Sale(1, 1, 1, 1, 1, 1, 2), Sale(2, 1, 1, 1, 1, 1, 4), Sale(3, 1, 1, 2, 2, 2, 8),
   Sale(4, 1, 2, 2, 2, 1, 16), Sale(5, 1, 1, 1, 1, 1, -1), Sale(6, NULL, 1, 1, 1, 1, NULL)}
EvalSale == Sale(7, 1, 1, 1, 1, 1, 32)
EvalFiles == {{}, {EvalSale, [EvalSale EXCEPT !.id = 8]}}

RetailRaws ==
  {[train |-> t, eval |-> e] : t \in {s \in SUBSET TrainSales : Cardinality(s) <= 3}, e \in EvalFiles}

AllRaws == [p \in {"taxi", "transaction_cat", "fresh_retail"} |->
              CASE p = "taxi" -> TaxiRaws
                [] p = "transaction_cat" -> TransactionRaws
                [] p = "fresh_retail" -> RetailRaws]

OnlyTransactions == [p \in {"transaction_cat"} |-> TransactionRaws]
OnlyRetail == [p \in {"fresh_retail"} |-> RetailRaws]
=============================================================================
