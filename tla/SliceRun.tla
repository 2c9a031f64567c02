-------------------------------- MODULE SliceRun --------------------------------
(***************************************************************************)
(* The hand-built slices of evals/: a run builds the tables of its         *)
(* pipeline in a fixed order, each from the tables built before it,        *)
(* audits and publishes each, and records its verdict.  A run that raises  *)
(* leaves the tables built so far; the next run starts over on the same    *)
(* raw files.  Runs of one job do not overlap.                             *)
(*                                                                         *)
(* What a table is made of is defined by the flow of the pipeline, one of  *)
(* TaxiFlow, TransactionFlow and RetailFlow.  Publishing a table is one    *)
(* step here: TablePublish shows that staging makes it one.                *)
(***************************************************************************)
EXTENDS VerifyGenerated

CONSTANTS
  Raws,     \* for each pipeline, the raw files it may find
  MaxRuns,  \* bound on the runs of the pipeline
  Faults    \* what may go wrong, see AllFaults

AllFaults == {
  "spark",  \* a statement of Spark raises
  "rows",   \* append_metadata_rows raises, before or after its commit
  "kill" }  \* the notebook's process dies

ASSUME FaultsAssumption == Faults \subseteq AllFaults
ASSUME MaxRunsAssumption == MaxRuns \in Nat

VARIABLES
  pipeline, raw,
  tables,       \* contents of the published tables
  by,           \* the run that published each
  from,         \* the runs that had published what it was built from
  run, pc,      \* number of the current run, and where it is
  next,         \* index of the table it builds
  active,       \* active_table: index of the table an error is put down to
  layerRun, pipelineRun, runErrors  \* rows of de_assist

lineage == <<tables, by, from>>
records == <<layerRun, pipelineRun, runErrors>>
vars    == <<pipeline, raw, lineage, run, pc, next, active, records>>

Taxi         == INSTANCE TaxiFlow
Transactions == INSTANCE TransactionFlow
Retail       == INSTANCE RetailFlow

\* What the slices write themselves is not NULL.
ASSUME LiteralsAssumption == NULL \notin {"Yellow", "Green", "Unknown Zone", "train", "eval"}

ASSUME RawsAssumption ==
  /\ DOMAIN Raws \subseteq {"taxi", "transaction_cat", "fresh_retail"}
  /\ "taxi" \in DOMAIN Raws => \A files \in Raws["taxi"] : Taxi!IsRaw(files)
  /\ "transaction_cat" \in DOMAIN Raws => \A files \in Raws["transaction_cat"] : Transactions!IsRaw(files)
  /\ "fresh_retail" \in DOMAIN Raws => \A files \in Raws["fresh_retail"] : Retail!IsRaw(files)

Order ==
  CASE pipeline = "taxi" -> Taxi!Order
    [] pipeline = "transaction_cat" -> Transactions!Order
    [] pipeline = "fresh_retail" -> Retail!Order

Reads(t) ==
  CASE pipeline = "taxi" -> Taxi!Reads(t)
    [] pipeline = "transaction_cat" -> Transactions!Reads(t)
    [] pipeline = "fresh_retail" -> Retail!Reads(t)

\* What may be written to a table, and what its audit accepts, when the other
\* tables are T.
Contents(t, T) ==
  CASE pipeline = "taxi" -> Taxi!Contents(t, raw, T)
    [] pipeline = "transaction_cat" -> Transactions!Contents(t, raw, T)
    [] pipeline = "fresh_retail" -> Retail!Contents(t, raw, T)

Passes(t, T, rows) ==
  CASE pipeline = "taxi" -> Taxi!Passes(t, T, rows)
    [] pipeline = "transaction_cat" -> Transactions!Passes(t, T, rows)
    [] pipeline = "fresh_retail" -> Retail!Passes(t, T, rows)

Published(t) == t \in DOMAIN tables

Init ==
  /\ pipeline \in DOMAIN Raws /\ raw \in Raws[pipeline]
  /\ tables = <<>> /\ by = <<>> /\ from = <<>>
  /\ run = 0 /\ pc = "over" /\ next = 1 /\ active = 0
  /\ layerRun = {} /\ pipelineRun = {} /\ runErrors = {}

StartRun ==
  /\ pc = "over" /\ run < MaxRuns
  /\ run' = run + 1 /\ pc' = "building" /\ next' = 1 /\ active' = 0
  /\ UNCHANGED <<pipeline, raw, lineage, records>>

(***************************************************************************)
(* One table: write_table and audit_table, or publish_table.               *)
(***************************************************************************)
KeptIfThere(f, t, value) ==  \* deviation: what is there stays
  [u \in DOMAIN f \cup {t} |-> IF u \in DOMAIN f THEN f[u] ELSE value]
Overwritten(f, t, value) == [u \in DOMAIN f \cup {t} |-> IF u = t THEN value ELSE f[u]]

Overwrite(t, rows) ==
  /\ tables' = Overwritten(tables, t, rows)
  /\ by' = Overwritten(by, t, run)
  /\ from' = Overwritten(from, t, {by[u] : u \in Reads(t)})

LayerRow(t, status) == [run |-> run, table |-> t, status |-> status]

\* The table is there to be built, and everything it reads.
Building(t) == pc = "building" /\ next <= Len(Order) /\ t = Order[next]
Ready(t) == Building(t) /\ \A u \in Reads(t) : Published(u)

BuildTable(t) ==
  /\ Ready(t)
  /\ \E rows \in Contents(t, tables) : Passes(t, tables, rows) /\ Overwrite(t, rows)
  /\ layerRun' = layerRun \cup {LayerRow(t, "SUCCESS")}
  /\ next' = next + 1 /\ active' = next
  /\ UNCHANGED <<pipeline, raw, run, pc, pipelineRun, runErrors>>

\* A table that fails its audit is recorded and not published.
AuditFails(t) ==
  /\ Ready(t)
  /\ \E rows \in Contents(t, tables) : ~Passes(t, tables, rows)
  /\ layerRun' \in {layerRun \cup {LayerRow(t, "FAILED")}} \cup {l \in {layerRun} : "rows" \in Faults}
  /\ pc' = "except" /\ active' = next
  /\ UNCHANGED <<pipeline, raw, lineage, run, next, pipelineRun, runErrors>>

\* Spark evaluates a query, or resolves a table, before the name of the table it
\* is for is noted: the error is put down to the table before.
QueryRaises(t) ==
  /\ Building(t) /\ ("spark" \in Faults \/ ~Ready(t))
  /\ pc' = "except"
  /\ UNCHANGED <<pipeline, raw, lineage, run, next, active, records>>

LateNote == next + 1  \* deviation: the name of the next table is noted too early
Noted == next

\* Building raises later on: before the publication, or after it.  The rows of a
\* table stand on the side of the publication that rowsFirst of TablePublish says.
PublishRaises(t) ==
  /\ Ready(t) /\ {"spark", "rows"} \cap Faults # {}
  /\ \E published, recorded \in BOOLEAN :
       /\ IF pipeline = "taxi" THEN published => recorded ELSE recorded => published
       /\ \E rows \in Contents(t, tables) :
            /\ published \/ recorded => Passes(t, tables, rows)
            /\ IF published THEN Overwrite(t, rows) ELSE UNCHANGED lineage
       /\ layerRun' = layerRun \cup {l \in {LayerRow(t, "SUCCESS")} : recorded}
  /\ pc' = "except" /\ active' = Noted
  /\ UNCHANGED <<pipeline, raw, run, next, pipelineRun, runErrors>>

(***************************************************************************)
(* The verdict.                                                            *)
(***************************************************************************)
Verdict(status) == pipelineRun \cup {[run |-> run, status |-> status]}

\* write_run_log, which follows, catches what it meets.
Succeed ==
  /\ pc = "building" /\ next > Len(Order)
  /\ \/ pc' = "over" /\ pipelineRun' = Verdict("SUCCESS")
     \/ "rows" \in Faults /\ pc' = "except" /\ pipelineRun' \in {pipelineRun, Verdict("SUCCESS")}
  /\ UNCHANGED <<pipeline, raw, lineage, run, next, active, layerRun, runErrors>>

\* The except clause: the row, then the error; an exception of theirs is printed
\* and forgotten.  The run's own exception is raised again in any case.
Except ==
  /\ pc = "except" /\ pc' = "over"
  /\ LET error == runErrors \cup {[run |-> run, table |-> active]}
     IN  \/ pipelineRun' = Verdict("FAILED") /\ runErrors' = error
         \/ /\ "rows" \in Faults
            /\ pipelineRun' \in {pipelineRun, Verdict("FAILED")} /\ UNCHANGED runErrors
  /\ UNCHANGED <<pipeline, raw, lineage, run, next, active, layerRun>>

Kill ==
  /\ "kill" \in Faults /\ pc # "over" /\ pc' = "over"
  /\ UNCHANGED <<pipeline, raw, lineage, run, next, active, records>>

Names == {Order[i] : i \in DOMAIN Order}

Next ==
  \/ StartRun
  \/ \E t \in Names : BuildTable(t) \/ AuditFails(t) \/ QueryRaises(t) \/ PublishRaises(t)
  \/ Succeed \/ Except \/ Kill

Spec == Init /\ [][Next]_vars
-----------------------------------------------------------------------------
(***************************************************************************)
(* Properties of the runs.                                                 *)
(***************************************************************************)
TypeOK ==
  /\ DOMAIN tables \subseteq Names /\ DOMAIN by = DOMAIN tables /\ DOMAIN from = DOMAIN tables
  /\ \A t \in DOMAIN by : by[t] \in 1..run /\ from[t] \subseteq 1..run
  /\ run \in 0..MaxRuns /\ pc \in {"over", "building", "except"}
  /\ next \in 1..(Len(Order) + 1) /\ active \in 0..Len(Order)
  /\ layerRun \subseteq [run : 1..run, table : Names, status : {"SUCCESS", "FAILED"}]
  /\ pipelineRun \subseteq [run : 1..run, status : {"SUCCESS", "FAILED"}]
  /\ runErrors \subseteq [run : 1..run, table : 0..Len(Order)]

\* No table is ever built from what another run left behind, although every run
\* finds the tables of the runs before it.
BuiltFromOwnRun == \A t \in DOMAIN from : from[t] \subseteq {by[t]}

\* A SUCCESS row of pipeline_run: the run has published every table, and recorded
\* each of them.
SuccessIsComplete ==
  \A r \in 1..run : [run |-> r, status |-> "SUCCESS"] \in pipelineRun =>
    \A t \in Names :
      /\ Published(t) /\ by[t] >= r
      /\ [run |-> r, table |-> t, status |-> "SUCCESS"] \in layerRun

\* An error row tells how far the run came: what is before the table it names has
\* been published by the run, what is after it has not.
ErrorRowSplitsTheTables ==
  \A e \in runErrors : \A i \in DOMAIN Order :
    LET isNew == Published(Order[i]) /\ by[Order[i]] >= e.run
    IN  /\ i < e.table => isNew
        /\ i > e.table /\ e.run = run => ~isNew

\* A second overwrite does not change the counts of the tables, whichever rows the
\* removal of duplicates keeps this time.
RerunKeepsCounts ==
  [][\A t \in DOMAIN tables : Cardinality(tables'[t]) = Cardinality(tables[t])]_vars

(***************************************************************************)
(* Properties of the tables.                                               *)
(***************************************************************************)
Rows(t) == IF Published(t) THEN tables[t] ELSE {}
Ids(t) == {r.id : r \in Rows(t)}
AllPublished(ts) == \A t \in ts : Published(t)

\* Every bronze row is in the silver table or in the dead letter, and in one of them
\* only; for a taxi trip, it or the trip it is a duplicate of.
RowsAreAccountedFor ==
  CASE pipeline = "taxi" ->
         AllPublished({"silver.rejected_trips", "silver.trips"}) =>
           \A t \in {"bronze.yellow_tripdata", "bronze.green_tripdata"} : \A r \in tables[t] :
             LET kept == {s \in tables["silver.trips"] : s.vendor = r.vendor /\ s.pickup = r.pickup
                            /\ s.location = r.location
                            /\ s.service = IF t = "bronze.green_tripdata" THEN "Green" ELSE "Yellow"}
             IN  IF r.id \in Ids("silver.rejected_trips") THEN kept = {} ELSE Cardinality(kept) = 1
    [] pipeline = "transaction_cat" ->
         AllPublished({"silver.rejected_transactions", "silver.transactions"}) =>
           /\ Ids("silver.rejected_transactions") \cap Ids("silver.transactions") = {}
           /\ Ids("silver.rejected_transactions") \cup Ids("silver.transactions") = Ids("bronze.transactions")
    [] pipeline = "fresh_retail" ->
         AllPublished({"silver.rejected_sales", "silver.daily_sales"}) =>
           /\ Ids("silver.rejected_sales") \cap Ids("silver.daily_sales") = {}
           /\ Ids("silver.rejected_sales") \cup Ids("silver.daily_sales")
                = Ids("bronze.daily_sales_train") \cup Ids("bronze.daily_sales_eval")

\* What the briefs call invalid.
BadTrip(r) == NULL \in {r.vendor, r.pickup}
Blank(r) == IsNull(r.description)
Listed(r) == \E c \in raw.taxonomy : r.category \in c.aliases
PairInLookup(r) == \E g \in raw.geo : g.country = r.country /\ g.currency = r.currency
BadTransaction(r) == Blank(r) \/ ~Listed(r) \/ ~PairInLookup(r)
BadSale(r) == NULL \in {r.store, r.product, r.date, r.amount} \/ r.amount < 0

\* Nothing good is thrown away: a rejected row is invalid, or a copy of a row that
\* is kept, at the same grain, in the silver table.
RejectionIsDeserved ==
  /\ \A r \in Rows("silver.rejected_trips") : BadTrip(r)
  /\ pipeline = "transaction_cat" /\ Published("silver.transactions") =>
       \A r \in Rows("silver.rejected_transactions") :
         BadTransaction(r) \/ \E s \in tables["silver.transactions"] :
           s.id # r.id /\ Transactions!Payload(s) = Transactions!Payload(r)
  /\ pipeline = "fresh_retail" /\ Published("silver.daily_sales") =>
       \A r \in Rows("silver.rejected_sales") :
         BadSale(r) \/ \E s \in tables["silver.daily_sales"] :
           s.id # r.id /\ ~BadSale(s) /\ Retail!IDENTITY(s) = Retail!IDENTITY(r)

\* The briefs: what they call invalid goes to the dead letter and not to silver.
InvalidRowsAreRejected ==
  /\ \A r \in Rows("silver.trips") : ~BadTrip(r)
  /\ \A r \in Rows("silver.transactions") : ~BadTransaction(r)
  /\ \A r \in Rows("silver.daily_sales") : ~BadSale(r)

\* A fact is a silver row, none lost and none twice, with what the dimensions say of
\* it: the names of its zones, its category and country, and the attributes its
\* store and product have on their latest day of the same split.
LatestIn(rows, r) == {s \in rows : s.split = r.split /\ \A q \in rows : q.split = r.split => q.date <= s.date}
ZoneOf(location) ==
  IF \E z \in raw.zones : z.location = location /\ ~IsNull(location) /\ ~IsNull(z.zone)
    THEN (CHOOSE z \in raw.zones : z.location = location).zone ELSE "Unknown Zone"

InStep(t, u) == Published(t) /\ by[t] = by[u]

FactsExtendSilver ==
  LET Extends(fact, silver) ==
        InStep(fact, silver) =>
          Ids(fact) = Ids(silver) /\ Cardinality(tables[fact]) = Cardinality(tables[silver])
      sales == Rows("silver.daily_sales")
  IN  /\ Extends("gold.fct_trips", "silver.trips")
      /\ Extends("gold.fct_transactions", "silver.transactions")
      /\ Extends("gold.fct_daily_sales", "silver.daily_sales")
      /\ \A f \in Rows("gold.fct_trips") :
           f.zone = ZoneOf(f.location) /\ f.dropoff_zone = ZoneOf(f.destination)
      /\ \A f \in Rows("gold.fct_transactions") :
           /\ \E c \in raw.taxonomy : c.code = f.code /\ c.name = f.category_name /\ f.category \in c.aliases
           /\ \E g \in raw.geo : g.country = f.country /\ g.name = f.country_name
      /\ \A f \in Rows("gold.fct_daily_sales") :
           /\ f.store_city \in {s.city : s \in LatestIn({q \in sales : q.store = f.store}, f)}
           /\ f.product_category \in {s.category : s \in LatestIn({q \in sales : q.product = f.product}, f)}

\* A group of NULLs is a group.
CategoryCountryMatches ==
  LET facts == tables["gold.fct_transactions"]
      mart == tables["gold.fct_category_country"]
  IN  Matches(Count([x \in facts |-> <<x.code, x.country, x.currency>>]),
              [row \in mart |-> <<row.code, row.country, row.currency>>],
              [row \in mart |-> row.txn_count])

\* By the category of the product's latest day, or else that of the row.
CategoryDailyMatches ==
  LET facts == tables["gold.fct_daily_sales"]
      mart == tables["gold.fct_category_daily"]
  IN  Matches(Amounts([r \in facts |-> <<Coalesce(r.product_category, r.category), r.date, r.split>>]),
              [row \in mart |-> <<row.category, row.date, row.split>>],
              [row \in mart |-> row.amount])

\* Every mart agrees with the facts it was built from, group by group.  The marts by month and
\* by store do so as the verifier compares them, whatever the rows.  The verifier matches
\* no NULL and knows a sale by the category of its own row: it is only satisfied with the mart
\* by country if every fact has a currency, and with the mart by category if every fact has
\* a category and its product the same.  Otherwise that of the country still agrees with NULL as
\* a group, and that of the category by the category the facts give the product.
MartsAgreeWithFacts ==
  /\ InStep("gold.fct_monthly_zone_revenue", "gold.fct_trips") => MonthlyAgrees(tables)
  /\ InStep("gold.fct_store_daily", "gold.fct_daily_sales") => StoreDailyAgrees(tables)
  /\ InStep("gold.fct_category_country", "gold.fct_transactions") =>
       /\ CategoryCountryMatches
       /\ (\A x \in tables["gold.fct_transactions"] : ~IsNull(x.currency)) =>
            CategoryCountryAgrees(tables)
  /\ InStep("gold.fct_category_daily", "gold.fct_daily_sales") =>
       /\ CategoryDailyMatches
       /\ (\A r \in tables["gold.fct_daily_sales"] :
             ~IsNull(r.category) /\ r.product_category = r.category) => CategoryDailyAgrees(tables)

\* The verifier takes the hand-built category mart for a right one.
VerifierAcceptsTheSlice ==
  InStep("gold.fct_category_daily", "gold.fct_daily_sales") => CategoryDailyAgrees(tables)
=============================================================================
