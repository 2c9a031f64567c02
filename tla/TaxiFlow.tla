-------------------------------- MODULE TaxiFlow --------------------------------
(***************************************************************************)
(* What evals/taxi/slice.py writes to each table, from what the tables it  *)
(* reads hold (T).  Columns that no check and no join looks at are left    *)
(* out.                                                                    *)
(***************************************************************************)
EXTENDS Sql

TripColumns == {"id", "vendor", "pickup", "location", "destination", "dropoff", "amount"}

\* The files of the landing, with the columns as typed() casts them.
IsRaw(raw) ==
  LET trips == raw.yellow \cup raw.green
  IN  /\ IsFiniteSet(trips) /\ raw.yellow \cap raw.green = {}
      /\ \A r \in trips : HasColumns(r, TripColumns) /\ r.pickup \in Number /\ r.dropoff \in Number
      /\ \A r, s \in trips : r.id = s.id => r = s
      /\ IsFiniteSet(raw.zones)

Order == <<"bronze.yellow_tripdata", "bronze.green_tripdata", "bronze.taxi_zone_lookup",
           "silver.rejected_trips", "silver.trips",
           "gold.dim_zones", "gold.fct_trips", "gold.fct_monthly_zone_revenue">>

Reads(t) ==
  CASE t \in {"silver.rejected_trips", "silver.trips"} ->
         {"bronze.yellow_tripdata", "bronze.green_tripdata"}
    [] t = "gold.dim_zones" -> {"bronze.taxi_zone_lookup"}
    [] t = "gold.fct_trips" -> {"silver.trips", "gold.dim_zones"}
    [] t = "gold.fct_monthly_zone_revenue" -> {"gold.fct_trips"}
    [] OTHER -> {}

YellowTrips(T) ==  \* deviation: the union is forgotten
  {WithColumns(trip, [service |-> "Yellow"]) : trip \in T["bronze.yellow_tripdata"]}

\* standardize: the trips of both services, each with its own
Trips(T) ==
  {WithColumns(trip, [service |-> "Yellow"]) : trip \in T["bronze.yellow_tripdata"]}
    \cup {WithColumns(trip, [service |-> "Green"]) : trip \in T["bronze.green_tripdata"]}

Invalid(trip) == IsNull(trip.vendor) \/ IsNull(trip.pickup)

Reasons(trip) ==
  When(IsNull(trip.vendor), "null_vendor_id") \cup When(IsNull(trip.pickup), "null_pickup_datetime")

Rejected(T) == {WithColumns(trip, [reasons |-> Reasons(trip)]) : trip \in {t \in Trips(T) : Invalid(t)}}
Valid(T) == {trip \in Trips(T) : ~Invalid(trip)}

\* trip_id is a digest of these columns
IDENTITY(trip) == <<trip.vendor, trip.pickup, trip.location, trip.service>>

\* The rows of one partition come from one file: the drop-off alone orders them.
Deduplicated(T) ==
  FirstPerPartition([trip \in Valid(T) |-> IDENTITY(trip)], [trip \in Valid(T) |-> <<trip.dropoff>>])

\* The zone a trip is given: the names of the zones at its location, or else
\* "Unknown Zone".
ZonesAt(T, location) ==
  Outer({Coalesce(z.zone, "Unknown Zone") :
           z \in {y \in T["gold.dim_zones"] : Equal(location, y.location) = TRUE}},
        "Unknown Zone")

Facts(T) ==
  UNION {{WithColumns(trip, [zone |-> pickup, dropoff_zone |-> dropoff]) :
            pickup \in ZonesAt(T, trip.location), dropoff \in ZonesAt(T, trip.destination)} :
           trip \in T["silver.trips"]}

DropoffZoneMonth(trip) == <<trip.dropoff_zone, Month(trip.pickup), trip.service>>  \* deviation
ZoneMonth(trip) == <<trip.zone, Month(trip.pickup), trip.service>>

Amount(rows) == Total([r \in rows |-> r.amount])

Monthly(T) ==
  LET key == [trip \in T["gold.fct_trips"] |-> ZoneMonth(trip)]
  IN  {[zone |-> k[1], month |-> k[2], service |-> k[3],
        amount |-> Amount(Group(key, k)), trips |-> Cardinality(Group(key, k))] : k \in Groups(key)}

\* The possible contents of a table: dropping duplicates keeps any of the first.
Contents(t, raw, T) ==
  CASE t = "bronze.yellow_tripdata"  -> {raw.yellow}
    [] t = "bronze.green_tripdata"   -> {raw.green}
    [] t = "bronze.taxi_zone_lookup" -> {raw.zones}
    [] t = "silver.rejected_trips"   -> {Rejected(T)}
    [] t = "silver.trips"            -> Deduplicated(T)
    [] t = "gold.dim_zones"          -> {T["bronze.taxi_zone_lookup"]}
    [] t = "gold.fct_trips"          -> {Facts(T)}
    [] t = "gold.fct_monthly_zone_revenue" -> {Monthly(T)}

\* monthly_matches_facts: a full join of the totals by month and service
MonthlyMatchesFacts(T, monthly) ==
  LET facts == [trip \in T["gold.fct_trips"] |-> <<Month(trip.pickup), trip.service>>]
      mart == [row \in monthly |-> <<row.month, row.service>>]
  IN  \A k \in Groups(facts) \cup Groups(mart) :
        /\ Amount(Group(facts, k)) = Amount(Group(mart, k))
        /\ Cardinality(Group(facts, k)) = Total([row \in Group(mart, k) |-> row.trips])

UniqueGrain(t, rows) ==
  CASE t \in {"bronze.taxi_zone_lookup", "gold.dim_zones"} -> Unique([z \in rows |-> z.location])
    [] t \in {"silver.trips", "gold.fct_trips"} -> Unique([trip \in rows |-> IDENTITY(trip)])
    [] t = "gold.fct_monthly_zone_revenue" ->
         Unique([row \in rows |-> <<row.zone, row.month, row.service>>])
    [] OTHER -> TRUE

\* The extra_results of audit_table.
Reconciles(t, T, rows) ==
  CASE t = "silver.rejected_trips" -> \A trip \in rows : Invalid(trip)
    [] t = "gold.dim_zones" -> Cardinality(rows) = Cardinality(T["bronze.taxi_zone_lookup"])
    [] t = "gold.fct_trips" -> Cardinality(rows) = Cardinality(T["silver.trips"])
    [] t = "gold.fct_monthly_zone_revenue" -> MonthlyMatchesFacts(T, rows)
    [] OTHER -> TRUE

Passes(t, T, rows) == rows # {} /\ UniqueGrain(t, rows) /\ Reconciles(t, T, rows)
=============================================================================
