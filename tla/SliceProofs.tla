------------------------------- MODULE SliceProofs -------------------------------
(***************************************************************************)
(* Theorems about the runs of the hand-built slices, for all raw files,    *)
(* numbers of runs and faults, and whatever the tables are made of: they   *)
(* rest on the order of the tables and on what each reads, not on the      *)
(* contents the flows give them.                                           *)
(***************************************************************************)
EXTENDS SliceRun, TLAPS

Slices == {"taxi", "transaction_cat", "fresh_retail"}

LEMMA TaxiOrder ==
  /\ Len(Taxi!Order) = 8 /\ DOMAIN Taxi!Order = 1..8
  /\ \A i, j \in 1..8 : Taxi!Order[i] = Taxi!Order[j] => i = j
  /\ \A i \in 1..8 : \A u \in Taxi!Reads(Taxi!Order[i]) : \E j \in 1..(i - 1) : u = Taxi!Order[j]
<1>1. Len(Taxi!Order) = 8 /\ DOMAIN Taxi!Order = 1..8 BY DEF Taxi!Order
<1>2. \A i, j \in 1..8 : Taxi!Order[i] = Taxi!Order[j] => i = j BY DEF Taxi!Order
<1>3. \A i \in 1..8 : \A u \in Taxi!Reads(Taxi!Order[i]) : \E j \in 1..(i - 1) : u = Taxi!Order[j]
  BY DEF Taxi!Order, Taxi!Reads
<1> QED BY <1>1, <1>2, <1>3

LEMMA TransactionsOrder ==
  /\ Len(Transactions!Order) = 9 /\ DOMAIN Transactions!Order = 1..9
  /\ \A i, j \in 1..9 : Transactions!Order[i] = Transactions!Order[j] => i = j
  /\ \A i \in 1..9 : \A u \in Transactions!Reads(Transactions!Order[i]) :
       \E j \in 1..(i - 1) : u = Transactions!Order[j]
<1>1. Len(Transactions!Order) = 9 /\ DOMAIN Transactions!Order = 1..9 BY DEF Transactions!Order
<1>2. \A i, j \in 1..9 : Transactions!Order[i] = Transactions!Order[j] => i = j BY DEF Transactions!Order
<1>3. \A i \in 1..9 : \A u \in Transactions!Reads(Transactions!Order[i]) :
        \E j \in 1..(i - 1) : u = Transactions!Order[j]
  BY DEF Transactions!Order, Transactions!Reads
<1> QED BY <1>1, <1>2, <1>3

LEMMA RetailOrder ==
  /\ Len(Retail!Order) = 11 /\ DOMAIN Retail!Order = 1..11
  /\ \A i, j \in 1..11 : Retail!Order[i] = Retail!Order[j] => i = j
  /\ \A i \in 1..11 : \A u \in Retail!Reads(Retail!Order[i]) :
       \E j \in 1..(i - 1) : u = Retail!Order[j]
<1>1. Len(Retail!Order) = 11 /\ DOMAIN Retail!Order = 1..11 BY DEF Retail!Order
<1>2. \A i, j \in 1..11 : Retail!Order[i] = Retail!Order[j] => i = j BY DEF Retail!Order
<1>3. \A i \in 1..11 : \A u \in Retail!Reads(Retail!Order[i]) :
        \E j \in 1..(i - 1) : u = Retail!Order[j]
  BY DEF Retail!Order, Retail!Reads
<1> QED BY <1>1, <1>2, <1>3

\* A table comes once in the order of its pipeline, and after all it reads.
LEMMA WellOrdered ==
  ASSUME pipeline \in Slices
  PROVE  /\ Len(Order) \in Nat /\ DOMAIN Order = 1..Len(Order)
         /\ \A i, j \in 1..Len(Order) : Order[i] = Order[j] => i = j
         /\ \A i \in 1..Len(Order) : \A u \in Reads(Order[i]) : \E j \in 1..(i - 1) : u = Order[j]
<1>1. CASE pipeline = "taxi"
  <2>1. Order = Taxi!Order /\ \A t : Reads(t) = Taxi!Reads(t) BY <1>1, Zenon DEF Order, Reads
  <2> QED BY <2>1, TaxiOrder
<1>2. CASE pipeline = "transaction_cat"
  <2>1. Order = Transactions!Order BY <1>2 DEF Order
  <2>2. \A t : Reads(t) = Transactions!Reads(t) BY <1>2 DEF Reads
  <2> QED BY <2>1, <2>2, TransactionsOrder
<1>3. CASE pipeline = "fresh_retail"
  <2>1. Order = Retail!Order BY <1>3 DEF Order
  <2>2. \A t : Reads(t) = Retail!Reads(t) BY <1>3 DEF Reads
  <2> QED BY <2>1, <2>2, RetailOrder
<1> QED BY <1>1, <1>2, <1>3 DEF Slices

LEMMA SameOrder == pipeline' = pipeline => Order' = Order /\ Names' = Names /\ \A t : Reads(t)' = Reads(t)
BY DEF Order, Names, Reads

LEMMA Overwriting ==
  ASSUME NEW f, NEW t, NEW value
  PROVE  /\ DOMAIN Overwritten(f, t, value) = DOMAIN f \cup {t}
         /\ Overwritten(f, t, value)[t] = value
         /\ \A u \in DOMAIN f \ {t} : Overwritten(f, t, value)[u] = f[u]
BY DEF Overwritten

TypeInv == TypeOK /\ pipeline \in Slices /\ (pc # "over" => run \in 1..MaxRuns)

LEMMA TypeInit == Init => TypeInv
<1> SUFFICES ASSUME Init PROVE TypeInv OBVIOUS
<1>1. pipeline \in Slices BY RawsAssumption DEF Init, Slices
<1>2. Len(Order) \in Nat BY <1>1, WellOrdered
<1>3. DOMAIN tables = {} /\ DOMAIN by = {} /\ DOMAIN from = {} BY DEF Init
<1> QED BY <1>1, <1>2, <1>3, MaxRunsAssumption DEF Init, TypeInv, TypeOK

\* The steps that leave the tables and rows of the run alone, or add to them.
LEMMA OverwriteTypes ==
  ASSUME TypeInv, NEW t \in Names, NEW rows, Overwrite(t, rows), UNCHANGED <<pipeline, run>>,
         run \in 1..MaxRuns, \A u \in Reads(t) : u \in DOMAIN by
  PROVE  /\ DOMAIN tables' \subseteq Names /\ DOMAIN by' = DOMAIN tables' /\ DOMAIN from' = DOMAIN tables'
         /\ \A u \in DOMAIN by' : by'[u] \in 1..run /\ from'[u] \subseteq 1..run
<1>1. /\ DOMAIN tables' = DOMAIN tables \cup {t} /\ DOMAIN by' = DOMAIN by \cup {t}
      /\ DOMAIN from' = DOMAIN from \cup {t}
  BY Overwriting DEF Overwrite
<1> DEFINE readFrom == {by[u] : u \in Reads(t)}
<1>0. by' = Overwritten(by, t, run) /\ from' = Overwritten(from, t, readFrom) /\ DOMAIN by = DOMAIN from
  BY DEF Overwrite, TypeInv, TypeOK
<1>4. readFrom \subseteq 1..run BY DEF TypeInv, TypeOK
<1> HIDE DEF readFrom
<1>2. by'[t] = run /\ from'[t] = readFrom BY <1>0 DEF Overwritten
<1>3. \A u \in DOMAIN by \ {t} : by'[u] = by[u] /\ from'[u] = from[u] BY <1>0 DEF Overwritten
<1>5. DOMAIN tables' \subseteq Names /\ DOMAIN by' = DOMAIN tables' /\ DOMAIN from' = DOMAIN tables'
  BY <1>1 DEF TypeInv, TypeOK
<1>6. run \in 1..run BY MaxRunsAssumption
<1>7. \A u \in DOMAIN by : by[u] \in 1..run /\ from[u] \subseteq 1..run BY DEF TypeInv, TypeOK
<1>8. \A u \in DOMAIN by' : by'[u] \in 1..run /\ from'[u] \subseteq 1..run
  BY <1>1, <1>2, <1>3, <1>4, <1>6, <1>7
<1> QED BY <1>5, <1>8

LayerRows == [run : 1..run, table : Names, status : {"SUCCESS", "FAILED"}]

LEMMA BuildingTypes ==
  ASSUME TypeInv, NEW t, Building(t)
  PROVE  /\ t \in Names /\ next \in 1..Len(Order) /\ t = Order[next] /\ run \in 1..run
         /\ \A status \in {"SUCCESS", "FAILED"} : LayerRow(t, status) \in LayerRows
<1>1. Len(Order) \in Nat /\ DOMAIN Order = 1..Len(Order) BY WellOrdered DEF TypeInv
<1>2. next \in 1..Len(Order) /\ t = Order[next] BY <1>1 DEF Building, TypeInv, TypeOK
<1>3. t \in Names BY <1>1, <1>2 DEF Names
<1>4. run \in 1..run BY MaxRunsAssumption DEF Building, TypeInv
<1> QED BY <1>2, <1>3, <1>4 DEF LayerRow, LayerRows

\* The tables of a run only come from Overwrite, of a table whose inputs are there.
TableTypes ==
  /\ DOMAIN tables \subseteq Names /\ DOMAIN by = DOMAIN tables /\ DOMAIN from = DOMAIN tables
  /\ \A u \in DOMAIN by : by[u] \in 1..run /\ from[u] \subseteq 1..run

RowTypes ==
  /\ layerRun \subseteq LayerRows
  /\ pipelineRun \subseteq [run : 1..run, status : {"SUCCESS", "FAILED"}]
  /\ runErrors \subseteq [run : 1..run, table : 0..Len(Order)]

PlaceTypes ==
  /\ run \in 0..MaxRuns /\ pc \in {"over", "building", "except"}
  /\ next \in 1..(Len(Order) + 1) /\ active \in 0..Len(Order)
  /\ pc # "over" => run \in 1..MaxRuns

LEMMA TypeParts == TypeInv <=> TableTypes /\ RowTypes /\ PlaceTypes /\ pipeline \in Slices
BY DEF TypeInv, TypeOK, TableTypes, RowTypes, PlaceTypes, LayerRows

LEMMA TableStep ==
  ASSUME TypeInv, NEW t, Ready(t), NEW rows, Overwrite(t, rows), UNCHANGED <<pipeline, run>>
  PROVE  TableTypes'
<1>1. t \in Names /\ run \in 1..MaxRuns BY BuildingTypes DEF Ready, Building, TypeInv
<1>2. \A u \in Reads(t) : u \in DOMAIN by BY DEF Ready, Published, TypeInv, TypeOK
<1>3. Names' = Names BY SameOrder
<1> QED BY <1>1, <1>2, <1>3, OverwriteTypes DEF TableTypes

LEMMA TypeStep == TypeInv /\ [Next]_vars => TypeInv'
<1> SUFFICES ASSUME TypeInv, [Next]_vars PROVE TypeInv' OBVIOUS
<1>a. Len(Order) \in Nat /\ (pipeline' = pipeline => Order' = Order /\ Names' = Names)
  BY WellOrdered, SameOrder DEF TypeInv
<1>b. TableTypes /\ RowTypes /\ PlaceTypes /\ pipeline \in Slices BY TypeParts
<1>c. UNCHANGED <<pipeline, run, lineage>> => TableTypes' BY <1>a, <1>b DEF TableTypes, lineage
<1>d. UNCHANGED <<pipeline, run, records>> => RowTypes'
  BY <1>a, <1>b DEF RowTypes, LayerRows, records
<1>e. TableTypes' /\ RowTypes' /\ PlaceTypes' /\ pipeline' = pipeline => TypeInv'
  BY <1>b DEF TypeInv, TypeOK, TableTypes, RowTypes, PlaceTypes, LayerRows
<1>1. CASE StartRun
  <2>1. run' = run + 1 /\ run' \in 1..MaxRuns /\ 1..run \subseteq 1..run'
    BY <1>1, <1>b, MaxRunsAssumption DEF StartRun, PlaceTypes
  <2>2. UNCHANGED <<pipeline, tables, by, from, layerRun, pipelineRun, runErrors>>
    BY <1>1 DEF StartRun, lineage, records
  <2>3. TableTypes' BY <1>a, <1>b, <2>1, <2>2 DEF TableTypes
  <2>4. RowTypes' BY <1>a, <1>b, <2>1, <2>2 DEF RowTypes, LayerRows
  <2>5. PlaceTypes' BY <1>1, <1>a, <1>b, <2>1, <2>2 DEF StartRun, PlaceTypes
  <2> QED BY <1>b, <2>2, <2>3, <2>4, <2>5, <1>e
<1>2. ASSUME NEW t \in Names, BuildTable(t) PROVE TypeInv'
  <2>1. Ready(t) /\ Building(t) BY <1>2 DEF BuildTable, Ready
  <2>2. TableTypes' BY <1>2, <2>1, TableStep DEF BuildTable
  <2>3. RowTypes'
    BY <1>2, <1>a, <1>b, <2>1, BuildingTypes DEF BuildTable, RowTypes, LayerRows
  <2>4. PlaceTypes' BY <1>2, <1>a, <1>b, <2>1, BuildingTypes DEF BuildTable, PlaceTypes
  <2> QED BY <1>2, <1>b, <2>2, <2>3, <2>4, <1>e DEF BuildTable
<1>3. ASSUME NEW t \in Names, AuditFails(t) PROVE TypeInv'
  <2>1. Ready(t) /\ Building(t) BY <1>3 DEF AuditFails, Ready
  <2>2. TableTypes' BY <1>3, <1>c DEF AuditFails
  <2>3. RowTypes'
    BY <1>3, <1>a, <1>b, <2>1, BuildingTypes DEF AuditFails, RowTypes, LayerRows
  <2>4. PlaceTypes' BY <1>3, <1>a, <1>b, <2>1, BuildingTypes DEF AuditFails, Building, PlaceTypes
  <2> QED BY <1>3, <1>b, <2>2, <2>3, <2>4, <1>e DEF AuditFails
<1>4. ASSUME NEW t \in Names, QueryRaises(t) PROVE TypeInv'
  <2>1. PlaceTypes' BY <1>4, <1>a, <1>b DEF QueryRaises, Building, PlaceTypes
  <2> QED BY <1>4, <1>b, <1>c, <1>d, <2>1, <1>e DEF QueryRaises
<1>5. ASSUME NEW t \in Names, PublishRaises(t) PROVE TypeInv'
  <2>1. Ready(t) /\ Building(t) /\ UNCHANGED <<pipeline, run, pipelineRun, runErrors>>
    BY <1>5 DEF PublishRaises, Ready
  <2>2. (UNCHANGED lineage \/ \E rows : Overwrite(t, rows)) BY <1>5 DEF PublishRaises
  <2>3. TableTypes' BY <1>c, <2>1, <2>2, TableStep
  <2>4. layerRun' \subseteq layerRun \cup {LayerRow(t, "SUCCESS")} BY <1>5 DEF PublishRaises
  <2>5. RowTypes' BY <1>a, <1>b, <2>1, <2>4, BuildingTypes DEF RowTypes, LayerRows
  <2>6. PlaceTypes' BY <1>5, <1>a, <1>b, <2>1, BuildingTypes DEF PublishRaises, Building, PlaceTypes, Noted
  <2> QED BY <1>b, <2>1, <2>3, <2>5, <2>6, <1>e
<1>6. CASE Succeed
  <2>1. run \in 1..run BY <1>6, MaxRunsAssumption DEF Succeed, TypeInv
  <2>2. RowTypes' BY <1>6, <1>a, <1>b, <2>1 DEF Succeed, RowTypes, LayerRows, Verdict
  <2>3. PlaceTypes' BY <1>6, <1>a, <1>b DEF Succeed, PlaceTypes
  <2> QED BY <1>6, <1>b, <1>c, <2>2, <2>3, <1>e DEF Succeed
<1>7. CASE Except
  <2>1. run \in 1..run /\ active \in 0..Len(Order) BY <1>7, MaxRunsAssumption DEF Except, TypeInv, TypeOK
  <2>2. UNCHANGED <<pipeline, run, layerRun>> BY <1>7 DEF Except
  <2>3. /\ pipelineRun' \subseteq pipelineRun \cup {[run |-> run, status |-> "FAILED"]}
        /\ runErrors' \subseteq runErrors \cup {[run |-> run, table |-> active]}
    BY <1>7 DEF Except, Verdict
  <2>4. RowTypes' BY <1>a, <1>b, <2>1, <2>2, <2>3 DEF RowTypes, LayerRows
  <2>5. PlaceTypes' BY <1>7, <1>a, <1>b DEF Except, PlaceTypes
  <2> QED BY <1>7, <1>b, <1>c, <2>4, <2>5, <1>e DEF Except
<1>8. CASE Kill
  <2>1. PlaceTypes' BY <1>8, <1>a, <1>b DEF Kill, PlaceTypes
  <2> QED BY <1>8, <1>b, <1>c, <1>d, <2>1, <1>e DEF Kill
<1>9. CASE UNCHANGED vars
  <2>1. PlaceTypes' BY <1>9, <1>a, <1>b DEF vars, PlaceTypes
  <2> QED BY <1>9, <1>b, <1>c, <1>d, <2>1, <1>e DEF vars
<1> QED BY <1>1, <1>2, <1>3, <1>4, <1>5, <1>6, <1>7, <1>8, <1>9 DEF Next

\* Type correctness of SliceRun.
THEOREM SliceTypes == Spec => []TypeOK
<1>1. TypeInv => TypeOK BY DEF TypeInv
<1> QED BY <1>1, TypeInit, TypeStep, PTL DEF Spec


(***************************************************************************)
(* Where a run is.  The tables before its position are its own and         *)
(* recorded, those after the table it has noted are not.                   *)
(***************************************************************************)
IsNew(r, i) == Published(Order[i]) /\ by[Order[i]] >= r
IsRecorded(r, i) == [run |-> r, table |-> Order[i], status |-> "SUCCESS"] \in layerRun

ProgressInv ==
  /\ \A i \in 1..(next - 1) : IsNew(run, i) /\ IsRecorded(run, i)
  /\ pc = "building" => active = next - 1
  /\ pc = "except" => active \in {next - 1, next}
  /\ pc # "over" => /\ \A i \in DOMAIN Order : i > active => ~IsNew(run, i)
                    /\ \A e \in runErrors : e.run < run

VerdictInv ==
  \A r \in 1..run : [run |-> r, status |-> "SUCCESS"] \in pipelineRun =>
    \A i \in DOMAIN Order : IsNew(r, i) /\ IsRecorded(r, i)

ErrorInv ==
  \A e \in runErrors : \A i \in DOMAIN Order :
    /\ i < e.table => IsNew(e.run, i)
    /\ i > e.table /\ e.run = run => ~IsNew(run, i)

RunInv == ProgressInv /\ VerdictInv /\ ErrorInv

\* Publishing a table of the run that builds it.
LEMMA Publishing ==
  ASSUME TypeInv, ProgressInv, NEW t, Ready(t), NEW rows, Overwrite(t, rows), UNCHANGED <<pipeline, run>>
  PROVE  /\ \A r \in 1..run : \A i \in DOMAIN Order : IsNew(r, i) => IsNew(r, i)'
         /\ \A i \in DOMAIN Order : i = next => IsNew(run, i)'
         /\ \A i \in DOMAIN Order : i > next => ~IsNew(run, i)'
         /\ from'[t] \subseteq {by'[t]}
         /\ \A u \in DOMAIN tables' : u \in DOMAIN tables \/ u = t
         /\ \A u \in DOMAIN tables : u = t \/ (by'[u] = by[u] /\ from'[u] = from[u])
<1> DEFINE readFrom == {by[u] : u \in Reads(t)}
<1>1. /\ tables' = Overwritten(tables, t, rows) /\ by' = Overwritten(by, t, run)
      /\ from' = Overwritten(from, t, readFrom)
      /\ DOMAIN by = DOMAIN tables /\ DOMAIN from = DOMAIN tables
      /\ \A u \in DOMAIN by : by[u] \in 1..run
  BY DEF Overwrite, TypeInv, TypeOK
<1>2. /\ t = Order[next] /\ next \in 1..Len(Order) /\ pc = "building" /\ run \in Nat
      /\ Len(Order) \in Nat /\ DOMAIN Order = 1..Len(Order)
      /\ \A i, j \in 1..Len(Order) : Order[i] = Order[j] => i = j
      /\ \A u \in Reads(t) : \E j \in 1..(next - 1) : u = Order[j]
      /\ Order' = Order
  BY BuildingTypes, WellOrdered, SameOrder, MaxRunsAssumption DEF Ready, Building, TypeInv
<1>3. readFrom \subseteq {run}
  <2> SUFFICES ASSUME NEW u \in Reads(t) PROVE by[u] = run OBVIOUS
  <2>1. PICK j \in 1..(next - 1) : u = Order[j] BY <1>2
  <2>2. Published(u) /\ by[u] >= run BY <2>1 DEF ProgressInv, IsNew
  <2> QED BY <1>1, <1>2, <2>2 DEF Published
<1> HIDE DEF readFrom
<1>4. /\ DOMAIN tables' = DOMAIN tables \cup {t} /\ DOMAIN by' = DOMAIN tables \cup {t}
      /\ by'[t] = run /\ from'[t] = readFrom
      /\ \A u \in DOMAIN tables : u = t \/ (by'[u] = by[u] /\ from'[u] = from[u])
  BY <1>1 DEF Overwritten
<1>5. \A r \in 1..run : \A i \in DOMAIN Order : IsNew(r, i) => IsNew(r, i)'
  BY <1>2, <1>4 DEF IsNew, Published
<1>6. \A i \in DOMAIN Order : i = next => IsNew(run, i)' BY <1>2, <1>4 DEF IsNew, Published
<1>7. \A i \in DOMAIN Order : i > next => ~IsNew(run, i)'
  <2> SUFFICES ASSUME NEW i \in DOMAIN Order, i > next PROVE ~IsNew(run, i)' OBVIOUS
  <2>1. Order[i] # t /\ ~IsNew(run, i) BY <1>2 DEF ProgressInv
  <2> QED BY <1>2, <1>4, <2>1 DEF IsNew, Published
<1> QED BY <1>3, <1>4, <1>5, <1>6, <1>7

LEMMA RunInit == Init => RunInv
<1> SUFFICES ASSUME Init PROVE RunInv OBVIOUS
<1> QED BY DEF Init, RunInv, ProgressInv, VerdictInv, ErrorInv

\* What the rows of earlier steps say stays true while tables of the run are added.
LEMMA RowsStay ==
  ASSUME TypeInv, RunInv, UNCHANGED <<pipeline, run, pipelineRun, runErrors>>, layerRun \subseteq layerRun',
         \A r \in 1..run : \A i \in DOMAIN Order : IsNew(r, i) => IsNew(r, i)', pc # "over"
  PROVE  /\ VerdictInv' /\ ErrorInv'
         /\ \A i \in 1..(next - 1) : IsNew(run, i)' /\ IsRecorded(run, i)'
         /\ \A e \in runErrors' : e.run < run'
<1>1. Order' = Order /\ DOMAIN Order = 1..Len(Order) /\ run \in 1..run /\ next \in 1..(Len(Order) + 1)
      /\ Len(Order) \in Nat
  BY SameOrder, WellOrdered, MaxRunsAssumption DEF TypeInv, TypeOK
<1>2. VerdictInv' BY <1>1 DEF RunInv, VerdictInv, IsRecorded
<1>3. \A e \in runErrors : e.run \in 1..run /\ e.run < run /\ e.table \in 0..Len(Order)
  BY DEF RunInv, ProgressInv, TypeInv, TypeOK
<1>4. ErrorInv' BY <1>1, <1>3 DEF RunInv, ErrorInv
<1>5. \A i \in 1..(next - 1) : IsNew(run, i)' /\ IsRecorded(run, i)'
  BY <1>1 DEF RunInv, ProgressInv, IsRecorded
<1> QED BY <1>2, <1>3, <1>4, <1>5

LEMMA RunStep == TypeInv /\ RunInv /\ [Next]_vars => RunInv'
<1> SUFFICES ASSUME TypeInv, RunInv, [Next]_vars PROVE RunInv' OBVIOUS
<1>a. /\ Len(Order) \in Nat /\ DOMAIN Order = 1..Len(Order) /\ run \in Nat
      /\ next \in 1..(Len(Order) + 1) /\ active \in 0..Len(Order)
      /\ pipeline' = pipeline => Order' = Order
  BY WellOrdered, SameOrder, MaxRunsAssumption DEF TypeInv, TypeOK
<1>b. UNCHANGED <<pipeline, lineage, layerRun>> =>
        \A r, i : IsNew(r, i)' = IsNew(r, i) /\ IsRecorded(r, i)' = IsRecorded(r, i)
  BY <1>a DEF IsNew, IsRecorded, Published, lineage
<1>c. \A r \in 1..run : \A i : UNCHANGED <<pipeline, lineage>> => (IsNew(r, i) <=> IsNew(r, i)')
  BY <1>a DEF IsNew, Published, lineage
<1>1. CASE StartRun
  <2>1. UNCHANGED <<pipeline, lineage, layerRun, pipelineRun, runErrors>> /\ run' = run + 1
        /\ next' = 1 /\ active' = 0 /\ pc' = "building"
    BY <1>1 DEF StartRun, records
  <2>2. \A i \in DOMAIN Order : ~IsNew(run', i)
    BY <1>a, <2>1 DEF IsNew, Published, TypeInv, TypeOK
  <2>3. \A e \in runErrors : e.run \in 1..run BY DEF TypeInv, TypeOK
  <2>4. ProgressInv' BY <1>a, <1>b, <2>1, <2>2, <2>3 DEF ProgressInv
  <2>5. \A r \in 1..run' : [run |-> r, status |-> "SUCCESS"] \in pipelineRun => r \in 1..run
    BY DEF TypeInv, TypeOK
  <2>6. VerdictInv' BY <1>a, <1>b, <2>1, <2>5 DEF RunInv, VerdictInv
  <2>7. ErrorInv' BY <1>a, <1>b, <2>1, <2>3 DEF RunInv, ErrorInv
  <2> QED BY <2>4, <2>6, <2>7 DEF RunInv
<1>2. ASSUME NEW t \in Names, BuildTable(t) PROVE RunInv'
  <2>1. Ready(t) /\ Building(t) /\ pc = "building" /\ t = Order[next] /\ next \in 1..Len(Order)
    BY <1>2, BuildingTypes DEF BuildTable, Ready, Building
  <2>2. UNCHANGED <<pipeline, run, pc, pipelineRun, runErrors>> /\ next' = next + 1 /\ active' = next
        /\ layerRun' = layerRun \cup {LayerRow(t, "SUCCESS")}
    BY <1>2 DEF BuildTable
  <2>3. /\ \A r \in 1..run : \A i \in DOMAIN Order : IsNew(r, i) => IsNew(r, i)'
        /\ \A i \in DOMAIN Order : i = next => IsNew(run, i)'
        /\ \A i \in DOMAIN Order : i > next => ~IsNew(run, i)'
    <3>1. PICK rows : Overwrite(t, rows) BY <1>2 DEF BuildTable
    <3> QED BY <2>1, <2>2, <3>1, Publishing DEF RunInv
  <2>4. /\ VerdictInv' /\ ErrorInv'
        /\ \A i \in 1..(next - 1) : IsNew(run, i)' /\ IsRecorded(run, i)'
        /\ \A e \in runErrors' : e.run < run'
    BY <2>1, <2>2, <2>3, RowsStay
  <2>5. \A i \in DOMAIN Order : i = next => IsRecorded(run, i)' BY <1>a, <2>1, <2>2 DEF IsRecorded, LayerRow
  <2>6. \A i \in 1..(next' - 1) : IsNew(run, i)' /\ IsRecorded(run, i)'
    BY <1>a, <2>1, <2>2, <2>3, <2>4, <2>5
  <2>7. ProgressInv' BY <1>a, <2>1, <2>2, <2>3, <2>4, <2>6 DEF ProgressInv
  <2> QED BY <2>4, <2>7 DEF RunInv
<1>3. ASSUME NEW t \in Names, AuditFails(t) \/ QueryRaises(t) \/ PublishRaises(t) PROVE RunInv'
  <2>1. Building(t) /\ pc = "building" /\ t = Order[next] /\ next \in 1..Len(Order) /\ active = next - 1
    BY <1>3, BuildingTypes DEF AuditFails, QueryRaises, PublishRaises, Ready, Building, RunInv, ProgressInv
  <2>2. UNCHANGED <<pipeline, run, next, pipelineRun, runErrors>> /\ layerRun \subseteq layerRun'
        /\ pc' = "except" /\ active' \in {next - 1, next}
    BY <1>3, <2>1 DEF AuditFails, QueryRaises, PublishRaises, Noted, records
  <2>3. CASE UNCHANGED lineage
    <3>1. \A r \in 1..run : \A i \in DOMAIN Order : IsNew(r, i) => IsNew(r, i)' BY <1>c, <2>2, <2>3
    <3>2. /\ VerdictInv' /\ ErrorInv'
          /\ \A i \in 1..(next - 1) : IsNew(run, i)' /\ IsRecorded(run, i)'
          /\ \A e \in runErrors' : e.run < run'
      BY <2>1, <2>2, <3>1, RowsStay
    <3>3. run \in 1..run BY <2>1, MaxRunsAssumption DEF TypeInv
    <3>4. \A i \in DOMAIN Order : i > active => ~IsNew(run, i)'
      BY <1>c, <2>1, <2>2, <2>3, <3>3 DEF RunInv, ProgressInv
    <3>5. ProgressInv' BY <1>a, <2>1, <2>2, <3>2, <3>4 DEF ProgressInv
    <3> QED BY <3>2, <3>5 DEF RunInv
  <2>4. CASE active' = next /\ Ready(t) /\ \E rows : Overwrite(t, rows)
    <3>1. /\ \A r \in 1..run : \A i \in DOMAIN Order : IsNew(r, i) => IsNew(r, i)'
          /\ \A i \in DOMAIN Order : i > next => ~IsNew(run, i)'
      BY <2>2, <2>4, Publishing DEF RunInv
    <3>2. /\ VerdictInv' /\ ErrorInv'
          /\ \A i \in 1..(next - 1) : IsNew(run, i)' /\ IsRecorded(run, i)'
          /\ \A e \in runErrors' : e.run < run'
      BY <2>1, <2>2, <3>1, RowsStay
    <3>3. ProgressInv' BY <1>a, <2>2, <2>4, <3>1, <3>2 DEF ProgressInv
    <3> QED BY <3>2, <3>3 DEF RunInv
  <2> QED BY <1>3, <2>3, <2>4 DEF AuditFails, QueryRaises, PublishRaises, Noted
<1>4. CASE Succeed
  <2>1. UNCHANGED <<pipeline, run, next, active, lineage, layerRun, runErrors>> /\ pc = "building"
        /\ pc' \in {"over", "except"} /\ next = Len(Order) + 1
        /\ pipelineRun' \subseteq pipelineRun \cup {[run |-> run, status |-> "SUCCESS"]}
    BY <1>4, <1>a DEF Succeed, Verdict
  <2>2. ProgressInv' BY <1>a, <1>b, <2>1 DEF RunInv, ProgressInv
  <2>3. VerdictInv' BY <1>a, <1>b, <2>1 DEF RunInv, ProgressInv, VerdictInv
  <2>4. ErrorInv' BY <1>a, <1>b, <2>1 DEF RunInv, ErrorInv
  <2> QED BY <2>2, <2>3, <2>4 DEF RunInv
<1>5. CASE Except
  <2>1. UNCHANGED <<pipeline, run, next, active, lineage, layerRun>> /\ pc = "except" /\ pc' = "over"
        /\ pipelineRun' \subseteq pipelineRun \cup {[run |-> run, status |-> "FAILED"]}
        /\ runErrors' \subseteq runErrors \cup {[run |-> run, table |-> active]}
    BY <1>5 DEF Except, Verdict
  <2>2. ProgressInv' BY <1>a, <1>b, <2>1 DEF RunInv, ProgressInv
  <2>3. VerdictInv' BY <1>a, <1>b, <2>1 DEF RunInv, VerdictInv
  <2>4. \A i \in DOMAIN Order : (i < active => IsNew(run, i)) /\ (i > active => ~IsNew(run, i))
    BY <1>a, <2>1 DEF RunInv, ProgressInv
  <2>5. ErrorInv' BY <1>a, <1>b, <2>1, <2>4 DEF RunInv, ErrorInv
  <2> QED BY <2>2, <2>3, <2>5 DEF RunInv
<1>6. CASE Kill \/ UNCHANGED vars
  <2>1. UNCHANGED <<pipeline, run, next, active, lineage, layerRun, pipelineRun, runErrors>>
        /\ pc' \in {pc, "over"}
    BY <1>6 DEF Kill, vars, records
  <2> QED BY <1>a, <1>b, <2>1 DEF RunInv, ProgressInv, VerdictInv, ErrorInv
<1> QED BY <1>1, <1>2, <1>3, <1>4, <1>5, <1>6 DEF Next


\* A run with a SUCCESS row has published and recorded every table.
THEOREM SuccessesAreComplete == Spec => []SuccessIsComplete
<1>1. TypeInv /\ RunInv => SuccessIsComplete
  <2> SUFFICES ASSUME TypeInv, RunInv, NEW r \in 1..run, [run |-> r, status |-> "SUCCESS"] \in pipelineRun,
                      NEW t \in Names
               PROVE  /\ Published(t) /\ by[t] >= r
                      /\ [run |-> r, table |-> t, status |-> "SUCCESS"] \in layerRun
    BY DEF SuccessIsComplete
  <2>1. PICK i \in DOMAIN Order : t = Order[i] BY DEF Names
  <2>2. IsNew(r, i) /\ IsRecorded(r, i) BY DEF RunInv, VerdictInv
  <2> QED BY <2>1, <2>2 DEF IsNew, IsRecorded
<1> QED BY <1>1, TypeInit, TypeStep, RunInit, RunStep, PTL DEF Spec

\* An error row stands between the tables its run has published and those it has not.
THEOREM ErrorRowsSplitTheTables == Spec => []ErrorRowSplitsTheTables
<1>1. RunInv => ErrorRowSplitsTheTables
  <2> SUFFICES ASSUME RunInv, NEW e \in runErrors, NEW i \in DOMAIN Order
               PROVE  LET isNew == Published(Order[i]) /\ by[Order[i]] >= e.run
                      IN  /\ i < e.table => isNew
                          /\ i > e.table /\ e.run = run => ~isNew
    BY DEF ErrorRowSplitsTheTables
  <2> QED BY DEF RunInv, ErrorInv, IsNew
<1> QED BY <1>1, TypeInit, TypeStep, RunInit, RunStep, PTL DEF Spec

\* No table is built from what another run left behind.
THEOREM TablesAreBuiltFromTheirRun == Spec => []BuiltFromOwnRun
<1>1. Init => BuiltFromOwnRun BY DEF Init, BuiltFromOwnRun
<1>2. TypeInv /\ RunInv /\ BuiltFromOwnRun /\ [Next]_vars => BuiltFromOwnRun'
  <2> SUFFICES ASSUME TypeInv, RunInv, BuiltFromOwnRun, [Next]_vars PROVE BuiltFromOwnRun' OBVIOUS
  <2>1. DOMAIN from = DOMAIN tables /\ DOMAIN from' = DOMAIN tables'
    BY TypeStep DEF TypeInv, TypeOK
  <2>2. ASSUME NEW t, Ready(t), NEW rows, Overwrite(t, rows), UNCHANGED <<pipeline, run>>
        PROVE  BuiltFromOwnRun'
    <3>1. /\ from'[t] \subseteq {by'[t]}
          /\ \A u \in DOMAIN tables' : u \in DOMAIN tables \/ u = t
          /\ \A u \in DOMAIN tables : u = t \/ (by'[u] = by[u] /\ from'[u] = from[u])
      BY <2>2, Publishing DEF RunInv
    <3> QED BY <2>1, <3>1 DEF BuiltFromOwnRun
  <2>3. CASE UNCHANGED lineage BY <2>3 DEF lineage, BuiltFromOwnRun
  <2> QED BY <2>2, <2>3
          DEF Next, vars, StartRun, BuildTable, AuditFails, QueryRaises, PublishRaises, Succeed, Except, Kill
<1> QED BY <1>1, <1>2, TypeInit, TypeStep, RunInit, RunStep, PTL DEF Spec

=============================================================================
