-------------------------------- MODULE Evaluation --------------------------------
(***************************************************************************)
(* One round of evaluating the generator on a pipeline: runs of the        *)
(* generator execute notebooks that publish generated tables and record    *)
(* rows about them, verify_generated_eval.py compares the tables with the  *)
(* hand-built ones, and reset_generated_eval.py removes them.  These are   *)
(* different jobs of databricks.yml: each runs once at a time, and beside  *)
(* the others.                                                             *)
(*                                                                         *)
(* A pipeline has two tables here, the facts of one layer and the mart of  *)
(* the next.  Of the contents of a table the verifier sees the number of   *)
(* its rows and what it measures over all the groups of the mart.  The     *)
(* notebooks follow the prompt: a table is published, then recorded.       *)
(* Generator has the control of a run in detail, TablePublish that of a    *)
(* publication.                                                            *)
(***************************************************************************)
EXTENDS Naturals, FiniteSets, Storage

CONSTANTS
  Evaluated,   \* the pipelines a round may be about
  MaxRuns,     \* bound on the runs of the generator
  MaxAttempts, \* config.max_attempts
  Budgets,     \* bounds: how many runs, verifications, resets and abandoned jobs there are
  Faults       \* what may go wrong, see EvaluationFaults

EvaluationFaults == {
  "job",      \* a notebook raises, at any statement
  "query",    \* a query of the verifier raises
  "head",     \* the snapshot of the counts is not read, or what is there does not parse
  "kill" }    \* the process of a reset dies

ASSUME EvaluatedAssumption == Evaluated \subseteq Pipelines
ASSUME BoundsAssumption == MaxRuns \in Nat /\ MaxAttempts \in Nat \ {0}
ASSUME BudgetsAssumption ==
  Budgets \subseteq [runs : 0..MaxRuns, checks : Nat, resets : Nat, abandoned : Nat, retries : Nat]
ASSUME FaultsAssumption == Faults \subseteq EvaluationFaults

VARIABLES
  pipeline,     \* the pipeline of the round
  disk,         \* what is at each location of the Delta storage
  catalog,      \* registered tables of the generated schemas
  run, layer, attempt, driver,  \* the generator: where its run is
  jobs,         \* temporary jobs that have not ended
  rows,         \* for each run, its rows of pipeline_run, layer_run and data_quality
  reset,        \* position in the plan of a reset, 0 when none is under way
  check,        \* the verification under way
  snapshot,     \* the counts of the last verification without failures
  left,         \* what is left of the budget of the round
  \* History, for the properties.
  published,    \* for each run, the tables its jobs have published
  again,        \* runs that made more than one attempt at a layer
  raced,        \* a job has been active during a reset
  quiet         \* the generated tables have not changed since the verification began

generator == <<run, layer, attempt, driver>>
history   == <<published, again, raced, quiet>>
vars == <<pipeline, disk, catalog, generator, jobs, rows, reset, check, snapshot, left, history>>

(***************************************************************************)
(* Tables.                                                                 *)
(***************************************************************************)
Tables == <<"facts", "mart">>
Layers == <<"silver", "gold">>
TableNames == {"facts", "mart"}

\* The layer of a table, and the table a layer publishes, have the same index.
Index(table) == IF table = "facts" THEN 1 ELSE 2

Content(table) == IF table = "facts" THEN {[count |-> n, measure |-> n] : n \in 1..2}
                                     ELSE {content \in [count : 1..2, measure : 1..2] :
                                             1 \in {content.count, content.measure}}
Expected == [count |-> 1, measure |-> 1]

Place(space, p, table) == Location(space, p, Layers[Index(table)], table)
Generated(table) == Place("generated", pipeline, table)

EvalPlaces == {Place("eval", p, t) : p \in Pipelines, t \in TableNames}
OpsPlaces == {OpsLocation(t) : t \in {"pipeline_run", "layer_run", "data_quality"}}
Kept == EvalPlaces \cup OpsPlaces

Nothing == [count |-> 0, measure |-> 0]
Stored(table) == disk[Generated(table)] # Nothing
Readable(table) == table \in catalog /\ Stored(table)

\* EXPECTED_COUNTS: all tables of taxi, the tables of the first layer of the others.
ExpectedTables == IF pipeline = "taxi" THEN TableNames ELSE {"facts"}

NoCount == 0
NoCounts == [table \in TableNames |-> NoCount]
NoCheck == [at |-> "none", run |-> 0, counts |-> NoCounts, agrees |-> FALSE]
NoSnapshot == [run |-> 0, counts |-> NoCounts]

Runs == 1..MaxRuns

Init ==
  /\ pipeline \in Evaluated
  /\ disk = [place \in Kept \cup {Generated(t) : t \in TableNames} |->
               IF place \in Kept THEN Expected ELSE Nothing]
  /\ catalog = {}
  /\ run = 0 /\ layer = 1 /\ attempt = 1 /\ driver = "idle"
  /\ jobs = {}
  /\ rows = [r \in Runs |-> [pipeline |-> 0, layer |-> 0, quality |-> 0]]
  /\ reset = 0 /\ check = NoCheck /\ snapshot = NoSnapshot
  /\ left \in Budgets
  /\ published = [r \in Runs |-> {}] /\ again = {} /\ raced = FALSE /\ quiet = TRUE

(***************************************************************************)
(* The generator, as it drives the jobs.                                   *)
(***************************************************************************)
Spends(kind) == left[kind] > 0 /\ left' = [left EXCEPT ![kind] = @ - 1]

SubmittedAt(step) == [run |-> run, layer |-> layer, attempt |-> attempt, at |-> step]

EndOfRun == driver' = "idle" /\ layer' = 1 /\ attempt' = 1

StartRun ==
  /\ driver = "idle" /\ Spends("runs")
  /\ run' = run + 1 /\ driver' = "submit"
  /\ UNCHANGED <<pipeline, disk, catalog, layer, attempt, jobs, rows, reset, check, snapshot, history>>

Submit ==
  /\ driver = "submit" /\ driver' = "wait"
  /\ jobs' = jobs \cup {SubmittedAt("write")}
  /\ raced' = (raced \/ reset # 0)
  /\ UNCHANGED <<pipeline, disk, catalog, run, layer, attempt, rows, reset, check, snapshot,
                 left, published, again, quiet>>

\* deviation: there is a layer after the last
NextLayerOrMore ==
  IF layer <= Len(Layers) THEN layer' = layer + 1 /\ attempt' = 1 /\ driver' = "submit" ELSE EndOfRun
NextLayer ==
  IF layer < Len(Layers) THEN layer' = layer + 1 /\ attempt' = 1 /\ driver' = "submit" ELSE EndOfRun

\* An attempt that failed is followed by another, or ends the run.
Again == attempt' = attempt + 1 /\ driver' = "submit" /\ again' = again \cup {run} /\ UNCHANGED layer
Retry ==
  \/ attempt < MaxAttempts /\ Spends("retries") /\ Again
  \/ EndOfRun /\ UNCHANGED <<again, left>>

\* The deadline or a poll that raises, after which there may be another attempt, or the death
\* of the driver: the job goes on.
Abandon ==
  /\ driver = "wait" /\ left.abandoned > 0
  /\ \/ Spends("abandoned") /\ EndOfRun /\ UNCHANGED again
     \/ /\ attempt < MaxAttempts /\ left.retries > 0 /\ Again
        /\ left' = [left EXCEPT !.retries = @ - 1, !.abandoned = @ - 1]
  /\ UNCHANGED <<pipeline, disk, catalog, run, jobs, rows, reset, check, snapshot, published, raced,
                 quiet>>

(***************************************************************************)
(* A notebook: publish_staged writes the data and registers the table, then*)
(* the rows of the table are appended; gold appends the verdict.           *)
(***************************************************************************)
TableOf(job) == Tables[job.layer]
Waited(job) == driver = "wait" /\ job = SubmittedAt(job.at)

Goes(job, next) ==
  /\ jobs' = (jobs \ {job}) \cup {[job EXCEPT !.at = next]}
  /\ UNCHANGED <<layer, attempt, driver>>

\* The job ends in SUCCESS, and the driver, if it still waits, goes on.
Succeeds(job) ==
  /\ jobs' = jobs \ {job}
  /\ IF Waited(job) THEN NextLayer ELSE UNCHANGED <<layer, attempt, driver>>

\* The verifier asks for no more rows than that, and more are not counted.
Enough(kind) == IF kind = "pipeline" THEN 1 ELSE Cardinality(ExpectedTables)
Adds(job, kinds) ==
  rows' = [rows EXCEPT ![job.run] = [kind \in DOMAIN @ |->
             IF kind \in kinds /\ @[kind] < Enough(kind) THEN @[kind] + 1 ELSE @[kind]]]

TablesChange == quiet' = (check = NoCheck)

Write(job) ==
  /\ job.at = "write" /\ Goes(job, "register")
  /\ \E content \in Content(TableOf(job)) : disk' = [disk EXCEPT ![Generated(TableOf(job))] = content]
  /\ TablesChange
  /\ UNCHANGED <<catalog, rows, published>>

\* DROP TABLE and CREATE TABLE ... LOCATION.
Register(job) ==
  /\ job.at = "register" /\ Goes(job, "record")
  /\ catalog' = catalog \cup {TableOf(job)}
  /\ published' = [published EXCEPT ![job.run] = @ \cup {TableOf(job)}]
  /\ TablesChange
  /\ UNCHANGED <<disk, rows>>

\* One row of data_quality, then one of layer_run; no step of another job tells them apart.
RecordTable(job) ==
  /\ job.at = "record"
  /\ IF job.layer = Len(Layers) THEN Goes(job, "verdict") ELSE Succeeds(job)
  /\ Adds(job, {"quality", "layer"})
  /\ UNCHANGED <<disk, catalog, published, quiet>>

RecordVerdict(job) ==
  /\ job.at = "verdict" /\ Succeeds(job) /\ Adds(job, {"pipeline"})
  /\ UNCHANGED <<disk, catalog, published, quiet>>

JobStep(job) ==
  /\ Write(job) \/ Register(job) \/ RecordTable(job) \/ RecordVerdict(job)
  /\ raced' = (raced \/ reset # 0)
  /\ UNCHANGED <<pipeline, run, reset, check, snapshot, left, again>>

\* A layer that throws, perhaps between its two rows, writes a FAILED row to pipeline_run if
\* it can.
JobRaises(job) ==
  /\ "job" \in Faults /\ jobs' = jobs \ {job}
  /\ \E kinds \in SUBSET ({"pipeline"} \cup {k \in {"quality"} : job.at = "record"}) : Adds(job, kinds)
  /\ IF Waited(job) THEN Retry ELSE UNCHANGED <<layer, attempt, driver, again, left>>
  /\ UNCHANGED <<pipeline, disk, catalog, run, reset, check, snapshot, published, raced, quiet>>

(***************************************************************************)
(* reset_generated_eval.py: pipeline by pipeline, the tables are dropped   *)
(* one by one, then the Delta root is removed.  The tables of the other    *)
(* pipelines are dropped too, but none is registered in this round.        *)
(***************************************************************************)
Drop(table) == [drop |-> {table}, roots |-> {}]
\* The roots of the other pipelines, which hold nothing in this round, go with this one.
Removal == [drop |-> {}, roots |-> {DeltaRoot("generated", p) : p \in Pipelines}]

DropsFollow == <<Removal, Drop("facts"), Drop("mart")>>  \* deviation: the data goes first
ResetPlan == <<Drop("facts"), Drop("mart"), Removal>>

StartReset ==
  /\ reset = 0 /\ reset' = 1 /\ Spends("resets")
  /\ raced' = (raced \/ jobs # {})
  /\ UNCHANGED <<pipeline, disk, catalog, generator, jobs, rows, check, snapshot, published, again, quiet>>

ResetStep ==
  /\ reset # 0
  /\ catalog' = catalog \ ResetPlan[reset].drop
  /\ disk' = [place \in DOMAIN disk |->
                IF \E root \in ResetPlan[reset].roots : Below(root, place) THEN Nothing ELSE disk[place]]
  /\ reset' = IF reset < Len(ResetPlan) THEN reset + 1 ELSE 0
  /\ TablesChange
  /\ UNCHANGED <<pipeline, generator, jobs, rows, check, snapshot, left, published, again, raced>>

KillReset ==
  /\ "kill" \in Faults /\ reset # 0 /\ reset' = 0
  /\ UNCHANGED <<pipeline, disk, catalog, generator, jobs, rows, check, snapshot, left, history>>

(***************************************************************************)
(* verify_generated_eval.py.                                               *)
(***************************************************************************)
Count(table) == IF Readable(table) THEN disk[Generated(table)].count ELSE NoCount

\* The widget names the run whose rows are counted; without a value it is the newest in
\* generator_runs, where not every run has a row, or none.
StartCheck ==
  /\ check = NoCheck /\ Spends("checks")
  /\ \E id \in 0..run : check' = [NoCheck EXCEPT !.at = "facts", !.run = id]
  /\ UNCHANGED <<pipeline, disk, catalog, generator, jobs, rows, reset, snapshot, history>>

\* table_count takes any exception for a missing table.
CountTable(table) ==
  /\ check.at = table
  /\ \E count \in {Count(table)} \cup {n \in {NoCount} : "query" \in Faults} :
       check' = [check EXCEPT !.at = IF table = "facts" THEN "mart" ELSE "query",
                              !.counts[table] = count]
  /\ UNCHANGED <<pipeline, disk, catalog, generator, jobs, rows, reset, snapshot, left, history>>

\* The queries that compare the mart with the facts; one that raises counts -1 mismatches.
RaisingAgrees == TRUE  \* deviation: the default is no mismatch
RaisingDisagrees == FALSE

MartAgrees ==
  IF Readable("facts") /\ Readable("mart")
    THEN disk[Generated("facts")].measure = disk[Generated("mart")].measure
    ELSE RaisingDisagrees

CompareMart ==
  /\ check.at = "query"
  /\ \E agrees \in {MartAgrees} \cup {a \in {RaisingDisagrees} : "query" \in Faults} :
       check' = [check EXCEPT !.at = "decide", !.agrees = agrees]
  /\ UNCHANGED <<pipeline, disk, catalog, generator, jobs, rows, reset, snapshot, left, history>>

EvalCount(p, table) == disk[Place("eval", p, table)].count

ExpectedMatch ==
  \A t \in ExpectedTables : check.counts[t] = Expected.count /\ EvalCount(pipeline, t) = Expected.count

\* deviation: the rows of layers and quality checks are not asked for
AnyRow(id) == id \in Runs /\ rows[id].pipeline >= 1
EnoughRows(id) ==
  /\ id \in Runs
  /\ rows[id].pipeline >= 1
  /\ rows[id].layer >= Cardinality(ExpectedTables)
  /\ rows[id].quality >= Cardinality(ExpectedTables)

\* The snapshot is compared with, unless it could not be read.  One is only there if its counts
\* were the expected ones.
Idempotent(id) ==
  \/ snapshot = NoSnapshot \/ snapshot.run = id
  \/ \A t \in TableNames : check.counts[t] = snapshot.counts[t]

Accepts(id, isRead) ==
  /\ ExpectedMatch /\ EnoughRows(id) /\ (isRead => Idempotent(id)) /\ check.agrees
  /\ \A t \in TableNames : check.counts[t] # NoCount
  /\ EvalCount("taxi", "facts") = Expected.count

\* A query of the rows that raises ends the verification as failures do.
Decide ==
  /\ check.at = "decide" /\ check' = NoCheck /\ quiet' = TRUE
  /\ \E isRead \in {TRUE} \cup {answer \in {FALSE} : "head" \in Faults},
        counted \in {TRUE} \cup {answer \in {FALSE} : "query" \in Faults} :
       IF counted /\ Accepts(check.run, isRead)
         THEN snapshot' = [run |-> check.run, counts |-> check.counts]
         ELSE UNCHANGED snapshot
  /\ UNCHANGED <<pipeline, disk, catalog, generator, jobs, rows, reset, left, published, again, raced>>

Driver == StartRun \/ Submit \/ Abandon
Job == \E job \in jobs : JobStep(job) \/ JobRaises(job)
Reset == StartReset \/ ResetStep \/ KillReset
Verify == StartCheck \/ (\E t \in TableNames : CountTable(t)) \/ CompareMart \/ Decide

Next == Driver \/ Job \/ Reset \/ Verify

Spec == Init /\ [][Next]_vars
-----------------------------------------------------------------------------
TypeOK ==
  /\ catalog \subseteq TableNames
  /\ run \in 0..MaxRuns /\ layer \in DOMAIN Layers /\ attempt \in 1..MaxAttempts
  /\ driver \in {"idle", "submit", "wait"}
  /\ \A job \in jobs : job.run \in 1..run /\ job.layer \in DOMAIN Layers
                       /\ job.at \in {"write", "register", "record", "verdict"}
  /\ reset \in 0..Len(ResetPlan)
  /\ check.at \in {"none", "decide", "query"} \cup TableNames
  /\ snapshot.run \in 0..run /\ check.run \in 0..run

\* Whatever the generated notebooks, the resets and the verifications do, the hand-built tables
\* of every pipeline and the metadata tables keep their contents, although the roots of the
\* generated tables lie inside those of the hand-built ones.
EvalIsUntouched == \A place \in Kept : disk[place] = Expected

\* As long as no job is active during a reset, every registered table has its data, in the
\* middle of a reset and after one that died too.
RegisteredHasData == raced \/ \A t \in catalog : Stored(t)

\* Unless the tables change while it reads them, what an accepted verification writes down is
\* what is there: every table readable, with these counts, and the mart agreeing with the facts.
AcceptedIsThere ==
  [][snapshot' # snapshot /\ quiet =>
       /\ \A t \in TableNames : Readable(t) /\ disk[Generated(t)].count = snapshot'.counts[t]
       /\ disk[Generated("facts")].measure = disk[Generated("mart")].measure]_vars

\* Where every table is expected, an accepted run that needed one attempt for each layer has
\* published every table: the rows it is asked for are not those of other attempts.
AcceptedRunIsComplete ==
  snapshot # NoSnapshot /\ ExpectedTables = TableNames /\ snapshot.run \notin again =>
    published[snapshot.run] = TableNames
=============================================================================
