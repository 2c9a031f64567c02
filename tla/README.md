# A TLA+ verification of de-assistant-databricks

The repository holds a job that asks a chat model to write bronze, silver and gold
notebooks from a brief, runs them as temporary Databricks jobs, and compares the tables
they publish with tables built by hand. This directory models the parts of it that keep
state and can go wrong in an order nobody tested, checks them with TLC on small
instances, and proves what matters most of them with TLAPS for every instance.

Paths below are relative to the repository; `DE/` stands for `DE-assistant-framework/`.

## 1. The system

| part | code | state it keeps | operations |
|---|---|---|---|
| generator run | `DE/orchestrator.py` | locals of `run_generator`: layer, attempt, `last_error`, `prior_messages`; on disk the notebooks and `spec/tested-pipelines.json`; rows of `run_errors` and `generator_runs`, attempt logs | one attempt: ask, check, write, execute, promote, record; retry or raise |
| tool loop | `DE/llm_agent.py`, `DE/llm_model.py` | the conversation of a layer | `run_tool_loop` |
| temporary job | `DE/executor.py`, `DE/job_assembler.py` | a job and its run at the Jobs service | submit, poll, cancel after the deadline, delete |
| static validation | `DE/validation.py` | none | `validate_layer`, `write_artifacts` |
| table publication | `DE/pipeline_helpers.py` | per table: data and registration of the published table and of its staging table | `stage_delta`, audit, `publish_staged` |
| metadata rows | `DE/metadata.py` | `pipeline_run`, `layer_run`, `data_quality` | `append_metadata_rows` |
| error store | `DE/retrieval.py` | `run_errors` | `persist_error`, `find_past_fix`, `get_last_error`, keyword search |
| tools for the model | `DE/tools.py` | none | reads |
| hand-built slices | `evals/*/slice.py` | the eval tables, `active_table`, metadata and error rows | build, audit and publish 8, 9 and 11 tables; verdict |
| verifier | `notebooks/verify_generated_eval.py`, `evals/common.py`, `evals/*/score.py` | a snapshot of counts | compare counts, marts and facts, rows of a run |
| reset | `notebooks/reset_generated_eval.py` | none of its own | drop the generated tables, remove their roots |
| storage paths | `load_paths` in `DE/pipeline_helpers.py` | none | the location of every table |
| raw landing | `notebooks/load_eval_raw.py`, `load_adls_raw.py` | raw files | download or generate, materialise as JSON lines, copy, look at |
| inspection, maintenance | other notebooks | none | print, optimize |
| configuration, paths, prompt | `DE/config.py`, `DE/workspace_paths.py`, `DE/prompts.py`, `databricks.yml`, `config/` | none | read once |

How they interact: the generator calls the tool loop, whose model calls the tools, which
read the stores and the repository; it submits the notebook it was given as a job, and
waits. The job runs beside the driver and publishes tables through the helpers, as the
slices do. Everything that lasts is shared by successive runs: notebooks and catalog on
disk, Delta tables, metadata, error rows, logs, and a job a run left behind. There are no
locks. Runs of one job of the bundle do not overlap (a job's default is one run at a
time), but generator, verifier, reset and landing are different jobs that may run beside each
other, and a temporary job outlives the driver that dies or stops waiting for it.

What is hard here: every call to the service, the model, the metastore or a store may
raise, before or after it has taken effect; exceptions pass through `finally` and
`except` clauses that call such services again; retries repeat what may already have
happened; a process may die anywhere; conditions over SQL NULL are neither true nor
false; removal of duplicates picks among ties. `PROJECT.json` lists 40 such hazards,
each at its line.

What makes each part correct:

- *generator run*: layers in order, a budget per layer, an end to every run; the model is
  told the last error and nothing stale; what is recorded as passed was executed; a
  failure is recorded; one job of a run at a time; the catalog names notebooks that passed.
- *table publication*: only audited rows become visible, in one step; a failed audit or a
  dead writer leaves the table alone; append and merge lose nothing; records are true.
- *slices*: a table is never built from another run's tables; every source row ends in
  exactly one place; facts are silver rows; marts sum up facts; a rerun changes no count;
  verdict and error rows tell how far a run came.
- *verifier*: accepts right tables, refuses others, about the run it claims to check; what it
  writes down is there.
- *tool loop*: every request answers the tool calls in it; an answer counts only if the
  required tools had answered before it.
- *error store*: advice is a fix that worked; a retry finds the error of its own layer.
- *reset and paths*: hand-built tables and metadata are out of reach of generated notebooks
  and of resets; a reset leaves no registered table without data.
- *landing*: a complete file is never overwritten by a later landing; the generated sample
  never stands beside a file of the hub.

## 2. Modules

| module | models | composes |
|---|---|---|
| `RetryContract` | what `run_generator` promises of its retry loop, without the steps of an attempt | |
| `Generator` | `run_generator`, `run_tool_loop` as one step, `execute_with_temp_job`, `promote_to_whitelist`, `_record_attempt`, the Jobs service, the death of the driver | implements `RetryContract`, uses `PastFix` |
| `PastFix` | `_latest_failed` and `find_past_fix` over the rows of the error table | |
| `GeneratorProofs` | theorems about `Generator`: its dialogue, order and contract; its notebooks, catalog, failures and past fixes | |
| `AtomicTable` | a published table that changes in one step per writer | |
| `TablePublish` | `stage_delta`, audit, metadata rows, `publish_staged` and `write_delta`, statement by statement | implements `AtomicTable` |
| `TablePublishProofs` | theorems about `TablePublish` | |
| `Sql` | NULL, joins, `row_number`, `group by` as Spark has them | |
| `TaxiFlow`, `TransactionFlow`, `RetailFlow` | what each slice writes to each table, and when it passes its audit | `Sql` |
| `VerifyGenerated` | the verifier's comparison of marts with facts | `Sql` |
| `SliceRun` | a run of a slice: order, failures, verdict, rerun | the three flows, `VerifyGenerated` |
| `SliceProofs` | theorems about the order, records and lineage of `SliceRun` | |
| `SqlProofs` | lemmas about the queries of `Sql` on finite tables | |
| `SliceTableProofs` | theorems about the contents of the tables of `SliceRun` and the three flows | `SliceProofs`, `SqlProofs` |
| `Storage` | `load_paths`: where the tables of each pipeline and output space are | |
| `Evaluation` | runs of the generator, their jobs, verifications and resets over the same generated tables | `Storage` |
| `EvaluationProofs` | theorems about `Storage` and `Evaluation` | |
| `RawLanding` | `load_eval_raw` with the files it leaves, started again after any failure | |
| `ToolLoop` | `run_tool_loop` turn by turn over the attempts at a layer, `tool_ledger`, `_require_prior_evidence` | |
| `ToolLoopProofs` | theorems about `ToolLoop` | |
| `MCGenerator`, `MCTablePublish`, `MCSliceRun`, `MCEvaluation` | the instances TLC checks; `MCEvaluation` holds `RawLanding` and `ToolLoop` as independent parts | |
| `MCEvaluationProofs` | theorems about `RawLanding`, and about the three parts of `MCEvaluation` side by side | `EvaluationProofs`, `ToolLoopProofs` |

### Generator

A notebook, an error and the content of a table are all identified with the attempt that
produced them, a record of run, layer and attempt: that is what the properties tell
apart. `pc` follows `run_generator`: `NextLayer` (the outer loop), `Prepare` (the past fix
and the prompt, lines 66-78), `ModelAnswers` and `LoopRaises` (`run_tool_loop` returns or
raises, with the conversation it hands back in the exception's `prior_messages`),
`Check`, `WriteArtifacts`, `SubmitJob`, `JobObserved` and `JobAbandoned` (the wait, its
deadline and the `finally`), `Promote`, `RecordOutcome`, `RecordPassedRow`, `LayerPassed`,
and for a failure `HandleFailure` and `RetryOrRaise`. `JobSucceeds` and `JobFails` are the
service's, at any time, also for a job nobody waits for any more. `Kill` is the death of
the driver. `Faults` says what may fail in an instance.

`prior` and `sent` are conversations as sets: the attempts whose answers and whose errors
they hold. Of an answer, the model keeps whether it is valid, invalid or shapeless (the
contract's keys with artifacts that are no objects).

### TablePublish

A table is data at a location, changed by atomic Delta commits, and a registration in the
metastore; each statement that can fail on its own is an action. A writer is one execution
of a notebook; a retry is another writer. `rowsFirst` is the order of the taxi slice, which
records SUCCESS before it publishes; the others do after. `audited` and `published` are
history variables. Rows are a grain key and the writer that brought them; schemas and
partitions are left out, a candidate's own checks may fail at any time.

### SliceRun and the flows

A flow gives for each table, in the order of `slice.py`, the tables it reads, its possible
contents given theirs (more than one where a window has ties), and whether it passes its
audit. `SliceRun` runs a flow over raw files: `BuildTable`, `AuditFails`, `QueryRaises`
(before `active_table` is set), `PublishRaises` (after), `Succeed`, `Except` (the `except`
clause, which may lose its own rows), `Kill`. To publish is one step: `TablePublish` has
the statements and `StagingImplementsAtomicTable` says why that is sound for one writer
at a time. `by` and `from` are history variables: the run that published a table, and
those that had published what it was built from.

Kept of a row is what a condition, a join or a key looks at. Kept of NULL is its logic:
a comparison with NULL is NULL, a filter keeps TRUE, a join matches TRUE, grouping puts
NULLs together, `FULL JOIN USING` does not. Amounts are whole numbers: a
sum has no rounding and does not depend on the order of its rows. `write_run_log` catches what
it meets and `notify` does nothing, so neither can end a run.

### PastFix

`Failures` are the rows `_latest_failed` looks at, `Fixes` the pairs of a failed attempt and
the next one that `find_past_fix` considers. Which pair has the best score is left open:
the properties hold for any choice. `Generator` evaluates them over the rows it has itself
written, in every state in which a real run would read them.

### Evaluation

A pipeline has two tables here, the facts of silver and the mart of gold; of their contents
the model keeps the number of rows and the measure the verifier compares over all groups.
The generator is reduced to what drives the jobs (`StartRun`, `Submit`, `NextLayer`,
`Retry`, `Abandon`); a job is the four statements in which a notebook publishes and records
a table (`Write`, `Register`, `RecordTable`, `RecordVerdict`, in the order the prompt
demands), and may raise at each. `ResetPlan` is the list of statements of
`reset_generated_eval.py`, taken one at a time. The verifier reads in several steps
(`CountTable` for each table, `CompareMart`), decides and keeps its snapshot in `Decide`.
What only history variables say: `published`, `again`, `raced` and `quiet`. `rows` counts no further than the verifier asks.

What the model shows of the code and no property denies, since no document promises more:
the verifier counts rows of failed attempts and of two attempts at one layer as those of one
complete run, and rows of two layers without looking at their table; where only bronze counts
are expected (transaction_cat and fresh_retail), a run that stopped after bronze can be
accepted over older tables of the other layers; verifying the run of the snapshot again, or
after the snapshot could not be read, skips the comparison, so that accepted counts may
differ from earlier accepted ones; and the staging tables of
generated notebooks, which no list names, stay registered after a reset.

### RawLanding

The files one landing leaves, `absent`, partial or complete, with the two lookups that take
any exception for "not there". A copy that fails half way leaves a file that later landings
take for landed and then fail to read: the landing is stuck until somebody removes it, but
never reports it; that is the guard of `Peeks` and no property repeats it. The generated
sample of a million rows stays once it has been landed in place of the download, and
`SampleStandsAlone` is about what a failed download and later landings do beside it.

### ToolLoop

What `Generator` has as one step, message by message: `Begin` (lines 52-71: a fresh
conversation, or a copy of the one that `run_generator` keeps, with the feedback), `Ask` (one
request and its answer), `CallTool` (one call of the reply), `RoundsOver`, `CheckEvidence` and
`NextAttempt`. A conversation is a sequence of messages; a call is known by its place, which
stands for the id the endpoint gave it, and a tool by the group of evidence it belongs to. A
tool that raises is answered like any other; a call without function, name or id raises
outside the `try`, nobody carries the messages, and the caller goes on from the conversation
it had. That is only sound because the loop appends to a copy: `CallsAreAnswered` says that
no request has calls without results, which the endpoint would refuse, and
`EvidenceWasSeen` that the names counted by the ledger belong to calls whose results, or
errors, the model had seen.

## 3. Runs

`tlc -config <run>.cfg <MC module>`. Deadlock is not checked: all systems here may stop.

| run | instance | shows |
|---|---|---|
| `gen_faults` | one run, two layers, three attempts, every fault of endpoint, disk, service, catalog, error table | fresh feedback, order of layers, recorded failures, stable notebooks, an end to every run, `RetryContract` |
| `gen_runs` | two runs, one layer, two attempts; timeouts, runs the service cancels, failing stores and catalog, killed drivers; polls, submissions, `cancel_run` and the deletion of a job answer | passed means executed, one job per run at a time, conversation kept, records form a history, nothing generated past a torn catalog |
| `publish_serial` | three writers in turn, two keys, all write modes, all faults but unreadable tables | audited, atomic, lossless, true records, visible when done |
| `evaluation` | rounds of up to two generator runs, two verifications, a reset, an abandoned job and a retry, for a pipeline with every count expected and one with bronze counts only; three landings; a conversation of three attempts with three turns each; every fault | hand-built tables out of reach, no registered table without data, accepted counts true, accepted runs complete; complete files landed once, the generated sample apart from files of the hub; calls answered in every request, evidence seen before an answer counts |
| `slices` | two runs of each slice over 255 raw file sets of up to four rows a file, all faults | the properties of section 1 for slices |
| `viol_unrecorded` | an answer with shapeless artifacts | the failed attempt is neither recorded nor retried |
| `viol_catalog` | a promoted layer generated again | the catalogued notebook has not passed |
| `viol_cleanup` | a deadline and a `jobs.delete` that raises | two jobs of one run at once |
| `viol_append` | a published table that cannot be read for a moment | an append loses every earlier row |
| `viol_staging` | two writers at once | unaudited rows are published |
| `viol_null_currency` | a transaction with a country and no currency | it is not rejected |
| `viol_category` | a product that changes its category | the verifier refuses the hand-built tables |

The bounds, and why they are enough. Two layers are the least with an order and a reset
between them; three attempts the least with a retry after a retry; two runs the least with
something left over. Three writers let one repair what another left before a third reads
it; two keys are a collision and a survivor. The raw files are put together from rows that
get in each other's way: copies, ties, NULL in every key and condition, unknown names,
unknown and ambiguous zones, attributes that change from day to day, the same keys in both
splits or services. Amounts are powers of two, so a sum tells which rows are in it. The
second run of a slice starts from what every possible failure of the first left behind.

A round of `evaluation` draws its budget from `BudgetSet`: each pair of runs, verifications,
resets, abandoned jobs and retries meets in some budget, all at once are out of TLC's reach
(the theorems of section 5 have no such bound). A conversation needs three attempts: one to
be kept, one to break off in the middle of its calls, and one to send what was left; its
replies hold every group of tools, and calls without name or id first and last. The pipelines differ only in what the verifier
expects, so the second one takes part only where there are two verifications. Counts and
measures are the expected value and another one. Three landings are one that fails, one that
finds what is left and one that finds a landed file.

Fairness is used by `gen_faults` alone: weak fairness of the driver, a sequential program
each of whose calls returns or raises (the client and the service have timeouts), and of
the service, which ends every run of a job. Nothing is assumed about which way a call
ends. Killing, faults and the start of runs are not fair. All other runs check safety and
need none.

## 4. Findings

- `viol_unrecorded`: recording an attempt reads the artifacts of an answer that was refused
  because they are no objects, and raises inside the `except` clause (`DE/orchestrator.py:281`).
- `viol_catalog`: `write_artifacts` overwrites the file a catalog entry names before the new
  notebook has been executed (`DE/orchestrator.py:97`).
- `viol_cleanup`: an exception of `jobs.delete` replaces the `TimeoutError` that would have
  ended the run (`DE/executor.py:146`), and the attempt is retried beside its own job. So
  does an exception of `cancel_run`, which comes before the `TimeoutError` is raised (line
  142): with the fault `cancel` for `cleanup` in its cfg, the run finds that trace.
- `viol_append`: every failure to read the published table counts as its absence
  (`DE/pipeline_helpers.py:355`).
- `viol_staging`: `publish_staged` reads the staging location again; there is one per table
  and no lock (`DE/pipeline_helpers.py:389`).
- `viol_null_currency`: `isNull() | (a != b)` is NULL when only `a` is
  (`evals/transaction_cat/slice.py:359`).
- `viol_category`: the slice groups by the product's latest category, the verifier by the
  row's own (`notebooks/verify_generated_eval.py:253`).

## 5. Proofs

`tlapm <module>.tla` checks every step of the eight proof modules; nothing is assumed but the
named assumptions on constants.

*Generator.* `TypeInv` is `TypeOK` with where control can be (an attempt has a layer). On it
rest, each with its own strengthening:

- `PassedIsExecuted`: `ExecInv` adds that control beyond the job means this attempt's job
  succeeded. An attempt is recorded as passed three steps after its job ended, so the
  invariant has to hold the fact in between.
- `ErrorReachesTheModel`: `DialogueInv` ties `prior` and `lastError` to the number of the
  attempt at every point of control, also while an exception is handled.
- `NoExchangeIsLost`: `KeptInv` says `prior` is complete whenever an attempt begins; it needs
  the absence of malformed tool calls, whose `KeyError` carries no conversation.
- `RecordsAreAHistory`: `HistoryInv` bounds every record by the position of the run, and says
  which of the stores may already have the current attempt; `AddRecord` is the lemma for
  the five actions that write one.
- `NoRaceWithinARun`: under `ReliableService` (polls and submissions are answered, and after a
  deadline neither `cancel_run` nor the deletion of the job fails), `JobInv` says that only a waiting driver has a job of its run; giving up ends the run.
  `viol_cleanup` shows what happens without the last clause.
- `LayersAreInOrder`: `OrderInv`, the layers before the current one have passed in this run;
  it uses `LayersDistinct`.
- `GeneratorImplementsRetryContract`: every step maps to one of `RetryContract` or a stutter.

*TablePublish.* `PublishTypeCorrect`; `FailedChecksPublishNothing` and `SuccessRowsAreTrue`
from `RecordsInv`, which says of each writer what it has recorded and published by where it
is, and holds with any overlap and any fault; `OnlyAuditedRowsArePublished` and
`StagingImplementsAtomicTable` from `StagingInv`, under `KeptApart` (no overlap, a readable
table): between its audit and its publication the staging table holds what a writer put
there, computed from rows that are still published. `viol_staging` and `viol_append` show
that neither half of `KeptApart` can be left out. `KeysSurvive` follows from `StagingInv` and
what each write mode keeps (`ProposedKeeps`); `DoneLeavesRows` from `VisibleInv`, which holds
of a writer from its publication on: its rows are in the table, and after the `CREATE TABLE`
the table is registered, because nobody else is at work to replace the one or drop the other.

*Generator, outcomes.* `PassedNotebookIsStable`, `PublishedByThePassedAttempt` and
`FailureIsRecorded` from `PassedInv`, `PublishedInv` and `FailureInv`. The second needs
`ReliableService` too (submissions, polls and what follows a deadline are answered, so that
no job is left running behind a later attempt); the third and `RetryFindsItsLayersError` need `ReliableRecords` (no store
write is lost and no answer is shapeless), without which `viol_unrecorded` is real.
`RetryFindsItsLayersError` and `AdviceIsAFixThatWorked`: the error table holds, for a run and
a layer, consecutive failed attempts and then perhaps one that passed, so the row that
`find_past_fix` pairs with a failure is the one that passed right after it.
`NothingPassesATornCatalog` from `TornInv`: control gets behind the check of the evidence only
with a catalog that can be read, and the step that tears it raises.

*SliceRun*, for all raw files and whatever the flows put into tables. `WellOrdered` is proved
of each pipeline from its list of tables: a table comes once, and after everything it reads.
`SliceTypes`; `SuccessIsComplete`, `ErrorRowSplitsTheTables` and `BuiltFromOwnRun` from
`RunInv`: the tables before `next` are this run's and recorded, those behind `active` are
not, and a run in progress has no error row yet.

*Storage and Evaluation.* `EvalIsNotBelowGenerated` and `MetadataIsNotBelowGenerated` compare
paths element by element: a layer is never named like a namespace or `generated`. From them
`EvalIsUntouched`. `RegisteredHasData` from `RegisteredInv`: a job about to register has
written, and a reset has dropped every table before it removes the root. `AcceptedIsThere`
from `CheckInv`: until a table changes, each number the verifier has read is what is there or
what it takes for a failure. `AcceptedRunIsComplete` from `OnceInv`: a run with one attempt for each
layer has one job at a time, which records its table once and after publishing it, so two
rows of layers are two published tables. These hold for any budget.

*ToolLoop*, for replies that are sequences of calls. `RequestsAreAnswered` from `SettledInv`:
the conversation that is kept and the one last sent are settled, and while the calls of a
reply are handled the messages are settled up to the call that is next; the lemmas say what
each kind of message adds. `AcceptedAnswersSawEvidence` adds that a checked answer is the
reply to the latest request, so what the ledger counts was in it.

*RawLanding and MCEvaluation.* `SampleIsAlwaysAlone` from `StaysApart`: a download starts only
when both files are said to be missing, and the sample is written after what is left of a
failed one has been removed. `CompleteFilesAreKept`:
every write to a file of the slices is behind an `exists()` that has said the file is missing.
Both are proved of the landing as it stands in `MCEvaluation`. `PartsStep` says that a step of
`MCEvaluation` is a step or a stutter of each of its three parts, so `RoundIsOne` carries the
theorems of `Evaluation` over, and `LoopIsOne` (action by action) those of `ToolLoop`:
`CallsAreAlwaysAnswered`, `EvidenceWasAlwaysSeen`, and `TypesAreAlwaysOK` for all three.

*The tables of the slices* (`SliceTableProofs`), for all raw files, numbers of runs and faults.
At any time the catalog has tables of different runs, of which some failed between two tables.
What can be said of them rests on `TablesInv`: for every run there is a catalog `T` that an
undisturbed run on the same files could have published (`Lawful`), and what the run has
published is what `T` has. It is inductive because a table depends only on the tables before
it in the order (`ReadsEarlier`) and those are of the same run (`BuiltFromOwnRun`); a run that
is cut off has published an initial part of such a `T`. TLC cannot evaluate `TablesInv`, which
speaks of all catalogs, but checks the five properties that follow:

- `RowsAreAlwaysAccountedFor` and `RejectionsAreDeserved`: keeping the first row of each
  partition keeps exactly one of each identity (`KeptRows`), so a row is in the dead letter
  because of itself or of a kept copy; a trip only because of itself, since the taxi slice
  leaves copies out without a trace. For the transactions, whether a staged row is rejected
  does not depend on which row of an alias the lookup has kept (`VerdictOnRaw`).
- `FactsAlwaysExtendSilver`: the audits of the dimensions leave at most one partner for a
  row (`UniqueKey`), and an outer join then gives one fact for each silver row.
- `MartsAlwaysAgreeWithFacts`: the key of a mart and the coarser key the verifier groups by
  split the facts alike, since the attributes that come from a dimension depend on the rest
  (`OneCity`, `KeysOfTransactionFacts`), and no other column of the key is NULL, which the
  verifier's `FULL JOIN USING` would not match. So the marts by month and by store always
  agree as the verifier compares them. The mart by country may have groups without a
  currency: it agrees with NULL as a group (`CategoryCountryMart`), and as the verifier
  compares it when every fact has a currency. The mart of the categories is grouped by the
  category of the product's latest day and agrees by that one (`CategoryDailyMart`); the
  verifier groups by the category of the sale, and is satisfied when every sale has one and
  it is its product's. `viol_category` shows that the condition is needed.
- `RerunsAlwaysKeepCounts`: each two undisturbed runs on the same files publish tables of the
  same size. The retail slice publishes the same rows: of two rows of which neither comes
  before the other (`RankTies`) a dimension keeps columns they agree on. The taxi slice may
  keep another copy of a trip, and its counts depend on the identities of the trips alone
  (`SameTrips`, `SameMonths`). The transactions do under `OneCategoryPerAlias`: no alias is
  claimed by two categories, which holds of `CATEGORY_TAXONOMY` in `load_eval_raw.py`:45-106.
  Without it the theorem is false: `dropDuplicates(["alias_norm"])` (`slice.py`:313) keeps any
  row of an alias, the reruns may name different categories, and the mart by category and
  country has as many rows as there are pairs.

Induction over a set of rows, where a proof needs it, is an argument about a smallest
counterexample: `MinimalElement` takes the smallest set without a first row.

The assumptions are those the code makes: `NullAssumption` and `LiteralsAssumption` (NULL is
not a number, a truth value or one of the strings the slices write themselves),
`RawsAssumption` (each raw file `IsRaw`: finite, with the columns of the slice, numbers where
`typed()` casts, one id for a place in a file, and the two lookups that the landing writes
complete), `LandingsAssumption` (a natural bound).

Only model-checked: liveness (`EveryRunEnds`, the fairness part of
`ImplementsRetryContract`), which the prover does not reach. Every safety property and every
action property of the passing runs is a theorem.

## 6. Not modelled

The text of prompts, notebooks and errors; the syntactic rules of `validate_layer`; token
usage and cache markers of requests; roots of raw files, logs and
checkpoints, and secrets; schemas, types and partitions of tables; the tools for the model,
which read and keep nothing (`_load_successful_runs` orders by columns that the tables it
reads may lack, and answers with an error then); `load_adls_raw`, inspection and maintenance
notebooks. `PROJECT.json` gives the reason for each.

## 7. Plan

Done, in this order: the generator with its contract and proofs, table publication with its
abstract table and proofs, the slices with the verifier's queries and proofs, the error
table, the round of evaluation with the reset and the paths, the landing, the conversation.
What could follow:

1. `Evaluation` over the statements of `TablePublish` instead of its two, with the staging
   tables that a reset leaves behind.
