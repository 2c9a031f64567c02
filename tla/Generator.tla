------------------------------ MODULE Generator ------------------------------
(***************************************************************************)
(* The layer generator: run_generator of orchestrator.py.                  *)
(*                                                                         *)
(* A run walks through config.layers in order.  For each layer it makes up *)
(* to MaxAttempts attempts: ask the model for a notebook, check it, write  *)
(* it to disk, run it as a temporary job, optionally promote it, record    *)
(* the attempt.  Runs follow one another and share everything that is      *)
(* durable: the notebook files, the catalog of tested pipelines, the error *)
(* table, the attempt logs, the generator_runs table, the published        *)
(* tables, and the temporary jobs a run may leave behind.                  *)
(*                                                                         *)
(* A notebook, an error message and a table content are all identified     *)
(* with the attempt that produced them (an element of Id).                 *)
(***************************************************************************)
EXTENDS Naturals, Sequences, FiniteSets, PastFix

CONSTANTS
  LayerNames,          \* every string config.layers may hold
  Supported,           \* LAYERS of config.py
  Layers,              \* config.layers, in the order they are generated
  MaxAttempts,         \* config.max_attempts
  ExecuteGenerated,    \* config.execute_generated
  PromoteToWhitelist,  \* config.promote_to_whitelist
  HasSpark,            \* run_generator was given a Spark session
  MaxRuns,             \* bound: how many runs of the generator are started
  Faults               \* what may go wrong outside the program, see AllFaults

AllFaults == {
  "endpoint",        \* the model endpoint raises; "stuck" when it times out
  "malformed_call",  \* a tool call without function or name: KeyError
  "shapeless",       \* JSON with the contract keys whose artifacts are no objects
  "disk",            \* write_artifacts raises
  "submit",          \* mkdirs, upload, create or run_now raises
  "timeout",         \* the job outlives timeout_seconds
  "cancel",          \* cancel_run raises after the deadline
  "cancelled",       \* somebody cancels the job
  "poll",            \* get_run raises while the job runs
  "cleanup",         \* jobs.delete raises in the finally block
  "catalog",         \* promote_to_whitelist raises
  "store_read",      \* the error table cannot be read: ErrorStoreError
  "store_write",     \* a metadata, error or log write raises
  "kill" }           \* the driver process dies

ASSUME LayersAssumption == Layers \in Seq(LayerNames) /\ Supported \subseteq LayerNames
ASSUME LayersDistinct == \A i, j \in 1 .. Len(Layers) : Layers[i] = Layers[j] => i = j
ASSUME BoundsAssumption == MaxAttempts \in Nat /\ MaxRuns \in Nat
ASSUME FlagsAssumption ==
  {ExecuteGenerated, PromoteToWhitelist, HasSpark} \subseteq BOOLEAN
ASSUME FaultsAssumption == Faults \subseteq AllFaults

VARIABLES
  \* The driver: locals of run_generator, lost when the process ends.
  pc,         \* control location
  run,        \* pipeline_run_id
  li,         \* position in config.layers
  attempt,    \* loop variable
  lastError,  \* last_error: the attempt whose error it is, 0 for None
  prior,      \* prior_messages
  sent,       \* the conversation the model was given in the latest attempt
  draft,      \* generated: what the model returned
  exc,        \* the exception being handled
  result,     \* result_state of the job being waited for
  \* Durable.
  file,       \* output_root/notebooks/<layer>.py
  catalog,    \* visible entries of spec/tested-pipelines.json, by layer
  torn,       \* that file was truncated by a write that did not finish
  rows,       \* de_assist.run_errors, rows of the generator
  logs,       \* generator/<run>/<layer>/attempt-<n>.json
  runRows,    \* generator_runs, at config.metadata_path
  tables,     \* the attempt whose job last published the layer's tables
  active,     \* temporary job runs that have not ended
  \* History, for the properties.
  succeeded,  \* attempts whose job ended in SUCCESS
  passed      \* attempts whose outcome was appended to outcomes

position == <<run, li, attempt>>
dialogue == <<lastError, prior, sent, draft>>
repo     == <<file, catalog, torn>>
records  == <<rows, logs, runRows>>
jobs     == <<tables, active, succeeded>>
vars     == <<pc, position, dialogue, exc, result, repo, records, jobs, passed>>

(***************************************************************************)
(* Types.                                                                  *)
(***************************************************************************)
Id == [run : 0 .. MaxRuns, layer : LayerNames, attempt : 0 .. MaxAttempts]

\* What was in the workspace before the first run of the model.
Original(l) == [run |-> 0, layer |-> l, attempt |-> 0]

Conversation == [errors : SUBSET (1 .. MaxAttempts),  \* errors told to the model
                 turns  : SUBSET (1 .. MaxAttempts),  \* attempts whose messages are kept
                 evidence : BOOLEAN]                  \* all required tools were called

NoMessages == [errors |-> {}, turns |-> {}, evidence |-> FALSE]

Record(status) == [id : Id, status : status]

Ended   == {"idle", "done", "raised", "aborted", "killed"}
Running == {"layer", "prepare", "loop", "check", "write", "execute", "wait", "promote",
            "handle", "failLog", "passMeta", "passRow", "passLog"}

Layer == Layers[li]
Now   == [run |-> run, layer |-> Layer, attempt |-> attempt]

\* The except clause of the attempt: control moves to it with an exception that
\* _non_retryable classifies by type and text.
Raise(kind) == pc' = "handle" /\ exc' = kind

\* The text of an exception from outside may or may not speak of a timeout.
RaiseOutside == \E kind \in {"retryable", "stuck"} : Raise(kind)

Fault(f) == f \in Faults

(***************************************************************************)
(* A run.                                                                  *)
(***************************************************************************)
Init ==
  /\ pc = "idle" /\ run = 0 /\ li = 1 /\ attempt = 0 /\ lastError = 0
  /\ prior = NoMessages /\ sent = NoMessages
  /\ draft = "none" /\ exc = "none" /\ result = "none"
  /\ file = [l \in LayerNames |-> Original(l)]
  /\ catalog \in {{}, Supported} /\ torn = FALSE
  /\ rows = {} /\ logs = {} /\ runRows = {}
  /\ tables = [l \in LayerNames |-> Original(l)]
  /\ active = {}
  /\ succeeded = {Original(l) : l \in LayerNames}
  /\ passed = {Original(l) : l \in LayerNames}

\* A new pipeline_run_id; the limit on attempts is checked before any layer.
StartRun ==
  /\ pc \in Ended /\ run < MaxRuns
  /\ pc' = IF MaxAttempts < 1 THEN "aborted" ELSE "layer"
  /\ run' = run + 1 /\ li' = 1 /\ attempt' = 0 /\ lastError' = 0
  /\ prior' = NoMessages /\ sent' = NoMessages
  /\ draft' = "none" /\ exc' = "none" /\ result' = "none"
  /\ UNCHANGED <<repo, records, jobs, passed>>

\* What the head of the loop over config.layers forgets.
KeptAcrossLayers == UNCHANGED <<prior, lastError>>  \* deviation: initialised before the loop
FreshLayer == prior' = NoMessages /\ lastError' = 0

NextLayer ==
  /\ pc = "layer"
  /\ pc' = IF li > Len(Layers) THEN "done"
           ELSE IF Layer \in Supported THEN "prepare" ELSE "aborted"
  /\ attempt' = IF pc' = "prepare" THEN 1 ELSE attempt
  /\ FreshLayer
  /\ UNCHANGED <<run, li, sent, draft, exc, result, repo, records, jobs, passed>>

\* Retry feedback.  find_past_fix stands outside the try: its ErrorStoreError
\* leaves run_generator.
Prepare ==
  /\ pc = "prepare"
  /\ \/ pc' = "loop"
     \/ Fault("store_read") /\ HasSpark /\ lastError # 0 /\ pc' = "aborted"
  /\ draft' = "none" /\ exc' = "none" /\ result' = "none"
  /\ UNCHANGED <<position, lastError, prior, sent, repo, records, jobs, passed>>

(***************************************************************************)
(* The model.  A fresh conversation carries the last error in its system   *)
(* prompt, a continued one in a new user message.                          *)
(***************************************************************************)
Messages == [errors |-> prior.errors \cup ({lastError} \ {0}),
             turns |-> prior.turns,
             evidence |-> prior.evidence]

\* The conversation after the tool loop, tool calls included.
Conversed(evidence) ==
  [errors |-> Messages.errors,
   turns |-> Messages.turns \cup {attempt},
   evidence |-> Messages.evidence \/ evidence]

\* run_tool_loop returns an object.
ModelAnswers ==
  /\ pc = "loop" /\ pc' = "check"
  /\ sent' = Messages
  /\ \E evidence \in BOOLEAN : prior' = Conversed(evidence)
  /\ draft' \in {"valid", "invalid"} \cup {d \in {"shapeless"} : Fault(d)}
  /\ UNCHANGED <<position, lastError, exc, result, repo, records, jobs, passed>>

\* The exceptions of the tool loop carry its messages.
CarriesNothing == UNCHANGED prior  \* deviation: they are plain exceptions
CarriesMessages == \E evidence \in BOOLEAN : prior' = Conversed(evidence)

\* No JSON in the answer, tool rounds exhausted, or the endpoint raises.  A
\* malformed call raises a KeyError that carries nothing.
LoopRaises ==
  /\ pc = "loop"
  /\ sent' = Messages
  /\ \/ Raise("retryable") /\ CarriesMessages
     \/ Fault("endpoint") /\ RaiseOutside /\ CarriesMessages
     \/ Fault("malformed_call") /\ Raise("retryable") /\ prior' = prior
  /\ UNCHANGED <<position, lastError, draft, result, repo, records, jobs, passed>>

\* _visible_tested_catalog, which cannot parse a truncated file, and
\* _require_prior_evidence.
TornIsEmpty == torn \/ catalog = {} \/ prior.evidence  \* deviation: no entries, no evidence
HasEvidence == ~torn /\ (catalog = {} \/ prior.evidence)

\* That, then validate_layer.
Check ==
  /\ pc = "check"
  /\ IF HasEvidence /\ draft = "valid"
       THEN pc' = "write" /\ exc' = exc
       ELSE Raise("retryable")
  /\ UNCHANGED <<position, dialogue, result, repo, records, jobs, passed>>

\* write_artifacts overwrites the layer's notebook before it has been executed.
WriteArtifacts ==
  /\ pc = "write"
  /\ \/ /\ file' = [file EXCEPT ![Layer] = Now]
        /\ pc' = (IF ExecuteGenerated THEN "execute" ELSE "promote") /\ exc' = exc
     \/ Fault("disk") /\ Raise("retryable") /\ file' \in {file, [file EXCEPT ![Layer] = Now]}
  /\ UNCHANGED <<position, dialogue, result, catalog, torn, records, jobs, passed>>

(***************************************************************************)
(* The temporary job: execute_with_temp_job as the driver sees it.         *)
(***************************************************************************)
\* run_now may raise after the service has started the run.
SubmitJob ==
  /\ pc = "execute"
  /\ \/ pc' = "wait" /\ exc' = exc /\ active' = active \cup {Now}
     \/ Fault("submit") /\ RaiseOutside /\ active' \in {active, active \cup {Now}}
  /\ UNCHANGED <<position, dialogue, result, repo, records, tables, succeeded, passed>>

\* An exception of jobs.delete in the finally block replaces whatever was
\* returned or raised before it.
Finally(kind) == Raise(kind) \/ (Fault("cleanup") /\ RaiseOutside)

AnyEnd == TRUE  \* deviation: any terminal state counts as the end of a good run
GoodEnd == result = "SUCCESS"

JobObserved ==
  /\ pc = "wait" /\ result # "none"
  /\ \/ GoodEnd /\ pc' = "promote" /\ exc' = exc
     \/ GoodEnd /\ Fault("cleanup") /\ RaiseOutside
     \/ ~GoodEnd /\ result = "FAILED" /\ (Finally("retryable") \/ RaiseOutside)
     \/ ~GoodEnd /\ result = "CANCELED" /\ Finally("stuck")
  /\ UNCHANGED <<position, dialogue, result, repo, records, jobs, passed>>

\* The deadline passes, or a poll raises: the run is asked to stop (cancel_run,
\* or the deletion of its job) but nobody waits until it has.  cancel_run comes
\* before the TimeoutError is raised: its own exception takes that one's place.
JobAbandoned ==
  /\ pc = "wait"
  /\ \/ Fault("timeout") /\ (Finally("stuck") \/ (Fault("cancel") /\ RaiseOutside))
     \/ Fault("poll") /\ RaiseOutside
  /\ UNCHANGED <<position, dialogue, result, repo, records, jobs, passed>>

\* promote_to_whitelist adds the layer's entry, or replaces it, by rewriting the
\* file in place.
Promote ==
  /\ pc = "promote"
  /\ \/ /\ pc' = "passMeta" /\ exc' = exc /\ UNCHANGED torn
        /\ catalog' = IF PromoteToWhitelist THEN catalog \cup {Layer} ELSE catalog
     \/ /\ Fault("catalog") /\ PromoteToWhitelist /\ Raise("retryable")
        /\ torn' \in {torn, TRUE} /\ UNCHANGED catalog
  /\ UNCHANGED <<position, dialogue, result, file, records, jobs, passed>>

(***************************************************************************)
(* Recording the attempt.  Store writes that fail are swallowed.           *)
(***************************************************************************)
Recorded(store, status) ==
  IF HasSpark THEN {store \cup {[id |-> Now, status |-> status]}}
                   \cup {s \in {store} : Fault("store_write")}
              ELSE {store}

\* _generated_code calls .get on every artifact: artifacts that are no objects
\* raise out of the except clause.
RaisesUnrecorded == draft = "shapeless" \/ exc = "stuck"  \* deviation: raise, then record
Unrecordable == draft = "shapeless"

\* The except clause up to persist_error.
HandleFailure ==
  /\ pc = "handle"
  /\ lastError' = attempt
  /\ IF Unrecordable
       THEN pc' = "aborted" /\ UNCHANGED rows
       ELSE pc' = "failLog" /\ rows' \in Recorded(rows, "FAILED")
  /\ UNCHANGED <<position, prior, sent, draft, exc, result, repo, logs, runRows, jobs, passed>>

StuckIsRetried == attempt = MaxAttempts              \* deviation
GivesUpLate == exc = "stuck" \/ attempt > MaxAttempts  \* deviation
GivesUp == exc = "stuck" \/ attempt = MaxAttempts

SkipLayer == pc' = "layer" /\ li' = li + 1 /\ UNCHANGED attempt  \* deviation
GiveUp == pc' = "raised" /\ UNCHANGED <<li, attempt>>

UncountedRetry == pc' = "prepare" /\ UNCHANGED <<li, attempt>>  \* deviation
NextAttempt == pc' = "prepare" /\ attempt' = attempt + 1 /\ UNCHANGED li

\* The attempt log, then the decision to retry.
RetryOrRaise ==
  /\ pc = "failLog"
  /\ logs' \in Recorded(logs, "FAILED")
  /\ IF GivesUp THEN GiveUp ELSE NextAttempt
  /\ UNCHANGED <<run, dialogue, exc, result, repo, rows, runRows, jobs, passed>>

RecordOutcome ==
  /\ pc = "passMeta" /\ pc' = "passRow"
  /\ runRows' \in Recorded(runRows, "PASSED")
  /\ UNCHANGED <<position, dialogue, exc, result, repo, rows, logs, jobs, passed>>

RecordPassedRow ==
  /\ pc = "passRow" /\ pc' = "passLog"
  /\ rows' \in Recorded(rows, "PASSED")
  /\ UNCHANGED <<position, dialogue, exc, result, repo, logs, runRows, jobs, passed>>

\* The break out of the attempts.
NoBreak == IF attempt = MaxAttempts THEN SkipLayer ELSE NextAttempt  \* deviation
Break == pc' = "layer" /\ li' = li + 1 /\ UNCHANGED attempt

\* The attempt log, outcomes.append and the break to the next layer.
LayerPassed ==
  /\ pc = "passLog"
  /\ logs' \in Recorded(logs, "PASSED")
  /\ passed' = passed \cup {Now}
  /\ Break
  /\ UNCHANGED <<run, dialogue, exc, result, repo, rows, runRows, jobs>>

(***************************************************************************)
(* The Jobs service.  A run ends with or without having published the      *)
(* tables of its layer; only a SUCCESS has certainly published them.       *)
(***************************************************************************)
EndOfJob(id, state) ==
  /\ active' = active \ {id}
  /\ result' = IF pc = "wait" /\ id = Now THEN state ELSE result

JobSucceeds(id) ==
  /\ EndOfJob(id, "SUCCESS")
  /\ tables' = [tables EXCEPT ![id.layer] = id]
  /\ succeeded' = succeeded \cup {id}
  /\ UNCHANGED <<pc, position, dialogue, exc, repo, records, passed>>

JobFails(id) ==
  /\ EndOfJob(id, "FAILED") \/ (Fault("cancelled") /\ EndOfJob(id, "CANCELED"))
  /\ tables' \in {tables, [tables EXCEPT ![id.layer] = id]}
  /\ UNCHANGED <<pc, position, dialogue, exc, repo, records, succeeded, passed>>

\* The driver process dies, perhaps while it rewrites the catalog; its job goes on.
Kill ==
  /\ Fault("kill") /\ pc \in Running /\ pc' = "killed"
  /\ torn' \in {torn, torn \/ (pc = "promote" /\ PromoteToWhitelist)}
  /\ UNCHANGED <<position, dialogue, exc, result, file, catalog, records, jobs, passed>>

Driver ==
  \/ NextLayer \/ Prepare \/ ModelAnswers \/ LoopRaises \/ Check \/ WriteArtifacts
  \/ SubmitJob \/ JobObserved \/ JobAbandoned \/ Promote
  \/ HandleFailure \/ RetryOrRaise \/ RecordOutcome \/ RecordPassedRow \/ LayerPassed

Service == \E id \in active : JobSucceeds(id) \/ JobFails(id)

Next == StartRun \/ Driver \/ Service \/ Kill

\* The driver is a sequential program whose calls return or raise, and the
\* service ends every run.
Fairness == WF_vars(Driver) /\ WF_vars(Service)

Spec == Init /\ [][Next]_vars /\ Fairness
-----------------------------------------------------------------------------
(***************************************************************************)
(* Properties.                                                             *)
(***************************************************************************)
TypeOK ==
  /\ pc \in Ended \cup Running
  /\ run \in 0 .. MaxRuns /\ li \in 1 .. Len(Layers) + 1 /\ attempt \in 0 .. MaxAttempts
  /\ lastError \in 0 .. MaxAttempts
  /\ prior \in Conversation /\ sent \in Conversation
  /\ draft \in {"none", "valid", "invalid", "shapeless"}
  /\ exc \in {"none", "retryable", "stuck"}
  /\ result \in {"none", "SUCCESS", "FAILED", "CANCELED"}
  /\ file \in [LayerNames -> Id] /\ tables \in [LayerNames -> Id]
  /\ catalog \subseteq LayerNames /\ torn \in BOOLEAN
  /\ \A store \in {rows, logs, runRows} :
       store \subseteq [id : Id, status : {"FAILED", "PASSED"}]
  /\ active \subseteq Id /\ succeeded \subseteq Id /\ passed \subseteq Id

\* Control is between the tool loop and the end of the attempt.
Answered == Running \ {"layer", "prepare", "loop"}

\* What the model is given in an attempt holds the error of the attempt just
\* before it, and nothing of another layer or of an attempt still to come:
\* last_error and prior_messages are reset per layer and kept per attempt.
ModelIsToldTheLastError ==
  pc \in Answered =>
    /\ sent.errors \subseteq 1 .. attempt - 1 /\ sent.turns \subseteq 1 .. attempt - 1
    /\ attempt > 1 => attempt - 1 \in sent.errors

\* Unless a tool call was malformed, the conversation of a retry still holds the
\* messages and the error of every earlier attempt of the layer, whatever
\* the exception that ended it.
ConversationIsKept ==
  pc \in Answered /\ ~Fault("malformed_call") =>
    sent.turns = 1 .. attempt - 1 /\ sent.errors = 1 .. attempt - 1

\* With execution on, an attempt that is recorded as PASSED anywhere, or
\* returned, is one whose temporary job ended in SUCCESS.
PassedWasExecuted ==
  ExecuteGenerated =>
    /\ passed \subseteq succeeded
    /\ \A r \in rows \cup logs \cup runRows : r.status = "PASSED" => r.id \in succeeded

\* What find_past_fix relies on: over all the stores an attempt has one status,
\* and a PASSED attempt is the last one of its layer in its run.
RecordsFormAHistory ==
  \A r, s \in rows \cup logs \cup runRows :
    /\ r.id = s.id => r.status = s.status
    /\ /\ r.id.run = s.id.run /\ r.id.layer = s.id.layer
       /\ r.status = "PASSED"
       => s.id.attempt <= r.id.attempt

\* A diff find_past_fix calls proven is between two attempts of one run and layer, the
\* later of which is the last of its layer there and ran as a job that ended in SUCCESS:
\* also when records are lost, drivers die, and runs share the error table.
AdviceIsAFixThatWorked ==
  ExecuteGenerated => \A l \in LayerNames : \A fix \in Fixes(rows, l) :
    /\ fix[1].id \notin passed /\ fix[2].id \in succeeded
    /\ fix[1].id.run = fix[2].id.run
    /\ \A r \in rows : r.id.run = fix[2].id.run /\ r.id.layer = l =>
         r = fix[2] \/ r.id.attempt <= fix[1].id.attempt

\* When a retry's model asks for the last error, there is one of its own layer to
\* give: the fallback of get_last_error to other layers is for first attempts.
RetryFindsItsLayersError ==
  pc = "loop" /\ attempt > 1 /\ HasSpark =>
    /\ LatestFailed(rows, Layer) # {}
    /\ \A r \in LatestFailed(rows, Layer) : r.id.layer = Layer

\* Attempts that have left a trace outside the driver.
Touched == active \cup succeeded \cup {file[l] : l \in LayerNames}

EarlierLayersPassed(id) ==
  \A i \in 1 .. Len(Layers) :
    id.run > 0 /\ id.layer = Layers[i] =>
      \A j \in 1 .. i - 1 : \E p \in passed : p.run = id.run /\ p.layer = Layers[j]

\* A run writes a notebook and runs a job for a layer only after every
\* earlier layer of config.layers passed in the same run.
LayersInOrder == \A id \in Touched : EarlierLayersPassed(id)

\* Two jobs of one run never run at the same time: a failure that leaves the job
\* running ends the run.  It needs a service that answers polls and submissions,
\* and after the deadline a cancel_run and a cleanup that do not replace the
\* TimeoutError by an exception of their own.
RetryNeverRacesItsJob ==
  \A a, b \in active : a.run = b.run => a = b

\* When a run returns, the tables of every layer are not those of an attempt the run
\* gave up: they are its passed attempt's, or those of a job that an earlier run
\* left behind and that published late.  It needs the same of the service.
PublishedByThePassedAttempt ==
  pc = "done" /\ ExecuteGenerated =>
    \A i \in 1 .. Len(Layers) :
      tables[Layers[i]].run = run => tables[Layers[i]] \in passed

\* Unless a store write fails, the failure the run last handled is in the error
\* table and in the attempt logs when the run is over.
FailureIsRecorded ==
  pc \in {"done", "raised", "aborted"} /\ lastError # 0 /\ HasSpark =>
    [id |-> [Now EXCEPT !.attempt = lastError], status |-> "FAILED"] \in rows \cap logs

\* A notebook that passed is not rewritten by a later step of its run.
PassedNotebookIsStable ==
  [][\A l \in LayerNames :
       file[l].run = run /\ run > 0 /\ file[l] \in passed => file'[l] = file[l]]_vars

\* Once a write of the catalog was cut off, nothing is generated any more: the notebooks,
\* the catalog and what has passed stay, and no job is submitted, in this run and in
\* later ones.  An unreadable catalog is not taken for an empty one.
TornCatalogStopsEverything ==
  [][torn => UNCHANGED <<file, catalog, torn, passed>> /\ active' \subseteq active]_vars

\* Whatever the outcomes, a run ends: the attempts are bounded per layer and
\* every failure either retries or leaves run_generator.
EveryRunEnds == pc \in Running ~> pc \in Ended

\* README.md: promote_to_whitelist adds a passed layer.  Between runs, the
\* notebook a catalog entry points to is one that passed.
CatalogedNotebookHasPassed ==
  pc \in Ended => \A l \in catalog : file[l] \in passed

-----------------------------------------------------------------------------
(***************************************************************************)
(* The retry loop implements RetryContract.                                *)
(***************************************************************************)
Verdict ==
  CASE pc \in Running -> "running"
    [] pc = "idle" -> "idle"
    [] pc = "done" -> "returned"
    [] pc = "raised" /\ exc = "retryable" -> "exhausted"
    [] OTHER -> "stopped"

Used == IF pc \in Running \ {"layer"} THEN attempt ELSE 0

Retry == INSTANCE RetryContract WITH Stages <- Len(Layers), verdict <- Verdict,
                                     stage <- li, used <- Used

\* Every behaviour of the retry loop is one RetryContract allows, budgets and
\* order of the layers included, and it does come to a verdict.
ImplementsRetryContract == Retry!Spec
=============================================================================
