----------------------------- MODULE TablePublish -----------------------------
(***************************************************************************)
(* One published Delta table and its staging table: stage_delta,           *)
(* publish_staged and write_delta of pipeline_helpers.py, driven the way   *)
(* the slices of evals/ and the generated notebooks drive them: stage,     *)
(* audit the staging table, publish it, record the outcome.                *)
(*                                                                         *)
(* A table is data at a location, changed by atomic Delta commits, and a   *)
(* registration in the metastore.  A writer is one execution of a          *)
(* notebook; a retry is another writer.  There is one staging table, shared*)
(* by every writer.                                                        *)
(***************************************************************************)
CONSTANTS
  Writers,     \* executions of notebooks that write the table
  Keys,        \* its grain
  AllowEmpty,  \* allow_empty of validate_counts
  Overlap,     \* two writers may be under way at the same time
  Faults       \* what may go wrong, see AllFaults

AllFaults == {
  "read",  \* the published table cannot be read
  "save",  \* a Delta write raises, before or after its commit
  "sql",   \* a metastore statement raises
  "rows",  \* append_metadata_rows raises, before or after its commit
  "kill" } \* the notebook's process dies

ASSUME FlagsAssumption == {AllowEmpty, Overlap} \subseteq BOOLEAN
ASSUME FaultsAssumption == Faults \subseteq AllFaults
ASSUME WritersAssumption == "before" \notin Writers

VARIABLES
  pub,     \* rows at the location of the published table
  stg,     \* rows at the location of the staging table
  pubReg,  \* the published table is registered in the metastore
  stgReg,  \* the staging table is
  pc,      \* where each writer is
  mode,    \* its write mode
  keys,    \* the keys of its data frame
  rowsFirst, \* the notebooks write the SUCCESS rows before they publish, as
             \* evals/taxi/slice.py does and the other slices do not
  layerRun,  \* de_assist.layer_run: who recorded which status
  audited,   \* history: table contents an audit has passed
  published  \* history: writers whose publication was committed

data    == <<pub, stg>>
catalog == <<pubReg, stgReg>>
inputs  == <<mode, keys, rowsFirst>>
history == <<audited, published>>
vars    == <<data, catalog, pc, inputs, layerRun, history>>

\* Source, Upsert, Applied and Valid are what the abstract table speaks of too.
Table == INSTANCE AtomicTable WITH rows <- pub, applied <- published

Source(w) == Table!Source(w, keys[w])

Resting == {"idle", "done", "raised", "killed"}
Working == {"stage", "register", "merge", "audit", "recordPassed", "recordFailed",
            "publish", "drop", "create", "dropStaging"}

At(w, label) == pc[w] = label
Goto(w, label) == pc' = [pc EXCEPT ![w] = label]
Fault(f, w) == f \in Faults /\ Goto(w, "raised")

Init ==
  /\ pub \in SUBSET [key : Keys, by : {"before"}] /\ stg = {}
  /\ pubReg \in BOOLEAN /\ stgReg = FALSE
  /\ pc = [w \in Writers |-> "idle"]
  /\ mode = [w \in Writers |-> "overwrite"] /\ keys = [w \in Writers |-> {}]
  /\ rowsFirst \in BOOLEAN
  /\ layerRun = {} /\ audited = {} /\ published = {}

Start(w) ==
  /\ At(w, "idle") /\ Goto(w, "stage")
  /\ Overlap \/ \A v \in Writers : pc[v] \in Resting
  /\ \E m \in Table!Modes, k \in SUBSET Keys :
       mode' = [mode EXCEPT ![w] = m] /\ keys' = [keys EXCEPT ![w] = k]
  /\ UNCHANGED <<data, catalog, rowsFirst, layerRun, history>>

(***************************************************************************)
(* stage_delta.                                                            *)
(***************************************************************************)
\* Whatever the reason the published table cannot be read, it counts as new.
Current(w) == {pub} \cup {t \in {{}} : "read" \in Faults /\ mode[w] # "overwrite"}

AppendWithoutCurrent(w, current) == Source(w)  \* deviation: only the new rows are staged

\* For a merge the staging table starts as a copy of the published one.
Candidate(w, current) ==
  IF mode[w] = "merge" THEN current ELSE Table!Applied(mode[w], current, Source(w))

Stage(w) ==
  /\ At(w, "stage")
  /\ \E current \in Current(w) :
       \/ Goto(w, "register") /\ stg' = Candidate(w, current)
       \/ Fault("save", w) /\ stg' \in {stg, Candidate(w, current)}
  /\ UNCHANGED <<pub, catalog, inputs, layerRun, history>>

\* DROP TABLE and CREATE TABLE of the staging table; a failing REFRESH is
\* swallowed in overwrite mode.
RegisterStaging(w) ==
  /\ At(w, "register")
  /\ \/ Goto(w, IF mode[w] = "merge" THEN "merge" ELSE "audit") /\ stgReg' = TRUE
     \/ Fault("sql", w) /\ stgReg' \in {stgReg, FALSE}
  /\ UNCHANGED <<data, pubReg, inputs, layerRun, history>>

\* _merge_delta into the staging table, then its REFRESH, which may raise too.
MergeStaging(w) ==
  /\ At(w, "merge")
  /\ \/ Goto(w, "audit") /\ stg' = Table!Upsert(stg, Source(w))
     \/ Fault("save", w) /\ stg' \in {stg, Table!Upsert(stg, Source(w))}
     \/ Fault("sql", w) /\ stg' = Table!Upsert(stg, Source(w))
  /\ UNCHANGED <<pub, catalog, inputs, layerRun, history>>

(***************************************************************************)
(* The audit of the slices, and validate_counts.  A layer's own checks     *)
(* may fail whatever the counts say.                                       *)
(***************************************************************************)
NoAudit(table) == TRUE  \* deviation: the failures are not looked at
Passes(table) == Table!Valid(table)

RecordOnly == "recordPassed"  \* deviation: recorded as if it had been published
AfterAudit == IF rowsFirst THEN "recordPassed" ELSE "publish"
AfterRows  == IF rowsFirst THEN "publish" ELSE "done"
AfterPublishing == IF rowsFirst THEN "done" ELSE "recordPassed"

\* The audit reads the staging table through the metastore.
Audit(w) ==
  /\ At(w, "audit")
  /\ IF ~stgReg
       THEN Goto(w, "raised") /\ UNCHANGED audited
       ELSE \/ Passes(stg) /\ Goto(w, AfterAudit) /\ audited' = audited \cup {stg}
            \/ Goto(w, "recordFailed") /\ UNCHANGED audited
  /\ UNCHANGED <<data, catalog, inputs, layerRun, published>>

\* append_metadata_rows: the row is committed before the metastore statements.
GeneratorStatus(w, status) == layerRun \cup {[by |-> w, status |-> "PASSED"]}  \* deviation
Recorded(w, status) == layerRun \cup {[by |-> w, status |-> status]}

RecordPassed(w) ==
  /\ At(w, "recordPassed")
  /\ \/ Goto(w, AfterRows) /\ layerRun' = Recorded(w, "SUCCESS")
     \/ Fault("rows", w) /\ layerRun' \in {layerRun, Recorded(w, "SUCCESS")}
  /\ UNCHANGED <<data, catalog, inputs, history>>

FailedIsNoError(w) == Goto(w, "publish")  \* deviation: the failures are only recorded
FailedRaises(w) == Goto(w, "raised")

\* A failed check raises once it is recorded.
RecordFailed(w) ==
  /\ At(w, "recordFailed")
  /\ \/ FailedRaises(w) /\ layerRun' = Recorded(w, "FAILED")
     \/ Fault("rows", w) /\ layerRun' \in {layerRun, Recorded(w, "FAILED")}
  /\ UNCHANGED <<data, catalog, inputs, history>>

(***************************************************************************)
(* publish_staged: overwrite the published table with what is at the       *)
(* location of the staging table now.                                      *)
(***************************************************************************)
Publish(w) ==
  /\ At(w, "publish")
  /\ \/ Goto(w, "drop") /\ pub' = stg /\ published' = published \cup {w}
     \/ /\ Fault("save", w)
        /\ \/ UNCHANGED <<pub, published>>
           \/ pub' = stg /\ published' = published \cup {w}
  /\ UNCHANGED <<stg, catalog, inputs, layerRun, audited>>

DropPublished(w) ==
  /\ At(w, "drop")
  /\ \/ Goto(w, "create") /\ pubReg' = FALSE
     \/ Fault("sql", w) /\ UNCHANGED pubReg
  /\ UNCHANGED <<data, stgReg, inputs, layerRun, history>>

ForgottenCreate == FALSE  \* deviation: the table is dropped and not created again
Created == TRUE

CreatePublished(w) ==
  /\ At(w, "create")
  /\ \/ Goto(w, "dropStaging") /\ pubReg' = Created
     \/ Fault("sql", w) /\ UNCHANGED pubReg
  /\ UNCHANGED <<data, stgReg, inputs, layerRun, history>>

\* The registration goes, the data stays for the next stage_delta to overwrite.
DropStaging(w) ==
  /\ At(w, "dropStaging")
  /\ \/ Goto(w, AfterPublishing) /\ stgReg' = FALSE
     \/ Fault("sql", w) /\ UNCHANGED stgReg
  /\ UNCHANGED <<data, pubReg, inputs, layerRun, history>>

Kill(w) ==
  /\ Fault("kill", w) /\ pc[w] \in Working
  /\ UNCHANGED <<data, catalog, inputs, layerRun, history>>

Step(w) ==
  \/ Stage(w) \/ RegisterStaging(w) \/ MergeStaging(w) \/ Audit(w)
  \/ RecordPassed(w) \/ RecordFailed(w)
  \/ Publish(w) \/ DropPublished(w) \/ CreatePublished(w) \/ DropStaging(w)

Next == \E w \in Writers : Start(w) \/ Step(w) \/ Kill(w)

Spec == Init /\ [][Next]_vars
-----------------------------------------------------------------------------
(***************************************************************************)
(* Properties.                                                             *)
(***************************************************************************)
TypeOK ==
  /\ pub \subseteq Table!Row /\ stg \subseteq Table!Row
  /\ pubReg \in BOOLEAN /\ stgReg \in BOOLEAN
  /\ pc \in [Writers -> Resting \cup Working]
  /\ mode \in [Writers -> Table!Modes] /\ keys \in [Writers -> SUBSET Keys]
  /\ rowsFirst \in BOOLEAN
  /\ layerRun \subseteq [by : Writers, status : {"SUCCESS", "FAILED"}]
  /\ audited \subseteq SUBSET Table!Row /\ published \subseteq Writers

\* publish_staged: what is published is a staging table that passed its audit.
PublishedWasAudited == published # {} => pub \in audited

\* A failed check leaves the published table alone: a writer with a FAILED row
\* has published nothing.
FailedCheckPublishesNothing ==
  \A w \in Writers : [by |-> w, status |-> "FAILED"] \in layerRun => w \notin published

\* Whatever fails between the two, a SUCCESS row speaks of a publication that took
\* place; where the rows come first, a publication is one that has its row.
SuccessWasPublished ==
  LET recorded == {w \in Writers : [by |-> w, status |-> "SUCCESS"] \in layerRun}
  IN  IF rowsFirst THEN published \subseteq recorded ELSE recorded \subseteq published

\* A writer that ends well leaves a registered table with all of its rows in it,
\* whatever state an earlier writer left the registration in.
DoneIsVisible ==
  [][\A w \in Writers : pc'[w] = "done" /\ pc[w] # "done" => pubReg' /\ Source(w) \subseteq pub']_vars

\* An append or a merge loses no key of the published table.
ExistingKeysSurvive ==
  [][\A w \in published' \ published :
       mode[w] \in {"append", "merge"} => \A r \in pub : \E s \in pub' : s.key = r.key]_vars

\* Staging makes an update atomic: the published table goes in one step from what
\* it is to what one writer's mode makes of it, and each writer does so once.
ImplementsAtomicTable == Table!Spec
=============================================================================
