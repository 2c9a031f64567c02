-------------------------- MODULE TablePublishProofs --------------------------
(***************************************************************************)
(* Theorems about TablePublish, for every set of writers and keys: what    *)
(* the staging protocol guarantees of itself, and what it guarantees when  *)
(* somebody keeps the writers apart.                                       *)
(***************************************************************************)
EXTENDS TablePublish, TLAPS

USE FlagsAssumption, FaultsAssumption, WritersAssumption

LEMMA SourceType == \A w \in Writers, k \in SUBSET Keys : Table!Source(w, k) \subseteq Table!Row
BY DEF Table!Source, Table!Row

LEMMA AppliedType ==
  ASSUME NEW m \in Table!Modes, NEW old \in SUBSET Table!Row, NEW new \in SUBSET Table!Row
  PROVE  Table!Applied(m, old, new) \subseteq Table!Row /\ Table!Upsert(old, new) \subseteq Table!Row
BY DEF Table!Applied, Table!Upsert, Table!Modes

\* What a writer stages before any merge has the type of a table.
LEMMA CandidateType ==
  ASSUME TypeOK, NEW w \in Writers, NEW current \in Current(w)
  PROVE  Candidate(w, current) \subseteq Table!Row
<1>1. current \in SUBSET Table!Row
  BY DEF TypeOK, Current
<1>2. mode[w] \in Table!Modes /\ Source(w) \in SUBSET Table!Row
  BY SourceType DEF TypeOK, Source
<1> QED
  BY <1>1, <1>2, AppliedType DEF Candidate

LEMMA PublishTypeInit == Init => TypeOK
BY DEF Init, TypeOK, Table!Row, Table!Modes, Resting, Working

LEMMA PublishTypeStep == TypeOK /\ [Next]_vars => TypeOK'
<1> SUFFICES ASSUME TypeOK, [Next]_vars PROVE TypeOK'
  OBVIOUS
<1> USE DEF TypeOK, Resting, Working, Goto, Fault, data, catalog, inputs, history
<1>1. ASSUME NEW w \in Writers, Start(w) PROVE TypeOK'
  BY <1>1 DEF Start
<1>2. ASSUME NEW w \in Writers, Stage(w) PROVE TypeOK'
  <2>1. stg' \subseteq Table!Row
    BY <1>2, CandidateType DEF Stage
  <2> QED
    BY <1>2, <2>1 DEF Stage
<1>3. ASSUME NEW w \in Writers, RegisterStaging(w) PROVE TypeOK'
  BY <1>3 DEF RegisterStaging
<1>4. ASSUME NEW w \in Writers, MergeStaging(w) PROVE TypeOK'
  <2>1. Table!Upsert(stg, Source(w)) \subseteq Table!Row
    BY SourceType DEF Table!Upsert, Source
  <2> QED
    BY <1>4, <2>1 DEF MergeStaging
<1>5. ASSUME NEW w \in Writers, Audit(w) PROVE TypeOK'
  BY <1>5 DEF Audit, AfterAudit
<1>6. ASSUME NEW w \in Writers, RecordPassed(w) PROVE TypeOK'
  BY <1>6 DEF RecordPassed, AfterRows, Recorded
<1>7. ASSUME NEW w \in Writers, RecordFailed(w) PROVE TypeOK'
  BY <1>7 DEF RecordFailed, FailedRaises, Recorded
<1>8. ASSUME NEW w \in Writers, Publish(w) PROVE TypeOK'
  BY <1>8 DEF Publish
<1>9. ASSUME NEW w \in Writers, DropPublished(w) PROVE TypeOK'
  BY <1>9 DEF DropPublished
<1>10. ASSUME NEW w \in Writers, CreatePublished(w) PROVE TypeOK'
  BY <1>10 DEF CreatePublished, Created
<1>11. ASSUME NEW w \in Writers, DropStaging(w) PROVE TypeOK'
  BY <1>11 DEF DropStaging, AfterPublishing
<1>12. ASSUME NEW w \in Writers, Kill(w) PROVE TypeOK'
  BY <1>12 DEF Kill
<1>13. CASE UNCHANGED vars
  BY <1>13 DEF vars
<1> QED
  BY <1>1, <1>2, <1>3, <1>4, <1>5, <1>6, <1>7, <1>8, <1>9, <1>10, <1>11, <1>12, <1>13
  DEF Next, Step

\* Every table, registration and record keeps its type.
THEOREM PublishTypeCorrect == Spec => []TypeOK
BY PublishTypeInit, PublishTypeStep, PTL DEF Spec

(***************************************************************************)
(* Whatever overlaps: the records of a writer match what it published.     *)
(***************************************************************************)
BeforePublishing == {"idle", "stage", "register", "merge", "audit", "recordFailed", "publish"}

FailedRow(w) == [by |-> w, status |-> "FAILED"] \in layerRun
PassedRow(w) == [by |-> w, status |-> "SUCCESS"] \in layerRun

\* Where a writer is tells which rows it has written and whether it has published.
RecordsOf(w) ==
  /\ pc[w] \in BeforePublishing => w \notin published /\ ~FailedRow(w)
  /\ pc[w] = "recordPassed" => ~FailedRow(w) /\ (w \in published <=> ~rowsFirst)
  /\ pc[w] \in {"drop", "create", "dropStaging"} => w \in published /\ ~FailedRow(w)
  /\ FailedRow(w) => w \notin published
  /\ rowsFirst => (w \in published \/ pc[w] = "publish" => PassedRow(w))
  /\ ~rowsFirst => (PassedRow(w) => w \in published)

RecordsInv == \A w \in Writers : RecordsOf(w)

LEMMA RecordsInit == Init => RecordsInv
BY DEF Init, RecordsInv, RecordsOf, BeforePublishing, FailedRow, PassedRow

\* A step of a writer leaves what the invariant says of the others alone.
LEMMA OtherWriters ==
  ASSUME TypeOK, RecordsInv, NEW w \in Writers, NEW v \in Writers, v # w, UNCHANGED rowsFirst,
         \E label \in Resting \cup Working : Goto(w, label),
         \/ UNCHANGED layerRun
         \/ \E status \in {"SUCCESS", "FAILED"} : layerRun' = Recorded(w, status),
         UNCHANGED published \/ published' = published \cup {w}
  PROVE  RecordsOf(v)'
<1>1. pc'[v] = pc[v] /\ (v \in published' <=> v \in published)
  BY DEF Goto, TypeOK
<1>2. (FailedRow(v)' <=> FailedRow(v)) /\ (PassedRow(v)' <=> PassedRow(v))
  BY DEF FailedRow, PassedRow, Recorded
<1>3. RecordsOf(v)
  BY DEF RecordsInv
<1> QED
  BY <1>1, <1>2, <1>3 DEF RecordsOf

LEMMA RecordsStep == TypeOK /\ RecordsInv /\ [Next]_vars => RecordsInv'
<1> SUFFICES ASSUME TypeOK, RecordsInv, [Next]_vars PROVE RecordsInv'
  OBVIOUS
<1>1. CASE UNCHANGED vars
  BY <1>1 DEF vars, inputs, history, RecordsInv, RecordsOf, FailedRow, PassedRow
<1>2. ASSUME NEW w \in Writers, Start(w) \/ Step(w) \/ Kill(w) PROVE RecordsInv'
  <2> USE DEF Goto, Fault, data, catalog, inputs, history
  <2>1. /\ UNCHANGED rowsFirst
        /\ \E label \in Resting \cup Working : Goto(w, label)
        /\ \/ UNCHANGED layerRun
           \/ \E status \in {"SUCCESS", "FAILED"} : layerRun' = Recorded(w, status)
        /\ UNCHANGED published \/ published' = published \cup {w}
    <3> USE DEF Resting, Working
    <3>1. CASE Start(w) \/ Kill(w)
      BY <3>1 DEF Start, Kill
    <3>2. CASE Stage(w) \/ RegisterStaging(w) \/ MergeStaging(w) \/ Audit(w)
      BY <3>2 DEF Stage, RegisterStaging, MergeStaging, Audit, AfterAudit
    <3>3. CASE RecordPassed(w) \/ RecordFailed(w)
      BY <3>3 DEF RecordPassed, AfterRows, RecordFailed, FailedRaises
    <3>4. CASE Publish(w) \/ DropPublished(w) \/ CreatePublished(w) \/ DropStaging(w)
      BY <3>4 DEF Publish, DropPublished, CreatePublished, DropStaging, AfterPublishing
    <3> QED
      BY <1>2, <3>1, <3>2, <3>3, <3>4 DEF Step
  <2>2. RecordsOf(w)
    BY DEF RecordsInv
  <2>3. RecordsOf(w)'
    <3> USE <2>2 DEF TypeOK, RecordsOf, BeforePublishing, FailedRow, PassedRow, Recorded, Resting, Working, At
    <3>1. CASE Start(w) \/ Kill(w)
      BY <3>1 DEF Start, Kill
    <3>2. CASE Stage(w) \/ RegisterStaging(w) \/ MergeStaging(w)
      BY <3>2 DEF Stage, RegisterStaging, MergeStaging
    <3>3. CASE Audit(w)
      BY <3>3 DEF Audit, AfterAudit
    <3>4. CASE RecordPassed(w)
      BY <3>4 DEF RecordPassed, AfterRows
    <3>5. CASE RecordFailed(w)
      BY <3>5 DEF RecordFailed, FailedRaises
    <3>6. CASE Publish(w)
      BY <3>6 DEF Publish
    <3>7. CASE DropPublished(w) \/ CreatePublished(w) \/ DropStaging(w)
      BY <3>7 DEF DropPublished, CreatePublished, DropStaging, AfterPublishing
    <3> QED
      BY <1>2, <3>1, <3>2, <3>3, <3>4, <3>5, <3>6, <3>7 DEF Step
  <2>4. ASSUME NEW v \in Writers, v # w PROVE RecordsOf(v)'
    BY <2>1, <2>4, OtherWriters
  <2> QED
    BY <2>3, <2>4 DEF RecordsInv
<1> QED
  BY <1>1, <1>2 DEF Next

\* A writer whose check failed has published nothing, whatever else is under way.
THEOREM FailedChecksPublishNothing == Spec => []FailedCheckPublishesNothing
<1>1. RecordsInv => FailedCheckPublishesNothing
  BY DEF RecordsInv, RecordsOf, FailedCheckPublishesNothing, FailedRow
<1> QED
  BY PublishTypeInit, PublishTypeStep, RecordsInit, RecordsStep, <1>1, PTL DEF Spec

\* SUCCESS rows and publications agree in the order the notebook chose for them.
THEOREM SuccessRowsAreTrue == Spec => []SuccessWasPublished
<1>1. TypeOK /\ RecordsInv => SuccessWasPublished
  BY DEF TypeOK, RecordsInv, RecordsOf, SuccessWasPublished, PassedRow
<1> QED
  BY PublishTypeInit, PublishTypeStep, RecordsInit, RecordsStep, <1>1, PTL DEF Spec

(***************************************************************************)
(* Writers that somebody keeps apart.                                      *)
(***************************************************************************)
\* One writer at a time, and a published table that can always be read.
KeptApart == Overlap = FALSE /\ "read" \notin Faults

Proposed(w) == Table!Applied(mode[w], pub, Source(w))

\* What a writer under way has staged is its update of the table as it is, and from the
\* audit on it is audited and valid.
StagedOf(w) ==
  /\ pc[w] = "register" => stg = Candidate(w, pub)
  /\ pc[w] = "merge" => mode[w] = "merge" /\ stg = pub
  /\ pc[w] = "audit" => stg = Proposed(w)
  /\ pc[w] = "publish" \/ (pc[w] = "recordPassed" /\ rowsFirst) =>
       stg = Proposed(w) /\ stg \in audited /\ Table!Valid(stg)

StagingInv ==
  /\ \A v, w \in Writers : pc[v] \in Working /\ pc[w] \in Working => v = w
  /\ \A w \in Writers : StagedOf(w)
  /\ PublishedWasAudited

LEMMA StagingInit == Init => StagingInv
BY DEF Init, StagingInv, StagedOf, PublishedWasAudited, Working

\* While a writer takes a step, no other writer is under way.
LEMMA OthersRest ==
  ASSUME KeptApart, TypeOK, StagingInv, NEW w \in Writers, Start(w) \/ Step(w) \/ Kill(w)
  PROVE  \A v \in Writers \ {w} : pc'[v] = pc[v] /\ pc[v] \notin Working
<1> USE DEF Goto, Fault, At, TypeOK
<1>1. \A v \in Writers \ {w} : pc[v] \notin Working
  <2>1. CASE Start(w)
    BY <2>1, KeptApart DEF Start, KeptApart, Resting, Working
  <2>2. CASE Step(w) \/ Kill(w)
    <3>1. pc[w] \in Working
      BY <2>2 DEF Step, Kill, Stage, RegisterStaging, MergeStaging, Audit, RecordPassed,
                  RecordFailed, Publish, DropPublished, CreatePublished, DropStaging, Working
    <3> QED
      BY <3>1 DEF StagingInv
  <2> QED
    BY <2>1, <2>2
<1>2. \E label : Goto(w, label)
  BY DEF Step, Start, Kill, Stage, RegisterStaging, MergeStaging, Audit, RecordPassed,
         RecordFailed, FailedRaises, Publish, DropPublished, CreatePublished, DropStaging
<1> QED
  BY <1>1, <1>2

LEMMA StagingStep ==
  ASSUME KeptApart PROVE TypeOK /\ RecordsInv /\ StagingInv /\ [Next]_vars => StagingInv'
<1> SUFFICES ASSUME TypeOK, RecordsInv, StagingInv, [Next]_vars PROVE StagingInv'
  OBVIOUS
<1>1. CASE UNCHANGED vars
  BY <1>1 DEF vars, data, inputs, history, StagingInv, StagedOf, PublishedWasAudited, Proposed,
              Candidate, Source
<1>2. ASSUME NEW w \in Writers, Start(w) \/ Step(w) \/ Kill(w) PROVE StagingInv'
  <2> USE DEF Goto, Fault, At, data, catalog, inputs, history, TypeOK
  <2>1. \A v \in Writers \ {w} : pc'[v] = pc[v] /\ pc[v] \notin Working
    BY <1>2, KeptApart, OthersRest
  <2>2. \A v \in Writers \ {w} : StagedOf(v)'
    BY <2>1 DEF StagedOf, Working
  <2>3. StagedOf(w)
    BY DEF StagingInv
  <2>4. StagedOf(w)' /\ PublishedWasAudited'
    <3> USE <2>3 DEF StagedOf, StagingInv, PublishedWasAudited
    <3>1. CASE Start(w) \/ Kill(w)
      BY <3>1 DEF Start, Kill
    <3>2. CASE Stage(w)
      <4>1. Current(w) = {pub}
        BY KeptApart DEF KeptApart, Current
      <4> QED
        BY <3>2, <4>1 DEF Stage, Candidate, Source
    <3>3. CASE RegisterStaging(w)
      <4>1. mode[w] = "merge" => Candidate(w, pub) = pub
        BY DEF Candidate
      <4>2. mode[w] # "merge" => Candidate(w, pub) = Proposed(w)
        BY DEF Candidate, Proposed
      <4> QED
        BY <3>3, <4>1, <4>2 DEF RegisterStaging, Proposed, Source
    <3>4. CASE MergeStaging(w)
      <4>1. Table!Upsert(pub, Source(w)) = Proposed(w)
        BY <3>4 DEF MergeStaging, Proposed, Table!Applied
      <4> QED
        BY <3>4, <4>1 DEF MergeStaging, Proposed, Source
    <3>5. CASE Audit(w)
      BY <3>5 DEF Audit, AfterAudit, Passes, Proposed, Source
    <3>6. CASE RecordPassed(w)
      BY <3>6 DEF RecordPassed, AfterRows, Proposed, Source
    <3>7. CASE RecordFailed(w)
      BY <3>7 DEF RecordFailed, FailedRaises
    <3>8. CASE Publish(w)
      BY <3>8 DEF Publish
    <3>9. CASE DropPublished(w) \/ CreatePublished(w)
      BY <3>9 DEF DropPublished, CreatePublished
    <3>10. CASE DropStaging(w)
      BY <3>10 DEF DropStaging, AfterPublishing
    <3> QED
      BY <1>2, <3>1, <3>2, <3>3, <3>4, <3>5, <3>6, <3>7, <3>8, <3>9, <3>10 DEF Step
  <2>5. \A u, v \in Writers : pc'[u] \in Working /\ pc'[v] \in Working => u = v
    BY <2>1
  <2> QED
    BY <2>2, <2>4, <2>5 DEF StagingInv
<1> QED
  BY <1>1, <1>2 DEF Next

\* With writers kept apart, the published rows are always rows an audit has passed.
THEOREM OnlyAuditedRowsArePublished == ASSUME KeptApart PROVE Spec => []PublishedWasAudited
<1>1. StagingInv => PublishedWasAudited
  BY DEF StagingInv
<1> QED
  BY PublishTypeInit, PublishTypeStep, RecordsInit, RecordsStep, StagingInit, StagingStep, <1>1, PTL
  DEF Spec

LEMMA TableInit == Init => Table!Init
BY DEF Init, Table!Init

LEMMA TableStep ==
  ASSUME KeptApart
  PROVE  TypeOK /\ RecordsInv /\ StagingInv /\ [Next]_vars => [Table!Next]_(Table!vars)
<1> SUFFICES ASSUME TypeOK, RecordsInv, StagingInv, [Next]_vars
             PROVE  Table!Next \/ UNCHANGED <<pub, published>>
  BY DEF Table!vars
<1> USE DEF data, catalog, inputs, history
<1>1. ASSUME NEW w \in Writers, Publish(w) PROVE Table!Next \/ UNCHANGED <<pub, published>>
  <2>1. CASE UNCHANGED <<pub, published>>
    BY <2>1
  <2>2. CASE pub' = stg /\ published' = published \cup {w}
    <3>1. pc[w] = "publish" /\ mode[w] \in Table!Modes /\ keys[w] \in SUBSET Keys
      BY <1>1 DEF Publish, At, TypeOK
    <3>2. w \notin published
      BY <3>1 DEF RecordsInv, RecordsOf, BeforePublishing
    <3>3. stg = Table!Applied(mode[w], pub, Table!Source(w, keys[w])) /\ Table!Valid(stg)
      BY <3>1 DEF StagingInv, StagedOf, Proposed, Source
    <3>4. Table!Valid(pub)'
      BY <2>2, <3>3 DEF Table!Valid
    <3> QED
      BY <2>2, <3>1, <3>2, <3>3, <3>4 DEF Table!Next, Table!Update
  <2> QED
    BY <1>1, <2>1, <2>2 DEF Publish
<1>2. ASSUME NEW w \in Writers, Start(w) \/ Kill(w) PROVE UNCHANGED <<pub, published>>
  BY <1>2 DEF Start, Kill
<1>3. ASSUME NEW w \in Writers, Step(w), ~Publish(w) PROVE UNCHANGED <<pub, published>>
  BY <1>3 DEF Step, Stage, RegisterStaging, MergeStaging, Audit, RecordPassed, RecordFailed,
              DropPublished, CreatePublished, DropStaging
<1>4. CASE UNCHANGED vars
  BY <1>4 DEF vars
<1> QED
  BY <1>1, <1>2, <1>3, <1>4 DEF Next

\* With writers kept apart, staging makes every update of the published table atomic.
THEOREM StagingImplementsAtomicTable == ASSUME KeptApart PROVE Spec => ImplementsAtomicTable
<1>1. Spec => Table!Spec
  BY PublishTypeInit, PublishTypeStep, RecordsInit, RecordsStep, StagingInit, StagingStep,
     TableInit, TableStep, PTL DEF Spec, Table!Spec
<1> QED
  BY <1>1 DEF ImplementsAtomicTable

(***************************************************************************)
(* What a writer leaves behind, with writers kept apart.                   *)
(***************************************************************************)
\* Every mode brings all of the new rows and loses none of the old keys, but for overwrite.
LEMMA AppliedKeeps ==
  ASSUME NEW m \in Table!Modes, NEW old \in SUBSET Table!Row, NEW new \in SUBSET Table!Row
  PROVE  /\ new \subseteq Table!Applied(m, old, new)
         /\ m # "overwrite" =>
              \A r \in old : \E s \in Table!Applied(m, old, new) : s.key = r.key
BY DEF Table!Applied, Table!Upsert, Table!Modes

LEMMA ProposedKeeps ==
  ASSUME TypeOK, NEW w \in Writers
  PROVE  /\ Source(w) \subseteq Proposed(w)
         /\ mode[w] # "overwrite" => \A r \in pub : \E s \in Proposed(w) : s.key = r.key
<1>1. mode[w] \in Table!Modes /\ pub \in SUBSET Table!Row /\ Source(w) \in SUBSET Table!Row
  BY SourceType DEF TypeOK, Source
<1> QED
  BY <1>1, AppliedKeeps DEF Proposed

\* Only a publication adds to the publications, and what it publishes is what was proposed.
LEMMA PublicationKeepsKeys ==
  ASSUME TypeOK, StagingInv, [Next]_vars, NEW w \in published' \ published
  PROVE  mode[w] \in {"append", "merge"} => \A r \in pub : \E s \in pub' : s.key = r.key
<1> USE DEF data, catalog, inputs, history
<1>1. PICK v \in Writers : Publish(v)
  <2>1. ASSUME NEW v \in Writers, Start(v) \/ Kill(v) PROVE UNCHANGED published
    BY <2>1 DEF Start, Kill
  <2>2. ASSUME NEW v \in Writers, Step(v), ~Publish(v) PROVE UNCHANGED published
    BY <2>2 DEF Step, Stage, RegisterStaging, MergeStaging, Audit, RecordPassed, RecordFailed,
                DropPublished, CreatePublished, DropStaging
  <2> QED
    BY <2>1, <2>2 DEF Next, vars
<1>2. w = v /\ pc[w] = "publish" /\ pub' = stg
  BY <1>1 DEF Publish, At
<1>3. stg = Proposed(w)
  BY <1>2 DEF StagingInv, StagedOf
<1> QED
  BY <1>2, <1>3, ProposedKeeps

\* With writers kept apart and a table that can be read, appends and merges lose no key.
THEOREM KeysSurvive == ASSUME KeptApart PROVE Spec => ExistingKeysSurvive
<1>1. TypeOK /\ StagingInv /\ [Next]_vars =>
        [\A w \in published' \ published :
           mode[w] \in {"append", "merge"} => \A r \in pub : \E s \in pub' : s.key = r.key]_vars
  BY PublicationKeepsKeys
<1> QED
  BY PublishTypeInit, PublishTypeStep, RecordsInit, RecordsStep, StagingInit, StagingStep, <1>1, PTL
  DEF Spec, ExistingKeysSurvive

\* A writer past its publication has its rows in the table, and past the CREATE TABLE has
\* the table registered.
VisibleOf(w) ==
  LET recording == pc[w] = "recordPassed" /\ ~rowsFirst
  IN  /\ pc[w] \in {"drop", "create", "dropStaging"} \/ recording => Source(w) \subseteq pub
      /\ pc[w] = "dropStaging" \/ recording => pubReg

VisibleInv == \A w \in Writers : VisibleOf(w)

LEMMA VisibleInit == Init => VisibleInv
BY DEF Init, VisibleInv, VisibleOf

\* A step of a writer, which is the only one at work, keeps the invariant, and when it ends
\* the writer well, everything is there.
LEMMA VisibleStep ==
  ASSUME TypeOK, StagingInv, VisibleInv, NEW w \in Writers, Start(w) \/ Step(w) \/ Kill(w)
  PROVE  VisibleOf(w)' /\ (pc'[w] = "done" /\ pc[w] # "done" => pubReg' /\ Source(w) \subseteq pub')
<1> USE DEF Goto, Fault, At, data, catalog, inputs, history, TypeOK, VisibleOf
<1>1. VisibleOf(w)
  BY DEF VisibleInv
<1>2. CASE Start(w) \/ Kill(w)
  BY <1>2 DEF Start, Kill
<1>3. CASE Stage(w) \/ RegisterStaging(w) \/ MergeStaging(w) \/ RecordFailed(w)
  BY <1>3 DEF Stage, RegisterStaging, MergeStaging, RecordFailed, FailedRaises
<1>4. CASE Audit(w)
  BY <1>4 DEF Audit, AfterAudit
<1>5. CASE RecordPassed(w)
  BY <1>1, <1>5 DEF RecordPassed, AfterRows, Source
<1>6. CASE Publish(w)
  <2>1. stg = Proposed(w)
    BY <1>6 DEF Publish, StagingInv, StagedOf
  <2>2. Source(w)' = Source(w)
    BY <1>6 DEF Publish, Source
  <2> QED
    BY <1>6, <2>1, <2>2, ProposedKeeps DEF Publish
<1>7. CASE DropPublished(w) \/ CreatePublished(w) \/ DropStaging(w)
  BY <1>1, <1>7 DEF DropPublished, CreatePublished, Created, DropStaging, AfterPublishing, Source
<1> QED
  BY <1>2, <1>3, <1>4, <1>5, <1>6, <1>7 DEF Step

LEMMA VisibleStepOfAny ==
  ASSUME KeptApart
  PROVE  TypeOK /\ StagingInv /\ VisibleInv /\ [Next]_vars =>
           /\ VisibleInv'
           /\ [\A w \in Writers : pc'[w] = "done" /\ pc[w] # "done" =>
                 pubReg' /\ Source(w) \subseteq pub']_vars
<1> SUFFICES ASSUME TypeOK, StagingInv, VisibleInv, [Next]_vars
             PROVE  /\ VisibleInv'
                    /\ \/ UNCHANGED vars
                       \/ \A w \in Writers : pc'[w] = "done" /\ pc[w] # "done" =>
                            pubReg' /\ Source(w) \subseteq pub'
  OBVIOUS
<1>1. CASE UNCHANGED vars
  BY <1>1 DEF vars, data, catalog, inputs, VisibleInv, VisibleOf, Source
<1>2. ASSUME NEW w \in Writers, Start(w) \/ Step(w) \/ Kill(w)
      PROVE  /\ VisibleInv'
             /\ \A v \in Writers : pc'[v] = "done" /\ pc[v] # "done" =>
                  pubReg' /\ Source(v) \subseteq pub'
  <2>1. \A v \in Writers \ {w} : pc'[v] = pc[v] /\ pc[v] \notin Working
    BY <1>2, KeptApart, OthersRest
  <2>2. \A v \in Writers \ {w} : VisibleOf(v)'
    BY <2>1 DEF VisibleOf, Working
  <2>3. VisibleOf(w)' /\ (pc'[w] = "done" /\ pc[w] # "done" => pubReg' /\ Source(w) \subseteq pub')
    BY <1>2, VisibleStep
  <2> QED
    BY <2>1, <2>2, <2>3 DEF VisibleInv
<1> QED
  BY <1>1, <1>2 DEF Next

\* With writers kept apart, a writer that ends well leaves a registered table with its rows.
THEOREM DoneLeavesRows == ASSUME KeptApart PROVE Spec => DoneIsVisible
BY PublishTypeInit, PublishTypeStep, RecordsInit, RecordsStep, StagingInit, StagingStep,
   VisibleInit, VisibleStepOfAny, PTL DEF Spec, DoneIsVisible
=============================================================================
