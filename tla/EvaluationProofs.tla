----------------------------- MODULE EvaluationProofs -----------------------------
(***************************************************************************)
(* Theorems about a round of evaluation, for every budget of runs,         *)
(* verifications, resets and retries, and every pipeline.                  *)
(***************************************************************************)
EXTENDS Evaluation, FiniteSetTheorems, TLAPS

(***************************************************************************)
(* Which locations lie below which Delta roots, for every pipeline, layer  *)
(* and table.                                                              *)
(***************************************************************************)

\* LAYER_SCHEMAS.
LayerNames == {"bronze", "silver", "gold"}

-----------------------------------------------------------------------------
\* Prefixes, element by element.

LEMMA AfterPrefix ==
  ASSUME NEW S, NEW s \in Seq(S), NEW u \in Seq(S), NEW k \in 1..Len(u)
  PROVE  (s \o u)[Len(s) + k] = u[k]
OBVIOUS

LEMMA PrefixElements ==
  ASSUME NEW S, NEW s \in Seq(S), NEW t \in Seq(S), IsPrefix(s, t), NEW k \in 1..Len(s)
  PROVE  s[k] = t[k]
<1>1. SubSeq(s, 1, Len(s))[k] = SubSeq(t, 1, Len(s))[k] BY DEF IsPrefix
<1>2. Len(s) <= Len(t) /\ Len(s) \in Nat /\ Len(t) \in Nat BY DEF IsPrefix
<1>3. SubSeq(s, 1, Len(s))[k] = s[k] BY <1>2
<1>4. SubSeq(t, 1, Len(s))[k] = t[k] BY <1>2
<1> QED BY <1>1, <1>3, <1>4

LEMMA PrefixOfConcat ==
  ASSUME NEW S, NEW s \in Seq(S), NEW u \in Seq(S)
  PROVE  IsPrefix(s, s \o u)
<1>1. s \o u \in Seq(S) /\ Len(s \o u) = Len(s) + Len(u) OBVIOUS
<1>2. \A i \in 1..Len(s) : (s \o u)[i] = s[i] OBVIOUS
<1>3. Len(s) \in Nat /\ Len(u) \in Nat OBVIOUS
<1>4. SubSeq(s, 1, Len(s)) = [i \in 1..Len(s) |-> s[i]] BY <1>3
<1>5. SubSeq(s \o u, 1, Len(s)) = [i \in 1..Len(s) |-> s[i]] BY <1>1, <1>2, <1>3
<1> QED BY <1>1, <1>3, <1>4, <1>5 DEF IsPrefix

-----------------------------------------------------------------------------
\* The elements of roots and locations.

LEMMA TuplesAreSequences ==
  ASSUME NEW S, NEW a \in S, NEW b \in S, NEW c \in S
  PROVE  <<a>> \in Seq(S) /\ <<a, b>> \in Seq(S) /\ <<a, b, c>> \in Seq(S)
OBVIOUS

\* The names roots are made of.
Names == {"delta", "generated", "tx", "retail"}

LEMMA NamespaceType ==
  ASSUME NEW p
  PROVE  Namespace(p) \in {"tx", "retail"}
BY DEF Namespace

LEMMA RootType ==
  ASSUME NEW space \in {"eval", "generated"}, NEW p \in Pipelines
  PROVE  DeltaRoot(space, p) \in Seq(Names)
<1>1. Namespace(p) \in Names BY NamespaceType DEF Names
<1>2. <<"delta">> \in Seq(Names) /\ <<"delta", "generated">> \in Seq(Names)
  BY TuplesAreSequences DEF Names
<1>3. "delta" \in Names /\ "generated" \in Names BY DEF Names
<1>4. <<"delta", Namespace(p)>> \in Seq(Names) /\ <<"delta", Namespace(p), "generated">> \in Seq(Names)
  BY <1>1, <1>3, TuplesAreSequences
<1> QED BY <1>2, <1>4 DEF DeltaRoot

LEMMA SequencesOfMore ==
  ASSUME NEW S, NEW T, S \subseteq T, NEW s \in Seq(S)
  PROVE  s \in Seq(T)
OBVIOUS

LEMMA RootElements ==
  ASSUME NEW p \in Pipelines
  PROVE  /\ Len(DeltaRoot("generated", p)) = IF p = "taxi" THEN 2 ELSE 3
         /\ Len(DeltaRoot("eval", p)) = IF p = "taxi" THEN 1 ELSE 2
         /\ DeltaRoot("generated", p)[2] = IF p = "taxi" THEN "generated" ELSE Namespace(p)
         /\ p # "taxi" => DeltaRoot("generated", p)[3] = "generated"
         /\ p # "taxi" => DeltaRoot("eval", p)[2] = Namespace(p)
BY DEF DeltaRoot, Namespace

LEMMA LocationElements ==
  ASSUME NEW p \in Pipelines, NEW schema \in LayerNames, NEW table
  PROVE  /\ Location("eval", p, schema, table) \in Seq(Names \cup LayerNames \cup {table})
         /\ Location("eval", p, schema, table)[2] = IF p = "taxi" THEN schema ELSE Namespace(p)
         /\ p # "taxi" => Location("eval", p, schema, table)[3] = schema
<1> DEFINE root == DeltaRoot("eval", p)
           tail == <<schema, table>>
           S == Names \cup LayerNames \cup {table}
<1>1. root \in Seq(S) BY RootType, SequencesOfMore
<1>2. schema \in S /\ table \in S OBVIOUS
<1>3. tail \in Seq(S) /\ Len(tail) = 2 /\ tail[1] = schema BY <1>2, TuplesAreSequences
<1>4. Len(root) = IF p = "taxi" THEN 1 ELSE 2 BY RootElements
<1>5. p # "taxi" => root[2] = Namespace(p) BY RootElements
<1>6. Location("eval", p, schema, table) = root \o tail BY DEF Location
<1> HIDE DEF root, tail, S
<1>7. root \o tail \in Seq(S) BY <1>1, <1>3
<1>8. \A k \in 1..Len(root) : (root \o tail)[k] = root[k] BY <1>1, <1>3
<1>9. (root \o tail)[Len(root) + 1] = schema
  <2>1. Len(root) \in Nat /\ 1 \in 1..Len(tail) BY <1>1, <1>3
  <2>2. (root \o tail)[Len(root) + 1] = tail[1] BY <1>1, <1>3, <2>1, AfterPrefix
  <2> QED BY <1>3, <2>2
<1>10. CASE p = "taxi"
  <2>1. Len(root) + 1 = 2 BY <1>4, <1>10
  <2>2. (root \o tail)[2] = schema BY <1>9, <2>1
  <2> QED BY <1>6, <1>7, <1>10, <2>2 DEF S
<1>11. CASE p # "taxi"
  <2>1. Len(root) = 2 BY <1>4, <1>11
  <2>2. Len(root) + 1 = 3 BY <2>1
  <2>3. (root \o tail)[2] = root[2]
    <3>1. 2 \in 1..Len(root) BY <2>1
    <3> QED BY <1>8, <3>1
  <2>4. (root \o tail)[3] = schema BY <1>9, <2>2
  <2> QED BY <1>5, <1>6, <1>7, <1>11, <2>3, <2>4 DEF S
<1> QED BY <1>10, <1>11

-----------------------------------------------------------------------------
\* Removing the generated root of any pipeline leaves the hand-built tables of every
\* pipeline alone, although some of them share their first directories.
THEOREM EvalIsNotBelowGenerated ==
  ASSUME NEW p \in Pipelines, NEW q \in Pipelines, NEW schema \in LayerNames, NEW table
  PROVE  ~Below(DeltaRoot("generated", p), Location("eval", q, schema, table))
<1> DEFINE root == DeltaRoot("generated", p)
           place == Location("eval", q, schema, table)
           S == Names \cup LayerNames \cup {table}
<1> SUFFICES ASSUME IsPrefix(root, place) PROVE FALSE BY DEF Below
<1>1. /\ place \in Seq(S)
      /\ place[2] = IF q = "taxi" THEN schema ELSE Namespace(q)
      /\ q # "taxi" => place[3] = schema
  BY LocationElements
<1>2. /\ Len(root) = IF p = "taxi" THEN 2 ELSE 3
      /\ root[2] = IF p = "taxi" THEN "generated" ELSE Namespace(p)
      /\ p # "taxi" => root[3] = "generated"
  BY RootElements
<1>3. root \in Seq(S) BY RootType, SequencesOfMore
<1>4. Namespace(p) \in {"tx", "retail"} /\ Namespace(q) \in {"tx", "retail"} BY NamespaceType
<1> HIDE DEF root, place, S
<1>5. \A k \in 1..Len(root) : root[k] = place[k] BY <1>1, <1>3, PrefixElements
<1>6. root[2] = place[2] /\ (p # "taxi" => root[3] = place[3]) BY <1>2, <1>5
<1>7. schema \notin {"generated", "tx", "retail"} BY DEF LayerNames
<1> QED BY <1>1, <1>2, <1>4, <1>6, <1>7

\* Nor does it touch the metadata tables.
THEOREM MetadataIsNotBelowGenerated ==
  ASSUME NEW p \in Pipelines, NEW table
  PROVE  ~Below(DeltaRoot("generated", p), OpsLocation(table))
<1> DEFINE root == DeltaRoot("generated", p)
           place == OpsLocation(table)
<1> SUFFICES ASSUME IsPrefix(root, place) PROVE FALSE BY DEF Below
<1> DEFINE S == Names \cup {"de_assist", table}
<1>1. "delta" \in S /\ "de_assist" \in S /\ table \in S BY DEF Names
<1>5. place \in Seq(S) /\ place[2] = "de_assist" BY <1>1, TuplesAreSequences DEF OpsLocation
<1>2. root \in Seq(S) BY RootType, SequencesOfMore
<1>3. Len(root) >= 2 /\ Len(root) \in Nat BY RootElements
<1>4. root[2] = place[2] BY <1>2, <1>3, <1>5, PrefixElements
<1>6. root[2] \in {"generated", "tx", "retail"} BY RootElements, NamespaceType
<1> QED BY <1>4, <1>5, <1>6

\* The generated root of a pipeline holds the pipeline's generated tables.
LEMMA GeneratedIsBelowItsRoot ==
  ASSUME NEW p \in Pipelines, NEW schema, NEW table
  PROVE  Below(DeltaRoot("generated", p), Location("generated", p, schema, table))
<1> DEFINE S == Names \cup {schema, table}
<1>1. DeltaRoot("generated", p) \in Seq(S) BY RootType, SequencesOfMore
<1>2. <<schema, table>> \in Seq(S) BY TuplesAreSequences
<1> QED BY <1>1, <1>2, PrefixOfConcat DEF Below, Location

-----------------------------------------------------------------------------
JobSteps == {"write", "register", "record", "verdict"}
CheckSteps == {"none", "facts", "mart", "query", "decide"}
JobRecords(lastRun) == [run : 1..lastRun, layer : {1, 2}, attempt : Nat, at : JobSteps]

BudgetRecord == [runs : Nat, checks : Nat, resets : Nat, abandoned : Nat, retries : Nat]

Contents == [count : Nat, measure : Nat]
Places == Kept \cup {Generated(t) : t \in TableNames}

(***************************************************************************)
(* The types of all the variables the theorems look at, and the budget     *)
(* that bounds the runs.                                                   *)
(***************************************************************************)
TypeInv ==
  /\ pipeline \in Pipelines
  /\ disk \in [Places -> Contents]
  /\ catalog \subseteq TableNames
  /\ run \in Nat /\ layer \in {1, 2} /\ attempt \in 1..MaxAttempts
  /\ driver \in {"idle", "submit", "wait"} /\ (driver # "idle" => run > 0)
  /\ jobs \subseteq JobRecords(run)
  /\ reset \in 0..3
  /\ check \in [at : CheckSteps, run : 0..run, counts : [TableNames -> Nat], agrees : BOOLEAN]
  /\ snapshot.run \in 0..run
  /\ left \in BudgetRecord
  /\ run + left.runs <= MaxRuns
  /\ raced \in BOOLEAN /\ quiet \in BOOLEAN

LEMMA Plans == Len(Layers) = 2 /\ Len(ResetPlan) = 3 /\ DOMAIN Layers = {1, 2}
BY DEF Layers, ResetPlan

LEMMA TypeInit == Init => TypeInv
<1> SUFFICES ASSUME Init PROVE TypeInv OBVIOUS
<1>1. left \in [runs : 0..MaxRuns, checks : Nat, resets : Nat, abandoned : Nat, retries : Nat]
  BY BudgetsAssumption DEF Init
<1>2. left \in BudgetRecord BY <1>1, BoundsAssumption DEF BudgetRecord
<1>3. pipeline \in Pipelines BY EvaluatedAssumption DEF Init
<1>4. disk \in [Places -> Contents] BY DEF Init, Places, Contents, Expected, Nothing
<1>5. run = 0 /\ 0 \in 0..run BY DEF Init
<1>6. NoCounts \in [TableNames -> Nat] BY DEF NoCounts, NoCount
<1>7. check \in [at : CheckSteps, run : 0..run, counts : [TableNames -> Nat], agrees : BOOLEAN]
  BY <1>5, <1>6 DEF Init, NoCheck, CheckSteps
<1>8. snapshot.run \in 0..run BY <1>5 DEF Init, NoSnapshot
<1>9. run + left.runs <= MaxRuns BY <1>1, <1>5, BoundsAssumption
<1>10. /\ catalog \subseteq TableNames /\ run \in Nat /\ layer \in {1, 2}
       /\ driver = "idle" /\ jobs \subseteq JobRecords(run) /\ reset \in 0..3
  BY DEF Init
<1>11. attempt \in 1..MaxAttempts BY BoundsAssumption DEF Init
<1>12. raced \in BOOLEAN /\ quiet \in BOOLEAN BY DEF Init
<1> QED BY <1>2, <1>3, <1>4, <1>7, <1>8, <1>9, <1>10, <1>11, <1>12 DEF TypeInv


\* What the driver does next keeps its place in the layers and attempts.
DriverTypes ==
  /\ layer \in {1, 2} /\ attempt \in 1..MaxAttempts
  /\ driver \in {"idle", "submit", "wait"} /\ (driver # "idle" => run > 0)

LEMMA DriverMoves ==
  ASSUME DriverTypes, UNCHANGED run,
         \/ driver = "wait" /\ (NextLayer \/ (attempt < MaxAttempts /\ Again))
         \/ EndOfRun \/ UNCHANGED <<layer, attempt, driver>>
  PROVE  DriverTypes'
<1>1. CASE driver = "wait" /\ NextLayer BY <1>1, Plans, BoundsAssumption DEF NextLayer, EndOfRun, DriverTypes
<1>2. CASE EndOfRun BY <1>2, BoundsAssumption DEF EndOfRun, DriverTypes
<1>3. CASE UNCHANGED <<layer, attempt, driver>> BY <1>3 DEF DriverTypes
<1>4. CASE driver = "wait" /\ attempt < MaxAttempts /\ Again BY <1>4, BoundsAssumption DEF Again, DriverTypes
<1> QED BY <1>1, <1>2, <1>3, <1>4

LEMMA JobGoesOn ==
  ASSUME NEW job \in jobs, NEW step \in JobSteps, jobs \subseteq JobRecords(run)
  PROVE  [job EXCEPT !.at = step] \in JobRecords(run)
BY DEF JobRecords

LEMMA Spending ==
  ASSUME left \in BudgetRecord,
         NEW kind \in {"runs", "checks", "resets", "abandoned", "retries"}, Spends(kind)
  PROVE  left' \in BudgetRecord /\ left'.runs = IF kind = "runs" THEN left.runs - 1 ELSE left.runs
BY DEF Spends, BudgetRecord

-----------------------------------------------------------------------------
LEMMA JobStepTypes ==
  ASSUME TypeInv, NEW job \in jobs, JobStep(job)
  PROVE  TypeInv'
<1>1. job \in JobRecords(run) BY DEF TypeInv
<1>2. UNCHANGED pipeline BY DEF JobStep
<1>3. jobs' \subseteq JobRecords(run) /\ UNCHANGED run
  <2>1. \A step \in JobSteps : Goes(job, step) => jobs' \subseteq JobRecords(run)
    BY JobGoesOn DEF Goes, TypeInv
  <2>2. Succeeds(job) => jobs' \subseteq JobRecords(run)
    BY DEF Succeeds, TypeInv
  <2> QED BY <2>1, <2>2 DEF JobStep, Write, Register, RecordTable, RecordVerdict, JobSteps
<1>4. DriverTypes'
  <2>1. (driver = "wait" /\ NextLayer) \/ UNCHANGED <<layer, attempt, driver>>
    BY DEF JobStep, Write, Register, RecordTable, RecordVerdict, Goes, Succeeds, Waited
  <2> QED BY <1>3, <2>1, DriverMoves DEF TypeInv, DriverTypes
<1>5. catalog' \subseteq TableNames
  <2>1. TableOf(job) \in TableNames BY <1>1 DEF JobRecords, TableOf, Tables, TableNames
  <2> QED BY <2>1 DEF TypeInv, JobStep, Write, Register, RecordTable, RecordVerdict
<1>6. quiet' \in BOOLEAN /\ raced' \in BOOLEAN
  BY DEF TypeInv, JobStep, Write, Register, RecordTable, RecordVerdict, TablesChange
<1>7. UNCHANGED <<reset, check, snapshot>> BY DEF JobStep
<1>8. left' = left BY DEF JobStep, Write, Register, RecordTable, RecordVerdict
<1>9. Places' = Places BY <1>2 DEF Places, Generated
<1>10. disk' \in [Places -> Contents]
  <2>1. \A t : Content(t) \subseteq Contents BY DEF Content, Contents
  <2>2. CASE Write(job) BY <2>1, <2>2 DEF Write, TypeInv
  <2>3. CASE UNCHANGED disk BY <2>3 DEF TypeInv
  <2> QED BY <2>2, <2>3 DEF JobStep, Register, RecordTable, RecordVerdict
<1> QED BY <1>2, <1>3, <1>4, <1>5, <1>6, <1>7, <1>8, <1>9, <1>10 DEF TypeInv, DriverTypes

LEMMA JobRaisesTypes ==
  ASSUME TypeInv, NEW job \in jobs, JobRaises(job)
  PROVE  TypeInv'
<1>1. UNCHANGED <<pipeline, disk, catalog, run, reset, check, snapshot, raced, quiet>> /\ jobs' \subseteq jobs
  BY DEF JobRaises
<1>2. DriverTypes'
  <2>1. EndOfRun \/ (driver = "wait" /\ attempt < MaxAttempts /\ Again) \/ UNCHANGED <<layer, attempt, driver>>
    BY DEF JobRaises, Retry, Waited
  <2> QED BY <1>1, <2>1, DriverMoves DEF TypeInv, DriverTypes
<1>3. left' \in BudgetRecord /\ left'.runs = left.runs
  <2>1. UNCHANGED left \/ Spends("retries") BY DEF JobRaises, Retry
  <2> QED BY <2>1, Spending DEF TypeInv
<1>4. Places' = Places BY <1>1 DEF Places, Generated
<1> QED BY <1>1, <1>2, <1>3, <1>4 DEF TypeInv, DriverTypes

LEMMA TypeStep == TypeInv /\ [Next]_vars => TypeInv'
<1> SUFFICES ASSUME TypeInv, [Next]_vars PROVE TypeInv' OBVIOUS
<1>0. pipeline' = pipeline => Places' = Places BY DEF Places, Generated
<1>1. CASE StartRun
  <2>1. left' \in BudgetRecord /\ left'.runs = left.runs - 1 BY <1>1, Spending DEF StartRun, TypeInv
  <2>2. JobRecords(run) \subseteq JobRecords(run') /\ 0..run \subseteq 0..run'
        /\ run' \in Nat /\ run' > 0
    BY <1>1 DEF StartRun, TypeInv, JobRecords
  <2>3. run' + left'.runs <= MaxRuns
    BY <1>1, <2>1, BoundsAssumption DEF StartRun, TypeInv, BudgetRecord
  <2>4. UNCHANGED <<pipeline, disk, catalog, layer, attempt, jobs, reset, check, snapshot, raced, quiet>>
        /\ driver' = "submit"
    BY <1>1 DEF StartRun, history
  <2>5. check' \in [at : CheckSteps, run : 0..run', counts : [TableNames -> Nat], agrees : BOOLEAN]
    BY <2>2, <2>4 DEF TypeInv
  <2> QED BY <1>0, <2>1, <2>2, <2>3, <2>4, <2>5 DEF TypeInv
<1>2. CASE Submit
  <2>1. run \in 1..run /\ layer \in {1, 2} /\ attempt \in Nat
    BY <1>2, BoundsAssumption DEF Submit, TypeInv
  <2>2. SubmittedAt("write") \in JobRecords(run)
    BY <2>1 DEF SubmittedAt, JobRecords, JobSteps
  <2>3. run > 0 BY <2>1
  <2> QED BY <1>0, <1>2, <2>2, <2>3 DEF Submit, TypeInv
<1>3. CASE Abandon
  <2>1. DriverTypes'
    <3>1. EndOfRun \/ (driver = "wait" /\ attempt < MaxAttempts /\ Again) BY <1>3 DEF Abandon
    <3> QED BY <1>3, <3>1, DriverMoves DEF Abandon, TypeInv, DriverTypes
  <2>2. left' \in BudgetRecord /\ left'.runs = left.runs
    <3>1. CASE Spends("abandoned") BY <3>1, Spending DEF TypeInv
    <3>2. CASE left.retries > 0 /\ left' = [left EXCEPT !.retries = @ - 1, !.abandoned = @ - 1]
      <4>1. left \in BudgetRecord /\ left.abandoned > 0 BY <1>3 DEF Abandon, TypeInv
      <4> DEFINE once == [left EXCEPT !.retries = @ - 1]
      <4>2. /\ once \in BudgetRecord /\ once.runs = left.runs
            /\ once.abandoned = left.abandoned
        BY <3>2, <4>1 DEF BudgetRecord
      <4>3. left' = [once EXCEPT !.abandoned = left.abandoned - 1] BY <3>2
      <4> HIDE DEF once
      <4> QED BY <4>1, <4>2, <4>3 DEF BudgetRecord
    <3> QED BY <1>3, <3>1, <3>2 DEF Abandon
  <2> QED BY <1>0, <1>3, <2>1, <2>2 DEF Abandon, TypeInv, DriverTypes
<1>4. ASSUME NEW job \in jobs, JobStep(job) PROVE TypeInv' BY <1>4, JobStepTypes
<1>5. ASSUME NEW job \in jobs, JobRaises(job) PROVE TypeInv' BY <1>5, JobRaisesTypes
<1>6. CASE StartReset
  <2>1. left' \in BudgetRecord /\ left'.runs = left.runs BY <1>6, Spending DEF StartReset, TypeInv
  <2> QED BY <1>0, <1>6, <2>1 DEF StartReset, TypeInv, generator
<1>7. CASE ResetStep
  <2>1. catalog' \subseteq catalog /\ reset' \in 0..3
    BY <1>7, Plans DEF ResetStep, TypeInv
  <2>2. Nothing \in Contents BY DEF Nothing, Contents
  <2>3. disk' \in [Places -> Contents] BY <1>7, <2>2 DEF ResetStep, TypeInv
  <2> QED BY <1>0, <1>7, <2>1, <2>3 DEF ResetStep, TypeInv, generator, TablesChange
<1>8. CASE KillReset BY <1>0, <1>8 DEF KillReset, TypeInv, generator, history
<1>9. CASE StartCheck
  <2>1. left' \in BudgetRecord /\ left'.runs = left.runs BY <1>9, Spending DEF StartCheck, TypeInv
  <2>2. check' \in [at : CheckSteps, run : 0..run, counts : [TableNames -> Nat], agrees : BOOLEAN]
    BY <1>9 DEF StartCheck, TypeInv, CheckSteps, NoCheck, NoCounts, NoCount
  <2> QED BY <1>0, <1>9, <2>1, <2>2 DEF StartCheck, TypeInv, generator, history
<1>10. ASSUME NEW t \in TableNames, CountTable(t) PROVE TypeInv'
  <2>1. PICK count : count \in {Count(t), NoCount}
                     /\ check' = [check EXCEPT !.at = IF t = "facts" THEN "mart" ELSE "query",
                                               !.counts[t] = count]
    BY <1>10 DEF CountTable
  <2>2. count \in Nat
    <3>1. Generated(t) \in Places BY DEF Places
    <3>2. Count(t) \in Nat BY <3>1 DEF Count, TypeInv, Contents, NoCount
    <3> QED BY <2>1, <3>2 DEF NoCount
  <2>3. check' \in [at : CheckSteps, run : 0..run, counts : [TableNames -> Nat], agrees : BOOLEAN]
    BY <2>1, <2>2 DEF TypeInv, CheckSteps
  <2> QED BY <1>0, <1>10, <2>3 DEF CountTable, TypeInv, generator, history
<1>11. CASE CompareMart
  <2>1. check' \in [at : CheckSteps, run : 0..run, counts : [TableNames -> Nat], agrees : BOOLEAN]
    BY <1>11 DEF CompareMart, TypeInv, CheckSteps, MartAgrees, RaisingDisagrees
  <2> QED BY <1>0, <1>11, <2>1 DEF CompareMart, TypeInv, generator, history
<1>12. CASE Decide
  <2>1. check' \in [at : CheckSteps, run : 0..run, counts : [TableNames -> Nat], agrees : BOOLEAN]
    BY <1>12 DEF Decide, TypeInv, CheckSteps, NoCheck, NoCounts, NoCount
  <2>2. snapshot'.run \in 0..run BY <1>12 DEF Decide, TypeInv
  <2> QED BY <1>0, <1>12, <2>1, <2>2 DEF Decide, TypeInv, generator
<1>13. CASE UNCHANGED vars BY <1>0, <1>13 DEF vars, TypeInv, generator, history
<1> QED BY <1>1, <1>2, <1>3, <1>4, <1>5, <1>6, <1>7, <1>8, <1>9, <1>10, <1>11, <1>12, <1>13
        DEF Next, Driver, Job, Reset, Verify

LEMMA TypesHold == Spec => []TypeInv
BY TypeInit, TypeStep, PTL DEF Spec

\* Type correctness of Evaluation.
THEOREM EvaluationTypes == Spec => []TypeOK
<1>1. TypeInv => TypeOK
  <2> SUFFICES ASSUME TypeInv PROVE TypeOK OBVIOUS
  <2>1. run \in 0..MaxRuns
    <3>1. run \in Nat /\ left.runs \in Nat /\ run + left.runs <= MaxRuns BY DEF TypeInv, BudgetRecord
    <3> QED BY <3>1, BoundsAssumption
  <2>2. \A job \in jobs : job.run \in 1..run /\ job.layer \in {1, 2} /\ job.at \in JobSteps
    BY DEF TypeInv, JobRecords
  <2>3. check.at \in CheckSteps /\ check.run \in 0..run BY DEF TypeInv
  <2> QED BY <2>1, <2>2, <2>3, Plans DEF TypeInv, TypeOK, JobSteps, CheckSteps, TableNames
<1> QED BY <1>1, TypesHold, PTL

(***************************************************************************)
(* Where the generated tables are: below a root that holds nothing else.   *)
(***************************************************************************)
LEMMA LayersOfTables == \A t \in TableNames : Layers[Index(t)] \in LayerNames
BY DEF TableNames, Layers, Index, LayerNames

LEMMA KeptIsOutside ==
  ASSUME NEW place \in Kept, NEW p \in Pipelines
  PROVE  ~Below(DeltaRoot("generated", p), place)
<1>1. CASE place \in EvalPlaces
  <2>1. PICK q \in Pipelines, t \in TableNames : place = Location("eval", q, Layers[Index(t)], t)
    BY <1>1 DEF EvalPlaces, Place
  <2> QED BY <2>1, LayersOfTables, EvalIsNotBelowGenerated
<1>2. CASE place \in OpsPlaces
  BY <1>2, MetadataIsNotBelowGenerated DEF OpsPlaces
<1> QED BY <1>1, <1>2 DEF Kept

LEMMA GeneratedIsInside ==
  ASSUME pipeline \in Pipelines, NEW t \in TableNames
  PROVE  Generated(t) \notin Kept
<1>1. Below(DeltaRoot("generated", pipeline), Generated(t))
  BY GeneratedIsBelowItsRoot DEF Generated, Place
<1> QED BY <1>1, KeptIsOutside

LEMMA TableOfJob == TypeInv => \A job \in jobs : TableOf(job) \in TableNames
BY DEF TypeInv, JobRecords, TableOf, Tables, TableNames

\* No step changes a hand-built table or a metadata table: generated notebooks write below the
\* generated root of their pipeline, and resets remove generated roots only.
THEOREM EvalStaysUntouched == Spec => []EvalIsUntouched
<1>1. Init => EvalIsUntouched BY DEF Init, EvalIsUntouched
<1>2. TypeInv /\ EvalIsUntouched /\ [Next]_vars => EvalIsUntouched'
  <2> SUFFICES ASSUME TypeInv, EvalIsUntouched, [Next]_vars, NEW place \in Kept
               PROVE  disk'[place] = disk[place]
    BY DEF EvalIsUntouched, Kept, EvalPlaces, OpsPlaces
  <2>1. place \in DOMAIN disk BY DEF TypeInv, Places
  <2>2. ASSUME NEW job \in jobs, Write(job) PROVE disk'[place] = disk[place]
    <3>1. Generated(TableOf(job)) # place BY GeneratedIsInside, TableOfJob DEF TypeInv
    <3> QED BY <2>1, <2>2, <3>1 DEF Write
  <2>3. CASE ResetStep
    <3>1. \A root \in ResetPlan[reset].roots : ~Below(root, place)
      <4>1. reset \in {1, 2, 3} BY <2>3 DEF ResetStep, TypeInv
      <4>2. ResetPlan[reset].roots \subseteq {DeltaRoot("generated", p) : p \in Pipelines}
        BY <4>1 DEF ResetPlan, Drop, Removal
      <4> QED BY <4>2, KeptIsOutside
    <3> QED BY <2>1, <2>3, <3>1 DEF ResetStep
  <2>4. CASE UNCHANGED disk BY <2>4
  <2> QED BY <2>2, <2>3, <2>4
          DEF Next, Driver, Job, Reset, Verify, vars, StartRun, Submit, Abandon, JobStep, Register,
              RecordTable, RecordVerdict, JobRaises, StartReset, KillReset, StartCheck, CountTable,
              CompareMart, Decide
<1> QED BY <1>1, <1>2, TypesHold, PTL DEF Spec

(***************************************************************************)
(* Registered tables.  As long as no job has met a reset, a job that is    *)
(* about to register its table has written it, and a reset removes the     *)
(* data only of tables it has dropped.                                     *)
(***************************************************************************)
RegisteredInv ==
  ~raced =>
    /\ \A t \in catalog : Stored(t)
    /\ \A job \in jobs : job.at = "register" => Stored(TableOf(job))
    /\ reset # 0 => jobs = {}
    /\ reset = 2 => "facts" \notin catalog
    /\ reset = 3 => catalog = {}

LEMMA WrittenIsStored ==
  ASSUME TypeInv, NEW job \in jobs, Write(job), UNCHANGED pipeline
  PROVE  /\ Stored(TableOf(job))'
         /\ \A t \in TableNames : Stored(t) => Stored(t)'
<1>1. PICK content \in Content(TableOf(job)) : disk' = [disk EXCEPT ![Generated(TableOf(job))] = content]
  BY DEF Write
<1>2. content # Nothing BY DEF Content, Nothing
<1>3. \A t \in TableNames : Generated(t) \in DOMAIN disk /\ Generated(t)' = Generated(t)
  BY DEF TypeInv, Places, Generated
<1>4. TableOf(job) \in TableNames /\ TableOf(job)' = TableOf(job) BY TableOfJob DEF TableOf
<1> QED BY <1>1, <1>2, <1>3, <1>4 DEF Stored

LEMMA RegisteredStep == TypeInv /\ RegisteredInv /\ [Next]_vars => RegisteredInv'
<1> SUFFICES ASSUME TypeInv, RegisteredInv, [Next]_vars, ~raced' PROVE RegisteredInv'
  BY DEF RegisteredInv
<1>0. catalog \subseteq TableNames /\ \A t \in TableNames : Generated(t) \in DOMAIN disk
  BY DEF TypeInv, Places
<1>1. CASE Submit
  <2>1. reset = 0 /\ ~raced BY <1>1 DEF Submit, TypeInv
  <2>2. \A job \in jobs' : job \in jobs \/ job.at = "write" BY <1>1 DEF Submit, SubmittedAt
  <2> QED BY <1>1, <2>1, <2>2 DEF Submit, RegisteredInv, Stored, Generated, TableOf
<1>2. ASSUME NEW job \in jobs, JobStep(job) PROVE RegisteredInv'
  <2>1. ~raced /\ reset = 0 /\ reset' = 0 /\ UNCHANGED pipeline
    BY <1>2 DEF JobStep, TypeInv
  <2>2. \A t \in TableNames : Stored(t) => Stored(t)'
    <3>1. CASE Write(job) BY <2>1, <3>1, WrittenIsStored
    <3>2. CASE UNCHANGED disk BY <2>1, <3>2 DEF Stored, Generated
    <3> QED BY <1>2, <3>1, <3>2 DEF JobStep, Register, RecordTable, RecordVerdict
  <2>3. TableOf(job) \in TableNames BY TableOfJob
  <2>4. \A t \in catalog' : Stored(t)'
    <3>1. CASE Register(job)
      <4>1. catalog' = catalog \cup {TableOf(job)} /\ Stored(TableOf(job))
        BY <2>1, <3>1 DEF Register, RegisteredInv
      <4> QED BY <1>0, <2>1, <2>2, <2>3, <4>1 DEF RegisteredInv
    <3>2. CASE UNCHANGED catalog BY <1>0, <2>1, <2>2, <3>2 DEF RegisteredInv
    <3> QED BY <1>2, <3>1, <3>2 DEF JobStep, Write, RecordTable, RecordVerdict
  <2>5. \A other \in jobs' : other.at = "register" => Stored(TableOf(other))'
    <3> SUFFICES ASSUME NEW other \in jobs', other.at = "register" PROVE Stored(TableOf(other))'
      OBVIOUS
    <3>1. CASE other \in jobs
      BY <2>1, <2>2, <3>1, TableOfJob DEF RegisteredInv, TableOf
    <3>2. CASE Write(job) /\ other = [job EXCEPT !.at = "register"]
      <4>1. TableOf(other) = TableOf(job) BY <3>2 DEF TableOf, TypeInv, JobRecords
      <4> QED BY <2>1, <3>2, <4>1, WrittenIsStored DEF TableOf
    <3>3. other \in jobs \/ (Write(job) /\ other = [job EXCEPT !.at = "register"])
      <4>1. job \in JobRecords(run) BY DEF TypeInv
      <4> QED BY <1>2, <4>1 DEF JobStep, Write, Register, RecordTable, RecordVerdict, Goes, Succeeds, JobRecords
    <3> QED BY <3>1, <3>2, <3>3
  <2> QED BY <2>1, <2>4, <2>5 DEF RegisteredInv
<1>3. ASSUME NEW job \in jobs, JobRaises(job) PROVE RegisteredInv'
  BY <1>3 DEF JobRaises, RegisteredInv, Stored, Generated, TableOf
<1>4. CASE StartReset
  <2>1. ~raced /\ jobs = {}
    <3>1. raced' = (raced \/ jobs # {}) BY <1>4 DEF StartReset
    <3> QED BY <3>1
  <2>2. jobs' = {} /\ reset' = 1 /\ catalog' = catalog /\ UNCHANGED <<pipeline, disk>>
    BY <1>4, <2>1 DEF StartReset
  <2>3. \A t \in catalog' : Stored(t)' BY <2>1, <2>2 DEF RegisteredInv, Stored, Generated
  <2> QED BY <2>2, <2>3 DEF RegisteredInv
<1>5. CASE ResetStep
  <2>1. ~raced /\ jobs = {} /\ jobs' = {} /\ pipeline' = pipeline /\ reset \in {1, 2, 3}
    BY <1>5 DEF ResetStep, RegisteredInv, TypeInv, generator
  <2>2. CASE reset \in {1, 2}
    <3>1. ResetPlan[reset].roots = {} BY <2>2 DEF ResetPlan, Drop, Removal
    <3>2. UNCHANGED disk
      BY <1>5, <3>1 DEF ResetStep, TypeInv
    <3>3. catalog' = catalog \ {IF reset = 1 THEN "facts" ELSE "mart"} /\ reset' = reset + 1
      BY <1>5, <2>2, Plans DEF ResetStep, ResetPlan, Drop, Removal
    <3>4. \A t \in catalog' : Stored(t)' BY <2>1, <3>2, <3>3 DEF RegisteredInv, Stored, Generated
    <3>5. (reset' = 2 => "facts" \notin catalog') /\ (reset' = 3 => catalog' = {})
      BY <1>0, <2>1, <2>2, <3>3 DEF RegisteredInv, TableNames
    <3> QED BY <2>1, <3>4, <3>5 DEF RegisteredInv
  <2>3. CASE reset = 3
    <3>1. catalog' = {} /\ reset' = 0 BY <1>5, <2>1, <2>3, Plans DEF ResetStep, RegisteredInv
    <3> QED BY <2>1, <3>1 DEF RegisteredInv
  <2> QED BY <2>1, <2>2, <2>3
<1>6. CASE UNCHANGED <<pipeline, disk, catalog, jobs, raced>> /\ reset' \in {reset, 0}
  BY <1>6 DEF RegisteredInv, Stored, Generated, TableOf
<1> QED BY <1>1, <1>2, <1>3, <1>4, <1>5, <1>6
        DEF Next, Driver, Job, Reset, Verify, vars, history, generator, StartRun, Abandon, KillReset,
            StartCheck, CountTable, CompareMart, Decide

\* Every registered table has its data as long as no job met a reset, in every step of every
\* reset and after one that died.
THEOREM RegisteredTablesHaveData == Spec => []RegisteredHasData
<1>1. Init => RegisteredInv BY DEF Init, RegisteredInv
<1>2. TypeInv /\ RegisteredInv => RegisteredHasData BY DEF TypeInv, RegisteredInv, RegisteredHasData
<1> QED BY <1>1, <1>2, RegisteredStep, TypesHold, PTL DEF Spec


(***************************************************************************)
(* Accepted verifications.  Until the tables change, each number the       *)
(* verifier has read is what is there, or what it takes for a failure.     *)
(***************************************************************************)
CheckInv ==
  quiet =>
    /\ check.at \in {"mart", "query", "decide"} => check.counts["facts"] \in {Count("facts"), NoCount}
    /\ check.at \in {"query", "decide"} => check.counts["mart"] \in {Count("mart"), NoCount}
    /\ check.at = "decide" /\ check.agrees => MartAgrees

LEMMA SameTables ==
  ASSUME UNCHANGED <<pipeline, disk, catalog>>
  PROVE  MartAgrees' = MartAgrees /\ \A t : Count(t)' = Count(t)
BY DEF MartAgrees, Count, Readable, Stored, Generated

LEMMA CheckStep == TypeInv /\ CheckInv /\ [Next]_vars => CheckInv'
<1> SUFFICES ASSUME TypeInv, CheckInv, [Next]_vars PROVE CheckInv' OBVIOUS
<1>1. CASE UNCHANGED check /\ TablesChange
  <2>1. quiet' => check = NoCheck BY <1>1, Zenon DEF TablesChange
  <2>2. quiet' => check'.at = "none" BY <1>1, <2>1 DEF NoCheck
  <2> QED BY <2>2 DEF CheckInv
<1>2. CASE UNCHANGED <<pipeline, disk, catalog, check, quiet>>
  BY <1>2, SameTables DEF CheckInv
<1>3. CASE StartCheck
  <2>1. check'.at = "facts" BY <1>3 DEF StartCheck, NoCheck
  <2> QED BY <2>1 DEF CheckInv
<1>4. ASSUME NEW t \in TableNames, CountTable(t) PROVE CheckInv'
  <2>1. PICK count \in {Count(t), NoCount} :
          check' = [check EXCEPT !.at = IF t = "facts" THEN "mart" ELSE "query", !.counts[t] = count]
    BY <1>4 DEF CountTable
  <2>2. UNCHANGED <<pipeline, disk, catalog, quiet>> /\ check.at = t
    BY <1>4 DEF CountTable, history
  <2>3. check \in [at : CheckSteps, run : 0..run, counts : [TableNames -> Nat], agrees : BOOLEAN]
    BY DEF TypeInv
  <2>4. CASE t = "facts"
    <3>1. check'.at = "mart" /\ check'.counts["facts"] = count BY <2>1, <2>3, <2>4 DEF TableNames
    <3> QED BY <2>2, <2>4, <3>1, SameTables DEF CheckInv
  <2>5. CASE t = "mart"
    <3>1. /\ check'.at = "query" /\ check'.counts["mart"] = count
          /\ check'.counts["facts"] = check.counts["facts"]
      BY <2>1, <2>3, <2>5 DEF TableNames
    <3> QED BY <2>2, <2>5, <3>1, SameTables DEF CheckInv
  <2> QED BY <2>4, <2>5 DEF TableNames
<1>5. CASE CompareMart
  <2>1. PICK agrees \in {MartAgrees, FALSE} : check' = [check EXCEPT !.at = "decide", !.agrees = agrees]
    BY <1>5 DEF CompareMart, RaisingDisagrees
  <2>2. UNCHANGED <<pipeline, disk, catalog, quiet>> /\ check.at = "query"
    BY <1>5 DEF CompareMart, history
  <2>3. /\ check'.at = "decide" /\ check'.counts = check.counts
        /\ check'.agrees = agrees
    BY <2>1 DEF TypeInv
  <2>4. agrees => MartAgrees BY <2>1, Zenon
  <2>5. check'.agrees => MartAgrees BY <2>3, <2>4
  <2> QED BY <2>2, <2>3, <2>5, SameTables DEF CheckInv
<1>6. CASE Decide
  <2>1. check'.at = "none" BY <1>6 DEF Decide, NoCheck
  <2> QED BY <2>1 DEF CheckInv
<1> QED BY <1>1, <1>2, <1>3, <1>4, <1>5, <1>6
        DEF Next, Driver, Job, Reset, Verify, vars, history, StartRun, Submit, Abandon, JobStep, Write,
            Register, RecordTable, RecordVerdict, JobRaises, StartReset, ResetStep, KillReset

LEMMA CheckInit == Init => CheckInv
BY DEF Init, CheckInv, NoCheck

\* Only an accepting decision changes the snapshot.
LEMMA SnapshotChanges ==
  ASSUME [Next]_vars, snapshot' # snapshot
  PROVE  /\ check.at = "decide"
         /\ \E isRead \in BOOLEAN :
              /\ Accepts(check.run, isRead)
              /\ snapshot' = [run |-> check.run, counts |-> check.counts]
<1>1. Decide
  BY DEF Next, Driver, Job, Reset, Verify, vars, StartRun, Submit, Abandon, JobStep, Write,
         Register, RecordTable, RecordVerdict, JobRaises, StartReset, ResetStep, KillReset, StartCheck,
         CountTable, CompareMart
<1> QED BY <1>1 DEF Decide

\* What an accepted verification writes down is what is there, unless the tables changed while
\* it read them: a query that raises makes the verifier reject, never accept.
THEOREM AcceptedCountsAreThere == Spec => AcceptedIsThere
<1>1. ASSUME TypeInv, CheckInv, [Next]_vars, snapshot' # snapshot, quiet
      PROVE  /\ \A t \in TableNames : Readable(t) /\ disk[Generated(t)].count = snapshot'.counts[t]
             /\ disk[Generated("facts")].measure = disk[Generated("mart")].measure
  <2>1. PICK isRead \in BOOLEAN :
          /\ Accepts(check.run, isRead)
          /\ snapshot' = [run |-> check.run, counts |-> check.counts]
    BY <1>1, SnapshotChanges
  <2>2. check.at = "decide" BY <1>1, SnapshotChanges
  <2>3. \A t \in TableNames : check.counts[t] = Count(t) /\ Count(t) # NoCount
    BY <1>1, <2>1, <2>2 DEF Accepts, CheckInv, TableNames
  <2>4. MartAgrees BY <1>1, <2>1, <2>2 DEF Accepts, CheckInv
  <2>5. snapshot'.counts = check.counts BY <2>1
  <2>6. \A t \in TableNames : Readable(t) /\ disk[Generated(t)].count = snapshot'.counts[t]
    BY <2>3, <2>5 DEF Count
  <2> QED BY <2>4, <2>6 DEF MartAgrees, TableNames
<1>2. TypeInv /\ CheckInv /\ [Next]_vars =>
        [snapshot' # snapshot /\ quiet =>
           /\ \A t \in TableNames : Readable(t) /\ disk[Generated(t)].count = snapshot'.counts[t]
           /\ disk[Generated("facts")].measure = disk[Generated("mart")].measure]_vars
  BY <1>1
<1> QED BY <1>2, TypeInit, TypeStep, CheckInit, CheckStep, PTL DEF Spec, AcceptedIsThere


(***************************************************************************)
(* Complete runs.  A run that makes one attempt at each layer has at most  *)
(* one job at a time, and each job records its table once, after it has    *)
(* published it; so two rows of layers stand for two published tables.     *)
(***************************************************************************)
RowKinds == {"pipeline", "layer", "quality"}
LayerRows(r) == rows[r].layer

JobIsFirst(job) ==
  /\ job.attempt = 1
  /\ job.layer = 1 => LayerRows(job.run) = 0
  /\ job.layer = 2 => /\ "facts" \in published[job.run]
                      /\ LayerRows(job.run) <= IF job.at = "verdict" THEN 2 ELSE 1
  /\ job.at \in {"record", "verdict"} => TableOf(job) \in published[job.run]

RowsArePublished(r) ==
  /\ LayerRows(r) \in 0..2
  /\ LayerRows(r) >= 1 => "facts" \in published[r]
  /\ LayerRows(r) = 2 => "mart" \in published[r]

RunOnce(r) ==
  /\ RowsArePublished(r)
  /\ r > run => LayerRows(r) = 0
  /\ r = run => attempt = 1
  /\ \A job \in jobs : job.run = r => JobIsFirst(job)
  /\ \A job, other \in jobs : job.run = r /\ other.run = r => job = other
  /\ r = run /\ driver = "submit" => /\ LayerRows(r) < layer
                                     /\ layer = 2 => "facts" \in published[r]
                                     /\ \A job \in jobs : job.run # r

OnceTypes ==
  /\ rows \in [Runs -> [RowKinds -> Nat]]
  /\ published \in [Runs -> SUBSET TableNames]
  /\ driver = "idle" => layer = 1 /\ attempt = 1
  /\ snapshot # NoSnapshot => snapshot.run \in Runs

OnceInv == OnceTypes /\ \A r \in Runs \ again : RunOnce(r)

LEMMA TwoTables == Cardinality(TableNames) = 2
<1>1. IsFiniteSet({"facts"}) /\ Cardinality({"facts"}) = 1 BY FS_Singleton
<1>2. Cardinality({"facts"} \cup {"mart"}) = Cardinality({"facts"}) + 1
  BY <1>1, FS_AddElement
<1>3. TableNames = {"facts"} \cup {"mart"} BY DEF TableNames
<1> QED BY <1>1, <1>2, <1>3

LEMMA RowsAdded ==
  ASSUME OnceTypes, TypeInv, NEW job \in jobs, NEW kinds, Adds(job, kinds)
  PROVE  /\ job.run \in Runs
         /\ rows' \in [Runs -> [RowKinds -> Nat]]
         /\ \A r \in Runs : r # job.run \/ "layer" \notin kinds => LayerRows(r)' = LayerRows(r)
         /\ LayerRows(job.run)' \in {LayerRows(job.run), LayerRows(job.run) + 1}
<1>1. job.run \in Runs
  <2>1. run \in Nat /\ left.runs \in Nat /\ run + left.runs <= MaxRuns BY DEF TypeInv, BudgetRecord
  <2>2. job.run \in 1..run BY DEF TypeInv, JobRecords
  <2> QED BY <2>1, <2>2, BoundsAssumption DEF Runs
<1> QED BY <1>1 DEF Adds, OnceTypes, RowKinds, LayerRows

\* The step of a job leaves its run with one job at most, and the run in order.
LEMMA JobOnce ==
  ASSUME TypeInv, OnceInv, NEW job \in jobs, JobStep(job)
  PROVE  OnceInv'
<1>0. job \in JobRecords(run) /\ TableOf(job) \in TableNames BY TableOfJob DEF TypeInv
<1>1. job.run \in Runs
  <2>1. run \in Nat /\ left.runs \in Nat /\ run + left.runs <= MaxRuns BY DEF TypeInv, BudgetRecord
  <2>2. job.run \in 1..run BY <1>0 DEF JobRecords
  <2> QED BY <2>1, <2>2, BoundsAssumption DEF Runs
<1>2. UNCHANGED <<run, snapshot, again>> BY DEF JobStep
<1>3. rows' \in [Runs -> [RowKinds -> Nat]] /\ published' \in [Runs -> SUBSET TableNames]
  <2>1. CASE UNCHANGED rows BY <1>0, <1>1, <2>1 DEF JobStep, Write, Register, RecordTable, RecordVerdict, OnceInv, OnceTypes
  <2>2. CASE UNCHANGED published /\ \E kinds : Adds(job, kinds)
    BY <2>2, RowsAdded DEF OnceInv, OnceTypes
  <2> QED BY <2>1, <2>2 DEF JobStep, Write, Register, RecordTable, RecordVerdict
<1>4. driver' = "idle" => layer' = 1 /\ attempt' = 1
  BY DEF OnceInv, OnceTypes, JobStep, Write, Register, RecordTable, RecordVerdict, Goes, Succeeds, NextLayer, EndOfRun
<1>5. OnceTypes' BY <1>2, <1>3, <1>4 DEF OnceInv, OnceTypes, Runs
<1>6. ASSUME NEW r \in Runs \ again PROVE RunOnce(r)'
  <2>1. RunOnce(r) BY <1>6 DEF OnceInv
  <2>2. CASE r # job.run
    <3>1. LayerRows(r)' = LayerRows(r) /\ published'[r] = published[r]
      BY <1>1, <1>6, <2>2, RowsAdded
         DEF JobStep, Write, Register, RecordTable, RecordVerdict, OnceInv, OnceTypes, LayerRows
    <3>2. \A other \in jobs' : other.run = r => other \in jobs
      BY <1>0, <2>2 DEF JobStep, Write, Register, RecordTable, RecordVerdict, Goes, Succeeds, JobRecords
    <3>3. r = run => UNCHANGED <<layer, attempt, driver>>
      BY <2>2 DEF JobStep, Write, Register, RecordTable, RecordVerdict, Goes, Succeeds, Waited, SubmittedAt
    <3>4. \A other \in jobs' : other.run = r => JobIsFirst(other)'
      BY <2>1, <3>1, <3>2 DEF RunOnce, JobIsFirst, LayerRows, TableOf
    <3>5. \A other \in jobs : other.run = r => other \in jobs'
      BY <2>2 DEF JobStep, Write, Register, RecordTable, RecordVerdict, Goes, Succeeds
    <3> QED BY <1>2, <2>1, <3>1, <3>2, <3>3, <3>4 DEF RunOnce, RowsArePublished, LayerRows
  <2>3. CASE r = job.run
    <3>1. JobIsFirst(job) /\ \A other \in jobs : other.run = r => other = job
      BY <2>1, <2>3 DEF RunOnce
    <3>2. r = run => driver # "submit" BY <2>1, <2>3 DEF RunOnce
    <3>3. CASE Write(job) \/ Register(job)
      <4>1. PICK step \in {"register", "record"} :
              /\ jobs' = (jobs \ {job}) \cup {[job EXCEPT !.at = step]}
              /\ step = "record" => TableOf(job) \in published'[r]
              /\ UNCHANGED <<layer, attempt, driver, rows>>
              /\ published[r] \subseteq published'[r]
              /\ job.at # "verdict"
        BY <1>0, <1>1, <2>3, <3>3 DEF Write, Register, Goes, OnceInv, OnceTypes
      <4> DEFINE moved == [job EXCEPT !.at = step]
      <4>2. /\ moved.run = job.run /\ moved.layer = job.layer /\ moved.attempt = job.attempt
            /\ moved.at = step
        BY <1>0 DEF JobRecords
      <4>3. \A other \in jobs' : other.run = r => other = moved BY <3>1, <4>1
      <4> HIDE DEF moved
      <4>4. JobIsFirst(moved)'
        BY <1>1, <2>3, <3>1, <4>1, <4>2 DEF JobIsFirst, LayerRows, TableOf
      <4>5. RowsArePublished(r)' BY <2>1, <4>1 DEF RunOnce, RowsArePublished, LayerRows
      <4> QED BY <1>2, <2>1, <3>2, <4>1, <4>3, <4>4, <4>5 DEF RunOnce, LayerRows
    <3>4. CASE RecordTable(job) /\ job.layer = 1
      <4>1. Succeeds(job) /\ Adds(job, {"quality", "layer"}) /\ UNCHANGED published
        BY <3>4, Plans DEF RecordTable
      <4>2. LayerRows(r)' \in {0, 1} BY <2>3, <3>1, <3>4, <4>1, RowsAdded DEF JobIsFirst, OnceInv
      <4>3. "facts" \in published'[r]
        BY <2>3, <3>1, <3>4, <4>1 DEF JobIsFirst, RecordTable, TableOf, Tables
      <4>4. \A other \in jobs' : other.run # r BY <3>1, <4>1 DEF Succeeds
      <4>5. r = run /\ driver' = "submit" => layer' = 2 /\ attempt' = 1
        BY <1>0, <2>3, <3>2, <3>4, <4>1, Plans DEF Succeeds, Waited, SubmittedAt, NextLayer, EndOfRun
      <4>6. r = run => attempt' = 1
        BY <2>1, <3>2, <4>1 DEF RunOnce, Succeeds, NextLayer, EndOfRun
      <4>7. r <= run BY <1>0, <2>3 DEF JobRecords
      <4> QED BY <1>2, <4>2, <4>3, <4>4, <4>5, <4>6, <4>7, <1>6 DEF RunOnce, RowsArePublished, Runs, TypeInv
    <3>5. CASE RecordTable(job) /\ job.layer = 2
      <4>1. Goes(job, "verdict") /\ Adds(job, {"quality", "layer"}) /\ UNCHANGED published
        BY <3>5, Plans DEF RecordTable
      <4>2. LayerRows(r) \in 0..1 /\ "facts" \in published[r] /\ "mart" \in published[r]
        BY <2>1, <2>3, <3>1, <3>5 DEF JobIsFirst, RecordTable, TableOf, Tables, RunOnce, RowsArePublished
      <4>3. LayerRows(r)' \in 0..2 BY <2>3, <4>1, <4>2, RowsAdded DEF OnceInv
      <4> DEFINE moved == [job EXCEPT !.at = "verdict"]
      <4>4. /\ moved.run = job.run /\ moved.layer = 2 /\ moved.attempt = job.attempt
            /\ moved.at = "verdict"
        BY <1>0, <3>5 DEF JobRecords
      <4>5. \A other \in jobs' : other.run = r => other = moved BY <3>1, <4>1 DEF Goes
      <4> HIDE DEF moved
      <4>6. JobIsFirst(moved)'
        BY <2>3, <3>1, <4>1, <4>2, <4>3, <4>4 DEF JobIsFirst, TableOf, Tables
      <4>7. r <= run BY <1>0, <2>3 DEF JobRecords
      <4> QED BY <1>2, <1>6, <2>1, <3>2, <4>1, <4>2, <4>3, <4>5, <4>6, <4>7
              DEF RunOnce, RowsArePublished, Goes, Runs, TypeInv
    <3>6. CASE RecordVerdict(job)
      <4>1. Succeeds(job) /\ Adds(job, {"pipeline"}) /\ UNCHANGED published BY <3>6 DEF RecordVerdict
      <4>2. LayerRows(r)' = LayerRows(r) BY <1>6, <4>1, RowsAdded DEF OnceInv
      <4>3. \A other \in jobs' : other.run # r BY <3>1, <4>1 DEF Succeeds
      <4>4. r = run /\ driver' = "submit" => job.layer = 1 /\ layer' = 2 /\ attempt' = 1
        BY <1>0, <2>3, <3>2, <4>1, Plans DEF Succeeds, Waited, SubmittedAt, NextLayer, EndOfRun, JobRecords
      <4>5. r = run => attempt' = 1
        BY <2>1, <3>2, <4>1 DEF RunOnce, Succeeds, NextLayer, EndOfRun
      <4>6. job.layer = 1 => LayerRows(r) = 0 /\ "facts" \in published[r]
        BY <2>3, <3>1, <3>6 DEF JobIsFirst, RecordVerdict, TableOf, Tables
      <4>7. RowsArePublished(r)' BY <2>1, <4>1, <4>2 DEF RunOnce, RowsArePublished
      <4>8. r > run => LayerRows(r)' = 0 BY <2>1, <4>2 DEF RunOnce
      <4> QED BY <1>2, <4>1, <4>2, <4>3, <4>4, <4>5, <4>6, <4>7, <4>8 DEF RunOnce
    <3> QED BY <1>0, <3>3, <3>4, <3>5, <3>6 DEF JobStep, RecordTable, JobRecords
  <2> QED BY <2>2, <2>3
<1> QED BY <1>2, <1>5, <1>6 DEF OnceInv, Runs

LEMMA OnceInit == Init => OnceInv
<1> SUFFICES ASSUME Init PROVE OnceInv OBVIOUS
<1>1. rows \in [Runs -> [RowKinds -> Nat]] /\ \A r \in Runs : LayerRows(r) = 0
  BY DEF Init, RowKinds, LayerRows
<1>2. OnceTypes BY <1>1 DEF Init, OnceTypes
<1>3. \A r \in Runs : RunOnce(r) BY <1>1 DEF Init, RunOnce, RowsArePublished
<1> QED BY <1>2, <1>3 DEF OnceInv

LEMMA OnceStep == TypeInv /\ OnceInv /\ [Next]_vars => OnceInv'
<1> SUFFICES ASSUME TypeInv, OnceInv, [Next]_vars PROVE OnceInv' OBVIOUS
<1>0. Runs' = Runs /\ MaxRuns \in Nat BY BoundsAssumption DEF Runs
<1>1. ASSUME NEW job \in jobs, JobStep(job) PROVE OnceInv' BY <1>1, JobOnce
<1>2. CASE StartRun
  <2>1. UNCHANGED <<layer, attempt, jobs, rows, snapshot, published, again>> /\ run' = run + 1
        /\ layer = 1 /\ attempt = 1
    BY <1>2 DEF StartRun, history, OnceInv, OnceTypes
  <2>2. OnceTypes' BY <1>2, <2>1 DEF StartRun, OnceInv, OnceTypes, Runs
  <2>3. ASSUME NEW r \in Runs \ again PROVE RunOnce(r)'
    <3>1. RunOnce(r) /\ r \in Nat /\ run \in Nat BY <2>3 DEF OnceInv, Runs, TypeInv
    <3>2. r = run' => LayerRows(r) = 0 /\ \A job \in jobs : job.run # r
      BY <2>1, <3>1 DEF RunOnce, TypeInv, JobRecords
    <3>3. RowsArePublished(r)' /\ LayerRows(r)' = LayerRows(r)
      BY <2>1, <3>1 DEF RunOnce, RowsArePublished, LayerRows
    <3>4. \A job \in jobs' : job.run = r => JobIsFirst(job)'
      BY <2>1, <3>1 DEF RunOnce, JobIsFirst, LayerRows, TableOf
    <3> QED BY <2>1, <3>1, <3>2, <3>3, <3>4 DEF RunOnce
  <2> QED BY <1>0, <2>1, <2>2, <2>3 DEF OnceInv
<1>3. CASE Submit
  <2>1. UNCHANGED <<run, layer, attempt, rows, snapshot, published, again>> /\ driver = "submit"
        /\ driver' = "wait" /\ jobs' = jobs \cup {SubmittedAt("write")}
    BY <1>3 DEF Submit
  <2>2. OnceTypes' BY <2>1 DEF OnceInv, OnceTypes, Runs
  <2>3. ASSUME NEW r \in Runs \ again PROVE RunOnce(r)'
    <3>1. RunOnce(r) BY <2>3 DEF OnceInv
    <3> DEFINE new == SubmittedAt("write")
    <3>2. new.run = run /\ new.layer = layer /\ new.attempt = attempt /\ new.at = "write"
      BY DEF SubmittedAt
    <3> HIDE DEF new
    <3>3. RowsArePublished(r)' /\ LayerRows(r)' = LayerRows(r)
      BY <2>1, <3>1 DEF RunOnce, RowsArePublished, LayerRows
    <3>4. \A job \in jobs : job.run = r => JobIsFirst(job)'
      BY <2>1, <3>1 DEF RunOnce, JobIsFirst, LayerRows, TableOf
    <3>5. CASE r = run
      <4>1. LayerRows(r) < layer /\ (layer = 2 => "facts" \in published[r])
            /\ (\A job \in jobs : job.run # r) /\ attempt = 1 /\ LayerRows(r) \in 0..2
            /\ layer \in {1, 2}
        BY <2>1, <3>1, <3>5 DEF RunOnce, RowsArePublished, TypeInv
      <4>2. \A job \in jobs' : job.run = r => job = SubmittedAt("write") BY <2>1, <4>1
      <4>3. \A job \in jobs' : job.run = r => /\ job.attempt = 1 /\ job.layer = layer /\ job.at = "write"
        BY <3>2, <4>1, <4>2 DEF new
      <4>4. \A job \in jobs' : job.run = r => JobIsFirst(job)'
        BY <2>1, <4>1, <4>3 DEF JobIsFirst, LayerRows
      <4> QED BY <2>1, <3>1, <3>3, <4>2, <4>4 DEF RunOnce
    <3>6. CASE r # run
      <4>1. \A job \in jobs' : job.run = r => job \in jobs BY <2>1, <3>2, <3>6 DEF new
      <4> QED BY <2>1, <3>1, <3>3, <3>4, <3>6, <4>1 DEF RunOnce
    <3> QED BY <3>5, <3>6
  <2> QED BY <1>0, <2>1, <2>2, <2>3 DEF OnceInv
\* The driver leaves an attempt, with its job or without it.
<1>4. ASSUME UNCHANGED <<run, snapshot, published>>, jobs' \subseteq jobs,
             rows' \in [Runs -> [RowKinds -> Nat]], \A r \in Runs : LayerRows(r)' = LayerRows(r),
             \/ EndOfRun /\ UNCHANGED again
             \/ Again
             \/ UNCHANGED <<layer, attempt, driver, again>>
      PROVE  OnceInv'
  <2>1. again \subseteq again' BY <1>4 DEF Again
  <2>2. OnceTypes' BY <1>4 DEF OnceInv, OnceTypes, Runs, EndOfRun, Again
  <2>3. ASSUME NEW r \in Runs \ again' PROVE RunOnce(r)'
    <3>1. RunOnce(r) BY <2>1, <2>3 DEF OnceInv
    <3>2. r = run /\ driver' = "submit" => UNCHANGED <<layer, attempt, driver>>
      BY <1>4, <2>3 DEF Again, EndOfRun
    <3>3. r = run => attempt' = 1 BY <1>4, <2>3, <3>1 DEF Again, EndOfRun, RunOnce
    <3>4. RowsArePublished(r)' BY <1>4, <2>3, <3>1 DEF RunOnce, RowsArePublished
    <3>5. LayerRows(r)' = LayerRows(r) BY <1>4, <2>3
    <3>6. \A job \in jobs' : job.run = r => JobIsFirst(job)'
      BY <1>4, <3>1, <3>5 DEF RunOnce, JobIsFirst, TableOf
    <3> QED BY <1>4, <3>1, <3>2, <3>3, <3>4, <3>5, <3>6 DEF RunOnce
  <2> QED BY <1>0, <2>2, <2>3 DEF OnceInv
<1>5. CASE Abandon
  <2>1. UNCHANGED <<run, snapshot, published, jobs, rows>>
        /\ ((EndOfRun /\ UNCHANGED again) \/ Again)
    BY <1>5 DEF Abandon
  <2> QED BY <1>4, <2>1 DEF OnceInv, OnceTypes, LayerRows
<1>6. ASSUME NEW job \in jobs, JobRaises(job) PROVE OnceInv'
  <2>1. /\ UNCHANGED <<run, snapshot, published>> /\ jobs' \subseteq jobs
        /\ \/ EndOfRun /\ UNCHANGED again
           \/ Again
           \/ UNCHANGED <<layer, attempt, driver, again>>
    BY <1>6 DEF JobRaises, Retry
  <2>2. PICK kinds \in SUBSET {"pipeline", "quality"} : Adds(job, kinds) BY <1>6 DEF JobRaises
  <2>3. rows' \in [Runs -> [RowKinds -> Nat]] /\ \A r \in Runs : LayerRows(r)' = LayerRows(r)
    BY <2>2, RowsAdded DEF OnceInv
  <2> QED BY <1>4, <2>1, <2>3
<1>7. CASE UNCHANGED <<run, layer, attempt, driver, jobs, rows, published, again>>
           /\ (snapshot' = snapshot \/ snapshot'.run \in Runs)
  <2>1. OnceTypes' BY <1>7 DEF OnceInv, OnceTypes, Runs
  <2>2. \A r \in Runs \ again : RunOnce(r)'
    BY <1>7 DEF OnceInv, RunOnce, RowsArePublished, JobIsFirst, LayerRows, TableOf
  <2> QED BY <1>0, <1>7, <2>1, <2>2 DEF OnceInv
<1>8. CASE Decide
  <2>1. snapshot' # snapshot => snapshot'.run \in Runs
    BY SnapshotChanges DEF Accepts, EnoughRows
  <2> QED BY <1>7, <1>8, <2>1 DEF Decide, generator
<1>9. CASE StartReset \/ ResetStep \/ KillReset \/ StartCheck \/ CompareMart \/ UNCHANGED vars
  BY <1>7, <1>9 DEF StartReset, ResetStep, KillReset, StartCheck, CompareMart, vars, generator, history
<1>10. ASSUME NEW t \in TableNames, CountTable(t) PROVE OnceInv'
  BY <1>7, <1>10 DEF CountTable, generator, history
<1> QED BY <1>1, <1>2, <1>3, <1>5, <1>6, <1>8, <1>9, <1>10 DEF Next, Driver, Job, Reset, Verify

\* Where every table is expected, an accepted run that needed one attempt for each layer has
\* published every table.
THEOREM AcceptedRunsAreComplete == Spec => []AcceptedRunIsComplete
<1>1. Init => AcceptedRunIsComplete BY DEF Init, AcceptedRunIsComplete
<1>2. TypeInv /\ OnceInv /\ AcceptedRunIsComplete /\ [Next]_vars => AcceptedRunIsComplete'
  <2> SUFFICES ASSUME TypeInv, OnceInv, AcceptedRunIsComplete, [Next]_vars, (snapshot # NoSnapshot)',
                      ExpectedTables' = TableNames, snapshot'.run \notin again'
               PROVE  published'[snapshot'.run] = TableNames
    BY DEF AcceptedRunIsComplete
  <2>1. UNCHANGED pipeline
    BY DEF Next, Driver, Job, Reset, Verify, vars, StartRun, Submit, Abandon, JobStep, JobRaises,
           StartReset, ResetStep, KillReset, StartCheck, CountTable, CompareMart, Decide
  <2>2. ExpectedTables = TableNames BY <2>1 DEF ExpectedTables
  <2>3. CASE snapshot' # snapshot
    <3>1. PICK isRead \in BOOLEAN :
            /\ Accepts(check.run, isRead)
            /\ snapshot' = [run |-> check.run, counts |-> check.counts]
      BY <2>3, SnapshotChanges
    <3>2. check.run \in Runs /\ LayerRows(check.run) >= 2
      BY <2>2, <3>1, TwoTables DEF Accepts, EnoughRows, LayerRows
    <3>3. UNCHANGED <<again, published>>
      BY <2>3 DEF Next, Driver, Job, Reset, Verify, vars, StartRun, Submit, Abandon, JobStep, Write,
         Register, RecordTable, RecordVerdict, JobRaises, StartReset, ResetStep, KillReset, StartCheck,
         CountTable, CompareMart, Decide
    <3>4. RunOnce(check.run) BY <3>1, <3>2, <3>3 DEF OnceInv
    <3>5. "facts" \in published[check.run] /\ "mart" \in published[check.run]
      BY <3>2, <3>4 DEF RunOnce, RowsArePublished
    <3> QED BY <3>1, <3>2, <3>3, <3>5 DEF OnceInv, OnceTypes, TableNames
  <2>4. CASE snapshot' = snapshot
    <3>1. again \subseteq again'
      BY DEF Next, Driver, Job, Reset, Verify, vars, generator, history, StartRun, Submit, Abandon, JobStep,
             JobRaises, Retry, Again, StartReset, ResetStep, KillReset, StartCheck, CountTable,
             CompareMart, Decide
    <3>2. published[snapshot.run] = TableNames /\ snapshot.run \in Runs
      BY <2>2, <2>4, <3>1 DEF AcceptedRunIsComplete, OnceInv, OnceTypes
    <3>3. published'[snapshot.run] \subseteq TableNames
      BY <3>2, OnceStep DEF OnceInv, OnceTypes, Runs
    <3>4. published[snapshot.run] \subseteq published'[snapshot.run]
      <4>1. ASSUME NEW job \in jobs, JobStep(job)
            PROVE  published[snapshot.run] \subseteq published'[snapshot.run]
        BY <3>2, <4>1 DEF JobStep, Write, Register, RecordTable, RecordVerdict, OnceInv, OnceTypes
      <4>2. CASE UNCHANGED published BY <4>2
      <4> QED BY <4>1, <4>2
              DEF Next, Driver, Job, Reset, Verify, vars, history, StartRun, Submit, Abandon,
                  JobRaises, StartReset, ResetStep, KillReset, StartCheck, CountTable, CompareMart, Decide
    <3> QED BY <2>4, <3>2, <3>3, <3>4
  <2> QED BY <2>3, <2>4
<1> QED BY <1>1, <1>2, TypeInit, TypeStep, OnceInit, OnceStep, PTL DEF Spec
=============================================================================
