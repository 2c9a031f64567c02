-------------------------- MODULE GeneratorProofs --------------------------
(***************************************************************************)
(* Theorems about Generator, for every list of layers, every bound and     *)
(* every set of faults.                                                    *)
(***************************************************************************)
EXTENDS Generator, TLAPS

USE LayersAssumption, BoundsAssumption, FlagsAssumption, FaultsAssumption

(***************************************************************************)
(* Types.  TypeOK alone is not inductive: that Now is an attempt needs the *)
(* loop indices to be in range wherever control is inside an attempt.      *)
(***************************************************************************)
InAttempt == pc \in Running \ {"layer"}

Located ==
  /\ pc \in Running => MaxAttempts >= 1
  /\ InAttempt => li \in 1 .. Len(Layers) /\ Layer \in Supported /\ attempt \in 1 .. MaxAttempts

TypeInv == TypeOK /\ Located

\* Inside an attempt, Now names one.
LEMMA NowType == TypeInv /\ InAttempt => Now \in Id /\ Layer \in LayerNames
BY DEF TypeInv, TypeOK, Located, InAttempt, Now, Id, Layer

LEMMA TypeInit == Init => TypeInv
<1> SUFFICES ASSUME Init PROVE TypeInv
  OBVIOUS
<1>1. /\ pc \in Ended /\ pc \notin Running
      /\ prior \in Conversation /\ sent \in Conversation
  BY DEF Init, Ended, Running, Conversation, NoMessages
<1>2. catalog \subseteq LayerNames /\ torn \in BOOLEAN
  BY DEF Init
<1>3. \A l \in LayerNames : Original(l) \in Id
  BY DEF Original, Id
<1> QED
  BY <1>1, <1>2, <1>3 DEF Init, TypeInv, TypeOK, Located, InAttempt

LEMMA ConversationType ==
  TypeInv /\ InAttempt =>
    Messages \in Conversation /\ \A e \in BOOLEAN : Conversed(e) \in Conversation
<1> SUFFICES ASSUME TypeInv, InAttempt
             PROVE  Messages \in Conversation /\ \A e \in BOOLEAN : Conversed(e) \in Conversation
  OBVIOUS
<1>1. prior \in Conversation /\ lastError \in 0 .. MaxAttempts /\ attempt \in 1 .. MaxAttempts
  BY DEF TypeInv, TypeOK, Located
<1>2. prior.errors \subseteq 1 .. MaxAttempts /\ prior.turns \subseteq 1 .. MaxAttempts
  BY <1>1 DEF Conversation
<1>3. prior.evidence \in BOOLEAN
  BY <1>1, Zenon DEF Conversation
<1>4. prior.errors \cup ({lastError} \ {0}) \in SUBSET (1 .. MaxAttempts)
  BY <1>1, <1>2
<1>5. Messages \in Conversation
  BY <1>2, <1>3, <1>4 DEF Messages, Conversation
<1>6. ASSUME NEW e \in BOOLEAN PROVE Conversed(e) \in Conversation
  <2>1. (Messages.evidence \/ e) \in BOOLEAN
    OBVIOUS
  <2>2. /\ Messages.errors \in SUBSET (1 .. MaxAttempts)
        /\ Messages.turns \cup {attempt} \in SUBSET (1 .. MaxAttempts)
    BY <1>1, <1>2, <1>4 DEF Messages
  <2> DEFINE ev == Messages.evidence \/ e
  <2>3. ev \in BOOLEAN
    BY <2>1
  <2>4. Conversed(e) = [errors |-> Messages.errors, turns |-> Messages.turns \cup {attempt},
                        evidence |-> ev]
    BY Zenon DEF Conversed
  <2> HIDE DEF ev
  <2> QED
    BY <2>2, <2>3, <2>4 DEF Conversation
<1> QED
  BY <1>5, <1>6

\* The end of a job changes only what the service and the waiting driver know of it.
LEMMA JobEndTypes ==
  ASSUME TypeInv, NEW id \in active, JobSucceeds(id) \/ JobFails(id)
  PROVE  TypeInv'
<1>1. id \in Id /\ id.layer \in LayerNames
  BY DEF TypeInv, TypeOK, Id
<1>2. /\ UNCHANGED <<pc, position, dialogue, exc, repo, records, passed>>
      /\ \E state \in {"SUCCESS", "FAILED", "CANCELED"} : EndOfJob(id, state)
      /\ tables' \in {tables, [tables EXCEPT ![id.layer] = id]}
      /\ succeeded' \in {succeeded, succeeded \cup {id}}
  BY DEF JobSucceeds, JobFails
<1>3. result' \in {"none", "SUCCESS", "FAILED", "CANCELED"} /\ active' \subseteq Id
  BY <1>2 DEF EndOfJob, TypeInv, TypeOK
<1>4. tables' \in [LayerNames -> Id] /\ succeeded' \subseteq Id
  BY <1>1, <1>2 DEF TypeInv, TypeOK
<1>5. TypeOK'
  BY <1>2, <1>3, <1>4 DEF TypeInv, TypeOK, position, dialogue, repo, records
<1>6. Located'
  BY <1>2 DEF TypeInv, Located, InAttempt, Ended, Running, Layer, position, dialogue, repo, records
<1> QED
  BY <1>5, <1>6 DEF TypeInv

LEMMA TypeStep == TypeInv /\ [Next]_vars => TypeInv'
<1> SUFFICES ASSUME TypeInv, [Next]_vars PROVE TypeInv'
  OBVIOUS
<1> USE NowType DEF TypeInv, TypeOK, Located, InAttempt, Ended, Running, Layer, position, dialogue, repo,
                    records, jobs
<1>1. CASE StartRun
  BY <1>1 DEF StartRun, NoMessages, Conversation
<1>2. CASE NextLayer
  BY <1>2 DEF NextLayer, FreshLayer, NoMessages, Conversation
<1>3. CASE Prepare
  BY <1>3 DEF Prepare
<1>4. CASE ModelAnswers
  BY <1>4, ConversationType DEF ModelAnswers
<1>5. CASE LoopRaises
  BY <1>5, ConversationType DEF LoopRaises, CarriesMessages, Raise, RaiseOutside
<1>6. CASE Check
  BY <1>6 DEF Check, Raise
<1>7. CASE WriteArtifacts
  BY <1>7 DEF WriteArtifacts, Raise
<1>8. CASE SubmitJob
  BY <1>8 DEF SubmitJob, Raise, RaiseOutside
<1>9. CASE JobObserved
  BY <1>9 DEF JobObserved, GoodEnd, Raise, RaiseOutside, Finally
<1>10. CASE JobAbandoned
  BY <1>10 DEF JobAbandoned, Raise, RaiseOutside, Finally
<1>11. CASE Promote
  BY <1>11 DEF Promote, Raise
<1>12. CASE HandleFailure
  BY <1>12 DEF HandleFailure, Unrecordable, Recorded
<1>13. CASE RetryOrRaise
  BY <1>13 DEF RetryOrRaise, GivesUp, GiveUp, NextAttempt, Recorded
<1>14. CASE RecordOutcome
  BY <1>14 DEF RecordOutcome, Recorded
<1>15. CASE RecordPassedRow
  BY <1>15 DEF RecordPassedRow, Recorded
<1>16. CASE LayerPassed
  BY <1>16 DEF LayerPassed, Break, Recorded
<1>17. ASSUME NEW id \in active, JobSucceeds(id) \/ JobFails(id) PROVE TypeInv'
  BY <1>17, JobEndTypes
<1>18. CASE Kill
  BY <1>18 DEF Kill
<1>19. CASE UNCHANGED vars
  BY <1>19 DEF vars
<1> QED
  BY <1>1, <1>2, <1>3, <1>4, <1>5, <1>6, <1>7, <1>8, <1>9, <1>10, <1>11, <1>12, <1>13, <1>14, <1>15, <1>16, <1>17, <1>18, <1>19 DEF Next, Driver, Service

\* The state of the generator is always of its type.
THEOREM TypeCorrect == Spec => []TypeOK
<1>1. TypeInv => TypeOK
  BY DEF TypeInv
<1> QED
  BY TypeInit, TypeStep, <1>1, PTL DEF Spec

(***************************************************************************)
(* PassedWasExecuted.  A SUCCESS seen by the driver is the SUCCESS of the  *)
(* job of this attempt: result is cleared when the attempt begins and is   *)
(* only set while the driver waits.                                        *)
(***************************************************************************)
Passing == {"promote", "passMeta", "passRow", "passLog"}

ExecInv ==
  /\ PassedWasExecuted
  /\ pc \in {"loop", "check", "write", "execute"} => result = "none"
  /\ pc = "wait" /\ result = "SUCCESS" => Now \in succeeded
  /\ ExecuteGenerated /\ pc \in Passing => Now \in succeeded

LEMMA ExecInit == Init => ExecInv
BY DEF Init, ExecInv, PassedWasExecuted, Passing

LEMMA ExecStep == TypeInv /\ TypeInv' /\ ExecInv /\ [Next]_vars => ExecInv'
<1> SUFFICES ASSUME TypeInv, TypeInv', ExecInv, [Next]_vars PROVE ExecInv'
  OBVIOUS
<1> USE DEF ExecInv, PassedWasExecuted, Passing, Now, Layer, position, dialogue, repo, records, jobs
<1>1. CASE StartRun
  BY <1>1 DEF StartRun, Ended
<1>2. CASE NextLayer
  BY <1>2 DEF NextLayer, FreshLayer
<1>3. CASE Prepare
  BY <1>3 DEF Prepare
<1>4. CASE ModelAnswers
  BY <1>4 DEF ModelAnswers
<1>5. CASE LoopRaises
  BY <1>5 DEF LoopRaises, CarriesMessages, Raise, RaiseOutside
<1>6. CASE Check
  BY <1>6 DEF Check, Raise
<1>7. CASE WriteArtifacts
  BY <1>7 DEF WriteArtifacts, Raise
<1>8. CASE SubmitJob
  BY <1>8 DEF SubmitJob, Raise, RaiseOutside
<1>9. CASE JobObserved
  BY <1>9 DEF JobObserved, GoodEnd, Raise, RaiseOutside, Finally
<1>10. CASE JobAbandoned
  BY <1>10 DEF JobAbandoned, Raise, RaiseOutside, Finally
<1>11. CASE Promote
  BY <1>11 DEF Promote, Raise
<1>12. CASE HandleFailure
  BY <1>12 DEF HandleFailure, Unrecordable, Recorded
<1>13. CASE RetryOrRaise
  BY <1>13 DEF RetryOrRaise, GivesUp, GiveUp, NextAttempt, Recorded
<1>14. CASE RecordOutcome
  BY <1>14 DEF RecordOutcome, Recorded
<1>15. CASE RecordPassedRow
  BY <1>15 DEF RecordPassedRow, Recorded
<1>16. CASE LayerPassed
  BY <1>16 DEF LayerPassed, Break, Recorded
<1>17. ASSUME NEW id \in active, JobSucceeds(id) PROVE ExecInv'
  BY <1>17 DEF JobSucceeds, EndOfJob
<1>18. ASSUME NEW id \in active, JobFails(id) PROVE ExecInv'
  BY <1>18 DEF JobFails, EndOfJob
<1>19. CASE Kill
  BY <1>19 DEF Kill
<1>20. CASE UNCHANGED vars
  BY <1>20 DEF vars
<1> QED
  BY <1>1, <1>2, <1>3, <1>4, <1>5, <1>6, <1>7, <1>8, <1>9, <1>10, <1>11, <1>12, <1>13, <1>14, <1>15, <1>16, <1>17, <1>18, <1>19, <1>20 DEF Next, Driver, Service

\* With execution on, whatever is recorded or returned as passed ran as a job that
\* ended in SUCCESS.
THEOREM PassedIsExecuted == Spec => []PassedWasExecuted
<1>1. ExecInv => PassedWasExecuted
  BY DEF ExecInv
<1> QED
  BY TypeInit, TypeStep, ExecInit, ExecStep, <1>1, PTL DEF Spec

(***************************************************************************)
(* The dialogue with the model.                                            *)
(***************************************************************************)
\* What prior_messages and last_error hold at each point of an attempt.
DialogueInv ==
  /\ pc \in {"prepare", "loop"} =>
       /\ lastError = attempt - 1
       /\ prior.errors \subseteq 1 .. attempt - 1 /\ prior.turns \subseteq 1 .. attempt - 1
  /\ pc \in Answered =>
       /\ prior.errors \subseteq 1 .. attempt - 1 /\ prior.turns \subseteq 1 .. attempt
  /\ pc = "failLog" => lastError = attempt
  /\ ModelIsToldTheLastError

\* The same without malformed tool calls: nothing is missing either.
KeptInv ==
  ~Fault("malformed_call") =>
    /\ pc \in {"prepare", "loop"} =>
         prior.turns = 1 .. attempt - 1 /\ prior.errors = 1 .. attempt - 2
    /\ pc \in Answered => prior.turns = 1 .. attempt /\ prior.errors = 1 .. attempt - 1
    /\ ConversationIsKept

LEMMA DialogueInit == Init => DialogueInv /\ KeptInv
BY DEF Init, DialogueInv, KeptInv, ModelIsToldTheLastError, ConversationIsKept, Answered, Running

LEMMA DialogueStep == TypeInv /\ TypeInv' /\ DialogueInv /\ [Next]_vars => DialogueInv'
<1> SUFFICES ASSUME TypeInv, TypeInv', DialogueInv, [Next]_vars PROVE DialogueInv'
  OBVIOUS
<1> USE DEF TypeInv, TypeOK, Located, InAttempt, Conversation, DialogueInv, ModelIsToldTheLastError, Answered, Running, Ended, position, dialogue, repo, records, jobs
<1>1. CASE StartRun
  BY <1>1 DEF StartRun
<1>2. CASE NextLayer
  BY <1>2 DEF NextLayer, FreshLayer, NoMessages
<1>3. CASE Prepare
  BY <1>3 DEF Prepare
<1>4. CASE ModelAnswers
  BY <1>4 DEF ModelAnswers, Messages, Conversed
<1>5. CASE LoopRaises
  BY <1>5 DEF LoopRaises, CarriesMessages, Raise, RaiseOutside, Messages, Conversed
<1>6. CASE Check
  BY <1>6 DEF Check, Raise
<1>7. CASE WriteArtifacts
  BY <1>7 DEF WriteArtifacts, Raise
<1>8. CASE SubmitJob
  BY <1>8 DEF SubmitJob, Raise, RaiseOutside
<1>9. CASE JobObserved
  BY <1>9 DEF JobObserved, GoodEnd, Raise, RaiseOutside, Finally
<1>10. CASE JobAbandoned
  BY <1>10 DEF JobAbandoned, Raise, RaiseOutside, Finally
<1>11. CASE Promote
  BY <1>11 DEF Promote, Raise
<1>12. CASE HandleFailure
  BY <1>12 DEF HandleFailure, Unrecordable, Recorded
<1>13. CASE RetryOrRaise
  <2>1. /\ attempt \in 1 .. MaxAttempts /\ lastError = attempt
        /\ prior.errors \subseteq 1 .. attempt - 1 /\ prior.turns \subseteq 1 .. attempt
        /\ UNCHANGED <<prior, sent, lastError>>
    BY <1>13 DEF RetryOrRaise, GivesUp, GiveUp, NextAttempt
  <2>2. CASE pc' = "raised"
    BY <2>2
  <2>3. CASE pc' = "prepare" /\ attempt' = attempt + 1
    BY <2>1, <2>3
  <2> QED
    BY <1>13, <2>2, <2>3 DEF RetryOrRaise, GivesUp, GiveUp, NextAttempt
<1>14. CASE RecordOutcome
  BY <1>14 DEF RecordOutcome, Recorded
<1>15. CASE RecordPassedRow
  BY <1>15 DEF RecordPassedRow, Recorded
<1>16. CASE LayerPassed
  BY <1>16 DEF LayerPassed, Break, Recorded
<1>17. ASSUME NEW id \in active, JobSucceeds(id) PROVE DialogueInv'
  BY <1>17 DEF JobSucceeds, EndOfJob
<1>18. ASSUME NEW id \in active, JobFails(id) PROVE DialogueInv'
  BY <1>18 DEF JobFails, EndOfJob
<1>19. CASE Kill
  BY <1>19 DEF Kill
<1>20. CASE UNCHANGED vars
  BY <1>20 DEF vars
<1> QED
  BY <1>1, <1>2, <1>3, <1>4, <1>5, <1>6, <1>7, <1>8, <1>9, <1>10, <1>11, <1>12, <1>13, <1>14, <1>15, <1>16, <1>17, <1>18, <1>19, <1>20 DEF Next, Driver, Service

LEMMA KeptStep == TypeInv /\ DialogueInv /\ TypeInv' /\ KeptInv /\ [Next]_vars => KeptInv'
<1> SUFFICES ASSUME TypeInv, DialogueInv, TypeInv', KeptInv, [Next]_vars PROVE KeptInv'
  OBVIOUS
<1> USE DEF TypeInv, TypeOK, Located, InAttempt, Conversation, DialogueInv, KeptInv, ConversationIsKept, Answered, Running, Ended, position, dialogue, repo, records, jobs
<1>1. CASE StartRun
  BY <1>1 DEF StartRun
<1>2. CASE NextLayer
  BY <1>2 DEF NextLayer, FreshLayer, NoMessages
<1>3. CASE Prepare
  BY <1>3 DEF Prepare
<1>4. CASE ModelAnswers
  BY <1>4 DEF ModelAnswers, Messages, Conversed
<1>5. CASE LoopRaises
  <2> SUFFICES ASSUME ~Fault("malformed_call") PROVE KeptInv'
    BY DEF Fault
  <2>1. attempt \in 1 .. MaxAttempts /\ lastError = attempt - 1
    BY <1>5 DEF LoopRaises, CarriesMessages
  <2>2. prior.turns = 1 .. attempt - 1 /\ prior.errors = 1 .. attempt - 2
    BY <1>5 DEF LoopRaises, CarriesMessages
  <2>3. /\ UNCHANGED attempt /\ pc' = "handle" /\ sent' = Messages
        /\ \E e \in BOOLEAN : prior' = Conversed(e)
    BY <1>5 DEF LoopRaises, CarriesMessages, Raise, RaiseOutside
  <2>4. Messages.turns = 1 .. attempt - 1 /\ Messages.errors = 1 .. attempt - 1
    BY <2>1, <2>2 DEF Messages
  <2>5. prior'.turns = 1 .. attempt /\ prior'.errors = 1 .. attempt - 1
    BY <2>1, <2>3, <2>4 DEF Conversed
  <2> QED
    BY <2>3, <2>4, <2>5
<1>6. CASE Check
  BY <1>6 DEF Check, Raise
<1>7. CASE WriteArtifacts
  BY <1>7 DEF WriteArtifacts, Raise
<1>8. CASE SubmitJob
  BY <1>8 DEF SubmitJob, Raise, RaiseOutside
<1>9. CASE JobObserved
  BY <1>9 DEF JobObserved, GoodEnd, Raise, RaiseOutside, Finally
<1>10. CASE JobAbandoned
  BY <1>10 DEF JobAbandoned, Raise, RaiseOutside, Finally
<1>11. CASE Promote
  BY <1>11 DEF Promote, Raise
<1>12. CASE HandleFailure
  BY <1>12 DEF HandleFailure, Unrecordable, Recorded
<1>13. CASE RetryOrRaise
  <2>1. /\ attempt \in 1 .. MaxAttempts
        /\ ~Fault("malformed_call") => prior.errors = 1 .. attempt - 1 /\ prior.turns = 1 .. attempt
        /\ UNCHANGED <<prior, sent>>
    BY <1>13 DEF RetryOrRaise, GivesUp, GiveUp, NextAttempt
  <2>2. CASE pc' = "raised"
    BY <2>2
  <2>3. CASE pc' = "prepare" /\ attempt' = attempt + 1
    <3>1. attempt' - 1 = attempt /\ attempt' - 2 = attempt - 1
      BY <2>1, <2>3
    <3> QED
      BY <2>1, <2>3, <3>1
  <2> QED
    BY <1>13, <2>2, <2>3 DEF RetryOrRaise, GivesUp, GiveUp, NextAttempt
<1>14. CASE RecordOutcome
  BY <1>14 DEF RecordOutcome, Recorded
<1>15. CASE RecordPassedRow
  BY <1>15 DEF RecordPassedRow, Recorded
<1>16. CASE LayerPassed
  BY <1>16 DEF LayerPassed, Break, Recorded
<1>17. ASSUME NEW id \in active, JobSucceeds(id) PROVE KeptInv'
  BY <1>17 DEF JobSucceeds, EndOfJob
<1>18. ASSUME NEW id \in active, JobFails(id) PROVE KeptInv'
  BY <1>18 DEF JobFails, EndOfJob
<1>19. CASE Kill
  BY <1>19 DEF Kill
<1>20. CASE UNCHANGED vars
  BY <1>20 DEF vars
<1> QED
  BY <1>1, <1>2, <1>3, <1>4, <1>5, <1>6, <1>7, <1>8, <1>9, <1>10, <1>11, <1>12, <1>13, <1>14, <1>15, <1>16, <1>17, <1>18, <1>19, <1>20 DEF Next, Driver, Service

\* In every attempt the model is told the error of the attempt before it, and
\* nothing of another layer.
THEOREM ErrorReachesTheModel == Spec => []ModelIsToldTheLastError
<1>1. DialogueInv => ModelIsToldTheLastError
  BY DEF DialogueInv
<1> QED
  BY TypeInit, TypeStep, DialogueInit, DialogueStep, <1>1, PTL DEF Spec

\* Without malformed tool calls no exchange is lost between the attempts of a layer.
THEOREM NoExchangeIsLost == Spec => []ConversationIsKept
<1>1. KeptInv => ConversationIsKept
  BY DEF KeptInv, ConversationIsKept
<1> QED
  BY TypeInit, TypeStep, DialogueInit, DialogueStep, KeptStep, <1>1, PTL DEF Spec

(***************************************************************************)
(* The records of the attempts.                                            *)
(***************************************************************************)
AllRecords == rows \cup logs \cup runRows

\* Records of the attempt under way, and of the layer under way before it.
HistoryInv ==
  /\ RecordsFormAHistory
  /\ \A r \in AllRecords : r.id.run <= run
  /\ pc \in Running =>
       \A r \in AllRecords : \A j \in li .. Len(Layers) :
         r.id.run = run /\ r.id.layer = Layers[j] => j = li /\ InAttempt
  /\ InAttempt =>
       \A r \in AllRecords : r.id.run = run /\ r.id.layer = Layer =>
         /\ r.id.attempt <= attempt
         /\ r.id.attempt < attempt => r.status = "FAILED"
         /\ r.id.attempt = attempt => \/ pc = "failLog" /\ r.status = "FAILED"
                                      \/ pc \in {"passRow", "passLog"} /\ r.status = "PASSED"

LEMMA HistoryInit == Init => HistoryInv
BY DEF Init, HistoryInv, RecordsFormAHistory, AllRecords, InAttempt, Running

\* Recording the attempt under way keeps the history, given that what is already
\* recorded of it agrees.
LEMMA AddRecord ==
  ASSUME TypeInv, HistoryInv, InAttempt,
         NEW status \in {"FAILED", "PASSED"},
         \A r \in AllRecords : r.id = Now => r.status = status,
         AllRecords' \subseteq AllRecords \cup {[id |-> Now, status |-> status]}
  PROVE  RecordsFormAHistory'
<1> DEFINE new == [id |-> Now, status |-> status]
<1>1. /\ \A r \in AllRecords : r.id \in Id /\ r.status \in {"FAILED", "PASSED"}
      /\ attempt \in 1 .. MaxAttempts
  BY DEF AllRecords, TypeInv, TypeOK, Located
<1>2. ASSUME NEW r \in AllRecords, r.id.run = run, r.id.layer = Layer, r.status = "PASSED"
      PROVE  r.id.attempt = attempt /\ status = "PASSED"
  <2>1. r.id.attempt = attempt
    BY <1>1, <1>2 DEF HistoryInv, Id
  <2>2. r.id = Now
    BY <1>1, <1>2, <2>1 DEF Id, Now
  <2> QED
    BY <1>2, <2>1, <2>2
<1>3. ASSUME NEW s \in AllRecords, s.id.run = run, s.id.layer = Layer
      PROVE  s.id.attempt <= attempt
  BY <1>3 DEF HistoryInv
<1>4. ASSUME NEW r \in AllRecords \cup {new}, NEW s \in AllRecords \cup {new}
      PROVE  /\ r.id = s.id => r.status = s.status
             /\ r.id.run = s.id.run /\ r.id.layer = s.id.layer /\ r.status = "PASSED"
                => s.id.attempt <= r.id.attempt
  <2>1. CASE r \in AllRecords /\ s \in AllRecords
    BY <2>1 DEF HistoryInv, RecordsFormAHistory, AllRecords
  <2>2. CASE r = new /\ s = new
    BY <1>1, <2>2 DEF Now
  <2>3. CASE r = new /\ s \in AllRecords
    BY <1>1, <1>3, <2>3 DEF Now
  <2>4. CASE r \in AllRecords /\ s = new
    BY <1>1, <1>2, <2>4 DEF Now
  <2> QED
    BY <2>1, <2>2, <2>3, <2>4
<1> QED
  BY <1>4 DEF RecordsFormAHistory, AllRecords

LEMMA HistoryStep == TypeInv /\ TypeInv' /\ HistoryInv /\ [Next]_vars => HistoryInv'
<1> SUFFICES ASSUME TypeInv, TypeInv', HistoryInv, [Next]_vars PROVE HistoryInv'
  OBVIOUS
<1> USE DEF TypeInv, TypeOK, Located, Id, Layer, Now, InAttempt, HistoryInv, RecordsFormAHistory, AllRecords, Running, Ended, position, dialogue, repo, records, jobs
<1>1. CASE StartRun
  BY <1>1 DEF StartRun
<1>2. CASE NextLayer
  BY <1>2, LayersDistinct DEF NextLayer, FreshLayer
<1>3. CASE Prepare
  BY <1>3 DEF Prepare
<1>4. CASE ModelAnswers
  BY <1>4 DEF ModelAnswers
<1>5. CASE LoopRaises
  BY <1>5 DEF LoopRaises, CarriesMessages, Raise, RaiseOutside
<1>6. CASE Check
  BY <1>6 DEF Check, Raise
<1>7. CASE WriteArtifacts
  BY <1>7 DEF WriteArtifacts, Raise
<1>8. CASE SubmitJob
  BY <1>8 DEF SubmitJob, Raise, RaiseOutside
<1>9. CASE JobObserved
  BY <1>9 DEF JobObserved, GoodEnd, Raise, RaiseOutside, Finally
<1>10. CASE JobAbandoned
  BY <1>10 DEF JobAbandoned, Raise, RaiseOutside, Finally
<1>11. CASE Promote
  BY <1>11 DEF Promote, Raise
<1>12. CASE HandleFailure
  <2>1. /\ pc = "handle" /\ InAttempt /\ UNCHANGED <<run, li>>
        /\ AllRecords' \subseteq AllRecords \cup {[id |-> Now, status |-> "FAILED"]}
    BY <1>12 DEF HandleFailure, Unrecordable, Recorded
  <2>2. \A r \in AllRecords : r.id = Now => r.status = "FAILED"
    BY <2>1
  <2>3. RecordsFormAHistory'
    BY <2>1, <2>2, AddRecord
  <2>4. \A r \in AllRecords' : r \in AllRecords \/ r = [id |-> Now, status |-> "FAILED"]
    BY <2>1
  <2> QED
    BY <1>12, <2>1, <2>3, <2>4, LayersDistinct DEF HandleFailure, Unrecordable
<1>13. CASE RetryOrRaise
  <2>1. /\ pc = "failLog" /\ InAttempt /\ UNCHANGED <<run, li>>
        /\ AllRecords' \subseteq AllRecords \cup {[id |-> Now, status |-> "FAILED"]}
    BY <1>13 DEF RetryOrRaise, GivesUp, GiveUp, NextAttempt, Recorded
  <2>2. \A r \in AllRecords : r.id = Now => r.status = "FAILED"
    BY <2>1
  <2>3. RecordsFormAHistory'
    BY <2>1, <2>2, AddRecord
  <2>4. \A r \in AllRecords' : r \in AllRecords \/ r = [id |-> Now, status |-> "FAILED"]
    BY <2>1
  <2> QED
    BY <1>13, <2>1, <2>3, <2>4, LayersDistinct DEF RetryOrRaise, GivesUp, GiveUp, NextAttempt
<1>14. CASE RecordOutcome
  <2>1. /\ pc = "passMeta" /\ InAttempt /\ UNCHANGED <<run, li>>
        /\ AllRecords' \subseteq AllRecords \cup {[id |-> Now, status |-> "PASSED"]}
    BY <1>14 DEF RecordOutcome, Recorded
  <2>2. ASSUME NEW r \in AllRecords, r.id = Now PROVE r.status = "PASSED"
    <3>1. r.id.run = run /\ r.id.layer = Layer /\ r.id.attempt = attempt
      BY <2>2 DEF Now
    <3> QED
      BY <2>1, <3>1
  <2>3. RecordsFormAHistory'
    BY <2>1, <2>2, AddRecord
  <2>4. \A r \in AllRecords' : r \in AllRecords \/ r = [id |-> Now, status |-> "PASSED"]
    BY <2>1
  <2> QED
    BY <1>14, <2>1, <2>3, <2>4, LayersDistinct DEF RecordOutcome
<1>15. CASE RecordPassedRow
  <2>1. /\ pc = "passRow" /\ InAttempt /\ UNCHANGED <<run, li>>
        /\ AllRecords' \subseteq AllRecords \cup {[id |-> Now, status |-> "PASSED"]}
    BY <1>15 DEF RecordPassedRow, Recorded
  <2>2. \A r \in AllRecords : r.id = Now => r.status = "PASSED"
    BY <2>1
  <2>3. RecordsFormAHistory'
    BY <2>1, <2>2, AddRecord
  <2>4. \A r \in AllRecords' : r \in AllRecords \/ r = [id |-> Now, status |-> "PASSED"]
    BY <2>1
  <2> QED
    BY <1>15, <2>1, <2>3, <2>4, LayersDistinct DEF RecordPassedRow
<1>16. CASE LayerPassed
  <2>1. /\ pc = "passLog" /\ pc' = "layer" /\ li' = li + 1 /\ UNCHANGED run
        /\ AllRecords' \subseteq AllRecords \cup {[id |-> Now, status |-> "PASSED"]}
    BY <1>16 DEF LayerPassed, Break, Recorded
  <2>2. \A r \in AllRecords : r.id = Now => r.status = "PASSED"
    BY <2>1
  <2>3. RecordsFormAHistory'
    BY <2>1, <2>2, AddRecord
  <2>4. \A r \in AllRecords' : r \in AllRecords \/ r = [id |-> Now, status |-> "PASSED"]
    BY <2>1
  <2>5. \A r \in AllRecords' : r.id.run <= run
    BY <2>1, <2>4
  <2>6. ASSUME NEW r \in AllRecords', NEW j \in li + 1 .. Len(Layers),
               r.id.run = run, r.id.layer = Layers[j]
        PROVE  FALSE
    <3>1. CASE r \in AllRecords
      BY <2>1, <2>6, <3>1
    <3>2. CASE r = [id |-> Now, status |-> "PASSED"]
      BY <2>1, <2>6, <3>2, LayersDistinct
    <3> QED
      BY <2>4, <3>1, <3>2
  <2> QED
    BY <2>1, <2>3, <2>5, <2>6
<1>17. ASSUME NEW id \in active, JobSucceeds(id) PROVE HistoryInv'
  BY <1>17 DEF JobSucceeds, EndOfJob
<1>18. ASSUME NEW id \in active, JobFails(id) PROVE HistoryInv'
  BY <1>18 DEF JobFails, EndOfJob
<1>19. CASE Kill
  BY <1>19 DEF Kill
<1>20. CASE UNCHANGED vars
  BY <1>20 DEF vars
<1> QED
  BY <1>1, <1>2, <1>3, <1>4, <1>5, <1>6, <1>7, <1>8, <1>9, <1>10, <1>11, <1>12, <1>13, <1>14, <1>15, <1>16, <1>17, <1>18, <1>19, <1>20 DEF Next, Driver, Service

\* Over the error table, the logs and generator_runs, an attempt has one status and a
\* PASSED attempt is the last one of its layer in its run.
THEOREM RecordsAreAHistory == Spec => []RecordsFormAHistory
<1>1. HistoryInv => RecordsFormAHistory
  BY DEF HistoryInv
<1> QED
  BY TypeInit, TypeStep, HistoryInit, HistoryStep, <1>1, PTL DEF Spec

(***************************************************************************)
(* The jobs of one run.                                                    *)
(***************************************************************************)
\* The service answers submissions and polls, and neither cancelling a run that has
\* timed out nor deleting its job fails.
ReliableService ==
  /\ {"submit", "poll"} \cap Faults = {}
  /\ "timeout" \in Faults => {"cancel", "cleanup"} \cap Faults = {}

\* A job of the run under way is being waited for, or has made the run fail for good.
JobInv ==
  ReliableService =>
    /\ RetryNeverRacesItsJob
    /\ \A id \in active : id.run <= run
    /\ pc \in Running =>
         \A id \in active : id.run = run =>
           /\ id = Now
           /\ pc = "wait" \/ (pc \in {"handle", "failLog"} /\ exc = "stuck")
    /\ pc = "wait" /\ result # "none" => Now \notin active

LEMMA JobInit == Init => JobInv
BY DEF Init, JobInv, RetryNeverRacesItsJob

LEMMA JobStep == TypeInv /\ TypeInv' /\ ExecInv /\ JobInv /\ [Next]_vars => JobInv'
<1> SUFFICES ASSUME TypeInv, TypeInv', ExecInv, JobInv, [Next]_vars PROVE JobInv'
  OBVIOUS
<1> USE DEF TypeInv, TypeOK, Located, Id, Layer, Now, InAttempt, JobInv, ReliableService, RetryNeverRacesItsJob, Running, Ended, Fault, position, dialogue, repo, records, jobs
<1>1. CASE StartRun
  BY <1>1 DEF StartRun
<1>2. CASE NextLayer
  BY <1>2 DEF NextLayer, FreshLayer
<1>3. CASE Prepare
  BY <1>3 DEF Prepare
<1>4. CASE ModelAnswers
  BY <1>4 DEF ModelAnswers
<1>5. CASE LoopRaises
  BY <1>5 DEF LoopRaises, CarriesMessages, Raise, RaiseOutside
<1>6. CASE Check
  BY <1>6 DEF Check, Raise
<1>7. CASE WriteArtifacts
  BY <1>7 DEF WriteArtifacts, Raise
<1>8. CASE SubmitJob
  <2> SUFFICES ASSUME ReliableService PROVE JobInv'
    BY DEF ReliableService
  <2>1. /\ pc = "execute" /\ pc' = "wait" /\ active' = active \cup {Now}
        /\ UNCHANGED <<run, li, attempt, result>> /\ Now' = Now
    BY <1>8 DEF SubmitJob
  <2>2. \A id \in active : id.run # run
    BY <2>1
  <2>3. Now.run = run
    BY DEF Now
  <2>4. result = "none"
    BY <2>1 DEF ExecInv
  <2>5. RetryNeverRacesItsJob'
    BY <2>1, <2>2, <2>3
  <2> QED
    BY <2>1, <2>2, <2>3, <2>4, <2>5
<1>9. CASE JobObserved
  BY <1>9 DEF JobObserved, GoodEnd, Raise, RaiseOutside, Finally
<1>10. CASE JobAbandoned
  BY <1>10 DEF JobAbandoned, Raise, RaiseOutside, Finally
<1>11. CASE Promote
  BY <1>11 DEF Promote, Raise
<1>12. CASE HandleFailure
  BY <1>12 DEF HandleFailure, Unrecordable, Recorded
<1>13. CASE RetryOrRaise
  BY <1>13 DEF RetryOrRaise, GivesUp, GiveUp, NextAttempt, Recorded
<1>14. CASE RecordOutcome
  BY <1>14 DEF RecordOutcome, Recorded
<1>15. CASE RecordPassedRow
  BY <1>15 DEF RecordPassedRow, Recorded
<1>16. CASE LayerPassed
  BY <1>16 DEF LayerPassed, Break, Recorded
<1>17. ASSUME NEW id \in active, JobSucceeds(id) PROVE JobInv'
  BY <1>17 DEF JobSucceeds, EndOfJob
<1>18. ASSUME NEW id \in active, JobFails(id) PROVE JobInv'
  BY <1>18 DEF JobFails, EndOfJob
<1>19. CASE Kill
  BY <1>19 DEF Kill
<1>20. CASE UNCHANGED vars
  BY <1>20 DEF vars
<1> QED
  BY <1>1, <1>2, <1>3, <1>4, <1>5, <1>6, <1>7, <1>8, <1>9, <1>10, <1>11, <1>12, <1>13, <1>14, <1>15, <1>16, <1>17, <1>18, <1>19, <1>20 DEF Next, Driver, Service

\* With a reliable service, a cancel_run and a jobs.delete that answer after a deadline
\* included, two jobs of one run are never active at the same time.
THEOREM NoRaceWithinARun == ASSUME ReliableService PROVE Spec => []RetryNeverRacesItsJob
<1>1. JobInv => RetryNeverRacesItsJob
  BY ReliableService DEF JobInv
<1> QED
  BY TypeInit, TypeStep, ExecInit, ExecStep, JobInit, JobStep, <1>1, PTL DEF Spec

(***************************************************************************)
(* The order of the layers.                                                *)
(***************************************************************************)
\* The run under way has passed every layer before the current one.
OrderInv ==
  /\ LayersInOrder
  /\ pc \in Running =>
       \A j \in 1 .. li - 1 : \E p \in passed : p.run = run /\ p.layer = Layers[j]

LEMMA OrderInit == Init => OrderInv
BY DEF Init, OrderInv, LayersInOrder, EarlierLayersPassed, Touched, Original, Running

\* What a step may add to the traces, and to what has passed.
LEMMA TouchedStep ==
  TypeInv /\ TypeInv' /\ [Next]_vars =>
    /\ \A id \in Touched' : id \in Touched \/ (InAttempt /\ id = Now)
    /\ passed \subseteq passed'
<1> SUFFICES ASSUME TypeInv, TypeInv', [Next]_vars
             PROVE  /\ \A id \in Touched' : id \in Touched \/ (InAttempt /\ id = Now)
                    /\ passed \subseteq passed'
  OBVIOUS
<1> USE DEF Touched, TypeInv, TypeOK, InAttempt, Running, position, dialogue, repo, records, jobs
<1>1. CASE WriteArtifacts
  BY <1>1 DEF WriteArtifacts
<1>2. CASE SubmitJob
  BY <1>2 DEF SubmitJob
<1>3. CASE LayerPassed
  BY <1>3 DEF LayerPassed, Break
<1>4. CASE StartRun \/ NextLayer \/ Prepare \/ ModelAnswers \/ LoopRaises \/ Check
  BY <1>4 DEF StartRun, NextLayer, FreshLayer, Prepare, ModelAnswers, LoopRaises, CarriesMessages, Check
<1>5. CASE JobObserved \/ JobAbandoned \/ Promote \/ HandleFailure \/ RetryOrRaise
  BY <1>5 DEF JobObserved, GoodEnd, JobAbandoned, Promote, HandleFailure, Unrecordable, RetryOrRaise, GivesUp, GiveUp, NextAttempt
<1>6. CASE RecordOutcome \/ RecordPassedRow \/ Kill \/ UNCHANGED vars
  BY <1>6 DEF RecordOutcome, RecordPassedRow, Kill, vars
<1>7. CASE Service
  BY <1>7 DEF Service, JobSucceeds, JobFails, EndOfJob
<1> QED
  BY <1>1, <1>2, <1>3, <1>4, <1>5, <1>6, <1>7 DEF Next, Driver

LEMMA OrderStep == TypeInv /\ TypeInv' /\ OrderInv /\ [Next]_vars => OrderInv'
<1> SUFFICES ASSUME TypeInv, TypeInv', OrderInv, [Next]_vars PROVE OrderInv'
  OBVIOUS
<1>1. InAttempt => EarlierLayersPassed(Now)
  BY LayersDistinct DEF OrderInv, EarlierLayersPassed, Now, Layer, InAttempt, TypeInv, Located
<1>2. passed \subseteq passed'
  BY TouchedStep
<1>3. \A id : EarlierLayersPassed(id) => EarlierLayersPassed(id)'
  BY <1>2 DEF EarlierLayersPassed
<1>4. LayersInOrder'
  BY <1>1, <1>3, TouchedStep DEF OrderInv, LayersInOrder
<1>5. pc' \in Running =>
        (\A j \in 1 .. li - 1 : \E p \in passed : p.run = run /\ p.layer = Layers[j])'
  <2> SUFFICES ASSUME pc' \in Running, NEW j \in 1 .. li' - 1
               PROVE  \E p \in passed' : p.run = run' /\ p.layer = Layers[j]
    OBVIOUS
  <2>1. CASE StartRun
    BY <2>1 DEF StartRun
  <2>2. CASE LayerPassed
    <3>1. pc \in Running /\ li' = li + 1 /\ run' = run /\ Now \in passed' /\ li \in 1 .. Len(Layers)
      BY <2>2 DEF LayerPassed, Break, Running, TypeInv, Located, InAttempt
    <3>2. CASE j = li
      BY <3>1, <3>2 DEF Now, Layer
    <3>3. CASE j \in 1 .. li - 1
      BY <1>2, <3>1, <3>3 DEF OrderInv
    <3> QED
      BY <3>1, <3>2, <3>3
  <2>3. CASE pc \in Running /\ run' = run /\ li' = li
    BY <1>2, <2>3 DEF OrderInv
  <2>4. StartRun \/ LayerPassed \/ (pc \in Running /\ run' = run /\ li' = li)
    <3> USE DEF Running, position, dialogue, repo, records, jobs
    <3>1. CASE NextLayer \/ Prepare \/ ModelAnswers \/ LoopRaises \/ Check \/ WriteArtifacts
      BY <3>1 DEF NextLayer, FreshLayer, Prepare, ModelAnswers, LoopRaises, CarriesMessages, Check, WriteArtifacts
    <3>2. CASE SubmitJob \/ JobObserved \/ JobAbandoned \/ Promote \/ HandleFailure
      BY <3>2 DEF SubmitJob, JobObserved, GoodEnd, JobAbandoned, Promote, HandleFailure, Unrecordable
    <3>3. CASE RetryOrRaise \/ RecordOutcome \/ RecordPassedRow \/ Kill
      BY <3>3 DEF RetryOrRaise, GivesUp, GiveUp, NextAttempt, RecordOutcome, RecordPassedRow, Kill
    <3>4. CASE Service \/ UNCHANGED vars
      BY <3>4 DEF Service, JobSucceeds, JobFails, EndOfJob, vars
    <3> QED
      BY <3>1, <3>2, <3>3, <3>4 DEF Next, Driver
  <2> QED
    BY <2>1, <2>2, <2>3, <2>4
<1> QED
  BY <1>4, <1>5 DEF OrderInv

\* Nothing is written or run for a layer before the earlier layers have passed.
THEOREM LayersAreInOrder == Spec => []LayersInOrder
<1>1. OrderInv => LayersInOrder
  BY DEF OrderInv
<1> QED
  BY TypeInit, TypeStep, OrderInit, OrderStep, <1>1, PTL DEF Spec
(***************************************************************************)
(* The retry loop implements RetryContract (safety).                       *)
(***************************************************************************)
LEMMA RetryInit == Init => Retry!Init
BY DEF Init, Retry!Init, Verdict, Used, Running

LEMMA RetryStep == TypeInv /\ [Next]_vars => [Retry!Next]_(Retry!vars)
<1> SUFFICES ASSUME TypeInv, [Next]_vars
             PROVE  Retry!Next \/ UNCHANGED <<Verdict, li, Used>>
  BY DEF Retry!vars
<1> USE DEF Verdict, Used, Running, Ended, position, dialogue, repo, records, jobs,
            Retry!Next, Retry!Progress
<1>1. CASE StartRun
  BY <1>1 DEF StartRun, Retry!Begin
<1>2. CASE NextLayer
  BY <1>2 DEF NextLayer, FreshLayer, Retry!BeginAttempt, Retry!Return, Retry!Stop, TypeInv, TypeOK, Located
<1>3. CASE Prepare
  BY <1>3 DEF Prepare, Retry!Stop
<1>4. CASE ModelAnswers \/ LoopRaises \/ Check \/ WriteArtifacts
  BY <1>4 DEF ModelAnswers, LoopRaises, CarriesMessages, Check, WriteArtifacts, Raise, RaiseOutside
<1>5. CASE SubmitJob \/ JobObserved \/ JobAbandoned \/ Promote
  BY <1>5 DEF SubmitJob, JobObserved, GoodEnd, JobAbandoned, Promote, Raise, RaiseOutside, Finally
<1>6. CASE HandleFailure
  BY <1>6 DEF HandleFailure, Unrecordable, Retry!Stop
<1>7. CASE RetryOrRaise
  <2>1. li \in 1 .. Len(Layers) /\ attempt \in 1 .. MaxAttempts
    BY <1>7 DEF RetryOrRaise, TypeInv, Located, InAttempt
  <2>2. CASE GivesUp
    BY <1>7, <2>1, <2>2 DEF RetryOrRaise, GivesUp, GiveUp, Retry!Exhaust, Retry!Stop
  <2>3. CASE ~GivesUp
    BY <1>7, <2>1, <2>3 DEF RetryOrRaise, GivesUp, NextAttempt, Retry!BeginAttempt
  <2> QED
    BY <2>2, <2>3
<1>8. CASE RecordOutcome \/ RecordPassedRow
  BY <1>8 DEF RecordOutcome, RecordPassedRow
<1>9. CASE LayerPassed
  BY <1>9 DEF LayerPassed, Break, Retry!Advance, TypeInv, Located, InAttempt
<1>10. CASE Service \/ UNCHANGED vars
  BY <1>10 DEF Service, JobSucceeds, JobFails, EndOfJob, vars
<1>11. CASE Kill
  BY <1>11 DEF Kill, Retry!Stop
<1> QED
  BY <1>1, <1>2, <1>3, <1>4, <1>5, <1>6, <1>7, <1>8, <1>9, <1>10, <1>11 DEF Next, Driver

\* Every run of the generator is one the retry contract allows: budgets, order of the
\* layers, and exhaustion reported only when the budget is used up.
THEOREM GeneratorImplementsRetryContract == Spec => Retry!Safety
<1> QED
  BY TypeInit, TypeStep, RetryInit, RetryStep, PTL DEF Spec, Retry!Safety

-----------------------------------------------------------------------------
(***************************************************************************)
(* What the attempts of a run leave behind: notebooks, advice, recorded    *)
(* failures and published tables.                                          *)
(***************************************************************************)

(***************************************************************************)
(* What has passed.  A layer that is still to be worked off has no passed  *)
(* attempt in this run, and no passed attempt has a row that calls it      *)
(* FAILED.                                                                 *)
(***************************************************************************)
PassedInv ==
  /\ \A l \in LayerNames : file[l].layer = l
  /\ \A p \in passed : p.run <= run
  /\ \A r \in rows : r.status = "FAILED" => r.id \notin passed
  /\ pc \in Running =>
       \A p \in passed : \A j \in li .. Len(Layers) : ~(p.run = run /\ p.layer = Layers[j])

LEMMA PassedInit == Init => PassedInv
BY DEF Init, PassedInv, Original, Running

\* The attempt under way has not passed before it is over.
LEMMA NowHasNotPassed == TypeInv /\ PassedInv /\ InAttempt => Now \notin passed
BY DEF TypeInv, TypeOK, Located, PassedInv, InAttempt, Now, Layer

LEMMA PassedStep == TypeInv /\ TypeInv' /\ HistoryInv /\ PassedInv /\ [Next]_vars => PassedInv'
<1> SUFFICES ASSUME TypeInv, TypeInv', HistoryInv, PassedInv, [Next]_vars PROVE PassedInv'
  OBVIOUS
<1> USE DEF PassedInv, TypeInv, TypeOK, Running, position, dialogue, repo, records, jobs
<1>1. CASE StartRun
  <2>1. \A p \in passed : p.run \in Nat /\ p.run <= run /\ run \in Nat
    BY DEF Id
  <2>2. \A p \in passed' : p.run < run' /\ p.run <= run'
    BY <1>1, <2>1 DEF StartRun
  <2> QED
    BY <1>1, <2>2 DEF StartRun
<1>2. CASE NextLayer \/ Prepare \/ ModelAnswers \/ LoopRaises \/ Check
  BY <1>2 DEF NextLayer, FreshLayer, Prepare, ModelAnswers, LoopRaises, CarriesMessages, Check,
              Raise, RaiseOutside
<1>3. CASE WriteArtifacts
  <2>1. \A l \in LayerNames : file'[l] = file[l] \/ (l = Layer /\ file'[l] = Now)
    BY <1>3, NowType DEF WriteArtifacts, InAttempt
  <2>2. \A l \in LayerNames : file'[l].layer = l
    BY <2>1 DEF Now
  <2> QED
    BY <1>3, <2>2 DEF WriteArtifacts, Raise
<1>4. CASE SubmitJob \/ JobObserved \/ JobAbandoned \/ Promote
  BY <1>4 DEF SubmitJob, JobObserved, GoodEnd, JobAbandoned, Promote, Raise, RaiseOutside, Finally
<1>5. CASE HandleFailure
  <2>1. Now \notin passed
    BY <1>5, NowHasNotPassed DEF HandleFailure, InAttempt
  <2>2. rows' \subseteq rows \cup {[id |-> Now, status |-> "FAILED"]}
    BY <1>5 DEF HandleFailure, Unrecordable, Recorded
  <2>3. \A r \in rows' : r.status = "FAILED" => r.id \notin passed
    BY <2>1, <2>2
  <2> QED
    BY <1>5, <2>3 DEF HandleFailure, Unrecordable
<1>6. CASE RetryOrRaise \/ RecordOutcome
  BY <1>6 DEF RetryOrRaise, GivesUp, GiveUp, NextAttempt, RecordOutcome
<1>7. CASE RecordPassedRow
  <2>1. rows' \subseteq rows \cup {[id |-> Now, status |-> "PASSED"]}
    BY <1>7 DEF RecordPassedRow, Recorded
  <2> QED
    BY <1>7, <2>1 DEF RecordPassedRow
<1>8. CASE LayerPassed
  <2>1. /\ passed' = passed \cup {Now} /\ li' = li + 1 /\ pc' \in Running
        /\ UNCHANGED <<run, file, rows>> /\ li \in 1 .. Len(Layers)
    BY <1>8 DEF LayerPassed, Break, Located, InAttempt
  <2>2. ASSUME NEW r \in rows, r.id = Now PROVE r.status = "PASSED"
    BY <1>8, <2>2 DEF LayerPassed, HistoryInv, AllRecords, InAttempt, Now
  <2>3. \A r \in rows' : r.status = "FAILED" => r.id \notin passed'
    BY <2>1, <2>2
  <2>4. \A p \in passed' : \A j \in li' .. Len(Layers) : ~(p.run = run' /\ p.layer = Layers[j])
    <3> SUFFICES ASSUME NEW p \in passed', NEW j \in li' .. Len(Layers)
                 PROVE  ~(p.run = run' /\ p.layer = Layers[j])
      OBVIOUS
    <3>1. CASE p \in passed
      BY <1>8, <2>1, <3>1 DEF LayerPassed
    <3>2. CASE p = Now
      BY <2>1, <3>2, LayersDistinct DEF Now, Layer
    <3> QED
      BY <2>1, <3>1, <3>2
  <2>5. \A p \in passed' : p.run <= run'
    BY <2>1 DEF Now
  <2> QED
    BY <2>1, <2>3, <2>4, <2>5
<1>9. ASSUME NEW id \in active, JobSucceeds(id) \/ JobFails(id) PROVE PassedInv'
  BY <1>9 DEF JobSucceeds, JobFails, EndOfJob
<1>10. CASE Kill \/ UNCHANGED vars
  BY <1>10 DEF Kill, vars
<1> QED
  BY <1>1, <1>2, <1>3, <1>4, <1>5, <1>6, <1>7, <1>8, <1>9, <1>10 DEF Next, Driver, Service

\* A notebook whose attempt passed is not rewritten by its own run: only an attempt
\* under way writes, and its layer has not passed in this run.
THEOREM PassedNotebooksAreStable == Spec => PassedNotebookIsStable
<1>1. ASSUME TypeInv, PassedInv, [Next]_vars,
             NEW l \in LayerNames, file[l].run = run, run > 0, file[l] \in passed
      PROVE  file'[l] = file[l]
  <2> USE DEF position, dialogue, repo, records, jobs
  <2>1. CASE WriteArtifacts
    <3>1. l # Layer
      BY <1>1, <2>1 DEF WriteArtifacts, PassedInv, TypeInv, TypeOK, Located, InAttempt, Running, Layer
    <3> QED
      BY <1>1, <2>1, <3>1 DEF WriteArtifacts, TypeInv, TypeOK
  <2>2. CASE StartRun \/ NextLayer \/ Prepare \/ ModelAnswers \/ LoopRaises \/ Check \/ SubmitJob
    BY <2>2 DEF StartRun, NextLayer, Prepare, ModelAnswers, LoopRaises, Check, SubmitJob
  <2>3. CASE JobObserved \/ JobAbandoned \/ Promote \/ HandleFailure \/ RetryOrRaise
    BY <2>3 DEF JobObserved, JobAbandoned, Promote, HandleFailure, RetryOrRaise
  <2>4. CASE RecordOutcome \/ RecordPassedRow \/ LayerPassed \/ Kill \/ UNCHANGED vars
    BY <2>4 DEF RecordOutcome, RecordPassedRow, LayerPassed, Kill, vars
  <2>5. CASE Service
    BY <2>5 DEF Service, JobSucceeds, JobFails
  <2> QED
    BY <1>1, <2>1, <2>2, <2>3, <2>4, <2>5 DEF Next, Driver
<1>2. TypeInv /\ PassedInv /\ [Next]_vars =>
        [\A l \in LayerNames :
           file[l].run = run /\ run > 0 /\ file[l] \in passed => file'[l] = file[l]]_vars
  BY <1>1
<1> QED
  BY <1>2, TypeInit, TypeStep, HistoryInit, HistoryStep, PassedInit, PassedStep, PTL
     DEF Spec, PassedNotebookIsStable

\* What find_past_fix may offer as a proven fix did pass, right after the failure it is
\* compared with.
THEOREM AdviceIsSound == Spec => []AdviceIsAFixThatWorked
<1>1. ASSUME TypeInv, ExecInv, HistoryInv, PassedInv PROVE AdviceIsAFixThatWorked
  <2> SUFFICES ASSUME ExecuteGenerated, NEW l \in LayerNames, NEW fix \in Fixes(rows, l)
               PROVE  /\ fix[1].id \notin passed /\ fix[2].id \in succeeded
                      /\ fix[1].id.run = fix[2].id.run
                      /\ \A r \in rows : r.id.run = fix[2].id.run /\ r.id.layer = l =>
                           r = fix[2] \/ r.id.attempt <= fix[1].id.attempt
    BY DEF AdviceIsAFixThatWorked
  <2>1. /\ fix[1] \in rows /\ fix[1].status = "FAILED" /\ fix[1].id.layer = l
        /\ fix[2] \in rows /\ fix[2].status # "FAILED" /\ fix[2].id.layer = l
        /\ fix[2].id.run = fix[1].id.run /\ fix[2].id.attempt = fix[1].id.attempt + 1
    BY DEF Fixes, Failures, NextAttemptPassed
  <2>2. \A r \in rows : r \in [id : Id, status : {"FAILED", "PASSED"}]
    BY <1>1 DEF TypeInv, TypeOK
  <2>3. fix[2].status = "PASSED"
    BY <2>1, <2>2
  <2>4. fix[1].id \notin passed /\ fix[2].id \in succeeded
    BY <1>1, <2>1, <2>3 DEF PassedInv, ExecInv, PassedWasExecuted
  <2>5. ASSUME NEW r \in rows, r.id.run = fix[2].id.run, r.id.layer = l
        PROVE  r = fix[2] \/ r.id.attempt <= fix[1].id.attempt
    <3>1. r.id.attempt <= fix[2].id.attempt
      BY <1>1, <2>1, <2>3, <2>5 DEF HistoryInv, RecordsFormAHistory
    <3>2. r.id \in Id /\ fix[1].id \in Id /\ fix[2].id \in Id
      BY <2>1, <2>2
    <3>3. CASE r.id.attempt = fix[2].id.attempt
      <4>1. r.id = fix[2].id
        BY <2>1, <2>5, <3>2, <3>3 DEF Id
      <4>2. r.status = fix[2].status
        BY <1>1, <2>1, <2>5, <4>1 DEF HistoryInv, RecordsFormAHistory
      <4>3. r = [id |-> r.id, status |-> r.status] /\ fix[2] = [id |-> fix[2].id, status |-> fix[2].status]
        BY <2>1, <2>2, <2>5
      <4> QED
        BY <4>1, <4>2, <4>3
    <3>4. CASE r.id.attempt # fix[2].id.attempt
      <4>1. r.id.attempt \in Nat /\ fix[1].id.attempt \in Nat
        BY <3>2 DEF Id
      <4> QED
        BY <2>1, <3>1, <3>4, <4>1
    <3> QED
      BY <3>3, <3>4
  <2> QED
    BY <2>1, <2>4, <2>5
<1> QED
  BY <1>1, TypeInit, TypeStep, ExecInit, ExecStep, HistoryInit, HistoryStep, PassedInit, PassedStep,
     PTL DEF Spec

(***************************************************************************)
(* Recorded failures.                                                      *)
(***************************************************************************)
\* No store write fails, and every answer can be recorded.
ReliableRecords == {"store_write", "shapeless"} \cap Faults = {}

FailedRecord(n) == [id |-> [Now EXCEPT !.attempt = n], status |-> "FAILED"]

\* From the moment it is recorded, the last error of the layer is in the error table, and
\* before the next attempt begins it is in the logs.
FailureInv ==
  ReliableRecords /\ HasSpark =>
    /\ draft # "shapeless"
    /\ (InAttempt \/ pc \in {"done", "raised", "aborted"}) /\ lastError # 0 =>
         /\ FailedRecord(lastError) \in rows
         /\ pc # "failLog" => FailedRecord(lastError) \in logs

LEMMA FailureInit == Init => FailureInv
BY DEF Init, FailureInv, InAttempt, Running

LEMMA FailureStep == TypeInv /\ TypeInv' /\ DialogueInv /\ FailureInv /\ [Next]_vars => FailureInv'
<1> SUFFICES ASSUME TypeInv, TypeInv', DialogueInv, FailureInv, ReliableRecords, HasSpark, [Next]_vars
             PROVE  FailureInv'
  BY DEF FailureInv, ReliableRecords
<1> USE DEF FailureInv, FailedRecord, InAttempt, Running, position, dialogue, repo, records, jobs
<1>1. CASE StartRun \/ NextLayer
  BY <1>1 DEF StartRun, NextLayer, FreshLayer, Ended
<1>2. CASE Prepare
  BY <1>2 DEF Prepare, Now, Layer
<1>3. CASE ModelAnswers
  BY <1>3 DEF ModelAnswers, Now, Layer, ReliableRecords, Fault
<1>4. CASE LoopRaises \/ Check \/ WriteArtifacts
  BY <1>4 DEF LoopRaises, CarriesMessages, Check, WriteArtifacts, Raise, RaiseOutside, Now, Layer
<1>5. CASE SubmitJob \/ JobObserved \/ JobAbandoned \/ Promote
  <2>1. /\ pc \in {"execute", "wait", "promote"}
        /\ pc' \in {"wait", "promote", "passMeta", "handle"}
        /\ UNCHANGED <<run, li, attempt, lastError, draft, rows, logs>>
    <3>1. CASE SubmitJob
      BY <3>1 DEF SubmitJob, Raise, RaiseOutside
    <3>2. CASE JobObserved
      BY <3>2 DEF JobObserved, GoodEnd, Raise, RaiseOutside, Finally
    <3>3. CASE JobAbandoned \/ Promote
      BY <3>3 DEF JobAbandoned, Promote, Raise, RaiseOutside, Finally
    <3> QED
      BY <1>5, <3>1, <3>2, <3>3
  <2>2. FailedRecord(lastError)' = FailedRecord(lastError)
    BY <2>1 DEF Now, Layer
  <2> HIDE DEF FailedRecord
  <2> QED
    BY <2>1, <2>2
<1>6. CASE HandleFailure
  <2>1. /\ pc' = "failLog" /\ lastError' = attempt /\ draft' = draft /\ draft # "shapeless"
        /\ UNCHANGED <<run, li, attempt, logs>> /\ Now' = Now
    BY <1>6 DEF HandleFailure, Unrecordable, Now, Layer
  <2>2. [id |-> Now, status |-> "FAILED"] \in rows'
    BY <1>6 DEF HandleFailure, Unrecordable, Recorded, ReliableRecords, Fault
  <2>3. [Now EXCEPT !.attempt = attempt] = Now
    BY DEF Now
  <2> QED
    BY <2>1, <2>2, <2>3
<1>7. CASE RetryOrRaise
  <2>1. /\ pc = "failLog" /\ pc' # "failLog" /\ lastError = attempt
        /\ UNCHANGED <<run, li, lastError, draft, rows>>
    BY <1>7 DEF RetryOrRaise, GivesUp, GiveUp, NextAttempt, DialogueInv
  <2>2. [id |-> Now, status |-> "FAILED"] \in logs'
    BY <1>7 DEF RetryOrRaise, Recorded, ReliableRecords, Fault
  <2>3. [Now EXCEPT !.attempt = lastError] = Now /\ [Now EXCEPT !.attempt = lastError]' = Now
    BY <2>1 DEF Now, Layer
  <2> QED
    BY <2>1, <2>2, <2>3
<1>8. CASE RecordOutcome
  BY <1>8 DEF RecordOutcome, Now, Layer
<1>9. CASE RecordPassedRow
  <2>1. rows \subseteq rows'
    BY <1>9 DEF RecordPassedRow, Recorded
  <2> QED
    BY <1>9, <2>1 DEF RecordPassedRow, Now, Layer
<1>10. CASE LayerPassed
  BY <1>10 DEF LayerPassed, Break
<1>11. ASSUME NEW id \in active, JobSucceeds(id) \/ JobFails(id) PROVE FailureInv'
  BY <1>11 DEF JobSucceeds, JobFails, EndOfJob, Now, Layer
<1>12. CASE Kill \/ UNCHANGED vars
  BY <1>12 DEF Kill, vars, Now, Layer
<1> QED
  BY <1>1, <1>2, <1>3, <1>4, <1>5, <1>6, <1>7, <1>8, <1>9, <1>10, <1>11, <1>12 DEF Next, Driver, Service

\* With stores that can be written and answers that can be recorded, the last failure of
\* a run that has ended is in the error table and in the logs.
THEOREM FailuresAreRecorded == ASSUME ReliableRecords PROVE Spec => []FailureIsRecorded
<1>1. FailureInv => FailureIsRecorded
  BY ReliableRecords DEF FailureInv, FailureIsRecorded, FailedRecord
<1> QED
  BY TypeInit, TypeStep, DialogueInit, DialogueStep, FailureInit, FailureStep, <1>1, PTL DEF Spec

(***************************************************************************)
(* A catalog that does not parse.                                          *)
(***************************************************************************)
\* Behind the check of the evidence the catalog can be read: the file is torn while control
\* leaves the promotion for the except clause, or the process for good.
TornInv ==
  torn => pc \in Ended \cup {"layer", "prepare", "loop", "check", "handle", "failLog"}

LEMMA TornStep ==
  ASSUME TornInv, [Next]_vars
  PROVE  /\ TornInv'
         /\ torn => UNCHANGED <<file, catalog, torn, passed>> /\ active' \subseteq active
<1> USE DEF TornInv, Ended, position, dialogue, repo, records, jobs
<1>1. CASE StartRun \/ NextLayer \/ Prepare \/ ModelAnswers \/ LoopRaises
  BY <1>1 DEF StartRun, NextLayer, Prepare, ModelAnswers, LoopRaises, Raise, RaiseOutside
<1>2. CASE Check
  <2>1. torn => pc' = "handle"
    BY <1>2 DEF Check, HasEvidence, Raise
  <2> QED
    BY <1>2, <2>1 DEF Check
<1>3. CASE WriteArtifacts \/ SubmitJob \/ JobObserved \/ JobAbandoned
  BY <1>3 DEF WriteArtifacts, SubmitJob, JobObserved, JobAbandoned
<1>4. CASE Promote
  <2>1. ~torn
    BY <1>4 DEF Promote
  <2>2. pc' = "handle" \/ torn' = torn
    BY <1>4 DEF Promote, Raise
  <2> QED
    BY <2>1, <2>2
<1>5. CASE HandleFailure \/ RetryOrRaise
  BY <1>5 DEF HandleFailure, RetryOrRaise, GiveUp, NextAttempt
<1>6. CASE RecordOutcome \/ RecordPassedRow \/ LayerPassed
  BY <1>6 DEF RecordOutcome, RecordPassedRow, LayerPassed
<1>7. ASSUME NEW id \in active, JobSucceeds(id) \/ JobFails(id)
      PROVE  UNCHANGED <<pc, file, catalog, torn, passed>> /\ active' \subseteq active
  BY <1>7 DEF JobSucceeds, JobFails, EndOfJob
<1>8. CASE Kill
  BY <1>8 DEF Kill
<1>9. CASE UNCHANGED vars
  BY <1>9 DEF vars
<1> QED
  BY <1>1, <1>2, <1>3, <1>4, <1>5, <1>6, <1>7, <1>8, <1>9 DEF Next, Driver, Service

\* With a catalog that does not parse nothing is written, submitted, promoted or passed, in
\* this run and in all later ones.
THEOREM NothingPassesATornCatalog == Spec => TornCatalogStopsEverything
<1>1. Init => TornInv
  BY DEF Init, TornInv
<1> QED
  BY <1>1, TornStep, PTL DEF Spec, TornCatalogStopsEverything

\* With the same stores, a retry never has to be told of another layer's error.
THEOREM RetriesFindTheirError == ASSUME ReliableRecords PROVE Spec => []RetryFindsItsLayersError
<1>1. ASSUME TypeInv, DialogueInv, FailureInv PROVE RetryFindsItsLayersError
  <2> SUFFICES ASSUME pc = "loop", attempt > 1, HasSpark
               PROVE  /\ LatestFailed(rows, Layer) # {}
                      /\ \A r \in LatestFailed(rows, Layer) : r.id.layer = Layer
    BY DEF RetryFindsItsLayersError
  <2> DEFINE own == FailedRecord(lastError)
  <2>1. lastError # 0
    BY <1>1 DEF DialogueInv, TypeInv, TypeOK
  <2>2. own \in rows
    BY <1>1, <2>1, ReliableRecords DEF FailureInv, InAttempt, Running
  <2>3. own.status = "FAILED" /\ own.id.layer = Layer
    BY DEF FailedRecord, Now
  <2>4. own \in {r \in Failures(rows) : r.id.layer = Layer}
    BY <2>2, <2>3 DEF Failures
  <2> HIDE DEF own
  <2> QED
    BY <2>4 DEF LatestFailed
<1> QED
  BY <1>1, TypeInit, TypeStep, DialogueInit, DialogueStep, FailureInit, FailureStep, PTL DEF Spec

(***************************************************************************)
(* Published tables.                                                       *)
(***************************************************************************)
\* What this run published to a layer it has passed is a passed attempt's; and once the
\* job of the attempt under way has succeeded, what this run published is its.
PublishedInv ==
  ReliableService /\ ExecuteGenerated =>
    /\ \A l \in LayerNames : tables[l].run <= run
    /\ pc \in Running \cup {"done"} =>
         \A j \in 1 .. li - 1 : (tables[Layers[j]].run = run => tables[Layers[j]] \in passed)
    /\ pc = "done" => li > Len(Layers) /\ \A id \in active : id.run # run
    /\ pc \in Passing \/ (pc = "wait" /\ result = "SUCCESS") =>
         (tables[Layer].run = run => tables[Layer] = Now)

LEMMA PublishedInit == Init => PublishedInv
BY DEF Init, PublishedInv, Original, Running, Passing

LEMMA PublishedStep ==
  TypeInv /\ TypeInv' /\ ExecInv /\ JobInv /\ PublishedInv /\ [Next]_vars => PublishedInv'
<1> SUFFICES ASSUME TypeInv, TypeInv', ExecInv, JobInv, PublishedInv, ReliableService,
                    ExecuteGenerated, [Next]_vars
             PROVE  PublishedInv'
  BY DEF PublishedInv, ReliableService
<1> USE DEF PublishedInv, TypeInv, TypeOK, Running, Passing, position, dialogue, repo, records, jobs
<1>0. \A l \in LayerNames : tables[l].run \in Nat
  BY DEF Id
<1>1. CASE StartRun
  BY <1>0, <1>1 DEF StartRun
<1>2. CASE NextLayer
  BY <1>2 DEF NextLayer, FreshLayer, JobInv
<1>3. CASE Prepare \/ ModelAnswers \/ LoopRaises \/ Check \/ WriteArtifacts
  BY <1>3 DEF Prepare, ModelAnswers, LoopRaises, CarriesMessages, Check, WriteArtifacts, Raise, RaiseOutside
<1>4. CASE SubmitJob
  BY <1>4 DEF SubmitJob, ExecInv, Raise, RaiseOutside
<1>5. CASE JobObserved \/ JobAbandoned \/ Promote
  BY <1>5 DEF JobObserved, GoodEnd, JobAbandoned, Promote, Raise, RaiseOutside, Finally, Now, Layer
<1>6. CASE HandleFailure \/ RetryOrRaise
  BY <1>6 DEF HandleFailure, Unrecordable, RetryOrRaise, GivesUp, GiveUp, NextAttempt
<1>7. CASE RecordOutcome \/ RecordPassedRow
  BY <1>7 DEF RecordOutcome, RecordPassedRow, Now, Layer
<1>8. CASE LayerPassed
  <2>1. /\ pc' = "layer" /\ li' = li + 1 /\ passed' = passed \cup {Now} /\ pc = "passLog"
        /\ UNCHANGED <<run, tables>> /\ li \in 1 .. Len(Layers)
    BY <1>8 DEF LayerPassed, Break, Located, InAttempt
  <2>2. tables[Layers[li]].run = run => tables[Layers[li]] = Now
    BY <2>1 DEF Layer
  <2>3. \A j \in 1 .. li' - 1 : j = li \/ j \in 1 .. li - 1
    BY <2>1
  <2> QED
    BY <2>1, <2>2, <2>3
<1>9. ASSUME NEW id \in active, JobSucceeds(id) \/ JobFails(id) PROVE PublishedInv'
  <2>1. /\ UNCHANGED <<pc, run, li, attempt, passed>> /\ Now' = Now /\ Layer' = Layer
        /\ \A l \in LayerNames : tables'[l] = tables[l] \/ (l = id.layer /\ tables'[l] = id)
        /\ result' = result \/ (pc = "wait" /\ id = Now)
    BY <1>9 DEF JobSucceeds, JobFails, EndOfJob, Id, Now, Layer
  <2>2. id.run <= run
    BY DEF JobInv
  <2>3. CASE id.run # run
    <3>1. result' = result /\ active' \subseteq active
      BY <1>9, <2>1, <2>3 DEF JobSucceeds, JobFails, EndOfJob, Now
    <3>2. \A l \in LayerNames :
            tables'[l].run <= run /\ (tables'[l].run = run => tables'[l] = tables[l])
      BY <2>1, <2>2, <2>3
    <3>3. \A j \in 1 .. li - 1 : Layers[j] \in LayerNames
      BY LayersAssumption
    <3>4. InAttempt => Layer \in LayerNames
      BY LayersAssumption DEF Located, Layer
    <3> QED
      BY <2>1, <3>1, <3>2, <3>3, <3>4 DEF InAttempt
  <2>4. CASE id.run = run
    <3>1. pc \in Running => id = Now /\ pc \notin Passing /\ ~(pc = "wait" /\ result # "none")
      BY <2>4 DEF JobInv
    <3>2. \A j \in 1 .. li - 1 : pc \in Running => tables'[Layers[j]] = tables[Layers[j]]
      BY <2>1, <3>1, <1>9, LayersDistinct, LayersAssumption
         DEF JobInv, Now, Layer, Located, InAttempt
    <3>3. pc = "wait" /\ result' = "SUCCESS" => tables'[Layer] = id
      BY <1>9, <3>1 DEF JobSucceeds, JobFails, EndOfJob, Id, Now
    <3>4. pc # "done"
      BY <2>4
    <3>5. active' \subseteq active
      BY <1>9 DEF JobSucceeds, JobFails, EndOfJob
    <3>6. \A l \in LayerNames : tables'[l].run <= run
      BY <1>0, <2>1, <2>4
    <3> QED
      BY <2>1, <2>4, <3>1, <3>2, <3>3, <3>4, <3>5, <3>6 DEF Layer
  <2> QED
    BY <2>3, <2>4
<1>10. CASE Kill \/ UNCHANGED vars
  BY <1>10 DEF Kill, vars, Now, Layer
<1> QED
  BY <1>1, <1>2, <1>3, <1>4, <1>5, <1>6, <1>7, <1>8, <1>9, <1>10 DEF Next, Driver, Service

\* When a run with a reliable service returns, what it left in the tables of a layer is
\* what the layer's passed attempt published.
THEOREM TablesAreThePassedAttempts ==
  ASSUME ReliableService PROVE Spec => []PublishedByThePassedAttempt
<1>1. TypeInv /\ PublishedInv => PublishedByThePassedAttempt
  BY ReliableService DEF PublishedInv, PublishedByThePassedAttempt, TypeInv, TypeOK
<1> QED
  BY TypeInit, TypeStep, ExecInit, ExecStep, JobInit, JobStep, PublishedInit, PublishedStep, <1>1,
     PTL DEF Spec
=============================================================================
