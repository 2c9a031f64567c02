--------------------------- MODULE MCEvaluationProofs ---------------------------
(***************************************************************************)
(* Theorems about the landing of the raw files, for any number of landings *)
(* and whatever goes wrong, and about the three parts of MCEvaluation side *)
(* by side: what holds of each holds of the whole.                         *)
(***************************************************************************)
EXTENDS MCEvaluation, EvaluationProofs

(***************************************************************************)
(* The three parts.  The landing and the conversation are instances, whose *)
(* steps the whole takes one at a time.                                    *)
(***************************************************************************)
LEMMA PartsInit == MCInit => Init /\ Landing!Init /\ Loop!Init
BY DEF MCInit

LEMMA PartsStep ==
  [MCNext]_<<part, landing, loop, vars>> =>
    [Next]_vars /\ [Landing!Next]_(Landing!vars) /\ [Loop!Next]_(Loop!vars)
<1>1. UNCHANGED landing => UNCHANGED Landing!vars BY DEF landing, Landing!vars
<1>2. UNCHANGED loop => UNCHANGED Loop!vars BY DEF loop, Loop!vars, Loop!conversation
<1> QED BY <1>1, <1>2 DEF MCNext

\* The theorems of EvaluationProofs hold of the round of MCEvaluation.
LEMMA RoundIsOne == MCSpec => Spec
BY PartsInit, PartsStep, PTL DEF MCSpec, Spec

(***************************************************************************)
(* The conversation.                                                       *)
(***************************************************************************)
LoopProofs == INSTANCE ToolLoopProofs WITH
  attempt <- try, MaxAttempts <- MaxTries, Faults <- LoopFaults, Replies <- ReplySet

LEMMA RepliesOfTheModel == LoopProofs!RepliesAreCalls
<1>1. \A name \in {"tested", "successes", "history", "other"} :
        \A form \in {"whole", "nameless", "anonymous"} :
          [name |-> name, form |-> form] \in LoopProofs!Call
  BY DEF LoopProofs!Call, LoopProofs!Groups
<1>2. /\ Whole("tested") \in LoopProofs!Call /\ Whole("successes") \in LoopProofs!Call
      /\ Whole("history") \in LoopProofs!Call /\ Whole("other") \in LoopProofs!Call
  BY <1>1 DEF Whole
<1>3. <<>> \in Seq(LoopProofs!Call) OBVIOUS
<1>4. <<Whole("tested")>> \in Seq(LoopProofs!Call) BY <1>2
<1>5. <<Whole("successes"), Whole("history")>> \in Seq(LoopProofs!Call) BY <1>2
<1>6. <<Whole("other"), [name |-> "history", form |-> "anonymous"]>> \in Seq(LoopProofs!Call)
  BY <1>1, <1>2
<1>7. <<[name |-> "other", form |-> "nameless"]>> \in Seq(LoopProofs!Call) BY <1>1
<1> QED BY <1>3, <1>4, <1>5, <1>6, <1>7 DEF LoopProofs!RepliesAreCalls, ReplySet

\* The conversation of MCEvaluation is the one the theorems of ToolLoopProofs are about.
LEMMA LoopInits == Loop!Init => LoopProofs!Init
BY DEF Loop!Init, LoopProofs!Init

LEMMA LoopSteps == [Loop!Next]_(Loop!vars) => [LoopProofs!Next]_(LoopProofs!vars)
<1>1. /\ \A role : Loop!Said(role) = LoopProofs!Said(role)
      /\ \A calls : Loop!Reply(calls) = LoopProofs!Reply(calls)
      /\ \A p, j : Loop!Result(p, j) = LoopProofs!Result(p, j)
  BY DEF Loop!Said, LoopProofs!Said, Loop!Reply, LoopProofs!Reply, Loop!Result, LoopProofs!Result
<1>2. /\ Loop!CopiedList = LoopProofs!CopiedList /\ Loop!LatestReply = LoopProofs!LatestReply
      /\ Loop!HandBack <=> LoopProofs!HandBack
      /\ Loop!Lose <=> LoopProofs!Lose
  BY DEF Loop!CopiedList, LoopProofs!CopiedList, Loop!LatestReply, LoopProofs!LatestReply,
         Loop!HandBack, LoopProofs!HandBack, Loop!Lose, LoopProofs!Lose
<1>3. Loop!EveryGroup <=> LoopProofs!EveryGroup
  BY DEF Loop!EveryGroup, LoopProofs!EveryGroup, Loop!Used, LoopProofs!Used, Loop!Groups,
      LoopProofs!Groups
<1>4. Loop!Begin => LoopProofs!Begin BY <1>1, <1>2 DEF Loop!Begin, LoopProofs!Begin
<1>5. Loop!Ask => LoopProofs!Ask BY <1>1, <1>2 DEF Loop!Ask, LoopProofs!Ask
<1>6. Loop!CallTool => LoopProofs!CallTool BY <1>1, <1>2 DEF Loop!CallTool, LoopProofs!CallTool
<1>7. Loop!RoundsOver => LoopProofs!RoundsOver
  BY <1>1, <1>2 DEF Loop!RoundsOver, LoopProofs!RoundsOver
<1>8. Loop!CheckEvidence => LoopProofs!CheckEvidence
  BY <1>3
  DEF Loop!CheckEvidence, LoopProofs!CheckEvidence, Loop!conversation, LoopProofs!conversation
<1>9. Loop!NextAttempt => LoopProofs!NextAttempt
  BY DEF Loop!NextAttempt, LoopProofs!NextAttempt, Loop!conversation, LoopProofs!conversation
<1>10. UNCHANGED Loop!vars => UNCHANGED LoopProofs!vars
  BY DEF Loop!vars, LoopProofs!vars, Loop!conversation, LoopProofs!conversation
<1> QED BY <1>4, <1>5, <1>6, <1>7, <1>8, <1>9, <1>10 DEF Loop!Next, LoopProofs!Next

LEMMA LoopIsOne == MCSpec => LoopProofs!Spec
BY PartsInit, PartsStep, LoopInits, LoopSteps, PTL DEF MCSpec, LoopProofs!Spec

\* RequestsAreAnswered of ToolLoopProofs, for the conversation of MCEvaluation.
THEOREM CallsAreAlwaysAnswered == MCSpec => []CallsAreAnswered
<1>1. LoopProofs!CallsAreAnswered => CallsAreAnswered
  BY DEF CallsAreAnswered, Loop!CallsAreAnswered, LoopProofs!CallsAreAnswered, Loop!Answers,
      LoopProofs!Answers, Loop!Result, LoopProofs!Result
<1>2. LoopProofs!Spec => []LoopProofs!CallsAreAnswered
  BY RepliesOfTheModel, LoopProofs!RequestsAreAnswered
<1> QED BY <1>1, <1>2, LoopIsOne, PTL

\* AcceptedAnswersSawEvidence of ToolLoopProofs, for the conversation of MCEvaluation.
THEOREM EvidenceWasAlwaysSeen == MCSpec => []EvidenceWasSeen
<1>1. LoopProofs!EvidenceWasSeen => EvidenceWasSeen
  BY DEF EvidenceWasSeen, Loop!EvidenceWasSeen, LoopProofs!EvidenceWasSeen, Loop!Answers,
      LoopProofs!Answers, Loop!Result, LoopProofs!Result, Loop!Groups, LoopProofs!Groups
<1>2. LoopProofs!Spec => []LoopProofs!EvidenceWasSeen
  BY RepliesOfTheModel, LoopProofs!AcceptedAnswersSawEvidence
<1> QED BY <1>1, <1>2, LoopIsOne, PTL

(***************************************************************************)
(* The landing.                                                            *)
(***************************************************************************)
\* The part of the type that neither the number of landings nor its bound takes part in.
FilesType == files \in [Landing!Names -> Landing!Contents]

LEMMA FilesTypeInit == Landing!Init => FilesType
BY DEF Landing!Init, FilesType, Landing!Contents

LEMMA FilesTypeStep == FilesType /\ [Landing!Next]_(Landing!vars) => FilesType'
<1> SUFFICES ASSUME FilesType, [Landing!Next]_(Landing!vars) PROVE FilesType'
  OBVIOUS
<1> USE DEF FilesType, Landing!Contents
<1>1. CASE Landing!Start \/ Landing!Lookups \/ Landing!Peeks \/ Landing!Stop \/
           UNCHANGED Landing!vars
  BY <1>1 DEF Landing!Start, Landing!Lookups, Landing!Peeks, Landing!Stop, Landing!vars
<1>2. CASE Landing!Download
  BY <1>2 DEF Landing!Download, Landing!SampleInstead, Landing!Cleared, Landing!Broken
<1>3. CASE Landing!Materialize
  BY <1>3 DEF Landing!Materialize, Landing!Broken, Landing!Names
<1>4. ASSUME NEW name \in Landing!Names, NEW after, Landing!Fetch(name, after) PROVE FilesType'
  BY <1>4 DEF Landing!Fetch, Landing!Broken
<1> QED
  BY <1>1, <1>2, <1>3, <1>4 DEF Landing!Next, Landing!Names

\* A step that puts a sample and a file of the hub side by side has taken one for missing.
LEMMA StaysApart ==
  ASSUME FilesType, [Landing!Next]_(Landing!vars), Landing!Apart
  PROVE  Landing!Apart' \/ blind'
<1> USE DEF FilesType, Landing!Names, Landing!Apart, Landing!There
<1>1. CASE Landing!Start \/ Landing!Lookups \/ Landing!Peeks \/ Landing!Stop \/
           UNCHANGED Landing!vars
  BY <1>1 DEF Landing!Start, Landing!Lookups, Landing!Peeks, Landing!Stop, Landing!vars
<1>2. CASE Landing!Download
  <2>1. PICK transactions \in Landing!Exists("transactions"), snap \in Landing!Exists("snapshot") :
          /\ blind' = (blind \/ Landing!Deceived("transactions", transactions)
                             \/ (~transactions /\ Landing!Deceived("snapshot", snap)))
          /\ \/ UNCHANGED files
             \/ /\ ~transactions /\ ~snap
                /\ \/ files' = [files EXCEPT !["transactions"] = "hub"]
                   \/ Landing!SampleInstead
                   \/ files' = Landing!Broken("transactions")
    BY <1>2 DEF Landing!Download, Landing!NothingLanded
  <2>2. CASE UNCHANGED files BY <2>2
  <2>3. CASE Landing!SampleInstead BY <2>3 DEF Landing!SampleInstead, Landing!Cleared
  <2>4. CASE /\ ~transactions /\ ~snap
             /\ \/ files' = [files EXCEPT !["transactions"] = "hub"]
                \/ files' = Landing!Broken("transactions")
    <3>1. files'["snapshot"] = files["snapshot"] BY <2>4 DEF Landing!Broken
    <3>2. ~blind' => files["snapshot"] # "sample" BY <2>1, <2>4 DEF Landing!Deceived
    <3> QED BY <3>1, <3>2
  <2> QED BY <2>1, <2>2, <2>3, <2>4
<1>3. CASE Landing!Materialize
  <2>1. \/ UNCHANGED files
        \/ files' = [files EXCEPT !["snapshot"] = "hub"]
        \/ files' = Landing!Broken("snapshot")
    BY <1>3 DEF Landing!Materialize
  <2> QED BY <2>1 DEF Landing!Broken
<1>4. CASE Landing!Fetch("train", "eval") \/ Landing!Fetch("eval", "peeks")
  BY <1>4 DEF Landing!Fetch, Landing!Broken
<1> QED BY <1>1, <1>2, <1>3, <1>4 DEF Landing!Next

\* As long as no listing fails, the sample is never left beside a file of the hub.
THEOREM SampleIsAlwaysAlone == MCSpec => SampleStandsAlone
<1>1. FilesType /\ [Landing!Next]_(Landing!vars) =>
        [Landing!Apart => Landing!Apart' \/ blind']_(Landing!vars)
  BY StaysApart
<1> QED
  BY <1>1, PartsInit, PartsStep, FilesTypeInit, FilesTypeStep, PTL
  DEF MCSpec, SampleStandsAlone, Landing!SampleStandsAlone

\* A step that changes a complete file has taken it for missing.
LEMMA ChangesAreBlind ==
  ASSUME FilesType, Landing!Next, NEW name \in {"snapshot", "train", "eval"},
         Landing!Complete(name), files'[name] # files[name]
  PROVE  blind'
<1> USE DEF FilesType, Landing!Names
<1>1. Landing!There(name)
  BY DEF Landing!Complete, Landing!There
<1>2. CASE Landing!Start \/ Landing!Lookups \/ Landing!Peeks \/ Landing!Stop
  BY <1>2 DEF Landing!Start, Landing!Lookups, Landing!Peeks, Landing!Stop
<1>3. CASE Landing!Download
  <2>1. PICK transactions \in Landing!Exists("transactions"), snap \in Landing!Exists("snapshot") :
          /\ blind' = (blind \/ Landing!Deceived("transactions", transactions)
                             \/ (~transactions /\ Landing!Deceived("snapshot", snap)))
          /\ ~Landing!NothingLanded(transactions, snap) => UNCHANGED files
    BY <1>3 DEF Landing!Download
  <2>2. name = "snapshot"
    BY <1>3 DEF Landing!Download, Landing!SampleInstead, Landing!Cleared, Landing!Broken
  <2>3. ~transactions /\ ~snap
    BY <2>1 DEF Landing!NothingLanded
  <2> QED
    BY <1>1, <2>1, <2>2, <2>3 DEF Landing!Deceived
<1>4. CASE Landing!Materialize
  <2>1. PICK transactions \in Landing!Exists("transactions"), snap \in Landing!Exists("snapshot") :
          /\ blind' = (blind \/ Landing!Deceived("transactions", transactions)
                             \/ (transactions /\ Landing!Deceived("snapshot", snap)))
          /\ ~(transactions /\ ~snap) => UNCHANGED files
    BY <1>4 DEF Landing!Materialize
  <2>2. name = "snapshot"
    BY <1>4 DEF Landing!Materialize, Landing!Broken
  <2> QED
    BY <1>1, <2>1, <2>2 DEF Landing!Deceived
<1>5. ASSUME NEW fetched \in {"train", "eval"}, NEW after, Landing!Fetch(fetched, after)
      PROVE  blind'
  <2>1. name = fetched
    BY <1>5 DEF Landing!Fetch, Landing!Broken
  <2>2. PICK answer \in Landing!Exists(fetched) :
          blind' = (blind \/ Landing!Deceived(fetched, answer)) /\ (answer => UNCHANGED files)
    BY <1>5 DEF Landing!Fetch, Landing!Deceived
  <2> QED
    BY <1>1, <2>1, <2>2 DEF Landing!Deceived
<1> QED
  BY <1>2, <1>3, <1>4, <1>5 DEF Landing!Next

\* As long as no listing fails, a complete file is never landed again.
THEOREM CompleteFilesAreKept == MCSpec => LandedOnce
<1>1. FilesType /\ [Landing!Next]_(Landing!vars) =>
        [\A name \in {"snapshot", "train", "eval"} :
           Landing!Complete(name) /\ files'[name] # files[name] => blind']_(Landing!vars)
  BY ChangesAreBlind
<1> QED
  BY <1>1, PartsInit, PartsStep, FilesTypeInit, FilesTypeStep, PTL
  DEF MCSpec, LandedOnce, Landing!LandedOnce

(***************************************************************************)
(* The types of all three.                                                 *)
(***************************************************************************)
LEMMA LandingTypeInit == Landing!Init => Landing!TypeOK
<1> SUFFICES ASSUME Landing!Init PROVE Landing!TypeOK OBVIOUS
<1>1. files \in [Landing!Names -> Landing!Contents] BY FilesTypeInit DEF FilesType
<1>2. at = "over" /\ landings = 0 BY DEF Landing!Init
<1>3. blind \in BOOLEAN BY DEF Landing!Init
<1> QED BY <1>1, <1>2, <1>3, LandingsAssumption DEF Landing!TypeOK

LEMMA LandingTypeStep == Landing!TypeOK /\ [Landing!Next]_(Landing!vars) => Landing!TypeOK'
<1> SUFFICES ASSUME Landing!TypeOK, [Landing!Next]_(Landing!vars) PROVE Landing!TypeOK'
  OBVIOUS
<1>1. (files \in [Landing!Names -> Landing!Contents])'
  BY FilesTypeStep DEF FilesType, Landing!TypeOK
<1>2. (landings \in 0..MaxLandings)'
  BY LandingsAssumption
  DEF Landing!TypeOK, Landing!Next, Landing!vars, Landing!Start, Landing!Download,
      Landing!Materialize, Landing!Lookups, Landing!Fetch, Landing!Peeks, Landing!Stop
<1>3. (at \in Landing!Steps \cup {"over", "landed"})' /\ (blind \in BOOLEAN)'
  <2> USE DEF Landing!TypeOK, Landing!Steps, Landing!Raised
  <2>1. CASE Landing!Start \/ Landing!Lookups \/ Landing!Peeks \/ Landing!Stop \/
             UNCHANGED Landing!vars
    BY <2>1 DEF Landing!Start, Landing!Lookups, Landing!Peeks, Landing!Stop, Landing!vars
  <2>2. CASE Landing!Download
    BY <2>2 DEF Landing!Download, Landing!SampleInstead
  <2>3. CASE Landing!Materialize
    BY <2>3 DEF Landing!Materialize
  <2>4. CASE Landing!Fetch("train", "eval") \/ Landing!Fetch("eval", "peeks")
    BY <2>4 DEF Landing!Fetch
  <2> QED BY <2>1, <2>2, <2>3, <2>4 DEF Landing!Next
<1> QED BY <1>1, <1>2, <1>3 DEF Landing!TypeOK

\* Type correctness of the round, the landing and the conversation.
THEOREM TypesAreAlwaysOK == MCSpec => []TypesOK
<1>1. MCSpec => []TypeOK
  BY RoundIsOne, EvaluationTypes, PTL
<1>2. MCSpec => []Landing!TypeOK
  BY PartsInit, PartsStep, LandingTypeInit, LandingTypeStep, PTL DEF MCSpec
<1>3. MCSpec => []Loop!TypeOK
  <2>1. LoopProofs!TypeOK => Loop!TypeOK
    BY DEF Loop!TypeOK, LoopProofs!TypeOK, Loop!Message, LoopProofs!Message, Loop!Call,
           LoopProofs!Call, Loop!Groups, LoopProofs!Groups
  <2>2. LoopProofs!Spec => []LoopProofs!TypeOK
    BY RepliesOfTheModel, LoopProofs!LoopTypes
  <2> QED BY <2>1, <2>2, LoopIsOne, PTL
<1> QED BY <1>1, <1>2, <1>3, PTL DEF TypesOK
=============================================================================
