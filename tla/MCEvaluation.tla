------------------------------- MODULE MCEvaluation -------------------------------
(***************************************************************************)
(* The instance of Evaluation that TLC checks, and, as parts of their own, *)
(* two components that share no state with it: the landing of the raw      *)
(* files, which is over before a round begins, and the conversation with   *)
(* the model, which a run of the generator has before each job.            *)
(***************************************************************************)
EXTENDS Evaluation

CONSTANTS LandingFaults, MaxLandings, LoopFaults, MaxToolRounds, MaxTries

ASSUME LandingsAssumption == MaxLandings \in Nat

VARIABLES part, files, at, blind, landings,
          prior, messages, try, turn, next, step, sent, listed

Landing == INSTANCE RawLanding WITH Faults <- LandingFaults

landing == <<files, at, blind, landings>>

\* Replies with every group of tools, with calls before one that is not whole, and without.
Whole(name) == [name |-> name, form |-> "whole"]
ReplySet == {
  <<>>,
  <<Whole("tested")>>,
  <<Whole("successes"), Whole("history")>>,
  <<Whole("other"), [name |-> "history", form |-> "anonymous"]>>,
  <<[name |-> "other", form |-> "nameless"]>> }

Loop == INSTANCE ToolLoop WITH
  attempt <- try, MaxAttempts <- MaxTries, Faults <- LoopFaults, Replies <- ReplySet

loop == <<prior, messages, try, turn, next, step, sent, listed>>

Budget(runs, checks, resets, abandoned, retries) ==
  [runs |-> runs, checks |-> checks, resets |-> resets, abandoned |-> abandoned, retries |-> retries]

\* What a round may consist of.  All of it at once is out of reach; each two kinds of
\* disturbance meet somewhere.
BudgetSet == {
  Budget(2, 2, 0, 0, 0),
  Budget(2, 1, 0, 1, 0),
  Budget(2, 0, 1, 1, 0),
  Budget(1, 1, 1, 1, 0),
  Budget(1, 1, 1, 0, 1),
  Budget(1, 1, 0, 1, 1) }

\* The pipelines differ in the tables that are expected, which only verifications look at.
MCInit ==
  /\ Init /\ Landing!Init /\ Loop!Init /\ part \in {"landing", "loop", "round"}
  /\ left.checks < 2 => pipeline = "taxi"
  /\ part # "round" => left = Budget(1, 1, 1, 1, 0)

MCNext ==
  \/ part = "landing" /\ Landing!Next /\ UNCHANGED <<part, loop, vars>>
  \/ part = "loop" /\ Loop!Next /\ UNCHANGED <<part, landing, vars>>
  \/ part = "round" /\ Next /\ UNCHANGED <<part, landing, loop>>

MCSpec == MCInit /\ [][MCNext]_<<part, landing, loop, vars>>
-----------------------------------------------------------------------------
TypesOK == TypeOK /\ Landing!TypeOK /\ Loop!TypeOK

\* SampleStandsAlone of RawLanding: the sample is not left beside a file of the hub.
SampleStandsAlone == Landing!SampleStandsAlone

\* LandedOnce of RawLanding: no later landing touches a complete file.
LandedOnce == Landing!LandedOnce

\* CallsAreAnswered of ToolLoop: a request answers every tool call right behind it.
CallsAreAnswered == Loop!CallsAreAnswered

\* EvidenceWasSeen of ToolLoop: an accepted answer had the required results before it.
EvidenceWasSeen == Loop!EvidenceWasSeen
=============================================================================
