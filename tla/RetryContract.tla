---------------------------- MODULE RetryContract ----------------------------
(***************************************************************************)
(* What run_generator promises of its retry loop, as docs/generator.md     *)
(* ("Retry loop") and its callers see it, without any of the steps of an   *)
(* attempt: the stages are worked off in order, each has a budget of its   *)
(* own, a run returns only after the last stage, and it reports exhaustion *)
(* only when the stage it was in has used its whole budget.                *)
(***************************************************************************)
EXTENDS Naturals

CONSTANTS Stages,      \* how many layers the run has
          MaxAttempts  \* budget of each of them

VARIABLES verdict,  \* how the run stands
          stage,    \* the layer being worked on
          used      \* attempts it has begun

vars == <<verdict, stage, used>>

Init == verdict = "idle" /\ stage = 1 /\ used = 0

\* A run begins, or is refused before it begins.
Begin ==
  /\ verdict # "running" /\ verdict' \in {"running", "stopped"}
  /\ stage' = 1 /\ used' = 0

BeginAttempt ==
  /\ verdict = "running" /\ stage <= Stages /\ used < MaxAttempts
  /\ used' = used + 1
  /\ UNCHANGED <<verdict, stage>>

\* The next stage starts with its budget untouched.
Advance ==
  /\ verdict = "running" /\ used > 0
  /\ stage' = stage + 1 /\ used' = 0
  /\ UNCHANGED verdict

Return ==
  /\ verdict = "running" /\ stage > Stages /\ verdict' = "returned"
  /\ used' = 0 /\ UNCHANGED stage

Exhaust ==
  /\ verdict = "running" /\ used = MaxAttempts /\ verdict' = "exhausted"
  /\ used' = 0 /\ UNCHANGED stage

\* Errors that are not retried, and the end of the process.
Stop ==
  /\ verdict = "running" /\ verdict' = "stopped"
  /\ used' = 0 /\ UNCHANGED stage

Progress == BeginAttempt \/ Advance \/ Return \/ Exhaust \/ Stop

Next == Begin \/ Progress

Safety == Init /\ [][Next]_vars
Spec == Safety /\ WF_vars(Progress)
=============================================================================
