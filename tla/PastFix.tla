--------------------------------- MODULE PastFix ---------------------------------
(***************************************************************************)
(* What retrieval.py finds in de_assist.run_errors.  A record is the       *)
(* attempt it is about, [run, layer, attempt], and its status.  Which of   *)
(* several pairs has an error most like the one at hand, and which of      *)
(* several rows is the newest, is left open: the operators return all that *)
(* may be chosen.                                                          *)
(***************************************************************************)
EXTENDS Naturals

Failures(records) == {r \in records : r.status = "FAILED"}

\* _latest_failed: any failure, unless there is one of the layer.
AnyFailure(records, layer) == Failures(records)  \* deviation: the layer is not asked for
LatestFailed(records, layer) ==
  LET ofLayer == {r \in Failures(records) : r.id.layer = layer}
  IN  IF ofLayer # {} THEN ofLayer ELSE Failures(records)

\* find_past_fix pairs a failure with the pass of the next attempt of its run.
LaterPass(f, p) ==  \* deviation: any later attempt of any run
  f.id.attempt < p.id.attempt \/ f.id.run < p.id.run
NextAttemptPassed(f, p) ==
  p.id.run = f.id.run /\ p.id.attempt = f.id.attempt + 1

Fixes(records, layer) ==
  {pair \in Failures(records) \X (records \ Failures(records)) :
     /\ pair[1].id.layer = layer /\ pair[2].id.layer = layer
     /\ NextAttemptPassed(pair[1], pair[2])}
=============================================================================
