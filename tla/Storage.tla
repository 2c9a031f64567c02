--------------------------------- MODULE Storage ---------------------------------
(***************************************************************************)
(* Where the tables of each pipeline live: load_paths of                   *)
(* pipeline_helpers.py.  Hand-built tables are in the output space "eval", *)
(* those of generated notebooks in "generated".  A location is the         *)
(* sequence of the names of its path below the DBFS root.                  *)
(***************************************************************************)
EXTENDS Sequences, SequencesExt

Pipelines == {"taxi", "transaction_cat", "fresh_retail"}

\* delta_namespace of EVAL_PIPELINES; taxi has none.
Namespace(pipeline) == IF pipeline = "transaction_cat" THEN "tx" ELSE "retail"

\* deviation: only the pipeline without a namespace has a generated root of its own
SharedRoot(space, pipeline) ==
  IF pipeline = "taxi"
    THEN IF space = "generated" THEN <<"delta", "generated">> ELSE <<"delta">>
    ELSE <<"delta", Namespace(pipeline)>>

\* The roots are nested: that of taxi's hand-built tables holds all the others.
DeltaRoot(space, pipeline) ==
  IF pipeline = "taxi"
    THEN IF space = "generated" THEN <<"delta", "generated">> ELSE <<"delta">>
    ELSE IF space = "generated" THEN <<"delta", Namespace(pipeline), "generated">>
                                ELSE <<"delta", Namespace(pipeline)>>

Location(space, pipeline, layer, table) == DeltaRoot(space, pipeline) \o <<layer, table>>

OpsLocation(table) == <<"delta", "de_assist", table>>

\* What dbutils.fs.rm(root, True) removes.
Below(root, location) == IsPrefix(root, location)
=============================================================================
