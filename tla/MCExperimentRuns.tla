------------------------- MODULE MCExperimentRuns -------------------------
(***************************************************************************)
(* Up to two models with up to two experiments each: an experiment that is  *)
(* still running when the one before it has thrown, and a model's thread    *)
(* that is still running when that of another model has failed.             *)
(***************************************************************************)
EXTENDS ExperimentRuns
=============================================================================
