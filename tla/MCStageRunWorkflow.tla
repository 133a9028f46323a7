-------------------------- MODULE MCStageRunWorkflow --------------------------
(* StageRunWorkflow with the largest repair budget its input may set. *)
EXTENDS StageRunWorkflow

MCMaxRounds == 3

=============================================================================
