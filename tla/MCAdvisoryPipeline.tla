-------------------------- MODULE MCAdvisoryPipeline --------------------------
(* One advisory on one component is enough for every race of the pipeline: *)
(* rows are independent but for the transaction that writes them.          *)
EXTENDS AdvisoryPipeline

CONSTANT LastInstant

MCTimes == 0..LastInstant
=============================================================================
