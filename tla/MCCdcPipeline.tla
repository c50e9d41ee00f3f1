--------------------------- MODULE MCCdcPipeline ---------------------------
(* Small instances of CdcPipeline for TLC. *)
EXTENDS CdcPipeline

CONSTANTS w1, w2

OneWorker == {w1}
TwoWorkers == {w1, w2}
=============================================================================
