-------------------------- MODULE MCPreparePipeline --------------------------
(* One role of each kind: with three, a prepare can wait behind another while *)
(* a third is on air.                                                         *)
EXTENDS PreparePipeline
CONSTANTS conn, adv, scan
=============================================================================
