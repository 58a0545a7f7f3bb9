-------------------------- MODULE MCParallelWriter --------------------------
(* Instances of ParallelWriter for TLC: the workers.                       *)
EXTENDS ParallelWriter

CONSTANTS w1, w2
=============================================================================
