---------------------------- MODULE MCPipeline ----------------------------
(* A game of three tics on browsers with one or four threads.  A threaded prover
   has less memory per segment, so its ceiling is the lower one (planner.ts). *)
EXTENDS Pipeline

MCCeiling == [m \in {1, 4} |-> IF m = 1 THEN 2 ELSE 1]
=============================================================================
