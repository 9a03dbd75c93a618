------------------------------ MODULE MCPipeline ------------------------------
(* Instances of the campaign pipeline for TLC: the cfg files give N, Pipes,  *)
(* Faults, ParslWaits and MaxRuns their values.                              *)
EXTENDS Pipeline
===============================================================================
