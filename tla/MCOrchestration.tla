-------------------------- MODULE MCOrchestration --------------------------
(***************************************************************************)
(* Small instances of Orchestration for TLC.                               *)
(***************************************************************************)
EXTENDS OrchestrationRefinement, TLC

Symmetry == Permutations(Cycles)
=============================================================================
