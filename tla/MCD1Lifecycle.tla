--------------------------- MODULE MCD1Lifecycle ---------------------------
(***************************************************************************)
(* Small instances of D1Lifecycle for TLC.                                 *)
(***************************************************************************)
EXTENDS D1Refinement, TLC

Symmetry == Permutations(Run) \cup Permutations(Handler) \cup Permutations(Token)
=============================================================================
