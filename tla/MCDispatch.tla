------------------------------ MODULE MCDispatch ------------------------------
(* An instance of Dispatch for TLC. *)
EXTENDS Dispatch, TLC

\* Task 3 depends on task 1, task 4 on one that does not exist; task 2 is a second
\* repair, and so needs Terra.
FourTasks == 1 .. 4
ChainDeps == [t \in FourTasks |-> CASE t = 3 -> {1} [] t = 4 -> {9} [] OTHER -> {}]
SecondRepair == [t \in FourTasks |-> IF t = 2 THEN 2 ELSE 0]

Symmetry == Permutations(Dispatches)
=============================================================================
