-------------------------------- MODULE Totals --------------------------------
(***************************************************************************)
(* Sums of amounts, as the code computes them by reducing a list of rows   *)
(* (toBudgetResourceView of src/domain/budget.ts): the sum of the values   *)
(* of a function, of which the negative ones do not count.                 *)
(*                                                                         *)
(* A sum is counted rather than added up: it is the number of units that   *)
(* the values consist of.  No order of the rows is needed for that, and    *)
(* what an update does to a sum is a fact about finite sets.               *)
(***************************************************************************)
EXTENDS Integers, FiniteSets

\* the units of the values of f, each named by where it comes from
Units(f) == UNION {{x} \X (1 .. f[x]) : x \in DOMAIN f}

Total(f) == Cardinality(Units(f))
=============================================================================
