------------------------------ MODULE MCActuator ------------------------------
(* An instance of Actuator for TLC. *)
EXTENDS Actuator, TLC

CONSTANTS w1, w2

\* A coding worker and faults, beside one that works on nothing; and two coding workers
\* without faults on one budget.
FaultsOrCompany == {[coding |-> {w1}, faults |-> 2], [coding |-> {w1, w2}, faults |-> 0]}
=============================================================================
