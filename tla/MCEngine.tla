----------------------------- MODULE MCEngine -----------------------------
(* Bounded instances of Engine for TLC. *)
EXTENDS Engine

CONSTANTS n1, n2

FaultBudget == [m \in Modes |-> IF m = "hanging" THEN 1 ELSE 2]
===========================================================================
