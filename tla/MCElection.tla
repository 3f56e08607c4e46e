---------------------------- MODULE MCElection ----------------------------
(* Bounded instances of Election for TLC. *)
EXTENDS Election

CONSTANTS n1, n2

FaultBudget == [s \in BOOLEAN |-> IF s THEN 1 ELSE 2]
===========================================================================
