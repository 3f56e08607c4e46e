---------------------------- MODULE MCFairness ----------------------------
(* Bounded instances of Fairness for TLC. *)
EXTENDS Fairness

CONSTANTS n1, n2, r1, r2, r3
===========================================================================
