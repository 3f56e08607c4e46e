------------------------------- MODULE MCBets -------------------------------
(* Bounded instances of Bets for TLC. *)
EXTENDS BetsInv, TLC

CONSTANTS p1, p2, b1, b2

SymProcs == Permutations(Procs)
=============================================================================
