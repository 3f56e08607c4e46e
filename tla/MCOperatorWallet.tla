------------------------- MODULE MCOperatorWallet -------------------------
(* Bounded instances of OperatorWallet for TLC. *)
EXTENDS OperatorWallet

CONSTANTS c1, sweep
===========================================================================
