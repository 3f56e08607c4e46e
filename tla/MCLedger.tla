------------------------------ MODULE MCLedger ------------------------------
(* Bounded instances of Ledger for TLC. *)
EXTENDS LedgerInv

CONSTANTS c1, c2, w1, w2, k1, k2

\* A debit of one unit; a reset to one unit is what credits a wallet.
OneUnit == {-1}
=============================================================================
