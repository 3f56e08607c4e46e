---------------------------- MODULE LedgerPromise ----------------------------
(***************************************************************************)
(* What the ledger promises its callers ("no negative balance, no          *)
(* double-apply (idempotency key)", LedgerService): a movement is applied  *)
(* in one step, at most once per idempotency key over all wallets.         *)
(***************************************************************************)
EXTENDS Integers

CONSTANTS Wallets, Keys
VARIABLES balance, applied

Init ==
    /\ balance = [w \in Wallets |-> 0]
    /\ applied = {}

Move(w, k) ==
    /\ k \notin applied
    /\ applied' = applied \cup {k}
    /\ balance'[w] \in Nat \ {balance[w]}
    /\ balance' = [balance EXCEPT ![w] = balance'[w]]

Next == \E w \in Wallets, k \in Keys : Move(w, k)

Spec == Init /\ [][Next]_<<balance, applied>>
=============================================================================
