------------------------------ MODULE LedgerInv ------------------------------
(* The inductive invariant behind the safety properties of Ledger.         *)
EXTENDS Ledger

\* A call in a transaction has arguments and holds the lock of its wallet.
HoldsLock ==
    \A c \in Callers :
        /\ pc[c] # "idle" => req[c] \in Requests
        /\ pc[c] \in InTx => lock[req[c].wallet] = c

\* What a transaction has staged is still right when it commits: the balance
\* it read, and a key nobody else has recorded or is about to record.
StagedOK ==
    \A c \in Callers :
        /\ pc[c] \in {"insert", "commit"} =>
              /\ staged[c].after = balance[req[c].wallet] + staged[c].delta
              /\ staged[c].after >= 0 /\ staged[c].delta # 0
        /\ pc[c] = "commit" =>
              /\ req[c].key \notin Recorded
              /\ \A d \in Callers : pc[d] = "commit" /\ req[d].key = req[c].key => d = c

IInv == TypeOK /\ HoldsLock /\ StagedOK /\ ChainOK /\ OncePerKey /\ RowIsCommitted
=============================================================================
