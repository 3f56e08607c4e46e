------------------------------- MODULE Ledger -------------------------------
(***************************************************************************)
(* LedgerService: concurrent calls of record (debit, credit, reverse) and  *)
(* resetTo on the wallets and the journal of the database.  A call reads   *)
(* outside any transaction, then locks the wallet row, reads again, writes *)
(* the balance as an absolute value and inserts the journal row under the  *)
(* unique idempotency key; the commit makes both visible (READ COMMITTED). *)
(* Retries are further calls with the same key.                            *)
(***************************************************************************)
EXTENDS Integers, Sequences

CONSTANTS
    Callers,     \* calls that can be in flight at once
    Wallets, Keys,
    Amounts,     \* signed amounts of record
    Targets,     \* balances resetTo is asked for
    NoCaller, NoRequest

ASSUME RequestsAssumption == /\ Amounts \subseteq Int \ {0}
                             /\ Targets \subseteq Nat
                             /\ NoCaller \notin Callers

VARIABLES
    balance,    \* Wallet.balance
    journal,    \* the committed LedgerTransaction rows of each wallet, in order
    lock,       \* who holds the row lock of the wallet
    pc, req,    \* where each call is, and its arguments
    staged      \* the uncommitted writes of its transaction

vars == <<balance, journal, lock, pc, req, staged>>
booksVars == <<balance, journal>>

Requests ==
    [op : {"move"}, wallet : Wallets, key : Keys, amount : Amounts]
      \cup [op : {"reset"}, wallet : Wallets, key : Keys, amount : Targets]

InTx == {"recheck", "apply", "insert", "commit"}
Pcs == {"idle", "look", "begin", "backstop", "row", "null", "thrown"} \cup InTx

Rows == [key : Keys, amount : Int, after : Int]

TypeOK ==
    /\ balance \in [Wallets -> Int]
    /\ journal \in [Wallets -> Seq(Rows)]
    /\ lock \in [Wallets -> Callers \cup {NoCaller}]
    /\ pc \in [Callers -> Pcs]
    /\ req \in [Callers -> Requests \cup {NoRequest}]
    /\ staged \in [Callers -> [delta : Int, after : Int]]

Nothing == [delta |-> 0, after |-> 0]

Init ==
    /\ balance = [w \in Wallets |-> 0]
    /\ journal = [w \in Wallets |-> <<>>]
    /\ lock = [w \in Wallets |-> NoCaller]
    /\ pc = [c \in Callers |-> "idle"]
    /\ req = [c \in Callers |-> NoRequest]
    /\ staged = [c \in Callers |-> Nothing]

-----------------------------------------------------------------------------

\* What ledgerTransaction.findUnique({ idempotencyKey }) finds: committed rows only.
Recorded == {k \in Keys : \E w \in Wallets : \E i \in 1..Len(journal[w]) : journal[w][i].key = k}

Go(c, next) == pc' = [pc EXCEPT ![c] = next]

\* The transaction of the call ends and gives up the row lock.
EndTx(c, next) ==
    /\ Go(c, next)
    /\ lock' = [lock EXCEPT ![req[c].wallet] = NoCaller]

Call(c, r) ==
    /\ pc[c] = "idle"
    /\ req' = [req EXCEPT ![c] = r]
    /\ Go(c, "look")
    /\ UNCHANGED <<booksVars, lock, staged>>

\* The fast path: a key that is on the ledger is answered with its row.
Look(c) ==
    /\ pc[c] = "look"
    /\ Go(c, IF req[c].key \in Recorded THEN "row" ELSE "begin")
    /\ UNCHANGED <<booksVars, lock, req, staged>>

\* Mutant: no lock is taken.
LockRowSkipped(c) ==
    /\ pc[c] = "begin"
    /\ Go(c, "recheck")
    /\ UNCHANGED <<booksVars, lock, req, staged>>

\* SELECT ... FOR UPDATE
LockRow(c) ==
    /\ pc[c] = "begin"
    /\ lock[req[c].wallet] = NoCaller
    /\ lock' = [lock EXCEPT ![req[c].wallet] = c]
    /\ Go(c, "recheck")
    /\ UNCHANGED <<booksVars, req, staged>>

\* Mutant: the transaction of a duplicate is left open.
RecheckLeaks(c) ==
    /\ pc[c] = "recheck"
    /\ Go(c, IF req[c].key \in Recorded THEN "row" ELSE "apply") /\ lock' = lock
    /\ UNCHANGED <<booksVars, req, staged>>

\* The same lookup under the lock.
Recheck(c) ==
    /\ pc[c] = "recheck"
    /\ IF req[c].key \in Recorded THEN EndTx(c, "row") ELSE Go(c, "apply") /\ lock' = lock
    /\ UNCHANGED <<booksVars, req, staged>>

\* record moves by the amount, resetTo to the target.
Delta(c) == IF req[c].op = "move" THEN req[c].amount ELSE req[c].amount - balance[req[c].wallet]

\* Mutant: the balance is not checked.
ApplyUnchecked(c) ==
    /\ pc[c] = "apply"
    /\ staged' = [staged EXCEPT ![c] = [delta |-> Delta(c), after |-> balance[req[c].wallet] + Delta(c)]]
    /\ Go(c, "insert") /\ lock' = lock
    /\ UNCHANGED <<booksVars, req>>

\* insufficient_balance rolls back, a reset of a wallet at its target has
\* nothing to record.
Apply(c) ==
    LET after == balance[req[c].wallet] + Delta(c) IN
    /\ pc[c] = "apply"
    /\ \/ after < 0 /\ EndTx(c, "thrown") /\ staged' = staged
       \/ Delta(c) = 0 /\ EndTx(c, "null") /\ staged' = staged
       \/ /\ after >= 0 /\ Delta(c) # 0
          /\ staged' = [staged EXCEPT ![c] = [delta |-> Delta(c), after |-> after]]
          /\ Go(c, "insert") /\ lock' = lock
    /\ UNCHANGED <<booksVars, req>>

\* Mutant: no unique index on the key.
InsertUnchecked(c) ==
    /\ pc[c] = "insert"
    /\ Go(c, "commit") /\ lock' = lock
    /\ UNCHANGED <<booksVars, req, staged>>

\* The insert waits for a transaction that has inserted the key and not ended;
\* a committed row with the key fails it with P2002.
Insert(c) ==
    /\ pc[c] = "insert"
    /\ \A d \in Callers : pc[d] = "commit" => req[d].key # req[c].key
    /\ IF req[c].key \in Recorded THEN EndTx(c, "backstop") ELSE Go(c, "commit") /\ lock' = lock
    /\ UNCHANGED <<booksVars, req, staged>>

\* The catch around the transaction looks the row up again.
Backstop(c) ==
    /\ pc[c] = "backstop"
    /\ Go(c, IF req[c].key \in Recorded THEN "row" ELSE "thrown")
    /\ UNCHANGED <<booksVars, lock, req, staged>>

\* The commit; its answer may be lost.
Commit(c) ==
    LET w == req[c].wallet IN
    /\ pc[c] = "commit"
    /\ balance' = [balance EXCEPT ![w] = staged[c].after]
    /\ journal' = [journal EXCEPT ![w] = Append(@, [key |-> req[c].key, amount |-> staged[c].delta,
                                                    after |-> staged[c].after])]
    /\ EndTx(c, "row") \/ EndTx(c, "thrown")
    /\ UNCHANGED <<req, staged>>

\* A statement fails, the transaction times out or the connection is lost.
Abort(c) ==
    /\ \/ pc[c] \in InTx /\ EndTx(c, "thrown")
       \/ pc[c] \in {"look", "begin", "backstop"} /\ Go(c, "thrown") /\ lock' = lock
    /\ UNCHANGED <<booksVars, req, staged>>

Return(c) ==
    /\ pc[c] \in {"row", "null", "thrown"}
    /\ Go(c, "idle")
    /\ req' = [req EXCEPT ![c] = NoRequest]
    /\ staged' = [staged EXCEPT ![c] = Nothing]
    /\ UNCHANGED <<booksVars, lock>>

Work(c) ==
    \/ Look(c) \/ LockRow(c) \/ Recheck(c) \/ Apply(c) \/ Insert(c) \/ Backstop(c) \/ Commit(c)
    \/ Return(c)

Next == \E c \in Callers : (\E r \in Requests : Call(c, r)) \/ Work(c) \/ Abort(c)

Spec == Init /\ [][Next]_vars

\* Every statement is answered, and the row lock and the index are granted to
\* waiters in turn.
Fairness == \A c \in Callers : WF_vars(Work(c)) /\ SF_vars(LockRow(c)) /\ SF_vars(Insert(c))

FairSpec == Spec /\ Fairness

-----------------------------------------------------------------------------
(* Properties                                                              *)

AfterRow(w, i) == IF i = 0 THEN 0 ELSE journal[w][i].after

\* "Every money movement is one ledger row; wallets.balance is the cached
\* total" and "no negative balance": concurrent absolute writes of a balance
\* never lose an update, so the rows of a wallet form a balanceAfter chain
\* from zero to the balance, the check 2 of scripts/reconcile-check.ts.
ChainOK ==
    \A w \in Wallets :
        /\ balance[w] = AfterRow(w, Len(journal[w])) /\ balance[w] >= 0
        /\ \A i \in 1..Len(journal[w]) :
              /\ journal[w][i].after = AfterRow(w, i - 1) + journal[w][i].amount
              /\ journal[w][i].after >= 0

\* "no double-apply (idempotency key)": a key has one row over all wallets,
\* although calls on different wallets do not share a lock.
OncePerKey ==
    \A v, w \in Wallets : \A i \in 1..Len(journal[v]), j \in 1..Len(journal[w]) :
        journal[v][i].key = journal[w][j].key => v = w /\ i = j

\* A call that answers with a row answers with a committed one: nothing a
\* caller acted on can be rolled back.
RowIsCommitted == \A c \in Callers : pc[c] = "row" => req[c].key \in Recorded

Promise == INSTANCE LedgerPromise WITH applied <- Recorded

\* The steps of the calls together implement the atomic, idempotent ledger the
\* game relies on.
ImplementsPromise == Promise!Spec

\* Every call returns: neither the row locks nor the waits on an uncommitted
\* key form a cycle.
CallsReturn == \A c \in Callers : pc[c] # "idle" ~> pc[c] = "idle"
=============================================================================
