---------------------------- MODULE LedgerProofs ----------------------------
(***************************************************************************)
(* IInv of LedgerInv is inductive, for any number of callers, wallets and  *)
(* keys and any amounts; the safety properties of Ledger and the           *)
(* refinement of LedgerPromise follow from it.                             *)
(***************************************************************************)
EXTENDS LedgerInv, TLAPS

\* What a request holds.
LEMMA RequestFields ==
    ASSUME NEW r \in Requests
    PROVE  r.wallet \in Wallets /\ r.key \in Keys /\ r.amount \in Int /\ r.op \in {"move", "reset"}
  <1>1. Amounts \subseteq Int /\ Targets \subseteq Int
    BY RequestsAssumption
  <1>2. CASE r \in [op : {"move"}, wallet : Wallets, key : Keys, amount : Amounts]
    BY <1>1, <1>2
  <1>3. CASE r \in [op : {"reset"}, wallet : Wallets, key : Keys, amount : Targets]
    BY <1>1, <1>3
  <1>4. QED
    BY <1>2, <1>3 DEF Requests

\* Steps that leave the books alone.
LEMMA QuietBooks ==
    ASSUME UNCHANGED booksVars
    PROVE  /\ Recorded' = Recorded
           /\ ChainOK' <=> ChainOK
           /\ OncePerKey' <=> OncePerKey
  BY DEF booksVars, Recorded, ChainOK, OncePerKey, AfterRow

\* What a commit does to the books: one row more, on one wallet.
LEMMA CommitBooks ==
    ASSUME TypeOK, HoldsLock, NEW c \in Callers, Commit(c)
    PROVE  LET w == req[c].wallet
               row == [key |-> req[c].key, amount |-> staged[c].delta, after |-> staged[c].after]
           IN /\ w \in Wallets /\ row \in Rows
              /\ journal'[w] = Append(journal[w], row)
              /\ Len(journal'[w]) = Len(journal[w]) + 1
              /\ Len(journal[w]) \in Nat
              /\ \A i \in 1..Len(journal[w]) : journal'[w][i] = journal[w][i]
              /\ journal'[w][Len(journal[w]) + 1] = row
              /\ balance'[w] = row.after
              /\ \A v \in Wallets \ {w} : journal'[v] = journal[v] /\ balance'[v] = balance[v]
              /\ journal' \in [Wallets -> Seq(Rows)]
              /\ balance' \in [Wallets -> Int]
  <1> DEFINE w == req[c].wallet
             row == [key |-> req[c].key, amount |-> staged[c].delta, after |-> staged[c].after]
  <1>1. req[c] \in Requests
    BY DEF HoldsLock, Commit
  <1>2. w \in Wallets /\ req[c].key \in Keys
    BY <1>1, RequestFields
  <1>3. row \in Rows
    BY <1>2 DEF TypeOK, Rows
  <1>4. journal \in [Wallets -> Seq(Rows)] /\ balance \in [Wallets -> Int] /\ row.after \in Int
    BY <1>3 DEF TypeOK, Rows
  <1>5. journal' = [journal EXCEPT ![w] = Append(journal[w], row)]
    BY DEF Commit
  <1>6. balance' = [balance EXCEPT ![w] = row.after]
    BY DEF Commit
  <1>7. journal[w] \in Seq(Rows)
    BY <1>2, <1>4
  <1> HIDE DEF w, row
  <1>8. /\ Append(journal[w], row) \in Seq(Rows)
        /\ Len(Append(journal[w], row)) = Len(journal[w]) + 1
        /\ Len(journal[w]) \in Nat
        /\ \A i \in 1..Len(journal[w]) : Append(journal[w], row)[i] = journal[w][i]
        /\ Append(journal[w], row)[Len(journal[w]) + 1] = row
    BY <1>3, <1>7
  <1>9. journal'[w] = Append(journal[w], row)
    BY <1>2, <1>4, <1>5
  <1>10. /\ balance'[w] = row.after
         /\ \A v \in Wallets \ {w} : journal'[v] = journal[v] /\ balance'[v] = balance[v]
         /\ journal' \in [Wallets -> Seq(Rows)] /\ balance' \in [Wallets -> Int]
    BY <1>2, <1>4, <1>5, <1>6, <1>8
  <1>11. QED
    BY <1>2, <1>3, <1>8, <1>9, <1>10 DEF w, row

\* A commit puts its key on the ledger, and only its key.
LEMMA CommitKey ==
    ASSUME TypeOK, HoldsLock, NEW c \in Callers, Commit(c)
    PROVE  Recorded' = Recorded \cup {req[c].key}
  <1> DEFINE w == req[c].wallet
             n == Len(journal[w])
             row == [key |-> req[c].key, amount |-> staged[c].delta, after |-> staged[c].after]
  <1>1. /\ w \in Wallets /\ n \in Nat /\ row.key = req[c].key
        /\ Len(journal'[w]) = n + 1
        /\ \A i \in 1..n : journal'[w][i] = journal[w][i]
        /\ journal'[w][n + 1] = row
        /\ \A v \in Wallets \ {w} : journal'[v] = journal[v]
    BY CommitBooks
  <1> HIDE DEF w, n, row
  <1>k. req[c].key \in Keys
    BY RequestFields DEF HoldsLock, Commit
  <1> SUFFICES ASSUME NEW k \in Keys
               PROVE  k \in Recorded' <=> (k \in Recorded \/ k = req[c].key)
    BY <1>k DEF Recorded
  <1>2. ASSUME k \in Recorded PROVE k \in Recorded'
    <2> PICK v \in Wallets : \E i \in 1..Len(journal[v]) : journal[v][i].key = k
      BY <1>2 DEF Recorded
    <2>1. PICK i \in 1..Len(journal[v]) : journal[v][i].key = k
      OBVIOUS
    <2>2. i \in 1..Len(journal'[v]) /\ journal'[v][i] = journal[v][i]
      BY <1>1, <2>1 DEF n
    <2>3. QED
      BY <2>1, <2>2 DEF Recorded
  <1>3. ASSUME k = req[c].key PROVE k \in Recorded'
    <2>1. n + 1 \in 1..Len(journal'[w]) /\ journal'[w][n + 1].key = k
      BY <1>1, <1>3
    <2>2. QED
      BY <1>1, <2>1 DEF Recorded
  <1>4. ASSUME k \in Recorded' PROVE k \in Recorded \/ k = req[c].key
    <2>1. PICK v \in Wallets : \E i \in 1..Len(journal'[v]) : journal'[v][i].key = k
      BY <1>4 DEF Recorded
    <2>2. PICK i \in 1..Len(journal'[v]) : journal'[v][i].key = k
      BY <2>1
    <2>3. CASE v # w
      BY <1>1, <2>2, <2>3 DEF Recorded
    <2>4. CASE v = w /\ i \in 1..n
      BY <1>1, <2>2, <2>4 DEF Recorded, n
    <2>5. CASE v = w /\ i = n + 1
      BY <1>1, <2>2, <2>5
    <2>6. QED
      BY <1>1, <2>2, <2>3, <2>4, <2>5
  <1>5. QED
    BY <1>2, <1>3, <1>4

-----------------------------------------------------------------------------

\* Every step keeps the types.
LEMMA TypeStep ==
    ASSUME TypeOK, HoldsLock, Next
    PROVE  TypeOK'
  <1> USE DEF TypeOK, Go, EndTx, Pcs, InTx, booksVars
  <1> PICK c \in Callers : (\E r \in Requests : Call(c, r)) \/ Work(c) \/ Abort(c)
    BY DEF Next
  <1>r. ASSUME pc[c] # "idle"
        PROVE  req[c].wallet \in Wallets /\ req[c].key \in Keys /\ req[c].amount \in Int
    BY <1>r, RequestFields DEF HoldsLock
  <1>1. ASSUME NEW r \in Requests, Call(c, r) PROVE TypeOK'
    BY <1>1 DEF Call
  <1>2. CASE Look(c)
    BY <1>2 DEF Look
  <1>3. CASE LockRow(c)
    BY <1>3, <1>r DEF LockRow
  <1>4. CASE Recheck(c)
    BY <1>4, <1>r DEF Recheck
  <1>5. CASE Apply(c)
    <2>1. balance[req[c].wallet] \in Int /\ Delta(c) \in Int
      BY <1>5, <1>r DEF Apply, Delta
    <2>2. balance[req[c].wallet] + Delta(c) \in Int
      BY <2>1
    <2>3. staged' \in [Callers -> [delta : Int, after : Int]]
      <3>1. \/ staged' = staged
            \/ staged' = [staged EXCEPT ![c] =
                             [delta |-> Delta(c), after |-> balance[req[c].wallet] + Delta(c)]]
        BY <1>5 DEF Apply
      <3>2. [delta |-> Delta(c), after |-> balance[req[c].wallet] + Delta(c)] \in [delta : Int, after : Int]
        BY <2>1, <2>2
      <3> HIDE DEF Go, EndTx, Pcs, InTx, booksVars
      <3>3. QED
        BY <3>1, <3>2
    <2>4. /\ UNCHANGED <<balance, journal, req>>
          /\ pc[c] = "apply"
          /\ EndTx(c, "thrown") \/ EndTx(c, "null") \/ (Go(c, "insert") /\ lock' = lock)
      BY <1>5 DEF Apply
    <2>5. lock' \in [Wallets -> Callers \cup {NoCaller}] /\ pc' \in [Callers -> Pcs]
      BY <2>4, <1>r
    <2>6. QED
      BY <2>3, <2>4, <2>5
  <1>6. CASE Insert(c)
    BY <1>6, <1>r DEF Insert
  <1>7. CASE Backstop(c)
    BY <1>7 DEF Backstop
  <1>8. CASE Commit(c)
    <2>1. journal' \in [Wallets -> Seq(Rows)] /\ balance' \in [Wallets -> Int]
      BY <1>8, CommitBooks
    <2>2. QED
      BY <1>8, <1>r, <2>1 DEF Commit
  <1>9. CASE Return(c)
    BY <1>9, <1>r DEF Return, Nothing
  <1>10. CASE Abort(c)
    BY <1>10, <1>r DEF Abort
  <1>11. QED
    BY <1>1, <1>2, <1>3, <1>4, <1>5, <1>6, <1>7, <1>8, <1>9, <1>10 DEF Work

\* A call in a transaction keeps the lock of its wallet until it ends.
LEMMA LockStep ==
    ASSUME TypeOK, HoldsLock, Next
    PROVE  HoldsLock'
  <1> USE DEF TypeOK, Go, EndTx, InTx
  <1> PICK c \in Callers : (\E r \in Requests : Call(c, r)) \/ Work(c) \/ Abort(c)
    BY DEF Next
  <1> SUFFICES ASSUME NEW d \in Callers
               PROVE  /\ pc'[d] # "idle" => req'[d] \in Requests
                      /\ pc'[d] \in InTx => lock'[req'[d].wallet] = d
    BY DEF HoldsLock
  <1>h. /\ pc[d] # "idle" => req[d] \in Requests
        /\ pc[d] \in InTx => lock[req[d].wallet] = d
        /\ pc[c] # "idle" => req[c] \in Requests
        /\ pc[c] \in InTx => lock[req[c].wallet] = c
    BY DEF HoldsLock
  <1>r. /\ pc[d] # "idle" => req[d].wallet \in Wallets
        /\ pc[c] # "idle" => req[c].wallet \in Wallets
    BY <1>h, RequestFields
  <1>n. NoCaller # c /\ NoCaller # d
    BY RequestsAssumption
  <1>1. ASSUME NEW r \in Requests, Call(c, r)
        PROVE  /\ pc'[d] # "idle" => req'[d] \in Requests
               /\ pc'[d] \in InTx => lock'[req'[d].wallet] = d
    BY <1>1, <1>h DEF Call
  <1>2. CASE Look(c)
    BY <1>2, <1>h DEF Look
  <1>3. CASE LockRow(c)
    BY <1>3, <1>h, <1>r, <1>n DEF LockRow
  <1>4. CASE Recheck(c)
    BY <1>4, <1>h, <1>r DEF Recheck
  <1>5. CASE Apply(c)
    <2>1. req' = req /\ (EndTx(c, "thrown") \/ EndTx(c, "null") \/ (Go(c, "insert") /\ lock' = lock))
      BY <1>5 DEF Apply
    <2>2. pc[c] = "apply"
      BY <1>5 DEF Apply
    <2>3. QED
      BY <2>1, <2>2, <1>h, <1>r
  <1>6. CASE Insert(c)
    BY <1>6, <1>h, <1>r DEF Insert
  <1>7. CASE Backstop(c)
    BY <1>7, <1>h DEF Backstop
  <1>8. CASE Commit(c)
    BY <1>8, <1>h, <1>r DEF Commit
  <1>9. CASE Return(c)
    BY <1>9, <1>h, <1>r DEF Return
  <1>10. CASE Abort(c)
    BY <1>10, <1>h, <1>r DEF Abort
  <1>11. QED
    BY <1>1, <1>2, <1>3, <1>4, <1>5, <1>6, <1>7, <1>8, <1>9, <1>10 DEF Work

\* Two calls in transactions work on different wallets.
LEMMA OneTxPerWallet ==
    ASSUME HoldsLock, NEW c \in Callers, NEW d \in Callers, pc[c] \in InTx, pc[d] \in InTx,
           req[c].wallet = req[d].wallet
    PROVE  c = d
  BY DEF HoldsLock

\* What a transaction staged stays right: the only steps that move the
\* balance of a wallet are the commits of the call that holds its lock, and a
\* key enters the ledger only by the one call that is about to commit it.
LEMMA StagedStep ==
    ASSUME TypeOK, HoldsLock, StagedOK, Next
    PROVE  StagedOK'
  <1> USE DEF TypeOK, Go, EndTx, InTx
  <1> PICK c \in Callers : (\E r \in Requests : Call(c, r)) \/ Work(c) \/ Abort(c)
    BY DEF Next
  <1> SUFFICES ASSUME NEW d \in Callers
               PROVE  /\ pc'[d] \in {"insert", "commit"} =>
                            /\ staged'[d].after = balance'[req'[d].wallet] + staged'[d].delta
                            /\ staged'[d].after >= 0 /\ staged'[d].delta # 0
                      /\ pc'[d] = "commit" =>
                            /\ req'[d].key \notin Recorded'
                            /\ \A e \in Callers :
                                  pc'[e] = "commit" /\ req'[e].key = req'[d].key => e = d
    BY DEF StagedOK
  <1>k. \A e \in Callers : pc[e] # "idle" => req[e].wallet \in Wallets /\ req[e].key \in Keys
    BY RequestFields DEF HoldsLock
  \* Steps that leave the books and the staged writes alone and bring nobody
  \* to insert or commit.
  <1>q. ASSUME UNCHANGED <<booksVars, staged>>,
               \A e \in Callers : \/ pc'[e] = pc[e] /\ req'[e] = req[e]
                                  \/ pc'[e] \notin {"insert", "commit"}
        PROVE  StagedOK'
    <2>1. Recorded' = Recorded
      BY <1>q, QuietBooks
    <2>2. balance' = balance
      BY <1>q DEF booksVars
    <2>3. ASSUME NEW e \in Callers, pc'[e] \in {"insert", "commit"}
          PROVE  /\ pc[e] = pc'[e] /\ req'[e] = req[e] /\ req[e].key \in Keys
                 /\ staged'[e] = staged[e]
      BY <2>3, <1>q, <1>k
    <2>4. QED
      BY <2>1, <2>2, <2>3 DEF StagedOK
  <1>1. ASSUME NEW r \in Requests, Call(c, r) PROVE StagedOK'
    <2>1. \A e \in Callers : (pc'[e] = pc[e] /\ req'[e] = req[e]) \/ pc'[e] \notin {"insert", "commit"}
      BY <1>1 DEF Call
    <2>2. QED
      BY <2>1, <1>1, <1>q DEF Call
  <1>2. CASE Look(c) \/ LockRow(c) \/ Recheck(c) \/ Backstop(c) \/ Abort(c)
    <2>1. \A e \in Callers : (pc'[e] = pc[e] /\ req'[e] = req[e]) \/ pc'[e] \notin {"insert", "commit"}
      BY <1>2 DEF Look, LockRow, Recheck, Backstop, Abort
    <2>2. UNCHANGED <<booksVars, staged>>
      BY <1>2 DEF Look, LockRow, Recheck, Backstop, Abort
    <2>3. StagedOK'
      BY <2>1, <2>2, <1>q
    <2>4. QED
      BY <2>3 DEF StagedOK
  <1>3. CASE Apply(c)
    <2>1. UNCHANGED <<booksVars, req>> /\ pc[c] = "apply" /\ balance' = balance
      BY <1>3 DEF Apply, booksVars
    <2>2. Recorded' = Recorded
      BY <2>1, QuietBooks
    <2>3. \A e \in Callers : e # c => pc'[e] = pc[e] /\ staged'[e] = staged[e]
      BY <1>3 DEF Apply
    <2>4. pc'[c] # "commit"
      BY <1>3 DEF Apply
    <2>5. CASE d # c
      BY <2>1, <2>2, <2>3, <2>4, <2>5, <1>k DEF StagedOK
    <2>6. CASE d = c
      <3>1. balance[req[c].wallet] \in Int /\ Delta(c) \in Int
        BY <2>1, <1>k, RequestFields DEF Delta, HoldsLock
      <3>2. pc'[c] = "insert" =>
              /\ staged'[c].delta = Delta(c)
              /\ staged'[c].after = balance[req[c].wallet] + Delta(c)
              /\ balance[req[c].wallet] + Delta(c) >= 0 /\ Delta(c) # 0
        BY <1>3 DEF Apply
      <3>3. QED
        BY <2>1, <2>4, <2>6, <3>1, <3>2
    <2>7. QED
      BY <2>5, <2>6
  <1>4. CASE Insert(c)
    <2>1. UNCHANGED <<booksVars, req, staged>> /\ pc[c] = "insert" /\ balance' = balance
      BY <1>4 DEF Insert, booksVars
    <2>2. Recorded' = Recorded
      BY <2>1, QuietBooks
    <2>3. /\ \A e \in Callers : e # c => pc'[e] = pc[e]
          /\ \A e \in Callers : pc[e] = "commit" => req[e].key # req[c].key
          /\ pc'[c] = "commit" => req[c].key \notin Recorded
          /\ pc'[c] \in {"commit", "backstop"}
      BY <1>4 DEF Insert
    <2>4. QED
      BY <2>1, <2>2, <2>3, <1>k DEF StagedOK
  <1>5. CASE Commit(c)
    <2>1. /\ pc[c] = "commit" /\ UNCHANGED <<req, staged>>
          /\ \A e \in Callers : e # c => pc'[e] = pc[e]
          /\ pc'[c] \in {"row", "thrown"}
      BY <1>5 DEF Commit
    <2>2. Recorded' = Recorded \cup {req[c].key}
      BY <1>5, CommitKey
    <2>3. ASSUME d # c, pc'[d] \in {"insert", "commit"}
          PROVE  balance'[req[d].wallet] = balance[req[d].wallet]
      <3>1. req[d].wallet \in Wallets /\ req[d].wallet # req[c].wallet
        BY <2>1, <2>3, <1>k, OneTxPerWallet
      <3>2. \A v \in Wallets \ {req[c].wallet} : balance'[v] = balance[v]
        BY <1>5, CommitBooks
      <3>3. QED
        BY <3>1, <3>2
    <2>4. QED
      BY <2>1, <2>2, <2>3, <1>k DEF StagedOK
  <1>6. CASE Return(c)
    <2>1. /\ UNCHANGED booksVars /\ balance' = balance
          /\ pc[c] \in {"row", "null", "thrown"} /\ pc'[c] = "idle"
          /\ \A e \in Callers : e # c => pc'[e] = pc[e] /\ req'[e] = req[e] /\ staged'[e] = staged[e]
      BY <1>6 DEF Return, booksVars
    <2>2. Recorded' = Recorded
      BY <2>1, QuietBooks
    <2>3. QED
      BY <2>1, <2>2, <1>k DEF StagedOK
  <1>7. QED
    BY <1>1, <1>2, <1>3, <1>4, <1>5, <1>6 DEF Work, StagedOK

\* The balanceAfter chain is extended by one row that starts where it ended.
LEMMA ChainStep ==
    ASSUME TypeOK, HoldsLock, StagedOK, ChainOK, Next
    PROVE  ChainOK'
  <1>1. CASE UNCHANGED booksVars
    BY <1>1, QuietBooks
  <1>2. ASSUME NEW c \in Callers, Commit(c) PROVE ChainOK'
    <2>w. PICK w \in Wallets : w = req[c].wallet
      BY <1>2, CommitBooks
    <2>n. PICK n \in Nat : n = Len(journal[w])
      BY <1>2, <2>w, CommitBooks
    <2>r. PICK row \in Rows : row = [key |-> req[c].key, amount |-> staged[c].delta,
                                    after |-> staged[c].after]
      BY <1>2, CommitBooks
    <2>1. /\ Len(journal'[w]) = n + 1
          /\ \A i \in 1..n : journal'[w][i] = journal[w][i]
          /\ journal'[w][n + 1] = row
          /\ balance'[w] = row.after
          /\ \A v \in Wallets \ {w} : journal'[v] = journal[v] /\ balance'[v] = balance[v]
      BY <1>2, <2>w, <2>n, <2>r, CommitBooks
    <2>2. row.after = balance[w] + row.amount /\ row.after >= 0
      BY <1>2, <2>w, <2>r DEF StagedOK, Commit
    <2>3. SUFFICES ASSUME NEW v \in Wallets
                   PROVE  /\ balance'[v] = AfterRow(v, Len(journal[v]))' /\ balance'[v] >= 0
                          /\ \A i \in 1..Len(journal'[v]) :
                                /\ journal'[v][i].after = AfterRow(v, i - 1)' + journal'[v][i].amount
                                /\ journal'[v][i].after >= 0
      BY DEF ChainOK
    <2>4. CASE v # w
      BY <2>1, <2>4 DEF ChainOK, AfterRow
    <2>5. CASE v = w
      <3>1. \A i \in 0..n : AfterRow(w, i)' = AfterRow(w, i)
        BY <2>1 DEF AfterRow
      <3>2. balance[w] = AfterRow(w, n)
        BY <2>n DEF ChainOK
      <3>3. ASSUME NEW i \in 1..n
            PROVE  /\ journal'[w][i].after = AfterRow(w, i - 1)' + journal'[w][i].amount
                   /\ journal'[w][i].after >= 0
        <4>1. AfterRow(w, i - 1)' = AfterRow(w, i - 1)
          BY <3>1
        <4>2. journal[w][i].after = AfterRow(w, i - 1) + journal[w][i].amount /\ journal[w][i].after >= 0
          BY <2>n DEF ChainOK
        <4>3. QED
          BY <2>1, <4>1, <4>2
      <3>4. row.after = AfterRow(w, n)' + row.amount
        BY <2>2, <3>1, <3>2
      <3>5. ASSUME NEW i \in 1..(n + 1)
            PROVE  /\ journal'[w][i].after = AfterRow(w, i - 1)' + journal'[w][i].amount
                   /\ journal'[w][i].after >= 0
        <4>1. CASE i \in 1..n
          BY <4>1, <3>3
        <4>2. CASE i = n + 1
          <5>1. AfterRow(w, i - 1)' = AfterRow(w, n)'
            BY <4>2 DEF AfterRow
          <5>2. QED
            BY <2>1, <2>2, <3>4, <4>2, <5>1
        <4>3. QED
          BY <4>1, <4>2
      <3>6. balance'[w] = AfterRow(w, Len(journal[w]))' /\ balance'[w] >= 0
        BY <2>1, <2>2 DEF AfterRow
      <3>7. QED
        BY <2>1, <2>5, <3>5, <3>6
    <2>6. QED
      BY <2>4, <2>5
  <1>3. QED
    BY <1>1, <1>2 DEF Next, Work, Call, Look, LockRow, Recheck, Apply, Insert, Backstop, Return, Abort

\* The new row of a commit has a key that was on no wallet.
LEMMA KeyStep ==
    ASSUME TypeOK, HoldsLock, StagedOK, OncePerKey, Next
    PROVE  OncePerKey'
  <1>1. CASE UNCHANGED booksVars
    BY <1>1, QuietBooks
  <1>2. ASSUME NEW c \in Callers, Commit(c) PROVE OncePerKey'
    <2>w. PICK w \in Wallets : w = req[c].wallet
      BY <1>2, CommitBooks
    <2>n. PICK n \in Nat : n = Len(journal[w])
      BY <1>2, <2>w, CommitBooks
    <2>r. PICK row \in Rows : row = [key |-> req[c].key, amount |-> staged[c].delta,
                                    after |-> staged[c].after]
      BY <1>2, CommitBooks
    <2>1. /\ Len(journal'[w]) = n + 1
          /\ \A i \in 1..n : journal'[w][i] = journal[w][i]
          /\ journal'[w][n + 1] = row
          /\ \A v \in Wallets \ {w} : journal'[v] = journal[v]
      BY <1>2, <2>w, <2>n, <2>r, CommitBooks
    <2>2. row.key \in Keys \ Recorded
      BY <1>2, <2>r DEF StagedOK, Commit, Rows
    <2>3. \A v \in Wallets : \A i \in 1..Len(journal'[v]) :
              \/ v = w /\ i = n + 1 /\ journal'[v][i].key = row.key
              \/ /\ i \in 1..Len(journal[v]) /\ journal'[v][i] = journal[v][i]
                 /\ journal[v][i].key # row.key
      <3> SUFFICES ASSUME NEW v \in Wallets, NEW i \in 1..Len(journal'[v])
                   PROVE  \/ v = w /\ i = n + 1 /\ journal'[v][i].key = row.key
                          \/ /\ i \in 1..Len(journal[v]) /\ journal'[v][i] = journal[v][i]
                             /\ journal[v][i].key # row.key
        OBVIOUS
      <3>1. \/ v = w /\ i = n + 1
            \/ i \in 1..Len(journal[v]) /\ journal'[v][i] = journal[v][i]
        BY <2>1, <2>n
      <3>2. QED
        BY <2>1, <2>2, <3>1 DEF Recorded
    <2>4. SUFFICES ASSUME NEW u \in Wallets, NEW v \in Wallets,
                          NEW i \in 1..Len(journal'[u]), NEW j \in 1..Len(journal'[v]),
                          journal'[u][i].key = journal'[v][j].key
                   PROVE  u = v /\ i = j
      BY DEF OncePerKey
    <2>5. CASE journal'[u][i].key = row.key
      <3>1. u = w /\ i = n + 1
        BY <2>3, <2>5
      <3>2. v = w /\ j = n + 1
        BY <2>3, <2>4, <2>5
      <3>3. QED
        BY <3>1, <3>2
    <2>6. CASE journal'[u][i].key # row.key
      <3>1. /\ i \in 1..Len(journal[u]) /\ j \in 1..Len(journal[v])
            /\ journal[u][i].key = journal[v][j].key
        BY <2>3, <2>4, <2>6
      <3>2. QED
        BY <3>1 DEF OncePerKey
    <2>7. QED
      BY <2>5, <2>6
  <1>3. QED
    BY <1>1, <1>2 DEF Next, Work, Call, Look, LockRow, Recheck, Apply, Insert, Backstop, Return, Abort

\* Rows stay on the ledger, and a call answers with one only after it saw or
\* committed it.
LEMMA AnswerStep ==
    ASSUME TypeOK, HoldsLock, RowIsCommitted, Next
    PROVE  RowIsCommitted'
  <1> USE DEF TypeOK, Go, EndTx
  <1> PICK c \in Callers : (\E r \in Requests : Call(c, r)) \/ Work(c) \/ Abort(c)
    BY DEF Next
  <1>k. \A e \in Callers : pc[e] # "idle" => req[e].key \in Keys
    BY RequestFields DEF HoldsLock
  <1>1. CASE Commit(c)
    <2>1. Recorded' = Recorded \cup {req[c].key}
      BY <1>1, CommitKey
    <2>2. pc[c] = "commit" /\ req' = req /\ \A e \in Callers : e # c => pc'[e] = pc[e]
      BY <1>1 DEF Commit
    <2>3. QED
      BY <2>1, <2>2, <1>k DEF RowIsCommitted
  <1>2. CASE ~Commit(c)
    <2>1. UNCHANGED booksVars
      BY <1>2 DEF Work, Call, Look, LockRow, Recheck, Apply, Insert, Backstop, Return, Abort
    <2>2. Recorded' = Recorded
      BY <2>1, QuietBooks
    <2>3. ASSUME NEW e \in Callers
          PROVE  \/ pc'[e] # "row"
                 \/ pc'[e] = pc[e] /\ req'[e] = req[e]
                 \/ req'[e] = req[e] /\ pc[e] # "idle" /\ req[e].key \in Recorded
      <3>1. ASSUME NEW r \in Requests, Call(c, r)
            PROVE  pc'[e] # "row" \/ (pc'[e] = pc[e] /\ req'[e] = req[e])
        BY <3>1 DEF Call
      <3>2. CASE Look(c)
        BY <3>2 DEF Look
      <3>3. CASE Recheck(c)
        BY <3>3 DEF Recheck
      <3>4. CASE Backstop(c)
        BY <3>4 DEF Backstop
      <3>5. CASE LockRow(c)
        BY <3>5 DEF LockRow
      <3>6. CASE Apply(c)
        <4>1. req' = req /\ (EndTx(c, "thrown") \/ EndTx(c, "null") \/ Go(c, "insert"))
          BY <3>6 DEF Apply
        <4>2. QED
          BY <4>1
      <3>7. CASE Insert(c)
        BY <3>7 DEF Insert
      <3>8. CASE Return(c)
        BY <3>8 DEF Return
      <3>9. CASE Abort(c)
        BY <3>9 DEF Abort
      <3>10. QED
        BY <1>2, <3>1, <3>2, <3>3, <3>4, <3>5, <3>6, <3>7, <3>8, <3>9 DEF Work
    <2>4. QED
      BY <2>2, <2>3, <1>k DEF RowIsCommitted
  <1>3. QED
    BY <1>1, <1>2

-----------------------------------------------------------------------------

\* IInv holds in every reachable state: the row lock keeps the balance a
\* transaction read valid until it commits, and the unique index lets at most
\* one transaction at a time carry a key that is not on the ledger.
THEOREM Invariance == Spec => []IInv
  <1>1. Init => IInv
    <2> SUFFICES ASSUME Init PROVE IInv
      OBVIOUS
    <2>1. TypeOK
      BY DEF Init, TypeOK, Pcs, Nothing
    <2>2. \A w \in Wallets : Len(journal[w]) = 0 /\ balance[w] = 0
      BY DEF Init
    <2>3. ChainOK /\ OncePerKey
      BY <2>2 DEF ChainOK, OncePerKey, AfterRow
    <2>4. HoldsLock /\ StagedOK /\ RowIsCommitted
      BY DEF Init, HoldsLock, StagedOK, RowIsCommitted, InTx
    <2>5. QED
      BY <2>1, <2>3, <2>4 DEF IInv
  <1>2. IInv /\ [Next]_vars => IInv'
    <2>1. CASE Next
      BY <2>1, TypeStep, LockStep, StagedStep, ChainStep, KeyStep, AnswerStep DEF IInv
    <2>2. CASE UNCHANGED vars
      BY <2>2, QuietBooks
         DEF IInv, vars, booksVars, TypeOK, HoldsLock, StagedOK, RowIsCommitted
    <2>3. QED
      BY <2>1, <2>2
  <1>3. QED
    BY <1>1, <1>2, PTL DEF Spec

\* The balanceAfter chain, one row per key over all wallets, and answers only
\* with committed rows, for every number of concurrent calls of record and
\* resetTo and whatever fails on the way.
THEOREM LedgerSafety == Spec => [](ChainOK /\ OncePerKey /\ RowIsCommitted)
  <1>1. IInv => ChainOK /\ OncePerKey /\ RowIsCommitted
    BY DEF IInv
  <1>2. QED
    BY <1>1, Invariance, PTL

\* record and resetTo, with their fast path, lock, second look, index and
\* retries, implement the ledger that moves money in one step, once per key.
THEOREM LedgerRefinement == Spec => ImplementsPromise
  <1>1. Init => Promise!Init
    <2> SUFFICES ASSUME Init PROVE Promise!Init
      OBVIOUS
    <2>1. \A w \in Wallets : Len(journal[w]) = 0
      BY DEF Init
    <2>2. Recorded = {}
      BY <2>1 DEF Recorded
    <2>3. QED
      BY <2>2 DEF Init, Promise!Init
  <1>2. IInv /\ [Next]_vars => [Promise!Next]_<<balance, Recorded>>
    <2> SUFFICES ASSUME IInv, [Next]_vars
                 PROVE  Promise!Next \/ UNCHANGED <<balance, Recorded>>
      OBVIOUS
    <2>1. CASE UNCHANGED booksVars
      BY <2>1, QuietBooks DEF booksVars
    <2>2. ASSUME NEW c \in Callers, Commit(c) PROVE Promise!Next
      <3>1. TypeOK /\ HoldsLock /\ StagedOK /\ pc[c] = "commit" /\ req[c] \in Requests
        BY <2>2 DEF IInv, HoldsLock, Commit
      <3>2. PICK w \in Wallets : w = req[c].wallet
        BY <3>1, RequestFields
      <3>3. PICK k \in Keys : k = req[c].key
        BY <3>1, RequestFields
      <3>4. k \notin Recorded /\ Recorded' = Recorded \cup {k}
        BY <2>2, <3>1, <3>3, CommitKey DEF StagedOK
      <3>5. balance' = [balance EXCEPT ![w] = staged[c].after]
        BY <2>2, <3>2 DEF Commit
      <3>6. /\ staged[c].after = balance[w] + staged[c].delta
            /\ staged[c].after >= 0 /\ staged[c].delta # 0
            /\ staged[c].after \in Int /\ staged[c].delta \in Int /\ balance[w] \in Int
            /\ balance \in [Wallets -> Int]
        BY <3>1, <3>2 DEF StagedOK, TypeOK
      <3>7. balance'[w] = staged[c].after
        BY <3>5, <3>6
      <3>8. balance'[w] \in Nat \ {balance[w]}
        <4>1. \A a, b, d \in Int : a = b + d /\ a >= 0 /\ d # 0 => a \in Nat /\ a # b
          OBVIOUS
        <4>2. staged[c].after \in Nat /\ staged[c].after # balance[w]
          BY <3>6, <4>1
        <4>3. QED
          BY <3>7, <4>2
      <3>9. Promise!Move(w, k)
        BY <3>4, <3>5, <3>7, <3>8 DEF Promise!Move
      <3>10. QED
        BY <3>9 DEF Promise!Next
    <2>3. QED
      BY <2>1, <2>2 DEF Next, Work, Call, Look, LockRow, Recheck, Apply, Insert, Backstop, Return,
                        Abort, vars, booksVars
  <1>3. QED
    BY <1>1, <1>2, Invariance, PTL DEF Spec, ImplementsPromise, Promise!Spec
=============================================================================
