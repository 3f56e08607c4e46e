-------------------------- MODULE OperatorWallet --------------------------
(***************************************************************************)
(* Money moves at an operator's wallet: SeamlessOperatorWallet             *)
(* (seamless-operator-wallet.ts) over the HTTP client                      *)
(* (http-operator-wallet.ts) and the durable outbox of rollbacks           *)
(* (wallet-rollback.service.ts), for the attempts on ONE bet slot. All     *)
(* attempts share the debit key bet:{round}:{user}:{panel}:debit, which is *)
(* the operator's transactionId; a payout key belongs to its bet.          *)
(*                                                                         *)
(* The operator is external: it dedups a transactionId that stands, undoes *)
(* it on rollback, and takes a rollback of what it never saw as done.      *)
(*                                                                         *)
(* mode, fixed for a behaviour, names the one thing that may happen beyond *)
(* lost answers, operator errors and crashes: "slow" an owner outlives its *)
(* lease, "late" a timed-out bet reaches the operator after its rollback,  *)
(* "rebet" the slot is bet again while a rollback is still owed, "store"   *)
(* the outbox cannot be written.                                           *)
(***************************************************************************)
EXTENDS Naturals, FiniteSets

CONSTANTS
  MaxBets,         \* bound on the attempts on the slot
  Callers,         \* calls in flight: placeBet, cashOut, voidBet
  Sweeper,         \* the leader's sweep, one pass at a time
  MaxRetries,      \* maxRetries of SeamlessOperatorWallet
  MaxFaults        \* bound on timeouts, errors, crashes and expired leases

Modes == {"slow", "late", "rebet", "store"}

Bets == 1 .. MaxBets
NoBet == 0
Procs == Callers \cup {Sweeper}

ASSUME WalletAssumption ==
  /\ MaxBets \in Nat /\ Sweeper \notin Callers /\ MaxRetries \in Nat \ {0} /\ MaxFaults \in Nat

DebitReasons == {"ambiguous_debit", "transient_debit"}
Reasons == DebitReasons \cup {"void_refund", "void_reclaim"}
Keys == Bets \X Reasons          \* dedupeKeyOf

VARIABLES
  mode, faults,
  charge,    \* the bet whose request made the debit key stand, or NoBet
  paid,      \* the bets whose payout stands at the operator
  wire,      \* timed-out bet requests that are still on their way
  bet,       \* per bet: how far our side takes it
  row,       \* wallet_rollbacks, by dedupe key: [status, lease, live]
  proc       \* per call: [pc, b, why, n, drain, seen]; drain: it re-emits a row

vars == <<mode, faults, charge, paid, wire, bet, row, proc>>
operatorVars == <<charge, paid, wire>>

Row(status, lease, live) == [status |-> status, lease |-> lease, live |-> live]
RowType == [status : {"none", "pending", "draining", "confirmed"}, lease : Nat, live : BOOLEAN]
NoRow == Row("none", 0, FALSE)

Call(pc, b, why, n, drain, seen) ==
  [pc |-> pc, b |-> b, why |-> why, n |-> n, drain |-> drain, seen |-> seen]
CallType ==
  [pc : {"idle", "bet", "win", "claim", "insert", "acquire", "emit", "confirm", "failed", "next"},
   b : Bets \cup {NoBet}, why : Reasons \cup {"none"}, n : Nat, drain : BOOLEAN, seen : RowType]
Idle == Call("idle", NoBet, "none", 0, FALSE, NoRow)

BetStates == {"new", "placing", "rejected", "active", "busted", "winning", "won",
              "pending", "voiding", "clawing", "voided"}

TypeOK ==
  /\ mode \in Modes /\ faults \in 0 .. MaxFaults
  /\ charge \in Bets \cup {NoBet} /\ paid \subseteq Bets /\ wire \subseteq Bets
  /\ bet \in [Bets -> BetStates]
  /\ row \in [Keys -> RowType]
  /\ proc \in [Procs -> CallType]

Init ==
  /\ mode \in Modes /\ faults = 0
  /\ charge = NoBet /\ paid = {} /\ wire = {}
  /\ bet = [b \in Bets |-> "new"]
  /\ row = [k \in Keys |-> NoRow]
  /\ proc = [p \in Procs |-> Idle]

Fault == faults < MaxFaults /\ faults' = faults + 1
NoFault == faults' = faults
\* A call starts, goes on under its key, or returns.
Start(p, pc, b, why, n) == proc' = [proc EXCEPT ![p] = Call(pc, b, why, n, FALSE, NoRow)]
Go(p, pc) ==
  proc' = [proc EXCEPT ![p] = Call(pc, @.b, @.why, @.n, @.drain, NoRow)]
End(p) == proc' = [proc EXCEPT ![p] = Idle]
SetBet(b, s) == bet' = [bet EXCEPT ![b] = s]
KeyOf(p) == <<proc[p].b, proc[p].why>>
Owed(k) == row[k].status \in {"pending", "draining"}
\* A call of the bet itself is at work on it, the drain aside.
Busy(b) == \E p \in Procs : proc[p].b = b /\ ~proc[p].drain

(* ------------------------------------------------- the operator, external *)

\* POST bet: a transactionId that stands is answered again, not applied again.
Charged(b) == IF charge = NoBet THEN b ELSE charge
Chargeable(b) == charge' \in {charge, Charged(b)}

\* POST rollback of the transaction behind a dedupe key.
RolledBack(k) ==
  IF k[2] = "void_reclaim" THEN paid' = paid \ {k[1]} /\ UNCHANGED charge
  ELSE charge' = NoBet /\ UNCHANGED paid

\* A request the client gave up on arrives.
Arrives(b) ==
  /\ b \in wire
  /\ charge' = Charged(b) /\ wire' = wire \ {b}
  /\ NoFault /\ UNCHANGED <<mode, paid, bet, row, proc>>

(* ----------------------------------------------------- debit: move("bet") *)

\* The slot is free: no attempt on it is under way or stands. Outside "rebet" the
\* player is slower than the sweep.
SlotFree ==
  /\ \A b \in Bets : bet[b] \in {"new", "rejected"} /\ ~Busy(b)
  /\ mode # "rebet" => \A k \in Keys : ~Owed(k)

Place(p, b) ==
  /\ proc[p] = Idle /\ bet[b] = "new" /\ SlotFree
  /\ \A a \in 1 .. b - 1 : bet[a] # "new"
  /\ SetBet(b, "placing")
  /\ Start(p, "bet", b, "none", 1)
  /\ NoFault /\ UNCHANGED <<mode, operatorVars, row>>

BetOk(p) ==
  /\ proc[p].pc = "bet"
  /\ charge' = Charged(proc[p].b)
  /\ SetBet(proc[p].b, "active") /\ End(p)
  /\ NoFault /\ UNCHANGED <<mode, paid, wire, row>>

\* OperatorInsufficientFunds: a clean rejection.
BetInsufficient(p) ==
  /\ proc[p].pc = "bet" /\ charge = NoBet
  /\ SetBet(proc[p].b, "rejected") /\ End(p)
  /\ NoFault /\ UNCHANGED <<mode, operatorVars, row>>

\* Mutant: a timeout is taken for an accepted bet.
BetTimesOutAccepts(p) ==
  /\ proc[p].pc = "bet"
  /\ Fault
  /\ Chargeable(proc[p].b)
  /\ SetBet(proc[p].b, "active") /\ End(p)
  /\ UNCHANGED <<mode, paid, wire, row>>

\* OperatorTimeout: applied or not; compensate at once.
BetTimesOut(p) ==
  /\ proc[p].pc = "bet"
  /\ Fault
  /\ \/ Chargeable(proc[p].b) /\ UNCHANGED wire
     \/ mode = "late" /\ wire' = wire \cup {proc[p].b} /\ UNCHANGED charge
  /\ Start(p, "claim", proc[p].b, "ambiguous_debit", 0)
  /\ UNCHANGED <<mode, paid, bet, row>>

\* Any other error, applied or not: retry under the same key, then compensate.
BetErrs(p) ==
  /\ proc[p].pc = "bet"
  /\ Fault
  /\ Chargeable(proc[p].b)
  /\ IF proc[p].n < MaxRetries THEN Start(p, "bet", proc[p].b, "none", proc[p].n + 1)
     ELSE Start(p, "claim", proc[p].b, "transient_debit", 0)
  /\ UNCHANGED <<mode, paid, wire, bet, row>>

\* recoverReservingBets: a reservation whose call is gone is rolled back.
Recover(p, b) ==
  /\ proc[p] = Idle /\ bet[b] = "placing" /\ ~Busy(b)
  /\ Start(p, "claim", b, "ambiguous_debit", 0)
  /\ NoFault /\ UNCHANGED <<mode, operatorVars, bet, row>>

(* ---------------------------------------------------- credit: move("win") *)

Win(p, b) ==
  /\ proc[p] = Idle /\ ~Busy(b)
  /\ Start(p, "win", b, "none", 1)
  /\ NoFault /\ UNCHANGED <<mode, operatorVars, row>>
\* The row says cashed_out before the credit is sent.
CashOut(p, b) == bet[b] = "active" /\ SetBet(b, "winning") /\ Win(p, b)

\* reconcilePendingPayouts: a payout that stayed unconfirmed is issued again.
ReconcilePayout(p, b) == bet[b] = "pending" /\ UNCHANGED bet /\ Win(p, b)

WinOk(p) ==
  /\ proc[p].pc = "win"
  /\ paid' = paid \cup {proc[p].b}
  /\ SetBet(proc[p].b, "won") /\ End(p)
  /\ NoFault /\ UNCHANGED <<mode, charge, wire, row>>

\* Any failure, applied or not: retry, then payout_pending, never a rollback.
WinErrs(p) ==
  /\ proc[p].pc = "win"
  /\ Fault
  /\ paid' \in {paid, paid \cup {proc[p].b}}
  /\ IF proc[p].n < MaxRetries
     THEN Start(p, "win", proc[p].b, "none", proc[p].n + 1) /\ UNCHANGED bet
     ELSE End(p) /\ SetBet(proc[p].b, "pending")
  /\ UNCHANGED <<mode, charge, wire, row>>

(* --------------------------------------- reverse: the legs of a void *)

Bust(b) ==
  /\ bet[b] = "active" /\ ~Busy(b)
  /\ SetBet(b, "busted")
  /\ NoFault /\ UNCHANGED <<mode, operatorVars, row, proc>>

\* voidBet claims a settled bet; voidBet again, or reconcileVoidingBets, resumes a
\* void. "clawing" is a void of a bet with a payout: reclaim it, then refund. A void
\* of a cash-out whose credit is in flight is left to Bets.
StartLeg(p, b, leg) == Start(p, "claim", b, leg, 0)

VoidBet(p, b) ==
  /\ proc[p] = Idle /\ bet[b] \in {"busted", "winning", "won"} /\ ~Busy(b)
  /\ SetBet(b, IF bet[b] = "busted" THEN "voiding" ELSE "clawing")
  /\ StartLeg(p, b, IF bet[b] = "busted" THEN "void_refund" ELSE "void_reclaim")
  /\ NoFault /\ UNCHANGED <<mode, operatorVars, row>>

ResumeVoid(p, b) ==
  /\ proc[p] = Idle /\ bet[b] \in {"voiding", "clawing"}
  /\ StartLeg(p, b, IF bet[b] = "clawing" THEN "void_reclaim" ELSE "void_refund")
  /\ NoFault /\ UNCHANGED <<mode, operatorVars, bet, row>>

(* -------------------------------------------------- rollbackOnce, claim *)

\* The lease of a row will be taken over from what the row says now.
Sees(p, k, drain) ==
  proc' = [proc EXCEPT ![p] = Call("acquire", k[1], k[2], 0, drain, row[k])]

\* claim reads the row of the key.
Claim(p) ==
  LET r == row[KeyOf(p)] IN
  /\ proc[p].pc = "claim"
  /\ \/ r.status = "none" /\ Go(p, "insert")
     \/ (r.status = "confirmed" \/ r.live) /\ Go(p, "next")
     \/ Owed(KeyOf(p)) /\ ~r.live /\ Sees(p, KeyOf(p), proc[p].drain)
  /\ NoFault /\ UNCHANGED <<mode, operatorVars, bet, row>>

\* create: unique on the key; the loser leaves the emit to the winner.
Insert(p) ==
  /\ proc[p].pc = "insert"
  /\ IF row[KeyOf(p)] = NoRow
     THEN /\ row' = [row EXCEPT ![KeyOf(p)] = Row("draining", 1, TRUE)]
          /\ Go(p, "emit")
     ELSE UNCHANGED row /\ Go(p, "next")
  /\ NoFault /\ UNCHANGED <<mode, operatorVars, bet>>

\* Mutant: only the status is pinned.
PinnedByStatus(r, seen) == r.status = seen.status

\* acquireLease: the update pins the status, and the lease of a draining row.
Pinned(r, seen) == r.status = seen.status /\ (r.status = "draining" => r.lease = seen.lease)

Acquire(p) ==
  LET k == KeyOf(p) IN
  /\ proc[p].pc = "acquire"
  /\ IF Pinned(row[k], proc[p].seen)
     THEN /\ row' = [row EXCEPT ![k] = Row("draining", @.lease + 1, TRUE)]
          /\ Go(p, "emit")
     ELSE UNCHANGED row /\ Go(p, "next")
  /\ NoFault /\ UNCHANGED <<mode, operatorVars, bet>>

\* The outbox cannot be read or written: emit all the same; the drain skips the row.
ClaimErrs(p) ==
  /\ mode = "store" /\ proc[p].pc \in {"claim", "insert", "acquire"}
  /\ Fault
  /\ IF proc[p].drain THEN End(p) ELSE Go(p, "emit")
  /\ UNCHANGED <<mode, operatorVars, bet, row>>

EmitOk(p) ==
  /\ proc[p].pc = "emit"
  /\ RolledBack(KeyOf(p)) /\ UNCHANGED wire
  /\ Go(p, "confirm")
  /\ NoFault /\ UNCHANGED <<mode, bet, row>>

\* Mutant: the answer of the rollback call is not looked at.
EmitErrsIgnored(p) ==
  /\ proc[p].pc = "emit"
  /\ Fault
  /\ RolledBack(KeyOf(p)) \/ UNCHANGED <<charge, paid>>
  /\ Go(p, "confirm")
  /\ UNCHANGED <<mode, wire, bet, row>>

\* The rollback call fails, applied or not.
EmitErrs(p) ==
  /\ proc[p].pc = "emit"
  /\ Fault
  /\ RolledBack(KeyOf(p)) \/ UNCHANGED <<charge, paid>>
  /\ Go(p, "failed")
  /\ UNCHANGED <<mode, wire, bet, row>>

\* confirm and recordEmitFailure write by key, whoever holds the lease, and touch
\* nothing when there is no row.
Mark(k, status) ==
  row' = [row EXCEPT ![k] = IF @ = NoRow THEN @ ELSE Row(status, @.lease, FALSE)]

Confirm(p) ==
  /\ proc[p].pc = "confirm"
  /\ Mark(KeyOf(p), "confirmed") /\ Go(p, "next")
  /\ NoFault /\ UNCHANGED <<mode, operatorVars, bet>>

\* The compensation of a debit swallows the failure; the drain and a void stop.
Propagate(p) == IF bet[proc[p].b] = "placing" THEN Go(p, "next") ELSE End(p)

\* Mutant: a failed emit closes its row.
RecordEmitFailureCloses(p) ==
  /\ proc[p].pc = "failed"
  /\ Mark(KeyOf(p), "confirmed")
  /\ Propagate(p)
  /\ NoFault /\ UNCHANGED <<mode, operatorVars, bet>>

RecordEmitFailure(p) ==
  /\ proc[p].pc = "failed"
  /\ Mark(KeyOf(p), "pending")
  /\ Propagate(p)
  /\ NoFault /\ UNCHANGED <<mode, operatorVars, bet>>

\* Either write fails: the row keeps its lease until that runs out.
MarkErrs(p) ==
  /\ mode = "store" /\ proc[p].pc \in {"confirm", "failed"}
  /\ Fault
  /\ IF proc[p].pc = "confirm" THEN Go(p, "next") ELSE Propagate(p)
  /\ UNCHANGED <<mode, operatorVars, bet, row>>

\* rollbackOnce returns to its caller: the bet is rejected, the void goes on to
\* its next leg or is finalised, the drain is done with the row.
Return(p) ==
  LET b == proc[p].b IN
  /\ proc[p].pc = "next"
  /\ \/ proc[p].drain /\ UNCHANGED bet /\ End(p)
     \/ /\ ~proc[p].drain /\ proc[p].why = "void_reclaim"
        /\ UNCHANGED bet /\ StartLeg(p, b, "void_refund")
     \/ ~proc[p].drain /\ proc[p].why = "void_refund" /\ SetBet(b, "voided") /\ End(p)
     \/ ~proc[p].drain /\ proc[p].why \in DebitReasons /\ SetBet(b, "rejected") /\ End(p)
  /\ NoFault /\ UNCHANGED <<mode, operatorVars, row>>

(* ------------------------------------------------------------- the drain *)

\* Mutant: rows whose owner died stay in draining.
DrainPendingOnly(p, k) ==
  /\ proc[p] = Idle /\ row[k].status = "pending"
  /\ Sees(p, k, TRUE)
  /\ NoFault /\ UNCHANGED <<mode, operatorVars, bet, row>>

\* drainPending: one pass at a time takes the rows that are owed and not leased.
Drain(p, k) ==
  /\ proc[p] = Idle /\ Owed(k) /\ ~row[k].live
  /\ Sees(p, k, TRUE)
  /\ NoFault /\ UNCHANGED <<mode, operatorVars, bet, row>>

\* DRAIN_LEASE_MS passes. Outside "slow" no owner is still at work by then.
Expire(k) ==
  /\ row[k].status = "draining" /\ row[k].live
  /\ \/ \A p \in Procs : KeyOf(p) = k => proc[p].pc \notin {"emit", "confirm", "failed"}
     \/ mode = "slow"
  /\ row' = [row EXCEPT ![k] = Row("draining", @.lease, FALSE)]
  /\ NoFault /\ UNCHANGED <<mode, operatorVars, bet, proc>>

\* The process of a call dies; the rows and the operator keep what they have. A
\* cash-out that dies leaves its row cashed_out, paid or not.
Die(p) ==
  /\ proc[p] # Idle
  /\ Fault
  /\ End(p)
  /\ UNCHANGED <<mode, operatorVars, bet, row>>

(* --------------------------------------------------------- specification *)

Step(p) ==
  \/ BetOk(p) \/ BetInsufficient(p) \/ WinOk(p)
  \/ Claim(p) \/ Insert(p) \/ Acquire(p) \/ EmitOk(p)
  \/ Confirm(p) \/ RecordEmitFailure(p) \/ Return(p)
Sweep ==
  \/ \E b \in Bets : \/ Recover(Sweeper, b) \/ ResumeVoid(Sweeper, b)
                     \/ ReconcilePayout(Sweeper, b)
  \/ \E k \in Keys : Drain(Sweeper, k)
Request(p) ==
  \E b \in Bets : \/ Place(p, b) \/ VoidBet(p, b) \/ ResumeVoid(p, b)
                 \/ CashOut(p, b)
Errs(p) ==
  \/ BetTimesOut(p) \/ BetErrs(p) \/ WinErrs(p)
  \/ ClaimErrs(p) \/ EmitErrs(p) \/ MarkErrs(p) \/ Die(p)

Next ==
  \/ \E p \in Procs : Step(p) \/ Errs(p)
  \/ \E p \in Callers : Request(p)
  \/ Sweep
  \/ \E b \in Bets : Bust(b) \/ Arrives(b)
  \/ \E k \in Keys : Expire(k)

Spec == Init /\ [][Next]_vars

\* Calls return, leases run out, and the leader's sweep keeps running; requests
\* and faults need not come.
Fairness ==
  /\ \A p \in Procs : WF_vars(Step(p))
  /\ WF_vars(Sweep) /\ WF_vars(\E k \in Keys : Expire(k))
FairSpec == Spec /\ Fairness

(* ------------------------------------------------------------ properties *)

\* The bet that the operator's statement does not carry is played for free. A
\* rollback, however late or repeated, never undoes the debit of a bet in play,
\* as long as the slot is not bet again before the rollback is confirmed.
LiveBetIsCharged ==
  mode \notin {"rebet", "slow"} => \A b \in Bets :
    bet[b] \in {"active", "busted", "winning", "won", "pending"} => charge # NoBet

\* "the owed reversal is durable, never lost": a charge that a rejected bet left at
\* the operator is a row the drain will find.
OwedIsRecorded ==
  mode \notin {"late", "store"} => \A b \in Bets :
    bet[b] = "rejected" /\ charge = b => \E why \in Reasons : Owed(<<b, why>>)

\* A row is confirmed only when the operator has undone its transaction, also
\* when two drivers worked on it and finished in the wrong order; a driver that is
\* about to confirm finds it undone.
Applied(k) == IF k[2] = "void_reclaim" THEN k[1] \notin paid ELSE charge # k[1]
ConfirmedIsApplied ==
  mode # "late" =>
    /\ wire = {}
    /\ \A k \in Keys : row[k].status = "confirmed" => Applied(k)
    /\ \A p \in Procs : proc[p].pc = "confirm" => Applied(KeyOf(p))

\* The claim and the lease: a live void and the drain never both send the same
\* reversal, which an operator that does not dedup would apply twice.
OneEmitter ==
  mode \notin {"slow", "store"} => \A k \in Keys :
    Cardinality({p \in Procs : proc[p].pc = "emit" /\ KeyOf(p) = k}) <= 1

\* A payout we call paid stands at the operator: no rollback claws it back.
WonIsPaid == \A b \in Bets : bet[b] = "won" => b \in paid

\* The states a bet can be in when a reversal of it is owed or was.
Reversible(why) ==
  IF why \in DebitReasons THEN {"placing", "rejected"}
  ELSE IF why = "void_refund" THEN {"voiding", "clawing", "voided"} ELSE {"clawing", "voided"}

\* A row is a reversal that the state of its bet calls for, and its lease is live only
\* while somebody drains it.
RowsFit ==
  \A k \in Keys :
    /\ row[k].status # "none" => bet[k[1]] \in Reversible(k[2])
    /\ row[k].status = "none" => row[k] = NoRow
    /\ row[k].live => row[k].status = "draining"

\* So is a call: it debits a bet that has no row yet, pays one that is cashed out, or
\* reverses one that is being taken back. Only the sweep drains, and only rows.
CallFits(p) ==
  LET c == proc[p] IN
  /\ c.pc = "idle" => c = Idle
  /\ c.pc # "idle" => c.b \in Bets
  /\ c.pc = "bet" => bet[c.b] = "placing" /\ ~c.drain /\ \A w \in Reasons : row[<<c.b, w>>].status = "none"
  /\ c.pc = "win" => bet[c.b] \in {"winning", "pending"} /\ ~c.drain
  /\ c.pc \notin {"idle", "bet", "win"} => c.why \in Reasons
  /\ c.why \in Reasons /\ ~c.drain =>
       bet[c.b] \in IF c.why \in DebitReasons THEN {"placing"} ELSE Reversible(c.why)
  /\ c.drain => p = Sweeper /\ c.pc \notin {"claim", "insert"} /\ row[KeyOf(p)].status # "none"
CallsFit == \A p \in Procs : CallFits(p)

\* One call works on a bet, voids aside, and one bet at most takes the slot.
OneCallPerBet ==
  \A p, q \in Procs :
    p # q /\ proc[p].b = proc[q].b /\ proc[p].b # NoBet /\ ~proc[p].drain /\ ~proc[q].drain
      => bet[proc[p].b] \in {"voiding", "clawing", "voided"}
OneBetPerSlot ==
  \A a, b \in Bets : bet[a] \notin {"new", "rejected"} /\ bet[b] \notin {"new", "rejected"} => a = b

\* A call that is past its claim has a row, unless the outbox could not be written;
\* so has a bet that was rejected while its charge stands, late arrivals aside.
RowsAreKept ==
  mode # "store" =>
    /\ \A p \in Procs : proc[p].pc \in {"emit", "confirm", "failed", "next"} =>
         row[KeyOf(p)].status # "none"
    /\ mode # "late" => \A b \in Bets :
         bet[b] = "rejected" /\ charge = b => \E why \in Reasons : row[<<b, why>>].status # "none"

\* A lease that was taken since a driver read its row has a higher number, and the
\* driver at work on a key holds its lease, alone.
Working(p) == proc[p].pc \in {"emit", "confirm", "failed"}
Leased(k) == row[k].status = "draining" /\ row[k].live
LeasesExclude ==
  /\ \A p \in Procs : proc[p].pc = "acquire" =>
       LET r == row[KeyOf(p)]
           seen == proc[p].seen
       IN  /\ r.status # "none" /\ seen.status \in {"pending", "draining"}
           /\ seen.lease <= r.lease /\ (r.live => seen.lease < r.lease)
  /\ mode \notin {"slow", "store"} =>
       /\ \A p \in Procs : Working(p) => Leased(KeyOf(p))
       /\ \A p, q \in Procs : Working(p) /\ Working(q) /\ KeyOf(p) = KeyOf(q) => p = q

\* With or without an outbox, the call that placed a bet compensates it alone until it
\* returns, under the one row it wrote, and the sweep drains a debit under a lease.
CompensatesAlone(p) ==
  /\ proc[p].pc # "acquire"
  /\ \A w \in Reasons : row[<<proc[p].b, w>>].status # "none" =>
       w = proc[p].why /\ Leased(KeyOf(p)) /\ Working(p)
  /\ proc[Sweeper].drain => proc[Sweeper].b # proc[p].b
DebitsExclude ==
  mode # "slow" =>
    /\ \A p \in Callers : proc[p].why \in DebitReasons /\ proc[p].pc # "next" => CompensatesAlone(p)
    /\ proc[Sweeper].drain /\ proc[Sweeper].why \in DebitReasons /\ Working(Sweeper) =>
         Leased(KeyOf(Sweeper))

\* While a bet takes the slot, nothing is owed on another one and nobody reverses it.
SlotIsQuiet ==
  mode \notin {"rebet", "slow"} =>
    \A a, b \in Bets : a # b /\ bet[b] \notin {"new", "rejected"} =>
      /\ \A w \in Reasons : ~Owed(<<a, w>>)
      /\ \A p \in Procs : Working(p) => proc[p].b # a

\* The invariant of the outbox and the operator's statement: a closed row is an applied
\* one, a payout we call paid stands, and what keeps them so.
OutboxInv ==
  /\ TypeOK /\ ConfirmedIsApplied /\ WonIsPaid /\ LiveBetIsCharged
  /\ RowsFit /\ CallsFit /\ OneCallPerBet /\ OneBetPerSlot /\ RowsAreKept
  /\ LeasesExclude /\ DebitsExclude /\ SlotIsQuiet

\* Every rejected bet gets its stake back, and every void ends with neither stake
\* nor payout standing, and every payout the operator did not
\* confirm is paid in the end, through failed calls, crashes and abandoned leases.
EventuallySquare ==
  \A b \in Bets :
    /\ mode \notin {"late", "store"} /\ bet[b] = "rejected" /\ charge = b ~> charge # b
    /\ mode # "late" /\ bet[b] \in {"voiding", "clawing"} ~>
         bet[b] = "voided" /\ charge # b /\ b \notin paid
    /\ bet[b] = "pending" ~> b \in paid
===========================================================================
