-------------------------------- MODULE Risk --------------------------------
(***************************************************************************)
(* The limits a bet passes and what is left of them at the end: the stake  *)
(* window, the exposure of a round per currency, and the wager and loss    *)
(* caps of a session (risk.service.ts, bet-limits.ts, rg-config.ts and     *)
(* placeBet of bets.service.ts). The checks and the insert of the slot run *)
(* under the advisory lock of the round, in READ COMMITTED: each statement *)
(* of the transaction sees what is committed when it runs. The debit runs  *)
(* after the lock, and everything else that moves a bet runs without it:   *)
(* a status is claimed in one step and the wallet pays in a later one, so  *)
(* that a row also says which of its entries the wallet has (charged,      *)
(* refunded, paid, clawed) and what became of the handler that claimed it. *)
(* How these handlers race for a row is module Bets; here what matters is  *)
(* the amounts.                                                            *)
(***************************************************************************)
EXTENDS Payout, FiniteSets, Functions

CONSTANTS
  Wallets, Panels, Seats,
  Stakes,              \* stakes a player asks for
  Multipliers,         \* where a player cashes out, in hundredths
  Hashes,              \* what the hash of a round may be, in 0..Entropy - 1
  MinBet, MaxBet,      \* RISK_MIN_BET, RISK_MAX_BET
  Setups,              \* currencies, limits and caps of the wallets (see SetupType)
  MaxRound, MaxBets,   \* bounds: rounds, and bets ever placed
  MaxCalls,            \* bound: placeBet calls in flight at once
  MaxMoves             \* bound: rows whose money is on its way, or was left behind, at once

VARIABLES
  setup,               \* what the play tokens of the wallets carry
  round, phase, crash, \* the round the engine shows
  bets,                \* the Bet rows, by id: ids grow with createdAt
  lastId,
  calls,               \* one placeBet per seat
  late,                \* a bet of this round took its slot after betting had closed
  straddled,           \* wallets that took a slot while a bet of theirs of another round was in flight
  reclaimed            \* wallets one of whose wins was voided

vars == <<setup, round, phase, crash, bets, lastId, calls, late, straddled, reclaimed>>

Statuses == {"reserving", "active", "cancelling", "cancelled", "cashed_out", "payout_pending", "busted",
             "voiding", "voided"}
WageredStatuses == {"active", "cashed_out", "busted", "payout_pending"}
WonStatuses == {"cashed_out", "payout_pending"}

\* computeCrash: a round is drawn by its hash.
Crashes == {CrashCents(h) : h \in Hashes}

Idle == [pc |-> "idle", round |-> 0, amount |-> 0, reserved |-> 0, bet |-> 0]

\* An optional value is a set with at most one element.
IsOptional(x) == \A a, b \in x : a = b

\* EffectiveBetLimits and EffectiveRg, as effectiveLimitsFor and effectiveRgFor resolve
\* them for the currency of the wallet: limits is empty when the operator configured none
\* for it, and so is each cap.
Limits == [minBet : Nat, maxBet : Nat, maxWinPerBet : Nat]
SetupType(s) ==
  /\ DOMAIN s = Wallets
  /\ \A w \in Wallets :
       /\ IsOptional(s[w].limits) /\ IsOptional(s[w].wager) /\ IsOptional(s[w].loss)
       /\ \A l \in s[w].limits : l \in Limits /\ l.minBet <= l.maxBet /\ l.maxBet <= l.maxWinPerBet
       /\ s[w].wager \cup s[w].loss \subseteq Nat \ {0}

ASSUME RiskAssumption ==
  /\ IsFiniteSet(Seats) /\ Seats \subseteq Wallets \X Panels
  /\ Stakes \subseteq Nat /\ Multipliers \subseteq Nat /\ Hashes \subseteq 0..Entropy - 1
  /\ MinBet \in Nat /\ MaxBet \in Nat /\ MaxRound \in Nat \ {0} /\ MaxBets \in Nat
  /\ MaxCalls \in Nat /\ MaxMoves \in Nat
  /\ \A s \in Setups : SetupType(s)

CallType == [pc : {"idle", "lock", "reserve", "debit", "activate"}, round : 0..MaxRound,
             amount : Nat, reserved : Nat, bet : Nat]
RowType == [round : 1..MaxRound, wallet : Wallets, panel : Panels, status : Statuses,
            amount : Nat, cap : Nat, payout : Nat,
            charged : BOOLEAN, refunded : BOOLEAN, paid : BOOLEAN, clawed : BOOLEAN,
            claim : {"none", "open", "lost"}]

TypeOK ==
  /\ setup \in Setups
  /\ round \in 1..MaxRound /\ phase \in {"betting", "running", "settled"} /\ crash \in Crashes
  /\ lastId \in 0..MaxBets
  /\ DOMAIN bets \subseteq 1..lastId /\ bets \in [DOMAIN bets -> RowType]
  /\ calls \in [Seats -> CallType]
  /\ late \in BOOLEAN /\ straddled \subseteq Wallets /\ reclaimed \subseteq Wallets

Init ==
  /\ setup \in Setups
  /\ round = 1 /\ phase = "betting" /\ crash \in Crashes
  /\ bets = <<>> /\ lastId = 0
  /\ calls = [s \in Seats |-> Idle]
  /\ late = FALSE /\ straddled = {} /\ reclaimed = {}

(* --------------------------------------------------------------- queries *)

\* Rows of a wallet, and of a round, in some statuses.
OfWallet(w, S) == {i \in DOMAIN bets : bets[i].wallet = w /\ bets[i].status \in S}
OfRound(rd, S) == {i \in DOMAIN bets : bets[i].round = rd /\ bets[i].status \in S}
InCurrency(ids, c) == {i \in ids : setup[bets[i].wallet].currency = c}

\* aggregate: a column, and its sum over some rows.
Stake == [i \in DOMAIN bets |-> bets[i].amount]
Win == [i \in DOMAIN bets |-> bets[i].payout]
WorstCase == [i \in DOMAIN bets |-> PotentialPayout(bets[i].amount)]
SumOf(ids, column) == SumFunctionOnSet(column, ids)

\* checkBetAmount: the window of the operator replaces the one of the house.
CheckBetAmount(w, amount) ==
  IF setup[w].limits = {} THEN amount \in MinBet..MaxBet
  ELSE \E l \in setup[w].limits : amount \in l.minBet..l.maxBet

\* Mutant: only the bets already charged count.
RoundBetsActive(rd) == OfRound(rd, {"active"})

\* roundBets: the read under the lock that both checks use.
RoundBets(rd) == OfRound(rd, {"active", "reserving"})

\* currentExposure: the worst case of the bets in the currency of the wallet.
CurrentExposure(rd, w) == SumOf(InCurrency(RoundBets(rd), setup[w].currency), WorstCase)

\* sessionAccounting, of one session per wallet.
SessionAccounting(w) ==
  LET wagered == SumOf(OfWallet(w, WageredStatuses), Stake)
      won == SumOf(OfWallet(w, WonStatuses), Win)
  IN  [wagered |-> wagered, won |-> won, net |-> wagered - won]

\* The wager and loss cap of the session; both boundaries are inclusive.
CapsAllow(w, reserved, amount) ==
  LET acc == SessionAccounting(w)
  IN  /\ \A cap \in setup[w].wager : acc.wagered + reserved + amount <= cap
      /\ \A cap \in setup[w].loss  : acc.net + reserved + amount <= cap

Holder(rd) == {s \in Seats : calls[s].pc = "reserve" /\ calls[s].round = rd}
Slot(rd, s) == {i \in DOMAIN bets : bets[i].round = rd /\ bets[i].wallet = s[1] /\ bets[i].panel = s[2]}
Asking == {s \in Seats : calls[s].pc \in {"lock", "reserve"}}
Owned == {calls[s].bet : s \in Seats}

\* Calls in flight, and rows that a handler has claimed or left behind or that a sweep selects.
Busy == {s \in Seats : calls[s].pc # "idle"}
Underway ==
  {i \in DOMAIN bets : \/ bets[i].status = "reserving" /\ i \notin Owned
                       \/ bets[i].claim # "none"
                       \/ bets[i].status \in {"cancelling", "payout_pending", "voiding"}}
MayClaim(i) == Cardinality(Underway \ {i}) < MaxMoves

(* -------------------------------------------------------------- placeBet *)

EngineIdle == UNCHANGED <<setup, round, phase, crash>>
NoRows == UNCHANGED <<bets, lastId, late, straddled, reclaimed>>
Goto(s, pc) == calls' = [calls EXCEPT ![s].pc = pc]
Return(s) == calls' = [calls EXCEPT ![s] = Idle]

\* The checks before the transaction: the phase, the stake and the slot.
PlaceBet(s, amount) ==
  /\ calls[s].pc = "idle" /\ phase = "betting"
  /\ lastId + Cardinality(Asking) < MaxBets /\ Cardinality(Busy) < MaxCalls
  /\ CheckBetAmount(s[1], amount)
  /\ \A i \in Slot(round, s) : bets[i].status = "reserving"
  /\ calls' = [calls EXCEPT ![s] = [Idle EXCEPT !.pc = "lock", !.round = round, !.amount = amount]]
  /\ EngineIdle /\ NoRows

\* pg_advisory_xact_lock: held until the transaction ends.
Unlocked(rd) == Holder(rd) = {}

\* The lock, the read of roundBets, and the exposure check.
LockAndRead(s) ==
  LET c == calls[s]
      reserved == SumOf({i \in RoundBets(c.round) : bets[i].wallet = s[1] /\ bets[i].status = "reserving"},
                        Stake)
  IN  /\ c.pc = "lock" /\ Unlocked(c.round)
      /\ ExposureOk(CurrentExposure(c.round, s[1]), c.amount)
      /\ calls' = [calls EXCEPT ![s].pc = "reserve", ![s].reserved = reserved]
      /\ EngineIdle /\ NoRows

OverExposed(s) ==
  /\ calls[s].pc = "lock" /\ Unlocked(calls[s].round)
  /\ ~ ExposureOk(CurrentExposure(calls[s].round, s[1]), calls[s].amount)
  /\ Return(s) /\ EngineIdle /\ NoRows

NewRow(s) ==
  LET c == calls[s]
  IN  [round |-> c.round, wallet |-> s[1], panel |-> s[2], status |-> "reserving", amount |-> c.amount,
       cap |-> IF setup[s[1]].limits = {} THEN MaxWinPerBet
               ELSE (CHOOSE l \in setup[s[1]].limits : TRUE).maxWinPerBet,
       payout |-> 0, charged |-> FALSE, refunded |-> FALSE, paid |-> FALSE, clawed |-> FALSE, claim |-> "none"]

\* A bet of the wallet in another round is still on its way.
Straddles(s) ==
  \/ \E i \in OfWallet(s[1], {"reserving"}) : bets[i].round # calls[s].round
  \/ \E o \in Seats : o[1] = s[1] /\ calls[o].pc # "idle" /\ calls[o].round # calls[s].round

\* The session caps, the insert and the commit.
Reserve(s) ==
  LET c == calls[s]
  IN  /\ c.pc = "reserve"
      /\ CapsAllow(s[1], c.reserved, c.amount)
      /\ Slot(c.round, s) = {}
      /\ lastId' = lastId + 1
      /\ bets' = [i \in DOMAIN bets \cup {lastId'} |-> IF i = lastId' THEN NewRow(s) ELSE bets[i]]
      /\ calls' = [calls EXCEPT ![s].pc = "debit", ![s].bet = lastId']
      /\ late' = (late \/ c.round # round \/ phase # "betting")
      /\ straddled' = straddled \cup (IF Straddles(s) THEN {s[1]} ELSE {})
      /\ EngineIdle /\ UNCHANGED reclaimed

\* session_wager_limit, session_loss_limit, or already_bet (P2002).
Rejected(s) ==
  /\ calls[s].pc = "reserve"
  /\ ~ CapsAllow(s[1], calls[s].reserved, calls[s].amount) \/ Slot(calls[s].round, s) # {}
  /\ Return(s) /\ EngineIdle /\ NoRows

SetRow(i, row) == bets' = [bets EXCEPT ![i] = row]

Debit(s) ==
  /\ calls[s].pc = "debit"
  /\ Goto(s, "activate")
  /\ SetRow(calls[s].bet, [bets[calls[s].bet] EXCEPT !.charged = TRUE])
  /\ EngineIdle /\ UNCHANGED <<lastId, late, straddled, reclaimed>>

Without(ids) == [i \in DOMAIN bets \ ids |-> bets[i]]

\* insufficient_balance or bet_failed: the slot is deleted.
DebitFails(s) ==
  /\ calls[s].pc = "debit"
  /\ bets' = Without({calls[s].bet})
  /\ Return(s) /\ EngineIdle /\ UNCHANGED <<lastId, late, straddled, reclaimed>>

\* A compare-and-swap on 'reserving'. Nothing else moves a row whose call is alive.
Activate(s) ==
  /\ calls[s].pc = "activate"
  /\ SetRow(calls[s].bet, [bets[calls[s].bet] EXCEPT !.status = "active"])
  /\ Return(s) /\ EngineIdle /\ UNCHANGED <<lastId, late, straddled, reclaimed>>

\* The process dies and leaves the slot behind.
Dies(s) ==
  /\ calls[s].pc \in {"debit", "activate"} /\ MayClaim(calls[s].bet)
  /\ Return(s) /\ EngineIdle /\ NoRows

(* ------------------------------------------------- what else moves a bet *)

Moves == UNCHANGED <<setup, round, phase, crash, lastId, calls, late, straddled>>
Pays(i, row) == SetRow(i, row) /\ Moves /\ UNCHANGED reclaimed

\* recoverReservingBets: the slot of a call that died is claimed, refunded if it was
\* charged, and cancelled or else dropped.
RecoverClaim(i) ==
  /\ bets[i].status = "reserving" /\ i \notin Owned /\ MayClaim(i)
  /\ Pays(i, [bets[i] EXCEPT !.status = "cancelling"])

RecoverRefund(i) ==
  /\ bets[i].status = "cancelling" /\ bets[i].charged /\ ~ bets[i].refunded
  /\ Pays(i, [bets[i] EXCEPT !.refunded = TRUE])

RecoverFinish(i) ==
  /\ bets[i].status = "cancelling" /\ (bets[i].charged => bets[i].refunded)
  /\ bets' = IF bets[i].charged THEN [bets EXCEPT ![i].status = "cancelled"] ELSE Without({i})
  /\ Moves /\ UNCHANGED reclaimed

\* cancelBet: the claim, and the refund of who won it.
CancelClaim(i) ==
  /\ phase = "betting" /\ bets[i].round = round /\ bets[i].status = "active" /\ MayClaim(i)
  /\ Pays(i, [bets[i] EXCEPT !.status = "cancelled", !.claim = "open"])

CancelCredit(i) ==
  /\ bets[i].status = "cancelled" /\ bets[i].claim = "open"
  /\ Pays(i, [bets[i] EXCEPT !.refunded = TRUE, !.claim = "none"])

\* cashOut: the claim with the payout of the multiplier it is given, and the credit.
CashOutClaim(i, m) ==
  /\ phase = "running" /\ bets[i].round = round /\ bets[i].status = "active"
  /\ m < crash /\ MayClaim(i)
  /\ Pays(i, [bets[i] EXCEPT !.status = "cashed_out", !.claim = "open",
                             !.payout = CapPayout(FloorPayout(bets[i].amount, m), bets[i].cap)])

CashOutCredit(i) ==
  /\ bets[i].status = "cashed_out" /\ bets[i].claim = "open"
  /\ Pays(i, [bets[i] EXCEPT !.paid = TRUE, !.claim = "none"])

\* The credit throws; the operator may have applied it.
CashOutParks(i, applied) ==
  /\ bets[i].status = "cashed_out" /\ bets[i].claim = "open"
  /\ Pays(i, [bets[i] EXCEPT !.status = "payout_pending", !.paid = applied, !.claim = "none"])

\* The handler dies before its credit, or cancelBet's credit throws: no sweep selects the row.
ClaimLost(i) ==
  /\ bets[i].claim = "open"
  /\ Pays(i, [bets[i] EXCEPT !.claim = "lost"])

\* reconcilePendingPayouts: the credit by the same key, and the row.
RepayCredit(i) ==
  /\ bets[i].status = "payout_pending" /\ ~ bets[i].paid
  /\ Pays(i, [bets[i] EXCEPT !.paid = TRUE])

\* Mutant: the row is written whether or not the credit was applied.
RepayFinishUnpaid(i) ==
  /\ bets[i].status = "payout_pending"
  /\ Pays(i, [bets[i] EXCEPT !.status = "cashed_out"])

RepayFinish(i) ==
  /\ bets[i].status = "payout_pending" /\ bets[i].paid
  /\ Pays(i, [bets[i] EXCEPT !.status = "cashed_out"])

\* voidBet, and reconcileVoidingBets for one that was interrupted: the claim, the payout
\* reclaimed, the stake refunded, and the row. A win is voided after its cash-out ended
\* (the race of the two is void_race of Bets).
VoidClaim(i) ==
  /\ bets[i].status \in {"cashed_out", "busted"} /\ bets[i].claim # "open" /\ MayClaim(i)
  /\ SetRow(i, [bets[i] EXCEPT !.status = "voiding"])
  /\ reclaimed' = reclaimed \cup (IF bets[i].status = "cashed_out" THEN {bets[i].wallet} ELSE {})
  /\ Moves

\* The ledger reverses by the reverse key alone, also a payout that was never credited.
VoidReclaim(i) ==
  /\ bets[i].status = "voiding" /\ bets[i].payout > 0 /\ ~ bets[i].clawed
  /\ Pays(i, [bets[i] EXCEPT !.clawed = TRUE])

VoidRefund(i) ==
  /\ bets[i].status = "voiding" /\ (bets[i].payout > 0 => bets[i].clawed) /\ ~ bets[i].refunded
  /\ Pays(i, [bets[i] EXCEPT !.refunded = TRUE])

VoidFinish(i) ==
  /\ bets[i].status = "voiding" /\ bets[i].refunded
  /\ Pays(i, [bets[i] EXCEPT !.status = "voided"])

(* ------------------------------------------------------------ the engine *)

EnterRunning ==
  /\ phase = "betting" /\ phase' = "running"
  /\ UNCHANGED <<setup, round, crash, bets, lastId, calls, late, straddled, reclaimed>>

\* settleRound
SettleRound ==
  /\ phase = "running" /\ phase' = "settled"
  /\ bets' = [i \in DOMAIN bets |->
                IF bets[i].round = round /\ bets[i].status = "active" THEN [bets[i] EXCEPT !.status = "busted"]
                ELSE bets[i]]
  /\ UNCHANGED <<setup, round, crash, lastId, calls, late, straddled, reclaimed>>

NextRound ==
  /\ phase = "settled" /\ round < MaxRound
  /\ phase' = "betting" /\ round' = round + 1 /\ crash' \in Crashes /\ late' = FALSE
  /\ UNCHANGED <<setup, bets, lastId, calls, straddled, reclaimed>>

Next ==
  \/ \E s \in Seats : \/ \E amount \in Stakes : PlaceBet(s, amount)
                      \/ LockAndRead(s) \/ OverExposed(s) \/ Reserve(s) \/ Rejected(s)
                      \/ Debit(s) \/ DebitFails(s) \/ Activate(s) \/ Dies(s)
  \/ \E i \in DOMAIN bets : \/ RecoverClaim(i) \/ RecoverRefund(i) \/ RecoverFinish(i)
                            \/ CancelClaim(i) \/ CancelCredit(i) \/ ClaimLost(i)
                            \/ \E m \in Multipliers : CashOutClaim(i, m)
                            \/ CashOutCredit(i) \/ \E applied \in BOOLEAN : CashOutParks(i, applied)
                            \/ RepayCredit(i) \/ RepayFinish(i)
                            \/ VoidClaim(i) \/ VoidReclaim(i) \/ VoidRefund(i) \/ VoidFinish(i)
  \/ EnterRunning \/ SettleRound \/ NextRound

Spec == Init /\ [][Next]_vars

(* ------------------------------------------------------------ properties *)

PaidOut(c) == SumOf(InCurrency(OfRound(round, WonStatuses), c), Win)

\* The circuit breaker of risk.service.ts: what a round pays in one currency stays within
\* RISK_MAX_ROUND_EXPOSURE, over all the bets that took a slot before betting closed, as long
\* as the round crashes within RISK_MAX_MULTIPLIER.
ExposureCapped ==
  ~ late /\ crash <= 100 * MaxMultiplier =>
    \A w \in Wallets : PaidOut(setup[w].currency) <= MaxRoundExposure

\* The same for every bet: "no single round can owe more than a configured cap".
RoundNeverOwesMore ==
  crash <= 100 * MaxMultiplier =>
    \A w \in Wallets : PaidOut(setup[w].currency) <= MaxRoundExposure

\* The hard caps of placeBet: the charged stakes of a session stay within its wager cap, and
\* its net loss within its loss cap, unless bets of two rounds were in flight at once (and,
\* for the loss, no win was voided).
WithinCaps(w) ==
  LET acc == SessionAccounting(w)
  IN  /\ \A cap \in setup[w].wager : acc.wagered <= cap
      /\ w \notin reclaimed => \A cap \in setup[w].loss : acc.net <= cap
SessionCapsHold == \A w \in Wallets \ straddled : WithinCaps(w)

\* The comment of placeBet, "All of a session's concurrent bets are on THIS round", taken at
\* its word: the caps of every session.
CapsHoldOverRounds == \A w \in Wallets : WithinCaps(w)

(* ------------------------------------------------ what keeps the limits *)

\* Each call that has no slot yet can still get a number.
NumbersLeft == lastId + Cardinality(Asking) <= MaxBets

\* The lock of a round has one holder, and a call is of a round that has begun.
LockExcludes ==
  /\ \A s \in Seats : calls[s].pc # "idle" => calls[s].round \in 1..round
  /\ \A s, o \in Seats :
       calls[s].pc = "reserve" /\ calls[o].pc = "reserve" /\ calls[s].round = calls[o].round => s = o

\* A call that goes on to debit and activate owns a reserving row of its wallet alone, and
\* activates only what it has charged.
SlotsAreOwned ==
  /\ \A s \in Seats :
       IF calls[s].pc \in {"debit", "activate"}
       THEN calls[s].bet \in OfWallet(s[1], {"reserving"})
       ELSE calls[s].bet = 0
  /\ \A s \in Seats : calls[s].pc = "activate" => bets[calls[s].bet].charged
  /\ \A s, o \in Seats : calls[s].bet = calls[o].bet => s = o \/ calls[s].bet = 0

\* Which entries the wallet has for a row, by its status and its claim.
LegsFit(b) ==
  /\ b.charged \/ b.status \in {"reserving", "cancelling"}
  /\ b.refunded => b.charged /\ b.status \in {"cancelling", "cancelled", "voiding", "voided"}
  /\ b.paid => b.status \in WonStatuses \cup {"voiding", "voided"}
  /\ b.clawed => b.payout > 0 /\ b.status \in {"voiding", "voided"}
  /\ b.payout > 0 => b.status \in WonStatuses \cup {"voiding", "voided"}
  /\ b.claim = "none" /\ (b.payout > 0 \/ b.status = "cashed_out") => b.paid \/ b.status = "payout_pending"
  /\ b.claim # "none" => b.status \in {"cashed_out", "cancelled", "voiding", "voided"}
  /\ b.claim = "open" => b.status \in {"cashed_out", "cancelled"} /\ ~ b.paid /\ ~ b.refunded
  /\ b.status = "cancelled" /\ b.claim = "none" => b.refunded
  /\ b.status = "voided" => b.refunded
  /\ b.status \in {"voiding", "voided"} /\ b.refunded /\ b.payout > 0 => b.clawed

\* And what a row of this round may pay.
RowsFit ==
  \A i \in DOMAIN bets :
    /\ bets[i].round <= round /\ LegsFit(bets[i])
    /\ bets[i].round = round /\ bets[i].status \in WonStatuses =>
         /\ phase # "betting"
         /\ crash <= 100 * MaxMultiplier => bets[i].payout <= PotentialPayout(bets[i].amount)

\* Under the lock of the round its reserving and active rows only grow fewer: what a call
\* read before its insert is never too low.
ReadsAreSafe ==
  \A s \in Seats : calls[s].pc = "reserve" =>
    /\ SumOf(OfWallet(s[1], {"reserving"}) \cap OfRound(calls[s].round, {"reserving"}), Stake) <= calls[s].reserved
    /\ ExposureOk(CurrentExposure(calls[s].round, s[1]), calls[s].amount)

\* The caps hold of the reserving rows as well.
CommittedWithinCaps ==
  \A w \in Wallets \ straddled :
    LET committed == SumOf(OfWallet(w, WageredStatuses \cup {"reserving"}), Stake)
    IN  /\ \A cap \in setup[w].wager : committed <= cap
        /\ w \notin reclaimed =>
             \A cap \in setup[w].loss : committed - SumOf(OfWallet(w, WonStatuses), Win) <= cap

\* And the exposure of the round counts what it has paid already.
RoundWithinExposure ==
  ~ late => \A w \in Wallets :
    SumOf(InCurrency(OfRound(round, WonStatuses \cup {"active", "reserving"}), setup[w].currency), WorstCase)
      <= MaxRoundExposure

\* The invariant of the books: types, the caps of the sessions, and what keeps them
\* while slots are taken, charged, paid and given back.
CapsInv ==
  /\ TypeOK /\ SessionCapsHold
  /\ NumbersLeft /\ LockExcludes /\ SlotsAreOwned /\ RowsFit /\ ReadsAreSafe
  /\ CommittedWithinCaps /\ RoundWithinExposure

\* The multipliers that the share of 97/x of the hashes (rounded down) does not reach.
Skewed ==
  {x \in 101..MaxCents :
     Cardinality({h \in 0..Entropy - 1 : CrashCents(h) >= x}) # Least((97 * (Entropy + 1)) \div x, Entropy)}

\* The distribution of crash.ts, "P(crash >= x) = (1 - houseEdge) / x": no multiplier a round
\* reaches is reached by more or fewer of the hashes than the house edge says.
HouseEdge == \A x \in Skewed : crash < x
=============================================================================
